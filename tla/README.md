# A formal model of mini-kanban

TLA+ specifications of mini-kanban's backend (NestJS, Prisma, PostgreSQL) and of the
client cache it feeds, with the TLC runs that check them and the TLAPS proofs about
them. Paths below are relative to `src/`; `backend/` stands for
`mini-kanban-backend/src/` and `frontend/` for `mini-kanban-frontend/src/`.

## The system

| component | state | operations | talks to | what is hard |
|---|---|---|---|---|
| rank arithmetic `backend/tasks/rank.util.ts` | none | `between`, `rebalance`, `resolveNeighborBounds` | used by tasks and columns | an unbounded loop; boundaries; what a caller does when `between` throws |
| tasks service `backend/tasks/tasks.service.ts` | task rows (column, rank, version) | create, update, remove, move (SERIALIZABLE, one retry) | guard before, gateway after the commit | moves, creates and deletes interleave at every await; re-spacing rewrites other tasks' rows |
| columns service `backend/columns/columns.service.ts` | column rows | create, update, remove (cascades), move (READ COMMITTED) | rank, gateway | no version: the last writer wins |
| membership `backend/boards/boards.service.ts` | member rows, `Board.ownerId`, audit log | addMember, updateMemberRole, removeMember | audit, gateway | the last-owner check is outside the transaction it protects |
| board listing `boards.service.ts`, `cursor.util.ts` | board rows | keyset pages | | boards change between two pages |
| guards `backend/common/guards/` | none (reads members) | board lookup, membership, role, CSRF, JWT | before every route | what they found can change before the handler acts |
| sessions `backend/auth/auth.service.ts` | refresh tokens, in-memory tickets | login, refresh (rotation, reuse detection), logout, ws-ticket | client session | concurrent refreshes, lost answers |
| gateway `backend/gateway/board.gateway.ts` | rooms | handshake, join, leave, emit | services, sockets | join races removal; delivery stops while a socket is down |
| client cache `frontend/lib/tasks.ts`, `columns.ts`, `realtime.ts` | the board query, optimistic writes, sequence numbers | mutations, event handlers, refetch | REST and socket | answers, events, rollbacks and refetches in any order |
| client session `frontend/lib/api.ts` | one refresh in flight | retry after a 401 | sessions | several 401s at once |
| drag and drop, pages, forms `frontend/components/`, `frontend/app/` | what is dragged | build a move's neighbours | client cache | the neighbours come from a cache that changes during a drag |

What makes each correct:

- ranks: `between` ends, and answers strictly between its bounds with a rank that can
  bound again;
- tasks: a stale drag never overwrites a newer one; the version counts the accepted
  moves; a task never leaves its board; a move lands between the neighbours it named;
  a broadcast describes what was committed, once; every request is answered;
- columns: an accepted order is one some user asked for;
- membership: a board has an owner, `ownerId` names one, the audit trail tells what
  happened;
- sessions: one live token per login; a stolen token is of no use after the owner's
  next refresh; logging out logs out;
- gateway: a ticket opens one socket; events reach every joined socket in order;
- client cache: it converges to the server's board when the network is quiet, and never
  goes back to an older version.

## Modules

| module | models |
|---|---|
| `Rank` | `rank.util.ts` as operators: string order, `Between` in closed form, `Rebalance`, `ResolveNeighborBounds`; the ordered rows of a query and the updates that re-space them |
| `Rank_proofs` | strings are totally ordered, `Between` lies strictly inside its interval, `Rebalance` ascends; a query's list is sorted, the bounds are those of the gap, a midpoint is the only rank in it; for every alphabet |
| `RankBetween` | the loop of `between()` as a state machine, shown to compute `Between` |
| `RankBetween_proofs` | its types, its contract, the length of its result and that it computes `Between`, for every alphabet and all arguments |
| `TaskMove` | the task rows and the handlers that write them, interleaved |
| `TaskMove_proofs` | its inductive invariant, that it implements `TaskRegister`, and the order of a column, for any number of requests, tasks and columns |
| `TaskRegister` | what the tasks service promises: a compare-and-set register per task |
| `BoardMembers` | the members of one board and the handlers that change them, interleaved |
| `BoardMembers_proofs` | its inductive invariant, for any users, requests and boards |
| `RefreshSession` | one user's sessions: the handlers of `auth.service.ts` and the calls of `api.ts`, in several tabs and browsers |
| `RefreshSession_proofs` | its inductive invariant, for any tabs, browsers and calls |
| `BoardSync` | one page's cache of a board: its calls with their optimistic writes and rollbacks, the events, the refetches, beside the calls of others |
| `BoardSync_proofs` | its types, its placeholders, its versions and that a quiet page shows the board, for any calls, cards and columns |
| `ColumnOrder` | the columns of a board and the requests of `ColumnsService`, interleaved at every await |
| `BoardDrag` | drag and drop on a page, over `ColumnOrder` and the move hooks |
| `BoardDrag_proofs` | its types, its previews, where its drops land and the ranks of its columns, for any cards, columns, requests and alphabet |
| `MemberSync` | what a page shows of the membership: tickets, handshake, join, rooms, events, refetches, the share dialog |
| `MemberSync_proofs` | what such a page shows when it is at rest, for any users, changes and faults |
| `MCRankBetween`, `MCTaskMove`, `MCBoardMembers`, `MCRefreshSession`, `MCBoardSync`, `MCBoardDrag`, `MCMemberSync` | the instances TLC checks |

`TaskMove` and `ColumnOrder` extend `Rank`: every rank a handler stores is computed by the
operators that `RankBetween` ties to the code. `TaskMove` instantiates `TaskRegister` with its
refinement mapping; `BoardDrag` extends `ColumnOrder`, whose requests are the page's drops and
somebody else's request. `BoardSync` and `MemberSync` split the page: the board event handlers
of `realtime.ts` are in the first, the member event handlers in the second, the connection in
both, with its tickets, room and lookup in the second only.

### Rank and RankBetween

A rank string is a sequence of digits `0 .. Base - 1`; `last()` is the highest digit
alone. JavaScript's `<` and the database's `ORDER BY rank` are taken to agree (the
alphabet is ASCII and the column uses a bytewise order; the code's comments say the
same), which is `Less`. `Between` states the result of `between()` without the loop;
`RankBetween` has the loop, one action for each of the three branches of its body and
one for the argument check. `resolveNeighborBounds` counts from 0 in the code and from
1 in the model.

### TaskMove

State: `table` (the committed task rows, `NoRow` for none), `columns`, per request its
`body`, `expected` (the `expectedVersion`), `board` (`req.boardId`), `pc` and `reply`, per
transaction the rank it computed (`newRank`), the updates it has yet to make (`todo`) and
its uncommitted rows (`held`), and `wire`, the events sent to the board's room. One
action is what a handler does from one await to the next:

| action | code |
|---|---|
| `Authorize` | `BoardAccessGuard.canActivate` and `resolveBoardId` |
| `CheckTarget` | `TasksService.move`, the lookup before the transaction |
| `AttemptMove` | `attemptMove` from the neighbour read to the conditional update: it throws, conflicts, or goes on to write |
| `PlaceTask`, `RespaceRow`, `Commit` | the update of the moved row, one update per sibling, the end of the transaction |
| `SerializationFailure`, `GiveUp` | P2034, the one retry, and the 409 after the second failure |
| `CreateReads`, `InsertTask`, `CreateVictim` | `TasksService.create` |
| `UpdateTask`, `RemoveTask`, `RemoveColumn`, `StatementFails` | the single-statement handlers |
| `Broadcast` | `gateway.emit` and the answer |

PostgreSQL is external, modelled from how the code uses it:

- rows a transaction has written are invisible to others, and locked, until it ends;
- a SERIALIZABLE transaction takes its snapshot at its first query; an update of a row
  that somebody has committed since then fails with P2034 (`stale`);
- two moves of which each wrote a column the other had read cannot both commit
  (`Skewed`). This is less than PostgreSQL refuses: `SerializationFailure` lets it fail
  a move whenever another one runs beside it, so that its answer is any of the answers
  the real server can give. `UPDATE`s by READ COMMITTED statements take no part in it;
- a cycle of waiting transactions is broken by failing one of its members: a move gets
  P2034, a create an error nothing retries.

The insert and the re-read of `create` are one action: what other transactions commit
between them neither sees nor changes what the insert does. A foreign key to a removed
column fails, and an uncommitted row keeps its column from being removed. Title and
description are left out; a request's client may send any version it can have seen, and
up to `MaxAhead` more, since the client counts its own unanswered moves. A crash of the server is not
modelled: transactions roll back and nothing else is persistent. Roles are not
modelled here; the guard's other half is in `BoardMembers`.

`RemoveColumn` is one step, once no transaction has written a row that it takes away. In the
database the cascade locks those rows one after the other, so it can also wait for, or be the
victim of, a re-spacing that holds some of them. The ends are the same: the column with all its
tasks is gone, or nothing has changed and the request has failed (`StatementFails`).

Two things follow from the code and look odd in the model. `beforeTaskId` alone makes
the upper bound `last()`, not the next sibling. And `create` cannot fail in `between`,
because no rank is as high as `last()`.

### BoardMembers

State: `role` (the committed `BoardMember` rows, `None` for none), `ownerId` (`None` once the
board is gone), `senior` (which of two rows was created first), per request its `body`,
`pc`, `reply`, what it has read (`before`, `successor`), and what left the transaction:
`log`, the audit entries, and `wire`, the events. `create` is the initial state: its
transaction makes the board and the owner's row together, and no request can name the
board before. One action is one statement, or what follows the transaction:

| action | code |
|---|---|
| `Authorize` | `BoardAccessGuard` and `RolesGuard`: the caller's role, read once |
| `FindUser`, `InsertMember`, `InsertFails` | `addMember` |
| `ReadTarget`, `CountOwners` | `assertLastOwnerSafe`, outside the transaction |
| `WriteMember`, `WriteMemberFails` | the update or delete of the member row; P2025 becomes a 404 |
| `ReadOwner`, `ElectSuccessor`, `HandOver` | `syncBoardOwner` |
| `Commit` | the end of the transaction |
| `RenameBoard`, `LockBoard`, `RemoveBoard` | `update`; `remove` and its cascade |
| `DeadlockVictim` | PostgreSQL fails one member of a cycle, no handler retries |
| `Audit`, `Announce` | after the commit: the entry, whose failure is swallowed, and the event |

These transactions run at READ COMMITTED: each statement reads what is committed when it
starts, and the rows written are locked until the commit. A transaction here writes one
member row and then, perhaps, the board's, so its effect is applied by `Commit` and `pc` says
what it holds. The cascade of a board's removal locks the board first and the members
after it; a hand-over does the opposite, which is the one deadlock of this module.

Two variables are not in the code. `was` is the role that the commit replaced, `beside` the
requests that committed a membership change between `before` being read and the commit.
With them a property can say *unless another request overlapped*, and which kind of
overlap: the code's checks are right for a request that has the members to itself, and
the model says exactly how much company they bear. Audit entries are a set, as the
table has no order the code relies on. Names, emails and the display fields are left out.

### RefreshSession

State: the cookies of each browser (`jar`; `mk_sess` comes and goes with `mk_rt`), the tokens that
have expired (`stale`, `expired`), the `RefreshToken` rows (`row`, `replacedBy`), per call what
it asks for (`body`), where it stands in `api()` (`pc`), the access token it was sent with
(`carries`), the refresh token its refresh was sent with (`presented`), where the server is
with the login, logout or refresh it caused (`stage`), and per tab `refreshInFlight`. The
variable `refreshInFlight` of `api.ts` belongs to a page, the cookies to the browser: two
tabs share the second and not the first. The two tokens of a session are named by the call
that obtained them, so nothing has to be drawn at random.

| action | code |
|---|---|
| `Send`, `Answer`, `Refuse` | `api()`: the request, an answer, a 401 and what it leads to |
| `RefreshOnce` | `refreshOnce()`: start the refresh, or join the one in flight |
| `Begin`, `CreateToken` | `login` (`issueSession`); `Begin` also starts a `logout` |
| `FindToken`, `Burn`, `Report` | `refresh`: the lookup, the revocation of every live row, the audit entry, whose failure is swallowed |
| `Rotate` | the transaction of `refresh`; its update names the row by id only |
| `Logout` | the revocation of every live row |
| `Deliver`, `Settle` | the answer with its cookies arrives; those who await the promise send again or give up |
| `Lose`, `Cut` | a request or an answer is lost; the server finishes a handler it has started |
| `ExpireAccess`, `ExpireSession`, `ExpireCookie` | 15 minutes; 7 days on the server; the cookie's `maxAge` |

`query` stands for every authenticated route and for any number of retries by the caller, `me`
for the one caller with `skipAuthRetry`, `wrongLogin` for a login with a wrong password, whose
401 makes `api()` refresh too. A cookie and the access token in it expire together, so a call
without `mk_at` is one that carries a stale token or none. `updateMany` and the rotation are
atomic: where they overlap, the row lock and the statement's snapshot give the result of one
before the other. A page that navigates away with calls under way is not modelled.

Five variables are not in the code: `root` (the login a token goes back to), `forked` (logins of
which a token was rotated twice), `ended` and `overtaken` (logins whose tokens have all been
revoked, and those of them with a rotation under way just then), `purged` (tokens revoked
without rotation). Like `beside` in `BoardMembers` they let a property name the one overlap
that the code does not guard against, and exclude every other.

### TaskRegister

What clients may rely on, without transactions: each task is a register of board, column and
version, a move compares the version and sets the register at one instant, a create, an edit, a
removal and a column's removal take effect at one instant too, and a refused request changes
nothing. `TaskMove` maps to it by forgetting ranks, transactions and events (`Cell`, `Outcome`);
the instant is the commit. A re-spacing, which writes any number of other rows, maps to the same
step as the move that caused it, so it may touch no register but the moved one. `Submit` covers
the guard: what it lets through has the version that the client sent.

### BoardSync

State: the committed `board`, the history of accepted calls (`order`), the calls with their stage
at the server and their answer to the page, the page's `cache` with the placeholders of its own
creates (`temps`), and per own call the `snapshot` and `expected` version; the connection with the
events in its `inbox`; the `fetch` in flight. A title, a text and a rank are named by the call that
wrote them last, `Guess` is a rank the page has estimated. So two states of a card are equal only if
the same calls made them.

| action | code |
|---|---|
| `Mutate` | `onMutate` of the eight hooks of `tasks.ts` and `columns.ts`: cancel the fetch, take the snapshot, write the cache; then the request |
| `Commit`, `Refuse`, `Announce` | the services, as `TaskMove` and `ColumnOrder` have them: accept, refuse (with the committed row, for a 409), emit |
| `Answer` | `onSuccess` |
| `Refused`, `Lose` | `onError`: after a refusal, or after an answer that never comes |
| `Deliver` | the eight board event handlers of `realtime.ts` |
| `Connect`, `Join`, `Disconnect` | the socket: all but the first connection ask for the board again |
| `ReadColumns`, `ReadCards`, `Land`, `FetchFails` | `findOne` reads twice; then its result replaces the cache |

The cache operators are those of the two files, one by one. What they do at the edges follows the
code: a move into a column that the cache does not know takes the card out of every array; an edit's
answer leaves the card in its array while it takes the version; `replaceTaskId` removes the real row
when its placeholder is gone; a column that is inserted has no cards.

`trouble` is what the property needs to be exact. Whatever the protocol has no guard for adds an
entry when it happens, and a fetch that reads after it takes the entry out again:

| entry | what has happened |
|---|---|
| `missed` | an event was emitted while the socket was not in the room, or cut off |
| `respaced` | ranks were rewritten, which nothing announces (`tasks.service.ts` 218-228, `columns.service.ts` 127-131) |
| `outdated` | an event or an answer wrote a row whose newer state was there already |
| `orphaned` | a move of a card that the page does not have: the event carries no title to insert it with |
| `rollback` | a snapshot was restored during whose call the page had taken in something else |
| `mistaken` | an event was ignored during a move because the page's own estimate had taken its version, and the move then failed without a 409's row that is newer than the one put back |
| `patched` | an edit's answer found a card that its own event had written with a newer version than the card now has: the answer takes the version and leaves the column |
| `swapped` | a create's answer came when its placeholder was gone and removed the row itself |
| `landed` | a fetch landed that had read before something the page already knew |

The list is complete: `SettledMeansSynced` holds on every instance tried and is proved for all.
Each entry but two was found as a counterexample of TLC. The last entry, and the condition on the
409's row, came out of the proof: three calls are too few for either to happen, four show both
(`MCBoardSync` has them since). A
page that has been cut off therefore catches up by its refetch and nothing else does the work: a
rollback, an overtaken answer or a lost echo stays on the page until the next fetch. Two guards of
the code turned out not to be needed for it: `isCurrent`, and the version that `moveTaskOptimistic`
adds.

Left out: dialogs that stay open over a card another user deletes (`Shown` needs the card in the
cache), descriptions, and the order inside a column's array, which the page sorts by rank.

### ColumnOrder

State: the committed ranks (`cols`), per request what it asks for, where its handler stands, the
writes its transaction has to make and has made (`todo`, `held`), and the events. The transactions
run at READ COMMITTED: they read what is committed, write rows that stay locked and invisible until
the commit, and are not retried. `ReadForMove` and `ReadForCreate` compute the rank with `Rank`'s
operators, `Write` is one `UPDATE` or the `INSERT`, `Relist` the second read of a create whose rank
came out too long, `Statement` rename and remove, `DeadlockVictim` PostgreSQL's choice among
transactions that wait for each other. A create locks the row it is about to insert with its id, so
nobody else can name it. A move names neighbours, as the page does, or a position, as the DTO also
allows, or neither. The updates of a re-spacing are issued together (`Promise.all`); the transaction
has one connection, which runs them in list order.

Three variables are not in the code. `gap` is the interval whose ranks a request writes: its
two bounds, or everything when it re-spaces. `fresh` has the requests into whose interval nobody
else has put a column since they read it, and which were asked for neighbours that stood side by
side. `muddled` says that one has committed that was not fresh. So two creations beside each other
muddle nothing if the second one reads after the first commit, nor does a removal or a re-spacing
that stays out of the interval; two midpoints of one gap do.

### BoardDrag

State: what the pointer holds, `dragOrder` and `columnOrder` (the previews), where the drag began, the
cached ranks and cards, the card moves made and the last one of each card, and `columnReset` and
`cardReset`, the move of each hook whose answer will reset the drag: TanStack Query calls the
callbacks given to `mutate()` for the latest call of a hook only.

| action | code |
|---|---|
| `PickUpColumn`, `PickUpCard`, `DragOver`, `DragCancel` | the handlers of the same names in `useBoardDnd.ts` |
| `DropColumn`, `DropCard` | `handleDragEnd`: nothing to do, or a move with the neighbours of the preview |
| `Undo` | the button of the toast that a successful card move shows |
| `AnswerColumn`, `AnswerCard` | `onSuccess` or `onError` of the hook, then `onSettled` |
| `Serve` | a step of `ColumnOrder` |
| `Deliver`, `RemoteCard` | column events; another user's card events |

The server's answer to a card's move is one or the other, which `TaskMove` decides; the answer to a
column's move comes from `ColumnOrder`. `DropColumn` allows another column's tab only, as
`collisionDetection` does. Ghosts: `aim` is the preview as it would be had no answer reset it, `wiped`
whether one has; `plan` is the order that a drop should bring about. The position of a move is somebody
else's only: a page's drop always sends neighbours.

### MemberSync

State: the committed roles, the changes with their stage, the page's two queries (`data`, `error`,
`fetch`), and the connection from its ticket to the room. One action each for what the gateway and
the hook do between two awaits: `IssueWsTicket`, `Handshake`, `Connect`, `FindMembership`, `Join`,
`Acknowledged`. `Guard` and `ListMembers` are the two reads of a fetch of the members, the check
included; the board's own fetch reads the role in one. `Deliver` has `member.roleChanged`,
`member.removed`, and the board events as far as they write the board's query (`content`). The removal
of the board (`delete`) takes all its members along without an event, and nothing commits after it.
`LookupFails` is a membership lookup that rejects: no acknowledgement, and no second attempt. `Offered` is
the share dialog: who may be changed, and to what, by what the page shows. `Unmount` and `Mount`
leave the page and come back to it; the cache outlives the visit.

Here too `trouble` lists what the protocol does not cover: a change before the room is joined
(`early`), an invitation or the removal of the board, which have no event (`unannounced`), an older change announced after a newer
one (`crossed`), an event about the user before `["me"]` is known (`unknown`), an event that clears the
403 page by writing the query (`revived`), a fetch that landed with older data (`landed`), failed
(`failed`) or was cancelled by an edit (`cancelled`), an invalidation during a first fetch, which joins it
(`joined`). Being cut off while live is not in the list: the refetch after a reconnect covers it.

Left out: a connection that closes while its ticket is being fetched, and the separate observer of
the share dialog, which asks nothing more. Which changes are accepted is `BoardMembers`' business: here
a change commits when its row allows it. Tickets of other users only matter by the sweep that issuing
them causes.

## Runs

| run | question | instance |
|---|---|---|
| `rank_between` | is the loop right for every pair of ranks? | 4 digits, ranks up to 3 long, each pair in both orders |
| `task_move` | do the tasks stay right under every interleaving, and do they implement `TaskRegister`? | 3 requests over 2 columns of one board and 1 of another, 3 tasks and one to create, 78 workloads |
| `board_sync` | does a page show the committed board once everything is quiet? | 2 columns and one to create, a card and one to create, 4 calls of which some are the page's own, 12 workloads |
| `board_drag` | are drops sent, do they land where they were shown, do previews end? | 3 columns and one to create, 2 cards, 2 own column moves, 3 card moves, another's request, 8 workloads |
| `member_sync` | does a page catch up with its role and the list of members, and end up live? | 2 users, 3 changes, 9 workloads |
| `collision` | is a rank collision harmless, as PLAN_EN.md 266 says? | three moves; it is not |
| `deadlock` | can moves never deadlock, as tasks.service.ts 171 says? | two moves that re-space; they can |
| `board_members` | what holds of owners, `ownerId`, the audit trail, rows and events under every interleaving? | 3 users, 2 boards, 3 requests, 36 workloads |
| `ownerless` | can a board never end up ownerless, as PLAN_EN.md 300 says? | two owners demote each other; it can |
| `owner_id` | is `ownerId` never observed naming a non-owner, as boards.service.ts 276 says? | an owner leaves while the next in line steps down; it is |
| `refresh_session` | do rotation, revocation and the shared refresh keep their promises, whatever is lost, late or expired? | 2 browsers, 3 tabs, 3 calls, 7 workloads |
| `reuse` | is a revoked token that comes back always a rotated one, as auth.service.ts 97 says? | one browser signs out and in, the other comes back; it is not |

Bounds. Four digits give a lowest, a highest and two inner ones, so adjacent digits,
gaps of two and gaps that need rounding occur, and rank lengths up to 3 put every branch
after every other. In `MCTaskMove` base 8 and threshold 1 play the roles of 36 and 40:
the third insert between two neighbours re-spaces, and a re-spaced column of four has
ranks of one digit again. Two moves are needed for a conflict, a third request for
something to interfere with it; the workloads are every pair out of six moves (into one
gap, after one task, to the front, to another column, with a neighbour that may not be
there) beside a create, a delete or a column removal, and the pairs of other
requests that can meet. Every action and every disjunct fires.

In `MCBoardMembers` three users are an owner, a second owner to hand over to and a member
who can be either; the two boards differ in who is an owner already. Two changes can
overlap, the third request makes the first check stale (a promotion, a demotion, a new
invitation of the member that is being removed) or removes the board. More users would
only add owners that nobody demotes, and with them the hazards disappear.

In `MCRefreshSession` both browsers are signed in and their access tokens have expired, which is
where refreshes start. One browser has two tabs, so that two refreshes can share cookies and
not the promise; the other one is who a logout or a burn hits unaware. Each workload pairs a
refused call with one of its own tab (the promise is shared), one of the other tab (it is
not) and one of the other browser. Bounds: only the calls in `Fragile` can lose their
connection, only the tokens in `Aging` and `Lapsing` expire a second time; a third call
that breaks, or ages, repeats what the other two can do. Every action and every disjunct
fires.

In `MCBoardSync` most workloads are a pair of calls that share a card or a column, one of them the
page's own in most, with a third call as the disturbance; two have a fourth, as the cases need that
three calls do not reach (an older row over an edit's own event; a 409 whose row is no newer than the
ignored one). The connection is lost at most twice, and each own call can lose its answer. That no
larger instance behaves otherwise is not a matter of bounds here: all four invariants are proved. In `MCBoardDrag` base 6 and threshold 1 make the second move into one gap
re-space the board. Two own column moves give an answer that comes during a drag; three card moves
give a drop, its Undo and a drop beside it. In `MCMemberSync` the user at the page and another one
are changed, removed and invited again, by others or by the page itself, and the board is removed under
them. `faults` bounds what can go wrong (a lost connection, answer or ticket, a failed lookup, a failed or
cancelled fetch, leaving the page) by one or two: twice is enough for a fault during the recovery of another. Every action and every disjunct
fires in each of them.

`EveryCallSettles` assumes weak fairness of each call's steps (`Progress`): the server
finishes the handlers it has started and the network delivers an answer or breaks the
connection. Losing, expiring and sending are not assumed.

`EveryRequestAnswered` assumes that a handler that can take a step eventually takes one
(`Fairness`): Node's event loop and PostgreSQL starve no request, a lock wait ends when
its holder commits, a deadlock is found by `deadlock_timeout`. Clients are not assumed
to send anything. The fairness is written with `Ready`, which spells out when
`Handle(r)` is enabled. Requests are handled once each, so the model ends; `Idle` makes
that a step and TLC still looks for deadlocks.

`EventuallyLive` assumes that socket.io-client, which tries to connect again by itself, does so,
that the server handles a handshake or a join that has arrived, and that a page handles what it has
received (`Fairness` in `MemberSync`). The lookup of a join may fail all the same: that page stays
connected outside the room, which the property names as one of the states a page may end in, beside
the refused handshake and the lookup that finds no row. The fetches are not assumed to end, nor any user to act; what
can go wrong is bounded by `faults`, since a connection lost for ever is never live.

`MidpointIsOwn` and `MovesLandBetweenNeighbours` are stated while no create of the same
instance has committed: `create` re-spaces at READ COMMITTED and can overwrite the rank
of a task that has just been moved (see the hazards in PROJECT.json). The first one also
requires that the bounds are adjacent: the collision above is the case where they are
not.

`OwnerlessTakesARace`, `OwnerIdStaleTakesARace` and `AuditTellsWhatChanged` are what is left of three promises of the code once overlaps are allowed. They
are not vacuous: the mutants show that a check that is off by one, a hand-over that is
forgotten, a successor of any role break them in a run without an overlap.

### Findings

- A collision is not harmless. Two tasks put after the same one get the same rank, one
  move after the other, with nothing concurrent about it; the next drop between the two
  makes `between()` throw, which the client sees as a 500, every time, until one of them
  is moved away.
- Two moves that both re-space a column update its rows in list order after their own
  row, and can wait for each other. PostgreSQL fails one; the retry absorbs it once.
- A board can end up without an owner. `assertLastOwnerSafe` counts before the
  transaction, without a lock: two owners who demote each other, or leave together, are
  both told that another owner remains. Nobody can then invite, promote or delete.
- `Board.ownerId` can name somebody who is not an OWNER although another one exists. A
  successor is read and written in two statements, and can be demoted in between by a
  request that the owner count allows. Nothing repairs it later.
- Reuse detection takes a sign-out for a theft. A logout revokes the rows of all browsers
  without rotating them; when another browser comes back with such a token, the refresh
  handler audits REFRESH_TOKEN_REUSE and revokes the session that was created since.

`TwoLiveTakesAFork`, `RevivedOnlyWhenOvertaken` and `NoFalseAlarmInOneTab` also say how far
three more promises go. Two refreshes with one token (two tabs do that) can both rotate
it; a refresh that has read its row before a logout creates a live token after it; two
tabs can set off the alarm that `api.ts` 56-65 avoids within one. The code's comments claim
none of the opposite: the first speaks of crashes, the last of one tab.

What the client runs show and no sentence of the repository denies outright, so that no run is
devoted to it:

- A page that drags a card gives it the next version at once, and ignores another user's move of the
  same number as an echo of its own. If its own move is then lost, or fails without the committed row,
  the ignored move stays unseen until the next fetch. A page's own echo is ignored likewise, and if the
  answer after it is lost, the rollback takes the committed move away.
- Drags of one card in quick succession leave the cache ahead of the server until the newest has been
  answered; `AheadByOwnMovesOnly` says it is by those moves and no more.
- A failed call restores the whole board as it was, with the events and answers that came in since
  undone, and other placeholders back (`PlaceholdersArePending` excepts this case).
- `useBoardDnd.ts` 249-251 calls it harmless to reset both drags at once, as only one is in flight. The
  answer of an earlier drop can come during the next drag, which it ends; the drop that follows does
  nothing. `DropsAreSent` excepts the drags this happens to.
- An Undo made while another drop is open takes over the hook's callback: the preview stays, and hides
  what others do to the board until the next drag.
- A socket that the middleware has refused does not connect again by itself, and nothing tells it to.
- `CancelQueries`: any edit cancels the fetches under the board's key, which is a prefix of that of the
  members; a list of members that was being fetched for the first time stays empty.

## Proofs

TLAPS checks, for every value of the constants that the named assumptions allow
(`BaseAssumption`, `ThresholdAssumption`, `ArgumentsAssumption` for ranks; `BoardAssumption`,
`WorkloadAssumption`, `TableAssumption`, `IdAssumption`, `AheadAssumption` for `TaskMove`; `UserAssumption`,
`NoneAssumption`, `WorkloadAssumption`, `BoardAssumption` for `BoardMembers`; `NoneAssumption`,
`PastAssumption`, `TabAssumption`, `WorkloadAssumption`, `JarAssumption` for `RefreshSession`;
`IdAssumption`, `BoardAssumption`, `WorkloadAssumption` for `BoardSync`; `ColumnAssumption` and `RowAssumption`
for `ColumnOrder`; `OwnAssumption`, `IdAssumption`, `NoneAssumption`, `WorkloadAssumption` and `RowsAssumption` for `BoardDrag`;
`UserAssumption`, `NoneAssumption`, `ChangeAssumption`, `WorkloadAssumption` for `MemberSync`):

- `RankBetween_proofs!TypeCorrect`, `ResultStrictlyBetween`: what `between()` returns lies
  strictly between its arguments and does not end in the digit 0. The invariant is `Walk`:
  the prefix is the lower bound's digits padded with 0, and it is either still a prefix of
  the upper bound or already below it. Without the second half nothing bounds the result
  from above once `upper` is dropped.
- `RankBetween_proofs!GrowsByOne`, `LoopComputesBetween`: `Path` says how the loop came where it is, along
  digits in which both arguments agree or, once they have parted by one, along highest digits of the lower
  one. So the round in which it ends is the one `Between` names (`BetweenWide`, `BetweenNarrow`), and every
  round before it has a digit of one of the arguments (`WithinArguments`), which bounds the length.
- `Rank_proofs!BetweenIsBetween`: the closed form lies strictly inside its interval and does not end in the
  digit 0, which is what the next call needs of it. `FillRangeAscends`, `RebalanceAscends`: `rebalance(n)` gives
  n ranks in ascending order, which its comment (rank.util.ts 111-116) says holds "by construction (not by
  separate proof)". `FillRange` is a recursive function, and the library's induction theorems cannot be
  used here: that it is defined for every n (`FillExists`), and ascends, is shown of the least n of which it
  were false. The module goes on to lists, for tasks and columns alike: a query returns each row once and
  sorted (`ListIs`), the bounds of a place are the ranks beside it (`BoundsAre`), a rank between two
  neighbours of a sorted list is nobody's (`GapIsFree`), a re-spaced list ascends (`SpacedIs`).
- `TaskMove_proofs!TypeCorrect`, `OneDragWins`, `TasksKeepTheirBoard`. `IInv` adds to them:
  a row is held by one transaction at a time and only after its first update; the version
  a move matched stays the committed one until it commits, because whatever changes the row
  is either in `stale`, which stops the move, or waits for the lock; a re-spacing keeps the
  versions of the rows it re-ranks; an accepted move has left its expected version behind;
  the id of a row to be created is in no transaction. `OneDragWins` then needs only that a
  winner's row is ahead of its `expectedVersion`. Most handlers change no row: they share
  the lemma `Quiet`; the writes inside transactions share `Write`, the single statements
  `Erase`, and `Commit` has its own.
- `BoardMembers_proofs!TypeCorrect`, `LastOwnerIsSafeAlone`, `OwnerIdIsHonestAlone`,
  `AuditIsRightAlone`, `NoMembersWithoutBoard`. `IInv` follows each request through its
  window: another owner than the target remains, or a request in `beside` took one away
  (`CheckHolds`); the successor is an owner, and a request without one does not concern the
  recorded owner, or likewise (`HandOverHolds`); the target's role is still the one that was
  read (`BeforeHolds`), up to the commit and after it (`WasHolds`). `HoldsBack` is why the
  cascade cannot remove the rows below a transaction. That two owners or more leave one
  beside the target is the only arithmetic: the cardinality of a finite set without one
  element. The last step is that a commit which empties the set of owners, or orphans
  `ownerId`, makes `Raced` true by its own `beside`.
- `RefreshSession_proofs!TypeCorrect`, `RotationLeavesOneToken`, `RevokedForGood`,
  `CookiesFollowRotation`, `OneTabRaisesNoAlarm`. `IInv` says where each refresh token is. A
  token is handed out by one answer to one browser (`TokensHandedOut`), so what a call
  presents is in no other browser's cookies; once the answer is there it is in none
  (`PresentedOnce`), so the next refresh of the same tab presents another token unless the
  answer was lost. A login's tokens form a chain of which only the last is not replaced
  (`OneChain`); only a second rotation of one token, which `Rotate` does not notice, makes it
  fork. A rotation under way while everything is revoked is the only way back
  (`RotationsOvertaken`). `CallsFit` and `TokensFit` relate the client's place to the server's
  and rows to holders. Each action has a lemma with one step per conjunct; `SettledShape`
  gathers what `Deliver` and `Cut` do to the calls of a tab.

- `TaskMove_proofs!RegisterImplemented`: `Spec => Register!Spec`. Beside `IInv` the mapping needs that
  an answer is there from the commit on and not before (`AnswersFit`), that a transaction writes the row
  its request is about as the request says and any other row with a new rank only (`HeldCells`), and that
  a create has inserted its row before it re-spaces (`CreatesInsert`). Handlers that change no row map to
  `Submit`, `Refuse` or a stutter and share one lemma; `Commit` has the matched version from `IInv`, so the
  comparison of the register holds at that instant.
- `BoardSync_proofs!PlaceholdersPending`: every operator on the cache keeps or removes placeholders
  (`Fewer`); only `Mutate` adds one, and its answer removes it. A rollback could bring one back, and does
  not, because the snapshot of a call that nothing overlapped was taken while no other call was open
  (`SnapshotInv`).
- `BoardSync_proofs!TypeCorrect`: every operator on a cache keeps it a copy (`IsCopy`: every card is in a
  column that is there, every placeholder in one that is), and every row a call comes back with is a row
  of the board, without an estimate in it.
- `BoardSync_proofs!AheadByOwnMoves`: the history of commits says of each payload what has been done to its
  card since (`HistoryInv`: a card's version is that of its last move, the payloads of a card's moves have
  their order's versions). For each copy the page may still show or put back `AInv` bounds the version by
  the board's, or by that and the number of the page's own moves that are not committed while one is open;
  an optimistic write makes both one more, a commit takes one from the second and gives it to the first.
- `BoardSync_proofs!SettledIsSynced`: the page converges. `SettledMeansSynced` speaks of a quiet page only,
  and nothing in it is inductive. `SInv` says of the cache, of what a fetch has read and of each snapshot a
  failure may put back, field by field, what accounts for a difference from the board: an event still to
  be emitted or delivered (`Coming`), a call of the page that is open, or a move that is still to come and
  whose version the copy has not reached (`SyncRow`, `SyncText`, `Missing`, `Doomed`, `SyncColumn`). For a
  fetch the calls to come are those committed after its first read, and for a snapshot the moves the page
  ignored on account of its estimate count as to come (`Seen`). Three facts carry the steps. Committing a
  call adds it to what is to come, so it accounts for what it changes (`CommitCardSync`). An event or an
  answer that is written without an entry in `trouble` undoes only what is itself still to come
  (`Unbeaten`, `DeliverSInv`, `AnswerSInv`). A copy with an older version than the board's has a move to
  come (`BehindMove`), because the last move made that version. When nothing is to come and nothing open,
  each clause is false but equality (`SettledCard`, `SettledColumn`).
- `BoardDrag_proofs!PreviewsEnd`: a preview the pointer has let go of waits for an open move of its hook,
  the one whose callback it is (`ColumnAwaited`, `CardAwaited`), unless an Undo came between.
- `BoardDrag_proofs!RanksStayDistinct`: no two columns get one rank while `muddled` is false. `RInv` says of
  each open request what its transaction will leave behind when the writes it still has to make (`todo`) are
  added to those it has made: distinct ranks, with each row it does not write kept (`Consistent`, `Fits`). It
  has to say so at every one of its writes, and of a fresh request only. When it reads, a midpoint is the only
  rank in its gap (`GapIsFree`), because the list is sorted (`ListIs`) and every row of the board is in it
  (`TableListed`); a re-spaced list holds each row once (`InsertCovers`). Whoever commits in between changes
  that list, but as long as it does not enter the interval (`Entered`), a row it has changed lies outside
  and what the request writes lies inside (`InGap`), so the two cannot meet (`NotEntered`).
- `BoardDrag_proofs!ColumnsLandWhereShown`: a committed drop shows the planned order. `DInv` says of the
  request of a calm drag, while it is on its way, that it asks for the neighbours of the planned order
  (`DropAsked`), and of its transaction that the writes it still has to make turn the rows it sees into
  that order (`Shows`). It holds when the request reads, because the list it reads is the planned order
  without the column and the rank is in the gap asked for (`MoveShows`); each write is one of those planned
  (`WriteShows`), and a commit with none left shows the order (`CommitShows`). Any other commit ends the plan.
- `BoardDrag_proofs!DropsReachTheServer`, `TypeCorrect`: `TInv` says that the preview of a drag that no
  answer has wiped is where the pointer has taken the column or card (`ColumnHeld`, `CardHeld`). The rest is
  types: the code returns early when a preview, a list or a place is null, so the page's lists have to be
  lists and the card has to stand in one of them (`PageTyped`, `PlacedTyped`, `CrossedTyped`).
  `NoneAssumption` says that null is none of these; an answer that carried no rank would break the page's
  lists, so `AnswersTyped` is needed as well. `DInv` and `TInv` ran as invariants on `MCBoardDrag` before
  they were proved.
- `TaskMove_proofs!MovesAnnouncedOnce`: an accepted move's answer carries the version after the one it
  matched (`AnswersCarryVersions`, from `PlacedVersions`), and what is on the wire is an answer
  (`WireHolds`); two events with one version would be two winners, which `OneWinnerPerVersion` excludes.
- `TaskMove_proofs!VersionsCountMoves`: a commit adds one to the version it has matched and its request
  to the accepted ones; a create's row starts at 0 because no move of a row still to be created was accepted.
- `TaskMove_proofs!MovesLandWhereAsked`, `MidpointsAreOwn`: where a committed move stands. `OInv` describes a
  move in flight by the ranks its column can have once it commits (`FinalRanks`: what is planned for a row,
  what the move has written, or what is committed). While only moves add rows, and no committed rival has
  read the column the move puts its task into (`Undisturbed`), the task's final ranks lie between those of
  the neighbours asked for (`LandsRight`), and they are apart from every other row's, unless the
  move has written nothing but a midpoint between neighbours it named (`LandsAlone`). Both hold at the attempt, because
  the bounds are those of the gap (`PlaceIs`) and a re-spaced list ascends in its order (`RespacingIs`);
  the move's own writes only narrow the final ranks (`OrderNarrows`); and a step of another request that
  leaves the move undisturbed only removes rows from the column (`OthersOnlyRemove`): whoever writes
  one has read it. At the commit `~Skewed` is what gives
  `Undisturbed`. For the bare midpoint the gap still holds then (`GapStillHolds`), so a row with its rank would
  lie in it. `OInv` ran as an invariant on `MCTaskMove` before it was proved.
- `BoardMembers_proofs!ChangesAnnouncedOnce`: a request on the wire is done (`WireHolds`), so it does not
  get there again. `OnlyInvitationsAdmit`: a transaction that has written a member's row has it to itself
  and the row stays until it commits (`RowsAreHeld`), so its commit brings back no row.
- `MemberSync_proofs!RoleIsShown`, `MembersAreShown`: what the page has for a row is what the changes it
  has heard of have made of it, or nothing for someone whose invitation it has not heard of (`Knows`, for
  the data and for what a fetch has read). A committed change it has not heard of is still to be
  announced, on the wire, or marked in `trouble` (`HeardInv`); after a reconnect the mark `cut off` comes
  with a fetch in flight (`CutOffInv`). The last change of a user made the row (`RoleInv`), so hearing of
  a change with no later one heard keeps `Knows` (`HearKnows`), and a commit unheard takes nothing from it
  (`CommitKnows`). Steps fall into four kinds with a lemma each: those that only move fetches
  (`QuietSteps`), those that mark what is not heard (`MarkSteps`), a commit, and a fetch or an event that
  arrives.

Every safety invariant and every action property of a run is stated by a theorem. Only model-checked:
termination, `EveryRequestAnswered`, `EveryCallSettles` and `EventuallyLive` (liveness under fairness, out
of TLAPS's reach), and what the runs that expect a violation show.
`IInv` of the four older modules and `Walk` are proved, and no longer run as invariants.

## Not modelled

- Board listing and its keyset pages: reads that keep nothing from one page to the next.
- `register` (one insert, then a login), and the stateless guards (CSRF, JWT), validation,
  configuration, health checks: a unit test says as much.
- Rendering, forms, menus, the search for invitation candidates, the other pages; the cache that a
  logout clears and the middleware's redirects.
- A crash of the server: transactions roll back, tickets are in memory and lost, and clients see the
  same as after a lost connection. A missing audit entry is one of `Audit`'s outcomes.
- A card dropped on the tray of a column whose creation is not answered yet (`BoardColumn.tsx` 83 takes
  it): the server knows no such column, refuses, and the page rolls back, which `BoardSync` has for
  every refused move.
- PostgreSQL, Prisma, Socket.IO, TanStack Query (5.102) and dnd-kit are external, modelled by what the
  code uses of them.
