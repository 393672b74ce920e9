----------------------------- MODULE MemberSync -----------------------------
(***************************************************************************)
(* What an open board page shows of the board's membership: the role of    *)
(* its user and the list of members (lib/board.ts, lib/members.ts,         *)
(* ShareModal), kept by refetches and by the events of the board's room    *)
(* (lib/realtime.ts), which its socket enters with a ticket and a second   *)
(* check (auth.service.ts, board.gateway.ts), beside requests of others.   *)
(*                                                                         *)
(* Which changes are accepted is BoardMembers' business; here one commits  *)
(* when its row allows it, or is refused.  TanStack Query and Socket.IO    *)
(* are external: an invalidated query is fetched again from the start once *)
(* it has data, a written one is no longer in error, a socket refused by a *)
(* middleware does not try again, a connection delivers in order.          *)
(***************************************************************************)
EXTENDS Naturals, FiniteSets, Sequences

CONSTANTS
  Users, me,    \* the registered users, and the one at this page
  Changes,      \* requests, of this page or of anybody else
  Workloads,    \* what they ask for, the roles and the page at first, the faults to come
  None, NoData

Roles == {"OWNER", "EDITOR", "VIEWER"}
Queries == {"board", "members"}

ASSUME UserAssumption == me \in Users
ASSUME NoneAssumption ==
  /\ None \notin Roles /\ NoData \notin Roles /\ None # NoData
  /\ {None, NoData} \cap [Users -> Roles \cup {None}] = {}
ASSUME ChangeAssumption == {"ok", "FORBIDDEN"} \cap Changes = {}
ASSUME WorkloadAssumption ==
  \A w \in Workloads :
    /\ w.role \in [Users -> Roles \cup {None}]
    /\ w.live => w.role[me] # None
    /\ \A c \in Changes :
         /\ w.changes[c].kind \in {"update", "remove", "add", "content", "delete"}
         /\ w.changes[c].kind \notin {"content", "delete"} => w.changes[c].user \in Users
         /\ w.changes[c].kind \in {"update", "add"} => w.changes[c].role \in Roles
         /\ w.changes[c].kind = "delete" => ~w.changes[c].mine  \* no page has a button for it

VARIABLES
  role,      \* the committed BoardMember rows
  body,      \* what each change asks for
  stage,     \* where the server stands with it
  order,     \* the committed ones, in that order
  told,      \* those whose event has been emitted
  answered,  \* the own ones whose answer has come, or never will
  ticket,    \* what has become of the ticket in hand
  socket,    \* the page's connection
  joining,   \* the server's side of `join'
  inbox,     \* events and the acknowledgement on their way to the page
  status, connectedOnce,
  mounted,   \* the page is open
  faults,    \* how many things will still go wrong, at most
  known,     \* the ["me"] query has its data
  data,      \* the cached data of the two queries: my role, everybody's
  error,     \* the board query's error: none, a 403, or another one
  fetch,     \* the fetch of each query in flight
  heard,     \* ghost: the commits the data of a query reflects
  trouble    \* ghost: what has happened that the protocol does not cover

server == <<role, stage, order, told>>
link == <<ticket, socket, joining, inbox, status, connectedOnce>>
limits == <<mounted, faults>>
page == <<known, data, error, fetch, heard, trouble>>
vars == <<server, body, answered, link, limits, page>>
-----------------------------------------------------------------------------
Kind(c) == body[c].kind
User(c) == body[c].user
Mine(c) == body[c].mine

\* Whose row a change is about: the removal of the board takes everybody's.
About(c, u) == Kind(c) = "delete" \/ (Kind(c) # "content" /\ User(c) = u)

\* What no event tells of.
Silent(c) == Kind(c) \in {"add", "delete"}

Committed == {order[i] : i \in 1 .. Len(order)}
BoardRemoved == \E c \in Committed : Kind(c) = "delete"
Later(d, c) ==
  \E i, j \in 1 .. Len(order) : order[i] = c /\ order[j] = d /\ i < j

NoFetch == [stage |-> "none", value |-> NoData, before |-> {}, missed |-> {}]
Asked == [NoFetch EXCEPT !.stage = "asked"]

\* The page has just been opened, or has been live for a while.
Init ==
  /\ \E w \in Workloads :
       /\ role = w.role /\ body = w.changes /\ faults = w.faults
       /\ IF w.live
          THEN /\ socket = "up" /\ joining = "joined" /\ status = "live" /\ connectedOnce = TRUE
               /\ data = [board |-> w.role[me], members |-> w.role]
               /\ fetch = [q \in Queries |-> NoFetch]
               /\ known = TRUE
          ELSE /\ socket = "closed" /\ joining = "no" /\ status = "connecting"
               /\ connectedOnce = FALSE
               /\ data = [q \in Queries |-> NoData]
               /\ fetch = [q \in Queries |-> Asked]
               /\ known = FALSE
  /\ stage = [c \in Changes |-> "idle"]
  /\ order = <<>>
  /\ told = {}
  /\ answered = {}
  /\ ticket = "none"
  /\ inbox = <<>>
  /\ mounted = TRUE
  /\ error = "none"
  /\ heard = [q \in Queries |-> {}]
  /\ trouble = [q \in Queries |-> {}]
-----------------------------------------------------------------------------
(* The ghosts. *)

Fault == faults > 0 /\ faults' = faults - 1

\* The changes that a query's data tells apart.
Concerns(c, q) == IF q = "board" THEN About(c, me) ELSE Kind(c) # "content"

\* A change the page is not told of.  A fetch that reads after it makes up for that.
Unheard(cs, kind) ==
  LET lost(q) == {c \in cs : Concerns(c, q)}
  IN  /\ trouble' = [q \in Queries |->
           trouble[q] \cup (IF lost(q) \subseteq heard[q] THEN {} ELSE {kind})]
      /\ fetch' = [q \in Queries |->
           IF fetch[q].stage = "read" /\ ~(lost(q) \subseteq fetch[q].before)
           THEN [fetch[q] EXCEPT !.missed = @ \cup {kind}] ELSE fetch[q]]

\* The event is about a row whose newer state the query has already.
Crossed(c, q) ==
  \E d \in heard[q] : Later(d, c) /\ About(d, User(c)) /\ Concerns(c, q)
-----------------------------------------------------------------------------
(* The requests: of the share dialog, of other pages, of other users.       *)

\* The dialog offers changes to an owner, of the rows it shows, owners' excepted.
Offered(c) ==
  /\ mounted /\ error = "none" /\ data["board"] = "OWNER"
  /\ Kind(c) \in {"update", "remove"} =>
       data["members"] # NoData /\ data["members"][User(c)] \notin {None, "OWNER"}
  /\ Kind(c) = "update" => data["members"][User(c)] # body[c].role

Ask(c) ==
  /\ Mine(c) /\ stage[c] = "idle"
  /\ Offered(c)
  /\ stage' = [stage EXCEPT ![c] = "sent"]
  /\ UNCHANGED <<role, order, told, body, answered, link, limits, page>>

Arrived(c) == stage[c] = IF Mine(c) THEN "sent" ELSE "idle"

\* An invitation has no event, nor has the removal of the board, which takes its members
\* along: whoever is not told finds out by a fetch.
Commit(c) ==
  /\ Arrived(c) /\ ~BoardRemoved
  /\ Kind(c) \in {"update", "remove"} => role[User(c)] # None
  /\ Kind(c) = "add" => role[User(c)] = None
  /\ role' = [u \in Users |-> IF ~About(c, u) THEN role[u]
                              ELSE IF Kind(c) \in {"remove", "delete"} THEN None ELSE body[c].role]
  /\ order' = Append(order, c)
  /\ stage' = [stage EXCEPT ![c] = "committed"]
  /\ Unheard({d \in {c} : Silent(d)}, "unannounced")
  /\ UNCHANGED <<told, body, answered, link, limits, known, data, error, heard>>

\* The refusal of somebody else's request changes nothing here.
Refuse(c) ==
  /\ Mine(c) /\ Arrived(c)
  /\ stage' = [stage EXCEPT ![c] = "refused"]
  /\ UNCHANGED <<role, order, told, body, answered, link, limits, page>>

\* To the sockets in the room.  A page that lost its connection fetches when it is back.
Announce(c) ==
  /\ stage[c] = "committed" /\ c \notin told /\ ~Silent(c)
  /\ told' = told \cup {c}
  /\ IF joining = "joined"
     THEN inbox' = Append(inbox, c) /\ UNCHANGED <<fetch, trouble>>
     ELSE /\ Unheard({c}, IF connectedOnce /\ socket # "up" THEN "cut off" ELSE "early")
          /\ UNCHANGED inbox
  /\ UNCHANGED <<role, stage, order, body, answered, ticket, socket, joining, status,
                 connectedOnce, limits, known, data, error, heard>>
-----------------------------------------------------------------------------
(* The queries. *)

\* Without data, a fetch in flight is joined, not started again.
Refetched(q) ==
  IF data[q] = NoData /\ fetch[q].stage # "none"
  THEN [fetch[q] EXCEPT !.missed = @ \cup (IF fetch[q].stage = "read" THEN {"joined"} ELSE {})]
  ELSE Asked

\* Mutation: the key of the members does not begin with that of the board.
InvalidateExactly(qs) ==
  fetch' = [q \in Queries |->
    IF q \in qs /\ (q = "members" => qs = {"members"}) THEN Refetched(q) ELSE fetch[q]]

\* The key of the board is a prefix of that of the members.
Invalidate(qs) ==
  fetch' = [q \in Queries |-> IF q \in qs THEN Refetched(q) ELSE fetch[q]]

\* BoardAccessGuard's lookup.  The role it finds is the one findOne returns.
Guard(q) ==
  /\ fetch[q].stage = "asked"
  /\ fetch' = [fetch EXCEPT ![q] =
       IF role[me] # None /\ q = "members" THEN [@ EXCEPT !.stage = "admitted"]
       ELSE [@ EXCEPT !.stage = "read", !.value = role[me], !.before = Committed]]
  /\ UNCHANGED <<server, body, answered, link, limits, known, data, error, heard, trouble>>

ListMembers ==
  /\ fetch["members"].stage = "admitted"
  /\ fetch' = [fetch EXCEPT !["members"] =
       [@ EXCEPT !.stage = "read", !.value = role, !.before = Committed]]
  /\ UNCHANGED <<server, body, answered, link, limits, known, data, error, heard, trouble>>

\* A refused fetch leaves the data as it was: the page shows the board's error instead.
Land(q) ==
  LET f == fetch[q]
      denied == f.value = None
  IN  /\ f.stage = "read"
      /\ data' = IF denied THEN data ELSE [data EXCEPT ![q] = f.value]
      /\ error' = IF q = "members" THEN error ELSE IF denied THEN "denied" ELSE "none"
      /\ heard' = [heard EXCEPT ![q] = f.before]
      /\ trouble' = [trouble EXCEPT ![q] =
           f.missed \cup (IF \E c \in heard[q] \ f.before : Concerns(c, q) THEN {"landed"} ELSE {})]
      /\ fetch' = [fetch EXCEPT ![q] = NoFetch]
      /\ UNCHANGED <<server, body, answered, link, limits, known>>

\* Any other failure, retries included.
FetchFails(q) ==
  /\ fetch[q].stage # "none" /\ Fault
  /\ fetch' = [fetch EXCEPT ![q] = NoFetch]
  /\ error' = IF q = "board" THEN "failed" ELSE error
  /\ trouble' = [trouble EXCEPT ![q] = @ \cup (IF q = "members" THEN {"failed"} ELSE {})]
  /\ UNCHANGED <<server, body, answered, link, mounted, known, data, heard>>

\* The button of the error page.
Retry ==
  /\ mounted /\ error = "failed" /\ fetch["board"].stage = "none"
  /\ fetch' = [fetch EXCEPT !["board"] = Asked]
  /\ UNCHANGED <<server, body, answered, link, limits, known, data, error, heard, trouble>>

\* Any edit of a card or a column cancels what is being fetched under the board's key.
CancelQueries ==
  /\ mounted /\ error = "none" /\ data["board"] \in {"OWNER", "EDITOR"}
  /\ \E q \in Queries : fetch[q].stage # "none"
  /\ Fault
  /\ trouble' = [q \in Queries |->
       trouble[q] \cup (IF fetch[q].stage # "none" THEN {"cancelled"} ELSE {})]
  /\ fetch' = [q \in Queries |-> NoFetch]
  /\ UNCHANGED <<server, body, answered, link, mounted, known, data, error, heard>>

\* onSuccess of the three mutations; nothing follows a failure, or an answer that is lost.
Answer(c) ==
  /\ Mine(c) /\ stage[c] \in {"committed", "refused"} /\ c \notin answered
  /\ answered' = answered \cup {c}
  /\ IF stage[c] = "committed" /\ mounted THEN Invalidate({"members"}) ELSE UNCHANGED fetch
  /\ UNCHANGED <<server, body, link, limits, known, data, error, heard, trouble>>

LoseAnswer(c) ==
  /\ Mine(c) /\ stage[c] \in {"sent", "committed", "refused"} /\ c \notin answered
  /\ Fault
  /\ answered' = answered \cup {c}
  /\ UNCHANGED <<server, body, link, mounted, page>>

\* The header's query, asked once and not again after a failure.
LoadMe ==
  /\ ~known
  /\ known' = TRUE
  /\ UNCHANGED <<server, body, answered, link, limits, data, error, fetch, heard, trouble>>
-----------------------------------------------------------------------------
(* The connection.  Each attempt asks for a ticket of its own. *)

\* Issuing one sweeps the expired ones.
IssueWsTicket ==
  /\ mounted /\ socket = "closed"
  /\ ticket' = "valid"
  /\ socket' = "opening"
  /\ UNCHANGED <<server, body, answered, joining, inbox, status, connectedOnce, limits, page>>

\* The call for the ticket fails: the handshake goes without.
NoTicket ==
  /\ mounted /\ socket = "closed" /\ Fault
  /\ ticket' = "none"
  /\ socket' = "opening"
  /\ UNCHANGED <<server, body, answered, joining, inbox, status, connectedOnce, mounted, page>>

ExpireTicket ==
  /\ ticket = "valid" /\ Fault
  /\ ticket' = "expired"
  /\ UNCHANGED <<server, body, answered, socket, joining, inbox, status, connectedOnce,
                 mounted, page>>

\* Mutation: the sweep throws the tickets away that have not expired.
SweptAll(t) == IF t = "valid" THEN "dropped" ELSE t

Swept(t) == IF t = "expired" THEN "swept" ELSE t

\* Somebody else's ticket is issued meanwhile.
SweepExpiredWsTickets ==
  /\ socket = "opening"
  /\ ticket' = Swept(ticket)
  /\ ticket' # ticket
  /\ UNCHANGED <<server, body, answered, socket, joining, inbox, status, connectedOnce,
                 limits, page>>

\* What consumeWsTicket returns a user for; it forgets the ticket either way.
ConsumeWsTicket == ticket = "valid"

\* The middleware: admitted, or refused for good.
Handshake ==
  /\ mounted /\ socket = "opening"
  /\ IF ConsumeWsTicket
     THEN socket' = "admitted" /\ ticket' = "none" /\ UNCHANGED status
     ELSE socket' = "refused" /\ status' = "reconnecting" /\ UNCHANGED ticket
  /\ UNCHANGED <<server, body, answered, joining, inbox, connectedOnce, limits, page>>

\* Mutation: a later connection does not fetch.
ConnectOnly ==
  /\ mounted /\ socket = "admitted"
  /\ socket' = "up"
  /\ connectedOnce' = TRUE
  /\ joining' = "asked"
  /\ UNCHANGED <<server, body, answered, ticket, inbox, status, limits, page>>

\* "connect": all but the first connection fetch again, and each asks to join.
Connect ==
  /\ mounted /\ socket = "admitted"
  /\ socket' = "up"
  /\ connectedOnce' = TRUE
  /\ joining' = "asked"
  /\ Invalidate(IF connectedOnce THEN Queries ELSE {})
  /\ UNCHANGED <<server, body, answered, ticket, inbox, status, limits, known, data, error,
                 heard, trouble>>

\* The lookup ...
FindMembership ==
  /\ joining = "asked"
  /\ IF role[me] # None THEN joining' = "found" /\ UNCHANGED inbox
     ELSE joining' = "denied" /\ inbox' = Append(inbox, "FORBIDDEN")
  /\ UNCHANGED <<server, body, answered, ticket, socket, status, connectedOnce, limits, page>>

\* ... which may reject: nothing acknowledges the join then ...
LookupFails ==
  /\ joining = "asked" /\ Fault
  /\ joining' = "failed"
  /\ UNCHANGED <<server, body, answered, ticket, socket, inbox, status, connectedOnce, mounted,
                 page>>

\* ... and, whoever has been removed in between, the room and the acknowledgement.
Join ==
  /\ joining = "found"
  /\ joining' = "joined"
  /\ inbox' = Append(inbox, "ok")
  /\ UNCHANGED <<server, body, answered, ticket, socket, status, connectedOnce, limits, page>>

Acknowledged ==
  /\ inbox # <<>> /\ Head(inbox) \in {"ok", "FORBIDDEN"}
  /\ status' = IF Head(inbox) = "ok" THEN "live" ELSE "offline"
  /\ inbox' = Tail(inbox)
  /\ UNCHANGED <<server, body, answered, ticket, socket, joining, connectedOnce, limits, page>>

Events == {inbox[i] : i \in 1 .. Len(inbox)} \cap Changes

\* Mutation: a connection that is lost stays in the room.
DisconnectInRoom ==
  /\ socket \in {"admitted", "up"} /\ Fault
  /\ socket' = "closed"
  /\ inbox' = <<>>
  /\ status' = IF socket = "up" THEN "reconnecting" ELSE status
  /\ Unheard(Events, "cut off")
  /\ UNCHANGED <<server, body, answered, ticket, joining, connectedOnce, mounted, known, data, error, heard>>

Disconnect ==
  /\ socket \in {"admitted", "up"} /\ Fault
  /\ socket' = "closed"
  /\ joining' = "no"
  /\ inbox' = <<>>
  /\ status' = IF socket = "up" THEN "reconnecting" ELSE status
  /\ Unheard(Events, "cut off")
  /\ UNCHANGED <<server, body, answered, ticket, connectedOnce, mounted, known, data, error, heard>>
-----------------------------------------------------------------------------
(* The events. *)

\* patchMemberRole and removeMemberFromList, on a row the list has.
PatchMember(c) ==
  IF Kind(c) = "content" \/ data["members"] = NoData \/ data["members"][User(c)] = None
  THEN data["members"]
  ELSE [data["members"] EXCEPT ![User(c)] = IF Kind(c) = "remove" THEN None ELSE body[c].role]

\* The handlers that write the board's query, which clears its error.
PatchesBoard(c) ==
  /\ data["board"] # NoData
  /\ \/ Kind(c) = "content"
     \/ Kind(c) = "update" /\ User(c) = me /\ known

\* A removal of the page's user asks the server again: the page shows its 403.
IsMyRemoval(c) == Kind(c) = "remove" /\ User(c) = me /\ known

Deliver ==
  /\ inbox # <<>> /\ Head(inbox) \in Changes
  /\ LET c == Head(inbox)
         kinds(q) == {k \in {"crossed", "unknown", "revived"} :
           CASE k = "crossed" -> Crossed(c, q)
             [] k = "unknown" -> q = "board" /\ Concerns(c, q) /\ ~known
             [] k = "revived" -> q = "board" /\ PatchesBoard(c) /\ error # "none"}
     IN  /\ data' = [board   |-> IF PatchesBoard(c) /\ Kind(c) = "update" THEN body[c].role
                                 ELSE data["board"],
                     members |-> PatchMember(c)]
         /\ error' = IF PatchesBoard(c) THEN "none" ELSE error
         /\ heard' = [q \in Queries |-> heard[q] \cup {c}]
         /\ trouble' = [q \in Queries |-> trouble[q] \cup kinds(q)]
         /\ Invalidate(IF IsMyRemoval(c) THEN Queries ELSE {})
  /\ inbox' = Tail(inbox)
  /\ UNCHANGED <<server, body, answered, ticket, socket, joining, status, connectedOnce,
                 limits, known>>
-----------------------------------------------------------------------------
(* Leaving the page and coming back to it: the cache outlives the visit, and is fetched *)
(* again if it has nothing or is older than its staleTime.                              *)

Early(kinds) == IF "cut off" \in kinds THEN (kinds \ {"cut off"}) \cup {"early"} ELSE kinds

Unmount ==
  /\ mounted /\ Fault
  /\ mounted' = FALSE
  /\ socket' = "closed"
  /\ joining' = "no"
  /\ inbox' = <<>>
  /\ connectedOnce' = FALSE
  /\ LET lost(q) == {c \in Events : Concerns(c, q)}
     IN  /\ trouble' = [q \in Queries |->
              Early(trouble[q]) \cup (IF lost(q) \subseteq heard[q] THEN {} ELSE {"early"})]
         /\ fetch' = [q \in Queries |->
              IF fetch[q].stage = "read" /\ ~(lost(q) \subseteq fetch[q].before)
              THEN [fetch[q] EXCEPT !.missed = Early(@) \cup {"early"}]
              ELSE [fetch[q] EXCEPT !.missed = Early(@)]]
  /\ UNCHANGED <<server, body, answered, ticket, status, known, data, error, heard>>

Mount ==
  /\ ~mounted
  /\ mounted' = TRUE
  /\ status' = "connecting"
  /\ \E old \in SUBSET Queries :
       fetch' = [q \in Queries |->
         IF fetch[q].stage = "none" /\ (q \in old \/ data[q] = NoData) THEN Asked ELSE fetch[q]]
  /\ UNCHANGED <<server, body, answered, ticket, socket, joining, inbox, connectedOnce,
                 faults, known, data, error, heard, trouble>>
-----------------------------------------------------------------------------
Quiet ==
  /\ mounted /\ inbox = <<>>
  /\ \A c \in Changes :
       /\ stage[c] # "sent"
       /\ stage[c] = "committed" /\ ~Silent(c) => c \in told
       /\ Mine(c) /\ stage[c] # "idle" => c \in answered
  /\ \A q \in Queries : fetch[q].stage = "none"

\* There is nothing more to come.
Idle ==
  /\ Quiet /\ socket \in {"up", "refused"} /\ joining \in {"no", "joined", "denied", "failed"}
  /\ UNCHANGED vars

Request == \E c \in Changes : Ask(c) \/ Commit(c) \/ Refuse(c) \/ Answer(c) \/ LoseAnswer(c)

Attempt == IssueWsTicket \/ NoTicket

Next ==
  \/ Request
  \/ \E c \in Changes : Announce(c)
  \/ \E q \in Queries : Guard(q) \/ Land(q) \/ FetchFails(q)
  \/ ListMembers \/ Retry \/ CancelQueries \/ LoadMe
  \/ Attempt \/ ExpireTicket \/ SweepExpiredWsTickets \/ Handshake
  \/ Connect \/ FindMembership \/ LookupFails \/ Join \/ Acknowledged \/ Disconnect
  \/ Deliver
  \/ Unmount \/ Mount
  \/ Idle

\* socket.io-client tries again by itself, and the server handles what has arrived.
Fairness ==
  /\ WF_vars(Attempt) /\ WF_vars(Handshake) /\ WF_vars(Connect)
  /\ WF_vars(FindMembership) /\ WF_vars(Join)
  /\ WF_vars(Acknowledged) /\ WF_vars(Deliver)

Spec == Init /\ [][Next]_vars /\ Fairness
-----------------------------------------------------------------------------
TypeOK ==
  /\ role \in [Users -> Roles \cup {None}]
  /\ stage \in [Changes -> {"idle", "sent", "committed", "refused"}]
  /\ told \subseteq Committed
  /\ ticket \in {"none", "valid", "expired", "swept"}
  /\ socket \in {"closed", "opening", "admitted", "up", "refused"}
  /\ joining \in {"no", "asked", "found", "joined", "denied", "failed"}
  /\ joining # "no" => socket = "up" /\ connectedOnce
  /\ status \in {"connecting", "live", "reconnecting", "offline"}
  /\ data["board"] \in Roles \cup {NoData}
  /\ data["members"] = NoData \/ data["members"] \in [Users -> Roles \cup {None}]
  /\ error \in {"none", "denied", "failed"}
  /\ \A q \in Queries : heard[q] \subseteq Committed

\* What the protocol does not cover.  Being cut off is not among it once the page is live.
Uncovered(q) == IF status = "live" THEN trouble[q] \ {"cut off"} ELSE trouble[q]

\* When nothing is under way the page offers what its user's role allows, or says that the
\* board is not available, unless one of the listed cases has happened: a live page that
\* was cut off has caught up (realtime.ts 102-125, 163-196; board.ts 20-33).
RoleShown ==
  Quiet /\ Uncovered("board") = {} =>
    \/ error = "failed"
    \/ IF error = "denied" THEN role[me] = None ELSE data["board"] = role[me]

\* Then the list of members is the committed one, while the user is among them
\* (realtime.ts 163-196; members.ts 67-117).
MembersShown ==
  Quiet /\ Uncovered("members") = {} /\ role[me] # None => data["members"] = role

\* A page that stays open ends up live, unless its ticket could not be had or ran out
\* before the handshake, or the lookup failed, after which nothing tries again, or the
\* lookup found no row (realtime.ts 110-133; auth.service.ts 175-205; board.gateway.ts
\* 101-120).
EventuallyLive ==
  <>[](\/ status \in {"live", "offline"}
       \/ socket = "refused" /\ ticket \in {"none", "expired", "swept"}
       \/ socket = "up" /\ joining = "failed"
       \/ ~mounted)
=============================================================================
