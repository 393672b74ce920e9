-------------------------- MODULE MemberSync_proofs --------------------------
(***************************************************************************)
(* RoleShown and MembersShown for any users, changes and faults.  What the *)
(* page knows of a row is what the changes it has heard of have made of it *)
(* (Knows); a change it has not heard of is on its way, or in `trouble'    *)
(* (HeardInv); a connection that is back has asked again (CutOffInv).      *)
(***************************************************************************)
EXTENDS MemberSync, TLAPS

(* The history: who did what to whom, and what it has come to. *)

Effect(c) == IF Kind(c) \in {"remove", "delete"} THEN None ELSE body[c].role

BodyInv ==
  \A c \in Changes :
    /\ Kind(c) \in {"update", "remove", "add", "content", "delete"}
    /\ Kind(c) \notin {"content", "delete"} => User(c) \in Users
    /\ Kind(c) \in {"update", "add"} => body[c].role \in Roles

OrderInv ==
  /\ order \in Seq(Changes)
  /\ \A i, j \in 1 .. Len(order) : order[i] = order[j] => i = j
  /\ DOMAIN stage = Changes
  /\ \A c \in Changes : c \in Committed <=> stage[c] = "committed"

\* The last change of a user made the row what it is; who is a member again after a
\* removal has been invited.
RoleInv ==
  /\ \A c \in Committed, u \in Users :
       About(c, u) /\ (\A d \in Committed : About(d, u) => ~Later(d, c)) => role[u] = Effect(c)
  /\ \A c \in Committed :
       Kind(c) = "remove" /\ role[User(c)] # None =>
         \E a \in Committed : Kind(a) = "add" /\ User(a) = User(c) /\ Later(a, c)

\* What is on its way, and where.
WireInv ==
  /\ inbox \in Seq(Changes \cup {"ok", "FORBIDDEN"})
  /\ Events \subseteq {c \in Committed : ~Silent(c)}
  /\ socket # "up" => inbox = <<>>
  /\ socket = "up" => connectedOnce
  /\ mounted /\ status = "live" => socket = "up"

\* x is what somebody knows of the row of u who has heard of the changes in S: the row
\* itself after all of them, and none for a member whose invitation is not in S only.
Knows(u, x, S) ==
  /\ (\A c \in Committed : About(c, u) => c \in S) => x = role[u]
  /\ x = None /\ role[u] # None =>
       \E a \in Committed \ S : Kind(a) = "add" /\ User(a) = u
-----------------------------------------------------------------------------
(* The queries. *)

\* Only a refetch after a reconnect is awaited.
Clean(q) == trouble[q] \subseteq {"cut off"}

IsFetch(q, f) ==
  /\ DOMAIN f = {"stage", "value", "before", "missed"}
  /\ f.stage \in {"none", "asked", "admitted", "read"}
  /\ f.stage = "admitted" => q = "members"
  /\ f.before \subseteq Committed
  /\ f.stage = "none" => f = NoFetch
  /\ f.stage # "read" => f.missed = {}
  /\ f.stage = "read" =>
       f.value \in IF q = "board" THEN Roles \cup {None}
                   ELSE {None} \cup [Users -> Roles \cup {None}]

FetchInv ==
  /\ DOMAIN fetch = Queries /\ DOMAIN trouble = Queries
  /\ DOMAIN heard = Queries /\ DOMAIN data = Queries
  /\ \A q \in Queries : IsFetch(q, fetch[q])

\* What a fetch has read is the board as the changes before it left it.  Who was refused
\* the list, and is a member now, was invited since.
FetchKnows(q, f) ==
  f.stage = "read" =>
    IF q = "board" THEN Knows(me, f.value, f.before)
    ELSE IF f.value = None THEN role[me] # None => ~(f.missed \subseteq {"cut off"})
    ELSE \A u \in Users : Knows(u, f.value[u], f.before)

ReadInv == \A q \in Queries : FetchKnows(q, fetch[q])

\* A change the page has not heard of will reach it, or something is amiss.
OnItsWay(c) == (~Silent(c) /\ c \notin told) \/ c \in Events

HeardInv ==
  \A q \in Queries, c \in Committed :
    Concerns(c, q) =>
      /\ c \in heard[q] \/ OnItsWay(c) \/ trouble[q] # {}
      /\ fetch[q].stage = "read" =>
           c \in fetch[q].before \/ c \in heard[q] \/ OnItsWay(c) \/ fetch[q].missed # {}

\* A connection that is back has asked for what it may have missed.
CutOffInv ==
  \A q \in Queries :
    /\ ~connectedOnce => "cut off" \notin trouble[q] \cup fetch[q].missed
    /\ socket = "up" /\ "cut off" \in trouble[q] =>
         ~Clean(q) \/ fetch[q].stage # "none" \/ (q = "board" /\ error = "failed")
    /\ socket = "up" /\ "cut off" \in fetch[q].missed => ~(fetch[q].missed \subseteq {"cut off"})

\* The role that the page goes by.
RoleOnPage == IF error = "denied" THEN None ELSE data["board"]

BoardInv ==
  /\ Clean("board") =>
       \/ fetch["board"].stage # "none"
       \/ error = "failed"
       \/ Knows(me, RoleOnPage, heard["board"])
  /\ data["board"] = NoData => fetch["board"].stage # "none" \/ error # "none"

MembersInv ==
  Clean("members") /\ role[me] # None =>
    IF data["members"] = NoData THEN fetch["members"].stage # "none"
    ELSE \A u \in Users : Knows(u, data["members"][u], heard["members"])

IInv == /\ TypeOK /\ BodyInv /\ OrderInv /\ RoleInv /\ WireInv /\ FetchInv
        /\ ReadInv /\ HeardInv /\ CutOffInv /\ BoardInv /\ MembersInv
-----------------------------------------------------------------------------
(* Init. *)

LEMMA InitIInv == Init => IInv
<1> SUFFICES ASSUME Init PROVE IInv
  OBVIOUS
<1>1. PICK w \in Workloads :
        /\ role = w.role /\ body = w.changes /\ faults = w.faults
        /\ IF w.live
           THEN /\ socket = "up" /\ joining = "joined" /\ status = "live" /\ connectedOnce = TRUE
                /\ data = [board |-> w.role[me], members |-> w.role]
                /\ fetch = [q \in Queries |-> NoFetch]
                /\ known = TRUE
           ELSE /\ socket = "closed" /\ joining = "no" /\ status = "connecting"
                /\ connectedOnce = FALSE
                /\ data = [q \in Queries |-> NoData]
                /\ fetch = [q \in Queries |-> Asked]
                /\ known = FALSE
  BY DEF Init
<1>2. /\ role \in [Users -> Roles \cup {None}] /\ (w.live => role[me] # None)
      /\ role[me] \in Roles \cup {None} /\ BodyInv
  BY <1>1, WorkloadAssumption, UserAssumption DEF BodyInv, Kind, User
<1>3. /\ order = <<>> /\ inbox = <<>> /\ Committed = {} /\ Events = {}
      /\ stage = [c \in Changes |-> "idle"]
  BY DEF Init, Committed, Events
<1>4. /\ heard = [q \in Queries |-> {}] /\ trouble = [q \in Queries |-> {}]
      /\ told = {} /\ ticket = "none" /\ error = "none"
  BY DEF Init
<1>5. OrderInv /\ RoleInv
  BY <1>2, <1>3 DEF OrderInv, RoleInv
<1>6. WireInv
  BY <1>1, <1>3 DEF WireInv
<1>7. /\ NoFetch.stage = "none" /\ NoFetch.before = {} /\ NoFetch.missed = {}
      /\ DOMAIN NoFetch = {"stage", "value", "before", "missed"}
      /\ Asked.stage = "asked" /\ Asked.before = {} /\ Asked.missed = {}
      /\ DOMAIN Asked = {"stage", "value", "before", "missed"}
  BY DEF NoFetch, Asked
<1>8. \A q \in Queries : \/ w.live /\ fetch[q] = NoFetch
                         \/ ~w.live /\ fetch[q] = Asked /\ data[q] = NoData
  BY <1>1
<1>9. /\ DOMAIN fetch = Queries /\ DOMAIN data = Queries
      /\ w.live => data["board"] = role[me] /\ data["members"] = role
      /\ "board" \in Queries /\ "members" \in Queries
  BY <1>1 DEF Queries
<1>10. FetchInv /\ ReadInv
  BY <1>3, <1>4, <1>7, <1>8, <1>9 DEF FetchInv, IsFetch, ReadInv, FetchKnows
<1>11. HeardInv /\ CutOffInv
  BY <1>3, <1>4, <1>7, <1>8 DEF HeardInv, CutOffInv
<1>12. \A u, S : Knows(u, role[u], S)
  BY <1>3 DEF Knows
<1>13. BoardInv /\ MembersInv
  BY <1>2, <1>3, <1>4, <1>7, <1>8, <1>9, <1>12, NoneAssumption
  DEF BoardInv, MembersInv, RoleOnPage
<1>14. TypeOK
  BY <1>1, <1>2, <1>3, <1>4, <1>8, <1>9 DEF TypeOK, Queries
<1> QED
  BY <1>2, <1>5, <1>6, <1>10, <1>11, <1>13, <1>14 DEF IInv
-----------------------------------------------------------------------------
(* The history. *)

LEMMA SameBody == [Next]_vars => body' = body
BY DEF Next, Request, Attempt, Ask, Commit, Refuse, Answer, LoseAnswer, Announce, Guard, Land,
       FetchFails, ListMembers, Retry, CancelQueries, LoadMe, IssueWsTicket, NoTicket,
       ExpireTicket, SweepExpiredWsTickets, Handshake, Connect, FindMembership, LookupFails, Join,
       Acknowledged, Disconnect, Deliver, Unmount, Mount, Idle, vars

\* Only a commit makes history.
LEMMA SameHistory ==
  ASSUME OrderInv, [Next]_vars, \A c \in Changes : ~Commit(c)
  PROVE  /\ role' = role /\ order' = order
         /\ DOMAIN stage' = Changes
         /\ \A c \in Changes : stage'[c] = "committed" <=> stage[c] = "committed"
<1>1. DOMAIN stage = Changes
  BY DEF OrderInv
<1>2. ASSUME NEW c \in Changes, Ask(c) \/ Refuse(c) PROVE
         /\ role' = role /\ order' = order
         /\ DOMAIN stage' = Changes
         /\ \A d \in Changes : stage'[d] = "committed" <=> stage[d] = "committed"
  BY <1>1, <1>2 DEF Ask, Refuse, Arrived
<1>3. (\E c \in Changes : Ask(c) \/ Refuse(c)) \/ UNCHANGED <<role, order, stage>>
  BY DEF Next, Request, Attempt, Answer, LoseAnswer, Announce, Guard, Land, server,
         FetchFails, ListMembers, Retry, CancelQueries, LoadMe, IssueWsTicket, NoTicket,
         ExpireTicket, SweepExpiredWsTickets, Handshake, Connect, FindMembership, LookupFails, Join,
         Acknowledged, Disconnect, Deliver, Unmount, Mount, Idle, vars
<1> QED
  BY <1>1, <1>2, <1>3

\* A commit comes after everything else.
LEMMA Committing ==
  ASSUME OrderInv, NEW e \in Changes, Commit(e)
  PROVE  /\ e \notin Committed /\ Committed' = Committed \cup {e}
         /\ OrderInv'
         /\ \A c, d \in Committed : Later(d, c)' <=> Later(d, c)
         /\ \A c \in Committed : Later(e, c)' /\ ~Later(c, e)'
<1>1. /\ order \in Seq(Changes) /\ order' = Append(order, e)
      /\ stage[e] # "committed" /\ stage' = [stage EXCEPT ![e] = "committed"]
  BY DEF Commit, OrderInv, Arrived
<1>2. e \notin Committed
  BY <1>1 DEF OrderInv
<1>3. /\ Len(order) \in Nat /\ Len(order') = Len(order) + 1 /\ order' \in Seq(Changes)
      /\ order'[Len(order) + 1] = e /\ \A i \in 1 .. Len(order) : order'[i] = order[i]
  BY <1>1
<1>4. \A i \in 1 .. Len(order') : i \in 1 .. Len(order) \/ i = Len(order) + 1
  BY <1>3
<1>5. 1 .. Len(order) \subseteq 1 .. Len(order') /\ Len(order) + 1 \in 1 .. Len(order')
  BY <1>3
<1>6. \A i \in 1 .. Len(order) : order[i] \in Committed
  BY DEF Committed
<1>7. Committed' = Committed \cup {e}
  BY <1>3, <1>4, <1>5 DEF Committed
<1>8. \A i, j \in 1 .. Len(order') : order'[i] = order'[j] => i = j
  BY <1>2, <1>3, <1>4, <1>6 DEF OrderInv
<1>9. OrderInv'
  BY <1>1, <1>3, <1>7, <1>8 DEF OrderInv
<1>10. \A c, d \in Committed : Later(d, c)' <=> Later(d, c)
  BY <1>2, <1>3, <1>4, <1>5 DEF Later
<1>11. \A c \in Committed : Later(e, c)'
  <2> SUFFICES ASSUME NEW c \in Committed PROVE Later(e, c)'
    OBVIOUS
  <2>1. PICK i \in 1 .. Len(order) : order[i] = c
    BY DEF Committed
  <2>2. i < Len(order) + 1 /\ order'[i] = c
    BY <1>3, <2>1
  <2> QED
    BY <1>3, <1>5, <2>2 DEF Later
<1>12. \A c \in Committed : ~Later(c, e)'
  <2> SUFFICES ASSUME NEW c \in Committed, NEW i \in 1 .. Len(order'), NEW j \in 1 .. Len(order'),
                      order'[i] = e, order'[j] = c, i < j
               PROVE  FALSE
    BY DEF Later
  <2>1. i = Len(order) + 1 /\ j \in 1 .. Len(order)
    BY <1>2, <1>3, <1>4, <1>6
  <2> QED
    BY <1>3, <2>1
<1> QED
  BY <1>2, <1>7, <1>9, <1>10, <1>11, <1>12

\* Every commit writes its row, if it is about one.
LEMMA WritesRow ==
  ASSUME BodyInv, NEW e \in Changes, Commit(e), role \in [Users -> Roles \cup {None}]
  PROVE  /\ \A u \in Users : role'[u] = IF About(e, u) THEN Effect(e) ELSE role[u]
         /\ role' \in [Users -> Roles \cup {None}]
         /\ Kind(e) \in {"update", "remove"} => role[User(e)] # None
<1>1. Kind(e) # "content" => Effect(e) \in Roles \cup {None}
  BY DEF BodyInv, Effect, Commit
<1>2. role' = [u \in Users |-> IF About(e, u) THEN Effect(e) ELSE role[u]]
  BY DEF Commit, Effect
<1> QED
  BY <1>1, <1>2 DEF About, Commit

LEMMA HistoryStep ==
  ASSUME TypeOK, BodyInv, OrderInv, RoleInv, [Next]_vars
  PROVE  BodyInv' /\ OrderInv' /\ RoleInv'
<1>1. body' = body /\ BodyInv'
  BY SameBody DEF BodyInv, Kind, User
<1>2. CASE \A c \in Changes : ~Commit(c)
  <2>1. /\ role' = role /\ order' = order /\ DOMAIN stage' = Changes
        /\ \A c \in Changes : stage'[c] = "committed" <=> stage[c] = "committed"
    BY <1>2, SameHistory
  <2> QED
    BY <1>1, <2>1 DEF OrderInv, RoleInv, Committed, Later, About, Effect, Kind, User
<1>3. ASSUME NEW e \in Changes, Commit(e) PROVE BodyInv' /\ OrderInv' /\ RoleInv'
  <2>1. /\ e \notin Committed /\ Committed' = Committed \cup {e} /\ OrderInv'
        /\ \A c, d \in Committed : Later(d, c)' <=> Later(d, c)
        /\ \A c \in Committed : Later(e, c)' /\ ~Later(c, e)'
    BY <1>3, Committing
  <2>2. /\ \A u \in Users : role'[u] = IF About(e, u) THEN Effect(e) ELSE role[u]
        /\ Kind(e) \in {"update", "remove"} => role[User(e)] # None
    BY <1>3, WritesRow DEF TypeOK
  <2>3. Committed \subseteq Changes
    BY DEF OrderInv, Committed
  <2>4. ASSUME NEW c \in Committed', NEW u \in Users, About(c, u),
               \A d \in Committed' : About(d, u) => ~Later(d, c)'
        PROVE  role'[u] = Effect(c)
    <3>1. CASE c = e
      BY <2>2, <2>4, <3>1
    <3>2. CASE c # e
      <4>1. c \in Committed /\ ~About(e, u)
        BY <2>1, <2>4, <3>2
      <4>2. \A d \in Committed : About(d, u) => ~Later(d, c)
        BY <2>1, <2>4, <4>1
      <4> QED
        BY <2>2, <2>4, <4>1, <4>2 DEF RoleInv
    <3> QED
      BY <3>1, <3>2
  <2>5. ASSUME NEW c \in Committed', Kind(c) = "remove", role'[User(c)] # None
        PROVE  \E a \in Committed' : Kind(a) = "add" /\ User(a) = User(c) /\ Later(a, c)'
    <3>1. User(c) \in Users /\ c \in Changes
      BY <1>3, <2>1, <2>3, <2>5 DEF BodyInv
    <3>2. c # e /\ c \in Committed
      BY <2>1, <2>2, <2>5, <3>1 DEF About, Effect
    <3>3. CASE Kind(e) = "add" /\ User(e) = User(c)
      BY <2>1, <3>2, <3>3
    <3>4. CASE ~(Kind(e) = "add" /\ User(e) = User(c))
      <4>1. role[User(c)] # None
        BY <1>3, <2>2, <2>5, <3>1, <3>4 DEF About, BodyInv, Effect
      <4> QED
        BY <2>1, <2>5, <3>2, <4>1 DEF RoleInv
    <3> QED
      BY <3>3, <3>4
  <2>6. RoleInv'
    BY <1>1, <2>4, <2>5 DEF RoleInv, About, Effect, Kind, User
  <2> QED
    BY <1>1, <2>1, <2>6
<1> QED
  BY <1>2, <1>3
-----------------------------------------------------------------------------
(* What the page knows. *)

LEMMA SameKnows ==
  ASSUME OrderInv, [Next]_vars, \A c \in Changes : ~Commit(c)
  PROVE  /\ role' = role /\ Committed' = Committed /\ body' = body
         /\ \A u, x, S : Knows(u, x, S)' <=> Knows(u, x, S)
<1>1. role' = role /\ order' = order /\ body' = body
  BY SameHistory, SameBody
<1>2. Committed' = Committed
  BY <1>1 DEF Committed
<1> QED
  BY <1>1, <1>2 DEF Knows, About, Kind, User

\* A change that the page has not heard of takes nothing from what it knows.
LEMMA CommitKnows ==
  ASSUME TypeOK, BodyInv, OrderInv, NEW e \in Changes, Commit(e)
  PROVE  \A u \in Users : \A x, S : S \subseteq Committed /\ Knows(u, x, S) => Knows(u, x, S)'
<1>1. e \notin Committed /\ Committed' = Committed \cup {e}
  BY Committing
<1>2. /\ \A u \in Users : role'[u] = IF About(e, u) THEN Effect(e) ELSE role[u]
      /\ Kind(e) \in {"update", "remove"} => role[User(e)] # None
  BY WritesRow DEF TypeOK
<1>3. \A c, u : About(c, u)' <=> About(c, u)
  BY DEF Commit, About, Kind, User
<1>4. body' = body
  BY DEF Commit
<1> SUFFICES ASSUME NEW u \in Users, NEW x, NEW S, S \subseteq Committed, Knows(u, x, S)
             PROVE  Knows(u, x, S)'
  OBVIOUS
<1>5. (\A c \in Committed' : About(c, u) => c \in S) => x = role'[u]
  BY <1>1, <1>2 DEF Knows
<1>6. ASSUME x = None, role'[u] # None
      PROVE  \E a \in Committed' \ S : Kind(a) = "add" /\ User(a) = u
  <2>1. CASE role[u] # None
    BY <1>1, <1>6, <2>1 DEF Knows
  <2>2. CASE role[u] = None
    <3>1. About(e, u) /\ Kind(e) \in {"update", "remove", "add", "content", "delete"}
      BY <1>2, <1>6, <2>2 DEF BodyInv
    <3>2. Kind(e) # "delete"
      BY <1>2, <1>6, <3>1 DEF Effect
    <3>3. Kind(e) = "add" /\ User(e) = u
      BY <1>2, <2>2, <3>1, <3>2 DEF About
    <3> QED
      BY <1>1, <3>3
  <2> QED
    BY <2>1, <2>2
<1> QED
  BY <1>3, <1>4, <1>5, <1>6 DEF Knows, Kind, User

\* Hearing of a change, before any later one of the same user.
LEMMA HearKnows ==
  ASSUME BodyInv, OrderInv, RoleInv, NEW c \in Committed, ~Silent(c), NEW u \in Users,
         NEW x, NEW S, Knows(u, x, S)
  PROVE  /\ ~About(c, u) => Knows(u, x, S \cup {c})
         /\ About(c, u) /\ (\A d \in S : About(d, u) => ~Later(d, c)) =>
              Knows(u, IF x = None THEN None ELSE Effect(c), S \cup {c})
<1>1. ~About(c, u) => Knows(u, x, S \cup {c})
  BY DEF Knows, About
<1> SUFFICES ASSUME About(c, u), \A d \in S : About(d, u) => ~Later(d, c)
             PROVE  Knows(u, IF x = None THEN None ELSE Effect(c), S \cup {c})
  BY <1>1
<1> DEFINE y == IF x = None THEN None ELSE Effect(c)
<1>2. c \in Changes /\ User(c) = u /\ Kind(c) \in {"update", "remove"}
  BY DEF OrderInv, Committed, BodyInv, About, Silent
<1>3. ~Later(c, c)
  BY DEF OrderInv, Later
<1>4. ASSUME \A d \in Committed : About(d, u) => d \in S \cup {c}
      PROVE  y = role[u]
  <2>1. CASE x = None
    BY <1>4, <2>1 DEF Knows, About, Silent
  <2>2. CASE x # None
    <3>1. \A d \in Committed : About(d, u) => ~Later(d, c)
      BY <1>3, <1>4
    <3> QED
      BY <1>2, <2>2, <3>1 DEF RoleInv
  <2> QED
    BY <2>1, <2>2
<1>5. ASSUME y = None, role[u] # None
      PROVE  \E a \in Committed \ (S \cup {c}) : Kind(a) = "add" /\ User(a) = u
  <2>1. CASE x = None
    BY <1>5, <2>1 DEF Knows, Silent
  <2>2. CASE x # None
    <3>1. Kind(c) = "remove"
      BY <1>2, <1>5, <2>2, NoneAssumption DEF BodyInv, Effect
    <3>2. PICK a \in Committed : Kind(a) = "add" /\ User(a) = u /\ Later(a, c)
      BY <1>2, <1>5, <3>1 DEF RoleInv
    <3> QED
      BY <3>1, <3>2 DEF About
  <2> QED
    BY <2>1, <2>2
<1> QED
  BY <1>4, <1>5 DEF Knows
-----------------------------------------------------------------------------
(* The wire. *)

Messages == Changes \cup {"ok", "FORBIDDEN"}

LEMMA Sending ==
  ASSUME WireInv, NEW e \in Messages, inbox' = Append(inbox, e)
  PROVE  inbox' \in Seq(Messages) /\ Events' = Events \cup ({e} \cap Changes)
<1>1. inbox \in Seq(Messages)
  BY DEF WireInv, Messages
<1>2. /\ Len(inbox) \in Nat /\ Len(inbox') = Len(inbox) + 1 /\ inbox' \in Seq(Messages)
      /\ inbox'[Len(inbox) + 1] = e /\ \A i \in 1 .. Len(inbox) : inbox'[i] = inbox[i]
  BY <1>1
<1>3. \A i \in 1 .. Len(inbox') : i \in 1 .. Len(inbox) \/ i = Len(inbox) + 1
  BY <1>2
<1>4. 1 .. Len(inbox) \subseteq 1 .. Len(inbox') /\ Len(inbox) + 1 \in 1 .. Len(inbox')
  BY <1>2
<1> QED
  BY <1>2, <1>3, <1>4 DEF Events

LEMMA Receiving ==
  ASSUME WireInv, inbox # <<>>, inbox' = Tail(inbox)
  PROVE  /\ inbox' \in Seq(Messages) /\ Head(inbox) \in Messages
         /\ Events = Events' \cup ({Head(inbox)} \cap Changes)
<1>1. inbox \in Seq(Messages)
  BY DEF WireInv, Messages
<1>2. /\ Len(inbox) \in Nat /\ Len(inbox) > 0 /\ Len(inbox') = Len(inbox) - 1
      /\ inbox' \in Seq(Messages) /\ Head(inbox) = inbox[1] /\ Head(inbox) \in Messages
      /\ \A i \in 1 .. Len(inbox') : inbox'[i] = inbox[i + 1]
  BY <1>1
<1>3. \A i \in 1 .. Len(inbox) : i = 1 \/ (i - 1 \in 1 .. Len(inbox') /\ inbox[i] = inbox'[i - 1])
  BY <1>2
<1>4. \A i \in 1 .. Len(inbox') : i + 1 \in 1 .. Len(inbox)
  BY <1>2
<1>5. 1 \in 1 .. Len(inbox)
  BY <1>2
<1> QED
  BY <1>2, <1>3, <1>4, <1>5 DEF Events

LEMMA WireStep ==
  ASSUME TypeOK, OrderInv, WireInv, [Next]_vars
  PROVE  WireInv'
<1>1. inbox \in Seq(Messages) /\ body' = body
  BY SameBody DEF WireInv, Messages
<1>2. Committed \subseteq Committed'
  BY SameHistory, Committing DEF Committed
<1>3. ASSUME inbox' \in Seq(Messages), Events' \subseteq {c \in Committed : ~Silent(c)},
             socket' # "up" => inbox' = <<>>,
             socket' = "up" => connectedOnce',
             mounted' /\ status' = "live" => socket' = "up"
      PROVE  WireInv'
  BY <1>1, <1>2, <1>3 DEF WireInv, Messages, Silent, Kind
<1>4. CASE UNCHANGED link /\ mounted' = mounted
  BY <1>1, <1>3, <1>4 DEF WireInv, link, Events
<1>5. ASSUME NEW c \in Changes, Announce(c) PROVE WireInv'
  <2>1. c \in Committed /\ ~Silent(c) /\ c \in Messages
    BY <1>5 DEF Announce, OrderInv, Messages
  <2>2. CASE joining = "joined"
    BY <1>3, <1>5, <2>1, <2>2, Sending DEF Announce, WireInv, TypeOK, limits
  <2>3. CASE joining # "joined"
    BY <1>3, <1>1, <1>5, <2>3 DEF Announce, WireInv, limits, Events
  <2> QED
    BY <2>2, <2>3
<1>6. CASE Attempt \/ ExpireTicket \/ SweepExpiredWsTickets \/ Handshake \/ Connect
  BY <1>1, <1>3, <1>6
  DEF Attempt, IssueWsTicket, NoTicket, ExpireTicket, SweepExpiredWsTickets, Handshake, Connect,
      WireInv, limits, Events
<1>7. CASE FindMembership \/ LookupFails \/ Join
  <2>1. /\ socket' = socket /\ socket = "up" /\ UNCHANGED <<status, connectedOnce, mounted>>
        /\ inbox' = inbox \/ \E e \in {"ok", "FORBIDDEN"} : inbox' = Append(inbox, e)
    BY <1>7 DEF FindMembership, LookupFails, Join, TypeOK, limits
  <2>2. CASE inbox' = inbox
    BY <1>1, <1>3, <2>1, <2>2 DEF WireInv, Events
  <2>3. ASSUME NEW e \in {"ok", "FORBIDDEN"}, inbox' = Append(inbox, e) PROVE WireInv'
    <3>1. e \in Messages /\ {e} \cap Changes = {}
      BY <2>3, ChangeAssumption DEF Messages
    <3> QED
      BY <1>3, <2>1, <2>3, <3>1, Sending DEF WireInv
  <2> QED
    BY <2>1, <2>2, <2>3
<1>8. CASE Acknowledged \/ Deliver
  <2>1. /\ inbox # <<>> /\ inbox' = Tail(inbox) /\ socket' = socket
        /\ UNCHANGED <<connectedOnce, mounted>>
    BY <1>8 DEF Acknowledged, Deliver, limits
  <2>2. socket = "up"
    BY <2>1 DEF WireInv
  <2> QED
    BY <1>3, <2>1, <2>2, Receiving DEF WireInv
<1>9. CASE Disconnect \/ Unmount \/ Mount
  <2>1. <<>> \in Seq(Messages) /\ Len(<<>>) = 0
    OBVIOUS
  <2>2. CASE Disconnect \/ Unmount
    <3>1. inbox' = <<>> /\ socket' = "closed" /\ ~(mounted' /\ status' = "live")
      <4>1. CASE Disconnect
        BY <4>1 DEF Disconnect, WireInv
      <4>2. CASE Unmount
        <5>1. inbox' = <<>> /\ socket' = "closed" /\ mounted' = FALSE
          BY <4>2 DEF Unmount
        <5> QED
          BY <5>1, Zenon
      <4> QED
        BY <2>2, <4>1, <4>2
    <3> QED
      BY <1>3, <2>1, <3>1 DEF Events
  <2>3. CASE Mount
    BY <1>1, <1>3, <2>3 DEF Mount, WireInv, Events
  <2> QED
    BY <1>9, <2>2, <2>3
<1>10. CASE Request \/ (\E q \in Queries : Guard(q) \/ Land(q) \/ FetchFails(q))
            \/ ListMembers \/ Retry \/ CancelQueries \/ LoadMe \/ Idle
  <2>1. UNCHANGED link /\ mounted' = mounted
    BY <1>10
    DEF Request, Ask, Commit, Refuse, Answer, LoseAnswer, Guard, Land, FetchFails, ListMembers,
        Retry, CancelQueries, LoadMe, Idle, vars, link, limits
  <2> QED
    BY <1>4, <2>1
<1> QED
  BY <1>4, <1>5, <1>6, <1>7, <1>8, <1>9, <1>10 DEF Next, vars, limits
-----------------------------------------------------------------------------
(* The queries, when the page hears of nothing. *)

LEMMA NewFetches ==
  /\ DOMAIN NoFetch = {"stage", "value", "before", "missed"}
  /\ NoFetch.stage = "none" /\ NoFetch.before = {} /\ NoFetch.missed = {}
  /\ DOMAIN Asked = {"stage", "value", "before", "missed"}
  /\ Asked.stage = "asked" /\ Asked.before = {} /\ Asked.missed = {}
<1>1. DOMAIN NoFetch = {"stage", "value", "before", "missed"}
  BY DEF NoFetch
<1>2. NoFetch.stage = "none" /\ NoFetch.before = {} /\ NoFetch.missed = {}
  BY DEF NoFetch
<1>3. DOMAIN Asked = {"stage", "value", "before", "missed"}
  BY <1>1 DEF Asked
<1>4. Asked.stage = "asked" /\ Asked.before = {} /\ Asked.missed = {}
  BY <1>1, <1>2 DEF Asked
<1> QED
  BY <1>1, <1>2, <1>3, <1>4

\* An invalidated query is asked for again, or a first fetch of it goes on and is marked.
Again(f, g) ==
  \/ g = Asked
  \/ /\ f.stage # "none" /\ DOMAIN g = DOMAIN f
     /\ g.stage = f.stage /\ g.value = f.value /\ g.before = f.before
     /\ f.stage = "read" => g.missed = f.missed \cup {"joined"}
     /\ f.stage # "read" => g.missed = f.missed

LEMMA RefetchedAgain ==
  ASSUME FetchInv, NEW q \in Queries
  PROVE  Again(fetch[q], Refetched(q))
BY DEF FetchInv, IsFetch, Refetched, Again

\* The fetch has read what is committed now.
ReadsNow(q, f, g) ==
  /\ f.stage \in {"asked", "admitted"} /\ DOMAIN g = DOMAIN f
  /\ g.stage = "read" /\ g.before = Committed /\ g.missed = {}
  /\ IF q = "board" THEN g.value = role[me]
     ELSE g.value = role \/ (g.value = None /\ role[me] = None)

Admitted(q, f, g) ==
  /\ q = "members" /\ f.stage = "asked" /\ DOMAIN g = DOMAIN f
  /\ g.stage = "admitted" /\ g.before = f.before /\ g.missed = {}

\* A step of a fetch that leaves the query's data alone.
Moves(q) ==
  \/ fetch'[q] = fetch[q]
  \/ Again(fetch[q], fetch'[q])
  \/ Admitted(q, fetch[q], fetch'[q])
  \/ ReadsNow(q, fetch[q], fetch'[q])
  \/ /\ fetch'[q] = NoFetch
     /\ ~Clean(q)' \/ (q = "board" /\ error' = "failed")
     /\ q = "board" /\ error' # "failed" => data["board"] # NoData

\* What the page knows, and may have missed, as it was.
KeepsHearing ==
  /\ told' = told /\ Events' = Events /\ UNCHANGED <<data, heard>>
  /\ connectedOnce => connectedOnce'
  /\ DOMAIN trouble' = Queries /\ DOMAIN fetch' = Queries
  /\ \A q \in Queries : /\ trouble[q] \subseteq trouble'[q]
                        /\ "cut off" \in trouble'[q] => "cut off" \in trouble[q]
                        /\ Moves(q)
  /\ error' = error \/ error' = "failed"
  /\ socket' = "up" =>
       \/ socket = "up" \/ ~connectedOnce
       \/ \A q \in Queries : Again(fetch[q], fetch'[q])

LEMMA QuietQueries ==
  ASSUME IInv, [Next]_vars, \A c \in Changes : ~Commit(c), KeepsHearing
  PROVE  FetchInv' /\ ReadInv' /\ HeardInv' /\ CutOffInv' /\ BoardInv' /\ MembersInv'
<1>1. /\ role' = role /\ Committed' = Committed /\ body' = body
      /\ \A u, x, S : Knows(u, x, S)' <=> Knows(u, x, S)
  BY SameKnows DEF IInv
<1>2. FetchInv'
  <2>1. \A q \in Queries : IsFetch(q, fetch[q]) /\ Moves(q)
    BY DEF IInv, FetchInv, KeepsHearing
  <2>2. role \in [Users -> Roles \cup {None}] /\ role[me] \in Roles \cup {None}
    BY UserAssumption DEF IInv, TypeOK
  <2>3. \A q \in Queries : IsFetch(q, fetch'[q])
    BY <2>1, <2>2, NewFetches DEF IsFetch, Moves, Again, Admitted, ReadsNow
  <2>4. \A q \in Queries : IsFetch(q, fetch[q])'
    BY <1>1, <2>3 DEF IsFetch
  <2> QED
    BY <2>4 DEF IInv, FetchInv, KeepsHearing
<1>3. ReadInv'
  <2> SUFFICES ASSUME NEW q \in Queries PROVE FetchKnows(q, fetch[q])'
    BY DEF ReadInv
  <2>1. FetchKnows(q, fetch[q]) /\ Moves(q)
    BY DEF IInv, ReadInv, KeepsHearing
  <2>2. \A u : Knows(u, role[u], Committed)
    BY DEF Knows
  <2>3. FetchKnows(q, fetch'[q])
    <3>1. CASE Again(fetch[q], fetch'[q]) \/ fetch'[q] = fetch[q]
      BY <2>1, <3>1, NewFetches DEF FetchKnows, Again
    <3>2. CASE Admitted(q, fetch[q], fetch'[q]) \/ fetch'[q] = NoFetch
      BY <3>2, NewFetches DEF FetchKnows, Admitted
    <3>3. CASE ReadsNow(q, fetch[q], fetch'[q])
      <4>1. role # None
        BY NoneAssumption DEF IInv, TypeOK
      <4> QED
        BY <2>2, <3>3, <4>1 DEF FetchKnows, ReadsNow
    <3> QED
      BY <2>1, <3>1, <3>2, <3>3 DEF Moves
  <2> QED
    BY <1>1, <2>3 DEF FetchKnows
<1>4. HeardInv'
  <2> SUFFICES ASSUME NEW q \in Queries, NEW c \in Committed', Concerns(c, q)'
               PROVE  /\ c \in heard'[q] \/ OnItsWay(c)' \/ trouble'[q] # {}
                      /\ fetch'[q].stage = "read" =>
                           c \in fetch'[q].before \/ c \in heard'[q] \/ OnItsWay(c)'
                             \/ fetch'[q].missed # {}
    BY DEF HeardInv
  <2>1. c \in Committed /\ Concerns(c, q) /\ (OnItsWay(c)' <=> OnItsWay(c))
    BY <1>1 DEF Concerns, About, Kind, User, OnItsWay, Silent, KeepsHearing
  <2>2. /\ c \in heard[q] \/ OnItsWay(c) \/ trouble[q] # {}
        /\ fetch[q].stage = "read" =>
             c \in fetch[q].before \/ c \in heard[q] \/ OnItsWay(c) \/ fetch[q].missed # {}
    BY <2>1 DEF IInv, HeardInv
  <2>3. heard' = heard /\ trouble[q] \subseteq trouble'[q] /\ Moves(q)
    BY DEF KeepsHearing
  <2> QED
    BY <2>1, <2>2, <2>3, NewFetches DEF Moves, Again, Admitted, ReadsNow
<1>5. CutOffInv'
  <2> SUFFICES ASSUME NEW q \in Queries
        PROVE  /\ ~connectedOnce' => "cut off" \notin trouble'[q] \cup fetch'[q].missed
               /\ socket' = "up" /\ "cut off" \in trouble'[q] =>
                    ~Clean(q)' \/ fetch'[q].stage # "none" \/ (q = "board" /\ error' = "failed")
               /\ socket' = "up" /\ "cut off" \in fetch'[q].missed =>
                    ~(fetch'[q].missed \subseteq {"cut off"})
    BY DEF CutOffInv
  <2>1. /\ ~connectedOnce => "cut off" \notin trouble[q] \cup fetch[q].missed
        /\ socket = "up" /\ "cut off" \in trouble[q] =>
             ~Clean(q) \/ fetch[q].stage # "none" \/ (q = "board" /\ error = "failed")
        /\ socket = "up" /\ "cut off" \in fetch[q].missed => ~(fetch[q].missed \subseteq {"cut off"})
    BY DEF IInv, CutOffInv
  <2>2. /\ connectedOnce => connectedOnce'
        /\ Moves(q) /\ trouble[q] \subseteq trouble'[q] /\ ("cut off" \in trouble'[q] => "cut off" \in trouble[q])
        /\ error' = error \/ error' = "failed"
    BY DEF KeepsHearing
  <2>3. /\ Clean(q)' => Clean(q)
        /\ fetch[q].stage # "read" => fetch[q].missed = {}
    BY <2>2 DEF Clean, IInv, FetchInv, IsFetch
  <2>4. "cut off" \in fetch'[q].missed => "cut off" \in fetch[q].missed /\ fetch[q].missed \subseteq fetch'[q].missed
    <3>1. CASE Again(fetch[q], fetch'[q])
      <4>1. CASE fetch'[q] = Asked
        BY <4>1, NewFetches
      <4>2. CASE fetch'[q].missed = fetch[q].missed
        BY <4>2
      <4>3. CASE fetch'[q].missed = fetch[q].missed \cup {"joined"}
        BY <4>3
      <4> QED
        BY <3>1, <4>1, <4>2, <4>3 DEF Again
    <3>2. CASE Admitted(q, fetch[q], fetch'[q]) \/ ReadsNow(q, fetch[q], fetch'[q])
      BY <3>2 DEF Admitted, ReadsNow
    <3> QED
      BY <2>2, <3>1, <3>2, NewFetches DEF Moves
  <2>5. fetch'[q].stage # "none" \/ fetch'[q] = fetch[q] \/ ~Clean(q)' \/ (q = "board" /\ error' = "failed")
    BY <2>2, NewFetches DEF Moves, Again, Admitted, ReadsNow
  <2>6. ~connectedOnce' => "cut off" \notin trouble'[q] \cup fetch'[q].missed
    BY <2>1, <2>2, <2>4
  <2>7. CASE socket = "up" \/ ~connectedOnce
    BY <2>1, <2>2, <2>3, <2>4, <2>5, <2>7
  <2>8. CASE Again(fetch[q], fetch'[q])
    <3>1. fetch'[q].stage # "none"
      BY <2>8, NewFetches DEF Again
    <3>2. "cut off" \in fetch'[q].missed => "joined" \in fetch'[q].missed
      BY <2>3, <2>8, NewFetches DEF Again
    <3>3. "cut off" \in fetch'[q].missed => ~(fetch'[q].missed \subseteq {"cut off"})
      BY <3>2
    <3>4. ~connectedOnce' => "cut off" \notin trouble'[q] \cup fetch'[q].missed
      BY <2>1, <2>2, <2>4
    <3> QED
      BY <3>1, <3>3, <3>4
  <2> QED
    BY <2>7, <2>8, <2>6 DEF KeepsHearing
<1>6. BoardInv'
  <2>1. /\ Moves("board") /\ trouble["board"] \subseteq trouble'["board"]
        /\ error' = error \/ error' = "failed"
        /\ data' = data /\ heard' = heard
    BY DEF KeepsHearing, Queries
  <2>2. Clean("board")' => Clean("board")
    BY <2>1 DEF Clean
  <2>3. CASE fetch'["board"].stage # "none" \/ error' = "failed"
    BY <2>3 DEF BoardInv
  <2>4. CASE fetch'["board"].stage = "none" /\ error' # "failed"
    <3>1. fetch'["board"] = fetch["board"] \/ (~Clean("board")' /\ data["board"] # NoData)
      BY <2>1, <2>4, NewFetches DEF Moves, Again, Admitted, ReadsNow
    <3> QED
      BY <1>1, <2>1, <2>2, <2>4, <3>1 DEF IInv, BoardInv, RoleOnPage
  <2> QED
    BY <2>3, <2>4
<1>7. MembersInv'
  <2>1. /\ Moves("members") /\ trouble["members"] \subseteq trouble'["members"]
        /\ data' = data /\ heard' = heard
    BY DEF KeepsHearing, Queries
  <2>2. Clean("members")' => Clean("members")
    BY <2>1 DEF Clean
  <2>3. fetch'["members"].stage # "none" \/ fetch'["members"] = fetch["members"] \/ ~Clean("members")'
    BY <2>1, NewFetches DEF Moves, Again, Admitted, ReadsNow
  <2> QED
    BY <1>1, <2>1, <2>2, <2>3 DEF IInv, MembersInv
<1> QED
  BY <1>2, <1>3, <1>4, <1>5, <1>6, <1>7

LEMMA InvalidatedAgain ==
  ASSUME FetchInv, NEW qs, Invalidate(qs)
  PROVE  /\ DOMAIN fetch' = Queries
         /\ \A q \in Queries : IF q \in qs THEN Again(fetch[q], fetch'[q]) ELSE fetch'[q] = fetch[q]
BY RefetchedAgain DEF Invalidate

\* Steps that touch neither the fetches nor the ghosts.
LEMMA StillKeepsHearing ==
  ASSUME IInv, UNCHANGED <<told, inbox, data, heard, connectedOnce, trouble, fetch, error>>,
         socket' = "up" => socket = "up"
  PROVE  KeepsHearing
BY DEF KeepsHearing, Events, Moves, IInv, FetchInv

QuietStep ==
  \/ \E c \in Changes : Ask(c) \/ Refuse(c) \/ Answer(c) \/ LoseAnswer(c)
  \/ \E q \in Queries : Guard(q) \/ FetchFails(q)
  \/ ListMembers \/ Retry \/ CancelQueries \/ LoadMe
  \/ Attempt \/ ExpireTicket \/ SweepExpiredWsTickets \/ Handshake
  \/ Connect \/ FindMembership \/ LookupFails \/ Join \/ Acknowledged
  \/ Mount \/ UNCHANGED vars

LEMMA QuietSteps ==
  ASSUME IInv, QuietStep
  PROVE  KeepsHearing
<1> USE DEF server, link, limits, page
<1>1. /\ DOMAIN fetch = Queries /\ DOMAIN trouble = Queries /\ DOMAIN data = Queries
      /\ \A q \in Queries : IsFetch(q, fetch[q])
      /\ "board" \in Queries /\ "members" \in Queries /\ FetchInv
  BY DEF IInv, FetchInv, Queries
<1>2. ASSUME UNCHANGED <<told, inbox, data, heard, connectedOnce, trouble>>,
             DOMAIN fetch' = Queries, \A q \in Queries : Moves(q),
             error' = error \/ error' = "failed",
             socket' = "up" => socket = "up" \/ ~connectedOnce
                                 \/ \A q \in Queries : Again(fetch[q], fetch'[q])
      PROVE  KeepsHearing
  BY <1>1, <1>2 DEF KeepsHearing, Events
<1>3. ASSUME NEW c \in Changes, Ask(c) \/ Refuse(c) \/ LoseAnswer(c) PROVE KeepsHearing
  BY <1>3, StillKeepsHearing DEF Ask, Refuse, LoseAnswer
<1>4. ASSUME NEW c \in Changes, Answer(c) PROVE KeepsHearing
  <2>1. UNCHANGED <<told, inbox, data, heard, connectedOnce, trouble, error, socket>>
    BY <1>4 DEF Answer
  <2>2. fetch' = fetch \/ Invalidate({"members"})
    BY <1>4 DEF Answer
  <2> QED
    BY <1>1, <1>2, <2>1, <2>2, InvalidatedAgain DEF Moves
<1>5. ASSUME NEW q \in Queries, Guard(q) PROVE KeepsHearing
  <2>1. UNCHANGED <<told, inbox, data, heard, connectedOnce, trouble, error, socket>>
    BY <1>5 DEF Guard
  <2>2. /\ DOMAIN fetch' = Queries /\ \A p \in Queries \ {q} : fetch'[p] = fetch[p]
        /\ fetch[q].stage = "asked" /\ fetch[q].missed = {}
        /\ \/ role[me] # None /\ q = "members" /\ fetch'[q] = [fetch[q] EXCEPT !.stage = "admitted"]
           \/ /\ role[me] = None \/ q = "board"
              /\ fetch'[q] = [fetch[q] EXCEPT !.stage = "read", !.value = role[me],
                                              !.before = Committed]
    BY <1>1, <1>5 DEF Guard, IsFetch, Queries
  <2>3. Admitted(q, fetch[q], fetch'[q]) \/ ReadsNow(q, fetch[q], fetch'[q])
    BY <1>1, <2>2 DEF IsFetch, Admitted, ReadsNow
  <2>4. \A p \in Queries : Moves(p)
    BY <2>2, <2>3 DEF Moves
  <2> QED
    BY <1>2, <2>1, <2>2, <2>4
<1>6. ASSUME NEW q \in Queries, FetchFails(q) PROVE KeepsHearing
  <2>1. /\ UNCHANGED <<told, inbox, data, heard, connectedOnce, socket>>
        /\ DOMAIN fetch' = Queries /\ \A p \in Queries \ {q} : fetch'[p] = fetch[p]
        /\ fetch'[q] = NoFetch
        /\ error' = IF q = "board" THEN "failed" ELSE error
        /\ trouble' = [trouble EXCEPT ![q] = @ \cup (IF q = "members" THEN {"failed"} ELSE {})]
    BY <1>1, <1>6 DEF FetchFails
  <2>2. /\ DOMAIN trouble' = Queries
        /\ \A p \in Queries : /\ trouble[p] \subseteq trouble'[p]
                              /\ "cut off" \in trouble'[p] => "cut off" \in trouble[p]
        /\ q = "members" => "failed" \in trouble'[q]
    BY <1>1, <2>1
  <2>3. \A p \in Queries : Moves(p)
    BY <2>1, <2>2 DEF Moves, Clean, Queries
  <2> QED
    BY <2>1, <2>2, <2>3 DEF KeepsHearing, Events
<1>7. CASE ListMembers
  <2>1. UNCHANGED <<told, inbox, data, heard, connectedOnce, trouble, error, socket>>
    BY <1>7 DEF ListMembers
  <2>2. /\ DOMAIN fetch' = Queries /\ fetch'["board"] = fetch["board"]
        /\ fetch["members"].stage = "admitted" /\ fetch["members"].missed = {}
        /\ fetch'["members"] = [fetch["members"] EXCEPT !.stage = "read", !.value = role,
                                                        !.before = Committed]
    BY <1>1, <1>7 DEF ListMembers, IsFetch
  <2>3. ReadsNow("members", fetch["members"], fetch'["members"])
    BY <1>1, <2>2 DEF IsFetch, ReadsNow
  <2>4. \A p \in Queries : Moves(p)
    BY <2>2, <2>3 DEF Moves, Queries
  <2> QED
    BY <1>2, <2>1, <2>2, <2>4
<1>8. CASE Retry
  <2>1. UNCHANGED <<told, inbox, data, heard, connectedOnce, trouble, error, socket>>
    BY <1>8 DEF Retry
  <2>2. /\ DOMAIN fetch' = Queries /\ fetch'["members"] = fetch["members"]
        /\ fetch'["board"] = Asked
    BY <1>1, <1>8 DEF Retry
  <2>3. \A p \in Queries : Moves(p)
    BY <2>2 DEF Moves, Again, Queries
  <2> QED
    BY <1>2, <2>1, <2>2, <2>3
<1>9. CASE CancelQueries
  <2>1. /\ UNCHANGED <<told, inbox, data, heard, connectedOnce, error, socket>>
        /\ data["board"] # NoData
        /\ fetch' = [q \in Queries |-> NoFetch]
        /\ trouble' = [q \in Queries |->
             trouble[q] \cup (IF fetch[q].stage # "none" THEN {"cancelled"} ELSE {})]
    BY <1>9, NoneAssumption DEF CancelQueries, Roles
  <2>2. \A q \in Queries : /\ trouble[q] \subseteq trouble'[q]
                           /\ "cut off" \in trouble'[q] => "cut off" \in trouble[q]
    BY <2>1
  <2>3. ASSUME NEW q \in Queries PROVE Moves(q)
    <3>1. CASE fetch[q].stage # "none"
      BY <2>1, <3>1 DEF Moves, Clean
    <3>2. CASE fetch[q].stage = "none"
      BY <1>1, <2>1, <3>2 DEF Moves, IsFetch
    <3> QED
      BY <3>1, <3>2
  <2> QED
    BY <2>1, <2>2, <2>3 DEF KeepsHearing, Events
<1>10. CASE LoadMe \/ Attempt \/ ExpireTicket \/ SweepExpiredWsTickets \/ Handshake
  BY <1>10, StillKeepsHearing
  DEF LoadMe, Attempt, IssueWsTicket, NoTicket, ExpireTicket, SweepExpiredWsTickets, Handshake
<1>11. CASE Connect
  <2>1. UNCHANGED <<told, inbox, data, heard, trouble, error>>
    BY <1>11 DEF Connect
  <2>2. connectedOnce' = TRUE
    BY <1>11 DEF Connect
  <2>3. Invalidate(IF connectedOnce THEN Queries ELSE {})
    BY <1>11 DEF Connect
  <2>4. CASE connectedOnce
    <3>1. Invalidate(Queries)
      BY <2>3, <2>4
    <3>2. DOMAIN fetch' = Queries /\ \A q \in Queries : Again(fetch[q], fetch'[q])
      BY <1>1, <3>1, InvalidatedAgain
    <3> QED
      BY <1>1, <2>1, <2>2, <3>2 DEF KeepsHearing, Moves, Events
  <2>5. CASE ~connectedOnce
    <3>1. Invalidate({})
      BY <2>3, <2>5
    <3>2. DOMAIN fetch' = Queries /\ \A q \in Queries : fetch'[q] = fetch[q]
      BY <1>1, <3>1, InvalidatedAgain
    <3> QED
      BY <1>1, <2>1, <2>2, <2>5, <3>2 DEF KeepsHearing, Moves, Events
  <2> QED
    BY <2>4, <2>5
<1>12. CASE FindMembership \/ LookupFails \/ Join \/ Acknowledged
  <2>1. /\ UNCHANGED <<told, data, heard, connectedOnce, trouble, fetch, error, socket>>
        /\ Events' = Events
    <3>1. CASE FindMembership \/ LookupFails \/ Join
      <4>1. \/ inbox' = inbox
            \/ \E e \in {"ok", "FORBIDDEN"} : inbox' = Append(inbox, e)
        BY <3>1 DEF FindMembership, LookupFails, Join
      <4>2. \A e \in {"ok", "FORBIDDEN"} : e \in Messages /\ {e} \cap Changes = {}
        BY ChangeAssumption DEF Messages
      <4>3. Events' = Events
        BY <4>1, <4>2, Sending DEF IInv, Events
      <4> QED
        BY <3>1, <4>3 DEF FindMembership, LookupFails, Join
    <3>2. CASE Acknowledged
      <4>1. /\ inbox # <<>> /\ inbox' = Tail(inbox)
            /\ {Head(inbox)} \cap Changes = {}
        BY <3>2, ChangeAssumption DEF Acknowledged
      <4> QED
        BY <3>2, <4>1, Receiving DEF Acknowledged, IInv
    <3> QED
      BY <1>12, <3>1, <3>2
  <2> QED
    BY <1>1, <2>1 DEF KeepsHearing, Moves
<1>13. CASE Mount
  <2>1. UNCHANGED <<told, inbox, data, heard, connectedOnce, trouble, error, socket>>
    BY <1>13 DEF Mount
  <2>2. /\ DOMAIN fetch' = Queries
        /\ \A q \in Queries : fetch'[q] = fetch[q] \/ fetch'[q] = Asked
    BY <1>13 DEF Mount
  <2>3. \A q \in Queries : Moves(q)
    BY <2>2 DEF Moves, Again
  <2> QED
    BY <1>2, <2>1, <2>2, <2>3
<1>14. CASE UNCHANGED vars
  BY <1>14, StillKeepsHearing DEF vars
<1> QED
  BY <1>3, <1>4, <1>5, <1>6, <1>7, <1>8, <1>9, <1>10, <1>11, <1>12, <1>13, <1>14 DEF QuietStep
-----------------------------------------------------------------------------
(* What the page is not told of. *)

\* Of the changes it names, those that concern a query and are not in its data are marked.
LEMMA UnheardMarks ==
  ASSUME FetchInv, NEW STATE cs, NEW STATE kind, Unheard(cs, kind)
  PROVE  /\ DOMAIN fetch' = Queries /\ DOMAIN trouble' = Queries
         /\ \A q \in Queries :
              /\ DOMAIN fetch'[q] = DOMAIN fetch[q] /\ fetch'[q].stage = fetch[q].stage
              /\ fetch'[q].value = fetch[q].value /\ fetch'[q].before = fetch[q].before
              /\ fetch[q].stage # "read" => fetch'[q] = fetch[q]
              /\ trouble'[q] \in {trouble[q], trouble[q] \cup {kind}}
              /\ fetch'[q].missed \in {fetch[q].missed, fetch[q].missed \cup {kind}}
              /\ \A c \in cs : Concerns(c, q) =>
                   /\ c \in heard[q] \/ kind \in trouble'[q]
                   /\ fetch[q].stage = "read" => c \in fetch[q].before \/ kind \in fetch'[q].missed
              /\ cs = {} => trouble'[q] = trouble[q] /\ fetch'[q] = fetch[q]
<1> DEFINE lost(q) == {c \in cs : Concerns(c, q)}
<1>1. /\ trouble' = [q \in Queries |->
           trouble[q] \cup (IF lost(q) \subseteq heard[q] THEN {} ELSE {kind})]
      /\ fetch' = [q \in Queries |->
           IF fetch[q].stage = "read" /\ ~(lost(q) \subseteq fetch[q].before)
           THEN [fetch[q] EXCEPT !.missed = @ \cup {kind}] ELSE fetch[q]]
  BY DEF Unheard
<1>2. ASSUME NEW q \in Queries
      PROVE  /\ trouble'[q] = trouble[q] \cup (IF lost(q) \subseteq heard[q] THEN {} ELSE {kind})
             /\ fetch'[q] = IF fetch[q].stage = "read" /\ ~(lost(q) \subseteq fetch[q].before)
                            THEN [fetch[q] EXCEPT !.missed = @ \cup {kind}] ELSE fetch[q]
             /\ DOMAIN fetch[q] = {"stage", "value", "before", "missed"}
  BY <1>1 DEF FetchInv, IsFetch
<1>3. ASSUME NEW q \in Queries
      PROVE  /\ DOMAIN fetch'[q] = DOMAIN fetch[q] /\ fetch'[q].stage = fetch[q].stage
             /\ fetch'[q].value = fetch[q].value /\ fetch'[q].before = fetch[q].before
             /\ fetch[q].stage # "read" => fetch'[q] = fetch[q]
             /\ fetch'[q].missed = IF fetch[q].stage = "read" /\ ~(lost(q) \subseteq fetch[q].before)
                                   THEN fetch[q].missed \cup {kind} ELSE fetch[q].missed
  BY <1>2
<1>4. ASSUME NEW q \in Queries, NEW c \in cs, Concerns(c, q)
      PROVE  /\ c \in heard[q] \/ kind \in trouble'[q]
             /\ fetch[q].stage = "read" => c \in fetch[q].before \/ kind \in fetch'[q].missed
  <2>1. c \in lost(q)
    BY <1>4
  <2> QED
    BY <1>2, <1>3, <2>1
<1>5. ASSUME NEW q \in Queries, cs = {}
      PROVE  trouble'[q] = trouble[q] /\ fetch'[q] = fetch[q]
  BY <1>2, <1>5
<1>6. DOMAIN fetch' = Queries /\ DOMAIN trouble' = Queries
  BY <1>1
<1>7. ASSUME NEW q \in Queries
      PROVE  /\ trouble'[q] \in {trouble[q], trouble[q] \cup {kind}}
             /\ fetch'[q].missed \in {fetch[q].missed, fetch[q].missed \cup {kind}}
  <2>1. trouble[q] \cup {} = trouble[q]
    OBVIOUS
  <2>2. trouble'[q] = trouble[q] \cup {} \/ trouble'[q] = trouble[q] \cup {kind}
    BY <1>2, <1>7
  <2>3. fetch'[q].missed = fetch[q].missed \/ fetch'[q].missed = fetch[q].missed \cup {kind}
    BY <1>3, <1>7
  <2> QED
    BY <2>1, <2>2, <2>3
<1> HIDE DEF lost
<1> SUFFICES ASSUME NEW q \in Queries
             PROVE  /\ DOMAIN fetch'[q] = DOMAIN fetch[q] /\ fetch'[q].stage = fetch[q].stage
                    /\ fetch'[q].value = fetch[q].value /\ fetch'[q].before = fetch[q].before
                    /\ fetch[q].stage # "read" => fetch'[q] = fetch[q]
                    /\ trouble'[q] \in {trouble[q], trouble[q] \cup {kind}}
                    /\ fetch'[q].missed \in {fetch[q].missed, fetch[q].missed \cup {kind}}
                    /\ \A c \in cs : Concerns(c, q) =>
                         /\ c \in heard[q] \/ kind \in trouble'[q]
                         /\ fetch[q].stage = "read" =>
                              c \in fetch[q].before \/ kind \in fetch'[q].missed
                    /\ cs = {} => trouble'[q] = trouble[q] /\ fetch'[q] = fetch[q]
  BY <1>6, Zenon
<1>8. cs = {} => trouble'[q] = trouble[q] /\ fetch'[q] = fetch[q]
  BY <1>5
<1>9. \A c \in cs : Concerns(c, q) =>
        /\ c \in heard[q] \/ kind \in trouble'[q]
        /\ fetch[q].stage = "read" => c \in fetch[q].before \/ kind \in fetch'[q].missed
  BY <1>4, Zenon
<1> QED
  BY <1>3, <1>7, <1>8, <1>9, Zenon

Marks(q) ==
  /\ DOMAIN fetch'[q] = DOMAIN fetch[q] /\ fetch'[q].stage = fetch[q].stage
  /\ fetch'[q].value = fetch[q].value /\ fetch'[q].before = fetch[q].before
  /\ fetch[q].stage = "none" => fetch'[q] = NoFetch
  /\ fetch[q].stage # "read" => fetch'[q].missed = {}
  /\ trouble'[q] \subseteq {"cut off"} => trouble[q] \subseteq {"cut off"}
  /\ fetch'[q].missed \subseteq {"cut off"} => fetch[q].missed \subseteq {"cut off"}
  /\ trouble'[q] = {} => trouble[q] = {}
  /\ fetch'[q].missed = {} => fetch[q].missed = {}
  /\ socket' = "up" =>
       /\ "cut off" \in trouble'[q] => "cut off" \in trouble[q]
       /\ "cut off" \in fetch'[q].missed => "cut off" \in fetch[q].missed
  /\ ~connectedOnce' => "cut off" \notin trouble'[q] \cup fetch'[q].missed
  /\ \A c \in Committed : Concerns(c, q) /\ OnItsWay(c) /\ ~OnItsWay(c)' =>
       /\ c \in heard[q] \/ trouble'[q] # {}
       /\ fetch[q].stage = "read" => c \in fetch[q].before \/ fetch'[q].missed # {}

LEMMA MarkedQueries ==
  ASSUME IInv, [Next]_vars, \A c \in Changes : ~Commit(c),
         UNCHANGED <<data, heard, error>>, socket' = "up" => socket = "up",
         DOMAIN fetch' = Queries, DOMAIN trouble' = Queries,
         \A q \in Queries : Marks(q)
  PROVE  FetchInv' /\ ReadInv' /\ HeardInv' /\ CutOffInv' /\ BoardInv' /\ MembersInv'
<1>1. /\ role' = role /\ Committed' = Committed /\ body' = body
      /\ \A u, x, S : Knows(u, x, S)' <=> Knows(u, x, S)
  BY SameKnows DEF IInv
<1>2. \A q \in Queries :
        /\ DOMAIN fetch'[q] = DOMAIN fetch[q] /\ fetch'[q].stage = fetch[q].stage
        /\ fetch'[q].value = fetch[q].value /\ fetch'[q].before = fetch[q].before
        /\ fetch[q].stage = "none" => fetch'[q] = NoFetch
        /\ fetch[q].stage # "read" => fetch'[q].missed = {}
        /\ fetch'[q].missed \subseteq {"cut off"} => fetch[q].missed \subseteq {"cut off"}
        /\ Clean(q)' => Clean(q)
  BY DEF Marks, Clean
<1>3. FetchInv'
  <2>1. \A q \in Queries : IsFetch(q, fetch[q])
    BY DEF IInv, FetchInv
  <2>2. \A q \in Queries : IsFetch(q, fetch[q])'
    BY <1>1, <1>2, <2>1 DEF IsFetch
  <2> QED
    BY <2>2 DEF IInv, FetchInv
<1>4. ReadInv'
  <2> SUFFICES ASSUME NEW q \in Queries PROVE FetchKnows(q, fetch[q])'
    BY DEF ReadInv
  <2>1. FetchKnows(q, fetch[q])
    BY DEF IInv, ReadInv
  <2>2. FetchKnows(q, fetch'[q])
    BY <1>2, <2>1 DEF FetchKnows
  <2> QED
    BY <1>1, <2>2 DEF FetchKnows
<1>5. HeardInv'
  <2> SUFFICES ASSUME NEW q \in Queries, NEW c \in Committed', Concerns(c, q)'
               PROVE  /\ c \in heard'[q] \/ OnItsWay(c)' \/ trouble'[q] # {}
                      /\ fetch'[q].stage = "read" =>
                           c \in fetch'[q].before \/ c \in heard'[q] \/ OnItsWay(c)'
                             \/ fetch'[q].missed # {}
    BY DEF HeardInv
  <2>1. c \in Committed /\ Concerns(c, q)
    BY <1>1 DEF Concerns, About, Kind, User
  <2>2. /\ c \in heard[q] \/ OnItsWay(c) \/ trouble[q] # {}
        /\ fetch[q].stage = "read" =>
             c \in fetch[q].before \/ c \in heard[q] \/ OnItsWay(c) \/ fetch[q].missed # {}
    BY <2>1 DEF IInv, HeardInv
  <2>3. /\ OnItsWay(c) /\ ~OnItsWay(c)' =>
             /\ c \in heard[q] \/ trouble'[q] # {}
             /\ fetch[q].stage = "read" => c \in fetch[q].before \/ fetch'[q].missed # {}
        /\ trouble'[q] = {} => trouble[q] = {}
        /\ fetch'[q].missed = {} => fetch[q].missed = {}
        /\ fetch'[q].stage = fetch[q].stage /\ fetch'[q].before = fetch[q].before
    BY <2>1 DEF Marks
  <2> QED
    BY <2>2, <2>3
<1>6. CutOffInv'
  <2> SUFFICES ASSUME NEW q \in Queries
        PROVE  /\ ~connectedOnce' => "cut off" \notin trouble'[q] \cup fetch'[q].missed
               /\ socket' = "up" /\ "cut off" \in trouble'[q] =>
                    ~Clean(q)' \/ fetch'[q].stage # "none" \/ (q = "board" /\ error' = "failed")
               /\ socket' = "up" /\ "cut off" \in fetch'[q].missed =>
                    ~(fetch'[q].missed \subseteq {"cut off"})
    BY DEF CutOffInv
  <2>1. /\ socket = "up" /\ "cut off" \in trouble[q] =>
             ~Clean(q) \/ fetch[q].stage # "none" \/ (q = "board" /\ error = "failed")
        /\ socket = "up" /\ "cut off" \in fetch[q].missed => ~(fetch[q].missed \subseteq {"cut off"})
    BY DEF IInv, CutOffInv
  <2>2. /\ ~connectedOnce' => "cut off" \notin trouble'[q] \cup fetch'[q].missed
        /\ socket' = "up" =>
             /\ "cut off" \in trouble'[q] => "cut off" \in trouble[q]
             /\ "cut off" \in fetch'[q].missed => "cut off" \in fetch[q].missed
    BY DEF Marks
  <2> QED
    BY <1>2, <2>1, <2>2
<1>7. BoardInv'
  <2>1. "board" \in Queries /\ "members" \in Queries
    BY DEF Queries
  <2> QED
    BY <1>1, <1>2, <2>1 DEF IInv, BoardInv, RoleOnPage
<1>8. MembersInv'
  <2>1. "board" \in Queries /\ "members" \in Queries
    BY DEF Queries
  <2> QED
    BY <1>1, <1>2, <2>1 DEF IInv, MembersInv
<1> QED
  BY <1>3, <1>4, <1>5, <1>6, <1>7, <1>8

LEMMA AnnounceMarks ==
  ASSUME IInv, NEW c \in Changes, Announce(c)
  PROVE  /\ DOMAIN fetch' = Queries /\ DOMAIN trouble' = Queries
         /\ UNCHANGED <<data, heard, error, socket>>
         /\ \A q \in Queries : Marks(q)
<1>1. /\ UNCHANGED <<data, heard, error, socket, connectedOnce, body>>
      /\ told' = told \cup {c} /\ ~Silent(c) /\ FetchInv /\ c \in Messages
  BY DEF Announce, limits, IInv, Messages
<1>2. \A q \in Queries :
        /\ ~connectedOnce => "cut off" \notin trouble[q] \cup fetch[q].missed
        /\ fetch[q].stage = "none" => fetch[q] = NoFetch
        /\ fetch[q].stage # "read" => fetch[q].missed = {}
  BY DEF IInv, CutOffInv, FetchInv, IsFetch
<1>3. \A d : Kind(d)' = Kind(d)
  BY <1>1 DEF Kind
<1>4. CASE joining = "joined"
  <2>1. inbox' = Append(inbox, c) /\ UNCHANGED <<fetch, trouble>>
    BY <1>4 DEF Announce
  <2>2. Events' = Events \cup {c}
    BY <1>1, <2>1, Sending DEF IInv
  <2>3. \A d : OnItsWay(d) => OnItsWay(d)'
    BY <1>1, <1>3, <2>2 DEF OnItsWay, Silent, Kind
  <2> QED
    BY <1>1, <1>2, <2>1, <2>3 DEF Marks, FetchInv
<1>5. CASE joining # "joined"
  <2> DEFINE kind == IF connectedOnce /\ socket # "up" THEN "cut off" ELSE "early"
  <2>1. Unheard({c}, kind) /\ Events' = Events
    BY <1>5 DEF Announce, Events
  <2>2. \A d : OnItsWay(d) /\ ~OnItsWay(d)' => d = c
    BY <1>1, <1>3, <2>1 DEF OnItsWay, Silent, Kind
  <2>3. kind = "cut off" => connectedOnce /\ socket # "up"
    OBVIOUS
  <2> HIDE DEF kind
  <2> SUFFICES ASSUME NEW q \in Queries PROVE Marks(q)
    BY <1>1, <2>1, UnheardMarks
  <2>4. /\ DOMAIN fetch'[q] = DOMAIN fetch[q] /\ fetch'[q].stage = fetch[q].stage
        /\ fetch'[q].value = fetch[q].value /\ fetch'[q].before = fetch[q].before
        /\ fetch[q].stage # "read" => fetch'[q] = fetch[q]
        /\ trouble'[q] \in {trouble[q], trouble[q] \cup {kind}}
        /\ fetch'[q].missed \in {fetch[q].missed, fetch[q].missed \cup {kind}}
        /\ Concerns(c, q) =>
             /\ c \in heard[q] \/ kind \in trouble'[q]
             /\ fetch[q].stage = "read" => c \in fetch[q].before \/ kind \in fetch'[q].missed
    BY <1>1, <2>1, UnheardMarks
  <2> QED
    BY <1>1, <1>2, <2>2, <2>3, <2>4 DEF Marks
<1> QED
  BY <1>1, <1>4, <1>5

LEMMA DisconnectMarks ==
  ASSUME IInv, Disconnect
  PROVE  /\ DOMAIN fetch' = Queries /\ DOMAIN trouble' = Queries
         /\ UNCHANGED <<data, heard, error>> /\ socket' # "up"
         /\ \A q \in Queries : Marks(q)
<1>1. /\ UNCHANGED <<data, heard, error, connectedOnce, body, told>> /\ socket' = "closed"
      /\ inbox' = <<>> /\ Unheard(Events, "cut off") /\ FetchInv
  BY DEF Disconnect, server, IInv
<1>2. \A q \in Queries :
        /\ ~connectedOnce => "cut off" \notin trouble[q] \cup fetch[q].missed
        /\ fetch[q].stage = "none" => fetch[q] = NoFetch
        /\ fetch[q].stage # "read" => fetch[q].missed = {}
  BY DEF IInv, CutOffInv, FetchInv, IsFetch
<1>3. ~connectedOnce => Events = {}
  BY DEF IInv, WireInv, Events
<1>4. \A d : OnItsWay(d) /\ ~OnItsWay(d)' => d \in Events
  BY <1>1 DEF OnItsWay, Silent, Kind
<1> SUFFICES ASSUME NEW q \in Queries PROVE Marks(q)
  BY <1>1, UnheardMarks
<1> DEFINE kind == "cut off"
<1>5. Unheard(Events, kind)
  BY <1>1
<1> HIDE DEF kind
<1>6. /\ DOMAIN fetch'[q] = DOMAIN fetch[q] /\ fetch'[q].stage = fetch[q].stage
      /\ fetch'[q].value = fetch[q].value /\ fetch'[q].before = fetch[q].before
      /\ fetch[q].stage # "read" => fetch'[q] = fetch[q]
      /\ trouble'[q] \in {trouble[q], trouble[q] \cup {kind}}
      /\ fetch'[q].missed \in {fetch[q].missed, fetch[q].missed \cup {kind}}
      /\ \A c \in Events : Concerns(c, q) =>
           /\ c \in heard[q] \/ kind \in trouble'[q]
           /\ fetch[q].stage = "read" => c \in fetch[q].before \/ kind \in fetch'[q].missed
      /\ Events = {} => trouble'[q] = trouble[q] /\ fetch'[q] = fetch[q]
  BY <1>1, <1>5, UnheardMarks
<1> USE DEF kind
<1> QED
  BY <1>1, <1>2, <1>3, <1>4, <1>6 DEF Marks

LEMMA UnmountMarks ==
  ASSUME IInv, Unmount
  PROVE  /\ DOMAIN fetch' = Queries /\ DOMAIN trouble' = Queries
         /\ UNCHANGED <<data, heard, error>> /\ socket' # "up"
         /\ \A q \in Queries : Marks(q)
<1> DEFINE lost(q) == {c \in Events : Concerns(c, q)}
<1>1. /\ UNCHANGED <<data, heard, error, body, told>> /\ socket' = "closed" /\ inbox' = <<>>
      /\ trouble' = [q \in Queries |->
           Early(trouble[q]) \cup (IF lost(q) \subseteq heard[q] THEN {} ELSE {"early"})]
      /\ fetch' = [q \in Queries |->
           IF fetch[q].stage = "read" /\ ~(lost(q) \subseteq fetch[q].before)
           THEN [fetch[q] EXCEPT !.missed = Early(@) \cup {"early"}]
           ELSE [fetch[q] EXCEPT !.missed = Early(@)]]
  BY DEF Unmount, server
<1>2. \A K : /\ "cut off" \notin Early(K)
             /\ Early(K) \subseteq {"cut off"} => K = {}
  BY DEF Early
<1>3. Early({}) = {}
  BY DEF Early
<1>4. \A d : OnItsWay(d) /\ ~OnItsWay(d)' => d \in Events
  BY <1>1 DEF OnItsWay, Silent, Kind
<1> SUFFICES ASSUME NEW q \in Queries PROVE Marks(q)
  BY <1>1
<1>5. /\ DOMAIN fetch[q] = {"stage", "value", "before", "missed"}
      /\ fetch[q].stage = "none" => fetch[q] = NoFetch
      /\ fetch[q].stage # "read" => fetch[q].missed = {}
  BY DEF IInv, FetchInv, IsFetch
<1>6. /\ DOMAIN fetch'[q] = DOMAIN fetch[q] /\ fetch'[q].stage = fetch[q].stage
      /\ fetch'[q].value = fetch[q].value /\ fetch'[q].before = fetch[q].before
      /\ fetch'[q].missed =
           IF fetch[q].stage = "read" /\ ~(lost(q) \subseteq fetch[q].before)
           THEN Early(fetch[q].missed) \cup {"early"} ELSE Early(fetch[q].missed)
      /\ trouble'[q] =
           Early(trouble[q]) \cup (IF lost(q) \subseteq heard[q] THEN {} ELSE {"early"})
  BY <1>1, <1>5
<1>7. ASSUME fetch[q].stage = "none" PROVE fetch'[q] = NoFetch
  <2>1. fetch[q] = NoFetch /\ fetch'[q] = [NoFetch EXCEPT !.missed = {}]
    BY <1>1, <1>3, <1>5, <1>7, NewFetches
  <2> QED
    BY <2>1 DEF NoFetch
<1>8. ASSUME NEW c, Concerns(c, q), c \in Events
      PROVE  /\ c \in heard[q] \/ trouble'[q] # {}
             /\ fetch[q].stage = "read" => c \in fetch[q].before \/ fetch'[q].missed # {}
  <2>1. c \in lost(q)
    BY <1>8
  <2> HIDE DEF lost
  <2> QED
    BY <1>6, <2>1
<1> HIDE DEF lost
<1>9. /\ trouble'[q] \subseteq {"cut off"} => trouble[q] \subseteq {"cut off"}
      /\ fetch'[q].missed \subseteq {"cut off"} => fetch[q].missed \subseteq {"cut off"}
      /\ trouble'[q] = {} => trouble[q] = {}
      /\ fetch'[q].missed = {} => fetch[q].missed = {}
      /\ "cut off" \notin trouble'[q] \cup fetch'[q].missed
  <2>1. /\ Early(trouble[q]) \subseteq trouble'[q]
        /\ Early(fetch[q].missed) \subseteq fetch'[q].missed
    BY <1>6
  <2>2. "cut off" \notin trouble'[q]
    BY <1>2, <1>6
  <2>3. "cut off" \notin fetch'[q].missed
    BY <1>2, <1>6
  <2> QED
    BY <1>2, <2>1, <2>2, <2>3
<1> QED
  BY <1>1, <1>3, <1>4, <1>5, <1>6, <1>7, <1>8, <1>9 DEF Marks

LEMMA NoCommit ==
  ASSUME OrderInv, order' = order
  PROVE  \A c \in Changes : ~Commit(c)
<1> SUFFICES ASSUME NEW c \in Changes, Commit(c) PROVE FALSE
  OBVIOUS
<1>1. order' = Append(order, c) /\ order \in Seq(Changes)
  BY DEF Commit, OrderInv
<1> QED
  BY <1>1

MarkStep == (\E c \in Changes : Announce(c)) \/ Disconnect \/ Unmount

LEMMA MarkSteps ==
  ASSUME IInv, MarkStep
  PROVE  FetchInv' /\ ReadInv' /\ HeardInv' /\ CutOffInv' /\ BoardInv' /\ MembersInv'
<1>1. order' = order
  BY DEF MarkStep, Announce, Disconnect, Unmount, server
<1>2. \A c \in Changes : ~Commit(c)
  BY <1>1, NoCommit DEF IInv
<1>3. Next
  BY DEF MarkStep, Next
<1>4. /\ DOMAIN fetch' = Queries /\ DOMAIN trouble' = Queries
      /\ UNCHANGED <<data, heard, error>> /\ (socket' = "up" => socket = "up")
      /\ \A q \in Queries : Marks(q)
  BY AnnounceMarks, DisconnectMarks, UnmountMarks DEF MarkStep
<1> QED
  BY <1>2, <1>3, <1>4, MarkedQueries
-----------------------------------------------------------------------------
(* What is committed. *)

LEMMA CommitQueries ==
  ASSUME IInv, NEW e \in Changes, Commit(e)
  PROVE  FetchInv' /\ ReadInv' /\ HeardInv' /\ CutOffInv' /\ BoardInv' /\ MembersInv'
<1> DEFINE lost == {d \in {e} : Silent(d)}
           kind == "unannounced"
<1>1. /\ UNCHANGED <<told, body, data, error, heard, connectedOnce, socket, inbox>>
      /\ Unheard(lost, kind) /\ FetchInv
  BY DEF Commit, link, IInv
<1>2. e \notin Committed /\ Committed' = Committed \cup {e}
  BY Committing DEF IInv
<1>3. \A u \in Users : \A x, S : S \subseteq Committed /\ Knows(u, x, S) => Knows(u, x, S)'
  BY CommitKnows DEF IInv
<1>4. /\ "board" \in Queries /\ "members" \in Queries /\ me \in Users
      /\ told \subseteq Committed
      /\ \A q \in Queries : heard[q] \subseteq Committed /\ fetch[q].before \subseteq Committed
  BY UserAssumption DEF IInv, TypeOK, FetchInv, IsFetch, Queries
<1>5. \A c : /\ \A q : Concerns(c, q)' <=> Concerns(c, q)
             /\ Kind(c)' = Kind(c) /\ User(c)' = User(c)
  BY <1>1 DEF Concerns, About, Kind, User
<1>6. kind # "cut off"
  OBVIOUS
<1> HIDE DEF lost, kind
<1>7. /\ DOMAIN fetch' = Queries /\ DOMAIN trouble' = Queries
      /\ \A q \in Queries :
              /\ DOMAIN fetch'[q] = DOMAIN fetch[q] /\ fetch'[q].stage = fetch[q].stage
              /\ fetch'[q].value = fetch[q].value /\ fetch'[q].before = fetch[q].before
              /\ fetch[q].stage # "read" => fetch'[q] = fetch[q]
              /\ trouble'[q] \in {trouble[q], trouble[q] \cup {kind}}
              /\ fetch'[q].missed \in {fetch[q].missed, fetch[q].missed \cup {kind}}
              /\ \A c \in lost : Concerns(c, q) =>
                   /\ c \in heard[q] \/ kind \in trouble'[q]
                   /\ fetch[q].stage = "read" => c \in fetch[q].before \/ kind \in fetch'[q].missed
  BY <1>1, UnheardMarks
<1>8. \A q \in Queries :
        /\ trouble[q] \subseteq trouble'[q] /\ fetch[q].missed \subseteq fetch'[q].missed
        /\ "cut off" \in trouble'[q] => "cut off" \in trouble[q]
        /\ "cut off" \in fetch'[q].missed => "cut off" \in fetch[q].missed
  <2> SUFFICES ASSUME NEW q \in Queries
      PROVE  /\ trouble[q] \subseteq trouble'[q] /\ fetch[q].missed \subseteq fetch'[q].missed
             /\ "cut off" \in trouble'[q] => "cut off" \in trouble[q]
             /\ "cut off" \in fetch'[q].missed => "cut off" \in fetch[q].missed
    OBVIOUS
  <2>1. /\ trouble'[q] \in {trouble[q], trouble[q] \cup {kind}}
        /\ fetch'[q].missed \in {fetch[q].missed, fetch[q].missed \cup {kind}}
    BY <1>7
  <2> QED
    BY <1>6, <2>1
<1> USE DEF kind
<1>9. \A q \in Queries : Silent(e) /\ Concerns(e, q) =>
        /\ "unannounced" \in trouble'[q]
        /\ fetch[q].stage = "read" => "unannounced" \in fetch'[q].missed
  BY <1>2, <1>4, <1>7 DEF lost
<1>10. role[me] = None /\ role'[me] # None => Silent(e) /\ Concerns(e, "members")
  <2>1. /\ About(e, me) \/ role'[me] = role[me]
        /\ Kind(e) \in {"update", "remove"} => role[User(e)] # None
        /\ Kind(e) \in {"update", "remove", "add", "content", "delete"}
    BY <1>4, WritesRow DEF IInv, TypeOK, BodyInv
  <2> QED
    BY <2>1 DEF About, Concerns, Silent, Queries
<1>11. FetchInv'
  <2>1. \A q \in Queries : IsFetch(q, fetch[q])
    BY DEF IInv, FetchInv
  <2>2. \A q \in Queries : IsFetch(q, fetch[q])'
    BY <1>2, <1>7, <2>1 DEF IsFetch
  <2> QED
    BY <1>1, <1>7, <2>2 DEF FetchInv
<1>12. ReadInv'
  <2> SUFFICES ASSUME NEW q \in Queries, fetch'[q].stage = "read"
               PROVE  FetchKnows(q, fetch[q])'
    BY DEF ReadInv, FetchKnows
  <2>1. FetchKnows(q, fetch[q]) /\ fetch[q].stage = "read"
    BY <1>7 DEF IInv, ReadInv
  <2>2. fetch'[q].value = fetch[q].value /\ fetch'[q].before = fetch[q].before
    BY <1>7
  <2>3. CASE q = "board"
    BY <1>3, <1>4, <2>1, <2>2, <2>3 DEF FetchKnows
  <2>4. CASE q = "members" /\ fetch[q].value = None
    <3>1. role'[me] # None => ~(fetch'[q].missed \subseteq {"cut off"})
      BY <1>8, <1>9, <1>10, <2>1, <2>4 DEF FetchKnows
    <3> QED
      BY <2>2, <2>4, <3>1 DEF FetchKnows
  <2>5. CASE q = "members" /\ fetch[q].value # None
    BY <1>3, <1>4, <2>1, <2>2, <2>5 DEF FetchKnows
  <2> QED
    BY <2>3, <2>4, <2>5 DEF Queries
<1>13. HeardInv'
  <2> SUFFICES ASSUME NEW q \in Queries, NEW c \in Committed', Concerns(c, q)
               PROVE  /\ c \in heard'[q] \/ OnItsWay(c)' \/ trouble'[q] # {}
                      /\ fetch'[q].stage = "read" =>
                           c \in fetch'[q].before \/ c \in heard'[q] \/ OnItsWay(c)'
                             \/ fetch'[q].missed # {}
    BY <1>5 DEF HeardInv
  <2>1. \A d : OnItsWay(d)' <=> OnItsWay(d)
    BY <1>1 DEF OnItsWay, Events, Silent, Kind
  <2>2. CASE c = e
    <3>1. CASE Silent(e)
      BY <1>7, <1>9, <2>2, <3>1
    <3>2. CASE ~Silent(e)
      BY <1>2, <1>4, <2>1, <2>2, <3>2 DEF OnItsWay
    <3> QED
      BY <3>1, <3>2
  <2>3. CASE c \in Committed
    <3>1. /\ c \in heard[q] \/ OnItsWay(c) \/ trouble[q] # {}
          /\ fetch[q].stage = "read" =>
               c \in fetch[q].before \/ c \in heard[q] \/ OnItsWay(c) \/ fetch[q].missed # {}
      BY <2>3 DEF IInv, HeardInv
    <3> QED
      BY <1>1, <1>7, <1>8, <2>1, <3>1
  <2> QED
    BY <1>2, <2>2, <2>3
<1>14. CutOffInv'
  <2>1. \A q \in Queries :
          /\ ~connectedOnce => "cut off" \notin trouble[q] \cup fetch[q].missed
          /\ socket = "up" /\ "cut off" \in trouble[q] =>
               ~Clean(q) \/ fetch[q].stage # "none" \/ (q = "board" /\ error = "failed")
          /\ socket = "up" /\ "cut off" \in fetch[q].missed =>
               ~(fetch[q].missed \subseteq {"cut off"})
    BY DEF IInv, CutOffInv
  <2>2. \A q \in Queries : Clean(q)' => Clean(q)
    BY <1>8 DEF Clean
  <2> QED
    BY <1>1, <1>7, <1>8, <2>1, <2>2 DEF CutOffInv
<1>15. BoardInv'
  <2>1. Clean("board")' => Clean("board")
    BY <1>4, <1>8 DEF Clean
  <2>2. RoleOnPage' = RoleOnPage
    BY <1>1 DEF RoleOnPage
  <2>3. Knows(me, RoleOnPage, heard["board"]) => Knows(me, RoleOnPage, heard["board"])'
    BY <1>1, <1>3, <1>4, <2>2
  <2> QED
    BY <1>1, <1>4, <1>7, <2>1, <2>3 DEF IInv, BoardInv
<1>16. MembersInv'
  <2> SUFFICES ASSUME Clean("members")', role'[me] # None
               PROVE  (IF data["members"] = NoData THEN fetch["members"].stage # "none"
                       ELSE \A u \in Users : Knows(u, data["members"][u], heard["members"]))'
    BY DEF MembersInv
  <2>1. Clean("members") /\ role[me] # None
    BY <1>4, <1>8, <1>9, <1>10 DEF Clean
  <2>2. IF data["members"] = NoData THEN fetch["members"].stage # "none"
        ELSE \A u \in Users : Knows(u, data["members"][u], heard["members"])
    BY <2>1 DEF IInv, MembersInv
  <2>3. heard["members"] \subseteq Committed
    BY <1>4
  <2>4. CASE data["members"] # NoData
    <3>1. \A u \in Users : Knows(u, data["members"][u], heard["members"])'
      BY <1>1, <1>3, <2>2, <2>3, <2>4
    <3> QED
      BY <1>1, <2>4, <3>1
  <2> QED
    BY <1>1, <1>4, <1>7, <2>2, <2>4
<1> QED
  BY <1>11, <1>12, <1>13, <1>14, <1>15, <1>16
-----------------------------------------------------------------------------
(* What is fetched. *)

LEMMA LandQueries ==
  ASSUME IInv, NEW q \in Queries, Land(q)
  PROVE  FetchInv' /\ ReadInv' /\ HeardInv' /\ CutOffInv' /\ BoardInv' /\ MembersInv'
<1> DEFINE f == fetch[q]
           lost == IF \E c \in heard[q] \ f.before : Concerns(c, q) THEN {"landed"} ELSE {}
<1>1. /\ f.stage = "read" /\ UNCHANGED <<told, body, order, connectedOnce, socket, inbox, role>>
      /\ data' = IF f.value = None THEN data ELSE [data EXCEPT ![q] = f.value]
      /\ error' = IF q = "members" THEN error ELSE IF f.value = None THEN "denied" ELSE "none"
      /\ heard' = [heard EXCEPT ![q] = f.before]
      /\ trouble' = [trouble EXCEPT ![q] = f.missed \cup lost]
      /\ fetch' = [fetch EXCEPT ![q] = NoFetch]
  BY DEF Land, server, link
<1>2. /\ \A c \in Changes : ~Commit(c)
      /\ Next
  BY <1>1, NoCommit DEF IInv, Next
<1>3. /\ Committed' = Committed
      /\ \A u, x, S : Knows(u, x, S)' <=> Knows(u, x, S)
  BY <1>2, SameKnows DEF IInv
<1>4. /\ DOMAIN fetch = Queries /\ DOMAIN trouble = Queries
      /\ DOMAIN heard = Queries /\ DOMAIN data = Queries
      /\ "board" \in Queries /\ "members" \in Queries
      /\ IsFetch(q, f) /\ FetchKnows(q, f)
  BY DEF IInv, FetchInv, Queries, ReadInv
<1>5. /\ DOMAIN fetch' = Queries /\ DOMAIN trouble' = Queries
      /\ DOMAIN heard' = Queries /\ DOMAIN data' = Queries
      /\ \A p \in Queries \ {q} : /\ fetch'[p] = fetch[p] /\ trouble'[p] = trouble[p]
                                  /\ heard'[p] = heard[p] /\ data'[p] = data[p]
      /\ fetch'[q] = NoFetch /\ trouble'[q] = f.missed \cup lost /\ heard'[q] = f.before
      /\ data'[q] = IF f.value = None THEN data[q] ELSE f.value
  BY <1>1, <1>4
<1>6. \A c : \A p : (Concerns(c, p)' <=> Concerns(c, p)) /\ (OnItsWay(c)' <=> OnItsWay(c))
  BY <1>1 DEF Concerns, About, Kind, User, OnItsWay, Silent, Events
<1>7. FetchInv'
  <2>1. \A p \in Queries : IsFetch(p, fetch'[p])
    BY <1>5, NewFetches DEF IInv, FetchInv, IsFetch
  <2> QED
    BY <1>3, <1>5, <2>1 DEF FetchInv, IsFetch
<1>8. ReadInv'
  <2> SUFFICES ASSUME NEW p \in Queries PROVE FetchKnows(p, fetch[p])'
    BY DEF ReadInv
  <2>1. CASE p = q
    BY <1>5, <2>1, NewFetches DEF FetchKnows
  <2>2. CASE p # q
    <3>1. FetchKnows(p, fetch[p]) /\ fetch'[p] = fetch[p]
      BY <1>5, <2>2 DEF IInv, ReadInv
    <3> QED
      BY <1>1, <1>3, <3>1 DEF FetchKnows
  <2> QED
    BY <2>1, <2>2
<1>9. HeardInv'
  <2> SUFFICES ASSUME NEW p \in Queries, NEW c \in Committed, Concerns(c, p)
               PROVE  /\ c \in heard'[p] \/ OnItsWay(c) \/ trouble'[p] # {}
                      /\ fetch'[p].stage = "read" =>
                           c \in fetch'[p].before \/ c \in heard'[p] \/ OnItsWay(c)
                             \/ fetch'[p].missed # {}
    BY <1>3, <1>6 DEF HeardInv
  <2>1. /\ c \in heard[p] \/ OnItsWay(c) \/ trouble[p] # {}
        /\ fetch[p].stage = "read" =>
             c \in fetch[p].before \/ c \in heard[p] \/ OnItsWay(c) \/ fetch[p].missed # {}
    BY DEF IInv, HeardInv
  <2>2. CASE p # q
    BY <1>5, <2>1, <2>2
  <2>3. CASE p = q
    <3>1. c \in f.before \/ c \in heard[q] \/ OnItsWay(c) \/ f.missed # {}
      BY <1>1, <2>1, <2>3
    <3>2. c \in heard[q] /\ c \notin f.before => "landed" \in lost
      BY <2>3
    <3> QED
      BY <1>5, <2>3, <3>1, <3>2, NewFetches
  <2> QED
    BY <2>2, <2>3
<1>10. CutOffInv'
  <2> SUFFICES ASSUME NEW p \in Queries
        PROVE  /\ ~connectedOnce => "cut off" \notin trouble'[p] \cup fetch'[p].missed
               /\ socket = "up" /\ "cut off" \in trouble'[p] =>
                    ~Clean(p)' \/ fetch'[p].stage # "none" \/ (p = "board" /\ error' = "failed")
               /\ socket = "up" /\ "cut off" \in fetch'[p].missed =>
                    ~(fetch'[p].missed \subseteq {"cut off"})
    BY <1>1 DEF CutOffInv
  <2>1. /\ ~connectedOnce => "cut off" \notin trouble[p] \cup fetch[p].missed
        /\ socket = "up" /\ "cut off" \in trouble[p] =>
             ~Clean(p) \/ fetch[p].stage # "none" \/ (p = "board" /\ error = "failed")
        /\ socket = "up" /\ "cut off" \in fetch[p].missed => ~(fetch[p].missed \subseteq {"cut off"})
    BY DEF IInv, CutOffInv
  <2>2. CASE p # q
    <3>1. p = "board" => q = "members"
      BY <2>2 DEF Queries
    <3>2. p = "board" => error' = error
      BY <1>1, <3>1
    <3> QED
      BY <1>5, <2>1, <2>2, <3>2 DEF Clean
  <2>3. CASE p = q
    <3>1. "cut off" \in trouble'[q] => "cut off" \in f.missed
      BY <1>5
    <3>2. Clean(q)' => f.missed \subseteq {"cut off"}
      BY <1>5 DEF Clean
    <3> QED
      BY <1>5, <2>1, <2>3, <3>1, <3>2, NewFetches
  <2> QED
    BY <2>2, <2>3
<1>11. q = "board" /\ f.value # None => f.value \in Roles
  BY <1>1, <1>4 DEF IsFetch
<1>12. BoardInv'
  <2>1. CASE q = "members"
    <3>1. /\ fetch'["board"] = fetch["board"] /\ trouble'["board"] = trouble["board"]
          /\ heard'["board"] = heard["board"] /\ data'["board"] = data["board"] /\ error' = error
      BY <1>1, <1>4, <1>5, <2>1
    <3> QED
      BY <1>3, <3>1 DEF IInv, BoardInv, Clean, RoleOnPage
  <2>2. CASE q = "board"
    <3>1. Knows(me, f.value, f.before)
      BY <1>1, <1>4, <2>2 DEF FetchKnows
    <3>2. RoleOnPage' = f.value /\ (data'["board"] = NoData => error' # "none")
      BY <1>1, <1>5, <1>11, <2>2, NoneAssumption DEF RoleOnPage
    <3> QED
      BY <1>3, <1>5, <2>2, <3>1, <3>2 DEF BoardInv
  <2> QED
    BY <2>1, <2>2 DEF Queries
<1>13. MembersInv'
  <2> SUFFICES ASSUME Clean("members")', role[me] # None
               PROVE  IF data'["members"] = NoData THEN fetch'["members"].stage # "none"
                      ELSE \A u \in Users : Knows(u, data'["members"][u], heard'["members"])
    BY <1>1, <1>3 DEF MembersInv
  <2>1. CASE q = "board"
    <3>1. /\ fetch'["members"] = fetch["members"] /\ trouble'["members"] = trouble["members"]
          /\ heard'["members"] = heard["members"] /\ data'["members"] = data["members"]
      BY <1>4, <1>5, <2>1
    <3> QED
      BY <3>1 DEF IInv, MembersInv, Clean
  <2>2. CASE q = "members"
    <3>1. f.missed \subseteq {"cut off"}
      BY <1>5, <2>2 DEF Clean
    <3>2. f.value # None /\ \A u \in Users : Knows(u, f.value[u], f.before)
      BY <1>1, <1>4, <2>2, <3>1 DEF FetchKnows
    <3>3. f.value # NoData
      BY <1>1, <1>4, <2>2, <3>2, NoneAssumption DEF IsFetch
    <3> QED
      BY <1>5, <2>2, <3>2, <3>3
  <2> QED
    BY <2>1, <2>2 DEF Queries
<1> QED
  BY <1>7, <1>8, <1>9, <1>10, <1>12, <1>13
-----------------------------------------------------------------------------
(* What is delivered. *)

LEMMA Delivered ==
  ASSUME IInv, Deliver
  PROVE  \E c \in Committed :
           /\ ~Silent(c) /\ c \in Changes /\ Events = Events' \cup {c}
           /\ \A q \in Queries : ~(Clean(q)' /\ Crossed(c, q))
           /\ ~(Clean("board")' /\ Concerns(c, "board") /\ ~known)
           /\ ~(Clean("board")' /\ PatchesBoard(c) /\ error # "none")
           /\ data' = [board   |-> IF PatchesBoard(c) /\ Kind(c) = "update" THEN body[c].role
                                   ELSE data["board"],
                       members |-> PatchMember(c)]
           /\ error' = IF PatchesBoard(c) THEN "none" ELSE error
           /\ heard' = [q \in Queries |-> heard[q] \cup {c}]
           /\ DOMAIN trouble' = Queries
           /\ \A q \in Queries : /\ trouble[q] \subseteq trouble'[q]
                                 /\ "cut off" \in trouble'[q] => "cut off" \in trouble[q]
           /\ Invalidate(IF IsMyRemoval(c) THEN Queries ELSE {})
<1> DEFINE c == Head(inbox)
           kinds(q) == {k \in {"crossed", "unknown", "revived"} :
             CASE k = "crossed" -> Crossed(c, q)
               [] k = "unknown" -> q = "board" /\ Concerns(c, q) /\ ~known
               [] k = "revived" -> q = "board" /\ PatchesBoard(c) /\ error # "none"}
<1>1. /\ inbox # <<>> /\ c \in Changes /\ inbox' = Tail(inbox)
      /\ data' = [board   |-> IF PatchesBoard(c) /\ Kind(c) = "update" THEN body[c].role
                              ELSE data["board"],
                  members |-> PatchMember(c)]
      /\ error' = IF PatchesBoard(c) THEN "none" ELSE error
      /\ heard' = [q \in Queries |-> heard[q] \cup {c}]
      /\ trouble' = [q \in Queries |-> trouble[q] \cup kinds(q)]
      /\ Invalidate(IF IsMyRemoval(c) THEN Queries ELSE {})
  BY DEF Deliver
<1>2. Events = Events' \cup {c}
  BY <1>1, Receiving DEF IInv
<1>3. c \in Committed /\ ~Silent(c)
  BY <1>2 DEF IInv, WireInv
<1>4. \A q \in Queries : trouble'[q] = trouble[q] \cup kinds(q)
  BY <1>1
<1>5. \A q : "cut off" \notin kinds(q)
  OBVIOUS
<1>6. ASSUME NEW q \in Queries, Clean(q)'
      PROVE  /\ ~Crossed(c, q)
             /\ ~(q = "board" /\ Concerns(c, q) /\ ~known)
             /\ ~(q = "board" /\ PatchesBoard(c) /\ error # "none")
  <2>1. kinds(q) = {}
    BY <1>4, <1>5, <1>6 DEF Clean
  <2>2. \A k \in {"crossed", "unknown", "revived"} :
          ~CASE k = "crossed" -> Crossed(c, q)
             [] k = "unknown" -> q = "board" /\ Concerns(c, q) /\ ~known
             [] k = "revived" -> q = "board" /\ PatchesBoard(c) /\ error # "none"
    BY <2>1
  <2> QED
    BY <2>2
<1>7. "board" \in Queries
  BY DEF Queries
<1>8. /\ DOMAIN trouble' = Queries
      /\ \A q \in Queries : /\ trouble[q] \subseteq trouble'[q]
                            /\ "cut off" \in trouble'[q] => "cut off" \in trouble[q]
  <2> HIDE DEF kinds
  <2> QED
    BY <1>1, <1>4, <1>5
<1> HIDE DEF c, kinds
<1>9. /\ \A q \in Queries : ~(Clean(q)' /\ Crossed(c, q))
      /\ ~(Clean("board")' /\ Concerns(c, "board") /\ ~known)
      /\ ~(Clean("board")' /\ PatchesBoard(c) /\ error # "none")
  BY <1>6, <1>7
<1> USE <1>3
<1> WITNESS c \in Committed
<1> QED
  BY <1>1, <1>2, <1>3, <1>8, <1>9

LEMMA DeliverQueries ==
  ASSUME IInv, Deliver
  PROVE  FetchInv' /\ ReadInv' /\ HeardInv' /\ CutOffInv' /\ BoardInv' /\ MembersInv'
<1>1. /\ UNCHANGED <<role, order, told, body, socket, connectedOnce>> /\ Next
      /\ \A c \in Changes : ~Commit(c)
  BY NoCommit DEF Deliver, server, Next, IInv
<1>2. /\ Committed' = Committed
      /\ \A u, x, S : Knows(u, x, S)' <=> Knows(u, x, S)
  BY <1>1, SameKnows DEF IInv
<1>3. PICK c \in Committed :
        /\ ~Silent(c) /\ c \in Changes /\ Events = Events' \cup {c}
        /\ \A q \in Queries : ~(Clean(q)' /\ Crossed(c, q))
        /\ ~(Clean("board")' /\ Concerns(c, "board") /\ ~known)
        /\ ~(Clean("board")' /\ PatchesBoard(c) /\ error # "none")
        /\ data' = [board   |-> IF PatchesBoard(c) /\ Kind(c) = "update" THEN body[c].role
                                ELSE data["board"],
                    members |-> PatchMember(c)]
        /\ error' = IF PatchesBoard(c) THEN "none" ELSE error
        /\ heard' = [q \in Queries |-> heard[q] \cup {c}]
        /\ DOMAIN trouble' = Queries
        /\ \A q \in Queries : /\ trouble[q] \subseteq trouble'[q]
                              /\ "cut off" \in trouble'[q] => "cut off" \in trouble[q]
        /\ Invalidate(IF IsMyRemoval(c) THEN Queries ELSE {})
  BY Delivered
<1>4. /\ DOMAIN fetch' = Queries
      /\ \A q \in Queries : Again(fetch[q], fetch'[q]) \/ fetch'[q] = fetch[q]
      /\ IsMyRemoval(c) => \A q \in Queries : Again(fetch[q], fetch'[q])
  <2>1. FetchInv
    BY DEF IInv
  <2> DEFINE qs == IF IsMyRemoval(c) THEN Queries ELSE {}
  <2>2. Invalidate(qs) /\ (IsMyRemoval(c) => qs = Queries)
    BY <1>3
  <2> HIDE DEF qs
  <2> QED
    BY <2>1, <2>2, InvalidatedAgain
<1>5. /\ \A q \in Queries : heard'[q] = heard[q] \cup {c} /\ DOMAIN heard' = Queries
      /\ \A q \in Queries : Clean(q)' => Clean(q)
      /\ "board" \in Queries /\ "members" \in Queries /\ me \in Users
      /\ DOMAIN data' = Queries /\ data'["members"] = PatchMember(c)
      /\ data'["board"] = IF PatchesBoard(c) /\ Kind(c) = "update" THEN body[c].role
                          ELSE data["board"]
  BY <1>3, UserAssumption DEF Clean, Queries
<1>6. /\ data["board"] \in Roles \cup {NoData} /\ error \in {"none", "denied", "failed"}
      /\ data["members"] = NoData \/ data["members"] \in [Users -> Roles \cup {None}]
      /\ role \in [Users -> Roles \cup {None}]
  BY DEF IInv, TypeOK
<1>7. /\ Kind(c) \in {"update", "remove", "content"}
      /\ Kind(c) # "content" => User(c) \in Users
      /\ Kind(c) = "update" => body[c].role \in Roles
  BY <1>3 DEF IInv, BodyInv, Silent
<1>8. \A q \in Queries :
        /\ fetch[q].stage # "none" => fetch'[q].stage # "none"
        /\ fetch'[q].stage = "none" => fetch'[q] = fetch[q] /\ ~IsMyRemoval(c)
  BY <1>4, NewFetches DEF Again
<1>9. \A q \in Queries : \A u \in Users : \A x :
        Clean(q)' /\ Knows(u, x, heard[q]) /\ (q = "board" => u = me) =>
          Knows(u, IF ~About(c, u) \/ x = None THEN x ELSE Effect(c), heard'[q])
  <2> SUFFICES ASSUME NEW q \in Queries, NEW u \in Users, NEW x,
                      Clean(q)', Knows(u, x, heard[q]), q = "board" => u = me
               PROVE  Knows(u, IF ~About(c, u) \/ x = None THEN x ELSE Effect(c), heard'[q])
    OBVIOUS
  <2>1. BodyInv /\ OrderInv /\ RoleInv
    BY DEF IInv
  <2>2. CASE ~About(c, u)
    BY <1>3, <1>5, <2>1, <2>2, HearKnows
  <2>3. CASE About(c, u)
    <3>1. Concerns(c, q) /\ User(c) = u
      BY <1>7, <2>3 DEF About, Concerns
    <3>2. \A d \in heard[q] : About(d, u) => ~Later(d, c)
      BY <1>3, <2>3, <3>1 DEF Crossed
    <3>3. Knows(u, IF x = None THEN None ELSE Effect(c), heard[q] \cup {c})
      BY <1>3, <2>1, <2>3, <3>2, HearKnows
    <3> QED
      BY <1>5, <2>3, <3>3
  <2> QED
    BY <2>2, <2>3
<1>10. FetchInv'
  <2>1. \A q \in Queries : IsFetch(q, fetch'[q])
    BY <1>4, NewFetches DEF IInv, FetchInv, IsFetch, Again
  <2> QED
    BY <1>2, <1>3, <1>4, <1>5, <2>1 DEF FetchInv, IsFetch
<1>11. ReadInv'
  <2> SUFFICES ASSUME NEW q \in Queries PROVE FetchKnows(q, fetch[q])'
    BY DEF ReadInv
  <2>1. FetchKnows(q, fetch[q])
    BY DEF IInv, ReadInv
  <2>2. FetchKnows(q, fetch'[q])
    BY <1>4, <2>1, NewFetches DEF FetchKnows, Again
  <2> QED
    BY <1>1, <1>2, <2>2 DEF FetchKnows
<1>12. HeardInv'
  <2> SUFFICES ASSUME NEW q \in Queries, NEW d \in Committed', Concerns(d, q)'
               PROVE  /\ d \in heard'[q] \/ OnItsWay(d)' \/ trouble'[q] # {}
                      /\ fetch'[q].stage = "read" =>
                           d \in fetch'[q].before \/ d \in heard'[q] \/ OnItsWay(d)'
                             \/ fetch'[q].missed # {}
    BY DEF HeardInv
  <2>1. d \in Committed /\ Concerns(d, q)
    BY <1>1, <1>2 DEF Concerns, About, Kind, User
  <2>2. /\ d \in heard[q] \/ OnItsWay(d) \/ trouble[q] # {}
        /\ fetch[q].stage = "read" =>
             d \in fetch[q].before \/ d \in heard[q] \/ OnItsWay(d) \/ fetch[q].missed # {}
    BY <2>1 DEF IInv, HeardInv
  <2>3. OnItsWay(d) => OnItsWay(d)' \/ d = c
    BY <1>1, <1>3 DEF OnItsWay, Silent, Kind
  <2>4. CASE fetch'[q] = fetch[q]
    BY <1>3, <1>5, <2>2, <2>3, <2>4
  <2>5. CASE Again(fetch[q], fetch'[q])
    BY <1>3, <1>5, <2>2, <2>3, <2>5, NewFetches DEF Again
  <2> QED
    BY <1>4, <2>4, <2>5
<1>13. CutOffInv'
  <2> SUFFICES ASSUME NEW q \in Queries
        PROVE  /\ ~connectedOnce => "cut off" \notin trouble'[q] \cup fetch'[q].missed
               /\ socket = "up" /\ "cut off" \in trouble'[q] =>
                    ~Clean(q)' \/ fetch'[q].stage # "none" \/ (q = "board" /\ error' = "failed")
               /\ socket = "up" /\ "cut off" \in fetch'[q].missed =>
                    ~(fetch'[q].missed \subseteq {"cut off"})
    BY <1>1 DEF CutOffInv
  <2>1. /\ ~connectedOnce => "cut off" \notin trouble[q] \cup fetch[q].missed
        /\ socket = "up" /\ "cut off" \in trouble[q] =>
             ~Clean(q) \/ fetch[q].stage # "none" \/ (q = "board" /\ error = "failed")
        /\ socket = "up" /\ "cut off" \in fetch[q].missed => ~(fetch[q].missed \subseteq {"cut off"})
        /\ fetch[q].stage # "read" => fetch[q].missed = {}
    BY DEF IInv, CutOffInv, FetchInv, IsFetch
  <2>2. "cut off" \in fetch'[q].missed =>
          "cut off" \in fetch[q].missed /\ fetch[q].missed \subseteq fetch'[q].missed
    <3>1. CASE fetch'[q] = Asked
      BY <3>1, NewFetches
    <3>2. CASE fetch'[q].missed = fetch[q].missed
      BY <3>2
    <3>3. CASE fetch'[q].missed = fetch[q].missed \cup {"joined"}
      BY <3>3
    <3> QED
      BY <1>4, <3>1, <3>2, <3>3 DEF Again
  <2>3. "cut off" \in trouble'[q] => "cut off" \in trouble[q]
    BY <1>3
  <2>4. socket = "up" /\ "cut off" \in trouble'[q] =>
          ~Clean(q)' \/ fetch'[q].stage # "none" \/ (q = "board" /\ error' = "failed")
    BY <1>3, <1>5, <1>8, <2>1, <2>3
  <2> QED
    BY <2>1, <2>2, <2>3, <2>4
<1>14. BoardInv'
  <2>1. ASSUME data'["board"] = NoData PROVE fetch'["board"].stage # "none" \/ error' # "none"
    <3>1. data["board"] = NoData /\ ~PatchesBoard(c)
      BY <1>5, <1>7, <2>1, NoneAssumption DEF PatchesBoard
    <3> QED
      BY <1>3, <1>5, <1>8, <3>1 DEF IInv, BoardInv
  <2>2. ASSUME Clean("board")', fetch'["board"].stage = "none", error' # "failed"
        PROVE  Knows(me, RoleOnPage', heard'["board"])
    <3>1. /\ Clean("board") /\ fetch["board"].stage = "none" /\ ~IsMyRemoval(c)
          /\ PatchesBoard(c) => error = "none"
      BY <1>3, <1>5, <1>8, <2>2
    <3>2. error' = error
      BY <1>3, <3>1
    <3>3. Knows(me, RoleOnPage, heard["board"])
      BY <2>2, <3>1, <3>2 DEF IInv, BoardInv
    <3>4. Knows(me, IF ~About(c, me) \/ RoleOnPage = None THEN RoleOnPage ELSE Effect(c),
                heard'["board"])
      BY <1>5, <1>9, <2>2, <3>3
    <3>5. CASE ~About(c, me)
      <4>1. data'["board"] = data["board"]
        BY <1>5, <3>5 DEF PatchesBoard, About
      <4> QED
        BY <3>2, <3>4, <3>5, <4>1 DEF RoleOnPage
    <3>6. CASE About(c, me)
      <4>1. known /\ Kind(c) = "update" /\ User(c) = me
        BY <1>3, <1>7, <2>2, <3>1, <3>6 DEF About, Concerns, IsMyRemoval
      <4>2. CASE data["board"] = NoData
        <5>1. error = "denied"
          BY <1>6, <2>2, <3>1, <3>2, <4>2 DEF IInv, BoardInv
        <5> QED
          BY <3>2, <3>4, <5>1 DEF RoleOnPage
      <4>3. CASE data["board"] # NoData
        <5>1. PatchesBoard(c)
          BY <4>1, <4>3 DEF PatchesBoard
        <5>2. error = "none" /\ RoleOnPage = data["board"] /\ RoleOnPage # None
          BY <1>6, <3>1, <4>3, <5>1, NoneAssumption DEF RoleOnPage
        <5>3. RoleOnPage' = Effect(c)
          BY <1>5, <3>2, <4>1, <5>1, <5>2 DEF RoleOnPage, Effect
        <5> QED
          BY <3>4, <3>6, <5>2, <5>3
      <4> QED
        BY <4>2, <4>3
    <3> QED
      BY <3>5, <3>6
  <2> QED
    BY <1>2, <2>1, <2>2 DEF BoardInv
<1>15. MembersInv'
  <2> SUFFICES ASSUME Clean("members")', role[me] # None
               PROVE  IF data'["members"] = NoData THEN fetch'["members"].stage # "none"
                      ELSE \A u \in Users : Knows(u, data'["members"][u], heard'["members"])
    BY <1>1, <1>2 DEF MembersInv
  <2>1. Clean("members")
    BY <1>5
  <2>2. CASE data["members"] = NoData
    BY <1>5, <1>8, <2>1, <2>2 DEF IInv, MembersInv, PatchMember
  <2>3. CASE data["members"] # NoData
    <3>1. \A u \in Users : Knows(u, data["members"][u], heard["members"])
      BY <2>1, <2>3 DEF IInv, MembersInv
    <3>2. ASSUME NEW u \in Users
          PROVE  /\ data'["members"] # NoData
                 /\ data'["members"][u] =
                      IF ~About(c, u) \/ data["members"][u] = None THEN data["members"][u]
                      ELSE Effect(c)
      <4>1. data["members"] \in [Users -> Roles \cup {None}]
        BY <1>6, <2>3
      <4>2. CASE Kind(c) = "content" \/ data["members"][User(c)] = None
        BY <1>5, <1>7, <2>3, <4>2 DEF PatchMember, About
      <4>3. CASE ~(Kind(c) = "content" \/ data["members"][User(c)] = None)
        <5>1. User(c) \in Users /\ Effect(c) \in Roles \cup {None}
          BY <1>7, <4>3 DEF Effect
        <5>2. data'["members"] = [data["members"] EXCEPT ![User(c)] = Effect(c)]
          BY <1>5, <1>7, <2>3, <4>3 DEF PatchMember, Effect
        <5>3. data'["members"] \in [Users -> Roles \cup {None}]
          BY <4>1, <5>1, <5>2
        <5>4. data'["members"] # NoData
          BY <5>3, NoneAssumption
        <5> QED
          BY <1>7, <4>1, <4>3, <5>1, <5>2, <5>4 DEF About
      <4> QED
        BY <4>2, <4>3
    <3>3. \A u \in Users : Knows(u, data'["members"][u], heard'["members"])
      BY <1>5, <1>9, <3>1, <3>2
    <3> QED
      BY <1>5, <3>2, <3>3
  <2> QED
    BY <2>2, <2>3
<1> QED
  BY <1>10, <1>11, <1>12, <1>13, <1>14, <1>15
-----------------------------------------------------------------------------
(* Every step. *)

LEMMA CommitType ==
  ASSUME IInv, NEW e \in Changes, Commit(e)
  PROVE  TypeOK'
<1>1. /\ UNCHANGED <<told, ticket, socket, joining, status, connectedOnce, data, error, heard>>
      /\ stage' = [stage EXCEPT ![e] = "committed"]
  BY DEF Commit, link
<1>2. Committed \subseteq Committed' /\ role' \in [Users -> Roles \cup {None}]
  BY Committing, WritesRow DEF IInv, TypeOK
<1> QED
  BY <1>1, <1>2 DEF IInv, TypeOK

LEMMA TypeStep ==
  ASSUME IInv, Next
  PROVE  TypeOK'
<1> USE DEF server, link, limits, page
<1>1. TypeOK /\ OrderInv
  BY DEF IInv
<1>2. CASE \E e \in Changes : Commit(e)
  BY <1>2, CommitType
<1>3. CASE \A e \in Changes : ~Commit(e)
  <2>1. role' = role /\ Committed' = Committed
    BY <1>1, <1>3, SameHistory DEF Committed
  <2>2. ASSUME UNCHANGED <<stage, told, data, error, heard>>,
               ticket' \in {"none", "valid", "expired", "swept"},
               socket' \in {"closed", "opening", "admitted", "up", "refused"},
               joining' \in {"no", "asked", "found", "joined", "denied", "failed"},
               joining' # "no" => socket' = "up" /\ connectedOnce',
               status' \in {"connecting", "live", "reconnecting", "offline"}
        PROVE  TypeOK'
    BY <1>1, <2>1, <2>2 DEF TypeOK
  <2>3. ASSUME UNCHANGED <<stage, told, data, error, heard, ticket, socket, joining, status,
                           connectedOnce>>
        PROVE  TypeOK'
    BY <1>1, <2>1, <2>3 DEF TypeOK
  <2>4. ASSUME NEW c \in Changes, Ask(c) \/ Refuse(c) PROVE TypeOK'
    <3>1. stage' = [stage EXCEPT ![c] = "sent"] \/ stage' = [stage EXCEPT ![c] = "refused"]
      BY <2>4 DEF Ask, Refuse
    <3>2. UNCHANGED <<told, data, error, heard, ticket, socket, joining, status, connectedOnce>>
      BY <2>4 DEF Ask, Refuse
    <3> QED
      BY <1>1, <2>1, <3>1, <3>2 DEF TypeOK
  <2>5. ASSUME NEW c \in Changes, Answer(c) \/ LoseAnswer(c) PROVE TypeOK'
    BY <2>3, <2>5 DEF Answer, LoseAnswer
  <2>6. ASSUME NEW c \in Changes, Announce(c) PROVE TypeOK'
    <3>1. /\ told' = told \cup {c} /\ c \in Committed
          /\ UNCHANGED <<stage, data, error, heard, ticket, socket, joining, status, connectedOnce>>
      BY <1>1, <2>6 DEF Announce, OrderInv
    <3> QED
      BY <1>1, <2>1, <3>1 DEF TypeOK
  <2>7. ASSUME NEW q \in Queries, Guard(q) PROVE TypeOK'
    BY <2>3, <2>7 DEF Guard
  <2>8. ASSUME NEW q \in Queries, FetchFails(q) PROVE TypeOK'
    <3>1. /\ UNCHANGED <<stage, told, data, heard, ticket, socket, joining, status, connectedOnce>>
          /\ error' = "failed" \/ error' = error
      BY <2>8 DEF FetchFails
    <3> QED
      BY <1>1, <2>1, <3>1 DEF TypeOK
  <2>9. ASSUME NEW q \in Queries, Land(q) PROVE TypeOK'
    <3>1. /\ fetch[q].stage = "read"
          /\ UNCHANGED <<stage, told, ticket, socket, joining, status, connectedOnce>>
          /\ data' = IF fetch[q].value = None THEN data ELSE [data EXCEPT ![q] = fetch[q].value]
          /\ error' = error \/ error' \in {"denied", "none"}
          /\ heard' = [heard EXCEPT ![q] = fetch[q].before]
      BY <2>9 DEF Land
    <3>2. IsFetch(q, fetch[q]) /\ DOMAIN data = Queries /\ DOMAIN heard = Queries
      BY DEF IInv, FetchInv
    <3>3. /\ data'["board"] \in Roles \cup {NoData}
          /\ data'["members"] = NoData \/ data'["members"] \in [Users -> Roles \cup {None}]
      BY <1>1, <3>1, <3>2 DEF TypeOK, IsFetch, Queries
    <3>4. \A p \in Queries : heard'[p] \subseteq Committed
      BY <1>1, <3>1, <3>2 DEF TypeOK, IsFetch
    <3> QED
      BY <1>1, <2>1, <3>1, <3>3, <3>4 DEF TypeOK
  <2>10. CASE ListMembers \/ Retry \/ LoadMe
    BY <2>3, <2>10 DEF ListMembers, Retry, LoadMe
  <2>11. CASE CancelQueries
    BY <2>3, <2>11 DEF CancelQueries
  <2>12. CASE Attempt \/ ExpireTicket \/ SweepExpiredWsTickets
    <3>1. /\ UNCHANGED <<stage, told, data, error, heard, joining, status, connectedOnce>>
          /\ socket' = socket \/ (socket = "closed" /\ socket' = "opening")
          /\ ticket' \in {"none", "valid", "expired", "swept", ticket}
      BY <2>12
      DEF Attempt, IssueWsTicket, NoTicket, ExpireTicket, SweepExpiredWsTickets, Swept
    <3> QED
      BY <1>1, <2>2, <3>1 DEF TypeOK
  <2>13. CASE Handshake
    <3>1. /\ UNCHANGED <<stage, told, data, error, heard, joining, connectedOnce>>
          /\ socket = "opening" /\ socket' \in {"admitted", "refused"}
          /\ ticket' \in {"none", ticket} /\ status' \in {"reconnecting", status}
      BY <2>13 DEF Handshake
    <3> QED
      BY <1>1, <2>2, <3>1 DEF TypeOK
  <2>14. CASE Connect
    <3>1. /\ UNCHANGED <<stage, told, data, error, heard, ticket, status>>
          /\ socket' = "up" /\ joining' = "asked"
      BY <2>14 DEF Connect
    <3>2. connectedOnce' = TRUE
      BY <2>14 DEF Connect
    <3> QED
      BY <1>1, <2>2, <3>1, <3>2 DEF TypeOK
  <2>15. CASE FindMembership \/ LookupFails \/ Join
    <3>1. /\ UNCHANGED <<stage, told, data, error, heard, ticket, socket, status, connectedOnce>>
          /\ joining # "no" /\ joining' \in {"found", "joined", "denied", "failed"}
      BY <2>15 DEF FindMembership, LookupFails, Join
    <3> QED
      BY <1>1, <2>2, <3>1 DEF TypeOK
  <2>16. CASE Acknowledged
    <3>1. /\ UNCHANGED <<stage, told, data, error, heard, ticket, socket, joining, connectedOnce>>
          /\ status' \in {"live", "offline"}
      BY <2>16 DEF Acknowledged
    <3> QED
      BY <1>1, <2>2, <3>1 DEF TypeOK
  <2>17. CASE Disconnect
    <3>1. /\ UNCHANGED <<stage, told, data, error, heard, ticket, connectedOnce>>
          /\ socket' = "closed" /\ joining' = "no" /\ status' \in {"reconnecting", status}
      BY <2>17 DEF Disconnect
    <3> QED
      BY <1>1, <2>2, <3>1 DEF TypeOK
  <2>18. CASE Deliver
    <3>1. PICK c \in Committed :
            /\ ~Silent(c) /\ c \in Changes
            /\ data' = [board   |-> IF PatchesBoard(c) /\ Kind(c) = "update" THEN body[c].role
                                    ELSE data["board"],
                        members |-> PatchMember(c)]
            /\ error' = IF PatchesBoard(c) THEN "none" ELSE error
            /\ heard' = [q \in Queries |-> heard[q] \cup {c}]
      BY <2>18, Delivered
    <3>2. /\ Kind(c) \in {"update", "remove", "content"}
          /\ Kind(c) = "update" => body[c].role \in Roles
      BY <3>1 DEF IInv, BodyInv, Silent
    <3>3. data'["board"] \in Roles \cup {NoData}
      BY <1>1, <3>1, <3>2 DEF TypeOK
    <3>4. data'["members"] = NoData \/ data'["members"] \in [Users -> Roles \cup {None}]
      <4>1. data'["members"] = PatchMember(c)
        BY <3>1
      <4>2. data["members"] = NoData \/ data["members"] \in [Users -> Roles \cup {None}]
        BY <1>1 DEF TypeOK
      <4>3. Kind(c) # "content" =>
              (IF Kind(c) = "remove" THEN None ELSE body[c].role) \in Roles \cup {None}
        BY <3>2
      <4> QED
        BY <4>1, <4>2, <4>3 DEF PatchMember
    <3>5. /\ UNCHANGED <<stage, told, ticket, socket, joining, status, connectedOnce>>
          /\ error' \in {"none", error}
      BY <2>18, <3>1 DEF Deliver
    <3>6. \A q \in Queries : heard'[q] \subseteq Committed
      BY <1>1, <3>1 DEF TypeOK
    <3> QED
      BY <1>1, <2>1, <3>3, <3>4, <3>5, <3>6 DEF TypeOK
  <2>19. CASE Unmount
    <3>1. /\ UNCHANGED <<stage, told, data, error, heard, ticket, status>>
          /\ socket' = "closed" /\ joining' = "no"
      BY <2>19 DEF Unmount
    <3> QED
      BY <1>1, <2>2, <3>1 DEF TypeOK
  <2>20. CASE Mount
    <3>1. /\ UNCHANGED <<stage, told, data, error, heard, ticket, socket, joining, connectedOnce>>
          /\ status' = "connecting"
      BY <2>20 DEF Mount
    <3> QED
      BY <1>1, <2>2, <3>1 DEF TypeOK
  <2>21. CASE Idle
    BY <2>3, <2>21 DEF Idle, vars
  <2> QED
    BY <1>3, <2>4, <2>5, <2>6, <2>7, <2>8, <2>9, <2>10, <2>11, <2>12, <2>13, <2>14, <2>15,
       <2>16, <2>17, <2>18, <2>19, <2>20, <2>21 DEF Next, Request
<1> QED
  BY <1>2, <1>3

LEMMA NextIInv == IInv /\ [Next]_vars => IInv'
<1> SUFFICES ASSUME IInv, [Next]_vars PROVE IInv'
  OBVIOUS
<1>1. TypeOK /\ BodyInv /\ OrderInv /\ RoleInv /\ WireInv
  BY DEF IInv
<1>2. TypeOK'
  <2>1. CASE Next
    BY <2>1, TypeStep
  <2>2. CASE UNCHANGED vars
    BY <1>1, <2>2 DEF vars, server, link, limits, page, TypeOK, Committed
  <2> QED
    BY <2>1, <2>2
<1>3. BodyInv' /\ OrderInv' /\ RoleInv' /\ WireInv'
  BY <1>1, HistoryStep, WireStep
<1>4. FetchInv' /\ ReadInv' /\ HeardInv' /\ CutOffInv' /\ BoardInv' /\ MembersInv'
  <2>1. CASE \E e \in Changes : Commit(e)
    BY <2>1, CommitQueries
  <2>2. CASE QuietStep /\ \A c \in Changes : ~Commit(c)
    BY <2>2, QuietSteps, QuietQueries
  <2>3. CASE MarkStep
    BY <2>3, MarkSteps
  <2>4. CASE \E q \in Queries : Land(q)
    BY <2>4, LandQueries
  <2>5. CASE Deliver
    BY <2>5, DeliverQueries
  <2>6. \/ \E e \in Changes : Commit(e)
        \/ QuietStep \/ MarkStep \/ Deliver
        \/ \E q \in Queries : Land(q)
    BY DEF Next, Request, Idle, QuietStep, MarkStep
  <2> QED
    BY <2>1, <2>2, <2>3, <2>4, <2>5, <2>6
<1> QED
  BY <1>2, <1>3, <1>4 DEF IInv
-----------------------------------------------------------------------------
\* The rows, the page's cache and its connection stay within their domains (schema.prisma
\* 58-70; realtime.ts 15-19).
THEOREM TypeCorrect == Spec => []TypeOK
<1>1. IInv => TypeOK
  BY DEF IInv
<1> QED
  BY <1>1, InitIInv, NextIInv, PTL DEF Spec

\* On a page that is at rest the board's error is another one, or it has heard of everything.
LEMMA AllHeard ==
  ASSUME IInv, Quiet, NEW q \in Queries, Uncovered(q) = {}, ~(q = "board" /\ error = "failed")
  PROVE  Clean(q) /\ \A c \in Committed : Concerns(c, q) => c \in heard[q]
<1>1. inbox = <<>> /\ mounted /\ Events = {} /\ fetch[q].stage = "none"
  BY DEF Quiet, Events
<1>2. Clean(q)
  BY DEF Uncovered, Clean
<1> SUFFICES ASSUME NEW c \in Committed, Concerns(c, q), c \notin heard[q] PROVE FALSE
  BY <1>2
<1>3. c \in Changes /\ stage[c] = "committed"
  BY DEF IInv, OrderInv, Committed
<1>4. ~OnItsWay(c)
  BY <1>1, <1>3 DEF Quiet, OnItsWay
<1>5. trouble[q] # {}
  BY <1>4 DEF IInv, HeardInv
<1>6. status = "live" /\ "cut off" \in trouble[q]
  BY <1>5, <1>2 DEF Uncovered, Clean
<1>7. socket = "up"
  BY <1>1, <1>6 DEF IInv, WireInv
<1> QED
  BY <1>1, <1>2, <1>6, <1>7 DEF IInv, CutOffInv

\* A page at rest offers what its user's role allows, whatever the changes and the faults
\* have been that the protocol covers (realtime.ts 102-125, 163-196; board.ts 20-33).
THEOREM RoleIsShown == Spec => []RoleShown
<1>1. ASSUME IInv PROVE RoleShown
  <2> SUFFICES ASSUME Quiet, Uncovered("board") = {}, error # "failed"
               PROVE  IF error = "denied" THEN role[me] = None ELSE data["board"] = role[me]
    BY DEF RoleShown
  <2>1. "board" \in Queries /\ fetch["board"].stage = "none"
    BY DEF Quiet, Queries
  <2>2. Clean("board") /\ \A c \in Committed : Concerns(c, "board") => c \in heard["board"]
    BY <1>1, <2>1, AllHeard
  <2>3. Knows(me, RoleOnPage, heard["board"])
    BY <1>1, <2>1, <2>2 DEF IInv, BoardInv
  <2>4. RoleOnPage = role[me]
    BY <2>2, <2>3 DEF Knows, About, Concerns
  <2> QED
    BY <2>4 DEF RoleOnPage
<1> QED
  BY <1>1, InitIInv, NextIInv, PTL DEF Spec

\* Its list of members is then the committed one (realtime.ts 163-196; members.ts 67-117).
THEOREM MembersAreShown == Spec => []MembersShown
<1>1. ASSUME IInv PROVE MembersShown
  <2> SUFFICES ASSUME Quiet, Uncovered("members") = {}, role[me] # None
               PROVE  data["members"] = role
    BY DEF MembersShown
  <2>1. "members" \in Queries /\ fetch["members"].stage = "none"
    BY DEF Quiet, Queries
  <2>2. Clean("members") /\ \A c \in Committed : Concerns(c, "members") => c \in heard["members"]
    BY <1>1, <2>1, AllHeard
  <2>3. /\ data["members"] # NoData
        /\ \A u \in Users : Knows(u, data["members"][u], heard["members"])
    BY <1>1, <2>1, <2>2 DEF IInv, MembersInv
  <2>4. \A u \in Users : data["members"][u] = role[u]
    BY <2>2, <2>3 DEF Knows, About, Concerns
  <2>5. /\ data["members"] \in [Users -> Roles \cup {None}]
        /\ role \in [Users -> Roles \cup {None}]
    BY <1>1, <2>3 DEF IInv, TypeOK
  <2> QED
    BY <2>4, <2>5
<1> QED
  BY <1>1, InitIInv, NextIInv, PTL DEF Spec
=============================================================================
