---------------------------- MODULE BoardMembers ----------------------------
(***************************************************************************)
(* The members of one board and the requests that change them: addMember,  *)
(* updateMemberRole, removeMember, update and remove of BoardsService      *)
(* (boards/boards.service.ts), behind BoardAccessGuard and RolesGuard,     *)
(* interleaved at every await.                                             *)
(*                                                                         *)
(* The check that protects the last owner reads before the transaction; in *)
(* the transaction the member row is written first and Board.ownerId is    *)
(* handed over after it.  PostgreSQL is external: these transactions run   *)
(* at READ COMMITTED, what they write is invisible and locked until they   *)
(* commit, and a cycle of waiting ones is broken by failing one of them.   *)
(***************************************************************************)
EXTENDS Naturals, FiniteSets, Sequences

CONSTANTS Users,         \* the registered users
          None,          \* no user, no row, no role
          Reqs,          \* HTTP requests, each handled once
          Workloads,     \* the assignments of a body to each request
          InitialBoards  \* the board as create and earlier requests left it

RoleRank == [VIEWER |-> 1, EDITOR |-> 2, OWNER |-> 3]
Roles == DOMAIN RoleRank

Bodies == [kind  : {"add", "update", "remove", "rename", "removeBoard"},
           actor : Users,
           user  : Users \cup {None},       \* None: an email nobody registered
           role  : Roles \cup {None}]

\* Only an invitation can name a user who is not registered.
WellFormed(b) ==
  /\ b.kind = "add" => b.role # None
  /\ b.kind = "update" => b.user # None /\ b.role # None
  /\ b.kind = "remove" => b.user # None /\ b.role = None

\* create makes its caller an OWNER and the recorded owner.
Boards == [role    : [Users -> Roles \cup {None}],
           ownerId : Users,
           senior  : SUBSET (Users \X Users)]

ASSUME UserAssumption == IsFiniteSet(Users)
ASSUME NoneAssumption == None \notin Users \cup Roles
ASSUME WorkloadAssumption ==
  Workloads \subseteq [Reqs -> {b \in Bodies : WellFormed(b)}]
ASSUME BoardAssumption ==
  InitialBoards \subseteq {b \in Boards : b.role[b.ownerId] = "OWNER"}

VARIABLES
  role,       \* the committed BoardMember rows: each member's role
  ownerId,    \* Board.ownerId, None once the board is gone
  senior,     \* <<u, v>>: member u's row was created before member v's
  body,       \* what each request asks for
  pc,         \* where each handler stands
  before,     \* the target's role, as assertLastOwnerSafe returned it
  successor,  \* the owner a transaction hands the board to
  reply,      \* the answer of each request
  log,        \* the audit entries that were written
  wire,       \* the requests whose event went to the board's room, in order
  was,        \* the target's role when the change committed (no code)
  beside      \* membership changes committed by others since `before' was
              \* read and until this one committed (no code)

vars == <<role, ownerId, senior, body, pc, before, successor, reply, log, wire,
          was, beside>>
-----------------------------------------------------------------------------
Kind(r) == body[r].kind
Actor(r) == body[r].actor
User(r) == body[r].user

\* Mutation: removed members stay as rows of a role of their own.
NewRoleSoft(r) == IF Kind(r) = "remove" THEN "REMOVED" ELSE body[r].role

NewRole(r) == IF Kind(r) = "remove" THEN None ELSE body[r].role

Init ==
  /\ \E b \in InitialBoards :
       role = b.role /\ ownerId = b.ownerId /\ senior = b.senior
  /\ body \in Workloads
  /\ pc = [r \in Reqs |-> "sent"]
  /\ before = [r \in Reqs |-> None]
  /\ successor = [r \in Reqs |-> None]
  /\ reply = [r \in Reqs |-> "none"]
  /\ log = {}
  /\ wire = <<>>
  /\ was = [r \in Reqs |-> None]
  /\ beside = [r \in Reqs |-> {}]

Owners == {u \in Users : role[u] = "OWNER"}

Changes(r) == Kind(r) \in {"update", "remove"}

\* The rows a transaction has written, and locks.
HoldsMember(r, u) ==
  pc[r] \in {"syncing", "electing", "handing", "committing"} /\ User(r) = u

HoldsBoard(r) ==
  pc[r] = "deleting" \/ (pc[r] = "committing" /\ successor[r] # None)

MemberLocked(r, u) == \E q \in Reqs \ {r} : HoldsMember(q, u)
BoardLocked(r) == \E q \in Reqs \ {r} : HoldsBoard(q)
BoardGoing == \E r \in Reqs : pc[r] = "deleting"

\* From the read of the target's role to the commit.
InWindow(r) ==
  pc[r] \in {"counting", "writing", "syncing", "electing", "handing", "committing"}

\* Every change that is under way learns of r's commit.
TellOthers(r) ==
  beside' = [q \in Reqs |-> IF q # r /\ InWindow(q) THEN beside[q] \cup {r} ELSE beside[q]]

Goto(r, stage) == pc' = [pc EXCEPT ![r] = stage]

Reply(r, status) ==
  /\ reply' = [reply EXCEPT ![r] = status]
  /\ Goto(r, "done")

store == <<role, ownerId, senior>>
found == <<before, successor>>
sent == <<log, wire>>
ghosts == <<was, beside>>
-----------------------------------------------------------------------------
(* BoardAccessGuard and RolesGuard: the caller's role, read here and never  *)
(* again, must reach the one the route requires.  No board, no member row.  *)

Required(r) == IF Kind(r) = "rename" THEN "EDITOR" ELSE "OWNER"

Authorized(r) == role[Actor(r)] # None /\ RoleRank[role[Actor(r)]] >= RoleRank[Required(r)]

Authorize(r) ==
  /\ pc[r] = "sent"
  /\ \/ Authorized(r) /\ Goto(r, "accepted") /\ UNCHANGED reply
     \/ ~Authorized(r) /\ Reply(r, "forbidden")
  /\ UNCHANGED <<store, body, found, sent, ghosts>>
-----------------------------------------------------------------------------
(* addMember *)

FindUser(r) ==
  /\ pc[r] = "accepted"
  /\ Kind(r) = "add"
  /\ \/ User(r) # None /\ Goto(r, "inserting") /\ UNCHANGED reply
     \/ User(r) = None /\ Reply(r, "notFound")
  /\ UNCHANGED <<store, body, found, sent, ghosts>>

\* The unique index and the foreign key both wait for the rows they concern.
Inserting(r) ==
  /\ pc[r] = "inserting"
  /\ ~MemberLocked(r, User(r))
  /\ ~BoardGoing

\* Mutation: nothing ties a member row to its board.
InsertWithoutBoard(r) ==
  /\ Inserting(r)
  /\ role[User(r)] = None
  /\ role' = [role EXCEPT ![User(r)] = body[r].role]
  /\ senior' = senior \cup {<<u, User(r)>> : u \in {v \in Users : role[v] # None}}
  /\ TellOthers(r)
  /\ Goto(r, "committed")
  /\ UNCHANGED <<ownerId, body, found, reply, sent, was>>

InsertMember(r) ==
  /\ Inserting(r)
  /\ ownerId # None
  /\ role[User(r)] = None
  /\ role' = [role EXCEPT ![User(r)] = body[r].role]
  /\ senior' = senior \cup {<<u, User(r)>> : u \in {v \in Users : role[v] # None}}
  /\ TellOthers(r)
  /\ Goto(r, "committed")
  /\ UNCHANGED <<ownerId, body, found, reply, sent, was>>

\* P2002 becomes a 409; the foreign key's failure is a 500.
InsertFails(r) ==
  /\ Inserting(r)
  /\ \/ role[User(r)] # None /\ Reply(r, "conflict")
     \/ ownerId = None /\ Reply(r, "error")
  /\ UNCHANGED <<store, body, found, sent, ghosts>>
-----------------------------------------------------------------------------
(* updateMemberRole and removeMember: assertLastOwnerSafe, two queries ... *)

ReadTarget(r) ==
  /\ pc[r] = "accepted"
  /\ Changes(r)
  /\ before' = [before EXCEPT ![r] = role[User(r)]]
  /\ Goto(r, IF NewRole(r) = "OWNER" \/ role[User(r)] # "OWNER" THEN "writing" ELSE "counting")
  /\ UNCHANGED <<store, body, successor, reply, sent, ghosts>>

\* Mutation: off by one.
CountOwnersOffByOne(r) ==
  /\ pc[r] = "counting"
  /\ \/ Cardinality(Owners) >= 1 /\ Goto(r, "writing") /\ UNCHANGED reply
     \/ Cardinality(Owners) < 1 /\ Reply(r, "conflict")
  /\ UNCHANGED <<store, body, found, sent, ghosts>>

CountOwners(r) ==
  /\ pc[r] = "counting"
  /\ \/ Cardinality(Owners) > 1 /\ Goto(r, "writing") /\ UNCHANGED reply
     \/ Cardinality(Owners) <= 1 /\ Reply(r, "conflict")
  /\ UNCHANGED <<store, body, found, sent, ghosts>>
-----------------------------------------------------------------------------
(* ... and then the transaction: the member row, syncBoardOwner, commit.    *)

\* Mutation: an upsert, which brings back a row that was deleted meanwhile.
WriteMemberUpsert(r) ==
  /\ pc[r] = "writing"
  /\ ~MemberLocked(r, User(r))
  /\ role[User(r)] # None \/ (Kind(r) = "update" /\ ownerId # None)
  /\ Goto(r, "syncing")
  /\ UNCHANGED <<store, body, found, reply, sent, ghosts>>

\* Mutation: the event is sent inside the transaction.
WriteMemberAndAnnounce(r) ==
  /\ pc[r] = "writing"
  /\ ~MemberLocked(r, User(r))
  /\ role[User(r)] # None
  /\ wire' = Append(wire, r)
  /\ Goto(r, "syncing")
  /\ UNCHANGED <<store, body, found, reply, log, ghosts>>

WriteMember(r) ==
  /\ pc[r] = "writing"
  /\ ~MemberLocked(r, User(r))
  /\ role[User(r)] # None
  /\ Goto(r, "syncing")
  /\ UNCHANGED <<store, body, found, reply, sent, ghosts>>

\* P2025: the row has been deleted, or was never there.
WriteMemberFails(r) ==
  /\ pc[r] = "writing"
  /\ ~MemberLocked(r, User(r))
  /\ role[User(r)] = None
  /\ Reply(r, "notFound")
  /\ UNCHANGED <<store, body, found, sent, ghosts>>

\* Mutation: a demotion leaves Board.ownerId alone, only a removal hands it over.
ReadOwnerOnRemoval(r) ==
  /\ pc[r] = "syncing"
  /\ Goto(r, IF Kind(r) = "remove" /\ ownerId = User(r) THEN "electing" ELSE "committing")
  /\ UNCHANGED <<store, body, found, reply, sent, ghosts>>

\* Nothing to hand over unless the recorded owner stops being an OWNER.
ReadOwner(r) ==
  /\ pc[r] = "syncing"
  /\ Goto(r, IF NewRole(r) # "OWNER" /\ ownerId = User(r) THEN "electing" ELSE "committing")
  /\ UNCHANGED <<store, body, found, reply, sent, ghosts>>

Candidates(r) == Owners \ {User(r)}

\* The longest-standing other OWNER, among the committed rows.
ElectSuccessor(r) ==
  /\ pc[r] = "electing"
  /\ \/ \E u \in Candidates(r) :
          /\ \A v \in Candidates(r) : <<v, u>> \notin senior
          /\ successor' = [successor EXCEPT ![r] = u]
          /\ Goto(r, "handing")
     \/ Candidates(r) = {} /\ Goto(r, "committing") /\ UNCHANGED successor
  /\ UNCHANGED <<store, body, before, reply, sent, ghosts>>

HandOver(r) ==
  /\ pc[r] = "handing"
  /\ ~BoardLocked(r)
  /\ Goto(r, "committing")
  /\ UNCHANGED <<store, body, found, reply, sent, ghosts>>

Commit(r) ==
  /\ pc[r] = "committing"
  /\ role' = [role EXCEPT ![User(r)] = NewRole(r)]
  /\ senior' = IF NewRole(r) # None THEN senior
               ELSE {p \in senior : User(r) \notin {p[1], p[2]}}
  /\ ownerId' = IF successor[r] = None THEN ownerId ELSE successor[r]
  /\ was' = [was EXCEPT ![r] = role[User(r)]]
  /\ TellOthers(r)
  /\ Goto(r, "committed")
  /\ UNCHANGED <<body, found, reply, sent>>
-----------------------------------------------------------------------------
(* update, and remove with its cascade to the member rows. *)

RenameBoard(r) ==
  /\ pc[r] = "accepted"
  /\ Kind(r) = "rename"
  /\ ~BoardLocked(r)
  /\ Reply(r, IF ownerId = None THEN "error" ELSE "ok")
  /\ UNCHANGED <<store, body, found, sent, ghosts>>

\* One DELETE statement: it locks the board's row first ...
LockBoard(r) ==
  /\ pc[r] = "accepted"
  /\ Kind(r) = "removeBoard"
  /\ ~BoardLocked(r)
  /\ \/ ownerId # None /\ Goto(r, "deleting") /\ UNCHANGED reply
     \/ ownerId = None /\ Reply(r, "error")
  /\ UNCHANGED <<store, body, found, sent, ghosts>>

\* ... and needs the lock of every member row for the cascade.
RemoveBoard(r) ==
  /\ pc[r] = "deleting"
  /\ \A u \in Users : ~MemberLocked(r, u)
  /\ role' = [u \in Users |-> None]
  /\ ownerId' = None
  /\ senior' = {}
  /\ Goto(r, "committed")
  /\ UNCHANGED <<body, found, reply, sent, ghosts>>

\* The removal of the board waits for a member's row, whose holder waits for the
\* board's.
InDeadlock(r) ==
  \/ pc[r] = "handing" /\ BoardGoing
  \/ pc[r] = "deleting" /\ \E q \in Reqs : pc[q] = "handing"

\* Mutation: a transaction that was rolled back is tried again, without end.
DeadlockRetried(r) ==
  /\ InDeadlock(r)
  /\ Goto(r, IF pc[r] = "handing" THEN "writing" ELSE "accepted")
  /\ successor' = [successor EXCEPT ![r] = None]
  /\ UNCHANGED <<store, body, before, reply, sent, ghosts>>

\* PostgreSQL rolls one of them back; no handler retries.
DeadlockVictim(r) ==
  /\ InDeadlock(r)
  /\ Reply(r, "error")
  /\ UNCHANGED <<store, body, found, sent, ghosts>>
-----------------------------------------------------------------------------
(* After the commit: the audit entry, whose failure is swallowed, then the  *)
(* event, which an invitation and the removal of the board do not have.     *)

Entry(r, from) == [req |-> r, from |-> from, was |-> was[r]]

\* Mutation: the audit entry reads the role again.
AuditRereads(r) ==
  /\ pc[r] = "committed"
  /\ log' = log \cup {Entry(r, IF User(r) = None THEN None ELSE role[User(r)])}
  /\ \/ Changes(r) /\ Goto(r, "audited") /\ UNCHANGED reply
     \/ ~Changes(r) /\ Reply(r, "ok")
  /\ UNCHANGED <<store, body, found, wire, ghosts>>

Audit(r) ==
  /\ pc[r] = "committed"
  /\ log' = log \cup {Entry(r, before[r])} \/ UNCHANGED log
  /\ \/ Changes(r) /\ Goto(r, "audited") /\ UNCHANGED reply
     \/ ~Changes(r) /\ Reply(r, "ok")
  /\ UNCHANGED <<store, body, found, wire, ghosts>>

Announce(r) ==
  /\ pc[r] = "audited"
  /\ wire' = Append(wire, r)
  /\ Reply(r, "ok")
  /\ UNCHANGED <<store, body, found, log, ghosts>>
-----------------------------------------------------------------------------
Handle(r) ==
  \/ FindUser(r) \/ InsertMember(r) \/ InsertFails(r)
  \/ ReadTarget(r) \/ CountOwners(r)
  \/ WriteMember(r) \/ WriteMemberFails(r)
  \/ ReadOwner(r) \/ ElectSuccessor(r) \/ HandOver(r) \/ Commit(r)
  \/ RenameBoard(r) \/ LockBoard(r) \/ RemoveBoard(r) \/ DeadlockVictim(r)
  \/ Audit(r) \/ Announce(r)

\* Every request has been answered.
Idle == (\A r \in Reqs : pc[r] = "done") /\ UNCHANGED vars

Next == (\E r \in Reqs : Authorize(r) \/ Handle(r)) \/ Idle

\* What a handler may wait for: a lock, until its holder ends or a deadlock is found.
Waiting(r) ==
  \/ pc[r] = "inserting" /\ (MemberLocked(r, User(r)) \/ BoardGoing)
  \/ pc[r] = "writing" /\ MemberLocked(r, User(r))
  \/ pc[r] = "accepted" /\ Kind(r) \in {"rename", "removeBoard"} /\ BoardLocked(r)
  \/ pc[r] = "handing" /\ BoardLocked(r)
  \/ pc[r] = "deleting" /\ \E u \in Users : MemberLocked(r, u)

Ready(r) == pc[r] \notin {"sent", "done"} /\ (Waiting(r) => InDeadlock(r))

\* The event loop and the database run every handler that is ready: weak fairness
\* of Handle(r), with what enables it written out.
Fairness == \A r \in Reqs : []<>~Ready(r) \/ []<><<Handle(r)>>_vars

Spec == Init /\ [][Next]_vars /\ Fairness
-----------------------------------------------------------------------------
Stages == {"sent", "accepted", "inserting", "counting", "writing", "syncing",
           "electing", "handing", "committing", "deleting", "committed", "audited", "done"}

Entries == [req : Reqs, from : Roles \cup {None}, was : Roles \cup {None}]

TypeOK ==
  /\ role \in [Users -> Roles \cup {None}]
  /\ ownerId \in Users \cup {None}
  /\ senior \subseteq Users \X Users
  /\ body \in Workloads
  /\ pc \in [Reqs -> Stages]
  /\ before \in [Reqs -> Roles \cup {None}]
  /\ successor \in [Reqs -> Users \cup {None}]
  /\ reply \in [Reqs -> {"none", "ok", "forbidden", "notFound", "conflict", "error"}]
  /\ log \subseteq Entries
  /\ wire \in Seq(Reqs)
  /\ was \in [Reqs -> Roles \cup {None}]
  /\ beside \in [Reqs -> SUBSET Reqs]

Committed(r) == pc[r] \in {"committed", "audited"} \/ (pc[r] = "done" /\ reply[r] = "ok")

\* A request that can take the role OWNER away.
Demotes(r) == Changes(r) /\ NewRole(r) # "OWNER"

\* While r was under way, another member was demoted or removed.
RacedBy(r) == \E q \in beside[r] : Demotes(q) /\ User(q) # User(r)

Raced == \E r \in Reqs : Demotes(r) /\ Committed(r) /\ RacedBy(r)

HasBoard == ownerId # None

\* A board loses its last owner only if two demotions or removals, of different
\* members, overlap: assertLastOwnerSafe (boards.service.ts 413-437) is right about
\* every request that has the members to itself, the one that reads a target who is
\* not an OWNER yet, and so counts nobody, included.
OwnerlessTakesARace == HasBoard /\ Owners = {} => Raced

\* Board.ownerId names one of the OWNERs (boards.service.ts 275-277), through any
\* order of demotions, removals and hand-overs that do not overlap.
OwnerIdStaleTakesARace == HasBoard /\ role[ownerId] # "OWNER" => Raced

\* `Returns the membership row as it stood before the caller's mutation'
\* (boards.service.ts 408-411): the audit entry's `from' is the role that the commit
\* replaced, unless another change of the same member was committed meanwhile.
AuditTellsWhatChanged ==
  \A e \in log :
    Changes(e.req) /\ e.from # e.was => \E q \in beside[e.req] : User(q) = User(e.req)

\* A change is announced after its commit and once (boards.service.ts 302-307): a
\* transaction that failed, or was a deadlock's victim, is never heard of.
AnnouncedOnceCommitted ==
  \A i \in 1 .. Len(wire) :
    /\ Committed(wire[i])
    /\ \A j \in 1 .. Len(wire) : wire[j] = wire[i] => j = i

\* Nobody is a member of a board that is gone, though an invitation that was
\* authorized before the removal may be inserted after it.
NoGhostMembers == ~HasBoard => \A u \in Users : role[u] = None

\* A user without a row gets one by an invitation only: a role change that reads the
\* row before a removal and writes after it does not bring the member back.
RemovedStaysOut ==
  [][\A u \in Users :
       role[u] = None /\ role'[u] # None =>
         \E r \in Reqs : Kind(r) = "add" /\ User(r) = u
                           /\ pc[r] = "inserting" /\ pc'[r] = "committed"]_vars

\* Every request the server accepts is answered, through lock waits and deadlocks.
EveryRequestAnswered == \A r \in Reqs : pc[r] = "accepted" ~> pc[r] = "done"

(* What makes these invariants inductive, request by request. *)

RacedBySameUser(r) == \E q \in beside[r] : User(q) = User(r)

\* The stages of a handler are those of its kind.
StagesFit(r) ==
  /\ InWindow(r) \/ pc[r] = "audited" => Changes(r)
  /\ pc[r] = "inserting" => Kind(r) = "add" /\ User(r) # None
  /\ pc[r] = "deleting" => ~Changes(r)
  /\ pc[r] \in {"electing", "handing"} => Demotes(r)
  /\ pc[r] = "handing" => successor[r] # None
  /\ InWindow(r) /\ successor[r] # None =>
       Demotes(r) /\ successor[r] # User(r) /\ pc[r] \in {"handing", "committing"}
  /\ pc[r] \in {"sent", "accepted"} => successor[r] = None

\* Whoever holds a member's row keeps the board from being removed.
HoldsBack(r) ==
  pc[r] \in {"syncing", "electing", "handing", "committing"} => HasBoard

\* What the check found is still so when the change commits, or a race undid it.
CheckHolds(r) ==
  HasBoard /\ Demotes(r) /\ InWindow(r) /\ pc[r] # "counting" =>
    Candidates(r) # {} \/ RacedBy(r) \/ Raced

\* The successor is an OWNER at the commit, and whoever has none is not the recorded
\* owner.
HandOverHolds(r) ==
  /\ InWindow(r) /\ successor[r] # None =>
       role[successor[r]] = "OWNER" \/ RacedBy(r) \/ Raced
  /\ pc[r] = "committing" /\ successor[r] = None /\ Demotes(r) =>
       ownerId # User(r) \/ RacedBy(r) \/ Raced

\* The audit entry is written from these two.
BeforeHolds(r) == HasBoard /\ InWindow(r) => before[r] = role[User(r)] \/ RacedBySameUser(r)

WasHolds(r) == Changes(r) /\ pc[r] = "committed" => before[r] = was[r] \/ RacedBySameUser(r)

RequestInv(r) ==
  /\ StagesFit(r)
  /\ HoldsBack(r)
  /\ CheckHolds(r)
  /\ HandOverHolds(r)
  /\ BeforeHolds(r)
  /\ WasHolds(r)

\* The inductive invariant behind the theorems of BoardMembers_proofs: what the check
\* before the transaction read (boards.service.ts 418-434) stays true until the
\* commit, unless an overlapping request that is named in `beside' undoes it.
IInv ==
  /\ TypeOK
  /\ \A r \in Reqs : RequestInv(r)
  /\ NoGhostMembers
  /\ OwnerlessTakesARace
  /\ OwnerIdStaleTakesARace
  /\ AuditTellsWhatChanged

\* PLAN_EN.md 300: a board can never end up ownerless.
NeverOwnerless == HasBoard => Owners # {}

\* boards.service.ts 276-277: a board must never be observable naming an ownerId who is
\* no longer one of its OWNERs, not even briefly.
OwnerIdIsAnOwner == HasBoard /\ Owners # {} => role[ownerId] = "OWNER"
=============================================================================
