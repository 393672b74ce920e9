------------------------ MODULE BoardMembers_proofs ------------------------
(***************************************************************************)
(* The inductive invariant of BoardMembers, for any number of users and    *)
(* requests.  Three steps change the member rows, InsertMember, Commit and *)
(* RemoveBoard; all others are covered by the lemma Quiet.                 *)
(***************************************************************************)
EXTENDS BoardMembers, FiniteSetTheorems, TLAPS

\* Whom and what a request names.
LEMMA Named ==
  ASSUME body \in Workloads, NEW r \in Reqs
  PROVE  /\ Actor(r) \in Users
         /\ NewRole(r) \in Roles \cup {None}
         /\ User(r) \in Users \cup {None}
         /\ Changes(r) => User(r) \in Users
         /\ Kind(r) = "add" => body[r].role \in Roles
         /\ "OWNER" \in Roles /\ "OWNER" # None
BY WorkloadAssumption, NoneAssumption
DEF Bodies, WellFormed, Roles, RoleRank, Actor, NewRole, User, Changes, Kind

LEMMA InitIInv == Init => IInv
<1> SUFFICES ASSUME Init PROVE IInv
  OBVIOUS
<1>1. PICK b \in InitialBoards : role = b.role /\ ownerId = b.ownerId /\ senior = b.senior
  BY DEF Init
<1>2. /\ b.role \in [Users -> Roles \cup {None}] /\ b.ownerId \in Users
      /\ b.senior \in SUBSET (Users \X Users) /\ b.role[b.ownerId] = "OWNER"
  BY BoardAssumption DEF Boards
<1>3. TypeOK
  BY <1>1, <1>2 DEF Init, TypeOK, Stages
<1>4. HasBoard /\ Owners # {} /\ role[ownerId] = "OWNER"
  BY <1>1, <1>2, NoneAssumption DEF HasBoard, Owners
<1>5. \A r \in Reqs : pc[r] = "sent" /\ successor[r] = None
  BY DEF Init
<1> QED
  BY <1>3, <1>4, <1>5
  DEF Init, IInv, RequestInv, StagesFit, HoldsBack, CheckHolds, HandOverHolds, BeforeHolds,
      WasHolds, InWindow, NoGhostMembers, OwnerlessTakesARace, OwnerIdStaleTakesARace,
      AuditTellsWhatChanged

\* A step that moves one request on and changes neither the board nor its members.
LEMMA Quiet ==
  ASSUME IInv, NEW r \in Reqs,
         UNCHANGED <<role, ownerId, senior, body, was, beside>>,
         NEW stage \in Stages, pc' = [pc EXCEPT ![r] = stage],
         before' \in [Reqs -> Roles \cup {None}],
         \A q \in Reqs \ {r} : before'[q] = before[q],
         successor' \in [Reqs -> Users \cup {None}],
         \A q \in Reqs \ {r} : successor'[q] = successor[q],
         NEW status, reply' = [reply EXCEPT ![r] = status],
         status \in {"none", "ok", "forbidden", "notFound", "conflict", "error"},
         log' \subseteq Entries, wire' \in Seq(Reqs),
         \A e \in log' \ log : Changes(e.req) => e.from = e.was \/ RacedBySameUser(e.req),
         Committed(r) => Committed(r)',
         RequestInv(r)'
  PROVE  IInv'
<1>1. TypeOK'
  BY DEF IInv, TypeOK
<1>2. /\ \A q \in Reqs : /\ Kind(q)' = Kind(q) /\ User(q)' = User(q)
                         /\ Demotes(q)' = Demotes(q) /\ Changes(q)' = Changes(q)
                         /\ RacedBy(q)' = RacedBy(q)
                         /\ RacedBySameUser(q)' = RacedBySameUser(q)
                         /\ Candidates(q)' = Candidates(q)
      /\ HasBoard' = HasBoard /\ Owners' = Owners
  BY DEF Kind, User, Demotes, NewRole, Changes, RacedBy, RacedBySameUser, Candidates, Owners,
         HasBoard
<1>3. \A q \in Reqs \ {r} : pc'[q] = pc[q] /\ reply'[q] = reply[q]
  BY DEF IInv, TypeOK
<1>4. Raced => Raced'
  BY <1>2, <1>3 DEF Raced, Committed
<1>5. ASSUME NEW q \in Reqs \ {r} PROVE RequestInv(q)'
  BY <1>2, <1>3, <1>4
  DEF IInv, RequestInv, StagesFit, HoldsBack, CheckHolds, HandOverHolds, BeforeHolds, WasHolds,
      InWindow
<1>6. NoGhostMembers' /\ OwnerlessTakesARace' /\ OwnerIdStaleTakesARace'
  BY <1>2, <1>4 DEF IInv, NoGhostMembers, OwnerlessTakesARace, OwnerIdStaleTakesARace
<1>7. AuditTellsWhatChanged'
  BY <1>1, <1>2 DEF IInv, TypeOK, Entries, AuditTellsWhatChanged, RacedBySameUser
<1> QED
  BY <1>1, <1>5, <1>6, <1>7 DEF IInv

\* Two owners are not one.
LEMMA AnotherOwner ==
  ASSUME NEW u \in Users, Cardinality(Owners) > 1
  PROVE  Owners \ {u} # {}
<1>1. IsFiniteSet(Owners) /\ Cardinality(Owners) \in Nat
  BY UserAssumption, FS_Subset, FS_CardinalityType DEF Owners
<1>2. SUFFICES ASSUME Owners \subseteq {u} PROVE FALSE
  OBVIOUS
<1>3. Cardinality(Owners) <= Cardinality({u}) /\ Cardinality({u}) = 1
  BY <1>2, FS_Subset, FS_Singleton
<1> QED
  BY <1>1, <1>3

LEMMA QuietActions ==
  ASSUME IInv, NEW r \in Reqs,
         \/ Authorize(r) \/ FindUser(r) \/ InsertFails(r) \/ ReadTarget(r) \/ CountOwners(r)
         \/ WriteMember(r) \/ WriteMemberFails(r) \/ ReadOwner(r) \/ ElectSuccessor(r)
         \/ HandOver(r) \/ RenameBoard(r) \/ LockBoard(r) \/ DeadlockVictim(r)
         \/ Audit(r) \/ Announce(r)
  PROVE  IInv'
<1> USE DEF store, found, sent, ghosts, Goto, Reply, Stages
<1>1. TypeOK /\ RequestInv(r)
  BY DEF IInv
<1>2. /\ pc \in [Reqs -> Stages] /\ before \in [Reqs -> Roles \cup {None}]
      /\ successor \in [Reqs -> Users \cup {None}]
      /\ reply \in [Reqs -> {"none", "ok", "forbidden", "notFound", "conflict", "error"}]
      /\ log \subseteq Entries /\ wire \in Seq(Reqs) /\ role \in [Users -> Roles \cup {None}]
      /\ was \in [Reqs -> Roles \cup {None}]
  BY <1>1 DEF TypeOK
<1>3. Changes(r) => User(r) \in Users
  BY <1>1, Named DEF TypeOK
<1>4. ASSUME UNCHANGED <<role, ownerId, senior, body, was, beside>>
      PROVE  /\ Kind(r)' = Kind(r) /\ User(r)' = User(r)
             /\ Demotes(r)' = Demotes(r) /\ Changes(r)' = Changes(r)
             /\ RacedBy(r)' = RacedBy(r) /\ RacedBySameUser(r)' = RacedBySameUser(r)
             /\ Candidates(r)' = Candidates(r) /\ HasBoard' = HasBoard
  BY <1>4 DEF Kind, User, Demotes, NewRole, Changes, RacedBy, RacedBySameUser, Candidates,
              Owners, HasBoard
<1>5. ASSUME UNCHANGED <<role, ownerId, senior, body, was, beside>>, ~Committed(r),
             NEW stage \in Stages, pc' = [pc EXCEPT ![r] = stage],
             NEW status \in {"none", "ok", "forbidden", "notFound", "conflict", "error"},
             reply' = [reply EXCEPT ![r] = status]
      PROVE  Raced => Raced'
  <2>1. PICK q \in Reqs : Raced => Demotes(q) /\ Committed(q) /\ RacedBy(q)
    BY DEF Raced
  <2>2. Raced => q # r
    BY <1>5, <2>1
  <2>3. Raced => Demotes(q)' /\ Committed(q)' /\ RacedBy(q)'
    BY <1>2, <1>5, <2>1, <2>2 DEF Committed, RacedBy, Demotes, Changes, Kind, User, NewRole
  <2> QED
    BY <2>3 DEF Raced
<1>6. ASSUME \/ Authorize(r) \/ FindUser(r) \/ InsertFails(r) \/ RenameBoard(r)
             \/ LockBoard(r) \/ DeadlockVictim(r) \/ WriteMemberFails(r)
      PROVE  IInv'
  <2>1. ~Committed(r)
    BY <1>6 DEF Committed, Authorize, FindUser, InsertFails, Inserting, RenameBoard, LockBoard,
                DeadlockVictim, InDeadlock, WriteMemberFails
  <2>2. PICK stage \in {"accepted", "inserting", "deleting", "done"} :
          pc' = [pc EXCEPT ![r] = stage]
    BY <1>6 DEF Authorize, FindUser, InsertFails, RenameBoard, LockBoard, DeadlockVictim,
                WriteMemberFails
  <2>3. stage = "accepted" => successor[r] = None
    BY <1>1, <1>2, <1>6, <2>2
    DEF Authorize, FindUser, InsertFails, RenameBoard, LockBoard, DeadlockVictim,
        WriteMemberFails, RequestInv, StagesFit
  <2>4. stage = "inserting" => Kind(r) = "add" /\ User(r) # None
    BY <1>2, <1>6, <2>2
    DEF Authorize, FindUser, InsertFails, RenameBoard, LockBoard, DeadlockVictim,
        WriteMemberFails
  <2>5. PICK status \in {"none", "ok", "forbidden", "notFound", "conflict", "error"} :
          reply' = [reply EXCEPT ![r] = status]
    BY <1>2, <1>6 DEF Authorize, FindUser, InsertFails, RenameBoard, LockBoard, DeadlockVictim,
                WriteMemberFails
  <2>6. UNCHANGED <<role, ownerId, senior, body, was, beside, before, successor, log, wire>>
    BY <1>6 DEF Authorize, FindUser, InsertFails, RenameBoard, LockBoard, DeadlockVictim,
                WriteMemberFails
  <2>7. stage = "deleting" => ~Changes(r)
    BY <1>2, <1>6, <2>2
    DEF Authorize, FindUser, InsertFails, RenameBoard, LockBoard, DeadlockVictim,
        WriteMemberFails, Changes
  <2>8. RequestInv(r)'
    BY <1>2, <1>4, <2>2, <2>3, <2>4, <2>6, <2>7
    DEF RequestInv, StagesFit, HoldsBack, CheckHolds, HandOverHolds, BeforeHolds, WasHolds,
        InWindow
  <2> QED
    BY <1>2, <2>1, <2>2, <2>5, <2>6, <2>8, Quiet
<1>7. ASSUME \/ ReadTarget(r) \/ CountOwners(r) \/ WriteMember(r) \/ ReadOwner(r)
             \/ ElectSuccessor(r) \/ HandOver(r)
      PROVE  IInv'
  <2>1. ~Committed(r)
    BY <1>7 DEF Committed, ReadTarget, CountOwners, WriteMember, ReadOwner, ElectSuccessor,
                HandOver
  <2>2. UNCHANGED <<role, ownerId, senior, body, was, beside, log, wire>>
    BY <1>7 DEF ReadTarget, CountOwners, WriteMember, ReadOwner, ElectSuccessor, HandOver
  <2>3. PICK stage \in {"counting", "writing", "syncing", "electing", "handing", "committing",
                       "done"} :
          pc' = [pc EXCEPT ![r] = stage]
    BY <1>7 DEF ReadTarget, CountOwners, WriteMember, ReadOwner, ElectSuccessor, HandOver
  <2>4. PICK status \in {"none", "ok", "forbidden", "notFound", "conflict", "error"} :
          reply' = [reply EXCEPT ![r] = status]
    BY <1>2, <1>7 DEF ReadTarget, CountOwners, WriteMember, ReadOwner, ElectSuccessor, HandOver
  <2>5. /\ before' \in [Reqs -> Roles \cup {None}]
        /\ \A q \in Reqs \ {r} : before'[q] = before[q]
        /\ ReadTarget(r) \/ before' = before
    BY <1>2, <1>3, <1>7
    DEF ReadTarget, CountOwners, WriteMember, ReadOwner, ElectSuccessor, HandOver
  <2>6. /\ successor' \in [Reqs -> Users \cup {None}]
        /\ \A q \in Reqs \ {r} : successor'[q] = successor[q]
        /\ ElectSuccessor(r) \/ successor' = successor
    BY <1>2, <1>7
    DEF ReadTarget, CountOwners, WriteMember, ReadOwner, ElectSuccessor, HandOver, Candidates,
        Owners
  <2>7. Raced => Raced'
    BY <1>5, <2>1, <2>2, <2>3, <2>4
  <2>8. pc'[r] = stage /\ Changes(r)
    BY <1>1, <1>2, <1>7, <2>3
    DEF ReadTarget, CountOwners, WriteMember, ReadOwner, ElectSuccessor, HandOver, RequestInv,
        StagesFit, InWindow
  <2>9. StagesFit(r)'
    <3>1. CASE ElectSuccessor(r)
      <4>1. Demotes(r) /\ successor[r] = None
        BY <1>1, <3>1 DEF ElectSuccessor, RequestInv, StagesFit, InWindow
      <4>2. \/ stage = "handing" /\ successor'[r] \in Candidates(r)
            \/ stage = "committing" /\ successor'[r] = None
        BY <1>2, <2>8, <3>1, <4>1 DEF ElectSuccessor
      <4>3. \A u \in Candidates(r) : u # None /\ u # User(r)
        BY NoneAssumption DEF Candidates, Owners
      <4> QED
        BY <1>4, <2>2, <2>8, <4>1, <4>2, <4>3 DEF StagesFit
    <3>2. CASE ~ElectSuccessor(r)
      <4>1. successor'[r] = successor[r]
        BY <2>6, <3>2
      <4>2. stage = "electing" => Demotes(r)
        BY <1>2, <1>7, <2>8, <3>2
        DEF ReadTarget, CountOwners, WriteMember, ReadOwner, HandOver, Demotes
      <4>3. successor[r] # None => HandOver(r)
        BY <1>1, <1>7, <3>2
        DEF ReadTarget, CountOwners, WriteMember, ReadOwner, RequestInv, StagesFit, InWindow
      <4>4. HandOver(r) => pc[r] = "handing" /\ stage = "committing" /\ InWindow(r)
        BY <1>2, <2>8 DEF HandOver, InWindow
      <4>5. stage # "handing"
        BY <1>2, <1>7, <2>8, <3>2 DEF ReadTarget, CountOwners, WriteMember, ReadOwner, HandOver
      <4> QED
        BY <1>1, <1>4, <2>2, <2>3, <2>8, <4>1, <4>2, <4>3, <4>4, <4>5
        DEF RequestInv, StagesFit
    <3> QED
      BY <3>1, <3>2
  <2>10. HoldsBack(r)'
    BY <1>1, <1>2, <1>3, <1>4, <1>7, <2>2, <2>8
    DEF ReadTarget, CountOwners, WriteMember, ReadOwner, ElectSuccessor, HandOver, RequestInv,
        HoldsBack, IInv, NoGhostMembers, HasBoard
  <2>11. CheckHolds(r)'
    <3> SUFFICES ASSUME HasBoard, Demotes(r), stage # "counting", stage # "done", ~RacedBy(r), ~Raced
        PROVE  Candidates(r) # {}
      BY <1>4, <2>2, <2>7, <2>8 DEF CheckHolds, InWindow
    <3>1. CASE ReadTarget(r)
      <4>1. role[User(r)] # "OWNER"
        BY <1>2, <2>8, <3>1 DEF ReadTarget, Demotes
      <4> QED
        BY <4>1 DEF IInv, OwnerlessTakesARace, Candidates, Owners
    <3>2. CASE CountOwners(r)
      BY <1>3, <2>8, <3>2, AnotherOwner, <1>2 DEF CountOwners, Candidates
    <3>3. CASE ~ReadTarget(r) /\ ~CountOwners(r)
      BY <1>1, <1>7, <3>3
      DEF WriteMember, ReadOwner, ElectSuccessor, HandOver, RequestInv, CheckHolds, InWindow
    <3> QED
      BY <3>1, <3>2, <3>3
  <2>12. HandOverHolds(r)'
    <3>1. CASE ReadOwner(r)
      BY <1>1, <1>2, <1>4, <2>2, <2>6, <2>8, <3>1
      DEF ReadOwner, RequestInv, StagesFit, HandOverHolds, InWindow, Demotes
    <3>2. CASE ElectSuccessor(r)
      <4>1. CASE Candidates(r) = {}
        BY <1>1, <1>2, <1>4, <2>2, <2>7, <2>8, <3>2, <4>1
        DEF ElectSuccessor, RequestInv, StagesFit, HoldsBack, CheckHolds, HandOverHolds, InWindow
      <4>2. CASE Candidates(r) # {}
        BY <1>2, <1>4, <2>2, <2>8, <3>2, <4>2, NoneAssumption
        DEF ElectSuccessor, HandOverHolds, InWindow, Candidates, Owners
      <4> QED
        BY <4>1, <4>2
    <3>3. CASE ~ReadOwner(r) /\ ~ElectSuccessor(r)
      <4>1. successor'[r] = successor[r]
        BY <2>6, <3>3
      <4>2. CASE HandOver(r)
        <5>1. pc[r] = "handing" /\ InWindow(r)
          BY <4>2 DEF HandOver, InWindow
        <5>2. successor[r] # None
          BY <1>1, <5>1 DEF RequestInv, StagesFit
        <5> QED
          BY <1>1, <1>4, <2>2, <2>7, <4>1, <5>1, <5>2 DEF RequestInv, HandOverHolds
      <4>3. CASE ~HandOver(r)
        BY <1>1, <1>2, <1>7, <2>8, <3>3, <4>1, <4>3
        DEF ReadTarget, CountOwners, WriteMember, RequestInv, StagesFit, HandOverHolds, InWindow
      <4> QED
        BY <4>2, <4>3
    <3> QED
      BY <3>1, <3>2, <3>3
  <2>13. BeforeHolds(r)'
    <3>1. CASE ReadTarget(r)
      BY <1>2, <1>4, <2>2, <3>1 DEF ReadTarget, BeforeHolds
    <3>2. CASE ~ReadTarget(r)
      <4>1. before'[r] = before[r]
        BY <2>5, <3>2
      <4> QED
        BY <1>1, <1>4, <1>7, <2>2, <3>2, <4>1
        DEF CountOwners, WriteMember, ReadOwner, ElectSuccessor, HandOver, RequestInv,
            BeforeHolds, InWindow
    <3> QED
      BY <3>1, <3>2
  <2>14. RequestInv(r)'
    BY <2>8, <2>9, <2>10, <2>11, <2>12, <2>13 DEF RequestInv, WasHolds
  <2> QED
    BY <1>2, <2>1, <2>2, <2>3, <2>4, <2>5, <2>6, <2>14, Quiet
<1>8. ASSUME Audit(r) \/ Announce(r) PROVE IInv'
  <2>1. PICK stage \in {"audited", "done"} : pc' = [pc EXCEPT ![r] = stage]
    BY <1>8 DEF Audit, Announce
  <2>2. PICK status \in {"none", "ok", "forbidden", "notFound", "conflict", "error"} :
          reply' = [reply EXCEPT ![r] = status]
    BY <1>2, <1>8 DEF Audit, Announce
  <2>3. UNCHANGED <<role, ownerId, senior, body, was, beside, before, successor>>
    BY <1>8 DEF Audit, Announce
  <2>4. Committed(r)'
    BY <1>2, <1>8 DEF Audit, Announce, Committed
  <2>5. log' \subseteq Entries /\ wire' \in Seq(Reqs)
    <3>1. Entry(r, before[r]) \in Entries
      BY <1>2 DEF Entry, Entries
    <3>2. log' \subseteq log \cup {Entry(r, before[r])}
      BY <1>8 DEF Audit, Announce
    <3>3. wire' = wire \/ wire' = Append(wire, r)
      BY <1>8 DEF Audit, Announce
    <3>4. Append(wire, r) \in Seq(Reqs)
      BY <1>2
    <3> QED
      BY <1>2, <3>1, <3>2, <3>3, <3>4
  <2>6. \A e \in log' \ log : Changes(e.req) => e.from = e.was \/ RacedBySameUser(e.req)
    BY <1>1, <1>8 DEF Audit, Announce, Entry, RequestInv, WasHolds
  <2>7. RequestInv(r)'
    BY <1>1, <1>2, <1>4, <1>8, <2>1, <2>3
    DEF Audit, Announce, RequestInv, StagesFit, HoldsBack, CheckHolds, HandOverHolds,
        BeforeHolds, WasHolds, InWindow
  <2> QED
    BY <1>2, <2>1, <2>2, <2>3, <2>4, <2>5, <2>6, <2>7, Quiet
<1> QED
  BY <1>6, <1>7, <1>8

\* A step that commits a change of the members: the other requests are told.
LEMMA Others ==
  ASSUME IInv, NEW r \in Reqs, ~Committed(r), NEW q \in Reqs \ {r},
         UNCHANGED <<body, before, successor, reply>>,
         pc' = [pc EXCEPT ![r] = "committed"],
         NEW new \in Roles \cup {None}, role' = [role EXCEPT ![User(r)] = new],
         User(r) \in Users, TellOthers(r), HasBoard' = HasBoard,
         \A p \in Reqs \ {r} : was'[p] = was[p],
         Demotes(r) \/ new = "OWNER" \/ role[User(r)] = None,
         ownerId' # ownerId => Demotes(r) /\ ownerId' # User(r)
  PROVE  RequestInv(q)' /\ (Raced => Raced')
<1>1. TypeOK /\ RequestInv(q)
  BY DEF IInv
<1>2. /\ pc \in [Reqs -> Stages] /\ role \in [Users -> Roles \cup {None}]
      /\ successor \in [Reqs -> Users \cup {None}] /\ ownerId \in Users \cup {None}
      /\ beside \in [Reqs -> SUBSET Reqs]
  BY <1>1 DEF TypeOK
<1>3. \A p \in Reqs : /\ Kind(p)' = Kind(p) /\ User(p)' = User(p) /\ Demotes(p)' = Demotes(p)
                      /\ Changes(p)' = Changes(p)
  BY DEF Kind, User, Demotes, NewRole, Changes
<1>4. pc'[q] = pc[q] /\ InWindow(q)' = InWindow(q)
  BY <1>2 DEF InWindow
<1>5. /\ InWindow(q) => beside'[q] = beside[q] \cup {r}
      /\ ~InWindow(q) => beside'[q] = beside[q]
      /\ \A p \in Reqs : beside[p] \subseteq beside'[p]
  BY DEF TellOthers
<1>6. \A p \in Reqs : RacedBy(p) => RacedBy(p)'
  BY <1>2, <1>3, <1>5 DEF RacedBy
<1>7. Raced => Raced'
  BY <1>2, <1>3, <1>6 DEF Raced, Committed
<1>8. /\ InWindow(q) /\ Demotes(r) /\ User(r) # User(q) => RacedBy(q)'
      /\ InWindow(q) /\ User(r) = User(q) => RacedBySameUser(q)'
      /\ RacedBySameUser(q) => RacedBySameUser(q)'
  BY <1>2, <1>3, <1>5 DEF RacedBy, RacedBySameUser
<1>9. Changes(q) => User(q) \in Users
  BY <1>1, Named DEF TypeOK
<1>10. InWindow(q) => Changes(q)
  BY <1>1 DEF RequestInv, StagesFit
<1>11. ASSUME NEW u \in Users, role[u] = "OWNER", role'[u] # "OWNER"
       PROVE  u = User(r) /\ Demotes(r)
  BY <1>2, <1>11, NoneAssumption, Named, <1>1 DEF TypeOK
<1>12. CheckHolds(q)'
  <2> SUFFICES ASSUME HasBoard, Demotes(q), InWindow(q), pc[q] # "counting", ~RacedBy(q)', ~Raced'
      PROVE  Candidates(q)' # {}
    BY <1>3, <1>4 DEF CheckHolds
  <2>1. PICK u \in Candidates(q) : TRUE
    BY <1>1, <1>6, <1>7 DEF RequestInv, CheckHolds
  <2>2. u \in Users /\ role[u] = "OWNER" /\ u # User(q)
    BY <2>1 DEF Candidates, Owners
  <2>3. role'[u] = "OWNER"
    BY <1>8, <1>11, <2>2
  <2> QED
    BY <1>3, <2>2, <2>3 DEF Candidates, Owners
<1>13. HandOverHolds(q)'
  <2>1. ASSUME InWindow(q), successor[q] # None
        PROVE  role'[successor[q]] = "OWNER" \/ RacedBy(q)' \/ Raced'
    <3>1. successor[q] \in Users /\ successor[q] # User(q)
      BY <1>1, <1>2, <2>1 DEF RequestInv, StagesFit
    <3> QED
      BY <1>1, <1>6, <1>7, <1>8, <1>11, <2>1, <3>1 DEF RequestInv, HandOverHolds
  <2>2. ASSUME pc[q] = "committing", successor[q] = None, Demotes(q)
        PROVE  ownerId' # User(q) \/ RacedBy(q)' \/ Raced'
    <3>1. InWindow(q)
      BY <2>2 DEF InWindow
    <3> QED
      BY <1>1, <1>6, <1>7, <1>8, <2>2, <3>1 DEF RequestInv, HandOverHolds
  <2> QED
    BY <1>3, <1>4, <2>1, <2>2 DEF HandOverHolds
<1>14. BeforeHolds(q)'
  BY <1>1, <1>2, <1>3, <1>4, <1>8, <1>9, <1>10 DEF RequestInv, BeforeHolds
<1>15. WasHolds(q)'
  BY <1>1, <1>3, <1>4, <1>8 DEF RequestInv, WasHolds
<1>16. StagesFit(q)' /\ HoldsBack(q)'
  BY <1>1, <1>3, <1>4 DEF RequestInv, StagesFit, HoldsBack
<1> QED
  BY <1>7, <1>12, <1>13, <1>14, <1>15, <1>16 DEF RequestInv

\* The member rows change, and the board is still there.
LEMMA MembersStep ==
  ASSUME IInv, NEW r \in Reqs, InsertMember(r) \/ Commit(r)
  PROVE  IInv'
<1> USE DEF store, found, sent, ghosts, Goto, Stages
<1>1. TypeOK /\ RequestInv(r)
  BY DEF IInv
<1>2. /\ pc \in [Reqs -> Stages] /\ role \in [Users -> Roles \cup {None}]
      /\ successor \in [Reqs -> Users \cup {None}] /\ ownerId \in Users \cup {None}
      /\ beside \in [Reqs -> SUBSET Reqs] /\ was \in [Reqs -> Roles \cup {None}]
      /\ senior \subseteq Users \X Users /\ log \subseteq Entries
  BY <1>1 DEF TypeOK
<1>3. ~Committed(r) /\ HasBoard /\ User(r) \in Users
  BY <1>1, Named, NoneAssumption
  DEF InsertMember, Inserting, Commit, Committed, RequestInv, StagesFit, HoldsBack, InWindow,
      HasBoard, TypeOK
<1>4. PICK new \in Roles \cup {None} :
        /\ role' = [role EXCEPT ![User(r)] = new]
        /\ \/ Commit(r) /\ new = NewRole(r)
           \/ InsertMember(r) /\ new \in Roles /\ role[User(r)] = None
  BY <1>1, Named DEF InsertMember, Inserting, Commit, RequestInv, StagesFit, TypeOK
<1>5. /\ UNCHANGED <<body, before, successor, reply, log, wire>> /\ TellOthers(r)
      /\ pc' = [pc EXCEPT ![r] = "committed"]
      /\ \A p \in Reqs \ {r} : was'[p] = was[p]
  BY <1>2 DEF InsertMember, Commit
<1>6. Commit(r) => /\ pc[r] = "committing" /\ InWindow(r) /\ Changes(r)
                   /\ was'[r] = role[User(r)]
                   /\ ownerId' = IF successor[r] = None THEN ownerId ELSE successor[r]
  BY <1>1, <1>2 DEF Commit, InWindow, RequestInv, StagesFit
<1>7. InsertMember(r) => ownerId' = ownerId /\ was' = was /\ Kind(r) = "add"
  BY <1>1 DEF InsertMember, Inserting, RequestInv, StagesFit
<1>8. ownerId' # ownerId => Demotes(r) /\ ownerId' # User(r) /\ ownerId' = successor[r]
  BY <1>1, <1>6, <1>7 DEF RequestInv, StagesFit, Commit, InsertMember
<1>9. HasBoard' = HasBoard /\ ownerId' \in Users
  BY <1>2, <1>3, <1>6, <1>7, NoneAssumption DEF HasBoard
<1>10. /\ User(r)' = User(r) /\ Kind(r)' = Kind(r)
       /\ Changes(r)' = Changes(r) /\ Demotes(r)' = Demotes(r)
  BY <1>5 DEF Kind, User, Demotes, NewRole, Changes
<1>11. Demotes(r) \/ new = "OWNER" \/ role[User(r)] = None
  BY <1>4, <1>6 DEF Demotes
<1>12. /\ \A q \in Reqs \ {r} : RequestInv(q)'
       /\ Raced => Raced'
  <2>1. ASSUME NEW q \in Reqs \ {r} PROVE RequestInv(q)' /\ (Raced => Raced')
    BY <1>3, <1>4, <1>5, <1>8, <1>9, <1>11, Others
  <2>2. Raced => \E q \in Reqs : q # r
    BY <1>3 DEF Raced
  <2> QED
    BY <2>1, <2>2
<1>13. pc'[r] = "committed" /\ beside'[r] = beside[r]
  BY <1>2, <1>5 DEF TellOthers
<1>14. RacedBy(r) => RacedBy(r)'
  BY <1>5, <1>13 DEF RacedBy, Demotes, Changes, Kind, User, NewRole
<1>15. RacedBySameUser(r) => RacedBySameUser(r)'
  BY <1>5, <1>13 DEF RacedBySameUser, User
<1>16. Demotes(r) /\ RacedBy(r) => Raced'
  BY <1>10, <1>13, <1>14 DEF Raced, Committed
<1>17. RequestInv(r)'
  <2>1. WasHolds(r)'
    BY <1>1, <1>3, <1>5, <1>6, <1>7, <1>10, <1>15 DEF RequestInv, BeforeHolds, WasHolds, Changes
  <2> QED
    BY <1>13, <2>1
    DEF RequestInv, StagesFit, HoldsBack, CheckHolds, HandOverHolds, BeforeHolds, InWindow
<1>18. \A u \in Users : role'[u] # role[u] => u = User(r)
  BY <1>2, <1>4
<1>19. OwnerlessTakesARace'
  <2> SUFFICES ASSUME ~Raced' PROVE Owners' # {}
    BY DEF OwnerlessTakesARace
  <2>1. CASE Demotes(r)
    <3>1. Commit(r)
      BY <1>4, <1>7, <2>1 DEF Demotes, Changes
    <3>2. Candidates(r) # {}
      BY <1>1, <1>3, <1>6, <1>12, <1>16, <2>1, <3>1 DEF RequestInv, CheckHolds
    <3> QED
      BY <1>18, <3>2 DEF Candidates, Owners
  <2>2. CASE new = "OWNER"
    BY <1>2, <1>3, <1>4, <2>2 DEF Owners
  <2>3. CASE role[User(r)] = None
    <3>1. Owners # {}
      BY <1>3, <1>12 DEF IInv, OwnerlessTakesARace
    <3> QED
      BY <1>18, <2>3, <3>1, NoneAssumption, Named, <1>1 DEF Owners, TypeOK
  <2> QED
    BY <1>11, <2>1, <2>2, <2>3
<1>20. OwnerIdStaleTakesARace'
  <2> SUFFICES ASSUME ~Raced' PROVE role'[ownerId'] = "OWNER"
    BY DEF OwnerIdStaleTakesARace
  <2>1. role[ownerId] = "OWNER" /\ ownerId \in Users
    BY <1>2, <1>3, <1>12 DEF IInv, OwnerIdStaleTakesARace, HasBoard
  <2>2. CASE ownerId' # ownerId
    <3>1. Commit(r) /\ successor[r] # None
      BY <1>4, <1>6, <1>7, <2>2
    <3>2. role[successor[r]] = "OWNER"
      BY <1>1, <1>6, <1>8, <1>12, <1>16, <2>2, <3>1 DEF RequestInv, HandOverHolds
    <3> QED
      BY <1>8, <1>9, <1>18, <2>2, <3>2
  <2>3. CASE ownerId' = ownerId
    <3>1. CASE ownerId # User(r)
      BY <1>18, <2>1, <2>3, <3>1
    <3>2. CASE ownerId = User(r)
      <4>1. role[User(r)] # None
        BY <1>1, <2>1, <3>2, Named, NoneAssumption DEF TypeOK
      <4>2. ~Demotes(r)
        <5> SUFFICES ASSUME Demotes(r) PROVE FALSE
          OBVIOUS
        <5>1. Commit(r)
          BY <1>4, <4>1
        <5>2. successor[r] = None
          BY <1>1, <1>6, <2>3, <3>2, <5>1 DEF RequestInv, StagesFit
        <5> QED
          BY <1>1, <1>6, <1>12, <1>16, <3>2, <5>1, <5>2 DEF RequestInv, HandOverHolds
      <4> QED
        BY <1>2, <1>3, <1>4, <1>11, <2>3, <3>2, <4>1, <4>2
    <3> QED
      BY <3>1, <3>2
  <2> QED
    BY <2>2, <2>3
<1>21. AuditTellsWhatChanged'
  <2>1. \A p \in Reqs : RacedBySameUser(p) => RacedBySameUser(p)'
    BY <1>2, <1>5 DEF RacedBySameUser, TellOthers, User
  <2> QED
    BY <1>2, <1>5, <2>1 DEF IInv, AuditTellsWhatChanged, RacedBySameUser, Entries, Changes, Kind
<1>22. TypeOK'
  <2>1. /\ role' \in [Users -> Roles \cup {None}] /\ was' \in [Reqs -> Roles \cup {None}]
        /\ senior' \subseteq Users \X Users /\ beside' \in [Reqs -> SUBSET Reqs]
    BY <1>2, <1>3, <1>4, <1>5 DEF InsertMember, Commit, TellOthers
  <2> QED
    BY <1>1, <1>5, <1>9, <2>1 DEF TypeOK
<1>23. NoGhostMembers'
  BY <1>3, <1>9 DEF NoGhostMembers
<1> QED
  BY <1>12, <1>17, <1>19, <1>20, <1>21, <1>22, <1>23 DEF IInv

LEMMA RemoveBoardStep ==
  ASSUME IInv, NEW r \in Reqs, RemoveBoard(r)
  PROVE  IInv'
<1>1. TypeOK /\ \A q \in Reqs : RequestInv(q)
  BY DEF IInv
<1>2. /\ role' = [u \in Users |-> None] /\ ownerId' = None /\ senior' = {}
      /\ pc[r] = "deleting" /\ pc' = [pc EXCEPT ![r] = "committed"]
      /\ UNCHANGED <<body, before, successor, reply, log, wire, was, beside>>
  BY DEF RemoveBoard, Goto, found, sent, ghosts
<1>3. TypeOK'
  BY <1>1, <1>2 DEF TypeOK, Stages
<1>4. ~HasBoard'
  BY <1>2 DEF HasBoard
<1>5. ASSUME NEW q \in Reqs PROVE RequestInv(q)'
  <2>1. pc \in [Reqs -> Stages]
    BY <1>1 DEF TypeOK
  <2>2. pc[q] \notin {"syncing", "electing", "handing", "committing"}
    <3> SUFFICES ASSUME pc[q] \in {"syncing", "electing", "handing", "committing"} PROVE FALSE
      OBVIOUS
    <3>1. q # r /\ InWindow(q)
      BY <1>2 DEF InWindow
    <3>2. User(q) \in Users
      BY <1>1, <3>1, Named DEF RequestInv, StagesFit, TypeOK
    <3> QED
      BY <3>1, <3>2 DEF RemoveBoard, MemberLocked, HoldsMember
  <2>3. /\ Kind(q)' = Kind(q) /\ User(q)' = User(q) /\ Changes(q)' = Changes(q)
        /\ Demotes(q)' = Demotes(q) /\ RacedBySameUser(q)' = RacedBySameUser(q)
    BY <1>2 DEF Kind, User, Changes, Demotes, NewRole, RacedBySameUser
  <2>4. CASE q = r
    <3>1. ~Changes(r)
      BY <1>1, <1>2 DEF RequestInv, StagesFit
    <3> QED
      BY <1>2, <1>4, <2>1, <2>3, <2>4, <3>1
      DEF RequestInv, StagesFit, HoldsBack, CheckHolds, HandOverHolds, BeforeHolds, WasHolds,
          InWindow
  <2>5. CASE q # r
    <3>1. pc'[q] = pc[q]
      BY <1>2, <2>1, <2>5
    <3> QED
      BY <1>1, <1>2, <1>4, <2>2, <2>3, <3>1
      DEF RequestInv, StagesFit, HoldsBack, CheckHolds, HandOverHolds, BeforeHolds, WasHolds,
          InWindow
  <2> QED
    BY <2>4, <2>5
<1>6. NoGhostMembers' /\ OwnerlessTakesARace' /\ OwnerIdStaleTakesARace'
  BY <1>2, <1>4 DEF NoGhostMembers, OwnerlessTakesARace, OwnerIdStaleTakesARace
<1>7. AuditTellsWhatChanged'
  BY <1>2 DEF IInv, AuditTellsWhatChanged, Changes, Kind, User
<1> QED
  BY <1>3, <1>5, <1>6, <1>7 DEF IInv

LEMMA NextIInv == IInv /\ [Next]_vars => IInv'
<1> SUFFICES ASSUME IInv, [Next]_vars PROVE IInv'
  OBVIOUS
<1>1. ASSUME UNCHANGED vars PROVE IInv'
  BY <1>1
  DEF vars, IInv, TypeOK, RequestInv, StagesFit, HoldsBack, CheckHolds, HandOverHolds, BeforeHolds,
      WasHolds, NoGhostMembers, OwnerlessTakesARace, OwnerIdStaleTakesARace,
      AuditTellsWhatChanged, Raced, RacedBy, RacedBySameUser, Committed, Candidates, Owners,
      HasBoard, InWindow, Demotes, Changes, NewRole, Kind, User
<1>2. ASSUME NEW r \in Reqs, Authorize(r) \/ Handle(r) PROVE IInv'
  BY <1>2, QuietActions, MembersStep, RemoveBoardStep DEF Handle
<1> QED
  BY <1>1, <1>2 DEF Next, Idle

LEMMA Invariant == Spec => []IInv
BY InitIInv, NextIInv, PTL DEF Spec

\* The membership keeps its type: every row has a role and belongs to a registered user.
THEOREM TypeCorrect == Spec => []TypeOK
<1>1. IInv => TypeOK
  BY DEF IInv
<1> QED
  BY <1>1, Invariant, PTL

\* However many members and requests there are, a board is left without an owner only
\* when two demotions or removals of different members overlap
\* (assertLastOwnerSafe, boards.service.ts 413-437).
THEOREM LastOwnerIsSafeAlone == Spec => []OwnerlessTakesARace
<1>1. IInv => OwnerlessTakesARace
  BY DEF IInv
<1> QED
  BY <1>1, Invariant, PTL

\* Board.ownerId names an OWNER unless such an overlap has occurred (syncBoardOwner,
\* boards.service.ts 372-402).
THEOREM OwnerIdIsHonestAlone == Spec => []OwnerIdStaleTakesARace
<1>1. IInv => OwnerIdStaleTakesARace
  BY DEF IInv
<1> QED
  BY <1>1, Invariant, PTL

\* An audit entry's `from' is the role its change replaced, unless another change of
\* the same member was committed in between (boards.service.ts 408-411).
THEOREM AuditIsRightAlone == Spec => []AuditTellsWhatChanged
<1>1. IInv => AuditTellsWhatChanged
  BY DEF IInv
<1> QED
  BY <1>1, Invariant, PTL

\* No member row outlives the board, whenever an invitation is inserted
\* (schema.prisma 61-72).
THEOREM NoMembersWithoutBoard == Spec => []NoGhostMembers
<1>1. IInv => NoGhostMembers
  BY DEF IInv
<1> QED
  BY <1>1, Invariant, PTL
-----------------------------------------------------------------------------
(* Two more, whose invariants need little of IInv. *)

\* What has been announced is over and was accepted.
WireHolds ==
  \A i \in 1 .. Len(wire) :
    /\ pc[wire[i]] = "done" /\ reply[wire[i]] = "ok"
    /\ \A j \in 1 .. Len(wire) : wire[j] = wire[i] => j = i

LEMMA NextWireHolds == IInv /\ WireHolds /\ [Next]_vars => WireHolds'
<1> SUFFICES ASSUME IInv, WireHolds, [Next]_vars PROVE WireHolds'
  OBVIOUS
<1>1. /\ pc \in [Reqs -> Stages] /\ wire \in Seq(Reqs)
      /\ DOMAIN reply = Reqs
  BY DEF IInv, TypeOK
<1>2. ASSUME NEW r \in Reqs, pc[r] # "done", wire' = wire,
             \A q \in Reqs \ {r} : pc'[q] = pc[q] /\ reply'[q] = reply[q]
      PROVE  WireHolds'
  BY <1>1, <1>2 DEF WireHolds
<1>3. ASSUME NEW r \in Reqs, Authorize(r) \/ Handle(r), ~Announce(r) PROVE WireHolds'
  <2>1. /\ pc[r] # "done" /\ wire' = wire
        /\ \A q \in Reqs \ {r} : pc'[q] = pc[q] /\ reply'[q] = reply[q]
    <3> USE <1>1 DEF Goto, Reply, sent, found, store, ghosts
    <3>1. CASE Authorize(r) \/ FindUser(r) \/ InsertMember(r) \/ InsertFails(r)
      BY <3>1 DEF Authorize, FindUser, InsertMember, InsertFails, Inserting
    <3>2. CASE ReadTarget(r) \/ CountOwners(r) \/ WriteMember(r) \/ WriteMemberFails(r)
      BY <3>2 DEF ReadTarget, CountOwners, WriteMember, WriteMemberFails
    <3>3. CASE ReadOwner(r) \/ ElectSuccessor(r) \/ HandOver(r) \/ Commit(r)
      BY <3>3 DEF ReadOwner, ElectSuccessor, HandOver, Commit
    <3>4. CASE RenameBoard(r) \/ LockBoard(r) \/ RemoveBoard(r) \/ DeadlockVictim(r) \/ Audit(r)
      BY <3>4 DEF RenameBoard, LockBoard, RemoveBoard, DeadlockVictim, InDeadlock, Audit
    <3> QED
      BY <1>3, <3>1, <3>2, <3>3, <3>4 DEF Handle
  <2> QED
    BY <1>2, <2>1
<1>4. ASSUME NEW r \in Reqs, Announce(r) PROVE WireHolds'
  <2>1. /\ pc[r] = "audited" /\ pc' = [pc EXCEPT ![r] = "done"]
        /\ reply' = [reply EXCEPT ![r] = "ok"] /\ wire' = Append(wire, r)
    BY <1>4 DEF Announce, Reply, Goto
  <2>2. \A i \in 1 .. Len(wire) : wire[i] # r /\ wire[i] \in Reqs
    BY <1>1, <2>1 DEF WireHolds
  <2>3. /\ Len(wire') = Len(wire) + 1 /\ Len(wire) \in Nat /\ wire'[Len(wire) + 1] = r
        /\ \A i \in 1 .. Len(wire) : wire'[i] = wire[i]
    BY <1>1, <2>1
  <2>4. \A i \in 1 .. Len(wire') : i \in 1 .. Len(wire) \/ i = Len(wire) + 1
    BY <2>3
  <2>5. /\ pc'[r] = "done" /\ reply'[r] = "ok"
        /\ \A q \in Reqs \ {r} : pc'[q] = pc[q] /\ reply'[q] = reply[q]
    BY <1>1, <2>1
  <2> QED
    BY <2>2, <2>3, <2>4, <2>5 DEF WireHolds
<1>5. ASSUME UNCHANGED vars PROVE WireHolds'
  BY <1>5 DEF vars, WireHolds
<1> QED
  BY <1>3, <1>4, <1>5 DEF Next, Idle

\* An event is sent after its commit and once, whichever transactions fail meanwhile
\* (boards.service.ts 302-311).
THEOREM ChangesAnnouncedOnce == Spec => []AnnouncedOnceCommitted
<1>1. Init => WireHolds
  BY DEF Init, WireHolds
<1>2. WireHolds => AnnouncedOnceCommitted
  BY DEF WireHolds, AnnouncedOnceCommitted, Committed
<1> QED
  BY <1>1, <1>2, Invariant, NextWireHolds, PTL DEF Spec

\* A transaction that has written a member's row has it to itself.
RowsAreHeld ==
  \A r \in Reqs, u \in Users :
    HoldsMember(r, u) => role[u] # None /\ ~MemberLocked(r, u)

LEMMA NextRowsAreHeld == IInv /\ RowsAreHeld /\ [Next]_vars => RowsAreHeld'
<1> SUFFICES ASSUME IInv, RowsAreHeld, [Next]_vars PROVE RowsAreHeld'
  OBVIOUS
<1>1. /\ pc \in [Reqs -> Stages] /\ role \in [Users -> Roles \cup {None}]
      /\ \A r \in Reqs : InWindow(r) => Changes(r) /\ User(r) \in Users
  BY Named DEF IInv, TypeOK, RequestInv, StagesFit
<1>2. body' = body
  BY DEF Next, Authorize, Handle, FindUser, InsertMember, InsertFails, ReadTarget, CountOwners,
         WriteMember, WriteMemberFails, ReadOwner, ElectSuccessor, HandOver, Commit, RenameBoard,
         LockBoard, RemoveBoard, DeadlockVictim, Audit, Announce, Idle, vars
\* A row that stays, and whose holder does not change.
<1>3. ASSUME \A u \in Users : role[u] # None => role'[u] # None \/ \A q \in Reqs : ~HoldsMember(q, u)',
             \A q \in Reqs, u \in Users : HoldsMember(q, u)' => HoldsMember(q, u)
      PROVE  RowsAreHeld'
  BY <1>3 DEF RowsAreHeld, MemberLocked
<1>4. ASSUME NEW r \in Reqs, WriteMember(r) PROVE RowsAreHeld'
  <2>1. /\ pc[r] = "writing" /\ pc' = [pc EXCEPT ![r] = "syncing"] /\ role' = role
        /\ ~MemberLocked(r, User(r)) /\ role[User(r)] # None
    BY <1>4 DEF WriteMember, Goto, store
  <2>2. \A q \in Reqs \ {r} : \A u : HoldsMember(q, u)' <=> HoldsMember(q, u)
    BY <1>1, <1>2, <2>1 DEF HoldsMember, User
  <2>3. \A u : HoldsMember(r, u)' => u = User(r)
    BY <1>2 DEF HoldsMember, User
  <2> QED
    BY <2>1, <2>2, <2>3 DEF RowsAreHeld, MemberLocked
<1>5. ASSUME NEW r \in Reqs, Commit(r) PROVE RowsAreHeld'
  <2>1. /\ pc[r] = "committing" /\ pc' = [pc EXCEPT ![r] = "committed"]
        /\ role' = [role EXCEPT ![User(r)] = NewRole(r)]
    BY <1>5 DEF Commit, Goto
  <2>2. User(r) \in Users /\ HoldsMember(r, User(r))
    BY <1>1, <2>1 DEF InWindow, HoldsMember
  <2>3. \A q \in Reqs : \A u : HoldsMember(q, u)' => HoldsMember(q, u) /\ q # r
    BY <1>1, <1>2, <2>1 DEF HoldsMember, User
  <2>4. \A q \in Reqs : \A u : u = User(r) => ~HoldsMember(q, u)'
    BY <2>2, <2>3 DEF RowsAreHeld, MemberLocked
  <2> QED
    BY <1>1, <1>3, <2>1, <2>3, <2>4
<1>6. ASSUME NEW r \in Reqs, RemoveBoard(r) PROVE RowsAreHeld'
  <2>1. /\ pc[r] = "deleting" /\ pc' = [pc EXCEPT ![r] = "committed"]
        /\ \A u \in Users : ~MemberLocked(r, u)
    BY <1>6 DEF RemoveBoard, Goto
  <2>2. \A q \in Reqs, u \in Users : ~HoldsMember(q, u)'
    BY <1>1, <1>2, <2>1 DEF HoldsMember, MemberLocked, User
  <2> QED
    BY <2>2 DEF RowsAreHeld
<1>7. ASSUME NEW r \in Reqs, InsertMember(r) PROVE RowsAreHeld'
  <2>1. /\ pc[r] = "inserting" /\ pc' = [pc EXCEPT ![r] = "committed"] /\ role[User(r)] = None
        /\ role' = [role EXCEPT ![User(r)] = body[r].role]
    BY <1>7 DEF InsertMember, Inserting, Goto
  <2>2. \A q \in Reqs : \A u : HoldsMember(q, u)' => HoldsMember(q, u)
    BY <1>1, <1>2, <2>1 DEF HoldsMember, User
  <2>3. \A u \in Users : role[u] # None => role'[u] = role[u]
    BY <1>1, <2>1
  <2> QED
    BY <1>3, <2>2, <2>3
<1>8. ASSUME NEW r \in Reqs, role' = role, NEW stage, pc' = [pc EXCEPT ![r] = stage],
             stage \in {"electing", "handing", "committing"} => InWindow(r) /\ pc[r] \notin {"counting", "writing"},
             stage # "syncing"
      PROVE  RowsAreHeld'
  <2>1. \A q \in Reqs : \A u : HoldsMember(q, u)' => HoldsMember(q, u)
    BY <1>1, <1>2, <1>8 DEF HoldsMember, User, InWindow
  <2> QED
    BY <1>3, <1>8, <2>1
<1>9. ASSUME NEW r \in Reqs, Authorize(r) \/ Handle(r),
             ~WriteMember(r), ~Commit(r), ~RemoveBoard(r), ~InsertMember(r)
      PROVE  RowsAreHeld'
  <2> USE DEF Goto, Reply, store
  <2>1. CASE Authorize(r) \/ FindUser(r) \/ InsertFails(r) \/ ReadTarget(r) \/ CountOwners(r)
    BY <1>8, <2>1 DEF Authorize, FindUser, InsertFails, ReadTarget, CountOwners
  <2>2. CASE WriteMemberFails(r) \/ RenameBoard(r) \/ LockBoard(r) \/ DeadlockVictim(r)
    BY <1>8, <2>2 DEF WriteMemberFails, RenameBoard, LockBoard, DeadlockVictim
  <2>3. CASE Audit(r) \/ Announce(r)
    BY <1>8, <2>3 DEF Audit, Announce
  <2>4. CASE ReadOwner(r) \/ ElectSuccessor(r) \/ HandOver(r)
    BY <1>8, <2>4 DEF ReadOwner, ElectSuccessor, HandOver, InWindow
  <2> QED
    BY <1>9, <2>1, <2>2, <2>3, <2>4 DEF Handle
<1>10. ASSUME UNCHANGED vars PROVE RowsAreHeld'
  BY <1>10 DEF vars, RowsAreHeld, HoldsMember, MemberLocked, User
<1> QED
  BY <1>4, <1>5, <1>6, <1>7, <1>9, <1>10 DEF Next, Idle

\* Only an invitation gives a user a row: a role change that read the row before a removal
\* cannot write it after (boards.service.ts 279-286).
THEOREM OnlyInvitationsAdmit == Spec => RemovedStaysOut
<1> DEFINE Admitted(u) ==
      \E r \in Reqs : /\ Kind(r) = "add" /\ User(r) = u
                      /\ pc[r] = "inserting" /\ pc'[r] = "committed"
<1>1. ASSUME IInv, RowsAreHeld, [Next]_vars,
             NEW u \in Users, role[u] = None, role'[u] # None
      PROVE  Admitted(u)
  <2>1. /\ pc \in [Reqs -> Stages] /\ role \in [Users -> Roles \cup {None}]
        /\ \A r \in Reqs : /\ InWindow(r) => Changes(r) /\ User(r) \in Users
                           /\ pc[r] = "inserting" => Kind(r) = "add"
    BY <1>1, Named DEF IInv, TypeOK, RequestInv, StagesFit
  <2>2. ASSUME NEW r \in Reqs, Commit(r) PROVE FALSE
    <3>1. HoldsMember(r, User(r)) /\ User(r) \in Users
      BY <2>1, <2>2 DEF Commit, HoldsMember, InWindow
    <3> QED
      BY <1>1, <2>1, <2>2, <3>1 DEF Commit, RowsAreHeld
  <2>3. ASSUME NEW r \in Reqs, RemoveBoard(r) PROVE FALSE
    BY <1>1, <2>3 DEF RemoveBoard
  <2>4. ASSUME NEW r \in Reqs, InsertMember(r) PROVE Admitted(u)
    BY <1>1, <2>1, <2>4 DEF InsertMember, Inserting, Goto
  <2>5. \/ role' = role
        \/ \E r \in Reqs : Commit(r) \/ RemoveBoard(r) \/ InsertMember(r)
    BY <1>1 DEF Next, Authorize, Handle, FindUser, InsertFails, ReadTarget, CountOwners,
           WriteMember, WriteMemberFails, ReadOwner, ElectSuccessor, HandOver, RenameBoard,
           LockBoard, DeadlockVictim, Audit, Announce, Idle, vars, store
  <2> QED
    BY <1>1, <2>2, <2>3, <2>4, <2>5
<1>2. IInv /\ RowsAreHeld /\ [Next]_vars =>
        [\A u \in Users :
           role[u] = None /\ role'[u] # None =>
             \E r \in Reqs : Kind(r) = "add" /\ User(r) = u
                               /\ pc[r] = "inserting" /\ pc'[r] = "committed"]_vars
  BY <1>1
<1>3. Init => RowsAreHeld
  BY DEF Init, RowsAreHeld, HoldsMember
<1> QED
  BY <1>2, <1>3, Invariant, NextRowsAreHeld, PTL DEF Spec, RemovedStaysOut
=============================================================================
