--------------------------- MODULE MCBoardMembers ---------------------------
(***************************************************************************)
(* Instances of BoardMembers: three registered users, two boards and       *)
(* three requests, of alice, bob and carol or alice.                       *)
(***************************************************************************)
EXTENDS BoardMembers, TLC

CONSTANTS alice, bob, carol, r1, r2, r3

MCUsers == {alice, bob, carol}

Members(a, b, c) == (alice :> a) @@ (bob :> b) @@ (carol :> c)

\* Alice has created each board and then invited bob before carol.
MCBoards ==
  {[role    |-> Members("OWNER", "OWNER", "OWNER"),
    ownerId |-> alice,
    senior  |-> {<<alice, bob>>, <<alice, carol>>, <<bob, carol>>}],
   [role    |-> Members("OWNER", "EDITOR", None),
    ownerId |-> alice,
    senior  |-> {<<alice, bob>>}]}

Ask(kind, actor, user, newRole) ==
  [kind |-> kind, actor |-> actor, user |-> user, role |-> newRole]

Promote(actor, user) == Ask("update", actor, user, "OWNER")
Demote(actor, user) == Ask("update", actor, user, "EDITOR")
Remove(actor, user) == Ask("remove", actor, user, None)
Invite(actor, user) == Ask("add", actor, user, "VIEWER")
RemoveTheBoard(actor) == Ask("removeBoard", actor, None, None)

\* Two changes by alice and bob, and a request that gets in their way; and the
\* requests that can meet the removal of the board.
MCWorkloads ==
  {(r1 :> x) @@ (r2 :> y) @@ (r3 :> z) :
     x \in {Demote(alice, bob), Remove(alice, bob), Remove(alice, alice)},
     y \in {Demote(bob, alice), Remove(bob, bob)},
     z \in {Promote(alice, bob), Demote(alice, bob), Remove(carol, alice),
            Invite(alice, bob), RemoveTheBoard(alice)}}
  \cup
  {(r1 :> x) @@ (r2 :> y) @@ (r3 :> RemoveTheBoard(alice)) :
     x \in {RemoveTheBoard(alice), Invite(alice, carol), Invite(alice, None)},
     y \in {Ask("rename", bob, None, None), Demote(bob, carol)}}

\* Alice and bob own the board, and each demotes the other one.
MutualDemotion ==
  {(r1 :> Demote(alice, bob)) @@ (r2 :> Demote(bob, alice)) @@ (r3 :> Remove(alice, carol))}

\* Alice leaves while bob, who is next in line, steps down.
HandOverWorkload ==
  {(r1 :> Remove(alice, alice)) @@ (r2 :> Demote(bob, bob)) @@ (r3 :> Invite(carol, alice))}
=============================================================================
