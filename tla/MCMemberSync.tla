---------------------------- MODULE MCMemberSync ----------------------------
(* A user at the page and another one, and what one or both of them, or somebody *)
(* else, do to the membership of the board.                                      *)
EXTENDS MemberSync, TLC

CONSTANTS I, you, one, two, three

Of(mine, yours) == (I :> mine) @@ (you :> yours)

By(mine, kind, user, new) == [mine |-> mine, kind |-> kind, user |-> user, role |-> new]
Change(user, new) == By(FALSE, "update", user, new)
Remove(user) == By(FALSE, "remove", user, None)
Invite(user, new) == By(FALSE, "add", user, new)
RemoveBoard == By(FALSE, "delete", None, None)
\* A request that is refused as long as I am a member.
Nothing == By(FALSE, "add", I, "VIEWER")
Content == By(FALSE, "content", None, None)
Own(change) == [change EXCEPT !.mine = TRUE]

Workload(open, rows, x, y, z, n) ==
  [role |-> rows, changes |-> (one :> x) @@ (two :> y) @@ (three :> z), faults |-> n, live |-> open]

MCWorkloads ==
  { Workload(TRUE, Of("EDITOR", None), Change(I, "VIEWER"), Change(I, "EDITOR"), Nothing, 1),
    Workload(TRUE, Of("EDITOR", None), Remove(I), Invite(I, "VIEWER"), Content, 1),
    Workload(TRUE, Of("OWNER", "EDITOR"), Own(Change(you, "VIEWER")), Remove(you), Invite(you, "EDITOR"), 1),
    Workload(TRUE, Of("OWNER", None), Own(Invite(you, "EDITOR")), Own(Remove(you)), Change(I, "EDITOR"), 1),
    Workload(TRUE, Of("EDITOR", "VIEWER"), Change(you, "EDITOR"), Content, Nothing, 2),
    Workload(TRUE, Of("EDITOR", "VIEWER"), Change(I, "VIEWER"), RemoveBoard, Remove(you), 1),
    Workload(FALSE, Of(None, "OWNER"), Invite(I, "VIEWER"), Change(I, "EDITOR"), Nothing, 0),
    Workload(FALSE, Of("EDITOR", "VIEWER"), Change(you, "EDITOR"), Nothing, Nothing, 1),
    Workload(FALSE, Of("EDITOR", None), Change(I, "VIEWER"), Nothing, Nothing, 1) }
=============================================================================
