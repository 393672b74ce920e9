-------------------------- MODULE MCRefreshSession --------------------------
(***************************************************************************)
(* Instances of RefreshSession: a browser with two tabs and one with a     *)
(* single tab, and three calls.                                            *)
(***************************************************************************)
EXTENDS RefreshSession, TLC

CONSTANTS b1, b2, t1, t2, t3, c1, c2, c3, p1, p2

MCBrowserOf == (t1 :> b1) @@ (t2 :> b1) @@ (t3 :> b2)

\* Both browsers are signed in, and their access tokens have expired.
MCJars == {(b1 :> [at |-> None, rt |-> p1]) @@ (b2 :> [at |-> None, rt |-> p2])}

Call(kind, tab) == [kind |-> kind, tab |-> tab]

Three(x, y, z) == (c1 :> x) @@ (c2 :> y) @@ (c3 :> z)

\* A call whose access token has expired, with: another call of its tab and one of
\* the other tab; one of the other tab and one of the other browser.
MCWorkloads ==
  {Three(Call("query", t1), y, Call("query", t2)) :
     y \in {Call("query", t1), Call("logout", t1), Call("me", t1)}}
  \cup
  {Three(Call("query", t1), y, z) :
     y \in {Call("login", t2), Call("wrongLogin", t2)},
     z \in {Call("logout", t3), Call("query", t3)}}

\* The first browser signs out while the other one is away.
SignOutWorkload ==
  {Three(Call("logout", t1), Call("login", t1), Call("query", t3))}
=============================================================================
