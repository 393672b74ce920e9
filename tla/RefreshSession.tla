--------------------------- MODULE RefreshSession ---------------------------
(***************************************************************************)
(* One user's sessions: login, refresh with rotation and reuse detection,  *)
(* and logout (auth/auth.service.ts), and the fetch wrapper that refreshes *)
(* once after a 401 and retries (lib/api.ts), in several tabs of several   *)
(* browsers.  The tabs of a browser share its cookies; each tab has a      *)
(* refreshInFlight of its own, because that is a variable of its page.     *)
(*                                                                         *)
(* A handler awaits the database between its steps, answers arrive in any  *)
(* order, and a connection may break at any time: the client then takes    *)
(* the call for failed while the server finishes it.  The network and the  *)
(* browser's cookies are external.                                         *)
(*                                                                         *)
(* A session's two tokens are named by the call that obtained them: a      *)
(* login, or the call whose 401 started the refresh.                       *)
(***************************************************************************)
EXTENDS FiniteSets

CONSTANTS Browsers, Tabs, Calls,
          Past,          \* tokens that were issued earlier
          None,          \* no token
          BrowserOf,     \* the browser of each tab
          Workloads,     \* the assignments of a kind and a tab to each call
          InitialJars,   \* the cookies of earlier sessions; mk_at goes when it expires
          Fragile,       \* bound: the calls whose connection may break
          Aging,         \* bound: access tokens that expire in the time modelled
          Lapsing        \* bound: refresh tokens that do

Tokens == Calls \cup Past

\* query stands for every authenticated route, me for the one with skipAuthRetry.
Bodies == [kind : {"login", "wrongLogin", "query", "me", "logout"}, tab : Tabs]

\* mk_at and mk_rt.  mk_sess is set, cleared and expires with mk_rt.
Jars == [at : Tokens \cup {None}, rt : Tokens \cup {None}]

ASSUME NoneAssumption == None \notin Tokens
ASSUME PastAssumption == Past \cap Calls = {}
ASSUME TabAssumption == BrowserOf \in [Tabs -> Browsers]
ASSUME WorkloadAssumption == Workloads \subseteq [Calls -> Bodies]

\* A token is in one browser's cookies, and a call's token in none before the call.
ASSUME JarAssumption ==
  \A jars \in InitialJars :
    /\ jars \in [Browsers -> [at : Past \cup {None}, rt : Past \cup {None}]]
    /\ \A a, b \in Browsers : jars[a].rt = jars[b].rt => a = b \/ jars[a].rt = None

VARIABLES
  jar,              \* the cookies of each browser
  stale,            \* the access tokens that have expired
  expired,          \* the refresh tokens that have expired
  row,              \* RefreshToken rows: none, live or revoked (revokedAt)
  replacedBy,       \* replacedByTokenId
  body,             \* what each call asks for, and from which tab
  pc,               \* where each call stands in api()
  carries,          \* the access token a call was sent with
  refreshInFlight,  \* per tab, the call whose refresh the tab awaits
  presented,        \* the refresh token that a call's refresh was sent with
  stage,            \* where the server stands with a login, logout or refresh
  cut,              \* those whose connection broke before their answer
  incidents,        \* the refreshes that were audited as REFRESH_TOKEN_REUSE
  root,             \* the login that a token goes back to (no code)
  forked,           \* logins of which a token was rotated twice (no code)
  ended,            \* logins whose tokens have all been revoked (no code)
  overtaken,        \* those with a rotation under way at that time (no code)
  purged            \* the tokens that were revoked without rotation (no code)

cookies == <<jar, stale, expired>>
rows == <<row, replacedBy>>
client == <<pc, carries, refreshInFlight, presented>>
server == <<stage, cut, incidents>>
ghosts == <<root, forked, ended, overtaken, purged>>
vars == <<cookies, rows, body, client, server, ghosts>>
-----------------------------------------------------------------------------
Kind(c) == body[c].kind
Tab(c) == body[c].tab
Browser(c) == BrowserOf[Tab(c)]

Init ==
  /\ jar \in InitialJars
  /\ stale = Past \ {jar[b].at : b \in Browsers}
  /\ expired = {}
  /\ row = [t \in Tokens |-> IF t \in Past THEN "live" ELSE "none"]
  /\ replacedBy = [t \in Tokens |-> None]
  /\ body \in Workloads
  /\ pc = [c \in Calls |-> "idle"]
  /\ carries = [c \in Calls |-> None]
  /\ refreshInFlight = [t \in Tabs |-> None]
  /\ presented = [c \in Calls |-> None]
  /\ stage = [c \in Calls |-> "none"]
  /\ cut = {}
  /\ incidents = {}
  /\ root = [t \in Tokens |-> IF t \in Past THEN t ELSE None]
  /\ forked = {}
  /\ ended = {}
  /\ overtaken = {}
  /\ purged = {}

Live == {t \in Tokens : row[t] = "live"}
Issued == {t \in Tokens : row[t] # "none"}
Goto(c, place) == pc' = [pc EXCEPT ![c] = place]
Enter(c, place) == stage' = [stage EXCEPT ![c] = place]
-----------------------------------------------------------------------------
(* api(): send, and on a 401 refresh once and send again.                   *)

Sent(c) == pc[c] \in {"sent", "resent"}

\* JwtAuthGuard; login is public and refuses a wrong password with the same 401.
Accepted(c) ==
  \/ Kind(c) = "login"
  \/ Kind(c) \in {"query", "me", "logout"} /\ carries[c] \notin stale \cup {None}

Send(c) ==
  /\ pc[c] = "idle"
  /\ Goto(c, "sent")
  /\ carries' = [carries EXCEPT ![c] = jar[Browser(c)].at]
  /\ UNCHANGED <<cookies, rows, body, refreshInFlight, presented, server, ghosts>>

Answer(c) ==
  /\ Sent(c)
  /\ Accepted(c)
  /\ Kind(c) \in {"query", "me"}
  /\ Goto(c, "ok")
  /\ UNCHANGED <<cookies, rows, body, carries, refreshInFlight, presented, server, ghosts>>

\* The request or its answer is lost, and fetch rejects.
Lose(c) ==
  /\ c \in Fragile
  /\ Sent(c)
  /\ Goto(c, "failed")
  /\ UNCHANGED <<cookies, rows, body, carries, refreshInFlight, presented, server, ghosts>>

\* redirectToLogin, which the callers with skipAuthRetry do without.
GaveUp(c) == IF Kind(c) = "me" THEN "refused" ELSE "signedOut"

\* skipAuthRetry callers need hasSessionHint().
MayRefresh(c) == pc[c] = "sent" /\ (Kind(c) = "me" => jar[Browser(c)].rt # None)

\* Mutation: each caller starts a refresh of its own.
RefreshEach(c) ==
  /\ refreshInFlight' = [refreshInFlight EXCEPT ![Tab(c)] = c]
  /\ presented' = [presented EXCEPT ![c] = jar[Browser(c)].rt]
  /\ Enter(c, "finding")

\* The first caller starts the refresh, the others await its promise.
RefreshOnce(c) ==
  \/ /\ refreshInFlight[Tab(c)] = None
     /\ refreshInFlight' = [refreshInFlight EXCEPT ![Tab(c)] = c]
     /\ presented' = [presented EXCEPT ![c] = jar[Browser(c)].rt]
     /\ Enter(c, "finding")
  \/ /\ refreshInFlight[Tab(c)] # None
     /\ UNCHANGED <<refreshInFlight, presented, stage>>

Refuse(c) ==
  /\ Sent(c)
  /\ ~Accepted(c)
  /\ \/ MayRefresh(c) /\ RefreshOnce(c) /\ Goto(c, "waiting")
     \/ ~MayRefresh(c) /\ Goto(c, GaveUp(c)) /\ UNCHANGED <<refreshInFlight, presented, stage>>
  /\ UNCHANGED <<cookies, rows, body, carries, cut, incidents, ghosts>>

\* login and logout reach their handlers.
Begin(c) ==
  /\ Sent(c)
  /\ Accepted(c)
  /\ \/ Kind(c) = "login" /\ Enter(c, "creating")
     \/ Kind(c) = "logout" /\ Enter(c, "revoking")
  /\ Goto(c, "answering")
  /\ UNCHANGED <<cookies, rows, body, carries, refreshInFlight, presented, cut, incidents, ghosts>>
-----------------------------------------------------------------------------
(* The handlers of refresh, login and logout.                               *)

Issue(c, login) ==
  /\ row' = [row EXCEPT ![c] = "live"]
  /\ root' = [root EXCEPT ![c] = login]

\* issueSession
CreateToken(c) ==
  /\ stage[c] = "creating"
  /\ Issue(c, c)
  /\ Enter(c, "granted")
  /\ UNCHANGED <<cookies, replacedBy, body, client, cut, incidents, forked, ended, overtaken, purged>>

\* Mutation: revokedAt is not looked at.
FindTokenUnchecked(c) ==
  /\ stage[c] = "finding"
  /\ \/ presented[c] = None /\ Enter(c, "denied")
     \/ /\ presented[c] # None
        /\ \/ presented[c] \in expired /\ Enter(c, "closing")
           \/ presented[c] \notin expired /\ Enter(c, "rotating")
  /\ UNCHANGED <<cookies, rows, body, client, cut, incidents, ghosts>>

\* No cookie: 401 and the cookies stay.  A revoked or expired token burns the family.
FindToken(c) ==
  /\ stage[c] = "finding"
  /\ \/ presented[c] = None /\ Enter(c, "denied")
     \/ /\ presented[c] # None
        /\ \/ row[presented[c]] = "revoked" /\ Enter(c, "burning")
           \/ row[presented[c]] = "live" /\ presented[c] \in expired /\ Enter(c, "closing")
           \/ row[presented[c]] = "live" /\ presented[c] \notin expired /\ Enter(c, "rotating")
  /\ UNCHANGED <<cookies, rows, body, client, cut, incidents, ghosts>>

\* Mutation: the new row is created, the old one left as it is.
RotateKeepsPresented(c) ==
  /\ stage[c] = "rotating"
  /\ Issue(c, root[presented[c]])
  /\ Enter(c, "granted")
  /\ UNCHANGED <<cookies, replacedBy, body, client, cut, incidents, forked, ended, overtaken, purged>>

\* The update names the row by its id, whatever has become of it since FindToken.
Rotate(c) ==
  /\ stage[c] = "rotating"
  /\ row' = [row EXCEPT ![c] = "live", ![presented[c]] = "revoked"]
  /\ replacedBy' = [replacedBy EXCEPT ![presented[c]] = c]
  /\ root' = [root EXCEPT ![c] = root[presented[c]]]
  /\ forked' = IF replacedBy[presented[c]] = None THEN forked
               ELSE forked \cup {root[presented[c]]}
  /\ Enter(c, "granted")
  /\ UNCHANGED <<cookies, body, client, cut, incidents, ended, overtaken, purged>>

Rotating == {c \in Calls : stage[c] = "rotating"}

RevokeLive ==
  /\ row' = [t \in Tokens |-> IF t \in Live THEN "revoked" ELSE row[t]]
  /\ ended' = ended \cup {root[t] : t \in Issued}
  /\ overtaken' = {root[presented[c]] : c \in Rotating}
  /\ purged' = purged \cup Live

Burn(c) ==
  /\ \/ stage[c] = "burning" /\ Enter(c, "reporting")
     \/ stage[c] = "closing" /\ Enter(c, "cleared")
  /\ RevokeLive
  /\ UNCHANGED <<cookies, replacedBy, body, client, cut, incidents, root, forked>>

\* The audit entry is written, or its failure swallowed.
Report(c) ==
  /\ stage[c] = "reporting"
  /\ incidents' = incidents \cup {c} \/ UNCHANGED incidents
  /\ Enter(c, "cleared")
  /\ UNCHANGED <<cookies, rows, body, client, cut, ghosts>>

Logout(c) ==
  /\ stage[c] = "revoking"
  /\ RevokeLive
  /\ Enter(c, "cleared")
  /\ UNCHANGED <<cookies, replacedBy, body, client, cut, incidents, root, forked>>
-----------------------------------------------------------------------------
(* The answer arrives, or the connection breaks first.                      *)

Answered(c) == stage[c] \in {"granted", "denied", "cleared"}

\* Mutation: a cleared cookie stays, with an empty value.
CookiesAfterEmptied(c) ==
  CASE stage[c] = "granted" -> [at |-> c, rt |-> c]
    [] stage[c] = "cleared" -> [at |-> "", rt |-> ""]
    [] OTHER                -> jar[Browser(c)]

\* Mutation: the answer carries the access token only.
CookiesAfterAccessOnly(c) ==
  CASE stage[c] = "granted" -> [jar[Browser(c)] EXCEPT !.at = c]
    [] stage[c] = "cleared" -> [at |-> None, rt |-> None]
    [] OTHER                -> jar[Browser(c)]

\* setAuthCookies and clearAuthCookies
CookiesAfter(c) ==
  CASE stage[c] = "granted" -> [at |-> c, rt |-> c]
    [] stage[c] = "cleared" -> [at |-> None, rt |-> None]
    [] OTHER                -> jar[Browser(c)]

Refreshing(c) == refreshInFlight[Tab(c)] = c

\* Mutation: a call whose refresh has failed starts all over.
SettleTriesAgain(c, refreshed, at) ==
  /\ refreshInFlight' = [refreshInFlight EXCEPT ![Tab(c)] = None]
  /\ LET waiting == {d \in Calls : pc[d] = "waiting" /\ Tab(d) = Tab(c)} IN
       /\ pc' = [d \in Calls |-> IF d \notin waiting THEN pc[d]
                                 ELSE IF refreshed THEN "resent" ELSE "sent"]
       /\ carries' = [d \in Calls |-> IF d \in waiting /\ refreshed THEN at ELSE carries[d]]

\* Everybody who awaits the refresh goes on: to send again, or to give up.
Settle(c, refreshed, at) ==
  /\ refreshInFlight' = [refreshInFlight EXCEPT ![Tab(c)] = None]
  /\ LET waiting == {d \in Calls : pc[d] = "waiting" /\ Tab(d) = Tab(c)} IN
       /\ pc' = [d \in Calls |-> IF d \notin waiting THEN pc[d]
                                 ELSE IF refreshed THEN "resent" ELSE GaveUp(d)]
       /\ carries' = [d \in Calls |-> IF d \in waiting /\ refreshed THEN at ELSE carries[d]]

Deliver(c) ==
  /\ Answered(c)
  /\ c \notin cut
  /\ jar' = [jar EXCEPT ![Browser(c)] = CookiesAfter(c)]
  /\ \/ Refreshing(c) /\ Settle(c, stage[c] = "granted", CookiesAfter(c).at)
     \/ ~Refreshing(c) /\ Goto(c, "ok") /\ UNCHANGED <<carries, refreshInFlight>>
  /\ Enter(c, "ended")
  /\ UNCHANGED <<stale, expired, rows, body, presented, cut, incidents, ghosts>>

Cut(c) ==
  /\ stage[c] \notin {"none", "ended"}
  /\ c \in Fragile \ cut
  /\ cut' = cut \cup {c}
  /\ \/ Refreshing(c) /\ Settle(c, FALSE, None)
     \/ ~Refreshing(c) /\ Goto(c, "failed") /\ UNCHANGED <<carries, refreshInFlight>>
  /\ UNCHANGED <<cookies, rows, body, presented, stage, incidents, ghosts>>
-----------------------------------------------------------------------------
(* Time: 15 minutes, and 7 days.  The cookie goes after its token has.      *)

ExpireAccess(t) ==
  /\ t \in (Issued \cap Aging) \ stale
  /\ stale' = stale \cup {t}
  /\ UNCHANGED <<jar, expired, rows, body, client, server, ghosts>>

ExpireSession(t) ==
  /\ t \in (Issued \cap Lapsing \cap stale) \ expired
  /\ expired' = expired \cup {t}
  /\ UNCHANGED <<jar, stale, rows, body, client, server, ghosts>>

ExpireCookie(b) ==
  /\ jar[b].rt \in expired
  /\ jar' = [jar EXCEPT ![b].rt = None]
  /\ UNCHANGED <<stale, expired, rows, body, client, server, ghosts>>
-----------------------------------------------------------------------------
Progress(c) ==
  \/ Answer(c) \/ Refuse(c) \/ Begin(c)
  \/ CreateToken(c) \/ FindToken(c) \/ Rotate(c) \/ Burn(c) \/ Report(c) \/ Logout(c)
  \/ Deliver(c)

Settled(c) == pc[c] \in {"ok", "failed", "refused", "signedOut"}

\* Every call has been answered, and nothing is left to expire.
Idle == (\A c \in Calls : Settled(c)) /\ UNCHANGED vars

Next ==
  \/ \E c \in Calls : Send(c) \/ Lose(c) \/ Cut(c) \/ Progress(c)
  \/ \E t \in Tokens : ExpireAccess(t) \/ ExpireSession(t)
  \/ \E b \in Browsers : ExpireCookie(b)
  \/ Idle

\* The server goes on with every handler, and the network delivers or breaks.
Fairness == \A c \in Calls : WF_vars(Progress(c))

Spec == Init /\ [][Next]_vars /\ Fairness
-----------------------------------------------------------------------------
Places == {"idle", "sent", "waiting", "resent", "answering",
           "ok", "failed", "refused", "signedOut"}
Stages == {"none", "creating", "finding", "rotating", "burning", "closing", "reporting",
           "revoking", "granted", "denied", "cleared", "ended"}

TypeOK ==
  /\ jar \in [Browsers -> Jars]
  /\ stale \subseteq Tokens
  /\ expired \subseteq Tokens
  /\ row \in [Tokens -> {"none", "live", "revoked"}]
  /\ replacedBy \in [Tokens -> Calls \cup {None}]
  /\ body \in Workloads
  /\ pc \in [Calls -> Places]
  /\ carries \in [Calls -> Tokens \cup {None}]
  /\ refreshInFlight \in [Tabs -> Calls \cup {None}]
  /\ presented \in [Calls -> Tokens \cup {None}]
  /\ stage \in [Calls -> Stages]
  /\ cut \subseteq Calls
  /\ incidents \subseteq Calls
  /\ root \in [Tokens -> Tokens \cup {None}]
  /\ forked \subseteq Tokens
  /\ ended \subseteq Tokens
  /\ overtaken \subseteq Tokens \cup {None}
  /\ purged \subseteq Tokens

\* Rotation leaves no `two simultaneously-live tokens' (auth.service.ts 125-127) of
\* one login, unless two refreshes have rotated the same token: the second one's
\* update does not look at revokedAt.
TwoLiveTakesAFork ==
  \A t, u \in Live : root[t] = root[u] => t = u \/ root[t] \in forked

\* Logging out, like reuse detection, revokes for good (auth.service.ts 159-173): no
\* refresh that reaches the server afterwards brings a revoked login back, only one
\* that had found its token live already, and only the logins of such refreshes.
RevivedOnlyWhenOvertaken ==
  \A t \in Live : root[t] \in ended => root[t] \in overtaken

\* A browser whose cookie names a rotated token is about to get the new one, unless
\* that answer was lost (api.ts 56-65): between a browser's tabs no answer puts back
\* an older cookie.
RotatedCookieIsReplaced ==
  \A b \in Browsers :
    jar[b].rt # None /\ replacedBy[jar[b].rt] # None =>
      \E c \in Calls : presented[c] = jar[b].rt /\ stage[c] = "granted"

\* What an incident needs: another tab's refresh, a lost answer, or a token that was
\* revoked with all the others before.
Excused(c) ==
  \/ presented[c] \in purged
  \/ c \in cut
  \/ \E d \in Calls \ {c} :
       presented[d] = presented[c] /\ (Tab(d) # Tab(c) \/ d \in cut)

\* However many calls of one tab are answered 401 at once, and whenever, they do not
\* present a token twice and never burn their own session (api.ts 56-65).
NoFalseAlarmInOneTab == \A c \in incidents : Excused(c)

\* Nobody waits for a refresh for ever: each call is answered, retried once, or
\* given up (api.ts 142-165).
EveryCallSettles == \A c \in Calls : Sent(c) ~> Settled(c)

(* What makes these invariants inductive. *)

\* The calls and their refreshes: who sends has no handler under way, who waits is
\* either the one whose refresh it is or has none, and its connection stands.
CallsFit ==
  \A c \in Calls :
    /\ pc[c] \in {"idle", "sent"} => stage[c] = "none" /\ row[c] = "none"
    /\ pc[c] = "resent" => stage[c] \in {"none", "ended"}
    /\ pc[c] \in {"waiting", "resent"} => Kind(c) # "login"
    /\ pc[c] = "waiting" /\ ~Refreshing(c) => stage[c] = "none"
    /\ Refreshing(c) => pc[c] = "waiting" /\ c \notin cut
    /\ stage[c] = "none" => c \notin cut /\ presented[c] = None
    /\ stage[c] \in {"creating", "finding", "rotating"} => row[c] = "none"
    /\ stage[c] \in {"rotating", "burning", "closing", "reporting"} => presented[c] # None
    /\ stage[c] \in {"creating", "denied"} => presented[c] = None
    /\ stage[c] = "granted" => row[c] # "none"
    /\ c \in incidents => presented[c] # None

\* Tokens are rows before anybody holds them, and a row that was replaced is revoked.
TokensFit ==
  /\ \A t \in Tokens :
       /\ row[t] # "none" => root[t] \in Issued
       /\ row[t] # "revoked" => replacedBy[t] = None
       /\ row[t] = "revoked" => t \in purged \/ replacedBy[t] # None
       /\ replacedBy[t] # None =>
            \E c \in Calls : presented[c] = t /\ stage[c] \notin {"none", "finding", "rotating"}
  /\ \A b \in Browsers : jar[b].rt # None => jar[b].rt \in Issued
  /\ \A c \in Calls : presented[c] # None => presented[c] \in Issued
  /\ ended \subseteq Issued

\* Only an answer hands a token out, and it hands it to one browser.
HandedOut(c) == stage[c] \in {"ended", "revoking", "cleared"} /\ row[c] # "none"

TokensHandedOut ==
  /\ \A c \in Calls :
       /\ \A b \in Browsers : jar[b].rt = c => HandedOut(c)
       /\ \A d \in Calls : presented[d] = c => HandedOut(c)
  /\ \A a, b \in Browsers : jar[a].rt = jar[b].rt => a = b \/ jar[a].rt = None
  /\ \A c \in Calls, b \in Browsers :
       presented[c] # None /\ jar[b].rt = presented[c] => b = Browser(c)

\* A login's tokens form a chain.
OneChain ==
  \A t, u \in Issued :
    root[t] = root[u] /\ replacedBy[t] = None /\ replacedBy[u] = None =>
      t = u \/ root[t] \in forked

RotationsOvertaken ==
  \A c \in Rotating : root[presented[c]] \in ended => root[presented[c]] \in overtaken

\* A token that a tab has presented is in no cookie once the answer is there.
PresentedOnce ==
  \A c \in Calls :
    presented[c] # None /\ c \notin cut =>
      /\ Refreshing(c) \/ jar[Browser(c)].rt # presented[c]
      /\ \A d \in Calls \ {c} :
           presented[d] = presented[c] /\ Tab(d) = Tab(c) => d \in cut

AlarmsExcused == \A c \in Calls : stage[c] \in {"burning", "reporting"} => Excused(c)

\* The inductive invariant behind the theorems of RefreshSession_proofs: where each
\* refresh token is (row, cookie, request), so that a tab's refreshes follow one
\* another and a login's tokens form a chain (auth.service.ts 80-157, api.ts 67-85).
IInv ==
  /\ TypeOK
  /\ CallsFit
  /\ TokensFit
  /\ TokensHandedOut
  /\ OneChain
  /\ RevivedOnlyWhenOvertaken
  /\ RotationsOvertaken
  /\ RotatedCookieIsReplaced
  /\ PresentedOnce
  /\ AlarmsExcused
  /\ NoFalseAlarmInOneTab

\* auth.service.ts 97: a revoked (already-rotated) token being presented again.
ReuseMeansRotated == \A c \in incidents : replacedBy[presented[c]] # None
=============================================================================
