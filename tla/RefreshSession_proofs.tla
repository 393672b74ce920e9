------------------------ MODULE RefreshSession_proofs ------------------------
EXTENDS RefreshSession, TLAPS

\* A call has a tab and a browser with cookies of the right types.
LEMMA CallTyped ==
  ASSUME TypeOK, NEW c \in Calls
  PROVE  /\ Tab(c) \in Tabs /\ Browser(c) \in Browsers
         /\ Kind(c) \in {"login", "wrongLogin", "query", "me", "logout"}
         /\ jar[Browser(c)].at \in Tokens \cup {None}
         /\ jar[Browser(c)].rt \in Tokens \cup {None}
<1>1. body[c] \in Bodies
  BY WorkloadAssumption DEF TypeOK
<1>2. Browser(c) \in Browsers /\ Tab(c) \in Tabs
  BY <1>1, TabAssumption DEF Browser, Tab, Bodies
<1>3. jar[Browser(c)] \in Jars
  BY <1>2 DEF TypeOK
<1> QED
  BY <1>1, <1>2, <1>3 DEF Kind, Bodies, Jars

\* What revoking every live token does to the rows and to the histories.
LEMMA RevokedTypes ==
  ASSUME TypeOK, CallsFit, TokensFit, RevokeLive
  PROVE  /\ row' \in [Tokens -> {"none", "live", "revoked"}]
         /\ ended' \subseteq Tokens /\ overtaken' \subseteq Tokens \cup {None} /\ purged' \subseteq Tokens
         /\ \A t \in Tokens : row'[t] = IF row[t] = "live" THEN "revoked" ELSE row[t]
<1>1. \A t \in Issued : root[t] \in Tokens
  BY DEF TokensFit, Issued
<1>2. \A d \in Rotating : root[presented[d]] \in Tokens
  BY <1>1 DEF CallsFit, TokensFit, Rotating, Issued
<1> QED
  BY <1>1, <1>2 DEF TypeOK, RevokeLive, Live

\* What the calls of a tab do when a refresh ends, or when another call of its own does:
\* those who waited go on, and nobody else moves.
LEMMA SettledShape ==
  ASSUME TypeOK, CallsFit, NEW c \in Calls, body' = body,
         NEW good \in BOOLEAN, NEW at \in Tokens \cup {None}, NEW place \in {"ok", "failed"},
         \/ Refreshing(c) /\ Settle(c, good, at)
         \/ ~Refreshing(c) /\ Goto(c, place) /\ UNCHANGED <<carries, refreshInFlight>>
  PROVE  /\ pc' \in [Calls -> Places]
         /\ carries' \in [Calls -> Tokens \cup {None}]
         /\ refreshInFlight' \in [Tabs -> Calls \cup {None}]
         /\ \A d \in Calls : Refreshing(d)' <=> Refreshing(d) /\ d # c
         /\ pc'[c] \in {"refused", "signedOut", place} \/ (good /\ pc'[c] = "resent")
         /\ pc'[c] = "resent" => Kind(c) # "login"
         /\ \A d \in Calls \ {c} :
              \/ pc'[d] = pc[d]
              \/ pc[d] = "waiting" /\ ~Refreshing(d) /\ pc'[d] \in {"resent", "refused", "signedOut"}
<1>t. \A d \in Calls : Tab(d) \in Tabs
  BY CallTyped
<1>n. \A d \in Calls : d # None
  BY NoneAssumption DEF Tokens
<1>1. CASE Refreshing(c) /\ Settle(c, good, at)
  <2>1. pc[c] = "waiting" /\ Kind(c) # "login"
    BY <1>1 DEF CallsFit
  <2>2. \A d \in Calls : GaveUp(d) \in {"refused", "signedOut"}
    BY DEF GaveUp
  <2>3. pc' \in [Calls -> Places]
    BY <1>1, <2>2 DEF TypeOK, Settle, Places
  <2>4. carries' \in [Calls -> Tokens \cup {None}] /\ refreshInFlight' \in [Tabs -> Calls \cup {None}]
    BY <1>1 DEF TypeOK, Settle
  <2>5. \A d \in Calls : Refreshing(d)' <=> Refreshing(d) /\ d # c
    BY <1>1, <1>t, <1>n DEF TypeOK, Settle, Refreshing, Tab
  <2>6. \A d \in Calls \ {c} :
          \/ pc'[d] = pc[d]
          \/ pc[d] = "waiting" /\ ~Refreshing(d) /\ pc'[d] \in {"resent", "refused", "signedOut"}
    BY <1>1, <2>2 DEF Settle, Refreshing
  <2>7. pc'[c] \in {"refused", "signedOut"} \/ (good /\ pc'[c] = "resent")
    BY <1>1, <2>1, <2>2 DEF Settle
  <2> QED
    BY <2>1, <2>3, <2>4, <2>5, <2>6, <2>7
<1>2. CASE ~Refreshing(c) /\ Goto(c, place) /\ UNCHANGED <<carries, refreshInFlight>>
  BY <1>2 DEF TypeOK, Goto, Places, Refreshing, Tab
<1> QED
  BY <1>1, <1>2

\* A call is sent with the access token its browser has at that moment.
LEMMA SendKeeps ==
  ASSUME IInv, NEW c \in Calls, Send(c) PROVE IInv'
<1> USE DEF IInv, cookies, rows, client, server, ghosts, Send, Goto
<1>t. /\ Tab(c) \in Tabs /\ Browser(c) \in Browsers
      /\ jar[Browser(c)].at \in Tokens \cup {None} /\ jar[Browser(c)].rt \in Tokens \cup {None}
  BY CallTyped
<1>1. TypeOK'
  BY <1>t DEF TypeOK, Places, Stages
<1>2. CallsFit'
  BY <1>t DEF TypeOK, CallsFit, Refreshing, Kind, Tab
<1>3. TokensFit'
  BY <1>t DEF TypeOK, TokensFit, Issued
<1>4. TokensHandedOut'
  BY <1>t DEF TypeOK, TokensHandedOut, HandedOut, Browser, Tab
<1>5. OneChain'
  BY <1>t DEF TypeOK, OneChain, Issued
<1>6. RevivedOnlyWhenOvertaken'
  BY <1>t DEF TypeOK, RevivedOnlyWhenOvertaken, Live
<1>7. RotationsOvertaken'
  BY <1>t DEF TypeOK, RotationsOvertaken, Rotating
<1>8. RotatedCookieIsReplaced'
  BY <1>t DEF TypeOK, RotatedCookieIsReplaced
<1>9. PresentedOnce'
  BY <1>t DEF TypeOK, PresentedOnce, Refreshing, Browser, Tab
<1>10. AlarmsExcused'
  BY <1>t DEF TypeOK, AlarmsExcused, Excused, Tab
<1>11. NoFalseAlarmInOneTab'
  BY <1>t DEF TypeOK, NoFalseAlarmInOneTab, Excused, Tab
<1> QED
  BY <1>1, <1>2, <1>3, <1>4, <1>5, <1>6, <1>7, <1>8, <1>9, <1>10, <1>11

\* The call is answered: its tab's other calls are where they were.
LEMMA AnswerKeeps ==
  ASSUME IInv, NEW c \in Calls, Answer(c) PROVE IInv'
<1> USE DEF IInv, cookies, rows, client, server, ghosts, Answer, Sent, Goto
<1>t. /\ Tab(c) \in Tabs /\ Browser(c) \in Browsers
      /\ jar[Browser(c)].at \in Tokens \cup {None} /\ jar[Browser(c)].rt \in Tokens \cup {None}
  BY CallTyped
<1>1. TypeOK'
  BY <1>t DEF TypeOK, Places, Stages
<1>2. CallsFit'
  BY <1>t DEF TypeOK, CallsFit, Refreshing, Kind, Tab
<1>3. TokensFit'
  BY <1>t DEF TypeOK, TokensFit, Issued
<1>4. TokensHandedOut'
  BY <1>t DEF TypeOK, TokensHandedOut, HandedOut, Browser, Tab
<1>5. OneChain'
  BY <1>t DEF TypeOK, OneChain, Issued
<1>6. RevivedOnlyWhenOvertaken'
  BY <1>t DEF TypeOK, RevivedOnlyWhenOvertaken, Live
<1>7. RotationsOvertaken'
  BY <1>t DEF TypeOK, RotationsOvertaken, Rotating
<1>8. RotatedCookieIsReplaced'
  BY <1>t DEF TypeOK, RotatedCookieIsReplaced
<1>9. PresentedOnce'
  BY <1>t DEF TypeOK, PresentedOnce, Refreshing, Browser, Tab
<1>10. AlarmsExcused'
  BY <1>t DEF TypeOK, AlarmsExcused, Excused, Tab
<1>11. NoFalseAlarmInOneTab'
  BY <1>t DEF TypeOK, NoFalseAlarmInOneTab, Excused, Tab
<1> QED
  BY <1>1, <1>2, <1>3, <1>4, <1>5, <1>6, <1>7, <1>8, <1>9, <1>10, <1>11

\* A call that is lost has no handler under way.
LEMMA LoseKeeps ==
  ASSUME IInv, NEW c \in Calls, Lose(c) PROVE IInv'
<1> USE DEF IInv, cookies, rows, client, server, ghosts, Lose, Sent, Goto
<1>t. /\ Tab(c) \in Tabs /\ Browser(c) \in Browsers
      /\ jar[Browser(c)].at \in Tokens \cup {None} /\ jar[Browser(c)].rt \in Tokens \cup {None}
  BY CallTyped
<1>1. TypeOK'
  BY <1>t DEF TypeOK, Places, Stages
<1>2. CallsFit'
  BY <1>t DEF TypeOK, CallsFit, Refreshing, Kind, Tab
<1>3. TokensFit'
  BY <1>t DEF TypeOK, TokensFit, Issued
<1>4. TokensHandedOut'
  BY <1>t DEF TypeOK, TokensHandedOut, HandedOut, Browser, Tab
<1>5. OneChain'
  BY <1>t DEF TypeOK, OneChain, Issued
<1>6. RevivedOnlyWhenOvertaken'
  BY <1>t DEF TypeOK, RevivedOnlyWhenOvertaken, Live
<1>7. RotationsOvertaken'
  BY <1>t DEF TypeOK, RotationsOvertaken, Rotating
<1>8. RotatedCookieIsReplaced'
  BY <1>t DEF TypeOK, RotatedCookieIsReplaced
<1>9. PresentedOnce'
  BY <1>t DEF TypeOK, PresentedOnce, Refreshing, Browser, Tab
<1>10. AlarmsExcused'
  BY <1>t DEF TypeOK, AlarmsExcused, Excused, Tab
<1>11. NoFalseAlarmInOneTab'
  BY <1>t DEF TypeOK, NoFalseAlarmInOneTab, Excused, Tab
<1> QED
  BY <1>1, <1>2, <1>3, <1>4, <1>5, <1>6, <1>7, <1>8, <1>9, <1>10, <1>11

\* A 401: the call waits, starting its tab's refresh if there is none, or gives up.
LEMMA RefuseKeeps ==
  ASSUME IInv, NEW c \in Calls, Refuse(c) PROVE IInv'
<1> USE DEF IInv, cookies, rows, client, server, ghosts, Refuse, Sent, MayRefresh, RefreshOnce, Accepted, GaveUp, Goto, Enter
<1>t. /\ Tab(c) \in Tabs /\ Browser(c) \in Browsers
      /\ jar[Browser(c)].at \in Tokens \cup {None} /\ jar[Browser(c)].rt \in Tokens \cup {None}
  BY CallTyped
<1>a. stage[c] \in {"none", "ended"} /\ (pc[c] = "sent" => stage[c] = "none" /\ presented[c] = None)
  BY DEF CallsFit, TypeOK
<1>1. CASE /\ pc[c] = "sent"
           /\ refreshInFlight[Tab(c)] = None
           /\ refreshInFlight' = [refreshInFlight EXCEPT ![Tab(c)] = c]
           /\ presented' = [presented EXCEPT ![c] = jar[Browser(c)].rt]
           /\ stage' = [stage EXCEPT ![c] = "finding"]
           /\ pc' = [pc EXCEPT ![c] = "waiting"]
  <2>a. /\ stage[c] = "none" /\ presented[c] = None /\ c \notin incidents
        /\ jar[Browser(c)].rt \in Tokens \cup {None}
    BY <1>1, <1>a, <1>t DEF CallsFit
  <2>b. /\ \A d \in Calls \ {c} : presented'[d] = presented[d] /\ stage'[d] = stage[d]
        /\ presented'[c] = jar[Browser(c)].rt /\ stage'[c] = "finding"
    BY <1>1 DEF TypeOK
  <2>1. TypeOK'
    BY <1>1, <2>a DEF TypeOK, Places, Stages
  <2>2. CallsFit'
    BY <1>1, <1>t, <2>a, NoneAssumption DEF TypeOK, CallsFit, Refreshing, Kind, Tab, Tokens
  <2>3. TokensFit'
    <3>1. \A t \in Tokens : replacedBy[t] # None =>
            \E d \in Calls : presented'[d] = t /\ stage'[d] \notin {"none", "finding", "rotating"}
      <4> SUFFICES ASSUME NEW t \in Tokens, replacedBy[t] # None
                   PROVE  \E d \in Calls : presented'[d] = t /\ stage'[d] \notin {"none", "finding", "rotating"}
        OBVIOUS
      <4>1. PICK d \in Calls : presented[d] = t /\ stage[d] \notin {"none", "finding", "rotating"}
        BY DEF TypeOK, TokensFit
      <4> QED
        BY <4>1, <2>a, <2>b
    <3> QED
      BY <3>1, <1>t, <2>a, <2>b DEF TokensFit, Issued
  <2>4. TokensHandedOut'
    <3>1. \A d \in Calls : HandedOut(d) => HandedOut(d)'
      BY <2>a, <2>b DEF HandedOut
    <3> QED
      BY <3>1, <1>t, <2>a, <2>b DEF TokensHandedOut, Browser, Tab
  <2>5. OneChain' /\ RevivedOnlyWhenOvertaken'
    BY DEF OneChain, RevivedOnlyWhenOvertaken, Live, Issued
  <2>6. RotationsOvertaken'
    BY <2>a, <2>b DEF RotationsOvertaken, Rotating
  <2>7. RotatedCookieIsReplaced'
    <3> SUFFICES ASSUME NEW b \in Browsers, jar[b].rt # None, replacedBy[jar[b].rt] # None
                 PROVE  \E d \in Calls : presented'[d] = jar[b].rt /\ stage'[d] = "granted"
      BY DEF RotatedCookieIsReplaced
    <3>1. PICK d \in Calls : presented[d] = jar[b].rt /\ stage[d] = "granted"
      BY DEF RotatedCookieIsReplaced
    <3> QED
      BY <3>1, <2>a, <2>b
  <2>8. PresentedOnce'
    <3> SUFFICES ASSUME NEW d \in Calls, presented'[d] # None, d \notin cut
                 PROVE  /\ Refreshing(d)' \/ jar[Browser(d)].rt # presented'[d]
                        /\ \A e \in Calls \ {d} :
                             presented'[e] = presented'[d] /\ Tab(e) = Tab(d) => e \in cut
      BY DEF PresentedOnce, Browser, Tab, Refreshing
    <3>1. CASE d = c
      BY <1>1, <1>t, <2>a, <2>b, <3>1, NoneAssumption DEF TypeOK, PresentedOnce, Refreshing, Browser, Tokens, Tab
    <3>2. CASE d # c
      BY <1>1, <1>t, <2>a, <2>b, <3>2, NoneAssumption DEF TypeOK, PresentedOnce, Refreshing, Browser, Tokens, Tab
    <3> QED
      BY <3>1, <3>2
  <2>9. \A d \in Calls : presented[d] # None /\ Excused(d) => Excused(d)'
    BY <2>a, <2>b DEF Excused, Tab
  <2>10. AlarmsExcused'
    BY <2>9, <2>a, <2>b DEF AlarmsExcused, CallsFit
  <2>11. NoFalseAlarmInOneTab'
    BY <2>9 DEF TypeOK, NoFalseAlarmInOneTab, CallsFit
  <2> QED
    BY <2>1, <2>2, <2>3, <2>4, <2>5, <2>6, <2>7, <2>8, <2>10, <2>11
<1>2. CASE /\ UNCHANGED <<refreshInFlight, presented, stage>>
           /\ \/ /\ MayRefresh(c) /\ refreshInFlight[Tab(c)] # None
                 /\ pc' = [pc EXCEPT ![c] = "waiting"]
              \/ pc' = [pc EXCEPT ![c] = GaveUp(c)]
  <2>1. TypeOK'
    BY <1>2 DEF TypeOK, Places
  <2>2. CallsFit'
    BY <1>2, <1>a DEF TypeOK, CallsFit, Refreshing, Kind, Tab
  <2>3. TokensFit' /\ TokensHandedOut' /\ OneChain' /\ RevivedOnlyWhenOvertaken'
    BY <1>2 DEF TokensFit, TokensHandedOut, HandedOut, OneChain, RevivedOnlyWhenOvertaken, Live, Issued, Browser, Tab
  <2>4. RotationsOvertaken' /\ RotatedCookieIsReplaced' /\ PresentedOnce'
    BY <1>2 DEF RotationsOvertaken, Rotating, RotatedCookieIsReplaced, PresentedOnce, Refreshing, Browser, Tab
  <2>5. AlarmsExcused' /\ NoFalseAlarmInOneTab'
    BY <1>2 DEF AlarmsExcused, NoFalseAlarmInOneTab, Excused, Tab
  <2> QED
    BY <2>1, <2>2, <2>3, <2>4, <2>5
<1> QED
  BY <1>1, <1>2

\* A login or logout handler starts, for a call without one.
LEMMA BeginKeeps ==
  ASSUME IInv, NEW c \in Calls, Begin(c) PROVE IInv'
<1> USE DEF IInv, cookies, rows, client, server, ghosts, Begin, Sent, Accepted, Goto, Enter
<1>t. /\ Tab(c) \in Tabs /\ Browser(c) \in Browsers
      /\ jar[Browser(c)].at \in Tokens \cup {None} /\ jar[Browser(c)].rt \in Tokens \cup {None}
  BY CallTyped
<1>a. /\ stage[c] \in {"none", "ended"} /\ (stage'[c] = "creating" => stage[c] = "none" /\ row[c] = "none")
      /\ stage'[c] \in {"creating", "revoking"}
  BY <1>t DEF TypeOK, CallsFit
<1>b. \A d \in Calls \ {c} : stage'[d] = stage[d]
  BY DEF TypeOK
<1>1. TypeOK'
  BY <1>t DEF TypeOK, Places, Stages
<1>2. CallsFit'
  BY <1>t DEF TypeOK, CallsFit, Refreshing, Kind, Tab
<1>3. TokensFit'
  BY <1>t DEF TypeOK, TokensFit, Issued
<1>4. TokensHandedOut'
  <2>1. \A d \in Calls : HandedOut(d) => HandedOut(d)'
    BY <1>a, <1>b DEF TypeOK, HandedOut
  <2> QED
    BY <2>1 DEF TokensHandedOut, Browser, Tab
<1>5. OneChain'
  BY <1>t DEF TypeOK, OneChain, Issued
<1>6. RevivedOnlyWhenOvertaken'
  BY <1>t DEF TypeOK, RevivedOnlyWhenOvertaken, Live
<1>7. RotationsOvertaken'
  BY <1>t DEF TypeOK, RotationsOvertaken, Rotating
<1>8. RotatedCookieIsReplaced'
  <2> SUFFICES ASSUME NEW b \in Browsers, jar[b].rt # None, replacedBy[jar[b].rt] # None
               PROVE  \E d \in Calls : presented[d] = jar[b].rt /\ stage'[d] = "granted"
    BY DEF RotatedCookieIsReplaced
  <2>1. PICK d \in Calls : presented[d] = jar[b].rt /\ stage[d] = "granted"
    BY DEF RotatedCookieIsReplaced
  <2> QED
    BY <2>1, <1>a, <1>b
<1>9. PresentedOnce'
  BY <1>t DEF TypeOK, PresentedOnce, Refreshing, Browser, Tab
<1>10. AlarmsExcused'
  BY <1>t DEF TypeOK, AlarmsExcused, Excused, Tab
<1>11. NoFalseAlarmInOneTab'
  BY <1>t DEF TypeOK, NoFalseAlarmInOneTab, Excused, Tab
<1> QED
  BY <1>1, <1>2, <1>3, <1>4, <1>5, <1>6, <1>7, <1>8, <1>9, <1>10, <1>11

\* A login's token is the root of a chain of its own.
LEMMA CreateTokenKeeps ==
  ASSUME IInv, NEW c \in Calls, CreateToken(c) PROVE IInv'
<1> USE DEF IInv, cookies, rows, client, server, ghosts, CreateToken, Issue, Enter
<1>t. /\ Tab(c) \in Tabs /\ Browser(c) \in Browsers
      /\ jar[Browser(c)].at \in Tokens \cup {None} /\ jar[Browser(c)].rt \in Tokens \cup {None}
  BY CallTyped
<1>a. /\ c \in Tokens /\ c \notin Issued /\ replacedBy[c] = None /\ c \notin ended
      /\ \A t \in Issued : root[t] \in Issued
  BY DEF TypeOK, CallsFit, TokensFit, Tokens, Issued
<1>b. /\ Issued' = Issued \cup {c} /\ Live' = Live \cup {c}
      /\ root'[c] = c /\ \A t \in Issued : root'[t] = root[t]
  BY <1>a DEF TypeOK, Issued, Live
<1>c. Live \subseteq Issued /\ Issued \subseteq Tokens
  BY DEF Live, Issued
<1>1. TypeOK'
  BY <1>t DEF TypeOK, Places, Stages
<1>2. CallsFit'
  <2> SUFFICES ASSUME NEW d \in Calls PROVE CallsFit!(d)'
    BY DEF CallsFit
  <2>1. CASE d = c
    <3>1. row'[d] = "live" /\ stage'[d] = "granted" /\ stage[d] = "creating"
      BY <2>1, <1>a DEF TypeOK
    <3> QED
      BY <3>1 DEF CallsFit, Refreshing, Tab, Kind
  <2>2. CASE d # c
    <3>1. row'[d] = row[d] /\ stage'[d] = stage[d]
      BY <2>2 DEF TypeOK, Tokens
    <3> QED
      BY <3>1 DEF CallsFit, Refreshing, Tab, Kind
  <2> QED
    BY <2>1, <2>2
<1>3. TokensFit'
  <2>1. \A t \in Tokens : replacedBy[t] # None =>
          \E d \in Calls : presented[d] = t /\ stage'[d] \notin {"none", "finding", "rotating"}
    BY DEF TypeOK, TokensFit
  <2>2. \A t \in Tokens :
          /\ row'[t] # "none" => root'[t] \in Issued'
          /\ row'[t] # "revoked" => replacedBy[t] = None
          /\ row'[t] = "revoked" => t \in purged \/ replacedBy[t] # None
    <3> SUFFICES ASSUME NEW t \in Tokens
                 PROVE  /\ row'[t] # "none" => root'[t] \in Issued'
                        /\ row'[t] # "revoked" => replacedBy[t] = None
                        /\ row'[t] = "revoked" => t \in purged \/ replacedBy[t] # None
      OBVIOUS
    <3>1. CASE t = c
      BY <3>1, <1>a, <1>b DEF TypeOK
    <3>2. CASE t # c
      BY <3>2, <1>a, <1>b DEF TypeOK, TokensFit, Issued
    <3> QED
      BY <3>1, <3>2
  <2>3. Issued \subseteq Issued'
    BY <1>b
  <2> QED
    BY <2>1, <2>2, <2>3 DEF TokensFit
<1>4. TokensHandedOut'
  BY <1>t DEF TypeOK, TokensHandedOut, HandedOut, Browser, Tab
<1>5. OneChain'
  <2> SUFFICES ASSUME NEW t \in Issued', NEW u \in Issued', root'[t] = root'[u],
                      replacedBy[t] = None, replacedBy[u] = None
               PROVE  t = u \/ root'[t] \in forked
    BY DEF OneChain
  <2>1. CASE t = c \/ u = c
    BY <2>1, <1>a, <1>b
  <2>2. CASE t # c /\ u # c
    BY <2>2, <1>b DEF OneChain
  <2> QED
    BY <2>1, <2>2
<1>6. RevivedOnlyWhenOvertaken'
  BY <1>a, <1>b, <1>c DEF RevivedOnlyWhenOvertaken
<1>7. RotationsOvertaken'
  <2>1. \A d \in Rotating' : d \in Rotating /\ presented[d] \in Issued
    BY DEF TypeOK, Rotating, CallsFit, TokensFit
  <2> QED
    BY <2>1, <1>b DEF RotationsOvertaken
<1>8. RotatedCookieIsReplaced'
  BY <1>t DEF TypeOK, RotatedCookieIsReplaced
<1>9. PresentedOnce'
  BY <1>t DEF TypeOK, PresentedOnce, Refreshing, Browser, Tab
<1>10. AlarmsExcused'
  BY <1>t DEF TypeOK, AlarmsExcused, Excused, Tab
<1>11. NoFalseAlarmInOneTab'
  BY <1>t DEF TypeOK, NoFalseAlarmInOneTab, Excused, Tab
<1> QED
  BY <1>1, <1>2, <1>3, <1>4, <1>5, <1>6, <1>7, <1>8, <1>9, <1>10, <1>11

\* A refresh that finds its token revoked has met a rotation or a revocation.
LEMMA FindTokenKeeps ==
  ASSUME IInv, NEW c \in Calls, FindToken(c) PROVE IInv'
<1> USE DEF IInv, cookies, rows, client, server, ghosts, FindToken, Enter
<1>t. /\ Tab(c) \in Tabs /\ Browser(c) \in Browsers
      /\ jar[Browser(c)].at \in Tokens \cup {None} /\ jar[Browser(c)].rt \in Tokens \cup {None}
  BY CallTyped
<1>a. stage[c] = "finding" /\ presented[c] \in Tokens \cup {None}
  BY DEF TypeOK
<1>1. TypeOK'
  BY <1>t DEF TypeOK, Places, Stages
<1>2. CallsFit'
  BY <1>t DEF TypeOK, CallsFit, Refreshing, Kind, Tab
<1>3. TokensFit'
  BY <1>t DEF TypeOK, TokensFit, Issued
<1>4. TokensHandedOut'
  BY <1>t DEF TypeOK, TokensHandedOut, HandedOut, Browser, Tab
<1>5. OneChain'
  BY <1>t DEF TypeOK, OneChain, Issued
<1>6. RevivedOnlyWhenOvertaken'
  BY <1>t DEF TypeOK, RevivedOnlyWhenOvertaken, Live
<1>7. RotationsOvertaken'
  <2>1. \A d \in Rotating' : d \in Rotating \/ (d = c /\ presented[c] \in Live)
    BY <1>a DEF TypeOK, Rotating, Live
  <2> QED
    BY <2>1 DEF RotationsOvertaken, RevivedOnlyWhenOvertaken
<1>8. RotatedCookieIsReplaced'
  BY <1>t DEF TypeOK, RotatedCookieIsReplaced
<1>9. PresentedOnce'
  BY <1>t DEF TypeOK, PresentedOnce, Refreshing, Browser, Tab
<1>10. AlarmsExcused'
  <2>1. ASSUME stage'[c] = "burning" PROVE Excused(c)
    <3>1. presented[c] \in Tokens /\ presented[c] # None /\ row[presented[c]] = "revoked"
      BY <1>a, <2>1 DEF TypeOK
    <3>2. CASE presented[c] \in purged
      BY <3>2 DEF Excused
    <3>3. CASE replacedBy[presented[c]] # None
      <4>1. PICK d \in Calls : presented[d] = presented[c] /\ stage[d] \notin {"none", "finding", "rotating"}
        BY <3>1, <3>3 DEF TokensFit
      <4>2. d # c
        BY <4>1, <1>a
      <4> QED
        BY <4>1, <4>2, <3>1 DEF PresentedOnce, Excused
    <3> QED
      BY <3>1, <3>2, <3>3 DEF TokensFit
  <2>2. \A d \in Calls \ {c} : stage'[d] = stage[d]
    BY DEF TypeOK
  <2>3. \A d \in Calls : Excused(d)' <=> Excused(d)
    BY DEF Excused, Tab
  <2>4. stage'[c] # "reporting"
    BY DEF TypeOK
  <2> QED
    BY <2>1, <2>2, <2>3, <2>4 DEF AlarmsExcused
<1>11. NoFalseAlarmInOneTab'
  BY <1>t DEF TypeOK, NoFalseAlarmInOneTab, Excused, Tab
<1> QED
  BY <1>1, <1>2, <1>3, <1>4, <1>5, <1>6, <1>7, <1>8, <1>9, <1>10, <1>11

\* The chain of the presented token goes on with the call's, or forks.
LEMMA RotateKeeps ==
  ASSUME IInv, NEW c \in Calls, Rotate(c) PROVE IInv'
<1> USE DEF IInv, cookies, rows, client, server, ghosts, Rotate, Enter
<1>t. /\ Tab(c) \in Tabs /\ Browser(c) \in Browsers
      /\ jar[Browser(c)].at \in Tokens \cup {None} /\ jar[Browser(c)].rt \in Tokens \cup {None}
  BY CallTyped
<1> DEFINE p == presented[c]
<1>a. /\ c \in Tokens /\ row[c] = "none" /\ replacedBy[c] = None
      /\ p \in Tokens /\ p # None /\ p # c /\ p \in Issued /\ root[p] \in Issued /\ root[p] \in Tokens
  BY DEF TypeOK, CallsFit, TokensFit, Tokens, Issued
<1>b. /\ row'[c] = "live" /\ row'[p] = "revoked"
      /\ replacedBy'[p] = c /\ root'[c] = root[p]
      /\ \A t \in Tokens \ {c, p} : row'[t] = row[t]
      /\ \A t \in Tokens \ {p} : replacedBy'[t] = replacedBy[t]
      /\ \A t \in Tokens \ {c} : root'[t] = root[t]
      /\ stage'[c] = "granted" /\ \A d \in Calls \ {c} : stage'[d] = stage[d]
  BY <1>a DEF TypeOK
<1>c. Issued' = Issued \cup {c} /\ c \notin Issued /\ c # None
  BY <1>a, <1>b, NoneAssumption DEF Issued
<1> HIDE DEF p
<1>1. TypeOK'
  <2>1. row' \in [Tokens -> {"none", "live", "revoked"}] /\ stage' \in [Calls -> Stages]
    BY DEF TypeOK, Stages
  <2>2. replacedBy' \in [Tokens -> Calls \cup {None}] /\ root' \in [Tokens -> Tokens \cup {None}]
    BY <1>a DEF TypeOK, p
  <2>3. forked' \subseteq Tokens
    BY <1>a DEF TypeOK, p
  <2> QED
    BY <2>1, <2>2, <2>3 DEF TypeOK
<1>2. CallsFit'
  <2> SUFFICES ASSUME NEW d \in Calls PROVE CallsFit!(d)'
    BY DEF CallsFit
  <2>1. CASE d = c
    <3>1. row'[d] = "live" /\ stage'[d] = "granted" /\ stage[d] = "rotating"
      BY <2>1, <1>b
    <3> QED
      BY <3>1 DEF CallsFit, Refreshing, Tab, Kind
  <2>2. CASE d # c
    <3>1. d \in Tokens /\ stage'[d] = stage[d] /\ (row'[d] = "none" <=> row[d] = "none")
      BY <2>2, <1>a, <1>b DEF Tokens, Issued
    <3> QED
      BY <3>1 DEF CallsFit, Refreshing, Tab, Kind
  <2> QED
    BY <2>1, <2>2
<1>3. TokensFit'
  <2>1. \A t \in Tokens : replacedBy'[t] # None =>
          \E d \in Calls : presented[d] = t /\ stage'[d] \notin {"none", "finding", "rotating"}
    <3> SUFFICES ASSUME NEW t \in Tokens, replacedBy'[t] # None
                 PROVE  \E d \in Calls : presented[d] = t /\ stage'[d] \notin {"none", "finding", "rotating"}
      OBVIOUS
    <3>1. CASE t = p
      BY <3>1, <1>b DEF p
    <3>2. CASE t # p
      <4>1. PICK d \in Calls : presented[d] = t /\ stage[d] \notin {"none", "finding", "rotating"}
        BY <3>2, <1>b DEF TokensFit
      <4> QED
        BY <4>1, <1>b
    <3> QED
      BY <3>1, <3>2
  <2>2. \A t \in Tokens :
          /\ row'[t] # "none" => root'[t] \in Issued'
          /\ row'[t] # "revoked" => replacedBy'[t] = None
          /\ row'[t] = "revoked" => t \in purged \/ replacedBy'[t] # None
    <3> SUFFICES ASSUME NEW t \in Tokens
                 PROVE  /\ row'[t] # "none" => root'[t] \in Issued'
                        /\ row'[t] # "revoked" => replacedBy'[t] = None
                        /\ row'[t] = "revoked" => t \in purged \/ replacedBy'[t] # None
      OBVIOUS
    <3>1. CASE t = c
      BY <3>1, <1>a, <1>b, <1>c
    <3>2. CASE t = p
      BY <3>2, <1>a, <1>b, <1>c
    <3>3. CASE t # c /\ t # p
      <4>1. row'[t] = row[t] /\ replacedBy'[t] = replacedBy[t] /\ root'[t] = root[t]
        BY <3>3, <1>b
      <4>2. /\ row[t] # "none" => root[t] \in Issued'
            /\ row[t] # "revoked" => replacedBy[t] = None
            /\ row[t] = "revoked" => t \in purged \/ replacedBy[t] # None
        BY <1>c DEF TokensFit
      <4> QED
        BY <4>1, <4>2
    <3> QED
      BY <3>1, <3>2, <3>3
  <2>3. Issued \subseteq Issued'
    BY <1>c
  <2> QED
    BY <2>1, <2>2, <2>3 DEF TokensFit
<1>4. TokensHandedOut'
  <2>1. \A d \in Calls : HandedOut(d) => HandedOut(d)'
    <3> SUFFICES ASSUME NEW d \in Calls, HandedOut(d) PROVE HandedOut(d)'
      OBVIOUS
    <3>1. d # c /\ d \in Tokens
      BY <1>a DEF HandedOut, Tokens
    <3> QED
      BY <3>1, <1>a, <1>b DEF HandedOut
  <2> QED
    BY <2>1 DEF TokensHandedOut, Browser, Tab
<1>5. OneChain'
  <2> SUFFICES ASSUME NEW t \in Issued', NEW u \in Issued', root'[t] = root'[u],
                      replacedBy'[t] = None, replacedBy'[u] = None
               PROVE  t = u \/ root'[t] \in forked'
    BY DEF OneChain
  <2>1. t # p /\ u # p /\ t \in Tokens /\ u \in Tokens
    BY <1>b, <1>c DEF Issued
  <2>2. forked \subseteq forked'
    OBVIOUS
  <2>3. ASSUME NEW v \in Issued, v # p, root[v] = root[p], replacedBy[v] = None
        PROVE  root[p] \in forked'
    BY <2>3, <2>2, <1>a DEF OneChain, p
  <2>4. CASE t = c /\ u # c
    BY <2>1, <2>3, <2>4, <1>b, <1>c
  <2>5. CASE t # c /\ u = c
    BY <2>1, <2>3, <2>5, <1>b, <1>c
  <2>6. CASE t # c /\ u # c
    BY <2>1, <2>2, <2>6, <1>b, <1>c DEF OneChain
  <2> QED
    BY <2>4, <2>5, <2>6
<1>6. RevivedOnlyWhenOvertaken'
  <2> SUFFICES ASSUME NEW t \in Live', root'[t] \in ended PROVE root'[t] \in overtaken
    BY DEF RevivedOnlyWhenOvertaken
  <2>1. t \in Tokens /\ row'[t] = "live"
    BY DEF Live
  <2>2. CASE t = c
    BY <2>2, <1>b DEF RotationsOvertaken, Rotating, p
  <2>3. CASE t # c
    BY <2>1, <2>3, <1>b DEF RevivedOnlyWhenOvertaken, Live
  <2> QED
    BY <2>2, <2>3
<1>7. RotationsOvertaken'
  <2>1. \A d \in Rotating' : d \in Rotating /\ presented[d] \in Issued
    BY <1>b DEF TypeOK, Rotating, CallsFit, TokensFit
  <2> QED
    BY <2>1, <1>b, <1>c DEF RotationsOvertaken, Issued
<1>8. RotatedCookieIsReplaced'
  <2> SUFFICES ASSUME NEW b \in Browsers, jar[b].rt # None, replacedBy'[jar[b].rt] # None
               PROVE  \E d \in Calls : presented[d] = jar[b].rt /\ stage'[d] = "granted"
    BY DEF RotatedCookieIsReplaced
  <2>1. CASE jar[b].rt = p
    BY <2>1, <1>b DEF p
  <2>2. CASE jar[b].rt # p
    <3>1. jar[b].rt \in Tokens
      BY DEF TokensFit, Issued
    <3>2. PICK d \in Calls : presented[d] = jar[b].rt /\ stage[d] = "granted"
      BY <2>2, <3>1, <1>b DEF RotatedCookieIsReplaced
    <3> QED
      BY <3>2, <1>b
  <2> QED
    BY <2>1, <2>2
<1>9. PresentedOnce'
  BY <1>t DEF TypeOK, PresentedOnce, Refreshing, Browser, Tab
<1>10. AlarmsExcused'
  BY <1>t DEF TypeOK, AlarmsExcused, Excused, Tab
<1>11. NoFalseAlarmInOneTab'
  BY <1>t DEF TypeOK, NoFalseAlarmInOneTab, Excused, Tab
<1> QED
  BY <1>1, <1>2, <1>3, <1>4, <1>5, <1>6, <1>7, <1>8, <1>9, <1>10, <1>11

\* Every live token is revoked, and every login so far has ended.
LEMMA BurnKeeps ==
  ASSUME IInv, NEW c \in Calls, Burn(c) PROVE IInv'
<1> USE DEF IInv, cookies, rows, client, server, ghosts, Burn, RevokeLive, Live, Issued, Rotating, Enter
<1>t. /\ Tab(c) \in Tabs /\ Browser(c) \in Browsers
      /\ jar[Browser(c)].at \in Tokens \cup {None} /\ jar[Browser(c)].rt \in Tokens \cup {None}
  BY CallTyped
<1>a. /\ row' \in [Tokens -> {"none", "live", "revoked"}]
      /\ ended' \subseteq Tokens /\ overtaken' \subseteq Tokens \cup {None} /\ purged' \subseteq Tokens
      /\ \A t \in Tokens : row'[t] = IF row[t] = "live" THEN "revoked" ELSE row[t]
  BY RevokedTypes
<1>b. /\ stage'[c] \in {"reporting", "cleared"} /\ \A d \in Calls \ {c} : stage'[d] = stage[d]
      /\ stage'[c] = "reporting" => stage[c] = "burning"
      /\ stage[c] \in {"burning", "closing", "revoking"}
  BY DEF TypeOK
<1>c. \A d \in Calls : d \in Tokens
  BY DEF Tokens
<1>1. TypeOK'
  <2>1. stage' \in [Calls -> Stages]
    BY DEF TypeOK, Stages
  <2> QED
    BY <2>1, <1>a DEF TypeOK
<1>2. CallsFit'
  <2> SUFFICES ASSUME NEW d \in Calls PROVE CallsFit!(d)'
    BY DEF CallsFit
  <2>1. (row'[d] = "none") <=> (row[d] = "none")
    BY <1>a, <1>c
  <2> QED
    BY <2>1, <1>b DEF CallsFit, Refreshing, Tab, Kind
<1>3. TokensFit'
  BY <1>t DEF TypeOK, TokensFit, Issued
<1>4. TokensHandedOut'
  <2>1. \A d \in Calls : HandedOut(d) => HandedOut(d)'
    BY <1>a, <1>b, <1>c DEF HandedOut
  <2> QED
    BY <2>1 DEF TokensHandedOut, Browser, Tab
<1>5. OneChain'
  BY <1>t DEF TypeOK, OneChain, Issued
<1>6. RevivedOnlyWhenOvertaken'
  BY <1>t DEF TypeOK, RevivedOnlyWhenOvertaken, Live
<1>7. RotationsOvertaken'
  BY <1>t DEF TypeOK, RotationsOvertaken, Rotating
<1>8. RotatedCookieIsReplaced'
  BY <1>t DEF TypeOK, RotatedCookieIsReplaced
<1>9. PresentedOnce'
  BY <1>t DEF TypeOK, PresentedOnce, Refreshing, Browser, Tab
<1>10. AlarmsExcused'
  BY <1>t DEF TypeOK, AlarmsExcused, Excused, Tab
<1>11. NoFalseAlarmInOneTab'
  BY <1>t DEF TypeOK, NoFalseAlarmInOneTab, Excused, Tab
<1> QED
  BY <1>1, <1>2, <1>3, <1>4, <1>5, <1>6, <1>7, <1>8, <1>9, <1>10, <1>11

\* What is reported was excused when it was found.
LEMMA ReportKeeps ==
  ASSUME IInv, NEW c \in Calls, Report(c) PROVE IInv'
<1> USE DEF IInv, cookies, rows, client, server, ghosts, Report, Enter
<1>t. /\ Tab(c) \in Tabs /\ Browser(c) \in Browsers
      /\ jar[Browser(c)].at \in Tokens \cup {None} /\ jar[Browser(c)].rt \in Tokens \cup {None}
  BY CallTyped
<1>1. TypeOK'
  BY <1>t DEF TypeOK, Places, Stages
<1>2. CallsFit'
  BY <1>t DEF TypeOK, CallsFit, Refreshing, Kind, Tab
<1>3. TokensFit'
  BY <1>t DEF TypeOK, TokensFit, Issued
<1>4. TokensHandedOut'
  BY <1>t DEF TypeOK, TokensHandedOut, HandedOut, Browser, Tab
<1>5. OneChain'
  BY <1>t DEF TypeOK, OneChain, Issued
<1>6. RevivedOnlyWhenOvertaken'
  BY <1>t DEF TypeOK, RevivedOnlyWhenOvertaken, Live
<1>7. RotationsOvertaken'
  BY <1>t DEF TypeOK, RotationsOvertaken, Rotating
<1>8. RotatedCookieIsReplaced'
  BY <1>t DEF TypeOK, RotatedCookieIsReplaced
<1>9. PresentedOnce'
  BY <1>t DEF TypeOK, PresentedOnce, Refreshing, Browser, Tab
<1>10. AlarmsExcused'
  BY <1>t DEF TypeOK, AlarmsExcused, Excused, Tab
<1>11. NoFalseAlarmInOneTab'
  <2>1. \A d \in Calls : Excused(d)' <=> Excused(d)
    BY DEF Excused, Tab
  <2>2. Excused(c)
    BY DEF AlarmsExcused
  <2> QED
    BY <2>1, <2>2 DEF TypeOK, NoFalseAlarmInOneTab
<1> QED
  BY <1>1, <1>2, <1>3, <1>4, <1>5, <1>6, <1>7, <1>8, <1>9, <1>10, <1>11

\* Logging out revokes every live token.
LEMMA LogoutKeeps ==
  ASSUME IInv, NEW c \in Calls, Logout(c) PROVE IInv'
<1> USE DEF IInv, cookies, rows, client, server, ghosts, Logout, RevokeLive, Live, Issued, Rotating, Enter
<1>t. /\ Tab(c) \in Tabs /\ Browser(c) \in Browsers
      /\ jar[Browser(c)].at \in Tokens \cup {None} /\ jar[Browser(c)].rt \in Tokens \cup {None}
  BY CallTyped
<1>a. /\ row' \in [Tokens -> {"none", "live", "revoked"}]
      /\ ended' \subseteq Tokens /\ overtaken' \subseteq Tokens \cup {None} /\ purged' \subseteq Tokens
      /\ \A t \in Tokens : row'[t] = IF row[t] = "live" THEN "revoked" ELSE row[t]
  BY RevokedTypes
<1>b. /\ stage'[c] \in {"reporting", "cleared"} /\ \A d \in Calls \ {c} : stage'[d] = stage[d]
      /\ stage'[c] = "reporting" => stage[c] = "burning"
      /\ stage[c] \in {"burning", "closing", "revoking"}
  BY DEF TypeOK
<1>c. \A d \in Calls : d \in Tokens
  BY DEF Tokens
<1>1. TypeOK'
  <2>1. stage' \in [Calls -> Stages]
    BY DEF TypeOK, Stages
  <2> QED
    BY <2>1, <1>a DEF TypeOK
<1>2. CallsFit'
  <2> SUFFICES ASSUME NEW d \in Calls PROVE CallsFit!(d)'
    BY DEF CallsFit
  <2>1. (row'[d] = "none") <=> (row[d] = "none")
    BY <1>a, <1>c
  <2> QED
    BY <2>1, <1>b DEF CallsFit, Refreshing, Tab, Kind
<1>3. TokensFit'
  BY <1>t DEF TypeOK, TokensFit, Issued
<1>4. TokensHandedOut'
  <2>1. \A d \in Calls : HandedOut(d) => HandedOut(d)'
    BY <1>a, <1>b, <1>c DEF HandedOut
  <2> QED
    BY <2>1 DEF TokensHandedOut, Browser, Tab
<1>5. OneChain'
  BY <1>t DEF TypeOK, OneChain, Issued
<1>6. RevivedOnlyWhenOvertaken'
  BY <1>t DEF TypeOK, RevivedOnlyWhenOvertaken, Live
<1>7. RotationsOvertaken'
  BY <1>t DEF TypeOK, RotationsOvertaken, Rotating
<1>8. RotatedCookieIsReplaced'
  BY <1>t DEF TypeOK, RotatedCookieIsReplaced
<1>9. PresentedOnce'
  BY <1>t DEF TypeOK, PresentedOnce, Refreshing, Browser, Tab
<1>10. AlarmsExcused'
  BY <1>t DEF TypeOK, AlarmsExcused, Excused, Tab
<1>11. NoFalseAlarmInOneTab'
  BY <1>t DEF TypeOK, NoFalseAlarmInOneTab, Excused, Tab
<1> QED
  BY <1>1, <1>2, <1>3, <1>4, <1>5, <1>6, <1>7, <1>8, <1>9, <1>10, <1>11

\* The cookies change with the answer: nobody held the granted token before.
LEMMA DeliverKeeps ==
  ASSUME IInv, NEW c \in Calls, Deliver(c) PROVE IInv'
<1> USE DEF IInv, cookies, rows, client, server, ghosts, Deliver, Answered, CookiesAfter, Refreshing, Settle, GaveUp, Goto, Enter
<1>t. /\ Tab(c) \in Tabs /\ Browser(c) \in Browsers
      /\ jar[Browser(c)].at \in Tokens \cup {None} /\ jar[Browser(c)].rt \in Tokens \cup {None}
  BY CallTyped
<1>a. stage[c] \in {"granted", "denied", "cleared"} /\ c \notin cut
  OBVIOUS
<1>b. /\ \A b \in Browsers \ {Browser(c)} : jar'[b] = jar[b]
      /\ jar'[Browser(c)] = CookiesAfter(c)
      /\ stage'[c] = "ended" /\ \A d \in Calls \ {c} : stage'[d] = stage[d]
  BY <1>t DEF TypeOK
<1>c. /\ CookiesAfter(c) \in Jars
      /\ stage[c] = "granted" => CookiesAfter(c).rt = c
      /\ stage[c] = "cleared" => CookiesAfter(c).rt = None
      /\ stage[c] = "denied" => CookiesAfter(c).rt = jar[Browser(c)].rt
  BY <1>t, <1>a DEF TypeOK, Jars, Tokens
<1>d. stage[c] = "granted" => /\ row[c] # "none" /\ c \in Issued
                              /\ \A b \in Browsers : jar[b].rt # c
                              /\ \A d \in Calls : presented[d] # c
  BY DEF CallsFit, TokensHandedOut, HandedOut, Issued, Tokens
<1>e. \A b \in Browsers :
        \/ jar'[b].rt = jar[b].rt /\ (b = Browser(c) => stage[c] = "denied")
        \/ b = Browser(c) /\ stage[c] = "granted" /\ jar'[b].rt = c
        \/ b = Browser(c) /\ stage[c] = "cleared" /\ jar'[b].rt = None
  BY <1>a, <1>b, <1>c
<1>f. /\ pc' \in [Calls -> Places]
      /\ carries' \in [Calls -> Tokens \cup {None}]
      /\ refreshInFlight' \in [Tabs -> Calls \cup {None}]
      /\ \A d \in Calls : Refreshing(d)' <=> Refreshing(d) /\ d # c
      /\ pc'[c] \in {"refused", "signedOut", "ok", "resent"}
      /\ pc'[c] = "resent" => Kind(c) # "login"
      /\ \A d \in Calls \ {c} :
           \/ pc'[d] = pc[d]
           \/ pc[d] = "waiting" /\ ~Refreshing(d) /\ pc'[d] \in {"resent", "refused", "signedOut"}
  <2>1. CookiesAfter(c).at \in Tokens \cup {None} /\ (stage[c] = "granted") \in BOOLEAN
    BY <1>c DEF Jars
  <2>2. \/ Refreshing(c) /\ Settle(c, stage[c] = "granted", CookiesAfter(c).at)
        \/ ~Refreshing(c) /\ Goto(c, "ok") /\ UNCHANGED <<carries, refreshInFlight>>
    BY DEF Deliver
  <2> HIDE DEF Settle, Goto, CookiesAfter, Refreshing
  <2> QED
    BY <2>1, <2>2, SettledShape
<1>1. TypeOK'
  <2>1. jar' \in [Browsers -> Jars] /\ stage' \in [Calls -> Stages]
    BY <1>c, <1>t DEF TypeOK, Stages
  <2> QED
    BY <2>1, <1>f DEF TypeOK
<1>2. CallsFit'
  <2> SUFFICES ASSUME NEW d \in Calls PROVE CallsFit!(d)'
    BY DEF CallsFit
  <2> HIDE DEF Settle, Goto, CookiesAfter, Refreshing, Deliver, Enter
  <2>u. UNCHANGED <<rows, body, presented, cut, incidents>>
    BY DEF Deliver
  <2>1. CASE d = c
    BY <2>1, <2>u, <1>a, <1>b, <1>f DEF CallsFit, Kind
  <2>2. CASE d # c
    BY <2>2, <2>u, <1>b, <1>f DEF CallsFit, Kind
  <2> QED
    BY <2>1, <2>2
<1>3. TokensFit'
  <2> HIDE DEF Settle, Goto, CookiesAfter, Refreshing, Deliver, Enter
  <2>u. UNCHANGED <<stale, expired, rows, body, presented, cut, incidents, ghosts>>
    BY DEF Deliver
  <2>1. ASSUME NEW t \in Tokens, replacedBy[t] # None
        PROVE  \E d \in Calls : presented[d] = t /\ stage'[d] \notin {"none", "finding", "rotating"}
    <3>1. PICK d \in Calls : presented[d] = t /\ stage[d] \notin {"none", "finding", "rotating"}
      BY <2>1 DEF TokensFit
    <3> QED
      BY <3>1, <1>b
  <2>2. \A b \in Browsers : jar'[b].rt # None => jar'[b].rt \in Issued
    BY <1>d, <1>e DEF TokensFit
  <2> QED
    BY <2>u, <2>1, <2>2 DEF TokensFit, Issued
<1>4. TokensHandedOut'
  <2> HIDE DEF Settle, Goto, CookiesAfter, Refreshing, Deliver, Enter
  <2>u. UNCHANGED <<stale, expired, rows, body, presented, cut, incidents, ghosts>>
    BY DEF Deliver
  <2>1. \A d \in Calls : HandedOut(d) => HandedOut(d)'
    BY <2>u, <1>b DEF HandedOut
  <2>2. ASSUME NEW d \in Calls, NEW b \in Browsers, jar'[b].rt = d PROVE HandedOut(d)'
    <3>1. d # None
      BY NoneAssumption DEF Tokens
    <3> QED
      BY <2>u, <2>1, <2>2, <3>1, <1>b, <1>d, <1>e DEF TokensHandedOut, HandedOut
  <2>3. ASSUME NEW d \in Calls, NEW e \in Calls, presented[e] = d PROVE HandedOut(d)'
    BY <2>1, <2>3 DEF TokensHandedOut
  <2>4. ASSUME NEW a \in Browsers, NEW b \in Browsers, jar'[a].rt = jar'[b].rt
        PROVE  a = b \/ jar'[a].rt = None
    BY <2>4, <1>d, <1>e DEF TokensHandedOut
  <2>5. ASSUME NEW d \in Calls, NEW b \in Browsers, presented[d] # None, jar'[b].rt = presented[d]
        PROVE  b = Browser(d)
    BY <2>5, <1>d, <1>e DEF TokensHandedOut
  <2> QED
    BY <2>u, <2>2, <2>3, <2>4, <2>5 DEF TokensHandedOut, Browser, Tab
<1>5. OneChain'
  BY <1>t DEF TypeOK, OneChain, Issued
<1>6. RevivedOnlyWhenOvertaken'
  BY <1>t DEF TypeOK, RevivedOnlyWhenOvertaken, Live
<1>7. RotationsOvertaken'
  BY <1>t DEF TypeOK, RotationsOvertaken, Rotating
<1>8. RotatedCookieIsReplaced'
  <2> HIDE DEF Settle, Goto, CookiesAfter, Refreshing, Deliver, Enter
  <2>u. UNCHANGED <<stale, expired, rows, body, presented, cut, incidents, ghosts>>
    BY DEF Deliver
  <2> SUFFICES ASSUME NEW b \in Browsers, jar'[b].rt # None, replacedBy[jar'[b].rt] # None
               PROVE  \E d \in Calls : presented[d] = jar'[b].rt /\ stage'[d] = "granted"
    BY <2>u DEF RotatedCookieIsReplaced
  <2>1. ~(stage[c] = "granted" /\ jar'[b].rt = c)
    BY <1>d DEF TokensFit, Issued
  <2>2. jar'[b].rt = jar[b].rt /\ (b = Browser(c) => stage[c] = "denied")
    BY <1>e, <2>1
  <2>3. PICK d \in Calls : presented[d] = jar[b].rt /\ stage[d] = "granted"
    BY <2>2 DEF RotatedCookieIsReplaced
  <2>4. b = Browser(d)
    BY <2>2, <2>3 DEF TokensHandedOut
  <2> QED
    BY <2>2, <2>3, <2>4, <1>b
<1>9. PresentedOnce'
  <2> HIDE DEF Settle, Goto, CookiesAfter, Refreshing, Deliver, Enter
  <2>u. UNCHANGED <<body, presented, cut>>
    BY DEF Deliver
  <2> SUFFICES ASSUME NEW d \in Calls, presented[d] # None, d \notin cut
               PROVE  Refreshing(d)' \/ jar'[Browser(d)].rt # presented[d]
    BY <2>u DEF PresentedOnce, Browser, Tab
  <2>1. Browser(d) \in Browsers
    BY CallTyped
  <2>2. CASE d = c
    <3>1. stage[c] # "denied"
      BY <2>2 DEF CallsFit
    <3> QED
      BY <2>1, <2>2, <3>1, <1>d, <1>e
  <2>3. CASE d # c
    BY <2>1, <2>3, <1>d, <1>e, <1>f DEF PresentedOnce
  <2> QED
    BY <2>2, <2>3
<1>10. AlarmsExcused'
  BY <1>t DEF TypeOK, AlarmsExcused, Excused, Tab
<1>11. NoFalseAlarmInOneTab'
  BY <1>t DEF TypeOK, NoFalseAlarmInOneTab, Excused, Tab
<1> QED
  BY <1>1, <1>2, <1>3, <1>4, <1>5, <1>6, <1>7, <1>8, <1>9, <1>10, <1>11

\* The connection breaks: the cookies stay, and the call's token may be presented again.
LEMMA CutKeeps ==
  ASSUME IInv, NEW c \in Calls, Cut(c) PROVE IInv'
<1> USE DEF IInv, cookies, rows, client, server, ghosts, Cut, Refreshing, Settle, GaveUp, Goto
<1>t. /\ Tab(c) \in Tabs /\ Browser(c) \in Browsers
      /\ jar[Browser(c)].at \in Tokens \cup {None} /\ jar[Browser(c)].rt \in Tokens \cup {None}
  BY CallTyped
<1>f. /\ pc' \in [Calls -> Places]
      /\ carries' \in [Calls -> Tokens \cup {None}]
      /\ refreshInFlight' \in [Tabs -> Calls \cup {None}]
      /\ \A d \in Calls : Refreshing(d)' <=> Refreshing(d) /\ d # c
      /\ pc'[c] \in {"refused", "signedOut", "failed"}
      /\ \A d \in Calls \ {c} :
           \/ pc'[d] = pc[d]
           \/ pc[d] = "waiting" /\ ~Refreshing(d) /\ pc'[d] \in {"resent", "refused", "signedOut"}
  <2>1. \/ Refreshing(c) /\ Settle(c, FALSE, None)
        \/ ~Refreshing(c) /\ Goto(c, "failed") /\ UNCHANGED <<carries, refreshInFlight>>
    BY DEF Cut
  <2> HIDE DEF Settle, Goto, Refreshing
  <2> QED
    BY <2>1, SettledShape
<1>1. TypeOK'
  BY <1>f DEF TypeOK
<1>2. CallsFit'
  <2> SUFFICES ASSUME NEW d \in Calls PROVE CallsFit!(d)'
    BY DEF CallsFit
  <2>u. UNCHANGED <<rows, body, presented, stage, incidents>> /\ cut' = cut \cup {c} /\ stage[c] # "none"
    BY DEF Cut
  <2> HIDE DEF Settle, Goto, Refreshing, Cut
  <2>1. CASE d = c
    BY <2>1, <2>u, <1>f DEF CallsFit, Kind
  <2>2. CASE d # c
    BY <2>2, <2>u, <1>f DEF CallsFit, Kind
  <2> QED
    BY <2>1, <2>2
<1>3. TokensFit'
  BY <1>t DEF TypeOK, TokensFit, Issued
<1>4. TokensHandedOut'
  BY <1>t DEF TypeOK, TokensHandedOut, HandedOut, Browser, Tab
<1>5. OneChain'
  BY <1>t DEF TypeOK, OneChain, Issued
<1>6. RevivedOnlyWhenOvertaken'
  BY <1>t DEF TypeOK, RevivedOnlyWhenOvertaken, Live
<1>7. RotationsOvertaken'
  BY <1>t DEF TypeOK, RotationsOvertaken, Rotating
<1>8. RotatedCookieIsReplaced'
  BY <1>t DEF TypeOK, RotatedCookieIsReplaced
<1>9. PresentedOnce'
  <2>u. UNCHANGED <<jar, body, presented>> /\ cut' = cut \cup {c}
    BY DEF Cut
  <2> HIDE DEF Settle, Goto, Refreshing, Cut
  <2> SUFFICES ASSUME NEW d \in Calls, presented[d] # None, d \notin cut, d # c
               PROVE  /\ Refreshing(d)' \/ jar[Browser(d)].rt # presented[d]
                      /\ \A e \in Calls \ {d} :
                           presented[e] = presented[d] /\ Tab(e) = Tab(d) => e \in cut
    BY <2>u DEF PresentedOnce, Browser, Tab
  <2> QED
    BY <1>f DEF PresentedOnce
<1>10. AlarmsExcused'
  BY <1>t DEF TypeOK, AlarmsExcused, Excused, Tab
<1>11. NoFalseAlarmInOneTab'
  BY <1>t DEF TypeOK, NoFalseAlarmInOneTab, Excused, Tab
<1> QED
  BY <1>1, <1>2, <1>3, <1>4, <1>5, <1>6, <1>7, <1>8, <1>9, <1>10, <1>11

\* A token expires, with no effect on the rows or on who holds it.
LEMMA ExpireTokenKeeps ==
  ASSUME IInv, NEW t \in Tokens, ExpireAccess(t) \/ ExpireSession(t) PROVE IInv'
<1> USE DEF IInv, rows, client, server, ghosts
<1>u. /\ stale' \subseteq Tokens /\ expired' \subseteq Tokens
      /\ UNCHANGED <<jar, rows, body, client, server, ghosts>>
  BY DEF ExpireAccess, ExpireSession, TypeOK
<1>1. TypeOK' /\ CallsFit' /\ TokensFit'
  BY <1>u DEF TypeOK, CallsFit, Refreshing, Kind, Tab, TokensFit, Issued
<1>2. TokensHandedOut' /\ OneChain' /\ RevivedOnlyWhenOvertaken'
  BY <1>u DEF TokensHandedOut, HandedOut, Browser, Tab, OneChain, Issued, RevivedOnlyWhenOvertaken, Live
<1>3. RotationsOvertaken' /\ RotatedCookieIsReplaced' /\ PresentedOnce'
  BY <1>u DEF RotationsOvertaken, Rotating, RotatedCookieIsReplaced, PresentedOnce, Refreshing, Browser, Tab
<1>4. AlarmsExcused' /\ NoFalseAlarmInOneTab'
  BY <1>u DEF AlarmsExcused, NoFalseAlarmInOneTab, Excused, Tab
<1> QED
  BY <1>1, <1>2, <1>3, <1>4

\* A browser drops an expired cookie: the others keep theirs.
LEMMA ExpireCookieKeeps ==
  ASSUME IInv, NEW a \in Browsers, ExpireCookie(a) PROVE IInv'
<1> USE DEF IInv, rows, client, server, ghosts
<1>u. /\ jar' \in [Browsers -> Jars]
      /\ \A b \in Browsers : jar'[b].rt = jar[b].rt \/ jar'[b].rt = None
      /\ UNCHANGED <<stale, expired, rows, body, client, server, ghosts>>
  BY DEF ExpireCookie, TypeOK, Jars
<1>1. TypeOK' /\ CallsFit'
  BY <1>u DEF TypeOK, CallsFit, Refreshing, Kind, Tab
<1>2. TokensFit'
  BY <1>u DEF TokensFit, Issued
<1>3. TokensHandedOut'
  <2>1. \A c \in Calls : c # None
    BY NoneAssumption DEF Tokens
  <2>2. /\ \A c \in Calls : /\ \A b \in Browsers : jar'[b].rt = c => HandedOut(c)
                            /\ \A d \in Calls : presented[d] = c => HandedOut(c)
        /\ \A b1, b2 \in Browsers : jar'[b1].rt = jar'[b2].rt => b1 = b2 \/ jar'[b1].rt = None
        /\ \A c \in Calls, b \in Browsers :
             presented[c] # None /\ jar'[b].rt = presented[c] => b = Browser(c)
    BY <1>u, <2>1 DEF TokensHandedOut
  <2> QED
    BY <1>u, <2>2 DEF TokensHandedOut, HandedOut, Browser, Tab
<1>4. OneChain' /\ RevivedOnlyWhenOvertaken' /\ RotationsOvertaken'
  BY <1>u DEF OneChain, Issued, RevivedOnlyWhenOvertaken, Live, RotationsOvertaken, Rotating
<1>5. RotatedCookieIsReplaced'
  BY <1>u DEF RotatedCookieIsReplaced
<1>6. PresentedOnce'
  <2> SUFFICES ASSUME NEW d \in Calls, presented[d] # None, d \notin cut
               PROVE  Refreshing(d) \/ jar'[Browser(d)].rt # presented[d]
    BY <1>u DEF PresentedOnce, Refreshing, Browser, Tab
  <2>1. Browser(d) \in Browsers
    BY CallTyped
  <2> QED
    BY <1>u, <2>1 DEF PresentedOnce
<1>7. AlarmsExcused' /\ NoFalseAlarmInOneTab'
  BY <1>u DEF AlarmsExcused, NoFalseAlarmInOneTab, Excused, Tab
<1> QED
  BY <1>1, <1>2, <1>3, <1>4, <1>5, <1>6, <1>7

\* Before the first call every token is an earlier one, in one browser at most.
LEMMA InitFits == Init => IInv
<1> SUFFICES ASSUME Init PROVE IInv
  OBVIOUS
<1> USE DEF Init
<1>1. /\ jar \in [Browsers -> [at : Past \cup {None}, rt : Past \cup {None}]]
      /\ \A a, b \in Browsers : jar[a].rt = jar[b].rt => a = b \/ jar[a].rt = None
  BY JarAssumption
<1>2. Issued = Past /\ Live = Past
  BY PastAssumption DEF Issued, Live, Tokens
<1>3. \A c \in Calls : c \notin Past /\ c # None /\ c \in Tokens
  BY PastAssumption, NoneAssumption DEF Tokens
<1>4. TypeOK
  <2>1. jar \in [Browsers -> Jars]
    BY <1>1 DEF Jars, Tokens
  <2>2. stale \subseteq Tokens
    BY DEF Tokens
  <2>3. /\ row \in [Tokens -> {"none", "live", "revoked"}]
        /\ replacedBy \in [Tokens -> Calls \cup {None}]
        /\ root \in [Tokens -> Tokens \cup {None}]
    BY DEF Tokens
  <2>4. /\ pc \in [Calls -> Places] /\ stage \in [Calls -> Stages]
        /\ carries \in [Calls -> Tokens \cup {None}]
        /\ presented \in [Calls -> Tokens \cup {None}]
        /\ refreshInFlight \in [Tabs -> Calls \cup {None}]
    BY DEF Places, Stages
  <2> QED
    BY <2>1, <2>2, <2>3, <2>4 DEF TypeOK
<1>5. CallsFit
  <2>1. \A c \in Calls : ~Refreshing(c)
    <3> SUFFICES ASSUME NEW c \in Calls PROVE ~Refreshing(c)
      OBVIOUS
    <3> QED
      BY <1>3, <1>4, CallTyped DEF Refreshing
  <2> QED
    BY <1>3, <2>1 DEF CallsFit
<1>6. TokensFit
  BY <1>1, <1>2 DEF TokensFit, Tokens
<1>7. TokensHandedOut
  BY <1>1, <1>3 DEF TokensHandedOut
<1>8. OneChain /\ RevivedOnlyWhenOvertaken
  BY <1>2 DEF OneChain, RevivedOnlyWhenOvertaken, Tokens
<1>9. RotationsOvertaken /\ AlarmsExcused /\ NoFalseAlarmInOneTab /\ PresentedOnce
  BY DEF RotationsOvertaken, AlarmsExcused, NoFalseAlarmInOneTab, PresentedOnce
<1>10. RotatedCookieIsReplaced
  BY <1>1 DEF RotatedCookieIsReplaced, Tokens
<1> QED
  BY <1>4, <1>5, <1>6, <1>7, <1>8, <1>9, <1>10 DEF IInv

\* One of a call's ten steps that its fairness is about.
LEMMA ProgressKeeps ==
  ASSUME IInv, NEW c \in Calls, Progress(c) PROVE IInv'
<1>1. CASE Answer(c)
  BY <1>1, AnswerKeeps
<1>2. CASE Refuse(c)
  BY <1>2, RefuseKeeps
<1>3. CASE Begin(c)
  BY <1>3, BeginKeeps
<1>4. CASE CreateToken(c)
  BY <1>4, CreateTokenKeeps
<1>5. CASE FindToken(c)
  BY <1>5, FindTokenKeeps
<1>6. CASE Rotate(c)
  BY <1>6, RotateKeeps
<1>7. CASE Burn(c)
  BY <1>7, BurnKeeps
<1>8. CASE Report(c)
  BY <1>8, ReportKeeps
<1>9. CASE Logout(c)
  BY <1>9, LogoutKeeps
<1>10. CASE Deliver(c)
  BY <1>10, DeliverKeeps
<1> QED
  BY <1>1, <1>2, <1>3, <1>4, <1>5, <1>6, <1>7, <1>8, <1>9, <1>10 DEF Progress

\* Nothing has happened.
LEMMA StutterKeeps ==
  ASSUME IInv, UNCHANGED vars PROVE IInv'
<1> USE DEF IInv, vars, cookies, rows, client, server, ghosts
<1>1. TypeOK' /\ CallsFit' /\ TokensFit'
  BY DEF TypeOK, CallsFit, Refreshing, Kind, Tab, TokensFit, Issued
<1>2. TokensHandedOut' /\ OneChain' /\ RevivedOnlyWhenOvertaken'
  BY DEF TokensHandedOut, HandedOut, Browser, Tab, OneChain, Issued, RevivedOnlyWhenOvertaken, Live
<1>3. RotationsOvertaken' /\ RotatedCookieIsReplaced' /\ PresentedOnce'
  BY DEF RotationsOvertaken, Rotating, RotatedCookieIsReplaced, PresentedOnce, Refreshing, Browser, Tab
<1>4. AlarmsExcused' /\ NoFalseAlarmInOneTab'
  BY DEF AlarmsExcused, NoFalseAlarmInOneTab, Excused, Tab
<1> QED
  BY <1>1, <1>2, <1>3, <1>4

\* The inductive step.
LEMMA NextKeeps == IInv /\ [Next]_vars => IInv'
<1> SUFFICES ASSUME IInv, [Next]_vars PROVE IInv'
  OBVIOUS
<1>1. ASSUME NEW c \in Calls, Send(c) PROVE IInv'
  BY <1>1, SendKeeps
<1>2. ASSUME NEW c \in Calls, Lose(c) PROVE IInv'
  BY <1>2, LoseKeeps
<1>3. ASSUME NEW c \in Calls, Cut(c) PROVE IInv'
  BY <1>3, CutKeeps
<1>4. ASSUME NEW c \in Calls, Progress(c) PROVE IInv'
  BY <1>4, ProgressKeeps
<1>5. ASSUME NEW t \in Tokens, ExpireAccess(t) \/ ExpireSession(t) PROVE IInv'
  BY <1>5, ExpireTokenKeeps
<1>6. ASSUME NEW b \in Browsers, ExpireCookie(b) PROVE IInv'
  BY <1>6, ExpireCookieKeeps
<1>7. ASSUME Idle \/ UNCHANGED vars PROVE IInv'
  BY <1>7, StutterKeeps DEF Idle
<1> QED
  BY <1>1, <1>2, <1>3, <1>4, <1>5, <1>6, <1>7 DEF Next

\* Where each refresh token is, at every moment of every behaviour: the invariant
\* that the theorems below are read off.
THEOREM SessionsInvariant == Spec => []IInv
<1> QED
  BY InitFits, NextKeeps, PTL DEF Spec

\* The state of the clients, of the cookies and of the RefreshToken table keeps its
\* types.
THEOREM TypeCorrect == Spec => []TypeOK
<1>1. IInv => TypeOK
  BY DEF IInv
<1> QED
  BY <1>1, SessionsInvariant, PTL

\* The refresh handler's rotation (auth.service.ts 128-144) leaves one live token of
\* each login, whatever the calls, unless a token of it was rotated twice.
THEOREM RotationLeavesOneToken == Spec => []TwoLiveTakesAFork
<1>1. IInv => TwoLiveTakesAFork
  <2> SUFFICES ASSUME IInv, NEW t \in Live, NEW u \in Live, root[t] = root[u]
               PROVE  t = u \/ root[t] \in forked
    BY DEF TwoLiveTakesAFork
  <2>1. t \in Issued /\ u \in Issued /\ replacedBy[t] = None /\ replacedBy[u] = None
    BY DEF IInv, TokensFit, Live, Issued
  <2> QED
    BY <2>1 DEF IInv, OneChain
<1> QED
  BY <1>1, SessionsInvariant, PTL

\* Logout and the reaction to reuse (auth.service.ts 96-103, 159-173) revoke for good:
\* only a refresh already past its look at the row brings a login back.
THEOREM RevokedForGood == Spec => []RevivedOnlyWhenOvertaken
<1>1. IInv => RevivedOnlyWhenOvertaken
  BY DEF IInv
<1> QED
  BY <1>1, SessionsInvariant, PTL

\* A browser's cookies follow the rotation (auth.service.ts 242-298): while one names a
\* rotated token, the answer that replaces it is still to come, or was lost.
THEOREM CookiesFollowRotation == Spec => []RotatedCookieIsReplaced
<1>1. IInv => RotatedCookieIsReplaced
  BY DEF IInv
<1> QED
  BY <1>1, SessionsInvariant, PTL

\* The single-flight refresh (api.ts 67-85) keeps one tab's calls, however many, from
\* being taken for the reuse of a stolen token.
THEOREM OneTabRaisesNoAlarm == Spec => []NoFalseAlarmInOneTab
<1>1. IInv => NoFalseAlarmInOneTab
  BY DEF IInv
<1> QED
  BY <1>1, SessionsInvariant, PTL
=============================================================================
