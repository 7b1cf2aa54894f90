--------------------------- MODULE SessionsProofs ---------------------------
(***************************************************************************)
(* Proofs about sessions for any number of accounts, browsers, tabs and    *)
(* tokens: a login has one live token at most, and none once it was ended; *)
(* and the cookie of a browser stays good for a refresh.                   *)
(***************************************************************************)
EXTENDS Sessions, TLAPS

\* A token that was not made yet has no row and is a login of its own; one
\* that was made belongs to the user its login belongs to.
Families ==
    \A t \in Tokens :
        /\ owner[t] = None => refreshTokens[t] = "none" /\ login[t] = t
        /\ owner[login[t]] = owner[t]

\* Calls that were made with a token, or for a user, keep it.
CallsNameTheirs ==
    \A b \in Tabs :
        /\ call[b].at = "refresh" => call[b].token \in Tokens
        /\ call[b].at \in {"logout", "revoke"} => call[b].user \in Users

\* Only logins that happened were ended.
EndedWereMade == \A t \in Tokens : login[t] \in ended => owner[t] # None

\* The inductive invariant.
IInv ==
    /\ TypeOK
    /\ Families
    /\ CallsNameTheirs
    /\ EndedWereMade
    /\ OneTokenPerLogin
    /\ EndedLoginsStayEnded

----------------------------------------------------------------------------
\* The type of the record of a call after an answer.
LEMMA AnswerType ==
    ASSUME TypeOK, NEW b \in Tabs, NEW c \in Tokens \cup {None, Keep},
           NEW u \in Users \cup {None}, Answer(b, c, u)
    PROVE  /\ call' \in [Tabs -> Calls]
           /\ CallsNameTheirs => CallsNameTheirs'
<1>1. \A d \in Tabs : call[d] \in Calls
  BY DEF TypeOK
<1>2. call' = [call EXCEPT ![b] = [call[b] EXCEPT !.at = "answer",
                                                  !.cookie = c, !.user = u]]
  BY DEF Answer, TypeOK
<1>3. [call[b] EXCEPT !.at = "answer", !.cookie = c, !.user = u] \in Calls
  BY <1>1 DEF Calls
<1>4. call' \in [Tabs -> Calls]
  BY <1>2, <1>3 DEF TypeOK
<1>5. \A d \in Tabs \ {b} : call'[d] = call[d]
  BY <1>2 DEF TypeOK
<1>6. call'[b].at = "answer"
  BY <1>1, <1>2 DEF TypeOK, Calls
<1>7. CallsNameTheirs => CallsNameTheirs'
  BY <1>5, <1>6 DEF CallsNameTheirs
<1> QED
  BY <1>4, <1>7

\* The empty table satisfies everything.
LEMMA InitIInv == Init => IInv
<1> SUFFICES ASSUME Init PROVE IInv
  OBVIOUS
<1> USE DEF Init
<1>1. Idle \in Calls
  BY DEF Idle, Request, Calls
<1>2. TypeOK
  BY <1>1 DEF TypeOK
<1>3. Families
  BY DEF Families
<1>4. CallsNameTheirs
  BY DEF CallsNameTheirs, Idle, Request
<1>5. EndedWereMade /\ OneTokenPerLogin /\ EndedLoginsStayEnded
  BY DEF EndedWereMade, OneTokenPerLogin, EndedLoginsStayEnded
<1> QED
  BY <1>2, <1>3, <1>4, <1>5 DEF IInv

\* A step that only takes rows away or revokes them, and ends logins none of
\* whose tokens it leaves alive, keeps what the invariant says of the table.
LEMMA RowsGo ==
    ASSUME IInv, UNCHANGED <<owner, login>>,
           refreshTokens' \in [Tokens -> {"none", "live", "revoked"}],
           \A t \in Tokens : refreshTokens'[t] = "live" => refreshTokens[t] = "live",
           \A t \in Tokens : refreshTokens[t] = "none" => refreshTokens'[t] = "none",
           \A t \in Tokens : login[t] \in ended' \ ended =>
               refreshTokens'[t] # "live" /\ owner[t] # None
    PROVE  Families' /\ EndedWereMade' /\ OneTokenPerLogin' /\ EndedLoginsStayEnded'
  BY DEF IInv, Families, EndedWereMade, OneTokenPerLogin, EndedLoginsStayEnded

\* A table that loses all rows of a user has no live token of the logins of
\* that user, who is a real one.
LEMMA DeletedAll ==
    ASSUME IInv, NEW u \in Users,
           refreshTokens' = DeleteRefreshTokensByUserID(refreshTokens, u),
           ended' = ended \cup Logins(u), UNCHANGED <<owner, login>>
    PROVE  /\ refreshTokens' \in [Tokens -> {"none", "live", "revoked"}]
           /\ ended' \subseteq Tokens
           /\ Families' /\ EndedWereMade' /\ OneTokenPerLogin'
           /\ EndedLoginsStayEnded'
<1>1. \A t \in Tokens :
        refreshTokens'[t] = IF owner[t] = u THEN "none" ELSE refreshTokens[t]
  BY DEF DeleteRefreshTokensByUserID
<1>2. refreshTokens' \in [Tokens -> {"none", "live", "revoked"}]
  BY DEF DeleteRefreshTokensByUserID, IInv, TypeOK
<1>3. ended' \subseteq Tokens
  BY DEF Logins, IInv, TypeOK
<1>4. \A t \in Tokens : login[t] \in Logins(u) => owner[t] = u
  BY DEF Logins, IInv, Families, TypeOK
<1>5. u # None
  BY NoneAssumption
<1>6. \A t \in Tokens : login[t] \in ended' \ ended =>
        refreshTokens'[t] # "live" /\ owner[t] # None
  BY <1>1, <1>4, <1>5
<1> QED
  BY <1>1, <1>2, <1>3, <1>6, RowsGo

\* Nothing the invariant speaks of but calls changes.
LEMMA TableKept ==
    ASSUME IInv, UNCHANGED <<table, ended>>
    PROVE  Families' /\ EndedWereMade' /\ OneTokenPerLogin' /\ EndedLoginsStayEnded'
  BY DEF IInv, Families, EndedWereMade, OneTokenPerLogin, EndedLoginsStayEnded, table

----------------------------------------------------------------------------
\* A step that leaves the rows alone and answers, or changes a call in one of
\* the ways below, keeps the invariant.
LEMMA CallsStep ==
    ASSUME IInv, UNCHANGED <<table, ended>>, NEW b \in Tabs,
           NEW c \in Calls, call' = [call EXCEPT ![b] = c],
           c.at = "refresh" => c.token \in Tokens,
           c.at \in {"logout", "revoke"} => c.user \in Users,
           jar' \in [Browsers -> Tokens \cup {None}],
           session' \in [Tabs -> Users \cup {None}],
           expired' \subseteq Tokens, rotated' \subseteq Tokens,
           lost' \subseteq Tokens
    PROVE  IInv'
<1>1. TypeOK'
  BY DEF IInv, TypeOK, table
<1>2. CallsNameTheirs'
  BY DEF IInv, CallsNameTheirs, TypeOK
<1> QED
  BY <1>1, <1>2, TableKept DEF IInv

\* An answer, by itself, keeps the invariant.
LEMMA AnswerStep ==
    ASSUME IInv, NEW b \in Tabs, NEW k \in Tokens \cup {None, Keep},
           NEW u \in Users \cup {None}, Answer(b, k, u),
           UNCHANGED <<table, expired, jar, session, history>>
    PROVE  IInv'
<1>1. call' \in [Tabs -> Calls] /\ CallsNameTheirs'
  BY AnswerType DEF IInv
<1>2. TypeOK'
  BY <1>1 DEF IInv, TypeOK, table, history
<1> QED
  BY <1>1, <1>2, TableKept DEF IInv, history

\* A new login: its token is the only one of its login.
LEMMA LoginStep ==
    ASSUME IInv, NEW b \in Tabs, NEW u \in Users, NEW n \in Tokens, Login(b, u, n)
    PROVE  IInv'
<1> USE DEF IInv
<1>1. PICK s \in {u, None} : Answer(b, n, s)
  BY DEF Login
<1>2. call' \in [Tabs -> Calls] /\ CallsNameTheirs'
  BY <1>1, AnswerType
<1>3. u # None
  BY NoneAssumption
<1>4. /\ owner[n] = None
      /\ refreshTokens' = [refreshTokens EXCEPT ![n] = "live"]
      /\ owner' = [owner EXCEPT ![n] = u]
      /\ UNCHANGED <<login, expired, jar, session, history>>
  BY DEF Login, CreateRefreshToken
<1>5. TypeOK'
  BY <1>2, <1>4 DEF TypeOK, history
<1>6. login[n] = n /\ \A t \in Tokens : login[t] = n => t = n
  BY <1>4 DEF Families, TypeOK
<1>7. Families'
  BY <1>3, <1>4, <1>6 DEF Families, TypeOK
<1>8. EndedWereMade'
  BY <1>3, <1>4 DEF EndedWereMade, TypeOK, history
<1>9. OneTokenPerLogin'
  BY <1>4, <1>6 DEF OneTokenPerLogin, TypeOK
<1>10. n \notin ended
  BY <1>4, <1>6 DEF EndedWereMade
<1>11. EndedLoginsStayEnded'
  BY <1>4, <1>6, <1>10 DEF EndedLoginsStayEnded, TypeOK, history
<1> QED
  BY <1>2, <1>5, <1>7, <1>8, <1>9, <1>11

\* A rotation: the new token takes the place of the one it was made from.
LEMMA RotateStep ==
    ASSUME IInv, NEW b \in Tabs, NEW n \in Tokens, Rotate(b, n)
    PROVE  IInv'
<1> USE DEF IInv
<1> DEFINE t == call[b].token
<1>1. /\ call[b].at = "refresh"
      /\ owner[n] = None
      /\ refreshTokens[t] = "live"
      /\ owner' = [owner EXCEPT ![n] = owner[t]]
      /\ login' = [login EXCEPT ![n] = login[t]]
      /\ rotated' = rotated \cup {t}
      /\ \E s \in {owner[t], None} : Answer(b, n, s)
      /\ UNCHANGED <<expired, jar, session, ended, lost>>
  BY DEF Rotate, GetValidRefreshToken, Waiting
<1>2. t \in Tokens
  BY <1>1 DEF CallsNameTheirs
<1>3. owner[t] # None /\ owner[t] \in Users
  BY <1>1, <1>2 DEF Families, TypeOK
<1>4. n # t
  BY <1>1, <1>3
<1>5. PICK rows \in {CreateRefreshToken(RevokeRefreshToken(refreshTokens, t), n)} :
        refreshTokens' \in {rows, DeleteStaleRefreshTokens(rows, owner[t])}
  BY DEF Rotate
<1>6. rows = [[refreshTokens EXCEPT ![t] = IF @ = "none" THEN "none" ELSE "revoked"]
                EXCEPT ![n] = "live"]
  BY <1>5 DEF CreateRefreshToken, RevokeRefreshToken
<1>7. /\ rows \in [Tokens -> {"none", "live", "revoked"}]
      /\ rows[t] = "revoked"
      /\ rows[n] = "live"
      /\ \A s \in Tokens \ {n, t} : rows[s] = refreshTokens[s]
  BY <1>1, <1>2, <1>4, <1>6 DEF TypeOK
<1>8. /\ refreshTokens' \in [Tokens -> {"none", "live", "revoked"}]
      /\ \A s \in Tokens : refreshTokens'[s] = rows[s] \/ refreshTokens'[s] = "none"
  BY <1>5, <1>7 DEF DeleteStaleRefreshTokens
<1>9. \A s \in Tokens : refreshTokens'[s] = "live" =>
        s = n \/ (s # t /\ s # n /\ refreshTokens[s] = "live")
  BY <1>7, <1>8
<1>10. call' \in [Tabs -> Calls] /\ CallsNameTheirs'
  BY <1>1, <1>3, AnswerType
<1>11. TypeOK'
  BY <1>1, <1>2, <1>8, <1>10 DEF TypeOK
<1>12. login[n] = n /\ \A s \in Tokens : login[s] = n => s = n
  BY <1>1 DEF Families, TypeOK
<1>13. login[t] \in Tokens /\ login[t] # n /\ owner[login[t]] = owner[t]
  BY <1>2, <1>4, <1>12 DEF Families, TypeOK
<1>14. \A s \in Tokens \ {n} : owner'[s] = owner[s] /\ login'[s] = login[s]
  BY <1>1 DEF TypeOK
<1>15. owner'[n] = owner[t] /\ login'[n] = login[t]
  BY <1>1 DEF TypeOK
<1>16. Families'
  <2> SUFFICES ASSUME NEW s \in Tokens
               PROVE  /\ owner'[s] = None =>
                           refreshTokens'[s] = "none" /\ login'[s] = s
                      /\ owner'[login'[s]] = owner'[s]
    BY DEF Families
  <2>1. CASE s = n
    BY <2>1, <1>3, <1>13, <1>14, <1>15
  <2>2. CASE s # n
    <3>1. owner'[s] = owner[s] /\ login'[s] = login[s] /\ login[s] # n
      BY <2>2, <1>12, <1>14
    <3>2. login[s] \in Tokens /\ owner'[login[s]] = owner[login[s]]
      BY <3>1, <1>14 DEF TypeOK
    <3>3. owner[s] = None => s # t /\ refreshTokens[s] = "none" /\ login[s] = s
      BY <1>3 DEF Families
    <3>4. owner[s] = None => refreshTokens'[s] = "none"
      BY <3>3, <2>2, <1>7, <1>8
    <3> QED
      BY <3>1, <3>2, <3>3, <3>4 DEF Families
  <2> QED
    BY <2>1, <2>2
<1>17. EndedWereMade'
  BY <1>1, <1>3, <1>14, <1>15 DEF EndedWereMade
<1>18. OneTokenPerLogin'
  <2> SUFFICES ASSUME NEW r \in Tokens, NEW s \in Tokens,
                      refreshTokens'[r] = "live", refreshTokens'[s] = "live",
                      login'[r] = login'[s]
               PROVE  r = s
    BY DEF OneTokenPerLogin
  <2>1. CASE r = n /\ s # n
    BY <2>1, <1>1, <1>2, <1>9, <1>14, <1>15 DEF OneTokenPerLogin
  <2>2. CASE s = n /\ r # n
    BY <2>2, <1>1, <1>2, <1>9, <1>14, <1>15 DEF OneTokenPerLogin
  <2>3. CASE r # n /\ s # n
    BY <2>3, <1>9, <1>14 DEF OneTokenPerLogin
  <2> QED
    BY <2>1, <2>2, <2>3
<1>19. EndedLoginsStayEnded'
  <2>1. login[t] \notin ended
    BY <1>1, <1>2 DEF EndedLoginsStayEnded
  <2> QED
    BY <2>1, <1>1, <1>9, <1>14, <1>15 DEF EndedLoginsStayEnded
<1> QED
  BY <1>10, <1>11, <1>16, <1>17, <1>18, <1>19

\* A call that is sent, delivered or lost keeps the invariant.
LEMMA BrowserStep ==
    ASSUME IInv, NEW b \in Tabs, Browser(b)
    PROVE  IInv'
<1> USE DEF IInv
<1>1. Idle \in Calls /\ call[b] \in Calls
  BY DEF Idle, Request, Calls, TypeOK
<1>2. BrowserOf[b] \in Browsers
  BY TabAssumption
<1>3. CASE SendRefresh(b)
  <2> DEFINE t == jar[BrowserOf[b]]
             c == Request("refresh", t, None)
  <2>1. t \in Tokens
    BY <1>2, <1>3 DEF SendRefresh, TypeOK
  <2>2. c = [at |-> "refresh", token |-> t, cookie |-> Keep, user |-> None]
    BY DEF Request
  <2>3. c \in Calls
    BY <2>1, <2>2 DEF Calls
  <2>4. session' \in [Tabs -> Users \cup {None}]
    BY <1>3 DEF SendRefresh, TypeOK
  <2>5. /\ call' = [call EXCEPT ![b] = c]
        /\ UNCHANGED <<table, expired, jar, history>>
    BY <1>3 DEF SendRefresh
  <2>6. c.at = "refresh" /\ c.token = t
    BY <2>2
  <2> HIDE DEF c, t
  <2>7. UNCHANGED <<table, ended>> /\ UNCHANGED <<expired, jar, rotated, lost>>
    BY <2>5 DEF history
  <2>8. /\ jar' \in [Browsers -> Tokens \cup {None}] /\ expired' \subseteq Tokens
        /\ rotated' \subseteq Tokens /\ lost' \subseteq Tokens
    BY <2>7 DEF TypeOK
  <2>9. c.at \notin {"logout", "revoke"}
    BY <2>6
  <2> QED
    BY <2>1, <2>3, <2>4, <2>5, <2>6, <2>7, <2>8, <2>9, CallsStep
<1>4. CASE SendLogout(b)
  <2> DEFINE c == Request("logout", jar[BrowserOf[b]], session[b])
  <2>1. jar[BrowserOf[b]] \in Tokens \cup {None} /\ session[b] \in Users
    BY <1>2, <1>4 DEF SendLogout, TypeOK
  <2>2. c = [at |-> "logout", token |-> jar[BrowserOf[b]], cookie |-> Keep,
             user |-> session[b]]
    BY DEF Request
  <2>3. c \in Calls
    BY <2>1, <2>2 DEF Calls
  <2>4. /\ call' = [call EXCEPT ![b] = c]
        /\ UNCHANGED <<table, expired, jar, session, history>>
    BY <1>4 DEF SendLogout
  <2>5. c.at = "logout" /\ c.user \in Users
    BY <2>1, <2>2
  <2> HIDE DEF c
  <2> QED
    BY <2>3, <2>4, <2>5, CallsStep DEF TypeOK, history
<1>5. CASE Deliver(b)
  <2>1. call[b].cookie \in Tokens \cup {None, Keep} /\ call[b].user \in Users \cup {None}
    BY <1>1 DEF Calls
  <2>2. jar' \in [Browsers -> Tokens \cup {None}]
    BY <1>2, <1>5, <2>1 DEF Deliver, StoreCookie, TypeOK
  <2>3. session' \in [Tabs -> Users \cup {None}]
    BY <1>5, <2>1 DEF Deliver, TypeOK
  <2>4. call' = [call EXCEPT ![b] = Idle] /\ UNCHANGED <<table, expired, history>>
    BY <1>5 DEF Deliver
  <2>5. Idle.at \notin {"refresh", "logout", "revoke"}
    BY DEF Idle, Request
  <2>6. UNCHANGED <<table, ended>> /\ UNCHANGED <<expired, rotated, lost>>
    BY <2>4 DEF history
  <2>7. expired' \subseteq Tokens /\ rotated' \subseteq Tokens /\ lost' \subseteq Tokens
    BY <2>6 DEF TypeOK
  <2> QED
    BY <1>1, <2>2, <2>3, <2>4, <2>5, <2>6, <2>7, CallsStep
<1>6. CASE Lose(b)
  <2>1. lost' \subseteq Tokens
    BY <1>6 DEF Lose, TypeOK
  <2>2. session' \in [Tabs -> Users \cup {None}]
    BY <1>6 DEF Lose, TypeOK
  <2>3. /\ call' = [call EXCEPT ![b] = Idle]
        /\ UNCHANGED <<table, expired, jar, rotated, ended>>
    BY <1>6 DEF Lose
  <2>4. Idle.at = "idle"
    BY DEF Idle, Request
  <2> QED
    BY <1>1, <2>1, <2>2, <2>3, <2>4, CallsStep DEF TypeOK
<1> QED
  BY <1>3, <1>4, <1>5, <1>6 DEF Browser

\* A refresh keeps the invariant, whichever way it ends.
LEMMA RefreshStep ==
    ASSUME IInv, NEW b \in Tabs, Refresh(b)
    PROVE  IInv'
<1>1. CASE \E n \in Tokens : Rotate(b, n)
  BY <1>1, RotateStep
<1>2. CASE Reuse(b)
  <2> DEFINE u == owner[call[b].token]
  <2>1. /\ call[b].token \in Tokens
        /\ refreshTokens[call[b].token] = "revoked"
    BY <1>2 DEF Reuse, Waiting, IInv, CallsNameTheirs
  <2>2. u \in Users
    BY <2>1 DEF IInv, TypeOK, Families
  <2>3. Answer(b, None, None) /\ UNCHANGED <<owner, login, expired, jar, session, rotated, lost>>
    BY <1>2 DEF Reuse
  <2>4. call' \in [Tabs -> Calls] /\ CallsNameTheirs'
    BY <2>3, AnswerType DEF IInv
  <2>5. CASE /\ refreshTokens' = DeleteRefreshTokensByUserID(refreshTokens, u)
             /\ ended' = ended \cup Logins(u)
    <3> HIDE DEF u
    <3>1. /\ refreshTokens' \in [Tokens -> {"none", "live", "revoked"}]
          /\ ended' \subseteq Tokens
          /\ Families' /\ EndedWereMade' /\ OneTokenPerLogin'
          /\ EndedLoginsStayEnded'
      BY <2>2, <2>3, <2>5, DeletedAll
    <3>2. TypeOK'
      BY <2>3, <2>4, <3>1 DEF IInv, TypeOK
    <3> QED
      BY <2>4, <3>1, <3>2 DEF IInv
  <2>6. CASE UNCHANGED <<refreshTokens, ended>>
    BY <2>3, <2>6, AnswerStep DEF table, history
  <2> QED
    BY <1>2, <2>5, <2>6 DEF Reuse
<1>3. CASE Reject(b)
  BY <1>3, AnswerStep DEF Reject
<1>4. CASE RefreshFails(b)
  BY <1>4, AnswerStep DEF RefreshFails
<1> QED
  BY <1>1, <1>2, <1>3, <1>4 DEF Refresh

\* Each half of a logout keeps the invariant, and so does its failing.
LEMMA LogoutStep ==
    ASSUME IInv, NEW b \in Tabs, Logout(b)
    PROVE  IInv'
<1> USE DEF IInv
<1>1. call[b] \in Calls
  BY DEF TypeOK
<1>2. CASE LogoutDelete(b)
  <2>1. call[b].user \in Users
    BY <1>2 DEF LogoutDelete, Waiting, CallsNameTheirs
  <2>2. /\ refreshTokens' = DeleteRefreshTokensByUserID(refreshTokens, call[b].user)
        /\ ended' = ended \cup Logins(call[b].user)
        /\ call' = [call EXCEPT ![b].at = "revoke"]
        /\ UNCHANGED <<owner, login, expired, jar, session, rotated, lost>>
    BY <1>2 DEF LogoutDelete
  <2>3. /\ refreshTokens' \in [Tokens -> {"none", "live", "revoked"}]
        /\ ended' \subseteq Tokens
        /\ Families' /\ EndedWereMade' /\ OneTokenPerLogin'
        /\ EndedLoginsStayEnded'
    BY <2>1, <2>2, DeletedAll
  <2>4. [call[b] EXCEPT !.at = "revoke"] \in Calls
    BY <1>1 DEF Calls
  <2>5. call' \in [Tabs -> Calls]
    BY <2>2, <2>4 DEF TypeOK
  <2>6. /\ call'[b].at = "revoke" /\ call'[b].user = call[b].user
        /\ \A d \in Tabs \ {b} : call'[d] = call[d]
    BY <1>1, <2>2 DEF TypeOK, Calls
  <2>7. CallsNameTheirs'
    BY <2>1, <2>6 DEF CallsNameTheirs
  <2>8. TypeOK'
    BY <2>2, <2>3, <2>5 DEF TypeOK
  <2> QED
    BY <2>3, <2>7, <2>8
<1>3. CASE LogoutRevoke(b)
  <2>1. /\ Answer(b, None, None)
        /\ UNCHANGED <<owner, login, expired, jar, session, history>>
    BY <1>3 DEF LogoutRevoke
  <2>2. call' \in [Tabs -> Calls] /\ CallsNameTheirs'
    BY <2>1, AnswerType
  <2>3. /\ refreshTokens' \in [Tokens -> {"none", "live", "revoked"}]
        /\ \A t \in Tokens : refreshTokens'[t] = "live" => refreshTokens[t] = "live"
        /\ \A t \in Tokens : refreshTokens[t] = "none" => refreshTokens'[t] = "none"
    <3>1. CASE call[b].token = None
      BY <1>3, <3>1 DEF LogoutRevoke, TypeOK
    <3>2. CASE call[b].token # None
      <4>1. refreshTokens' = [refreshTokens EXCEPT ![call[b].token] =
                                IF @ = "none" THEN "none" ELSE "revoked"]
        BY <1>3, <3>2 DEF LogoutRevoke, RevokeRefreshToken
      <4> QED
        BY <4>1 DEF TypeOK
    <3> QED
      BY <3>1, <3>2
  <2>4. ended' \ ended = {}
    BY <2>1 DEF history
  <2>5. Families' /\ EndedWereMade' /\ OneTokenPerLogin' /\ EndedLoginsStayEnded'
    BY <2>1, <2>3, <2>4, RowsGo
  <2>6. TypeOK'
    BY <2>1, <2>2, <2>3 DEF TypeOK, history
  <2> QED
    BY <2>2, <2>5, <2>6
<1>4. CASE LogoutFails(b)
  BY <1>4, AnswerStep DEF LogoutFails
<1> QED
  BY <1>2, <1>3, <1>4 DEF Logout

\* The invariant is inductive.
LEMMA StepIInv == IInv /\ [Next]_vars => IInv'
<1> SUFFICES ASSUME IInv, [Next]_vars PROVE IInv'
  OBVIOUS
<1>1. CASE \E b \in Tabs, u \in Users, n \in Tokens : Login(b, u, n)
  BY <1>1, LoginStep
<1>2. CASE \E b \in Tabs : Refresh(b)
  BY <1>2, RefreshStep
<1>3. CASE \E b \in Tabs : Logout(b)
  BY <1>3, LogoutStep
<1>4. CASE \E b \in Tabs : Browser(b)
  BY <1>4, BrowserStep
<1>5. CASE \E t \in Tokens : Expire(t)
  <2>1. /\ expired' \subseteq Tokens
        /\ UNCHANGED <<table, jar, session, call, history>>
    BY <1>5 DEF Expire, IInv, TypeOK
  <2>2. TypeOK' /\ CallsNameTheirs'
    BY <2>1 DEF IInv, TypeOK, CallsNameTheirs, table, history
  <2> QED
    BY <2>1, <2>2, TableKept DEF IInv, history
<1>6. CASE UNCHANGED vars
  <2>1. TypeOK' /\ CallsNameTheirs'
    BY <1>6 DEF vars, IInv, TypeOK, CallsNameTheirs, table, history
  <2> QED
    BY <1>6, <2>1, TableKept DEF IInv, vars, history
<1> QED
  BY <1>1, <1>2, <1>3, <1>4, <1>5, <1>6 DEF Next

\* The invariant holds in every reachable state.
THEOREM Invariance == Spec => []IInv
  BY InitIInv, StepIInv, PTL DEF Spec

\* Rows, cookies and calls keep their types.
THEOREM TypeCorrectness == Spec => []TypeOK
<1>1. IInv => TypeOK
  BY DEF IInv
<1> QED
  BY <1>1, Invariance, PTL

\* The rotation of RefreshHandler leaves a login one live token at most,
\* for any number of tabs, lost answers and failing deletes.
THEOREM RotationKeepsOne == Spec => []OneTokenPerLogin
<1>1. IInv => OneTokenPerLogin
  BY DEF IInv
<1> QED
  BY <1>1, Invariance, PTL

\* What HandlerLogout or the reuse branch has deleted never comes back, not
\* even through a refresh that was sent before.
THEOREM LogoutIsFinal == Spec => []EndedLoginsStayEnded
<1>1. IInv => EndedLoginsStayEnded
  BY DEF IInv
<1> QED
  BY <1>1, Invariance, PTL

----------------------------------------------------------------------------
(* The cookies of browsers. *)


\* A token that is of no use only because it should not be, for a browser.
Good(t) == GetValidRefreshToken(t) \/ t \in expired \/ login[t] \in ended \cup lost

\* Every token that a browser holds, has sent or is being sent was made.
HeldWereMade ==
    /\ \A w \in Browsers : jar[w] # None => owner[jar[w]] # None
    /\ \A b \in Tabs : /\ call[b].token # None => owner[call[b].token] # None
                       /\ call[b].cookie \in Tokens => owner[call[b].cookie] # None

\* A token is the cookie of one browser, and only its tabs send it.
OneHolder ==
    \A w \in Browsers : jar[w] # None =>
        /\ \A v \in Browsers : jar[v] = jar[w] => v = w
        /\ \A b \in Tabs : call[b].token = jar[w] => BrowserOf[b] = w

\* The token of an answer is known to nobody before that arrives, and so no
\* refresh or logout has taken it.
AnswersAreNew ==
    \A b \in Tabs : call[b].cookie \in Tokens =>
        /\ Waiting(b, "answer")
        /\ Good(call[b].cookie)
        /\ \A w \in Browsers : jar[w] # call[b].cookie
        /\ \A c \in Tabs : /\ call[c].token # call[b].cookie
                           /\ c # b => call[c].cookie # call[b].cookie

\* The answer to b takes the place of the cookie t.
Replaces(b, t) ==
    /\ Waiting(b, "answer")
    /\ \/ call[b].cookie = None /\ call[b].token = t
       \/ call[b].cookie \in Tokens /\ login[call[b].cookie] = login[t]

\* CookieIsLive, where an answer that clears the cookie is about this cookie.
CookiesAreCovered ==
    \A w \in Browsers : jar[w] # None =>
        Good(jar[w]) \/ \E b \in Tabs : BrowserOf[b] = w /\ Replaces(b, jar[w])

\* The inductive invariant of cookies, on top of the one of rows.
CookieInv == HeldWereMade /\ OneHolder /\ AnswersAreNew /\ CookiesAreCovered


\* What a token or an absent one is.
LEMMA Absent == None \notin Tokens /\ Keep \notin Tokens /\ Keep # None
BY NoneAssumption, KeepAssumption

LEMMA InitCookies == Init => CookieInv
<1> SUFFICES ASSUME Init PROVE CookieInv
  OBVIOUS
<1>1. \A w \in Browsers : jar[w] = None
  BY DEF Init
<1>2. \A b \in Tabs : call[b].token = None /\ call[b].cookie = Keep
  BY DEF Init, Idle, Request
<1> QED
  BY <1>1, <1>2, Absent DEF CookieInv, HeldWereMade, OneHolder, AnswersAreNew, CookiesAreCovered

\* A step that answers b, or makes a new call of it, with k and leaves the
\* cookies alone: enough for CookieInv is that a token stays good unless the
\* answer replaces it, and that k is new.
LEMMA AnswersCover ==
    ASSUME TypeOK, CookieInv, NEW b \in Tabs, NEW k \in Tokens \cup {None, Keep},
           UNCHANGED jar,
           call[b].cookie \notin Tokens, call[b].at # "answer",
           call' \in [Tabs -> Calls],
           \A c \in Tabs \ {b} : call'[c] = call[c],
           call'[b].cookie = k, call'[b].token = call[b].token,
           call'[b].at = "answer",
           k \in Tokens => owner[k] = None /\ owner'[k] # None /\ Good(k)',
           \A t \in Tokens : owner[t] # None =>
               /\ owner'[t] # None /\ login'[t] = login[t]
               /\ Good(t) =>
                      Good(t)' \/ /\ call[b].token = t
                                  /\ k = None \/ (k \in Tokens /\ login'[k] = login[t])
    PROVE  CookieInv'
<1> USE Absent
<1>1. /\ jar \in [Browsers -> Tokens \cup {None}]
      /\ \A c \in Tabs : /\ call[c].token \in Tokens \cup {None}
                         /\ call[c].cookie \in Tokens \cup {None, Keep}
  BY DEF TypeOK, Calls
<1>2. HeldWereMade'
  <2>1. \A w \in Browsers : jar[w] # None => owner'[jar[w]] # None
    BY <1>1 DEF CookieInv, HeldWereMade
  <2>2. ASSUME NEW c \in Tabs
        PROVE  /\ call'[c].token # None => owner'[call'[c].token] # None
               /\ call'[c].cookie \in Tokens => owner'[call'[c].cookie] # None
    BY <1>1 DEF CookieInv, HeldWereMade
  <2> QED
    BY <2>1, <2>2 DEF HeldWereMade
<1>3. OneHolder'
  <2>1. \A c \in Tabs : call'[c].token = call[c].token
    OBVIOUS
  <2> QED
    BY <2>1 DEF CookieInv, OneHolder
<1>4. AnswersAreNew'
  <2> SUFFICES ASSUME NEW d \in Tabs, call'[d].cookie \in Tokens
               PROVE  /\ call'[d].at = "answer" /\ Good(call[d].cookie)'
                      /\ \A w \in Browsers : jar[w] # call'[d].cookie
                      /\ \A c \in Tabs :
                             /\ call'[c].token # call'[d].cookie
                             /\ c # d => call'[c].cookie # call'[d].cookie
    BY DEF AnswersAreNew, Waiting
  <2>1. CASE d = b
    BY <1>1, <2>1 DEF CookieInv, HeldWereMade
  <2>2. CASE d # b
    <3>1. call'[d] = call[d]
      BY <2>2
    <3>2. /\ call[d].at = "answer" /\ Good(call[d].cookie)
          /\ \A w \in Browsers : jar[w] # call[d].cookie
          /\ \A c \in Tabs : /\ call[c].token # call[d].cookie
                             /\ c # d => call[c].cookie # call[d].cookie
          /\ owner[call[d].cookie] # None
      BY <3>1 DEF CookieInv, AnswersAreNew, Waiting, HeldWereMade
    <3>3. call[b].token # call[d].cookie /\ k # call[d].cookie
      BY <3>1, <3>2
    <3>4. Good(call[d].cookie)'
      <4>1. PICK t \in Tokens : t = call[d].cookie
        BY <3>1
      <4>2. Good(t)'
        BY <3>2, <3>3, <4>1
      <4> QED
        BY <3>1, <4>1, <4>2 DEF Good, GetValidRefreshToken
    <3> QED
      BY <3>1, <3>2, <3>3, <3>4 DEF Good, GetValidRefreshToken
  <2> QED
    BY <2>1, <2>2
<1>5. CookiesAreCovered'
  <2> SUFFICES ASSUME NEW w \in Browsers, jar[w] # None
               PROVE  Good(jar[w])' \/ \E d \in Tabs : BrowserOf[d] = w /\ Replaces(d, jar[w])'
    BY DEF CookiesAreCovered
  <2> DEFINE t == jar[w]
  <2>1. t \in Tokens /\ owner[t] # None /\ t' = t
    BY <1>1 DEF CookieInv, HeldWereMade
  <2>2. CASE Good(t)
    <3>1. CASE Good(t)'
      BY <3>1
    <3>2. CASE /\ call[b].token = t
               /\ k = None \/ (k \in Tokens /\ login'[k] = login[t])
      <4>1. BrowserOf[b] = w
        BY <3>2 DEF CookieInv, OneHolder
      <4>2. login'[t] = login[t]
        BY <2>1
      <4>3. Replaces(b, t)'
        BY <3>2, <2>1, <4>2 DEF Replaces, Waiting
      <4> QED
        BY <4>1, <4>3
    <3> QED
      BY <2>1, <2>2, <3>1, <3>2
  <2>3. CASE ~Good(t)
    <3>1. PICK d \in Tabs : BrowserOf[d] = w /\ Replaces(d, t)
      BY <2>3 DEF CookieInv, CookiesAreCovered
    <3>2. d # b /\ call'[d] = call[d]
      BY <3>1 DEF Replaces, Waiting
    <3>3. login'[t] = login[t]
      BY <2>1
    <3>4. call[d].cookie \in Tokens => login'[call[d].cookie] = login[call[d].cookie]
      BY DEF CookieInv, HeldWereMade
    <3>5. Replaces(d, t)'
      BY <2>1, <3>1, <3>2, <3>3, <3>4 DEF Replaces, Waiting
    <3> QED
      BY <3>1, <3>5
  <2> QED
    BY <2>2, <2>3
<1> QED
  BY <1>2, <1>3, <1>4, <1>5 DEF CookieInv

\* A step that makes a new call of b, or moves it on, and leaves the cookies
\* alone: enough is that tokens stay good.
LEMMA RequestsCover ==
    ASSUME TypeOK, CookieInv, NEW b \in Tabs, UNCHANGED <<jar, owner, login>>,
           call[b].at # "answer",
           call' \in [Tabs -> Calls],
           \A c \in Tabs \ {b} : call'[c] = call[c],
           call'[b].at # "answer", call'[b].cookie \notin Tokens,
           call'[b].token \in {call[b].token, jar[BrowserOf[b]]},
           \A t \in Tokens : owner[t] # None /\ Good(t) => Good(t)'
    PROVE  CookieInv'
<1> USE Absent
<1>1. /\ jar \in [Browsers -> Tokens \cup {None}]
      /\ \A c \in Tabs : /\ call[c].token \in Tokens \cup {None}
                         /\ call[c].cookie \in Tokens \cup {None, Keep}
  BY DEF TypeOK, Calls
<1>2. BrowserOf[b] \in Browsers
  BY TabAssumption
<1>3. HeldWereMade'
  BY <1>1, <1>2 DEF CookieInv, HeldWereMade
<1>4. OneHolder'
  BY <1>1, <1>2 DEF CookieInv, OneHolder
<1>5. AnswersAreNew'
  <2> SUFFICES ASSUME NEW d \in Tabs, call'[d].cookie \in Tokens
               PROVE  /\ call'[d].at = "answer" /\ Good(call[d].cookie)'
                      /\ \A w \in Browsers : jar[w] # call'[d].cookie
                      /\ \A c \in Tabs :
                             /\ call'[c].token # call'[d].cookie
                             /\ c # d => call'[c].cookie # call'[d].cookie
    BY DEF AnswersAreNew, Waiting
  <2>1. d # b /\ call'[d] = call[d]
    OBVIOUS
  <2>2. /\ call[d].at = "answer" /\ Good(call[d].cookie)
        /\ \A w \in Browsers : jar[w] # call[d].cookie
        /\ \A c \in Tabs : /\ call[c].token # call[d].cookie
                           /\ c # d => call[c].cookie # call[d].cookie
        /\ owner[call[d].cookie] # None
    BY <2>1 DEF CookieInv, AnswersAreNew, Waiting, HeldWereMade
  <2>3. PICK t \in Tokens : t = call[d].cookie
    BY <2>1
  <2>4. Good(t)'
    BY <2>2, <2>3
  <2>5. Good(call[d].cookie)'
    BY <2>1, <2>3, <2>4 DEF Good, GetValidRefreshToken
  <2> QED
    BY <1>1, <1>2, <2>1, <2>2, <2>5
<1>6. CookiesAreCovered'
  <2> SUFFICES ASSUME NEW w \in Browsers, jar[w] # None
               PROVE  Good(jar[w])' \/ \E d \in Tabs : BrowserOf[d] = w /\ Replaces(d, jar[w])'
    BY DEF CookiesAreCovered
  <2> DEFINE t == jar[w]
  <2>1. t \in Tokens /\ owner[t] # None /\ t' = t
    BY <1>1 DEF CookieInv, HeldWereMade
  <2>2. CASE Good(t)
    BY <2>1, <2>2
  <2>3. CASE ~Good(t)
    <3>1. PICK d \in Tabs : BrowserOf[d] = w /\ Replaces(d, t)
      BY <2>3 DEF CookieInv, CookiesAreCovered
    <3>2. d # b /\ call'[d] = call[d]
      BY <3>1 DEF Replaces, Waiting
    <3>3. Replaces(d, t)'
      BY <2>1, <3>1, <3>2 DEF Replaces, Waiting
    <3> QED
      BY <3>1, <3>3
  <2> QED
    BY <2>2, <2>3
<1> QED
  BY <1>3, <1>4, <1>5, <1>6 DEF CookieInv

\* Time passes, or nothing happens.
LEMMA CookiesKept ==
    ASSUME TypeOK, CookieInv, UNCHANGED <<jar, owner, login, call>>,
           \A t \in Tokens : Good(t) => Good(t)'
    PROVE  CookieInv'
<1>1. /\ jar \in [Browsers -> Tokens \cup {None}]
      /\ \A c \in Tabs : call[c].cookie \in Tokens \cup {None, Keep}
  BY DEF TypeOK, Calls
<1>2. HeldWereMade' /\ OneHolder'
  BY DEF CookieInv, HeldWereMade, OneHolder
<1>3. AnswersAreNew'
  BY DEF CookieInv, AnswersAreNew, Waiting
<1>4. ASSUME NEW b \in Tabs, NEW t \in Tokens
      PROVE  Replaces(b, t)' = Replaces(b, t)
  BY DEF Replaces, Waiting
<1>5. CookiesAreCovered'
  BY <1>1, <1>4 DEF CookieInv, CookiesAreCovered
<1> QED
  BY <1>2, <1>3, <1>5 DEF CookieInv

\* The answer to b arrives or is lost, and it waits for nothing any more.
LEMMA SettledCover ==
    ASSUME IInv, CookieInv, NEW b \in Tabs, Deliver(b) \/ Lose(b)
    PROVE  CookieInv'
<1> USE Absent
<1> DEFINE k == call[b].cookie
           v == BrowserOf[b]
<1>1. /\ jar \in [Browsers -> Tokens \cup {None}]
      /\ \A c \in Tabs : /\ call[c].token \in Tokens \cup {None}
                         /\ call[c].cookie \in Tokens \cup {None, Keep}
      /\ v \in Browsers
  BY TabAssumption DEF IInv, TypeOK, Calls
<1>2. /\ call'[b].token = None /\ call'[b].cookie = Keep
      /\ \A c \in Tabs \ {b} : call'[c] = call[c]
      /\ UNCHANGED <<refreshTokens, owner, login, expired, ended>>
  BY DEF Deliver, Lose, Idle, Request, IInv, TypeOK, table, history
<1>3. \A t \in Tokens : Good(t) => Good(t)'
  BY <1>2 DEF Deliver, Lose, Good, GetValidRefreshToken, history
<1>4. /\ \A w \in Browsers \ {v} : jar'[w] = jar[w]
      /\ jar'[v] \in {jar[v], k}
      /\ jar'[v] # jar[v] => k \in Tokens \cup {None}
  BY <1>1 DEF Deliver, Lose, StoreCookie
<1>5. ASSUME k \in Tokens
      PROVE  /\ Good(k) /\ owner[k] # None
             /\ \A w \in Browsers : jar[w] # k
             /\ \A c \in Tabs : call[c].token # k /\ (c # b => call[c].cookie # k)
  BY <1>5 DEF CookieInv, AnswersAreNew, HeldWereMade
<1> HIDE DEF k
<1>6. HeldWereMade'
  BY <1>1, <1>2, <1>4, <1>5 DEF CookieInv, HeldWereMade
<1>7. OneHolder'
  BY <1>1, <1>2, <1>4, <1>5 DEF CookieInv, OneHolder
<1>8. AnswersAreNew'
  <2> SUFFICES ASSUME NEW d \in Tabs, call'[d].cookie \in Tokens
               PROVE  /\ call'[d].at = "answer" /\ Good(call[d].cookie)'
                      /\ \A w \in Browsers : jar'[w] # call'[d].cookie
                      /\ \A c \in Tabs :
                             /\ call'[c].token # call'[d].cookie
                             /\ c # d => call'[c].cookie # call'[d].cookie
    BY DEF AnswersAreNew, Waiting
  <2>1. d # b /\ call'[d] = call[d]
    BY <1>2
  <2>2. /\ call[d].at = "answer" /\ Good(call[d].cookie)
        /\ \A w \in Browsers : jar[w] # call[d].cookie
        /\ \A c \in Tabs : /\ call[c].token # call[d].cookie
                           /\ c # d => call[c].cookie # call[d].cookie
    BY <2>1 DEF CookieInv, AnswersAreNew, Waiting
  <2>3. PICK t \in Tokens : t = call[d].cookie
    BY <2>1
  <2>4. Good(t)'
    BY <1>3, <2>2, <2>3
  <2>5. Good(call[d].cookie)'
    BY <2>1, <2>3, <2>4 DEF Good, GetValidRefreshToken
  <2>6. k # call[d].cookie
    BY <2>1, <2>2 DEF k
  <2> QED
    BY <1>1, <1>2, <1>4, <2>1, <2>2, <2>5, <2>6
<1>9. CookiesAreCovered'
  <2> SUFFICES ASSUME NEW w \in Browsers, NEW t \in Tokens, t = jar'[w]
               PROVE  Good(t)' \/ \E d \in Tabs : BrowserOf[d] = w /\ Replaces(d, t)'
    <3>1. \A w \in Browsers : jar'[w] # None => jar'[w] \in Tokens
      BY <1>1, <1>4, <1>5
    <3>2. ASSUME \A w \in Browsers, t \in Tokens : t = jar'[w] =>
                     Good(t)' \/ \E d \in Tabs : BrowserOf[d] = w /\ Replaces(d, t)'
          PROVE  CookiesAreCovered'
      BY <3>1, <3>2 DEF CookiesAreCovered, Good, GetValidRefreshToken, Replaces, Waiting
    <3> QED
      BY <3>2
  <2>1. CASE t = k
    BY <1>3, <1>5, <2>1
  <2>2. CASE t # k
    <3>1. jar[w] = t
      BY <1>4, <2>2
    <3>2. CASE Good(t)
      BY <1>3, <3>2
    <3>3. CASE ~Good(t)
      <4>1. PICK d \in Tabs : BrowserOf[d] = w /\ Replaces(d, t)
        BY <3>1, <3>3 DEF CookieInv, CookiesAreCovered
      <4>2. CASE d # b
        <5>1. Replaces(d, t)'
          BY <1>2, <4>1, <4>2 DEF Replaces, Waiting
        <5> QED
          BY <4>1, <5>1
      <4>3. CASE d = b
        <5>1. /\ \/ k = None /\ call[b].token = t
                 \/ k \in Tokens /\ login[k] = login[t]
              /\ v = w
          BY <4>1, <4>3 DEF Replaces, k
        <5>2. ASSUME Deliver(b) PROVE FALSE
          <6>1. jar'[v] = k
            BY <1>1, <5>1, <5>2 DEF Deliver, StoreCookie, k
          <6> QED
            BY <2>2, <5>1, <6>1
        <5>3. login[t] \in lost'
          BY <5>1, <5>2 DEF Lose, k
        <5> QED
          BY <1>2, <5>3 DEF Good
      <4> QED
        BY <4>2, <4>3
    <3> QED
      BY <3>2, <3>3
  <2> QED
    BY <2>1, <2>2
<1> QED
  BY <1>6, <1>7, <1>8, <1>9 DEF CookieInv

\* A call that waits for the server has no token in its answer yet.
LEMMA NothingGivenYet ==
    ASSUME CookieInv, NEW b \in Tabs, call[b].at # "answer"
    PROVE  call[b].cookie \notin Tokens
BY DEF CookieInv, AnswersAreNew, Waiting

\* The record of a call after an answer.
LEMMA AnswerFields ==
    ASSUME TypeOK, NEW b \in Tabs, NEW k \in Tokens \cup {None, Keep},
           NEW u \in Users \cup {None}, Answer(b, k, u)
    PROVE  /\ call' \in [Tabs -> Calls]
           /\ \A c \in Tabs \ {b} : call'[c] = call[c]
           /\ call'[b].cookie = k /\ call'[b].token = call[b].token
           /\ call'[b].at = "answer"
<1>1. call' \in [Tabs -> Calls]
  BY AnswerType
<1>2. /\ call[b] \in Calls
      /\ call' = [call EXCEPT ![b] = [call[b] EXCEPT !.at = "answer",
                                                     !.cookie = k, !.user = u]]
  BY DEF Answer, TypeOK
<1>3. \A c \in Tabs \ {b} : call'[c] = call[c]
  BY <1>2 DEF TypeOK
<1>4. call'[b] = [call[b] EXCEPT !.at = "answer", !.cookie = k, !.user = u]
  BY <1>2 DEF TypeOK
<1> QED
  BY <1>1, <1>2, <1>3, <1>4 DEF Calls

\* A login gives its tab a token that nobody has.
LEMMA LoginCovers ==
    ASSUME IInv, CookieInv, NEW b \in Tabs, NEW u \in Users, NEW n \in Tokens, Login(b, u, n)
    PROVE  CookieInv'
<1>1. PICK s \in {u, None} : Answer(b, n, s)
  BY DEF Login
<1>2. /\ call[b].at # "answer" /\ owner[n] = None /\ UNCHANGED jar
      /\ UNCHANGED <<login, expired, ended, lost>>
      /\ refreshTokens' = [refreshTokens EXCEPT ![n] = "live"]
      /\ owner' = [owner EXCEPT ![n] = u]
  BY DEF Login, Waiting, CreateRefreshToken, history
<1>3. owner'[n] # None /\ Good(n)'
  BY <1>2, NoneAssumption DEF IInv, TypeOK, Good, GetValidRefreshToken
<1>4. ASSUME NEW t \in Tokens, owner[t] # None
      PROVE  owner'[t] # None /\ login'[t] = login[t] /\ (Good(t) => Good(t)')
  BY <1>2, <1>4 DEF IInv, TypeOK, Good, GetValidRefreshToken
<1> QED
  BY <1>1, <1>2, <1>3, <1>4, AnswerFields, AnswersCover, NothingGivenYet DEF IInv

\* A refresh takes a token from a browser and answers one that replaces it.
LEMMA RotateCovers ==
    ASSUME IInv, CookieInv, NEW b \in Tabs, NEW n \in Tokens, Rotate(b, n)
    PROVE  CookieInv'
<1> DEFINE r == call[b].token
<1>1. r \in Tokens /\ r # n /\ owner[r] # None
  BY DEF IInv, CallsNameTheirs, Families, Rotate, Waiting, GetValidRefreshToken
<1>2. PICK s \in {owner[r], None} : Answer(b, n, s)
  BY DEF Rotate
<1>3. /\ call[b].at # "answer" /\ owner[n] = None /\ UNCHANGED jar
      /\ UNCHANGED <<expired, ended, lost>>
      /\ owner' = [owner EXCEPT ![n] = owner[r]]
      /\ login' = [login EXCEPT ![n] = login[r]]
  BY DEF Rotate, Waiting
<1>4. ASSUME NEW t \in Tokens, t # r, t = n \/ refreshTokens[t] = "live", t \notin expired
      PROVE  refreshTokens'[t] = "live"
  <2> DEFINE rows == CreateRefreshToken(RevokeRefreshToken(refreshTokens, r), n)
  <2>1. rows[t] = "live"
    BY <1>1, <1>4 DEF CreateRefreshToken, RevokeRefreshToken, IInv, TypeOK
  <2>2. refreshTokens' \in {rows, DeleteStaleRefreshTokens(rows, owner[r])}
    BY DEF Rotate
  <2> HIDE DEF rows
  <2> QED
    BY <1>4, <2>1, <2>2 DEF DeleteStaleRefreshTokens
<1>5. owner'[n] # None /\ Good(n)'
  BY <1>1, <1>3, <1>4 DEF IInv, TypeOK, Good, GetValidRefreshToken
<1>6. ASSUME NEW t \in Tokens, owner[t] # None
      PROVE  /\ owner'[t] # None /\ login'[t] = login[t]
             /\ Good(t) => Good(t)' \/ (r = t /\ login'[n] = login[t])
  <2>1. t # n /\ owner'[t] # None /\ login'[t] = login[t]
    BY <1>3, <1>6 DEF IInv, TypeOK
  <2>2. CASE t = r
    BY <1>3, <2>1, <2>2 DEF IInv, TypeOK
  <2>3. CASE t # r
    BY <1>3, <1>4, <2>1, <2>3 DEF Good, GetValidRefreshToken
  <2> QED
    BY <2>1, <2>2, <2>3
<1>7. s \in Users \cup {None}
  BY <1>1 DEF IInv, TypeOK
<1> HIDE DEF r
<1> QED
  BY <1>2, <1>3, <1>5, <1>6, <1>7, AnswerFields, AnswersCover, NothingGivenYet DEF IInv, r

\* A call that is answered without a token: rows only go or are revoked, and a
\* token that is good before is good afterwards, or its tab is told to clear it.
LEMMA TokenlessAnswer ==
    ASSUME IInv, CookieInv, NEW b \in Tabs, NEW k \in {None, Keep},
           NEW u \in Users \cup {None}, Answer(b, k, u),
           call[b].at # "answer", UNCHANGED <<jar, owner, login>>,
           \A t \in Tokens : owner[t] # None /\ Good(t) =>
               Good(t)' \/ (call[b].token = t /\ k = None)
    PROVE  CookieInv'
<1>1. k \in Tokens \cup {None, Keep} /\ k \notin Tokens
  BY Absent
<1> QED
  BY <1>1, AnswerFields, AnswersCover, NothingGivenYet DEF IInv

\* The rows of a user go, but then the logins of that user were ended.
LEMMA GoodUntilEnded ==
    ASSUME NEW u,
           refreshTokens' = DeleteRefreshTokensByUserID(refreshTokens, u),
           ended' = ended \cup Logins(u), UNCHANGED <<owner, login, expired, lost>>,
           NEW t \in Tokens, Good(t)
    PROVE  Good(t)'
<1>1. CASE owner[t] = u
  BY <1>1 DEF Good, Logins
<1>2. CASE owner[t] # u
  BY <1>2 DEF Good, GetValidRefreshToken, DeleteRefreshTokensByUserID
<1> QED
  BY <1>1, <1>2

LEMMA RefreshCovers ==
    ASSUME IInv, CookieInv, NEW b \in Tabs, Refresh(b)
    PROVE  CookieInv'
<1>1. CASE \E n \in Tokens : Rotate(b, n)
  BY <1>1, RotateCovers
<1>2. CASE Reuse(b)
  <2>1. /\ Answer(b, None, None) /\ call[b].at # "answer"
        /\ UNCHANGED <<jar, owner, login, expired, lost>>
    BY <1>2 DEF Reuse, Waiting
  <2>2. ASSUME NEW t \in Tokens, Good(t) PROVE Good(t)'
    <3>1. CASE UNCHANGED <<refreshTokens, ended>>
      BY <2>1, <2>2, <3>1 DEF Good, GetValidRefreshToken
    <3>2. CASE /\ refreshTokens' = DeleteRefreshTokensByUserID(refreshTokens, owner[call[b].token])
               /\ ended' = ended \cup Logins(owner[call[b].token])
      BY <2>1, <2>2, <3>2, GoodUntilEnded
    <3> QED
      BY <1>2, <3>1, <3>2 DEF Reuse
  <2> QED
    BY <2>1, <2>2, TokenlessAnswer
<1>3. CASE Reject(b) \/ RefreshFails(b)
  <2>1. /\ Answer(b, Keep, None) /\ call[b].at # "answer"
        /\ UNCHANGED <<jar, owner, login, refreshTokens, expired, ended, lost>>
    BY <1>3 DEF Reject, RefreshFails, Waiting, table, history
  <2>2. ASSUME NEW t \in Tokens, Good(t) PROVE Good(t)'
    BY <2>1, <2>2 DEF Good, GetValidRefreshToken
  <2> QED
    BY <2>1, <2>2, TokenlessAnswer
<1> QED
  BY <1>1, <1>2, <1>3 DEF Refresh

LEMMA LogoutCovers ==
    ASSUME IInv, CookieInv, NEW b \in Tabs, Logout(b)
    PROVE  CookieInv'
<1>1. CASE LogoutDelete(b)
  <2>1. /\ refreshTokens' = DeleteRefreshTokensByUserID(refreshTokens, call[b].user)
        /\ ended' = ended \cup Logins(call[b].user)
        /\ UNCHANGED <<jar, owner, login, expired, lost>>
        /\ call[b].at # "answer"
    BY <1>1 DEF LogoutDelete, Waiting
  <2>2. /\ call' \in [Tabs -> Calls]
        /\ \A c \in Tabs \ {b} : call'[c] = call[c]
        /\ call'[b].at = "revoke" /\ call'[b].token = call[b].token
        /\ call'[b].cookie = call[b].cookie
    BY <1>1 DEF LogoutDelete, IInv, TypeOK, Calls
  <2>3. \A t \in Tokens : Good(t) => Good(t)'
    BY <2>1, GoodUntilEnded
  <2> QED
    BY <2>1, <2>2, <2>3, NothingGivenYet, RequestsCover DEF IInv
<1>2. CASE LogoutRevoke(b)
  <2>1. /\ Answer(b, None, None) /\ call[b].at # "answer"
        /\ UNCHANGED <<jar, owner, login, expired, ended, lost>>
    BY <1>2 DEF LogoutRevoke, Waiting, history
  <2>2. ASSUME NEW t \in Tokens, t # call[b].token, Good(t) PROVE Good(t)'
    <3>1. refreshTokens'[t] = refreshTokens[t]
      BY <1>2, <2>2 DEF LogoutRevoke, RevokeRefreshToken, IInv, TypeOK
    <3> QED
      BY <2>1, <2>2, <3>1 DEF Good, GetValidRefreshToken
  <2> QED
    BY <2>1, <2>2, TokenlessAnswer
<1>3. CASE LogoutFails(b)
  <2>1. /\ Answer(b, Keep, None) /\ call[b].at # "answer"
        /\ UNCHANGED <<jar, owner, login, refreshTokens, expired, ended, lost>>
    BY <1>3 DEF LogoutFails, table, history
  <2>2. ASSUME NEW t \in Tokens, Good(t) PROVE Good(t)'
    BY <2>1, <2>2 DEF Good, GetValidRefreshToken
  <2> QED
    BY <2>1, <2>2, TokenlessAnswer
<1> QED
  BY <1>1, <1>2, <1>3 DEF Logout

LEMMA BrowserCovers ==
    ASSUME IInv, CookieInv, NEW b \in Tabs, Browser(b)
    PROVE  CookieInv'
<1>1. ASSUME NEW r \in Calls, r.at # "answer", r.cookie = Keep,
             r.token = jar[BrowserOf[b]], call' = [call EXCEPT ![b] = r],
             Waiting(b, "idle"), UNCHANGED <<jar, table, expired, history>>
      PROVE  CookieInv'
  <2>1. /\ call' \in [Tabs -> Calls] /\ call'[b] = r
        /\ \A c \in Tabs \ {b} : call'[c] = call[c]
    BY <1>1 DEF IInv, TypeOK
  <2>2. \A t \in Tokens : Good(t) => Good(t)'
    BY <1>1 DEF Good, GetValidRefreshToken, table, history
  <2>3. UNCHANGED <<jar, owner, login>> /\ call[b].at # "answer"
    BY <1>1 DEF table, Waiting
  <2> QED
    BY <1>1, <2>1, <2>2, <2>3, Absent, RequestsCover DEF IInv
<1>2. jar[BrowserOf[b]] \in Tokens \cup {None} /\ session[b] \in Users \cup {None}
  BY TabAssumption DEF IInv, TypeOK
<1>3. CASE SendRefresh(b)
  <2> DEFINE r == Request("refresh", jar[BrowserOf[b]], None)
  <2>1. r \in Calls /\ r.at # "answer" /\ r.cookie = Keep /\ r.token = jar[BrowserOf[b]]
    BY <1>2 DEF Request, Calls
  <2> HIDE DEF r
  <2> QED
    BY <1>1, <1>3, <2>1 DEF SendRefresh, r
<1>4. CASE SendLogout(b)
  <2> DEFINE r == Request("logout", jar[BrowserOf[b]], session[b])
  <2>1. r \in Calls /\ r.at # "answer" /\ r.cookie = Keep /\ r.token = jar[BrowserOf[b]]
    BY <1>2 DEF Request, Calls
  <2> HIDE DEF r
  <2> QED
    BY <1>1, <1>4, <2>1 DEF SendLogout, r
<1> QED
  BY <1>3, <1>4, SettledCover DEF Browser

LEMMA StepCookies == IInv /\ CookieInv /\ [Next]_vars => CookieInv'
<1> SUFFICES ASSUME IInv, CookieInv, [Next]_vars PROVE CookieInv'
  OBVIOUS
<1>1. CASE \E b \in Tabs, u \in Users, n \in Tokens : Login(b, u, n)
  BY <1>1, LoginCovers
<1>2. CASE \E b \in Tabs : Refresh(b) \/ Logout(b) \/ Browser(b)
  BY <1>2, RefreshCovers, LogoutCovers, BrowserCovers
<1>3. CASE (\E t \in Tokens : Expire(t)) \/ UNCHANGED vars
  <2>1. UNCHANGED <<jar, owner, login, call>>
    BY <1>3 DEF Expire, vars, table
  <2>2. \A t \in Tokens : Good(t) => Good(t)'
    BY <1>3 DEF Expire, vars, table, history, Good, GetValidRefreshToken
  <2> QED
    BY <2>1, <2>2, CookiesKept DEF IInv
<1> QED
  BY <1>1, <1>2, <1>3 DEF Next

\* A browser's cookie can be refreshed, or is being replaced, whatever its tabs
\* do at once: unless it expired, its login was ended, or an answer was lost.
THEOREM CookieStaysGood == Spec => []CookieIsLive
<1>1. IInv /\ CookieInv => CookieIsLive
  <2> SUFFICES ASSUME IInv, CookieInv, NEW w \in Browsers, NEW t \in Tokens, jar[w] = t
               PROVE  \/ Good(t)
                      \/ \E b \in Tabs : /\ BrowserOf[b] = w /\ Waiting(b, "answer")
                                         /\ \/ call[b].cookie = None
                                            \/ \E n \in Tokens : /\ call[b].cookie = n
                                                                 /\ login[n] = login[t]
    BY DEF CookieIsLive, Good
  <2> QED
    BY Absent DEF CookieInv, CookiesAreCovered, Replaces
<1>2. Init => CookieInv
  BY InitCookies
<1> QED
  BY <1>1, <1>2, StepCookies, Invariance, PTL DEF Spec

=============================================================================
