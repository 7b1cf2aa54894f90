------------------------------ MODULE Sessions ------------------------------
(***************************************************************************)
(* Sessions: the rows of refresh_tokens, the handlers that log in, refresh *)
(* and log out (internal/endpoints), and the browsers that call them       *)
(* (App.tsx, api/auth.ts).  The tabs of a browser share its cookies, so    *)
(* that two of them can refresh with one token, and an answer of the       *)
(* server can be late or lost after what it did was committed.             *)
(*                                                                         *)
(* RefreshHandler works in one transaction and so in one step: of two that *)
(* read the same row only one can commit.  HandlerLogout works in two.     *)
(***************************************************************************)
EXTENDS Naturals

CONSTANTS
    Users,      \* the accounts
    Browsers,   \* each with one jar of cookies
    Tabs,       \* the tabs of the browsers, each waiting for one call at most
    BrowserOf,  \* BrowserOf[b]: the browser of tab b
    Tokens,     \* bound: all the refresh tokens ever made
    None,       \* no token, no user
    Keep        \* an answer without Set-Cookie

ASSUME TabAssumption == BrowserOf \in [Tabs -> Browsers]
ASSUME NoneAssumption == None \notin Tokens \cup Users
ASSUME KeepAssumption == Keep \notin Tokens \cup {None}

VARIABLES
    refreshTokens, \* token |-> its row: "none", "live", or "revoked"
    owner,         \* token |-> user_id, remembered after the row is gone
    login,         \* history: token |-> the token that its login issued
    expired,       \* tokens whose expires_at has passed
    jar,           \* browser |-> its refresh_token cookie
    session,       \* tab |-> the user whose access token App holds
    call,          \* tab |-> the call it waits for
    rotated,       \* history: tokens that a refresh has replaced
    ended,         \* history: logins that logout or reuse has ended
    lost           \* history: logins an answer about which was lost

table == <<refreshTokens, owner, login>>
history == <<rotated, ended, lost>>
vars == <<table, expired, jar, session, call, history>>

Calls == [at : {"idle", "refresh", "logout", "revoke", "answer"},
          token : Tokens \cup {None},         \* the cookie that was sent
          cookie : Tokens \cup {None, Keep},  \* Set-Cookie of the answer
          user : Users \cup {None}]           \* whom the caller is, or becomes

Request(at, t, u) == [at |-> at, token |-> t, cookie |-> Keep, user |-> u]

Idle == Request("idle", None, None)

\* A bug: an answer without Set-Cookie is stored like any other.
StoreAlways(w, cookie) == [jar EXCEPT ![w] = cookie]

\* What the browser does with the Set-Cookie of an answer.
StoreCookie(w, cookie) == IF cookie = Keep THEN jar ELSE [jar EXCEPT ![w] = cookie]

Waiting(b, at) == call[b].at = at
Answer(b, cookie, u) ==
    call' = [call EXCEPT ![b].at = "answer", ![b].cookie = cookie, ![b].user = u]

----------------------------------------------------------------------------
(* The queries of refresh_token.sql.go, on a table rows. *)

\* A bug: a row counts as valid although it was revoked.
ValidOrRevoked(t) == refreshTokens[t] # "none" /\ t \notin expired

GetValidRefreshToken(t) == refreshTokens[t] = "live" /\ t \notin expired

RevokeRefreshToken(rows, t) ==
    [rows EXCEPT ![t] = IF @ = "none" THEN "none" ELSE "revoked"]

CreateRefreshToken(rows, n) == [rows EXCEPT ![n] = "live"]

\* A bug: the comparison with expires_at is the wrong way round.
DeleteFreshRefreshTokens(rows, u) ==
    [t \in Tokens |-> IF owner[t] = u /\ (rows[t] = "revoked" \/ t \notin expired)
                      THEN "none" ELSE rows[t]]

DeleteStaleRefreshTokens(rows, u) ==
    [t \in Tokens |-> IF owner[t] = u /\ (rows[t] = "revoked" \/ t \in expired)
                      THEN "none" ELSE rows[t]]

\* A bug: logging out deletes only the rows that are of no use any more.
DeleteRevokedRefreshTokens(rows, u) ==
    [t \in Tokens |-> IF owner[t] = u /\ rows[t] = "revoked"
                      THEN "none" ELSE rows[t]]

DeleteRefreshTokensByUserID(rows, u) ==
    [t \in Tokens |-> IF owner[t] = u THEN "none" ELSE rows[t]]

Logins(u) == {login[t] : t \in {s \in Tokens : owner[s] = u}}

----------------------------------------------------------------------------
Init ==
    /\ refreshTokens = [t \in Tokens |-> "none"]
    /\ owner = [t \in Tokens |-> None]
    /\ login = [t \in Tokens |-> t]
    /\ expired = {}
    /\ jar = [w \in Browsers |-> None]
    /\ session = [b \in Tabs |-> None]
    /\ call = [b \in Tabs |-> Idle]
    /\ rotated = {}
    /\ ended = {}
    /\ lost = {}

\* LoginHandler with the right password, or the GitHub callback, which hands
\* out the cookie and then loads the application: a new token is stored.
Login(b, u, n) ==
    /\ Waiting(b, "idle")
    /\ session[b] = None
    /\ owner[n] = None
    /\ refreshTokens' = CreateRefreshToken(refreshTokens, n)
    /\ owner' = [owner EXCEPT ![n] = u]
    /\ \E s \in {u, None} : Answer(b, n, s)
    /\ UNCHANGED <<login, expired, jar, session, history>>

\* App is loaded and calls refreshSession with the cookie of now.
SendRefresh(b) ==
    /\ Waiting(b, "idle")
    /\ jar[BrowserOf[b]] # None
    /\ session' = [session EXCEPT ![b] = None]
    /\ call' = [call EXCEPT ![b] = Request("refresh", jar[BrowserOf[b]], None)]
    /\ UNCHANGED <<table, expired, jar, history>>

\* RefreshHandler with a valid token: revoke it, create n, delete the stale
\* rows (an error of that is ignored), commit.  App has a session once it has
\* also fetched the user, which can fail.
Rotate(b, n) ==
    /\ Waiting(b, "refresh")
    /\ owner[n] = None
    /\ LET t == call[b].token
           rows == CreateRefreshToken(RevokeRefreshToken(refreshTokens, t), n)
       IN  /\ GetValidRefreshToken(t)
           /\ refreshTokens' \in {rows, DeleteStaleRefreshTokens(rows, owner[t])}
           /\ owner' = [owner EXCEPT ![n] = owner[t]]
           /\ login' = [login EXCEPT ![n] = login[t]]
           /\ rotated' = rotated \cup {t}
           /\ \E s \in {owner[t], None} : Answer(b, n, s)
    /\ UNCHANGED <<expired, jar, session, ended, lost>>

\* RefreshHandler with a revoked token: all rows of its user go, errors of
\* the delete and of the commit are ignored, and the cookie is cleared.
Reuse(b) ==
    /\ Waiting(b, "refresh")
    /\ refreshTokens[call[b].token] = "revoked"
    /\ LET u == owner[call[b].token]
       IN  \/ /\ refreshTokens' = DeleteRefreshTokensByUserID(refreshTokens, u)
              /\ ended' = ended \cup Logins(u)
           \/ UNCHANGED <<refreshTokens, ended>>
    /\ Answer(b, None, None)
    /\ UNCHANGED <<owner, login, expired, jar, session, rotated, lost>>

\* RefreshHandler with a token that has no row, or has expired.
Reject(b) ==
    /\ Waiting(b, "refresh")
    /\ refreshTokens[call[b].token] # "revoked"
    /\ ~GetValidRefreshToken(call[b].token)
    /\ Answer(b, Keep, None)
    /\ UNCHANGED <<table, expired, jar, session, history>>

\* A query or the commit fails: the transaction is rolled back.
RefreshFails(b) ==
    /\ Waiting(b, "refresh")
    /\ Answer(b, Keep, None)
    /\ UNCHANGED <<table, expired, jar, session, history>>

\* handleLogout, with the access token of the session and the cookie of now.
SendLogout(b) ==
    /\ Waiting(b, "idle")
    /\ session[b] # None
    /\ call' = [call EXCEPT ![b] = Request("logout", jar[BrowserOf[b]], session[b])]
    /\ UNCHANGED <<table, expired, jar, session, history>>

\* HandlerLogout first deletes all the rows of the user ...
LogoutDelete(b) ==
    /\ Waiting(b, "logout")
    /\ refreshTokens' = DeleteRefreshTokensByUserID(refreshTokens, call[b].user)
    /\ ended' = ended \cup Logins(call[b].user)
    /\ call' = [call EXCEPT ![b].at = "revoke"]
    /\ UNCHANGED <<owner, login, expired, jar, session, rotated, lost>>

\* ... and then revokes the token of the cookie, which still has a row when
\* the browser has meanwhile logged in again, or as somebody else.
LogoutRevoke(b) ==
    /\ Waiting(b, "revoke")
    /\ refreshTokens' = IF call[b].token = None THEN refreshTokens
                        ELSE RevokeRefreshToken(refreshTokens, call[b].token)
    /\ Answer(b, None, None)
    /\ UNCHANGED <<owner, login, expired, jar, session, history>>

\* Either query fails, or the access token has expired.
LogoutFails(b) ==
    /\ call[b].at \in {"logout", "revoke"}
    /\ Answer(b, Keep, None)
    /\ UNCHANGED <<table, expired, jar, session, history>>

\* The answer arrives: the browser stores or clears the cookie, and App
\* begins, or ends, its session.
Deliver(b) ==
    /\ Waiting(b, "answer")
    /\ jar' = StoreCookie(BrowserOf[b], call[b].cookie)
    /\ session' = [session EXCEPT ![b] = call[b].user]
    /\ call' = [call EXCEPT ![b] = Idle]
    /\ UNCHANGED <<table, expired, history>>

\* The answer is lost, or what came after the commit failed.
Lose(b) ==
    /\ Waiting(b, "answer")
    /\ lost' = IF call[b].cookie = Keep THEN lost
               ELSE lost \cup {login[t] : t \in {call[b].token, call[b].cookie}
                                                \cap Tokens}
    /\ session' = [session EXCEPT ![b] = None]
    /\ call' = [call EXCEPT ![b] = Idle]
    /\ UNCHANGED <<table, expired, jar, rotated, ended>>

\* Seven days pass.
Expire(t) ==
    /\ refreshTokens[t] # "none"
    /\ expired' = expired \cup {t}
    /\ UNCHANGED <<table, jar, session, call, history>>

Refresh(b) ==
    \/ \E n \in Tokens : Rotate(b, n)
    \/ Reuse(b)
    \/ Reject(b)
    \/ RefreshFails(b)

Logout(b) == LogoutDelete(b) \/ LogoutRevoke(b) \/ LogoutFails(b)

Browser(b) == SendRefresh(b) \/ SendLogout(b) \/ Deliver(b) \/ Lose(b)

Next ==
    \/ \E b \in Tabs :
         \/ \E u \in Users, n \in Tokens : Login(b, u, n)
         \/ Refresh(b)
         \/ Logout(b)
         \/ Browser(b)
    \/ \E t \in Tokens : Expire(t)

Spec == Init /\ [][Next]_vars

----------------------------------------------------------------------------
(* Properties. *)

\* The type invariant.
TypeOK ==
    /\ refreshTokens \in [Tokens -> {"none", "live", "revoked"}]
    /\ owner \in [Tokens -> Users \cup {None}]
    /\ login \in [Tokens -> Tokens]
    /\ expired \subseteq Tokens
    /\ jar \in [Browsers -> Tokens \cup {None}]
    /\ session \in [Tabs -> Users \cup {None}]
    /\ call \in [Tabs -> Calls]
    /\ rotated \subseteq Tokens
    /\ ended \subseteq Tokens
    /\ lost \subseteq Tokens

\* However many tabs refresh at once, and whatever answers are lost, a login
\* has one token at most that RefreshHandler would still take.
OneTokenPerLogin ==
    \A s, t \in Tokens :
        refreshTokens[s] = "live" /\ refreshTokens[t] = "live"
            /\ login[s] = login[t] => s = t

\* No token of a login that HandlerLogout or the detection of reuse ended is
\* ever taken again, nor one made from it by a refresh under way at the time.
EndedLoginsStayEnded ==
    \A t \in Tokens : login[t] \in ended => refreshTokens[t] # "live"

\* The cookie of a browser is good for a refresh, or the answer that replaces
\* it is on its way to one of the browser's tabs; unless it expired, its login
\* was ended, or an answer about that login was lost.
CookieIsLive ==
    \A w \in Browsers : \A t \in Tokens :
        jar[w] = t =>
            \/ GetValidRefreshToken(t)
            \/ t \in expired
            \/ login[t] \in ended \cup lost
            \/ \E b \in Tabs : /\ BrowserOf[b] = w
                               /\ Waiting(b, "answer")
                               /\ \/ call[b].cookie = None
                                  \/ \E n \in Tokens :
                                       /\ call[b].cookie = n
                                       /\ login[n] = login[t]

\* A refresh with a token that an earlier refresh replaced is recognised as
\* reuse, for which RefreshHandler promises "Refresh token reuse detected. All
\* sessions have been invalidated."; it is never just an invalid token.
RotatedTokensAreDetected ==
    [][\A b \in Tabs : Reject(b) => call[b].token \notin rotated]_vars

=============================================================================
