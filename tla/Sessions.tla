------------------------------- MODULE Sessions -------------------------------
(* Sessions: the refresh tokens of routes/auth.ts and the browser that uses   *)
(* them (apps/web/src/lib/api.ts).  The tabs of one browser share the cookie  *)
(* and the access token; each tab has a refreshPromise of its own.            *)
EXTENDS Integers, FiniteSets

CONSTANTS Tabs, Calls, TabOf,   \* TabOf[c]: the tab that makes the API call c
          Tokens,               \* refresh tokens (jti) the server can issue: 1..n
          NoToken, MaxLost      \* bound: answers of the server that are lost

VARIABLES
  stored,    \* token -> "none" | "live" | "revoked": its RefreshToken row
  parent,    \* token -> the token it was issued for (history)
  cookie, access,   \* of the browser: jti; "none" | "fresh" | "stale"
  call,      \* call -> what apiFetch is doing
  refresh,   \* tab -> its refreshPromise and the request that serves it
  logout,    \* at: "no" (never) | "sent" | "answered" | "raced" | "again";
             \* jti: the cookie the request was sent with
  rivals,    \* two tabs have presented one token (history)
  lost

vars == <<stored, parent, cookie, access, call, refresh, logout, rivals, lost>>
browser == <<cookie, access>>

NoRefresh == [pc |-> "none", jti |-> NoToken]
\* The next token that randomUUID gives; tokens are numbered as issued.
Fresh == {t \in Tokens : /\ parent[t] = NoToken
                         /\ \A u \in Tokens : u < t => parent[u] # NoToken}
OtherTabPresents(tab, t) ==
  \E u \in Tabs \ {tab} : refresh[u].pc # "none" /\ refresh[u].jti = t

Init ==
  /\ stored = [t \in Tokens |-> "none"]
  /\ parent = [t \in Tokens |-> NoToken]
  /\ cookie = NoToken /\ access = "none"
  /\ call = [c \in Calls |-> "idle"]
  /\ refresh = [tab \in Tabs |-> NoRefresh]
  /\ logout = [at |-> "no", jti |-> NoToken] /\ rivals = FALSE /\ lost = 0

-----------------------------------------------------------------------------
(* Login and logout                                                          *)

\* POST /auth/login or /auth/register, answered.
Login ==
  /\ cookie = NoToken /\ access = "none"
  /\ \E t \in Fresh :
       /\ stored' = [stored EXCEPT ![t] = "live"]
       /\ parent' = [parent EXCEPT ![t] = t]
       /\ cookie' = t
  /\ access' = "fresh" /\ logout' = [logout EXCEPT !.at = IF @ = "no" THEN "no" ELSE "again"]
  /\ UNCHANGED <<call, refresh, rivals, lost>>

\* The navbar clears the access token and asks the server, which revokes
\* the token of the cookie if it can; an error is swallowed.
LogoutSend ==
  /\ access # "none" /\ logout.at \in {"no", "again"}
  /\ access' = "none" /\ logout' = [at |-> "sent", jti |-> cookie]
  /\ UNCHANGED <<stored, parent, cookie, call, refresh, rivals, lost>>

Revoke(t) ==
  stored' = [u \in Tokens |-> IF u = t /\ stored[u] = "live" THEN "revoked"
                                                             ELSE stored[u]]

LogoutEnds ==
  /\ logout.at = "sent"
  /\ LET quiet == \A tab \in Tabs : refresh[tab].pc = "none" IN
       logout' = [at |-> IF quiet THEN "answered" ELSE "raced", jti |-> NoToken]

LogoutAnswer ==
  /\ LogoutEnds
  /\ \/ Revoke(logout.jti) /\ UNCHANGED lost
     \/ lost < MaxLost /\ lost' = lost + 1 /\ UNCHANGED stored
  /\ cookie' = NoToken
  /\ UNCHANGED <<parent, access, call, refresh, rivals>>

\* cleanupExpiredRefreshTokens deletes revoked rows.
Cleanup ==
  /\ stored' = [t \in Tokens |-> IF stored[t] = "revoked" THEN "none" ELSE stored[t]]
  /\ stored' # stored
  /\ UNCHANGED <<parent, call, refresh, logout, rivals, lost, browser>>

AccessExpires ==
  /\ access = "fresh" /\ access' = "stale"
  /\ UNCHANGED <<stored, parent, cookie, call, refresh, logout, rivals, lost>>

-----------------------------------------------------------------------------
(* doFetch: send, refresh on 401, retry once                                 *)

SetCall(c, pc) == call' = [call EXCEPT ![c] = pc]
server == <<stored, parent, rivals>>

\* rawFetch: the answer is a 401 without an access token or with a stale one.
Send(c) ==
  /\ call[c] = "idle" /\ access # "none"
  /\ SetCall(c, IF access = "fresh" THEN "idle" ELSE "unauthorized")
  /\ UNCHANGED <<server, refresh, logout, lost, browser>>

\* tryRefreshToken: join the refresh of this tab or start it.
AwaitRefresh(c) ==
  /\ call[c] = "unauthorized"
  /\ SetCall(c, "awaiting")
  /\ LET tab == TabOf[c] IN
       IF refresh[tab].pc # "none" THEN UNCHANGED <<refresh, rivals>>
       ELSE /\ refresh' = [refresh EXCEPT ![tab] = [pc |-> "sent", jti |-> cookie]]
            /\ rivals' = (rivals \/ OtherTabPresents(tab, cookie))
  /\ UNCHANGED <<stored, parent, logout, lost, browser>>

\* The promise settles: every waiter of the tab retries, or gives up the
\* session (clearAuth).
Settle(tab, ok) ==
  /\ refresh' = [refresh EXCEPT ![tab] = NoRefresh]
  /\ call' = [c \in Calls |-> IF TabOf[c] = tab /\ call[c] = "awaiting"
                              THEN IF ok THEN "retry" ELSE "expired" ELSE call[c]]

Retry(c) ==
  /\ call[c] = "retry"
  /\ SetCall(c, "idle")
  /\ UNCHANGED <<server, refresh, logout, lost, browser>>

GiveUp(c) ==
  /\ call[c] = "expired"
  /\ SetCall(c, "idle") /\ access' = "none"
  /\ UNCHANGED <<server, refresh, logout, lost, cookie>>

-----------------------------------------------------------------------------
(* POST /auth/refresh                                                        *)

RefreshAt(tab, pc) == refresh[tab].pc = pc
Accepted(t) == t \in Tokens /\ stored[t] = "live"
Step(tab, pc) == refresh' = [refresh EXCEPT ![tab].pc = pc]

\* A missing, revoked or unknown token: 401, and the cookie is cleared.
RefreshRefused(tab) ==
  /\ RefreshAt(tab, "sent")
  /\ ~Accepted(refresh[tab].jti)
  /\ Settle(tab, FALSE)
  /\ cookie' = IF refresh[tab].jti = NoToken THEN cookie ELSE NoToken
  /\ UNCHANGED <<server, access, logout, lost>>

RefreshChecked(tab) ==
  /\ RefreshAt(tab, "sent")
  /\ Accepted(refresh[tab].jti)
  /\ Step(tab, "checked")
  /\ UNCHANGED <<server, call, logout, lost, browser>>

RotateWithoutRevoking(tab) ==    \* mutant: the presented token stays live
  /\ RefreshAt(tab, "checked") /\ Step(tab, "revoked")
  /\ UNCHANGED <<server, call, logout, lost, browser>>

\* An update of a row the cleanup has deleted throws: 500, no cookie.
RotateRevoke(tab) ==
  /\ RefreshAt(tab, "checked")
  /\ IF stored[refresh[tab].jti] = "none"
     THEN Settle(tab, FALSE) /\ UNCHANGED stored
     ELSE Step(tab, "revoked") /\ Revoke(refresh[tab].jti) /\ UNCHANGED call
  /\ UNCHANGED <<parent, rivals, logout, lost, browser>>

\* storeRefreshToken and the answer: cookie and access token of the browser.
RotateStore(tab) ==
  /\ RefreshAt(tab, "revoked")
  /\ \E t \in Fresh :
       /\ stored' = [stored EXCEPT ![t] = "live"]
       /\ parent' = [parent EXCEPT ![t] = refresh[tab].jti]
       /\ cookie' = t
  /\ access' = "fresh"
  /\ Settle(tab, TRUE)
  /\ UNCHANGED <<rivals, logout, lost>>

\* The store fails, or its answer is lost: the old token is revoked and the
\* browser may or may not hold the new one.
RotateLost(tab) ==
  /\ RefreshAt(tab, "revoked") /\ lost < MaxLost /\ lost' = lost + 1
  /\ \E t \in Fresh, kept \in BOOLEAN, row \in {"none", "live"} :
       /\ parent' = [parent EXCEPT ![t] = refresh[tab].jti]
       /\ stored' = [stored EXCEPT ![t] = row]
       /\ cookie' = IF kept THEN t ELSE cookie
  /\ Settle(tab, FALSE)
  /\ UNCHANGED <<access, rivals, logout>>

-----------------------------------------------------------------------------
CallStep(c) == Send(c) \/ AwaitRefresh(c) \/ Retry(c) \/ GiveUp(c)
RefreshStep(tab) == \/ RefreshRefused(tab) \/ RefreshChecked(tab)
                    \/ RotateRevoke(tab) \/ RotateStore(tab)

Next == \/ Login \/ LogoutSend \/ LogoutAnswer \/ Cleanup \/ AccessExpires
        \/ \E c \in Calls : CallStep(c)
        \/ \E tab \in Tabs : RefreshStep(tab) \/ RotateLost(tab)

Spec == Init /\ [][Next]_vars

-----------------------------------------------------------------------------
(* Properties                                                                *)

TypeOK ==
  /\ stored \in [Tokens -> {"none", "live", "revoked"}]
  /\ parent \in [Tokens -> Tokens \cup {NoToken}]
  /\ cookie \in Tokens \cup {NoToken} /\ access \in {"none", "fresh", "stale"}
  /\ call \in [Calls -> {"idle", "unauthorized", "awaiting", "retry", "expired"}]
  /\ refresh \in [Tabs -> [pc : {"none", "sent", "checked", "revoked"},
                           jti : Tokens \cup {NoToken}]]
  /\ logout \in [at : {"no", "sent", "answered", "raced", "again"},
                jti : Tokens \cup {NoToken}]
  /\ rivals \in BOOLEAN /\ lost \in Nat

\* Rotation: a token is exchanged for one successor, unless two tabs present
\* it at once (each tab has one refresh in flight, but only its own).
RotatedOnce ==
  ~rivals => \A t, u \in Tokens :
               parent[t] = parent[u] /\ parent[t] \notin {NoToken, t, u} => t = u

\* The calls of one tab never log each other out: a refused refresh means that
\* the user had logged out, that another tab refreshed too, or a lost answer.
NoSpuriousLogout ==
  \A c \in Calls : call[c] = "expired" => rivals \/ lost > 0 \/ logout.at # "no"

\* An answered logout that met no refresh under way ends the session: the
\* browser holds no refresh token until the next login.
LogoutIsFinal == logout.at = "answered" => cookie = NoToken
==============================================================================
