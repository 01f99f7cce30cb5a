---------------------------- MODULE MCServicesProofs ----------------------------
(****************************************************************************)
(* Properties that MCServices checks of the sessions, of the assistant, of   *)
(* manual orders, of a bot's entries, of the terminal page, of the venue's   *)
(* feed and of funding, for any tabs, calls, tokens, requests, orders,       *)
(* strategies, venue rules, markets, sockets, settlements and symbols.       *)
(****************************************************************************)
EXTENDS MCServices, FiniteSetTheorems, TLAPS

-----------------------------------------------------------------------------
(* Sessions                                                                  *)

\* A token has been exchanged for another one.
Exchanged(t) == \E u \in Tokens \ {t} : parent[u] = t
Presents(tab) == refresh[tab].pc # "none"
\* What a token was issued for, and what a browser or a request holds, was
\* issued; a token that was exchanged is not live.
TokensIssued ==
  /\ \A t \in Tokens : /\ stored[t] # "none" => parent[t] # 0
                       /\ parent[t] # 0 => parent[parent[t]] # 0
                       /\ Exchanged(t) => stored[t] # "live"
  /\ cookie # 0 => parent[cookie] # 0
  /\ \A tab \in Tabs : Presents(tab) /\ refresh[tab].jti # 0 => parent[refresh[tab].jti] # 0
\* A refresh past the check holds a token, and after the rotation a dead one.
RotationUnderWay ==
  \A tab \in Tabs :
    /\ refresh[tab].pc \in {"checked", "revoked"} => refresh[tab].jti # 0
    /\ refresh[tab].pc = "revoked" => stored[refresh[tab].jti] # "live"
\* Without rivals nobody else has presented what a tab presents.
NoRival ==
  ~rivals =>
    /\ \A a, b \in Tabs : Presents(a) /\ Presents(b) /\ refresh[a].jti = refresh[b].jti => a = b
    /\ \A tab \in Tabs :
         refresh[tab].pc \in {"checked", "revoked"} => ~Exchanged(refresh[tab].jti)
\* As long as nothing was lost, raced or logged out, the cookie's token is live
\* but while its one presenter rotates it.
Calm == ~rivals /\ lost = 0 /\ logout.at = "no"
CalmSession ==
  Calm =>
    /\ \A tab \in Tabs : Presents(tab) => cookie # 0 /\ refresh[tab].jti = cookie
    /\ cookie # 0 /\ (\A tab \in Tabs : refresh[tab].pc # "revoked") => stored[cookie] = "live"
    /\ cookie = 0 => access = "none" /\ \A c \in Calls : call[c] = "idle"
LoggedOut ==
  logout.at = "answered" =>
    cookie = 0 /\ \A tab \in Tabs : Presents(tab) => refresh[tab] = [pc |-> "sent", jti |-> 0]

SessionIInv ==
  /\ Session!TypeOK /\ TokensIssued /\ RotationUnderWay
  /\ NoRival /\ Session!RotatedOnce
  /\ CalmSession /\ Session!NoSpuriousLogout /\ LoggedOut


LEMMA SessionInit == Session!Init => SessionIInv
<1> SUFFICES ASSUME Session!Init PROVE SessionIInv
  OBVIOUS
<1> USE ServiceConstants DEF Session!Init, Session!NoRefresh
<1>1. Session!TypeOK
  BY DEF Session!TypeOK
<1>2. TokensIssued /\ RotationUnderWay
  BY DEF TokensIssued, Exchanged, Presents, RotationUnderWay
<1>3. NoRival /\ Session!RotatedOnce
  BY DEF Exchanged, Presents, NoRival, Session!RotatedOnce
<1>4. CalmSession /\ Session!NoSpuriousLogout /\ LoggedOut
  BY DEF Presents, CalmSession, Session!NoSpuriousLogout, LoggedOut
<1> QED BY <1>1, <1>2, <1>3, <1>4 DEF SessionIInv

LEMMA LoginKeeps == SessionIInv /\ Session!Login => SessionIInv'
<1> SUFFICES ASSUME SessionIInv, Session!Login
             PROVE  SessionIInv'
  OBVIOUS
<1> USE ServiceConstants
<1>1. PICK t \in Session!Fresh :
        /\ stored' = [stored EXCEPT ![t] = "live"]
        /\ parent' = [parent EXCEPT ![t] = t]
        /\ cookie' = t
  BY DEF Session!Login
<1>2. /\ cookie = 0 /\ access = "none" /\ access' = "fresh"
      /\ logout' = [logout EXCEPT !.at = IF @ = "no" THEN "no" ELSE "again"]
      /\ UNCHANGED <<call, refresh, rivals, lost>>
  BY DEF Session!Login
<1>3. t \in Tokens /\ t # 0 /\ parent[t] = 0 /\ stored[t] = "none"
  BY DEF Session!Fresh, SessionIInv, TokensIssued
<1>4. Session!TypeOK
  BY DEF SessionIInv
<1>5. Session!TypeOK'
  BY <1>1, <1>2, <1>3, <1>4 DEF Session!TypeOK
<1>6. TokensIssued'
  BY <1>1, <1>2, <1>3, <1>4 DEF SessionIInv, Session!TypeOK, TokensIssued, Exchanged, Presents
<1>7. RotationUnderWay' /\ NoRival'
  BY <1>1, <1>2, <1>3, <1>4 DEF SessionIInv, Session!TypeOK, TokensIssued, Exchanged, Presents,
     RotationUnderWay, NoRival
<1>8. Session!RotatedOnce'
  BY <1>1, <1>2, <1>3, <1>4 DEF SessionIInv, Session!TypeOK, TokensIssued, Session!RotatedOnce
<1>9. CalmSession' /\ Session!NoSpuriousLogout' /\ LoggedOut'
  BY <1>1, <1>2, <1>3, <1>4 DEF SessionIInv, Session!TypeOK, Presents, CalmSession, Calm,
     Session!NoSpuriousLogout, LoggedOut
<1> QED BY <1>5, <1>6, <1>7, <1>8, <1>9 DEF SessionIInv

\* Nothing that a request or a clean-up does to a row makes one live.
LEMMA RowsDie ==
  ASSUME SessionIInv,
         \A t \in Tokens : \/ stored'[t] = stored[t]
                           \/ stored'[t] = "revoked" /\ stored[t] = "live"
                           \/ stored'[t] = "none" /\ stored[t] = "revoked",
         stored' \in [Tokens -> {"none", "live", "revoked"}],
         parent' = parent, cookie' \in {cookie, 0},
         refresh' = refresh
  PROVE  TokensIssued' /\ RotationUnderWay'
<1>1. Session!TypeOK /\ TokensIssued /\ RotationUnderWay
  BY DEF SessionIInv
<1>2. \A t \in Tokens : /\ stored'[t] # "none" => stored[t] # "none"
                        /\ stored'[t] = "live" => stored[t] = "live"
  BY <1>1 DEF Session!TypeOK
<1>3. TokensIssued'
  BY <1>1, <1>2 DEF TokensIssued, Exchanged, Presents
<1>4. ASSUME NEW tab \in Tabs
      PROVE  /\ refresh[tab].pc \in {"checked", "revoked"} => refresh[tab].jti # 0
             /\ refresh[tab].pc = "revoked" => stored'[refresh[tab].jti] # "live"
  BY <1>1, <1>2 DEF RotationUnderWay, Session!TypeOK
<1> QED BY <1>3, <1>4 DEF RotationUnderWay

LEMMA LogoutsKeep ==
  SessionIInv /\ (Session!LogoutSend \/ Session!LogoutAnswer \/ Session!Cleanup \/ Session!AccessExpires)
    => SessionIInv'
<1> SUFFICES ASSUME SessionIInv
             PROVE  /\ Session!LogoutSend => SessionIInv'
                    /\ Session!LogoutAnswer => SessionIInv'
                    /\ Session!Cleanup => SessionIInv'
                    /\ Session!AccessExpires => SessionIInv'
  OBVIOUS
<1> USE ServiceConstants
<1>1. ASSUME Session!LogoutSend PROVE SessionIInv'
  BY <1>1 DEF Session!LogoutSend, SessionIInv, Session!TypeOK,
   TokensIssued, Exchanged, Presents, RotationUnderWay, NoRival, Session!RotatedOnce, CalmSession,
   Calm, Session!NoSpuriousLogout, LoggedOut
<1>2. ASSUME Session!LogoutAnswer PROVE SessionIInv'
  <2>1. /\ logout.at = "sent" /\ logout'.at \in {"answered", "raced"} /\ logout'.jti = 0
        /\ logout' \in [at : {"answered", "raced"}, jti : {0}]
        /\ logout'.at = "answered" => \A tab \in Tabs : refresh[tab].pc = "none"
        /\ cookie' = 0 /\ lost' \in Nat /\ lost' >= lost
        /\ UNCHANGED <<parent, access, call, refresh, rivals>>
    BY <1>2 DEF Session!LogoutAnswer, Session!LogoutEnds, SessionIInv, Session!TypeOK
  <2>2. /\ \A t \in Tokens : stored'[t] = stored[t] \/ (stored'[t] = "revoked" /\ stored[t] = "live")
        /\ stored' \in [Tokens -> {"none", "live", "revoked"}]
    BY <1>2 DEF Session!LogoutAnswer, Session!Revoke, SessionIInv, Session!TypeOK
  <2>3. TokensIssued' /\ RotationUnderWay'
    BY <2>1, <2>2, RowsDie
  <2> QED BY <2>1, <2>2, <2>3 DEF SessionIInv, Session!TypeOK, Exchanged, Presents, NoRival,
            Session!RotatedOnce, CalmSession, Calm, Session!NoSpuriousLogout, LoggedOut
<1>3. ASSUME Session!Cleanup PROVE SessionIInv'
  <2>1. /\ \A t \in Tokens : stored'[t] = stored[t] \/ (stored'[t] = "none" /\ stored[t] = "revoked")
        /\ stored' \in [Tokens -> {"none", "live", "revoked"}]
        /\ \A t \in Tokens : stored[t] = "live" => stored'[t] = "live"
        /\ UNCHANGED <<parent, call, refresh, logout, rivals, lost, cookie, access>>
    BY <1>3 DEF Session!Cleanup, Session!browser, SessionIInv, Session!TypeOK
  <2>2. TokensIssued' /\ RotationUnderWay'
    BY <2>1, RowsDie
  <2> QED BY <2>1, <2>2 DEF SessionIInv, Session!TypeOK, Exchanged, Presents, NoRival,
            Session!RotatedOnce, CalmSession, Calm, Session!NoSpuriousLogout, LoggedOut
<1>4. ASSUME Session!AccessExpires PROVE SessionIInv'
  BY <1>4 DEF Session!AccessExpires, SessionIInv, Session!TypeOK,
   TokensIssued, Exchanged, Presents, RotationUnderWay, NoRival, Session!RotatedOnce, CalmSession,
   Calm, Session!NoSpuriousLogout, LoggedOut
<1> QED BY <1>1, <1>2, <1>3, <1>4

\* A call that only moves on leaves the sessions as they are.
LEMMA CallsKeep ==
  ASSUME SessionIInv, NEW c \in Calls, Session!CallStep(c)
  PROVE  SessionIInv'
<1> USE ServiceConstants
<1>1. ASSUME Session!Send(c) PROVE SessionIInv'
  BY <1>1 DEF Session!Send, Session!SetCall, Session!server, Session!browser, SessionIInv,
     Session!TypeOK, TokensIssued, Exchanged, Presents, RotationUnderWay, NoRival,
     Session!RotatedOnce, CalmSession, Calm, Session!NoSpuriousLogout, LoggedOut
<1>2. ASSUME Session!AwaitRefresh(c) PROVE SessionIInv'
  <2> DEFINE tab == TabOf[c]
  <2>1. tab \in Tabs /\ call[c] = "unauthorized" /\ Session!SetCall(c, "awaiting")
        /\ UNCHANGED <<stored, parent, logout, lost, cookie, access>>
    BY <1>2 DEF Session!AwaitRefresh, Session!browser
  <2>2. CASE Presents(tab)
    <3>1. UNCHANGED <<refresh, rivals>>
      BY <1>2, <2>2 DEF Session!AwaitRefresh, Presents
    <3> QED BY <2>1, <3>1 DEF Session!SetCall, SessionIInv,
          Session!TypeOK, TokensIssued, Exchanged, Presents, RotationUnderWay, NoRival,
          Session!RotatedOnce, CalmSession, Calm, Session!NoSpuriousLogout, LoggedOut
  <2>3. CASE ~Presents(tab)
    <3>1. refresh' = [refresh EXCEPT ![tab] = [pc |-> "sent", jti |-> cookie]]
      BY <1>2, <2>3 DEF Session!AwaitRefresh, Presents
    <3>r. rivals' = (rivals \/ Session!OtherTabPresents(tab, cookie))
      BY <1>2, <2>3 DEF Session!AwaitRefresh, Presents
    <3>2. Session!TypeOK'
      BY <2>1, <3>1, <3>r DEF SessionIInv, Session!TypeOK, Session!SetCall,
         Session!OtherTabPresents
    <3>3. TokensIssued' /\ RotationUnderWay'
      BY <2>1, <3>1 DEF SessionIInv, Session!TypeOK, TokensIssued, Exchanged, Presents,
         RotationUnderWay
    <3>4. ~rivals' => ~rivals /\ \A a \in Tabs \ {tab} : ~Presents(a) \/ refresh[a].jti # cookie
      BY <3>r DEF Session!OtherTabPresents, Presents
    <3>5. NoRival' /\ Session!RotatedOnce'
      BY <2>1, <3>1, <3>4 DEF SessionIInv, Session!TypeOK, Exchanged, Presents, NoRival,
         Session!RotatedOnce
    <3>6. ASSUME Calm' PROVE Calm /\ cookie # 0
      BY <2>1, <3>4, <3>6 DEF SessionIInv, CalmSession, Calm
    <3>8. CalmSession'
      <4>1. SUFFICES ASSUME Calm'
                     PROVE  /\ \A a \in Tabs : Presents(a)' => cookie # 0 /\ refresh'[a].jti = cookie
                            /\ (\A a \in Tabs : refresh'[a].pc # "revoked") => stored[cookie] = "live"
        BY <2>1, <3>6 DEF CalmSession
      <4>2. /\ \A a \in Tabs : Presents(a) => refresh[a].jti = cookie
            /\ (\A a \in Tabs : refresh[a].pc # "revoked") => stored[cookie] = "live"
            /\ cookie # 0
        BY <3>6, <4>1 DEF SessionIInv, CalmSession
      <4>3. /\ refresh'[tab] = [pc |-> "sent", jti |-> cookie]
            /\ \A a \in Tabs \ {tab} : refresh'[a] = refresh[a]
            /\ refresh[tab].pc # "revoked"
        BY <2>1, <2>3, <3>1 DEF SessionIInv, Session!TypeOK, Presents
      <4> QED BY <4>2, <4>3 DEF Presents
    <3>7. Session!NoSpuriousLogout' /\ LoggedOut'
      BY <2>1, <3>1, <3>4 DEF SessionIInv, Session!TypeOK, Presents, Session!NoSpuriousLogout,
         LoggedOut, Session!SetCall
    <3> QED BY <3>2, <3>3, <3>5, <3>7, <3>8 DEF SessionIInv
  <2> QED BY <2>2, <2>3
<1>3. ASSUME Session!Retry(c) PROVE SessionIInv'
  BY <1>3 DEF Session!Retry, Session!SetCall, Session!server, Session!browser, SessionIInv,
     Session!TypeOK, TokensIssued, Exchanged, Presents, RotationUnderWay, NoRival,
     Session!RotatedOnce, CalmSession, Calm, Session!NoSpuriousLogout, LoggedOut
<1>4. ASSUME Session!GiveUp(c) PROVE SessionIInv'
  BY <1>4 DEF Session!GiveUp, Session!SetCall, Session!server, SessionIInv,
     Session!TypeOK, TokensIssued, Exchanged, Presents, RotationUnderWay, NoRival,
     Session!RotatedOnce, CalmSession, Calm, Session!NoSpuriousLogout, LoggedOut
<1> QED BY <1>1, <1>2, <1>3, <1>4 DEF Session!CallStep

\* While nothing was lost, raced or logged out, the one token presented and not
\* yet revoked is live.
LEMMA CalmIsAccepted ==
  ASSUME SessionIInv, Calm, NEW tab \in Tabs, refresh[tab].pc \in {"sent", "checked"}
  PROVE  refresh[tab].jti # 0 /\ stored[refresh[tab].jti] = "live"
<1>1. /\ Presents(tab) /\ cookie # 0 /\ refresh[tab].jti = cookie
      /\ \A a \in Tabs : Presents(a) => refresh[a].jti = cookie
  BY DEF SessionIInv, CalmSession, Presents
<1>2. ASSUME NEW a \in Tabs, refresh[a].pc = "revoked" PROVE FALSE
  BY <1>1, <1>2 DEF SessionIInv, NoRival, Calm, Presents
<1> QED BY <1>1, <1>2 DEF SessionIInv, CalmSession

LEMMA Settled ==
  ASSUME SessionIInv, NEW tab \in Tabs, NEW ok \in BOOLEAN, Session!Settle(tab, ok)
  PROVE  /\ call' \in [Calls -> {"idle", "unauthorized", "awaiting", "retry", "expired"}]
         /\ refresh' \in [Tabs -> [pc : {"none", "sent", "checked", "revoked"},
                                   jti : Tokens \cup {0}]]
         /\ refresh'[tab].pc = "none"
         /\ \A a \in Tabs \ {tab} : refresh'[a] = refresh[a]
         /\ \A c \in Calls : /\ call'[c] = "expired" => call[c] = "expired" \/ ~ok
                             /\ call[c] = "idle" => call'[c] = "idle"
BY ServiceConstants DEF SessionIInv, Session!TypeOK, Session!Settle, Session!NoRefresh

\* A refresh that ends without a token.
LEMMA GivenUp ==
  ASSUME SessionIInv, NEW tab \in Tabs, Session!Settle(tab, FALSE), ~Calm, cookie' \in {cookie, 0},
         UNCHANGED <<stored, parent, rivals, access, logout, lost>>
  PROVE  SessionIInv'
<1> USE ServiceConstants
<1>1. /\ call' \in [Calls -> {"idle", "unauthorized", "awaiting", "retry", "expired"}]
      /\ refresh' \in [Tabs -> [pc : {"none", "sent", "checked", "revoked"}, jti : Tokens \cup {0}]]
      /\ refresh'[tab].pc = "none"
      /\ \A a \in Tabs \ {tab} : refresh'[a] = refresh[a]
  BY Settled
<1>2. Session!TypeOK'
  BY <1>1 DEF SessionIInv, Session!TypeOK
<1>3. TokensIssued' /\ RotationUnderWay'
  BY <1>1 DEF SessionIInv, TokensIssued, Exchanged, Presents, RotationUnderWay
<1>4. NoRival' /\ Session!RotatedOnce'
  BY <1>1 DEF SessionIInv, Exchanged, Presents, NoRival, Session!RotatedOnce
<1>5. ~Calm'
  BY DEF Calm
<1>6. CalmSession' /\ Session!NoSpuriousLogout'
  BY <1>2, <1>5 DEF CalmSession, Calm, Session!NoSpuriousLogout, Session!TypeOK
<1>7. LoggedOut'
  BY <1>1 DEF SessionIInv, LoggedOut, Presents
<1> QED BY <1>2, <1>3, <1>4, <1>6, <1>7 DEF SessionIInv

LEMMA RefusedKeeps ==
  ASSUME SessionIInv, NEW tab \in Tabs, Session!RefreshRefused(tab)
  PROVE  SessionIInv'
<1> USE ServiceConstants
<1>1. /\ refresh[tab].pc = "sent"
      /\ ~(refresh[tab].jti \in Tokens /\ stored[refresh[tab].jti] = "live")
      /\ Session!Settle(tab, FALSE) /\ cookie' \in {cookie, 0}
      /\ UNCHANGED <<stored, parent, rivals, access, logout, lost>>
  BY DEF Session!RefreshRefused, Session!RefreshAt, Session!Accepted, Session!server
<1>2. ~Calm
  BY <1>1, CalmIsAccepted DEF SessionIInv, Session!TypeOK
<1> QED BY <1>1, <1>2, GivenUp

LEMMA CheckedKeeps ==
  ASSUME SessionIInv, NEW tab \in Tabs, Session!RefreshChecked(tab)
  PROVE  SessionIInv'
<1> USE ServiceConstants
<1>1. /\ refresh[tab].pc = "sent" /\ refresh[tab].jti \in Tokens
      /\ stored[refresh[tab].jti] = "live"
      /\ refresh' = [refresh EXCEPT ![tab].pc = "checked"]
      /\ UNCHANGED <<stored, parent, rivals, call, cookie, access, logout, lost>>
  BY DEF Session!RefreshChecked, Session!RefreshAt, Session!Accepted, Session!Step,
     Session!server, Session!browser
<1>2. ~Exchanged(refresh[tab].jti)
  BY <1>1 DEF SessionIInv, TokensIssued
<1>3. Session!TypeOK' /\ TokensIssued' /\ RotationUnderWay'
  BY <1>1 DEF SessionIInv, Session!TypeOK, TokensIssued, Exchanged, Presents, RotationUnderWay
<1>4. NoRival' /\ Session!RotatedOnce'
  BY <1>1, <1>2 DEF SessionIInv, Session!TypeOK, Exchanged, Presents, NoRival, Session!RotatedOnce
<1>5. CalmSession' /\ Session!NoSpuriousLogout' /\ LoggedOut'
  BY <1>1 DEF SessionIInv, Session!TypeOK, Presents, CalmSession, Calm,
     Session!NoSpuriousLogout, LoggedOut
<1> QED BY <1>3, <1>4, <1>5 DEF SessionIInv

LEMMA RevokeKeeps ==
  ASSUME SessionIInv, NEW tab \in Tabs, Session!RotateRevoke(tab)
  PROVE  SessionIInv'
<1> USE ServiceConstants
<1> DEFINE t == refresh[tab].jti
<1>1. /\ refresh[tab].pc = "checked" /\ t \in Tokens
      /\ UNCHANGED <<parent, rivals, cookie, access, logout, lost>>
  BY DEF Session!RotateRevoke, Session!RefreshAt, Session!browser, SessionIInv, Session!TypeOK,
     RotationUnderWay
<1>2. CASE stored[t] = "none"
  <2>1. Session!Settle(tab, FALSE) /\ UNCHANGED stored
    BY <1>2 DEF Session!RotateRevoke
  <2>2. ~Calm
    BY <1>1, <1>2, CalmIsAccepted
  <2> QED BY <1>1, <2>1, <2>2, GivenUp
<1>3. CASE stored[t] # "none"
  <2>1. /\ refresh' = [refresh EXCEPT ![tab].pc = "revoked"] /\ UNCHANGED call
        /\ stored' = [u \in Tokens |-> IF u = t /\ stored[u] = "live" THEN "revoked" ELSE stored[u]]
    BY <1>3 DEF Session!RotateRevoke, Session!Step, Session!Revoke
  <2>2. Session!TypeOK' /\ TokensIssued' /\ RotationUnderWay'
    BY <1>1, <2>1 DEF SessionIInv, Session!TypeOK, TokensIssued, Exchanged, Presents,
       RotationUnderWay
  <2>3. NoRival' /\ Session!RotatedOnce'
    BY <1>1, <2>1 DEF SessionIInv, Session!TypeOK, Exchanged, Presents, NoRival,
       Session!RotatedOnce
  <2>4. CalmSession'
    BY <1>1, <2>1 DEF SessionIInv, Session!TypeOK, Presents, CalmSession, Calm, NoRival
  <2>5. Session!NoSpuriousLogout' /\ LoggedOut'
    BY <1>1, <2>1 DEF SessionIInv, Session!TypeOK, Presents,
       Session!NoSpuriousLogout, LoggedOut
  <2> QED BY <2>2, <2>3, <2>4, <2>5 DEF SessionIInv
<1> QED BY <1>2, <1>3

\* A new token in the place of the one that was revoked: stored and received,
\* or one or both lost.
LEMMA Rotated ==
  ASSUME SessionIInv, NEW tab \in Tabs, NEW ok \in BOOLEAN, NEW t \in Session!Fresh,
         NEW status \in {"none", "live"},
         refresh[tab].pc = "revoked", Session!Settle(tab, ok),
         parent' = [parent EXCEPT ![t] = refresh[tab].jti],
         stored' = [stored EXCEPT ![t] = status],
         cookie' \in {cookie, t}, access' \in {access, "fresh"}, rivals' = rivals,
         logout' = logout, lost' \in Nat,
         \/ ok /\ cookie' = t /\ status = "live" /\ lost' = lost
         \/ ~ok /\ lost' > 0
  PROVE  SessionIInv'
<1> USE ServiceConstants
<1> DEFINE j == refresh[tab].jti
<1>1. /\ t \in Tokens /\ parent[t] = 0 /\ j \in Tokens /\ j # t /\ parent[j] # 0
      /\ stored[j] # "live" /\ stored[t] = "none"
      /\ \A u \in Tokens : parent[u] # t
      /\ Session!TypeOK
  BY DEF Session!Fresh, SessionIInv, Session!TypeOK, TokensIssued, RotationUnderWay, Presents
<1>2. /\ call' \in [Calls -> {"idle", "unauthorized", "awaiting", "retry", "expired"}]
      /\ refresh' \in [Tabs -> [pc : {"none", "sent", "checked", "revoked"}, jti : Tokens \cup {0}]]
      /\ refresh'[tab].pc = "none"
      /\ \A a \in Tabs \ {tab} : refresh'[a] = refresh[a]
      /\ \A c \in Calls : /\ call'[c] = "expired" => call[c] = "expired" \/ ~ok
                          /\ call[c] = "idle" => call'[c] = "idle"
  BY Settled
<1>3. Session!TypeOK'
  BY <1>1, <1>2 DEF Session!TypeOK
<1>p. /\ parent'[t] = j /\ \A u \in Tokens \ {t} : parent'[u] = parent[u]
      /\ stored'[t] = status /\ \A u \in Tokens \ {t} : stored'[u] = stored[u]
  BY <1>1 DEF Session!TypeOK
<1>4. TokensIssued'
  <2>1. ASSUME NEW u \in Tokens
        PROVE  /\ stored'[u] # "none" => parent'[u] # 0
               /\ parent'[u] # 0 => parent'[parent'[u]] # 0
               /\ Exchanged(u)' => stored'[u] # "live"
    BY <1>1, <1>p DEF SessionIInv, Session!TypeOK, TokensIssued, Exchanged
  <2>2. cookie' # 0 => parent'[cookie'] # 0
    BY <1>1, <1>p DEF SessionIInv, Session!TypeOK, TokensIssued
  <2>3. ASSUME NEW a \in Tabs, Presents(a)', refresh'[a].jti # 0 PROVE parent'[refresh'[a].jti] # 0
    BY <1>1, <1>2, <1>p, <2>3 DEF SessionIInv, Session!TypeOK, TokensIssued, Presents
  <2> QED BY <2>1, <2>2, <2>3 DEF TokensIssued
<1>5. RotationUnderWay'
  BY <1>1, <1>2 DEF SessionIInv, Session!TypeOK, TokensIssued, RotationUnderWay, Presents
<1>6. ASSUME ~rivals
      PROVE  /\ ~Exchanged(j)
             /\ \A a \in Tabs \ {tab} : Presents(a) => refresh[a].jti # j
  BY <1>6 DEF SessionIInv, NoRival, Presents
<1>7. NoRival'
  <2>1. SUFFICES ASSUME ~rivals PROVE NoRival'
    BY DEF NoRival
  <2>2. ASSUME NEW a \in Tabs, NEW b \in Tabs, Presents(a)', Presents(b)',
               refresh'[a].jti = refresh'[b].jti
        PROVE  a = b
    BY <1>2, <2>1, <2>2 DEF SessionIInv, NoRival, Presents
  <2>3. ASSUME NEW a \in Tabs, refresh'[a].pc \in {"checked", "revoked"}
        PROVE  ~Exchanged(refresh[a].jti)'
    <3>1. a # tab /\ Presents(a) /\ refresh'[a] = refresh[a] /\ ~Exchanged(refresh[a].jti)
      BY <1>2, <2>1, <2>3 DEF SessionIInv, NoRival, Presents
    <3>2. refresh[a].jti # j
      BY <1>6, <2>1, <3>1
    <3> QED BY <1>1, <1>p, <3>1, <3>2 DEF Exchanged
  <2> QED BY <2>2, <2>3 DEF NoRival
<1>8. Session!RotatedOnce'
  BY <1>1, <1>6 DEF SessionIInv, Session!TypeOK, Session!RotatedOnce, Exchanged
<1>9. ASSUME Calm' PROVE \A a \in Tabs : ~Presents(a)' /\ cookie' = t /\ status = "live"
  <2>1. Calm /\ ok
    BY <1>9 DEF Calm
  <2>2. \A a \in Tabs \ {tab} : ~Presents(a)
    BY <2>1, <1>6 DEF SessionIInv, CalmSession, Calm, Presents
  <2> QED BY <1>2, <2>1, <2>2 DEF Presents
<1>10. CalmSession'
  BY <1>1, <1>9 DEF CalmSession, Session!TypeOK
<1>11. Session!NoSpuriousLogout'
  BY <1>1, <1>2 DEF SessionIInv, Session!NoSpuriousLogout, Session!TypeOK
<1>12. LoggedOut'
  BY <1>1 DEF SessionIInv, LoggedOut, Presents
<1> QED BY <1>3, <1>4, <1>5, <1>7, <1>8, <1>10, <1>11, <1>12 DEF SessionIInv

LEMMA RotateKeeps ==
  ASSUME SessionIInv, NEW tab \in Tabs, Session!RotateStore(tab) \/ Session!RotateLost(tab)
  PROVE  SessionIInv'
<1>1. ASSUME Session!RotateStore(tab) PROVE SessionIInv'
  <2>1. PICK t \in Session!Fresh : /\ stored' = [stored EXCEPT ![t] = "live"]
                                   /\ parent' = [parent EXCEPT ![t] = refresh[tab].jti]
                                   /\ cookie' = t
    BY <1>1 DEF Session!RotateStore
  <2>2. /\ refresh[tab].pc = "revoked" /\ Session!Settle(tab, TRUE) /\ access' = "fresh"
        /\ UNCHANGED <<rivals, logout, lost>> /\ lost \in Nat
    BY <1>1 DEF Session!RotateStore, Session!RefreshAt, SessionIInv, Session!TypeOK
  <2> QED BY <2>1, <2>2, Rotated
<1>2. ASSUME Session!RotateLost(tab) PROVE SessionIInv'
  <2>1. PICK t \in Session!Fresh, kept \in BOOLEAN, status \in {"none", "live"} :
          /\ parent' = [parent EXCEPT ![t] = refresh[tab].jti]
          /\ stored' = [stored EXCEPT ![t] = status]
          /\ cookie' = IF kept THEN t ELSE cookie
    BY <1>2 DEF Session!RotateLost
  <2>2. /\ refresh[tab].pc = "revoked" /\ Session!Settle(tab, FALSE) /\ access' = access
        /\ UNCHANGED <<rivals, logout>> /\ lost' = lost + 1
    BY <1>2 DEF Session!RotateLost, Session!RefreshAt
  <2>3. lost' \in Nat /\ lost' > 0
    BY <2>2 DEF SessionIInv, Session!TypeOK
  <2> QED BY <2>1, <2>2, <2>3, Rotated
<1> QED BY <1>1, <1>2

LEMMA SessionStep == SessionIInv /\ Session!Next => SessionIInv'
BY LoginKeeps, LogoutsKeep, CallsKeep, RefusedKeeps, CheckedKeeps, RevokeKeeps, RotateKeeps
   DEF Session!Next, Session!RefreshStep

-----------------------------------------------------------------------------
(* The terminal page                                                         *)

\* Everything under way is about a market; guests import what they have.
Underway ==
  /\ \A a \in asked : a.market \in Markets
  /\ \A p \in puts : p.value \in Markets
  /\ load.pc = "importing" => Guest # None
\* Unless two requests were out together the directory is there or asked for.
DirectoryComes ==
  ~crossed => \/ asked = {} /\ directory = market
              \/ \E a \in asked : asked = {a} /\ a.market = market
\* Until the first edit, whatever is saved or about to be is what was stored.
PrefsUntouched ==
  edits = 0 /\ ~early /\ initial # None =>
    /\ server = initial /\ \A p \in puts : p.value = initial
    /\ load.pc # "importing" /\ (load.pc = "served" => load.got = initial)
    /\ load.pc = "done" => timer \in {None, initial}

PageIInv ==
  /\ Page!TypeOK /\ Underway /\ edits \in Nat
  /\ Page!OneChainPolls /\ DirectoryComes /\ PrefsUntouched

LEMMA PageInit == Page!Init => PageIInv
<1> SUFFICES ASSUME Page!Init PROVE PageIInv
  OBVIOUS
<1> USE ServiceConstants DEF Page!Init
<1>1. Page!TypeOK
  BY DEF Page!TypeOK
<1>2. Underway /\ edits \in Nat
  BY DEF Underway
<1>3. Page!OneChainPolls
  BY DEF Page!OneChainPolls
<1>4. DirectoryComes
  BY DEF DirectoryComes
<1>5. PrefsUntouched
  BY DEF PrefsUntouched
<1> QED BY <1>1, <1>2, <1>3, <1>4, <1>5 DEF PageIInv

\* A render: the chain that polls is the new one, the directory is that of the
\* market or asked for.
LEMMA Shown ==
  ASSUME PageIInv, NEW m \in Markets, Page!Show(m), crossed => crossed'
  PROVE  /\ market' = m /\ timer' = m /\ current' \in Effects
         /\ chain' \in [Effects -> {"none", "fetching", "timer", "done"}]
         /\ directory' \in Markets \cup {None} /\ \A a \in asked' : a.market \in Markets
         /\ Page!OneChainPolls' /\ DirectoryComes'
<1> USE ServiceConstants DEF Page!Show
<1>1. Page!TypeOK /\ Underway /\ Page!OneChainPolls /\ DirectoryComes
  BY DEF PageIInv
<1>2. /\ market' = m /\ timer' = m /\ current' = current + 1 /\ current + 1 \in Effects
      /\ current \in Effects /\ current # current + 1
      /\ chain' \in [Effects -> {"none", "fetching", "timer", "done"}]
      /\ chain'[current] # "timer" /\ chain'[current + 1] = "fetching"
      /\ \A c \in Effects \ {current, current + 1} : chain'[c] = chain[c]
  BY <1>1 DEF Page!TypeOK
<1>3. Page!OneChainPolls'
  BY <1>1, <1>2 DEF Page!OneChainPolls
<1>4. CASE m = market
  <2>1. UNCHANGED <<asked, directory, crossed>>
    BY <1>4
  <2> QED BY <1>1, <1>2, <1>3, <1>4, <2>1 DEF Page!TypeOK, Underway, DirectoryComes
<1>5. CASE m # market
  <2>1. /\ asked' = asked \cup {[n |-> current + 1, market |-> m]} /\ directory' = None
        /\ crossed' = (crossed \/ asked # {})
    BY <1>5
  <2>2. \A a \in asked' : a.market \in Markets
    BY <1>1, <2>1 DEF Underway
  <2> DEFINE new == [n |-> current + 1, market |-> m]
  <2>3. ASSUME ~crossed' PROVE asked' = {new} /\ new.market = market'
    BY <1>2, <2>1, <2>3
  <2> HIDE DEF new
  <2>4. DirectoryComes'
    BY <2>3 DEF DirectoryComes
  <2> QED BY <1>2, <1>3, <2>1, <2>2, <2>4
<1> QED BY <1>4, <1>5

LEMMA EditKeeps ==
  ASSUME PageIInv, NEW m \in Markets, Page!Edit(m)
  PROVE  PageIInv'
<1>1. /\ Page!Show(m) /\ edits' = edits + 1 /\ (crossed => crossed')
      /\ UNCHANGED <<server, puts, putCount, early, initial, load, imported>>
  BY DEF Page!Edit, Page!saving, Page!Show
<1>2. /\ market' = m /\ timer' = m /\ current' \in Effects
      /\ chain' \in [Effects -> {"none", "fetching", "timer", "done"}]
      /\ directory' \in Markets \cup {None} /\ \A a \in asked' : a.market \in Markets
      /\ Page!OneChainPolls' /\ DirectoryComes'
  BY <1>1, Shown
<1>3. Page!TypeOK'
  BY <1>1, <1>2 DEF PageIInv, Page!TypeOK
<1>4. Underway' /\ edits' \in Nat /\ edits' # 0
  BY <1>1, <1>2 DEF PageIInv, Underway
<1> QED BY <1>2, <1>3, <1>4 DEF PageIInv, PrefsUntouched

LEMMA LoadKeeps ==
  ASSUME PageIInv, Page!LoadServed \/ Page!LoadApply \/ Page!ImportDone
  PROVE  PageIInv'
<1> USE ServiceConstants
<1>1. ASSUME Page!LoadServed PROVE PageIInv'
  BY <1>1 DEF Page!LoadServed, Page!saving, Page!polling, PageIInv, Page!TypeOK, Underway,
     Page!OneChainPolls, DirectoryComes, PrefsUntouched
<1>2. ASSUME Page!LoadApply PROVE PageIInv'
  <2>1. load.pc = "served" /\ UNCHANGED <<server, initial, imported, early, edits>>
    BY <1>2 DEF Page!LoadApply
  <2>2. CASE load.got = None /\ Guest # None /\ ~imported
    <3>1. /\ load' = [load EXCEPT !.pc = "importing"]
          /\ puts' = puts \cup {[n |-> putCount + 1, value |-> Guest, import |-> TRUE]}
          /\ (crossed => crossed')
          /\ UNCHANGED <<market, timer, chain, current, asked, directory>>
      BY <1>2, <2>2 DEF Page!LoadApply, Page!Put, Page!polling
    <3>2. Page!TypeOK' /\ edits' \in Nat
      BY <2>1, <3>1 DEF PageIInv, Page!TypeOK
    <3>3. Underway'
      BY <2>2, <3>1 DEF PageIInv, Underway
    <3>4. Page!OneChainPolls' /\ DirectoryComes'
      BY <3>1 DEF PageIInv, Page!OneChainPolls, DirectoryComes
    <3>5. PrefsUntouched'
      BY <2>1, <2>2 DEF PageIInv, PrefsUntouched
    <3> QED BY <3>2, <3>3, <3>4, <3>5 DEF PageIInv
  <2>3. CASE ~(load.got = None /\ Guest # None /\ ~imported)
    <3> DEFINE m == IF load.got = None THEN Default ELSE load.got
    <3>1. /\ load' = [load EXCEPT !.pc = "done"] /\ Page!Show(m) /\ m \in Markets
          /\ UNCHANGED <<puts, putCount>> /\ (crossed => crossed')
      BY <1>2, <2>3 DEF Page!LoadApply, Page!Show, PageIInv, Page!TypeOK
    <3>2. /\ market' = m /\ timer' = m /\ current' \in Effects
          /\ chain' \in [Effects -> {"none", "fetching", "timer", "done"}]
          /\ directory' \in Markets \cup {None} /\ \A a \in asked' : a.market \in Markets
          /\ Page!OneChainPolls' /\ DirectoryComes'
      BY <3>1, Shown
    <3>3. Page!TypeOK' /\ edits' \in Nat /\ Underway'
      BY <2>1, <3>1, <3>2 DEF PageIInv, Page!TypeOK, Underway
    <3>4. PrefsUntouched'
      BY <2>1, <3>1, <3>2 DEF PageIInv, Page!TypeOK, PrefsUntouched
    <3> QED BY <3>2, <3>3, <3>4 DEF PageIInv
  <2> QED BY <2>2, <2>3
<1>3. ASSUME Page!ImportDone PROVE PageIInv'
  <2>1. /\ load.pc = "importing" /\ load' = [load EXCEPT !.pc = "done"]
        /\ Page!Show(Guest) /\ Guest \in Markets /\ (crossed => crossed')
        /\ UNCHANGED <<server, puts, putCount, early, initial, edits>>
    BY <1>3 DEF Page!ImportDone, Page!saving, Page!Show, PageIInv, Underway
  <2>2. /\ market' = Guest /\ timer' = Guest /\ current' \in Effects
        /\ chain' \in [Effects -> {"none", "fetching", "timer", "done"}]
        /\ directory' \in Markets \cup {None} /\ \A a \in asked' : a.market \in Markets
        /\ Page!OneChainPolls' /\ DirectoryComes'
    BY <2>1, Shown
  <2>3. Page!TypeOK' /\ edits' \in Nat /\ Underway'
    BY <2>1, <2>2 DEF PageIInv, Page!TypeOK, Underway
  <2>4. PrefsUntouched'
    BY <2>1 DEF PageIInv, PrefsUntouched
  <2> QED BY <2>2, <2>3, <2>4 DEF PageIInv
<1> QED BY <1>1, <1>2, <1>3

LEMMA SavesKeep ==
  ASSUME PageIInv, Page!SaveTimer \/ Page!PutServed \/ Page!SymbolsArrive
  PROVE  PageIInv'
<1> USE ServiceConstants
<1>1. ASSUME Page!SaveTimer PROVE PageIInv'
  <2>1. /\ timer # None /\ timer' = None /\ early' = (early \/ load.pc # "done")
        /\ puts' = puts \cup {[n |-> putCount + 1, value |-> timer, import |-> FALSE]}
        /\ (crossed => crossed')
        /\ UNCHANGED <<market, server, initial, load, imported, asked, directory, chain, current, edits>>
    BY <1>1 DEF Page!SaveTimer, Page!Put, Page!polling
  <2>2. Page!TypeOK' /\ edits' \in Nat
    BY <2>1 DEF PageIInv, Page!TypeOK
  <2>3. Underway'
    BY <2>1 DEF PageIInv, Page!TypeOK, Underway
  <2>4. Page!OneChainPolls' /\ DirectoryComes'
    BY <2>1 DEF PageIInv, Page!OneChainPolls, DirectoryComes
  <2>5. PrefsUntouched'
    <3>1. SUFFICES ASSUME edits = 0, ~early', initial # None
                   PROVE  /\ server = initial /\ \A p \in puts' : p.value = initial
                          /\ load.pc # "importing" /\ (load.pc = "served" => load.got = initial)
      BY <2>1 DEF PrefsUntouched
    <3>2. ~early /\ load.pc = "done"
      BY <2>1, <3>1
    <3>3. server = initial /\ timer = initial /\ \A p \in puts : p.value = initial
      BY <2>1, <3>1, <3>2 DEF PageIInv, PrefsUntouched
    <3> QED BY <2>1, <3>2, <3>3
  <2> QED BY <2>2, <2>3, <2>4, <2>5 DEF PageIInv
<1>2. ASSUME Page!PutServed PROVE PageIInv'
  BY <1>2 DEF Page!PutServed, Page!polling, PageIInv, Page!TypeOK, Underway,
     Page!OneChainPolls, DirectoryComes, PrefsUntouched
<1>3. ASSUME Page!SymbolsArrive PROVE PageIInv'
  BY <1>3 DEF Page!SymbolsArrive, Page!saving, Page!polling, PageIInv, Page!TypeOK, Underway,
     Page!OneChainPolls, DirectoryComes, PrefsUntouched
<1> QED BY <1>1, <1>2, <1>3

LEMMA PollsKeep ==
  ASSUME PageIInv, NEW c \in Effects, Page!PollEnds(c) \/ Page!PollAgain(c)
  PROVE  PageIInv'
BY DEF Page!PollEnds, Page!PollAgain, Page!saving, PageIInv, Page!TypeOK, Underway,
   Page!OneChainPolls, DirectoryComes, PrefsUntouched

LEMMA PageStep == PageIInv /\ Page!Next => PageIInv'
BY EditKeeps, LoadKeeps, SavesKeep, PollsKeep DEF Page!Next

-----------------------------------------------------------------------------
(* The venue's feed: the theorems of WsConnectionProofs, for both clients    *)

PrivateProofs == INSTANCE WsConnectionProofs WITH Private <- TRUE
PublicProofs == INSTANCE WsConnectionProofs WITH Private <- FALSE
FeedIInv == In("private", PrivateProofs!IInv) /\ In("public", PublicProofs!IInv)

LEMMA SocketConstants == PrivateProofs!WsConstants /\ PublicProofs!WsConstants
BY ServiceConstants DEF PrivateProofs!WsConstants, PublicProofs!WsConstants

LEMMA SameInit ==
  /\ PrivateSocket!Init => PrivateProofs!Init
  /\ PrivateSocket!Init => PublicProofs!Init
BY DEF PrivateSocket!Init, PrivateProofs!Init, PublicProofs!Init

LEMMA PrivateNext == PrivateSocket!Next => [PrivateProofs!Next]_PrivateProofs!vars
BY DEF PrivateSocket!Live, PrivateSocket!Unused, PrivateSocket!Init,
   PrivateSocket!OpenSocket, PrivateSocket!Connect, PrivateSocket!StopHeartbeat,
   PrivateSocket!ScheduleReconnect, PrivateSocket!Subscribed,
   PrivateSocket!SocketOpens, PrivateSocket!Authenticate,
   PrivateSocket!SocketCloses, PrivateSocket!ReconnectFires,
   PrivateSocket!CloseSocket, PrivateSocket!Close, PrivateSocket!Ping,
   PrivateSocket!Pong, PrivateSocket!PongTimeout, PrivateSocket!Subscribe,
   PrivateSocket!Unsubscribe, PrivateSocket!Next, PrivateSocket!vars,
   PrivateProofs!Live, PrivateProofs!Unused, PrivateProofs!Init,
   PrivateProofs!OpenSocket, PrivateProofs!Connect, PrivateProofs!StopHeartbeat,
   PrivateProofs!ScheduleReconnect, PrivateProofs!Subscribed,
   PrivateProofs!SocketOpens, PrivateProofs!Authenticate,
   PrivateProofs!SocketCloses, PrivateProofs!ReconnectFires,
   PrivateProofs!CloseSocket, PrivateProofs!Close, PrivateProofs!Ping,
   PrivateProofs!Pong, PrivateProofs!PongTimeout, PrivateProofs!Subscribe,
   PrivateProofs!Unsubscribe, PrivateProofs!Next, PrivateProofs!vars

LEMMA PublicNext == PublicSocket!Next => [PublicProofs!Next]_PublicProofs!vars
BY DEF PublicSocket!Live, PublicSocket!Unused, PublicSocket!Init,
   PublicSocket!OpenSocket, PublicSocket!Connect, PublicSocket!StopHeartbeat,
   PublicSocket!ScheduleReconnect, PublicSocket!Subscribed,
   PublicSocket!SocketOpens, PublicSocket!Authenticate, PublicSocket!SocketCloses,
   PublicSocket!ReconnectFires, PublicSocket!CloseSocket, PublicSocket!Close,
   PublicSocket!Ping, PublicSocket!Pong, PublicSocket!PongTimeout,
   PublicSocket!Subscribe, PublicSocket!Unsubscribe, PublicSocket!Next,
   PublicSocket!vars, PublicProofs!Live, PublicProofs!Unused, PublicProofs!Init,
   PublicProofs!OpenSocket, PublicProofs!Connect, PublicProofs!StopHeartbeat,
   PublicProofs!ScheduleReconnect, PublicProofs!Subscribed,
   PublicProofs!SocketOpens, PublicProofs!Authenticate, PublicProofs!SocketCloses,
   PublicProofs!ReconnectFires, PublicProofs!CloseSocket, PublicProofs!Close,
   PublicProofs!Ping, PublicProofs!Pong, PublicProofs!PongTimeout,
   PublicProofs!Subscribe, PublicProofs!Unsubscribe, PublicProofs!Next,
   PublicProofs!vars

LEMMA PrivateStep == PrivateProofs!IInv /\ PrivateSocket!Next => PrivateProofs!IInv'
BY PrivateNext, SocketConstants, PrivateProofs!NextInv

LEMMA PublicStep == PublicProofs!IInv /\ PublicSocket!Next => PublicProofs!IInv'
BY PublicNext, SocketConstants, PublicProofs!NextInv

-----------------------------------------------------------------------------
(* The assistant                                                             *)

Pcs == {"idle", "audit", "deps", "resolve", "dispatch", "executed", "failed"}
Inputs == {"none", "context", "placeholder"}
            \cup UNION {{items[i].target : i \in DOMAIN items} : items \in RawPlans}
AuditShape == audit \in Seq([action : DOMAIN plan, status : {"PROPOSED", "EXECUTED", "FAILED"}])
ExecShape == exec \in [Clients -> [pc : Pcs, action : Nat, row : Nat, input : Inputs]]
AssistantShape ==
  /\ DOMAIN plan \subseteq Nat \ {0} /\ effects \in [DOMAIN plan -> Nat]
  /\ DOMAIN raw = DOMAIN plan /\ racing \in BOOLEAN /\ faults \in Nat
\* A request that is served has an action of the plan, and the row it writes is
\* a row of that action.
ServedRequest(h) ==
  /\ exec[h].pc = "idle" => exec[h].action = 0 /\ exec[h].row = 0
  /\ exec[h].pc # "idle" => exec[h].action \in DOMAIN plan
  /\ exec[h].row # 0 => /\ exec[h].row \in DOMAIN audit
                        /\ audit[exec[h].row].action = exec[h].action
  /\ exec[h].pc \in {"dispatch", "executed", "failed"} => exec[h].row # 0
\* What is EXECUTED, or about to be, took effect; what is past the check has
\* dependencies that took effect.
Substantiated ==
  /\ \A k \in DOMAIN audit : audit[k].status = "EXECUTED" => effects[audit[k].action] > 0
  /\ \A h \in Clients :
       /\ exec[h].pc = "executed" => effects[exec[h].action] > 0
       /\ exec[h].pc \in {"resolve", "dispatch"} =>
            \A d \in plan[exec[h].action].deps : effects[d] > 0
\* A stored plan is the parsed answer, and depends on nothing but itself.
Parsed ==
  /\ plan # <<>> => raw \in RawPlans /\ plan = Assistant!Parse(raw)
  /\ \A a \in DOMAIN plan : plan[a].deps \subseteq DOMAIN plan
\* Until two requests meet at an action or one dies, an action has one request
\* and one row at a time, and its effect an EXECUTED row or a request that is
\* about to write it.
OneByOne ==
  ~racing /\ faults = 0 =>
    /\ \A h, k \in Clients : exec[h].action = exec[k].action /\ exec[h].action # 0 => h = k
    /\ \A k, l \in DOMAIN audit : audit[k].action = audit[l].action => k = l
    /\ \A h \in Clients :
         /\ exec[h].pc \in {"deps", "resolve"} /\ exec[h].row = 0 =>
              \A k \in DOMAIN audit : audit[k].action # exec[h].action
         /\ exec[h].pc \in {"deps", "resolve", "dispatch", "failed"} =>
              effects[exec[h].action] = 0
    /\ \A a \in DOMAIN plan : effects[a] > 0 =>
         \/ \E k \in DOMAIN audit : audit[k].action = a /\ audit[k].status = "EXECUTED"
         \/ \E h \in Clients : exec[h].action = a /\ exec[h].pc = "executed"

AssistantIInv ==
  /\ AssistantShape /\ AuditShape /\ ExecShape
  /\ \A h \in Clients : ServedRequest(h)
  /\ Substantiated /\ Parsed /\ OneByOne
  /\ Assistant!EffectOnce /\ Assistant!DependenciesFirst

\* The provider's answers are sequences.
LEMMA Answers == \A items \in RawPlans : Len(items) \in Nat /\ DOMAIN items = 1..Len(items)
BY DEF RawPlans, Item

\* The last of the items of one id is one of them.
LEMMA ServerIdIs ==
  ASSUME NEW items, Len(items) \in Nat, DOMAIN items = 1..Len(items), NEW id,
         Assistant!ServerId(items, id) # 0
  PROVE  /\ Assistant!ServerId(items, id) \in DOMAIN items
         /\ items[Assistant!ServerId(items, id)].id = id
<1> DEFINE same == {i \in DOMAIN items : items[i].id = id}
<1>1. same # {} /\ Assistant!ServerId(items, id) = CHOOSE i \in same : \A k \in same : k <= i
  BY DEF Assistant!ServerId
<1> DEFINE below == {Len(items) - i : i \in same}
<1>2. below \in SUBSET Nat /\ below # {}
  BY <1>1
<1>3. PICK s \in below : \A u \in below : s <= u
  BY <1>2, PublicProofs!Least
<1>4. PICK i \in same : s = Len(items) - i
  BY <1>3
<1>5. \A k \in same : Len(items) - i <= Len(items) - k
  BY <1>3, <1>4
<1>6. \A k \in same : k <= i
  BY <1>5
<1> HIDE DEF same
<1>7. (CHOOSE j \in same : \A k \in same : k <= j) \in same
  BY <1>4, <1>6
<1> QED BY <1>1, <1>7 DEF same

LEMMA DependenciesAreItems ==
  ASSUME NEW items \in RawPlans, NEW a \in DOMAIN items,
         NEW d \in Assistant!DependsOn(items, items[a])
  PROVE  /\ d \in DOMAIN items
         /\ \E k \in DOMAIN items[a].deps : items[d].id = items[a].deps[k]
<1>1. PICK k \in DOMAIN items[a].deps : d = Assistant!ServerId(items, items[a].deps[k])
  BY DEF Assistant!DependsOn
<1>2. d # 0
  BY DEF Assistant!DependsOn
<1> QED BY <1>1, <1>2, Answers, ServerIdIs

LEMMA TargetIs ==
  ASSUME Parsed, AssistantShape, NEW a \in DOMAIN plan, Len(plan[a].target) = 1
  PROVE  plan[a].target[1] \in Inputs
<1>1. plan # <<>> /\ raw \in RawPlans /\ a \in DOMAIN raw
  BY DEF Parsed, AssistantShape
<1>2. plan[a].target = Assistant!Target(raw, raw[a])
  BY <1>1 DEF Parsed, Assistant!Parse
<1>3. plan[a].target = <<raw[a].target>>
  BY <1>2 DEF Assistant!Target
<1> QED BY <1>1, <1>3 DEF Inputs

LEMMA AuditRows ==
  AuditShape => /\ DOMAIN audit \subseteq Nat \ {0}
                /\ \A k \in DOMAIN audit :
                     /\ audit[k].action \in DOMAIN plan
                     /\ audit[k].status \in {"PROPOSED", "EXECUTED", "FAILED"}
<1> SUFFICES ASSUME AuditShape
             PROVE  /\ DOMAIN audit \subseteq Nat \ {0}
                    /\ \A k \in DOMAIN audit :
                         /\ audit[k].action \in DOMAIN plan
                         /\ audit[k].status \in {"PROPOSED", "EXECUTED", "FAILED"}
  OBVIOUS
<1> DEFINE Row == [action : DOMAIN plan, status : {"PROPOSED", "EXECUTED", "FAILED"}]
<1>1. audit \in Seq(Row)
  BY DEF AuditShape
<1>2. DOMAIN audit = 1..Len(audit) /\ Len(audit) \in Nat /\ \A k \in DOMAIN audit : audit[k] \in Row
  <2> HIDE DEF Row
  <2> QED BY <1>1
<1> QED BY <1>2

LEMMA NoneIsInput == "none" \in Inputs
BY DEF Inputs

\* A request moves and the others stay where they are.
LEMMA ExecMoves ==
  ASSUME ExecShape, NEW h \in Clients,
         NEW to \in [pc : Pcs, action : Nat, row : Nat, input : Inputs],
         exec' = [exec EXCEPT ![h] = to]
  PROVE  ExecShape' /\ exec'[h] = to /\ \A k \in Clients \ {h} : exec'[k] = exec[k]
BY DEF ExecShape

LEMMA ExecGoes ==
  ASSUME ExecShape, NEW h \in Clients, NEW to \in Pcs, exec' = [exec EXCEPT ![h].pc = to]
  PROVE  /\ ExecShape' /\ exec'[h].pc = to /\ exec'[h].action = exec[h].action
         /\ exec'[h].row = exec[h].row /\ \A k \in Clients \ {h} : exec'[k] = exec[k]
BY DEF ExecShape

LEMMA AssistantInit == Assistant!Init => AssistantIInv
<1> SUFFICES ASSUME Assistant!Init PROVE AssistantIInv
  OBVIOUS
<1> USE DEF Assistant!Init, Assistant!NoExec
<1>1. AssistantShape /\ AuditShape
  <2>1. audit = <<>>
    OBVIOUS
  <2>2. audit \in Seq([action : DOMAIN plan, status : {"PROPOSED", "EXECUTED", "FAILED"}])
    BY ONLY <2>1
  <2>3. DOMAIN plan = {} /\ DOMAIN raw = {} /\ effects \in [DOMAIN plan -> Nat]
    OBVIOUS
  <2> QED BY <2>2, <2>3 DEF AssistantShape, AuditShape
<1>4. ExecShape
  BY NoneIsInput DEF ExecShape, Pcs
<1>2. (\A h \in Clients : ServedRequest(h)) /\ Substantiated /\ Parsed
  BY DEF ServedRequest, Substantiated, Parsed
<1>3. OneByOne /\ Assistant!EffectOnce /\ Assistant!DependenciesFirst
  BY DEF OneByOne, Assistant!EffectOnce, Assistant!DependenciesFirst
<1> QED BY <1>1, <1>2, <1>3, <1>4 DEF AssistantIInv

LEMMA RequestPlanKeeps == AssistantIInv /\ Assistant!RequestPlan => AssistantIInv'
<1> SUFFICES ASSUME AssistantIInv, Assistant!RequestPlan PROVE AssistantIInv'
  OBVIOUS
<1>1. PICK items \in RawPlans : /\ raw' = items /\ plan' = Assistant!Parse(items)
                                /\ effects' = [i \in DOMAIN items |-> 0]
  BY DEF Assistant!RequestPlan
<1>2. plan = <<>> /\ UNCHANGED <<audit, exec, racing, faults>>
  BY DEF Assistant!RequestPlan
<1>3. DOMAIN plan = {}
  BY <1>2
<1>4. /\ DOMAIN plan' = DOMAIN items /\ DOMAIN items \subseteq Nat \ {0}
      /\ \A a \in DOMAIN items : plan'[a].deps = Assistant!DependsOn(items, items[a])
  BY <1>1, Answers DEF Assistant!Parse
<1>5. \A h \in Clients : exec[h].pc = "idle" /\ exec[h].action = 0 /\ exec[h].row = 0
  BY <1>3 DEF AssistantIInv, ServedRequest
<1>6. audit = <<>>
  BY <1>3 DEF AssistantIInv, AuditShape
<1>7. AuditShape' /\ ExecShape'
  BY <1>2, <1>6 DEF AssistantIInv, AuditShape, ExecShape
<1>8. AssistantShape'
  BY <1>1, <1>2, <1>4 DEF AssistantIInv, AssistantShape
<1>9. (\A h \in Clients : ServedRequest(h))' /\ Substantiated'
  BY <1>2, <1>5, <1>6 DEF ServedRequest, Substantiated
<1>10. Parsed'
  BY <1>1, <1>4, DependenciesAreItems DEF Parsed
<1>11. OneByOne' /\ Assistant!EffectOnce' /\ Assistant!DependenciesFirst'
  BY <1>1, <1>2, <1>4, <1>5, <1>6 DEF OneByOne, Assistant!EffectOnce, Assistant!DependenciesFirst
<1> QED BY <1>7, <1>8, <1>9, <1>10, <1>11 DEF AssistantIInv

LEMMA LoadKeepsPlan ==
  ASSUME AssistantIInv, NEW h \in Clients, NEW a \in DOMAIN plan, Assistant!Load(h, a)
  PROVE  AssistantIInv'
<1>1. /\ exec[h].pc = "idle"
      /\ exec' = [exec EXCEPT ![h] = [pc |-> "audit", action |-> a, row |-> 0, input |-> "none"]]
      /\ racing' = (racing \/ \E k \in Clients \ {h} : exec[k].action = a)
      /\ UNCHANGED <<plan, raw, audit, effects, faults>>
  BY DEF Assistant!Load, Assistant!At
<1>2. AssistantShape' /\ AuditShape'
  BY <1>1 DEF AssistantIInv, AssistantShape, AuditShape
<1>3. /\ exec'[h] = [pc |-> "audit", action |-> a, row |-> 0, input |-> "none"]
      /\ ExecShape' /\ \A k \in Clients \ {h} : exec'[k] = exec[k]
  <2>1. [pc |-> "audit", action |-> a, row |-> 0, input |-> "none"]
          \in [pc : Pcs, action : Nat, row : Nat, input : Inputs]
    BY NoneIsInput DEF Pcs, AssistantIInv, AssistantShape
  <2> QED BY <1>1, <2>1, ExecMoves DEF AssistantIInv
<1>4. (\A k \in Clients : ServedRequest(k))'
  BY <1>1, <1>3 DEF AssistantIInv, ServedRequest
<1>5. Substantiated' /\ Parsed'
  BY <1>1, <1>3 DEF AssistantIInv, Substantiated, Parsed
<1>6. OneByOne'
  <2>1. SUFFICES ASSUME ~racing', faults = 0 PROVE OneByOne'
    BY <1>1 DEF OneByOne
  <2>2. ~racing /\ \A k \in Clients \ {h} : exec[k].action # a
    BY <1>1, <2>1
  <2>3. ASSUME NEW b \in DOMAIN plan, effects[b] > 0
        PROVE  \/ \E k \in DOMAIN audit : audit[k].action = b /\ audit[k].status = "EXECUTED"
               \/ \E k \in Clients : exec'[k].action = b /\ exec'[k].pc = "executed"
    <3>1. \/ \E k \in DOMAIN audit : audit[k].action = b /\ audit[k].status = "EXECUTED"
          \/ \E k \in Clients : exec[k].action = b /\ exec[k].pc = "executed"
      BY <2>1, <2>2, <2>3 DEF AssistantIInv, OneByOne
    <3> QED BY <1>1, <1>3, <3>1
  <2> QED BY <1>1, <1>3, <2>1, <2>2, <2>3 DEF AssistantIInv, OneByOne
<1>7. Assistant!EffectOnce' /\ Assistant!DependenciesFirst'
  BY <1>1 DEF AssistantIInv, Assistant!EffectOnce, Assistant!DependenciesFirst
<1> QED BY <1>2, <1>3, <1>4, <1>5, <1>6, <1>7 DEF AssistantIInv

\* A request that is answered or dies leaves nothing behind that matters here.
LEMMA ReplyKeeps ==
  ASSUME AssistantIInv, NEW h \in Clients, Assistant!Reply(h),
         exec[h].pc = "executed" => faults' # 0,
         faults' \in Nat, faults' = 0 => faults = 0,
         UNCHANGED <<plan, raw, audit, effects, racing>>
  PROVE  AssistantIInv'
<1>1. exec' = [exec EXCEPT ![h] = [pc |-> "idle", action |-> 0, row |-> 0, input |-> "none"]]
  BY DEF Assistant!Reply, Assistant!NoExec
<1>2. /\ exec'[h] = [pc |-> "idle", action |-> 0, row |-> 0, input |-> "none"]
      /\ ExecShape' /\ \A k \in Clients \ {h} : exec'[k] = exec[k]
  <2>1. [pc |-> "idle", action |-> 0, row |-> 0, input |-> "none"]
          \in [pc : Pcs, action : Nat, row : Nat, input : Inputs]
    BY NoneIsInput DEF Pcs
  <2> QED BY <1>1, <2>1, ExecMoves DEF AssistantIInv
<1>3. AssistantShape' /\ AuditShape'
  BY DEF AssistantIInv, AssistantShape, AuditShape
<1>4. (\A k \in Clients : ServedRequest(k))'
  BY <1>2 DEF AssistantIInv, ServedRequest
<1>5. Substantiated' /\ Parsed'
  BY <1>2 DEF AssistantIInv, Substantiated, Parsed
<1>6. OneByOne'
  <2>1. SUFFICES ASSUME ~racing, faults = 0, exec[h].pc # "executed" PROVE OneByOne'
    BY DEF OneByOne
  <2> QED BY <1>2, <2>1 DEF AssistantIInv, OneByOne
<1>7. Assistant!EffectOnce' /\ Assistant!DependenciesFirst'
  BY DEF AssistantIInv, Assistant!EffectOnce, Assistant!DependenciesFirst
<1> QED BY <1>2, <1>3, <1>4, <1>5, <1>6, <1>7 DEF AssistantIInv

LEMMA FindAuditKeeps ==
  ASSUME AssistantIInv, NEW h \in Clients, Assistant!FindAudit(h)
  PROVE  AssistantIInv'
<1> DEFINE a == exec[h].action
<1>1. exec[h].pc = "audit" /\ UNCHANGED <<plan, raw, effects, racing, faults, audit>>
  BY DEF Assistant!FindAudit, Assistant!At, Assistant!stored
<1>2. PICK k \in IF Assistant!Rows(a) = {} THEN {0} ELSE Assistant!Rows(a) :
        IF k # 0 /\ audit[k].status = "EXECUTED" THEN Assistant!Reply(h)
        ELSE exec' = [exec EXCEPT ![h].pc = "deps", ![h].row = k]
  BY DEF Assistant!FindAudit
<1>3. CASE k # 0 /\ audit[k].status = "EXECUTED"
  BY <1>1, <1>2, <1>3, ReplyKeeps DEF AssistantIInv, AssistantShape
<1>4. CASE ~(k # 0 /\ audit[k].status = "EXECUTED")
  <2>1. exec' = [exec EXCEPT ![h].pc = "deps", ![h].row = k]
    BY <1>2, <1>4
  <2>2. /\ k = 0 => \A l \in DOMAIN audit : audit[l].action # a
        /\ k # 0 => k \in DOMAIN audit /\ audit[k].action = a
        /\ k \in Nat
    BY <1>2, AuditRows DEF Assistant!Rows, AssistantIInv
  <2>3. /\ exec'[h].pc = "deps" /\ exec'[h].row = k /\ exec'[h].action = a
        /\ \A l \in Clients \ {h} : exec'[l] = exec[l]
    BY <2>1 DEF AssistantIInv, ExecShape
  <2>9. ExecShape'
    BY <2>1, <2>2 DEF AssistantIInv, ExecShape, Pcs
  <2>4. AssistantShape' /\ AuditShape'
    BY <1>1 DEF AssistantIInv, AssistantShape, AuditShape
  <2>5. (\A l \in Clients : ServedRequest(l))'
    BY <1>1, <2>2, <2>3 DEF AssistantIInv, ServedRequest
  <2>6. Substantiated' /\ Parsed'
    BY <1>1, <2>3 DEF AssistantIInv, Substantiated, Parsed
  <2>7. OneByOne'
    <3>1. SUFFICES ASSUME ~racing, faults = 0 PROVE OneByOne'
      BY <1>1 DEF OneByOne
    <3>2. a \in DOMAIN plan /\ a # 0
      BY <1>1 DEF AssistantIInv, ServedRequest, AssistantShape
    <3>3. effects[a] = 0
      <4>1. ~ \E l \in Clients : exec[l].action = a /\ exec[l].pc = "executed"
        BY <1>1, <3>1, <3>2 DEF AssistantIInv, OneByOne
      <4>2. ~ \E l \in DOMAIN audit : audit[l].action = a /\ audit[l].status = "EXECUTED"
        BY <1>4, <2>2, <3>1 DEF AssistantIInv, OneByOne
      <4>3. ~(effects[a] > 0)
        BY <3>1, <3>2, <4>1, <4>2 DEF AssistantIInv, OneByOne
      <4>4. effects[a] \in Nat
        BY <3>2 DEF AssistantIInv, AssistantShape
      <4> QED BY <4>3, <4>4
    <3> QED BY <1>1, <2>2, <2>3, <3>1, <3>3 DEF AssistantIInv, OneByOne
  <2>8. Assistant!EffectOnce' /\ Assistant!DependenciesFirst'
    BY <1>1 DEF AssistantIInv, Assistant!EffectOnce, Assistant!DependenciesFirst
  <2> QED BY <2>4, <2>5, <2>6, <2>7, <2>8, <2>9 DEF AssistantIInv
<1> QED BY <1>3, <1>4

LEMMA CheckDependenciesKeeps ==
  ASSUME AssistantIInv, NEW h \in Clients, Assistant!CheckDependencies(h)
  PROVE  AssistantIInv'
<1> DEFINE a == exec[h].action
<1>1. exec[h].pc = "deps" /\ UNCHANGED <<plan, raw, effects, racing, faults, audit>>
  BY DEF Assistant!CheckDependencies, Assistant!At, Assistant!stored
<1>2. CASE \A d \in plan[a].deps : Assistant!Executed(d) # {}
  <2>1. exec' = [exec EXCEPT ![h].pc = "resolve"]
    BY <1>2 DEF Assistant!CheckDependencies, Assistant!Goto
  <2>2. /\ exec'[h].pc = "resolve" /\ exec'[h].row = exec[h].row /\ exec'[h].action = a
        /\ ExecShape' /\ \A l \in Clients \ {h} : exec'[l] = exec[l]
    BY <2>1, ExecGoes DEF AssistantIInv, Pcs
  <2>3. AssistantShape' /\ AuditShape'
    BY <1>1 DEF AssistantIInv, AssistantShape, AuditShape
  <2>4. (\A l \in Clients : ServedRequest(l))'
    BY <1>1, <2>2 DEF AssistantIInv, ServedRequest
  <2>5. \A d \in plan[a].deps : effects[d] > 0
    BY <1>2 DEF AssistantIInv, Substantiated, Assistant!Executed, Assistant!Rows
  <2>6. Substantiated' /\ Parsed'
    BY <1>1, <2>2, <2>5 DEF AssistantIInv, Substantiated, Parsed
  <2>7. OneByOne'
    BY <1>1, <2>2 DEF AssistantIInv, OneByOne
  <2>8. Assistant!EffectOnce' /\ Assistant!DependenciesFirst'
    BY <1>1 DEF AssistantIInv, Assistant!EffectOnce, Assistant!DependenciesFirst
  <2> QED BY <2>2, <2>3, <2>4, <2>6, <2>7, <2>8 DEF AssistantIInv
<1>3. CASE ~ \A d \in plan[a].deps : Assistant!Executed(d) # {}
  <2>1. Assistant!Reply(h)
    BY <1>3 DEF Assistant!CheckDependencies
  <2> QED BY <1>1, <2>1, ReplyKeeps DEF AssistantIInv, AssistantShape
<1> QED BY <1>2, <1>3

LEMMA ProposeAuditKeeps ==
  ASSUME AssistantIInv, NEW h \in Clients, Assistant!ProposeAudit(h)
  PROVE  AssistantIInv'
<1> DEFINE a == exec[h].action
           entry == IF exec[h].row # 0 THEN exec[h].row ELSE Len(audit) + 1
           new == [action |-> a, status |-> "PROPOSED"]
           input == Assistant!Resolve(plan[a].target)
<1>1. /\ exec[h].pc = "resolve" /\ UNCHANGED <<plan, raw, effects, racing, faults>>
      /\ audit' = IF entry \in DOMAIN audit THEN audit ELSE Append(audit, new)
      /\ exec' = [exec EXCEPT ![h] =
                    [pc |-> "dispatch", action |-> a, row |-> entry, input |-> input]]
  BY DEF Assistant!ProposeAudit, Assistant!At, Assistant!stored
<1>2. /\ AssistantShape /\ AuditShape /\ ExecShape /\ ServedRequest(h)
      /\ a \in DOMAIN plan /\ a # 0 /\ a \in Nat /\ exec[h].row \in Nat
      /\ new.action = a /\ new.status = "PROPOSED"
      /\ new \in [action : DOMAIN plan, status : {"PROPOSED", "EXECUTED", "FAILED"}]
  BY <1>1 DEF AssistantIInv, ServedRequest, AssistantShape, ExecShape
<1>3. input \in Inputs
  <2>1. CASE Len(plan[a].target) = 1
    BY <1>2, <2>1, TargetIs DEF Assistant!Resolve, AssistantIInv
  <2>2. CASE Len(plan[a].target) # 1
    BY <2>2 DEF Assistant!Resolve, Inputs
  <2> QED BY <2>1, <2>2
<1> HIDE DEF new, input
<1>4. /\ audit' \in Seq([action : DOMAIN plan, status : {"PROPOSED", "EXECUTED", "FAILED"}])
      /\ entry \in DOMAIN audit' /\ audit'[entry].action = a /\ entry \in Nat /\ entry # 0
      /\ \A k \in DOMAIN audit : k \in DOMAIN audit' /\ audit'[k] = audit[k]
      /\ exec[h].row # 0 => audit' = audit
      /\ exec[h].row = 0 => \A k \in DOMAIN audit' \ DOMAIN audit :
                              /\ k = entry /\ audit'[k].action = a
                              /\ audit'[k].status = "PROPOSED"
  <2>1. CASE exec[h].row # 0
    <3>1. audit' = audit
      BY <1>1, <1>2, <2>1 DEF ServedRequest
    <3> QED BY <1>2, <2>1, <3>1 DEF AuditShape, ServedRequest
  <2>2. CASE exec[h].row = 0
    <3>1. entry = Len(audit) + 1 /\ audit' = Append(audit, new)
      BY <1>1, <1>2, <2>2 DEF AuditShape
    <3>2. audit \in Seq([action : DOMAIN plan, status : {"PROPOSED", "EXECUTED", "FAILED"}])
      BY <1>2 DEF AuditShape
    <3> QED BY <1>2, <2>2, <3>1, <3>2
  <2> QED BY <2>1, <2>2
<1> HIDE DEF entry
<1>5. /\ exec'[h].pc = "dispatch" /\ exec'[h].row = entry /\ exec'[h].action = a
      /\ ExecShape' /\ \A l \in Clients \ {h} : exec'[l] = exec[l]
  <2>1. [pc |-> "dispatch", action |-> a, row |-> entry, input |-> input]
          \in [pc : Pcs, action : Nat, row : Nat, input : Inputs]
    BY <1>2, <1>3, <1>4 DEF Pcs
  <2>2. /\ exec'[h] = [pc |-> "dispatch", action |-> a, row |-> entry, input |-> input]
        /\ ExecShape' /\ \A l \in Clients \ {h} : exec'[l] = exec[l]
    BY <1>1, <1>2, <2>1, ExecMoves
  <2> QED BY <2>2
<1>6. AssistantShape' /\ AuditShape'
  BY <1>1, <1>2, <1>4 DEF AssistantShape, AuditShape
<1>7. (\A l \in Clients : ServedRequest(l))'
  BY <1>1, <1>2, <1>4, <1>5 DEF AssistantIInv, ServedRequest
<1>8. Substantiated' /\ Parsed'
  <2>1. ASSUME NEW k \in DOMAIN audit', audit'[k].status = "EXECUTED"
        PROVE  effects[audit'[k].action] > 0
    BY <1>4, <2>1 DEF AssistantIInv, Substantiated
  <2>2. \A d \in plan[a].deps : effects[d] > 0
    BY <1>1 DEF AssistantIInv, Substantiated
  <2> QED BY <1>1, <1>5, <2>1, <2>2 DEF AssistantIInv, Substantiated, Parsed
<1>9. OneByOne'
  <2>1. SUFFICES ASSUME ~racing, faults = 0 PROVE OneByOne'
    BY <1>1 DEF OneByOne
  <2>2. \A l, k \in Clients : exec'[l].action = exec'[k].action /\ exec'[l].action # 0 => l = k
    BY <1>5, <2>1 DEF AssistantIInv, OneByOne
  <2>3. \A k, l \in DOMAIN audit' : audit'[k].action = audit'[l].action => k = l
    BY <1>1, <1>4, <2>1 DEF AssistantIInv, OneByOne
  <2>4. ASSUME NEW k \in Clients
        PROVE  /\ exec'[k].pc \in {"deps", "resolve"} /\ exec'[k].row = 0 =>
                    \A l \in DOMAIN audit' : audit'[l].action # exec'[k].action
               /\ exec'[k].pc \in {"deps", "resolve", "dispatch", "failed"} =>
                    effects[exec'[k].action] = 0
    <3>1. CASE k = h
      BY <1>1, <1>5, <2>1, <3>1 DEF AssistantIInv, OneByOne
    <3>2. CASE k # h
      <4>1. exec'[k] = exec[k] /\ exec[k].action # a
        BY <1>2, <1>5, <2>1, <3>2 DEF AssistantIInv, OneByOne
      <4>2. \A l \in DOMAIN audit' :
              audit'[l].action = a \/ (l \in DOMAIN audit /\ audit'[l] = audit[l])
        BY <1>1, <1>4, <1>2 DEF ServedRequest
      <4> QED BY <1>1, <2>1, <4>1, <4>2 DEF AssistantIInv, OneByOne
    <3> QED BY <3>1, <3>2
  <2>5. ASSUME NEW b \in DOMAIN plan, effects[b] > 0
        PROVE  \/ \E k \in DOMAIN audit' : audit'[k].action = b /\ audit'[k].status = "EXECUTED"
               \/ \E l \in Clients : exec'[l].action = b /\ exec'[l].pc = "executed"
    <3>1. \/ \E k \in DOMAIN audit : audit[k].action = b /\ audit[k].status = "EXECUTED"
          \/ \E l \in Clients : exec[l].action = b /\ exec[l].pc = "executed"
      BY <2>1, <2>5 DEF AssistantIInv, OneByOne
    <3> QED BY <1>1, <1>4, <1>5, <3>1
  <2> QED BY <1>1, <2>1, <2>2, <2>3, <2>4, <2>5 DEF OneByOne
<1>10. Assistant!EffectOnce' /\ Assistant!DependenciesFirst'
  BY <1>1 DEF AssistantIInv, Assistant!EffectOnce, Assistant!DependenciesFirst
<1> QED BY <1>5, <1>6, <1>7, <1>8, <1>9, <1>10 DEF AssistantIInv

LEMMA DispatchKeeps ==
  ASSUME AssistantIInv, NEW h \in Clients, Assistant!Dispatch(h)
  PROVE  AssistantIInv'
<1> DEFINE a == exec[h].action
<1>1. /\ exec[h].pc = "dispatch" /\ UNCHANGED <<plan, raw, audit, racing, faults>>
      /\ effects' = [effects EXCEPT ![a] = @ + 1]
      /\ exec' = [exec EXCEPT ![h].pc = "executed"]
  BY DEF Assistant!Dispatch, Assistant!At, Assistant!Goto
<1>2. /\ AssistantShape /\ AuditShape /\ ExecShape
      /\ a \in DOMAIN plan /\ a # 0 /\ exec[h].row # 0
  BY <1>1 DEF AssistantIInv, ServedRequest, AssistantShape
<1>3. /\ exec'[h].pc = "executed" /\ exec'[h].row = exec[h].row /\ exec'[h].action = a
      /\ ExecShape' /\ \A l \in Clients \ {h} : exec'[l] = exec[l]
  BY <1>1, <1>2, ExecGoes DEF Pcs
<1>4. /\ effects'[a] = effects[a] + 1 /\ effects[a] \in Nat
      /\ \A b \in DOMAIN plan \ {a} : effects'[b] = effects[b]
      /\ \A b \in DOMAIN plan : effects[b] > 0 => effects'[b] > 0
  BY <1>1, <1>2 DEF AssistantShape
<1>5. AssistantShape' /\ AuditShape'
  BY <1>1, <1>2 DEF AssistantShape, AuditShape
<1>6. (\A l \in Clients : ServedRequest(l))'
  BY <1>1, <1>3 DEF AssistantIInv, ServedRequest
<1>7. \A k \in DOMAIN audit : audit[k].action \in DOMAIN plan
  BY <1>2, AuditRows
<1>8. \A b \in DOMAIN plan : plan[b].deps \subseteq DOMAIN plan
  BY DEF AssistantIInv, Parsed
<1>9. Substantiated' /\ Parsed'
  <2>1. \A l \in Clients : exec[l].pc # "idle" => exec[l].action \in DOMAIN plan
    BY DEF AssistantIInv, ServedRequest
  <2> QED BY <1>1, <1>2, <1>3, <1>4, <1>7, <1>8, <2>1 DEF AssistantIInv, Substantiated, Parsed
<1>10. OneByOne' /\ Assistant!EffectOnce'
  <2>1. SUFFICES ASSUME ~racing, faults = 0 PROVE OneByOne' /\ Assistant!EffectOnce'
    BY <1>1 DEF OneByOne, Assistant!EffectOnce
  <2>2. \A k \in Clients \ {h} : exec[k].action # a
    BY <1>2, <2>1 DEF AssistantIInv, OneByOne
  <2>3. effects[a] = 0
    BY <1>1, <2>1 DEF AssistantIInv, OneByOne
  <2>4. Assistant!EffectOnce'
    BY <1>1, <1>4, <2>1, <2>3 DEF AssistantIInv, Assistant!EffectOnce
  <2>5. \A k \in Clients : exec'[k].pc \in {"deps", "resolve", "dispatch", "failed"} =>
                             effects'[exec'[k].action] = 0
    BY <1>3, <1>4, <2>1, <2>2 DEF AssistantIInv, OneByOne, ServedRequest
  <2>6. ASSUME NEW b \in DOMAIN plan, effects'[b] > 0
        PROVE  \/ \E k \in DOMAIN audit : audit[k].action = b /\ audit[k].status = "EXECUTED"
               \/ \E l \in Clients : exec'[l].action = b /\ exec'[l].pc = "executed"
    <3>1. CASE b = a
      BY <1>3, <3>1
    <3>2. CASE b # a
      <4>1. \/ \E k \in DOMAIN audit : audit[k].action = b /\ audit[k].status = "EXECUTED"
            \/ \E l \in Clients : exec[l].action = b /\ exec[l].pc = "executed"
        BY <1>4, <2>1, <2>6, <3>2 DEF AssistantIInv, OneByOne
      <4> QED BY <1>1, <1>3, <4>1
    <3> QED BY <3>1, <3>2
  <2>7. \A k, l \in Clients : exec'[l].action = exec'[k].action /\ exec'[l].action # 0 => l = k
    BY <1>3, <2>1 DEF AssistantIInv, OneByOne
  <2> QED BY <1>1, <1>3, <2>1, <2>4, <2>5, <2>6, <2>7 DEF AssistantIInv, OneByOne
<1>11. Assistant!DependenciesFirst'
  BY <1>1, <1>4, <1>8 DEF AssistantIInv, Substantiated, Assistant!DependenciesFirst
<1> QED BY <1>3, <1>5, <1>6, <1>9, <1>10, <1>11 DEF AssistantIInv

LEMMA DispatchThrowsKeeps ==
  ASSUME AssistantIInv, NEW h \in Clients, Assistant!DispatchThrows(h)
  PROVE  AssistantIInv'
<1>1. /\ exec[h].pc = "dispatch" /\ UNCHANGED <<plan, raw, audit, effects, racing, faults>>
      /\ exec' = [exec EXCEPT ![h].pc = "failed"]
  BY DEF Assistant!DispatchThrows, Assistant!At, Assistant!Goto, Assistant!stored
<1>2. /\ exec'[h].pc = "failed" /\ exec'[h].row = exec[h].row /\ exec'[h].action = exec[h].action
      /\ ExecShape' /\ \A l \in Clients \ {h} : exec'[l] = exec[l]
  BY <1>1, ExecGoes DEF AssistantIInv, Pcs
<1>3. AssistantShape' /\ AuditShape'
  BY <1>1 DEF AssistantIInv, AssistantShape, AuditShape
<1>4. (\A l \in Clients : ServedRequest(l))'
  BY <1>1, <1>2 DEF AssistantIInv, ServedRequest
<1>5. Substantiated' /\ Parsed'
  BY <1>1, <1>2 DEF AssistantIInv, Substantiated, Parsed
<1>6. OneByOne'
  BY <1>1, <1>2 DEF AssistantIInv, OneByOne
<1>7. Assistant!EffectOnce' /\ Assistant!DependenciesFirst'
  BY <1>1 DEF AssistantIInv, Assistant!EffectOnce, Assistant!DependenciesFirst
<1> QED BY <1>2, <1>3, <1>4, <1>5, <1>6, <1>7 DEF AssistantIInv

LEMMA MarkAuditKeeps ==
  ASSUME AssistantIInv, NEW h \in Clients, Assistant!MarkAudit(h)
  PROVE  AssistantIInv'
<1> DEFINE a == exec[h].action
           entry == exec[h].row
           verdict == IF exec[h].pc = "executed" THEN "EXECUTED" ELSE "FAILED"
<1>1. /\ exec[h].pc \in {"executed", "failed"} /\ UNCHANGED <<plan, raw, effects, racing, faults>>
      /\ audit' = [audit EXCEPT ![entry].status = verdict]
      /\ exec' = [exec EXCEPT ![h] = [pc |-> "idle", action |-> 0, row |-> 0, input |-> "none"]]
  BY DEF Assistant!MarkAudit, Assistant!At, Assistant!Reply, Assistant!NoExec, Assistant!stored
<1>2. /\ AssistantShape /\ AuditShape /\ ExecShape /\ a \in DOMAIN plan /\ a # 0
      /\ entry \in DOMAIN audit /\ audit[entry].action = a
  BY <1>1 DEF AssistantIInv, ServedRequest, AssistantShape
<1>3. /\ exec'[h].pc = "idle" /\ exec'[h].row = 0 /\ exec'[h].action = 0
      /\ ExecShape' /\ \A l \in Clients \ {h} : exec'[l] = exec[l]
  <2>1. [pc |-> "idle", action |-> 0, row |-> 0, input |-> "none"]
          \in [pc : Pcs, action : Nat, row : Nat, input : Inputs]
    BY NoneIsInput DEF Pcs
  <2>2. /\ exec'[h] = [pc |-> "idle", action |-> 0, row |-> 0, input |-> "none"]
        /\ ExecShape' /\ \A l \in Clients \ {h} : exec'[l] = exec[l]
    BY <1>1, <1>2, <2>1, ExecMoves
  <2> QED BY <2>2
<1>4. /\ DOMAIN audit' = DOMAIN audit
      /\ audit'[entry].status = verdict /\ audit'[entry].action = a
      /\ \A k \in DOMAIN audit \ {entry} : audit'[k] = audit[k]
      /\ \A k \in DOMAIN audit : audit'[k].action = audit[k].action
      /\ audit' \in Seq([action : DOMAIN plan, status : {"PROPOSED", "EXECUTED", "FAILED"}])
  <2> DEFINE Row == [action : DOMAIN plan, status : {"PROPOSED", "EXECUTED", "FAILED"}]
  <2> HIDE DEF Row
  <2>0. audit \in Seq(Row)
    BY <1>2 DEF AuditShape, Row
  <2>1. audit[entry] \in Row
    BY <1>2, <2>0
  <2>2. audit' = [audit EXCEPT ![entry] = [audit[entry] EXCEPT !.status = verdict]]
    BY <1>1
  <2> DEFINE marked == [audit[entry] EXCEPT !.status = verdict]
  <2>3. marked \in Row /\ marked.status = verdict /\ marked.action = a
    BY <1>2, <2>1 DEF Row
  <2> HIDE DEF marked
  <2>4. \A k \in DOMAIN audit \ {entry} : audit'[k] = audit[k]
    BY <2>2
  <2>5. audit' = [audit EXCEPT ![entry] = marked]
    BY <2>2 DEF marked
  <2>6. audit' \in Seq(Row) /\ DOMAIN audit' = DOMAIN audit /\ audit'[entry] = marked
    BY <1>2, <2>0, <2>3, <2>5
  <2> QED BY <1>2, <2>3, <2>4, <2>6 DEF Row
<1>5. AssistantShape' /\ AuditShape'
  BY <1>1, <1>2, <1>4 DEF AssistantShape, AuditShape
<1>6. (\A l \in Clients : ServedRequest(l))'
  BY <1>1, <1>3, <1>4 DEF AssistantIInv, ServedRequest
<1>7. Substantiated' /\ Parsed'
  <2>1. ASSUME NEW k \in DOMAIN audit, audit'[k].status = "EXECUTED"
        PROVE  effects[audit'[k].action] > 0
    <3>1. CASE k = entry
      BY <1>1, <1>4, <2>1, <3>1 DEF AssistantIInv, Substantiated
    <3>2. CASE k # entry
      BY <1>4, <2>1, <3>2 DEF AssistantIInv, Substantiated
    <3> QED BY <3>1, <3>2
  <2> QED BY <1>1, <1>3, <1>4, <2>1 DEF AssistantIInv, Substantiated, Parsed
<1>8. OneByOne'
  <2>1. SUFFICES ASSUME ~racing, faults = 0 PROVE OneByOne'
    BY <1>1 DEF OneByOne
  <2>2. exec[h].pc = "failed" => effects[a] = 0
    BY <2>1 DEF AssistantIInv, OneByOne
  <2>3. ASSUME NEW b \in DOMAIN plan, effects[b] > 0
        PROVE  \/ \E k \in DOMAIN audit' : audit'[k].action = b /\ audit'[k].status = "EXECUTED"
               \/ \E l \in Clients : exec'[l].action = b /\ exec'[l].pc = "executed"
    <3>1. CASE b = a
      <4>1. verdict = "EXECUTED"
        BY <1>1, <1>2, <2>2, <2>3, <3>1 DEF AssistantShape
      <4> QED BY <1>2, <1>4, <3>1, <4>1
    <3>2. CASE b # a
      <4>1. \/ \E k \in DOMAIN audit : audit[k].action = b /\ audit[k].status = "EXECUTED"
            \/ \E l \in Clients : exec[l].action = b /\ exec[l].pc = "executed"
        BY <2>1, <2>3 DEF AssistantIInv, OneByOne
      <4> QED BY <1>2, <1>3, <1>4, <3>2, <4>1
    <3> QED BY <3>1, <3>2
  <2>4. \A k, l \in DOMAIN audit' : audit'[k].action = audit'[l].action => k = l
    BY <1>4, <2>1 DEF AssistantIInv, OneByOne
  <2>5. \A k \in Clients :
          /\ exec'[k].pc \in {"deps", "resolve"} /\ exec'[k].row = 0 =>
               \A l \in DOMAIN audit' : audit'[l].action # exec'[k].action
          /\ exec'[k].pc \in {"deps", "resolve", "dispatch", "failed"} =>
               effects[exec'[k].action] = 0
    BY <1>3, <1>4, <2>1 DEF AssistantIInv, OneByOne
  <2>6. \A k, l \in Clients : exec'[l].action = exec'[k].action /\ exec'[l].action # 0 => l = k
    BY <1>3, <2>1 DEF AssistantIInv, OneByOne
  <2> QED BY <1>1, <2>1, <2>3, <2>4, <2>5, <2>6 DEF OneByOne
<1>9. Assistant!EffectOnce' /\ Assistant!DependenciesFirst'
  BY <1>1 DEF AssistantIInv, Assistant!EffectOnce, Assistant!DependenciesFirst
<1> QED BY <1>3, <1>5, <1>6, <1>7, <1>8, <1>9 DEF AssistantIInv

LEMMA AssistantStep == AssistantIInv /\ Assistant!Next => AssistantIInv'
<1> SUFFICES ASSUME AssistantIInv, Assistant!Next PROVE AssistantIInv'
  OBVIOUS
<1>1. ASSUME NEW h \in Clients, Assistant!RequestDies(h) PROVE AssistantIInv'
  BY <1>1, ReplyKeeps DEF Assistant!RequestDies, AssistantIInv, AssistantShape
<1> QED BY <1>1, RequestPlanKeeps, LoadKeepsPlan, FindAuditKeeps, CheckDependenciesKeeps,
           ProposeAuditKeeps, DispatchKeeps, DispatchThrowsKeeps, MarkAuditKeeps
        DEF Assistant!Next

\* The first action that is not done depends on actions before it.
LEMMA Advances == AssistantIInv => Assistant!PlanAdvances
<1> SUFFICES ASSUME AssistantIInv, plan # <<>>, Assistant!Orderly(raw),
                    NEW b \in DOMAIN plan, Assistant!Executed(b) = {}
             PROVE  \E a \in DOMAIN plan : /\ Assistant!Executed(a) = {}
                                           /\ \A d \in plan[a].deps : Assistant!Executed(d) # {}
  BY DEF Assistant!PlanAdvances
<1>1. /\ raw \in RawPlans /\ DOMAIN raw = DOMAIN plan
      /\ Len(raw) \in Nat /\ DOMAIN raw = 1..Len(raw)
      /\ \A a \in DOMAIN plan : plan[a].deps = Assistant!DependsOn(raw, raw[a])
  BY Answers DEF AssistantIInv, AssistantShape, Parsed, Assistant!Parse
<1> DEFINE undone == {a \in DOMAIN plan : Assistant!Executed(a) = {}}
<1>2. undone \in SUBSET Nat /\ undone # {}
  BY <1>1
<1>3. PICK a \in undone : \A u \in undone : a <= u
  BY <1>2, PublicProofs!Least
<1>4. ASSUME NEW d \in plan[a].deps PROVE Assistant!Executed(d) # {}
  <2>1. d \in Assistant!DependsOn(raw, raw[a]) /\ a \in DOMAIN raw
    BY <1>1
  <2>2. /\ d \in DOMAIN raw
        /\ \E k \in DOMAIN raw[a].deps : raw[d].id = raw[a].deps[k]
    BY <1>1, <2>1, DependenciesAreItems
  <2>3. d \notin a..Len(raw)
    BY <2>1, <2>2 DEF Assistant!Orderly
  <2>4. d < a /\ d \in DOMAIN plan
    BY <1>1, <2>1, <2>2, <2>3
  <2>5. d \notin undone
    BY <1>1, <1>3, <2>4
  <2> QED BY <2>4, <2>5
<1> QED BY <1>3, <1>4

-----------------------------------------------------------------------------
(* Manual orders and the connection                                          *)

Undecided == {"none", "PENDING", "FAILED"}
TerminalShape ==
  /\ Terminal!TypeOK
  /\ sync \in [Syncs -> [pc : {"idle", "read", "asked"}, of : Posts,
                         read : Terminal!OpenRow \cup {"none"}, got : Terminal!Raw \cup {"none"}]]
  /\ test \in [Tests -> [pc : {"idle", "read", "verified"},
                         cred : Creds \cup {Terminal!Gone}, ok : BOOLEAN]]
\* A request past its insert has a row, and an order the API knows has one.
RowsThere ==
  \A h \in Posts :
    /\ post[h].pc \notin {"idle", "read"} \/ h \in known => row[h] # "none"
    /\ post[h].pc = "read" => row[h] = "none"
    /\ post[h].pc \in {"created", "placed"} => row[h] = "PENDING" /\ h \notin known
    /\ post[h].pc = "recorded" => row[h] \notin Undecided
    /\ conn.cred = Terminal!Gone => row[h] = "none"
\* What a sync was told of an order is how it was then: it may have moved on.
Since(r, v) ==
  /\ r # "none" /\ v # "none"
  /\ r \in {"Filled", "Cancelled", "Deactivated", "Rejected"} => v = r
  /\ r = "PartiallyFilled" => v \in {"PartiallyFilled", "Filled", "Cancelled"}
SyncsKnow ==
  /\ \A h \in known : venue[h] # "none"
  /\ \A h \in Posts : post[h].pc = "placed" => venue[h] # "none"
  /\ \A g \in Syncs :
       /\ sync[g].pc # "idle" => sync[g].of \in known
       /\ sync[g].pc = "asked" => Since(sync[g].got, venue[sync[g].of])
\* Before an order is placed, and after a refusal, the venue has none, unless
\* an answer or a write was lost.
NothingLive ==
  \A h \in Posts :
    post[h].pc = "failed" \/ (post[h].pc \notin {"placed", "recorded"} /\ row[h] \in Undecided)
      => venue[h] = "none" \/ h \in unsure
\* A call holds the credentials the connection has, unless they were rotated
\* meanwhile, and a verdict rests on a call that succeeded.
CallsHold ==
  /\ \A h \in Posts :
       /\ post[h].pc # "idle" => post[h].cred = conn.cred \/ conn.cred = Terminal!Gone \/ overlapped
       /\ post[h].pc \in {"placed", "recorded"} => post[h].cred \in tried
  /\ \A t \in Tests :
       /\ test[t].pc # "idle" => test[t].cred = conn.cred \/ conn.cred = Terminal!Gone \/ overlapped
       /\ test[t].ok => test[t].pc = "verified" /\ test[t].cred \in tried

TerminalIInv ==
  /\ TerminalShape /\ RowsThere /\ SyncsKnow /\ NothingLive /\ CallsHold
  /\ Terminal!RowFollowsVenue /\ Terminal!ConnectedHasWorked


Phases == {"idle", "read", "created", "placed", "recorded", "failed", "denied"}
PostRecord == [pc : Phases, cred : Creds \cup {Terminal!Gone}, auth : BOOLEAN]
SyncRecord == [pc : {"idle", "read", "asked"}, of : Posts, read : Terminal!OpenRow \cup {"none"},
               got : Terminal!Raw \cup {"none"}]
TestRecord == [pc : {"idle", "read", "verified"}, cred : Creds \cup {Terminal!Gone}, ok : BOOLEAN]

LEMMA IdleSyncIs == Terminal!IdleSync \in SyncRecord /\ Terminal!IdleSync.pc = "idle"
<1>1. \E o \in Posts : TRUE
  BY ServiceConstants
<1>2. (CHOOSE o \in Posts : TRUE) \in Posts
  BY <1>1
<1>3. PICK o \in Posts : Terminal!IdleSync = [pc |-> "idle", of |-> o, read |-> "none",
                                              got |-> "none"]
  BY <1>2, Zenon DEF Terminal!IdleSync
<1> QED BY <1>3 DEF SyncRecord

LEMMA TerminalInit == Terminal!Init => TerminalIInv
<1> SUFFICES ASSUME Terminal!Init PROVE TerminalIInv
  OBVIOUS
<1>2. Terminal!IdleSync.pc = "idle"
  BY IdleSyncIs
<1> USE ServiceConstants DEF Terminal!Init, Terminal!IdlePost, Terminal!IdleTest, Terminal!Gone,
        Undecided
<1>3. Terminal!TypeOK
  <2>1. post \in [Posts -> PostRecord] /\ faults \in 0..MaxFaults
    BY DEF PostRecord, Phases
  <2>2. row \in [Posts -> {"none", "PENDING", "FAILED"} \cup Terminal!OpenRow \cup Terminal!FinalRow]
    OBVIOUS
  <2>3. venue \in [Posts -> Terminal!Raw \cup {"none"}]
    OBVIOUS
  <2>4. conn \in [cred : Creds \cup {0}, status : {"UNKNOWN", "CONNECTED", "FAILED"}]
    OBVIOUS
  <2> QED BY <2>1, <2>2, <2>3, <2>4 DEF Terminal!TypeOK, PostRecord, Phases
<1>4. TerminalShape
  <2>1. Terminal!IdleSync \in SyncRecord
    BY IdleSyncIs
  <2>2. sync \in [Syncs -> SyncRecord]
    BY <2>1
  <2>3. test \in [Tests -> TestRecord]
    BY DEF TestRecord
  <2> QED BY <1>3, <2>2, <2>3 DEF TerminalShape, SyncRecord, TestRecord
<1>5. RowsThere /\ NothingLive
  BY DEF RowsThere, NothingLive
<1>6. SyncsKnow
  BY <1>2 DEF SyncsKnow
<1>7. CallsHold
  BY DEF CallsHold
<1>8. Terminal!RowFollowsVenue /\ Terminal!ConnectedHasWorked
  BY DEF Terminal!RowFollowsVenue, Terminal!ConnectedHasWorked, Terminal!FinalRow, Terminal!OpenRow
<1> QED BY <1>4, <1>5, <1>6, <1>7, <1>8 DEF TerminalIInv

\* A step of a handler changes its own record.
LEMMA Posted ==
  \A h \in Posts, to \in Phases, denied0 \in BOOLEAN :
    TerminalShape /\ Terminal!SetPost(h, to, denied0) =>
      /\ post' \in [Posts -> PostRecord]
      /\ post'[h].pc = to /\ post'[h].auth = denied0 /\ post'[h].cred = post[h].cred
      /\ \A g \in Posts \ {h} : post'[g] = post[g]
<1> SUFFICES ASSUME NEW h \in Posts, NEW to \in Phases, NEW denied0 \in BOOLEAN,
                    TerminalShape, Terminal!SetPost(h, to, denied0)
             PROVE  /\ post' \in [Posts -> PostRecord]
                    /\ post'[h].pc = to /\ post'[h].auth = denied0 /\ post'[h].cred = post[h].cred
                    /\ \A g \in Posts \ {h} : post'[g] = post[g]
  OBVIOUS
<1>1. post \in [Posts -> PostRecord]
  BY DEF TerminalShape, Terminal!TypeOK, PostRecord, Phases
<1> QED BY <1>1 DEF Terminal!SetPost, PostRecord

LEMMA SubmitKeeps == ASSUME TerminalIInv, NEW h \in Posts, Terminal!Submit(h) PROVE TerminalIInv'
<1> USE DEF Terminal!Submit, Terminal!orders, Terminal!others, TerminalIInv
<1>1. /\ post' \in [Posts -> PostRecord] /\ post'[h].pc = "read" /\ post'[h].cred = conn.cred
      /\ \A g \in Posts \ {h} : post'[g] = post[g]
  BY DEF TerminalShape, Terminal!TypeOK, PostRecord, Phases
<1>2. TerminalShape'
  BY <1>1 DEF TerminalShape, Terminal!TypeOK, PostRecord, Phases
<1>3. RowsThere'
  BY <1>1 DEF RowsThere
<1>4. SyncsKnow'
  BY <1>1 DEF SyncsKnow
<1>5. NothingLive'
  BY <1>1 DEF NothingLive
<1>6. CallsHold'
  BY <1>1 DEF CallsHold
<1>7. Terminal!RowFollowsVenue' /\ Terminal!ConnectedHasWorked'
  BY DEF Terminal!RowFollowsVenue, Terminal!ConnectedHasWorked
<1> QED BY <1>2, <1>3, <1>4, <1>5, <1>6, <1>7

LEMMA RefuseKeeps == ASSUME TerminalIInv, NEW h \in Posts, Terminal!Refuse(h) PROVE TerminalIInv'
<1> USE DEF Terminal!Refuse, Terminal!orders, Terminal!others, TerminalIInv
<1>1. /\ post' \in [Posts -> PostRecord] /\ post'[h].pc = "idle"
      /\ \A g \in Posts \ {h} : post'[g] = post[g]
  BY Posted DEF Phases
<1>2. TerminalShape'
  BY <1>1 DEF TerminalShape, Terminal!TypeOK, PostRecord, Phases
<1>3. RowsThere'
  BY <1>1 DEF RowsThere
<1>4. SyncsKnow'
  BY <1>1 DEF SyncsKnow
<1>5. NothingLive'
  BY <1>1 DEF NothingLive
<1>6. CallsHold'
  BY <1>1 DEF CallsHold
<1>7. Terminal!RowFollowsVenue' /\ Terminal!ConnectedHasWorked'
  BY DEF Terminal!RowFollowsVenue, Terminal!ConnectedHasWorked
<1> QED BY <1>2, <1>3, <1>4, <1>5, <1>6, <1>7

LEMMA CreatePendingKeeps ==
  ASSUME TerminalIInv, NEW h \in Posts, Terminal!CreatePending(h) PROVE TerminalIInv'
<1> USE DEF Terminal!CreatePending, TerminalIInv
<1>1. /\ post' \in [Posts -> PostRecord] /\ post'[h].pc \in {"idle", "created"}
      /\ post'[h].cred = post[h].cred
      /\ \A g \in Posts \ {h} : post'[g] = post[g]
  BY Posted DEF Phases
<1>2. /\ row' \in [Posts -> {"none", "PENDING", "FAILED"} \cup Terminal!OpenRow \cup Terminal!FinalRow]
      /\ \A g \in Posts \ {h} : row'[g] = row[g]
      /\ conn.cred = Terminal!Gone => row' = row /\ post'[h].pc = "idle"
      /\ conn.cred # Terminal!Gone => row'[h] = "PENDING"
  <2>1. CASE conn.cred = Terminal!Gone
    BY <2>1, Posted DEF TerminalShape, Terminal!TypeOK, Phases
  <2>2. CASE conn.cred # Terminal!Gone
    BY <2>2 DEF TerminalShape, Terminal!TypeOK
  <2> QED BY <2>1, <2>2
<1>3. TerminalShape'
  BY <1>1, <1>2 DEF TerminalShape, Terminal!TypeOK, PostRecord, Phases, Terminal!others
<1>4. RowsThere'
  BY <1>1, <1>2 DEF RowsThere
<1>5. SyncsKnow'
  BY <1>1, <1>2 DEF SyncsKnow, Terminal!others
<1>6. NothingLive'
  <2>1. row[h] = "none" /\ post[h].pc = "read"
    BY DEF RowsThere
  <2> QED BY <1>1, <1>2, <2>1 DEF NothingLive, Undecided
<1>7. CallsHold'
  BY <1>1 DEF CallsHold, Terminal!others
<1>8. Terminal!RowFollowsVenue' /\ Terminal!ConnectedHasWorked'
  BY <1>2 DEF Terminal!RowFollowsVenue, Terminal!ConnectedHasWorked, Terminal!FinalRow, Terminal!OpenRow
<1> QED BY <1>3, <1>4, <1>5, <1>6, <1>7, <1>8

LEMMA PlaceKeeps == ASSUME TerminalIInv, NEW h \in Posts, Terminal!Place(h) PROVE TerminalIInv'
<1> USE DEF Terminal!Place, TerminalIInv
<1>1. /\ post' \in [Posts -> PostRecord] /\ post'[h].pc \in {"placed", "failed"}
      /\ post'[h].cred = post[h].cred
      /\ \A g \in Posts \ {h} : post'[g] = post[g]
  <2>1. (post[h].cred \notin ValidCreds) \in BOOLEAN
    OBVIOUS
  <2> QED BY <2>1, Posted DEF Phases
<1>2. /\ venue' \in [Posts -> Terminal!Raw \cup {"none"}]
      /\ \A g \in Posts \ {h} : venue'[g] = venue[g]
      /\ venue' = venue \/ venue'[h] = "New"
      /\ post'[h].pc = "placed" => venue'[h] = "New"
      /\ post'[h].pc = "failed" => venue'[h] = venue[h] \/ h \in unsure'
      /\ unsure \subseteq unsure' /\ unsure' \subseteq Posts
      /\ faults' \in 0..MaxFaults
  <2> USE ServiceConstants DEF TerminalShape, Terminal!TypeOK, Terminal!Fault
  <2>1. CASE UNCHANGED <<tried, unsure, venue, faults>> /\ post'[h].pc = "failed"
    BY <2>1
  <2>2. CASE venue' = [venue EXCEPT ![h] = "New"] /\ UNCHANGED <<unsure, faults>> /\ post'[h].pc = "placed"
    BY <2>2 DEF Terminal!Raw
  <2>3. CASE venue' = [venue EXCEPT ![h] = "New"] /\ Terminal!Fault /\ unsure' = unsure \cup {h}
             /\ post'[h].pc = "failed"
    BY <2>3 DEF Terminal!Raw
  <2>4. (post[h].cred \notin ValidCreds) \in BOOLEAN
    OBVIOUS
  <2> HIDE DEF Terminal!TypeOK, Terminal!Fault
  <2> QED BY <2>1, <2>2, <2>3, <2>4, Posted DEF Phases
<1>3. /\ tried \subseteq tried' /\ tried' \subseteq ValidCreds
      /\ post'[h].pc = "placed" => post[h].cred \in tried'
  BY Posted DEF TerminalShape, Terminal!TypeOK, Phases
<1>4. row[h] = "PENDING" /\ h \notin known /\ post[h].pc = "created"
  BY DEF RowsThere
<1>5. TerminalShape'
  BY <1>1, <1>2, <1>3 DEF TerminalShape, Terminal!TypeOK, PostRecord, Phases, Terminal!others
<1>6. RowsThere'
  BY <1>1, <1>4 DEF RowsThere
<1>7. SyncsKnow'
  <2>1. known \subseteq Posts \ {h} /\ \A g \in Syncs : sync[g].pc = "asked" => sync[g].of \in known
    BY <1>4 DEF TerminalShape, Terminal!TypeOK, SyncsKnow
  <2> QED BY <1>1, <1>2, <2>1 DEF SyncsKnow, Terminal!others
<1>8. NothingLive'
  BY <1>1, <1>2, <1>4 DEF NothingLive, Undecided
<1>9. CallsHold'
  BY <1>1, <1>3 DEF CallsHold, Terminal!others
<1>10. Terminal!RowFollowsVenue'
  BY <1>2, <1>4 DEF Terminal!RowFollowsVenue, Terminal!FinalRow, Terminal!OpenRow, Terminal!MapBybitStatus
<1>11. Terminal!ConnectedHasWorked'
  BY <1>3 DEF Terminal!ConnectedHasWorked
<1> QED BY <1>5, <1>6, <1>7, <1>8, <1>9, <1>10, <1>11

LEMMA RecordKeeps == ASSUME TerminalIInv, NEW h \in Posts, Terminal!Record(h) PROVE TerminalIInv'
<1> USE DEF Terminal!Record, TerminalIInv
<1>1. /\ post' \in [Posts -> PostRecord] /\ post'[h].pc \in {"recorded", "failed"}
      /\ post'[h].cred = post[h].cred
      /\ \A g \in Posts \ {h} : post'[g] = post[g]
  BY Posted DEF Phases
<1>2. /\ row[h] = "PENDING" /\ h \notin known /\ post[h].pc = "placed"
      /\ venue[h] # "none" /\ post[h].cred \in tried
  BY DEF RowsThere, SyncsKnow, CallsHold
<1>3. /\ row' \in [Posts -> {"none", "PENDING", "FAILED"} \cup Terminal!OpenRow \cup Terminal!FinalRow]
      /\ \A g \in Posts \ {h} : row'[g] = row[g]
      /\ post'[h].pc = "recorded" => row'[h] = "SUBMITTED" /\ known' = known \cup {h}
      /\ post'[h].pc = "failed" => row' = row /\ known' = known /\ h \in unsure'
      /\ unsure \subseteq unsure' /\ unsure' \subseteq Posts
      /\ faults' \in 0..MaxFaults
  <2> USE ServiceConstants DEF TerminalShape, Terminal!TypeOK, Terminal!Fault
  <2>1. CASE /\ row' = [row EXCEPT ![h] = "SUBMITTED"] /\ known' = known \cup {h}
             /\ post'[h].pc = "recorded" /\ UNCHANGED <<unsure, faults>>
    BY <2>1 DEF Terminal!OpenRow
  <2>2. CASE /\ Terminal!Fault /\ post'[h].pc = "failed" /\ unsure' = unsure \cup {h}
             /\ UNCHANGED <<row, known>>
    BY <2>2
  <2> HIDE DEF Terminal!TypeOK, Terminal!Fault
  <2> QED BY <2>1, <2>2, Posted DEF Phases
<1>4. /\ TerminalShape' /\ known \subseteq Posts
      /\ known' \subseteq known \cup {h} /\ known \subseteq known'
  BY <1>1, <1>3 DEF TerminalShape, Terminal!TypeOK, PostRecord, Phases, Terminal!others
<1>5. RowsThere'
  BY <1>1, <1>2, <1>3, <1>4 DEF RowsThere, Undecided
<1>6. SyncsKnow'
  BY <1>1, <1>2, <1>3, <1>4 DEF SyncsKnow, Terminal!others
<1>7. NothingLive'
  BY <1>1, <1>2, <1>3 DEF NothingLive, Undecided
<1>8. CallsHold'
  BY <1>1, <1>2 DEF CallsHold, Terminal!others
<1>9. Terminal!RowFollowsVenue'
  BY <1>2, <1>3 DEF Terminal!RowFollowsVenue, Terminal!FinalRow, Terminal!OpenRow
<1>10. Terminal!ConnectedHasWorked'
  BY DEF Terminal!ConnectedHasWorked
<1> QED BY <1>4, <1>5, <1>6, <1>7, <1>8, <1>9, <1>10

LEMMA MarkConnectedKeeps ==
  ASSUME TerminalIInv, NEW h \in Posts, Terminal!MarkConnected(h) PROVE TerminalIInv'
<1> USE DEF Terminal!MarkConnected, Terminal!SetStatus, TerminalIInv
<1>1. /\ post' \in [Posts -> PostRecord] /\ post'[h].pc \in {"idle", "failed"}
      /\ post'[h].cred = post[h].cred
      /\ \A g \in Posts \ {h} : post'[g] = post[g]
  BY Posted DEF Phases
<1>2. /\ row[h] \notin Undecided /\ post[h].pc = "recorded"
      /\ row[h] # "none" /\ conn.cred # Terminal!Gone
      /\ post[h].cred \in tried /\ (post[h].cred = conn.cred \/ overlapped)
  BY DEF RowsThere, CallsHold, Undecided
<1>3. /\ conn' \in [cred : Creds \cup {Terminal!Gone}, status : {"UNKNOWN", "CONNECTED", "FAILED"}]
      /\ conn'.cred = conn.cred
      /\ unsure \subseteq unsure' /\ unsure' \subseteq Posts
      /\ post'[h].pc = "failed" => h \in unsure'
      /\ faults' \in 0..MaxFaults
  <2> USE ServiceConstants DEF TerminalShape, Terminal!TypeOK, Terminal!Fault
  <2>1. CASE /\ conn' = [conn EXCEPT !.status = "CONNECTED"] /\ post'[h].pc = "idle"
             /\ UNCHANGED <<unsure, faults>>
    BY <2>1
  <2>2. CASE /\ Terminal!Fault /\ post'[h].pc = "failed" /\ unsure' = unsure \cup {h}
             /\ UNCHANGED conn
    BY <2>2
  <2> HIDE DEF Terminal!TypeOK, Terminal!Fault
  <2> QED BY <2>1, <2>2, Posted DEF Phases
<1>4. TerminalShape'
  BY <1>1, <1>3 DEF TerminalShape, Terminal!TypeOK, PostRecord, Phases, Terminal!others
<1>5. RowsThere'
  BY <1>1, <1>2, <1>3 DEF RowsThere
<1>6. SyncsKnow'
  BY <1>1 DEF SyncsKnow, Terminal!others
<1>7. NothingLive'
  BY <1>1, <1>2, <1>3 DEF NothingLive
<1>8. CallsHold'
  BY <1>1, <1>3 DEF CallsHold, Terminal!others
<1>9. Terminal!RowFollowsVenue'
  BY DEF Terminal!RowFollowsVenue
<1>10. Terminal!ConnectedHasWorked'
  BY <1>2, <1>3 DEF Terminal!ConnectedHasWorked
<1> QED BY <1>4, <1>5, <1>6, <1>7, <1>8, <1>9, <1>10

LEMMA RecordFailureKeeps ==
  ASSUME TerminalIInv, NEW h \in Posts, Terminal!RecordFailure(h) PROVE TerminalIInv'
<1> USE DEF Terminal!RecordFailure, TerminalIInv
<1>1. /\ post' \in [Posts -> PostRecord] /\ post'[h].pc \in {"idle", "denied"}
      /\ post'[h].cred = post[h].cred
      /\ \A g \in Posts \ {h} : post'[g] = post[g]
  BY Posted DEF Phases
<1>2. post[h].pc = "failed" /\ row[h] # "none"
  BY DEF RowsThere
<1>3. /\ row' \in [Posts -> {"none", "PENDING", "FAILED"} \cup Terminal!OpenRow \cup Terminal!FinalRow]
      /\ \A g \in Posts \ {h} : row'[g] = row[g]
      /\ row'[h] = "FAILED"
  BY DEF TerminalShape, Terminal!TypeOK
<1>4. TerminalShape'
  BY <1>1, <1>3 DEF TerminalShape, Terminal!TypeOK, PostRecord, Phases, Terminal!others
<1>5. RowsThere'
  BY <1>1, <1>2, <1>3 DEF RowsThere
<1>6. SyncsKnow'
  BY <1>1, <1>3 DEF SyncsKnow, Terminal!others
<1>7. NothingLive'
  BY <1>1, <1>2, <1>3 DEF NothingLive
<1>8. CallsHold'
  BY <1>1 DEF CallsHold, Terminal!others
<1>9. Terminal!RowFollowsVenue' /\ Terminal!ConnectedHasWorked'
  BY <1>3 DEF Terminal!RowFollowsVenue, Terminal!ConnectedHasWorked, Terminal!FinalRow, Terminal!OpenRow
<1> QED BY <1>4, <1>5, <1>6, <1>7, <1>8, <1>9

LEMMA MarkFailedKeeps ==
  ASSUME TerminalIInv, NEW h \in Posts, Terminal!MarkFailed(h) PROVE TerminalIInv'
<1> USE DEF Terminal!MarkFailed, Terminal!SetStatus, Terminal!orders, Terminal!others, TerminalIInv
<1>1. /\ post' \in [Posts -> PostRecord] /\ post'[h].pc = "idle"
      /\ post'[h].cred = post[h].cred
      /\ \A g \in Posts \ {h} : post'[g] = post[g]
  BY Posted DEF Phases
<1>2. /\ conn' \in [cred : Creds \cup {Terminal!Gone}, status : {"UNKNOWN", "CONNECTED", "FAILED"}]
      /\ conn'.cred = conn.cred
      /\ conn' = conn \/ conn'.status = "FAILED"
  BY DEF TerminalShape, Terminal!TypeOK
<1>3. TerminalShape'
  BY <1>1, <1>2 DEF TerminalShape, Terminal!TypeOK, PostRecord, Phases
<1>4. RowsThere'
  BY <1>1, <1>2 DEF RowsThere
<1>5. SyncsKnow'
  BY <1>1 DEF SyncsKnow
<1>6. NothingLive'
  BY <1>1 DEF NothingLive
<1>7. CallsHold'
  BY <1>1, <1>2 DEF CallsHold
<1>8. Terminal!RowFollowsVenue' /\ Terminal!ConnectedHasWorked'
  BY <1>2 DEF Terminal!RowFollowsVenue, Terminal!ConnectedHasWorked
<1> QED BY <1>3, <1>4, <1>5, <1>6, <1>7, <1>8

LEMMA CrashKeeps == ASSUME TerminalIInv, Terminal!Crash PROVE TerminalIInv'
<1> USE DEF Terminal!Crash, TerminalIInv
<1>1. Terminal!IdleSync.pc = "idle"
  BY IdleSyncIs
<1>2. /\ \A h \in Posts : post'[h].pc = "idle"
      /\ \A g \in Syncs : sync'[g].pc = "idle"
      /\ \A t \in Tests : test'[t].pc = "idle" /\ ~test'[t].ok
      /\ unsure \subseteq unsure' /\ \A h \in Posts : post[h].pc # "idle" => h \in unsure'
  BY <1>1 DEF Terminal!IdlePost, Terminal!IdleTest
<1>3. TerminalShape'
  <2>1. Terminal!IdleSync \in SyncRecord
    BY IdleSyncIs
  <2>2. /\ sync' \in [Syncs -> SyncRecord] /\ test' \in [Tests -> TestRecord]
        /\ post' \in [Posts -> PostRecord]
    BY <2>1 DEF Terminal!IdlePost, Terminal!IdleTest, Terminal!Gone, TestRecord, PostRecord, Phases
  <2>3. unsure' \subseteq Posts /\ faults' \in 0..MaxFaults
    BY ServiceConstants DEF TerminalShape, Terminal!TypeOK, Terminal!Fault
  <2> QED BY <2>2, <2>3 DEF TerminalShape, Terminal!TypeOK, SyncRecord, TestRecord, PostRecord, Phases
<1>4. RowsThere'
  BY <1>2 DEF RowsThere
<1>5. SyncsKnow'
  BY <1>2 DEF SyncsKnow
<1>6. NothingLive'
  BY <1>2 DEF NothingLive
<1>7. CallsHold'
  BY <1>2 DEF CallsHold
<1>8. Terminal!RowFollowsVenue' /\ Terminal!ConnectedHasWorked'
  BY DEF Terminal!RowFollowsVenue, Terminal!ConnectedHasWorked
<1> QED BY <1>3, <1>4, <1>5, <1>6, <1>7, <1>8

\* A sync replaces its own record.
LEMMA Synced ==
  \A g \in Syncs, s \in SyncRecord :
    TerminalShape /\ sync' = [sync EXCEPT ![g] = s] =>
      /\ sync' \in [Syncs -> SyncRecord] /\ sync'[g] = s
      /\ \A u \in Syncs \ {g} : sync'[u] = sync[u]
BY DEF TerminalShape, SyncRecord

\* A step of a sync that writes no row.
LEMMA SyncKeeps ==
  ASSUME TerminalIInv, sync' \in [Syncs -> SyncRecord],
         \A g \in Syncs : sync'[g].pc # "idle" => sync'[g].of \in known,
         \A g \in Syncs : sync'[g].pc = "asked" => Since(sync'[g].got, venue[sync'[g].of]),
         UNCHANGED <<conn, tried, overlapped, post, row, known, unsure, venue, test, faults>>
  PROVE TerminalIInv'
<1> USE DEF TerminalIInv
<1>1. TerminalShape'
  BY DEF TerminalShape, Terminal!TypeOK, SyncRecord
<1>2. RowsThere' /\ NothingLive' /\ Terminal!RowFollowsVenue' /\ Terminal!ConnectedHasWorked'
  BY DEF RowsThere, NothingLive, Terminal!RowFollowsVenue, Terminal!ConnectedHasWorked
<1>3. SyncsKnow'
  BY DEF SyncsKnow
<1>4. CallsHold'
  BY DEF CallsHold
<1> QED BY <1>1, <1>2, <1>3, <1>4

LEMMA SyncReadKeeps ==
  ASSUME TerminalIInv, NEW g \in Syncs, NEW h \in Posts, Terminal!SyncRead(g, h) PROVE TerminalIInv'
<1> DEFINE s == [pc |-> "read", of |-> h, read |-> row[h], got |-> "none"]
<1>1. s \in SyncRecord /\ s.pc = "read" /\ s.of = h
  BY DEF Terminal!SyncRead, Terminal!OpenRow, SyncRecord
<1> HIDE DEF s
<1>2. /\ sync' \in [Syncs -> SyncRecord] /\ sync'[g] = s
      /\ \A u \in Syncs \ {g} : sync'[u] = sync[u]
  BY <1>1, Synced DEF TerminalIInv, Terminal!SyncRead, s
<1> QED BY <1>1, <1>2, SyncKeeps DEF TerminalIInv, SyncsKnow, Terminal!SyncRead, Terminal!orders

LEMMA SyncAskKeeps == ASSUME TerminalIInv, NEW g \in Syncs, Terminal!SyncAsk(g) PROVE TerminalIInv'
<1>1. UNCHANGED <<conn, tried, overlapped, post, row, known, unsure, venue, test, faults>>
  BY DEF Terminal!SyncAsk, Terminal!orders
<1>2. CASE sync' = [sync EXCEPT ![g] = Terminal!IdleSync]
  BY <1>1, <1>2, Synced, IdleSyncIs, SyncKeeps DEF TerminalIInv, SyncsKnow
<1>3. CASE sync' = [sync EXCEPT ![g].pc = "asked", ![g].got = venue[sync[g].of]]
  <2>1. sync \in [Syncs -> SyncRecord] /\ sync[g].of \in known /\ known \subseteq Posts
    BY DEF TerminalIInv, TerminalShape, Terminal!TypeOK, SyncRecord, SyncsKnow, Terminal!SyncAsk
  <2>2. venue[sync[g].of] \in Terminal!Raw
    BY <2>1 DEF TerminalIInv, TerminalShape, Terminal!TypeOK, SyncsKnow
  <2>3. /\ sync' \in [Syncs -> SyncRecord] /\ sync'[g].of = sync[g].of
        /\ sync'[g].got = venue[sync[g].of]
        /\ \A u \in Syncs \ {g} : sync'[u] = sync[u]
    BY <1>3, <2>1, <2>2 DEF SyncRecord
  <2>4. Since(sync'[g].got, venue[sync'[g].of])
    BY <2>2, <2>3 DEF Since, Terminal!Raw
  <2> QED BY <1>1, <2>1, <2>3, <2>4, SyncKeeps DEF TerminalIInv, SyncsKnow
<1> QED BY <1>2, <1>3 DEF Terminal!SyncAsk

\* What is written is what the venue once said, and what it says now if that
\* was final.
LEMMA SyncWriteKeeps == ASSUME TerminalIInv, NEW g \in Syncs, Terminal!SyncWrite(g) PROVE TerminalIInv'
<1> DEFINE h == sync[g].of
           mapped == Terminal!MapBybitStatus(sync[g].got)
<1> USE DEF TerminalIInv, Terminal!SyncWrite
<1>1. /\ h \in known /\ h \in Posts /\ Since(sync[g].got, venue[h])
      /\ sync[g].got \in Terminal!Raw \cup {"none"} /\ venue[h] \in Terminal!Raw
      /\ known \subseteq Posts
  BY DEF SyncsKnow, TerminalShape, Terminal!TypeOK
<1>2. /\ row[h] # "none" /\ post[h].pc \notin {"read", "created", "placed"}
      /\ conn.cred # Terminal!Gone
  BY <1>1 DEF RowsThere
<1>3. /\ sync' \in [Syncs -> SyncRecord] /\ sync'[g].pc = "idle"
      /\ \A u \in Syncs \ {g} : sync'[u] = sync[u]
  BY Synced, IdleSyncIs
<1>4. /\ mapped \in Terminal!OpenRow \cup Terminal!FinalRow
      /\ mapped \in Terminal!FinalRow => Terminal!MapBybitStatus(venue[h]) = mapped
      /\ mapped = "PARTIALLY_FILLED" => venue[h] \in {"PartiallyFilled", "Filled", "Cancelled"}
  BY <1>1 DEF Terminal!MapBybitStatus, Terminal!OpenRow, Terminal!FinalRow, Since, Terminal!Raw
<1> HIDE DEF mapped
<1>5. /\ row' \in [Posts -> {"none", "PENDING", "FAILED"} \cup Terminal!OpenRow \cup Terminal!FinalRow]
      /\ \A u \in Posts \ {h} : row'[u] = row[u]
      /\ row' = row \/ row'[h] = mapped
  BY <1>1, <1>4 DEF TerminalShape, Terminal!TypeOK, mapped
<1> HIDE DEF h, Terminal!SyncWrite
<1>6. UNCHANGED <<conn, tried, overlapped, post, known, unsure, venue, test, faults>>
  BY DEF Terminal!SyncWrite
<1>7. TerminalShape'
  BY <1>3, <1>5, <1>6 DEF TerminalShape, Terminal!TypeOK, SyncRecord
<1>8. RowsThere'
  BY <1>1, <1>2, <1>4, <1>5, <1>6 DEF RowsThere, Undecided, Terminal!OpenRow, Terminal!FinalRow
<1>9. SyncsKnow'
  BY <1>3, <1>6 DEF SyncsKnow
<1>10. NothingLive'
  BY <1>1, <1>4, <1>5, <1>6 DEF NothingLive, Undecided, Terminal!OpenRow, Terminal!FinalRow
<1>11. CallsHold'
  BY <1>6 DEF CallsHold
<1>12. Terminal!RowFollowsVenue'
  BY <1>1, <1>4, <1>5, <1>6, SMTT(60) DEF Terminal!RowFollowsVenue, Terminal!Raw
<1>13. Terminal!ConnectedHasWorked'
  BY <1>6 DEF Terminal!ConnectedHasWorked
<1> QED BY <1>7, <1>8, <1>9, <1>10, <1>11, <1>12, <1>13

LEMMA VenueStepKeeps == ASSUME TerminalIInv, NEW h \in Posts, Terminal!VenueStep(h) PROVE TerminalIInv'
<1> USE DEF TerminalIInv
<1>1. UNCHANGED <<conn, tried, overlapped, post, row, known, unsure, sync, test, faults>>
  BY DEF Terminal!VenueStep, Terminal!orders, Terminal!others
<1>2. PICK r \in Terminal!Raw :
        /\ venue' = [venue EXCEPT ![h] = r]
        /\ venue[h] \in {"New", "Untriggered", "Triggered", "PartiallyFilled"}
        /\ venue[h] = "PartiallyFilled" => r \in {"Filled", "Cancelled"}
  BY DEF Terminal!VenueStep, Terminal!Raw
<1>3. /\ venue' \in [Posts -> Terminal!Raw \cup {"none"}] /\ venue'[h] = r
      /\ \A u \in Posts \ {h} : venue'[u] = venue[u]
      /\ r # "none" /\ known \subseteq Posts
  BY <1>2 DEF TerminalShape, Terminal!TypeOK, Terminal!Raw
<1>4. TerminalShape' /\ RowsThere'
  BY <1>1, <1>3 DEF TerminalShape, Terminal!TypeOK, RowsThere
<1>5. \A v : Since(v, venue[h]) => Since(v, r)
  BY <1>2 DEF Since, Terminal!Raw
<1>6. SyncsKnow'
  BY <1>1, <1>3, <1>5 DEF SyncsKnow, TerminalShape
<1>7. NothingLive'
  BY <1>1, <1>2, <1>3 DEF NothingLive
<1>8. CallsHold' /\ Terminal!ConnectedHasWorked'
  BY <1>1 DEF CallsHold, Terminal!ConnectedHasWorked
<1>9. Terminal!RowFollowsVenue'
  BY <1>1, <1>2, <1>3 DEF Terminal!RowFollowsVenue, Terminal!FinalRow, Terminal!OpenRow, Terminal!MapBybitStatus
<1> QED BY <1>4, <1>6, <1>7, <1>8, <1>9

\* New credentials: what is out with the old ones has raced.
LEMMA RotateKeepsAll == ASSUME TerminalIInv, Terminal!Rotate PROVE TerminalIInv'
<1> USE DEF TerminalIInv, Terminal!Rotate, Terminal!orders, Terminal!others
<1>1. /\ conn' \in [cred : Creds \cup {Terminal!Gone}, status : {"UNKNOWN", "CONNECTED", "FAILED"}]
      /\ conn.cred # Terminal!Gone /\ conn'.cred # Terminal!Gone /\ conn'.status = "UNKNOWN"
  BY ServiceConstants DEF Terminal!Gone
<1>2. TerminalShape'
  <2>1. overlapped' \in BOOLEAN
    BY DEF TerminalShape, Terminal!TypeOK
  <2> QED BY <1>1, <2>1 DEF TerminalShape, Terminal!TypeOK
<1>3. /\ \A h \in Posts : post[h].pc # "idle" => overlapped'
      /\ \A t \in Tests : test[t].pc # "idle" => overlapped'
  BY DEF Terminal!CredsInUse
<1>4. RowsThere' /\ SyncsKnow' /\ NothingLive'
  BY <1>1 DEF RowsThere, SyncsKnow, NothingLive
<1>5. CallsHold'
  BY <1>3 DEF CallsHold
<1>6. Terminal!RowFollowsVenue' /\ Terminal!ConnectedHasWorked'
  BY <1>1 DEF Terminal!RowFollowsVenue, Terminal!ConnectedHasWorked
<1> QED BY <1>2, <1>4, <1>5, <1>6

LEMMA DeleteKeeps == ASSUME TerminalIInv, Terminal!Delete PROVE TerminalIInv'
<1> USE DEF TerminalIInv, Terminal!Delete, Terminal!orders, Terminal!others
<1>1. TerminalShape'
  BY DEF TerminalShape, Terminal!TypeOK
<1>2. RowsThere' /\ SyncsKnow' /\ NothingLive'
  BY DEF RowsThere, SyncsKnow, NothingLive
<1>3. CallsHold'
  BY DEF CallsHold
<1>4. Terminal!RowFollowsVenue' /\ Terminal!ConnectedHasWorked'
  BY DEF Terminal!RowFollowsVenue, Terminal!ConnectedHasWorked
<1> QED BY <1>1, <1>2, <1>3, <1>4

\* A step of a connection test.
LEMMA TestKeeps ==
  ASSUME TerminalIInv, NEW t \in Tests,
         test' \in [Tests -> TestRecord],
         \A u \in Tests \ {t} : test'[u] = test[u],
         conn' \in [cred : Creds \cup {Terminal!Gone}, status : {"UNKNOWN", "CONNECTED", "FAILED"}],
         conn'.cred = conn.cred, tried \subseteq tried', tried' \subseteq ValidCreds,
         test'[t].pc # "idle" =>
           test'[t].cred = conn.cred \/ conn.cred = Terminal!Gone \/ overlapped,
         test'[t].ok => test'[t].pc = "verified" /\ test'[t].cred \in tried',
         conn'.status = "CONNECTED" /\ conn.status # "CONNECTED" => conn.cred \in tried \/ overlapped,
         UNCHANGED <<overlapped, post, row, known, unsure, venue, sync, faults>>
  PROVE TerminalIInv'
<1> USE DEF TerminalIInv
<1>1. TerminalShape'
  BY DEF TerminalShape, Terminal!TypeOK, TestRecord
<1>2. RowsThere' /\ SyncsKnow' /\ NothingLive'
  BY DEF RowsThere, SyncsKnow, NothingLive
<1>3. CallsHold'
  BY DEF CallsHold
<1>4. Terminal!RowFollowsVenue' /\ Terminal!ConnectedHasWorked'
  BY DEF Terminal!RowFollowsVenue, Terminal!ConnectedHasWorked
<1> QED BY <1>1, <1>2, <1>3, <1>4

LEMMA TestReadKeeps == ASSUME TerminalIInv, NEW t \in Tests, Terminal!TestRead(t) PROVE TerminalIInv'
<1>1. /\ test \in [Tests -> TestRecord] /\ tried \subseteq ValidCreds
      /\ conn \in [cred : Creds \cup {Terminal!Gone}, status : {"UNKNOWN", "CONNECTED", "FAILED"}]
  BY DEF TerminalIInv, TerminalShape, Terminal!TypeOK, TestRecord
<1>2. /\ test' \in [Tests -> TestRecord] /\ test'[t].pc = "read" /\ test'[t].cred = conn.cred
      /\ ~test'[t].ok
      /\ \A u \in Tests \ {t} : test'[u] = test[u]
  BY <1>1 DEF Terminal!TestRead, TestRecord
<1> QED BY <1>1, <1>2, TestKeeps DEF Terminal!TestRead, Terminal!orders

LEMMA TestVerifyKeeps ==
  ASSUME TerminalIInv, NEW t \in Tests, Terminal!TestVerify(t) PROVE TerminalIInv'
<1>1. /\ test \in [Tests -> TestRecord] /\ tried \subseteq ValidCreds
      /\ conn \in [cred : Creds \cup {Terminal!Gone}, status : {"UNKNOWN", "CONNECTED", "FAILED"}]
      /\ test[t].pc = "read"
      /\ test[t].cred = conn.cred \/ conn.cred = Terminal!Gone \/ overlapped
  BY DEF TerminalIInv, TerminalShape, Terminal!TypeOK, TestRecord, CallsHold, Terminal!TestVerify
<1>2. /\ test' \in [Tests -> TestRecord] /\ test'[t].cred = test[t].cred
      /\ test'[t].pc = "verified"
      /\ \A u \in Tests \ {t} : test'[u] = test[u]
      /\ tried \subseteq tried' /\ tried' \subseteq ValidCreds
  BY <1>1 DEF Terminal!TestVerify, TestRecord
<1>3. test'[t].ok => test'[t].cred \in tried'
  <2>1. CASE /\ tried' = tried \cup {test[t].cred}
             /\ test' = [test EXCEPT ![t].pc = "verified", ![t].ok = TRUE]
    BY <1>2, <2>1
  <2>2. CASE test' = [test EXCEPT ![t].pc = "verified"] /\ tried' = tried
    BY <1>1, <1>2, <2>2 DEF TestRecord, TerminalIInv, CallsHold
  <2> QED BY <2>1, <2>2 DEF Terminal!TestVerify
<1> QED BY <1>1, <1>2, <1>3, TestKeeps DEF Terminal!TestVerify, Terminal!orders

LEMMA TestWriteKeeps ==
  ASSUME TerminalIInv, NEW t \in Tests, Terminal!TestWrite(t) PROVE TerminalIInv'
<1>1. /\ test \in [Tests -> TestRecord] /\ tried \subseteq ValidCreds
      /\ conn \in [cred : Creds \cup {Terminal!Gone}, status : {"UNKNOWN", "CONNECTED", "FAILED"}]
      /\ test[t].pc = "verified"
      /\ test[t].cred = conn.cred \/ conn.cred = Terminal!Gone \/ overlapped
      /\ test[t].ok => test[t].cred \in tried
  BY DEF TerminalIInv, TerminalShape, Terminal!TypeOK, TestRecord, CallsHold, Terminal!TestWrite
<1>2. /\ test' \in [Tests -> TestRecord] /\ test'[t].pc = "idle" /\ ~test'[t].ok
      /\ \A u \in Tests \ {t} : test'[u] = test[u]
  BY <1>1 DEF Terminal!TestWrite, Terminal!IdleTest, TestRecord, Terminal!Gone
<1>3. /\ conn' \in [cred : Creds \cup {Terminal!Gone}, status : {"UNKNOWN", "CONNECTED", "FAILED"}]
      /\ conn'.cred = conn.cred
      /\ conn'.status = "CONNECTED" /\ conn.status # "CONNECTED" => conn.cred \in tried \/ overlapped
  BY <1>1 DEF Terminal!TestWrite, Terminal!SetStatus
<1> QED BY <1>1, <1>2, <1>3, TestKeeps DEF Terminal!TestWrite, Terminal!orders

LEMMA TerminalStep == TerminalIInv /\ Terminal!Next => TerminalIInv'
BY SubmitKeeps, RefuseKeeps, CreatePendingKeeps, PlaceKeeps, RecordKeeps, MarkConnectedKeeps,
   RecordFailureKeeps, MarkFailedKeeps, CrashKeeps, SyncReadKeeps, SyncAskKeeps, SyncWriteKeeps,
   VenueStepKeeps, RotateKeepsAll, DeleteKeeps, TestReadKeeps, TestVerifyKeeps, TestWriteKeeps
   DEF Terminal!Next, Terminal!PostStep

LEMMA TerminalHolds ==
  TerminalIInv => Terminal!RowFollowsVenue /\ Terminal!FailedIsNotLive /\ Terminal!ConnectedHasWorked
BY DEF TerminalIInv, NothingLive, Undecided, Terminal!FailedIsNotLive

-----------------------------------------------------------------------------
(* A bot's entries                                                           *)

Rulesets == Instruments \cup {Entry!NoRules}
Whys == {"none", "lookup", "venue", "status", "min", "max", "price", "notional", "size"}
Orders == [valid : {FALSE}, why : Whys] \cup [valid : {TRUE}, qty : Nat, price : Nat]
EntryRow ==
  [at : Nat, side : Sides, qty : Nat \X (Nat \ {0}), sized : BOOLEAN, rules : Rulesets,
   price : Prices, budget : Nat \ {0},
   state : {"PENDING", "PLACED", "FILLED", "FAILED"}, why : Whys, order : Orders, used : Rulesets,
   hot : BOOLEAN, late : BOOLEAN]

RowsTyped == entries \in Seq(EntryRow)
EntryShape ==
  /\ st \in Strategies /\ listed \in Instruments /\ cache.rules \in Rulesets
  /\ time \in 1..MaxTime /\ price \in Prices /\ candles \in 1..2
  /\ lastClose \in Nat /\ closedAt \in Nat /\ closedAt <= time /\ flagged \in BOOLEAN
  /\ run \in {"RUNNING", "STOPPING"} /\ pc \in {"loss", "pause", "intents", "evaluate"}
  /\ denied \in BOOLEAN /\ crashed \in BOOLEAN /\ shortages \in Nat /\ faults \in Nat
  /\ batch \subseteq DOMAIN entries /\ \A n \in batch : entries[n].state = "PENDING"

\* What a row says of its quantity and of its order, whatever happened since.
Fits(e) ==
  /\ e.sized => /\ e.rules \in Instruments
                /\ e.qty = <<Entry!RoundToStep(<<e.budget, e.price>>, e.rules.step), 1>>
                /\ Entry!SizeOrder(e.budget, e.price, e.rules).valid
  /\ ~e.sized => e.qty = <<e.budget, e.price>>
  /\ e.order.valid =>
       e.used \in Instruments /\ e.order = Entry!NormalizeOrder(e.qty, e.price, st.limit, e.used)
  /\ e.state = "FAILED" /\ e.why \notin {"lookup", "venue"} =>
       /\ e.used \in Instruments
       /\ Entry!NormalizeOrder(e.qty, e.price, st.limit, e.used) = Entry!Refused(e.why)
\* An entry was decided a cooldown after the last close, unless the process
\* that saw it is gone; a later close makes it an old decision.
Cooled(e) ==
  /\ e.at <= time
  /\ ~crashed /\ 0 < closedAt /\ closedAt < e.at => e.at - closedAt >= st.cooldown
  /\ e.hot => e.late \/ crashed
RowsHold == \A n \in DOMAIN entries : Fits(entries[n]) /\ Cooled(entries[n])
CloseSeen == ~crashed => lastClose = closedAt

FailedBefore == {n \in DOMAIN entries : Entry!Failed(n)} \ failedNow
LossGuard ==
  pc # "loss" /\ run = "RUNNING" /\ ~denied /\ st.lossLimit > 0 =>
    Cardinality(FailedBefore \cap Entry!FailedToday) * st.perTrade < st.lossLimit
Streak(S, n) == n >= 3 /\ {n, n - 1, n - 2} \subseteq S
PauseGuard ==
  pc \in {"intents", "evaluate"} /\ run = "RUNNING" /\ ~denied /\ st.pause =>
    ~Streak(FailedBefore, Len(entries))
Shortage ==
  /\ candles = 2 => shortages = 0
  /\ ~crashed => shortages <= 1 /\ (~flagged => shortages = 0)
  /\ crashed => shortages <= 1 + faults /\ (~flagged => shortages <= faults)

EntryIInv ==
  /\ RowsTyped /\ EntryShape /\ RowsHold /\ CloseSeen
  /\ LossGuard /\ PauseGuard /\ Shortage


(* Arithmetic of quantities *)

LEMMA DivisionIs ==
  \A q \in Nat, x \in Nat \ {0} :
    q \div x \in Nat /\ x * (q \div x) <= q /\ q < x * (q \div x) + x
OBVIOUS

LEMMA MultipleIs ==
  \A k \in Nat, x \in Nat \ {0} : x * k \in Nat /\ (x * k) % x = 0 /\ (x * k) \div x = k
OBVIOUS

LEMMA WholeSteps == \A q \in Nat, x \in Nat \ {0} : q % x = 0 => x * (q \div x) = q
OBVIOUS

LEMMA ProductGrows == \A a, b, c \in Nat : a <= b => a * c <= b * c /\ c * a <= c * b
OBVIOUS

LEMMA Fraction ==
  \A s, d, k \in Nat : (d * s) * k = (s * k) * d /\ (d * s) * k + d * s = (s * k + s) * d
OBVIOUS

\* positionSizer.ts and normalizer.ts round down to the step, and one step more
\* when the double slips.
LEMMA RoundedDown ==
  ASSUME NEW a \in Nat, NEW d \in Nat \ {0}, NEW s \in Nat \ {0}
  PROVE  /\ Entry!RoundToStep(<<a, d>>, s) \in Nat /\ Entry!RoundToStep(<<a, d>>, s) % s = 0
         /\ Entry!RoundToStep(<<a, d>>, s) * d <= a
         /\ a < (Entry!RoundToStep(<<a, d>>, s) + 2 * s) * d
<1> DEFINE k == a \div (d * s)
           m == IF s = 1 /\ a = k * d /\ k \in Entry!Slips THEN k - 1 ELSE k
<1>1. k \in Nat /\ (s * k) * d <= a /\ a < (s * k + s) * d
  <2>1. d * s \in Nat \ {0}
    OBVIOUS
  <2>2. k \in Nat /\ (d * s) * k <= a /\ a < (d * s) * k + d * s
    BY <2>1, DivisionIs
  <2> HIDE DEF k
  <2> QED BY <2>2, Fraction
<1> HIDE DEF k
<1>2. m \in Nat /\ m <= k /\ k <= m + 1
  BY <1>1 DEF Entry!Slips
<1>3. Entry!RoundToStep(<<a, d>>, s) = s * m
  BY DEF Entry!RoundToStep, k
<1> HIDE DEF m
<1>4. s * m \in Nat /\ (s * m) % s = 0 /\ s * k \in Nat
  BY <1>1, <1>2, MultipleIs
<1>5. s * m <= s * k /\ s * k <= s * m + s
  <2>1. s * k <= s * (m + 1)
    BY <1>1, <1>2, ProductGrows
  <2>2. s * (m + 1) = s * m + s
    BY <1>2
  <2> QED BY <1>1, <1>2, <2>1, <2>2, ProductGrows
<1>6. (s * m) * d <= a
  BY <1>1, <1>4, <1>5, ProductGrows
<1>7. (s * k + s) * d <= (s * m + 2 * s) * d
  BY <1>4, <1>5, ProductGrows
<1> QED BY <1>1, <1>3, <1>4, <1>6, <1>7

\* What is rounded already stays, unless its double slips.
LEMMA RoundedAgain ==
  \A q \in Nat, s \in Nat \ {0} :
    q % s = 0 =>
      /\ Entry!RoundToStep(<<q, 1>>, s) \in {q, q - s}
      /\ Entry!RoundToStep(<<q, 1>>, s) # q => s = 1 /\ q \in Entry!Slips
<1> SUFFICES ASSUME NEW q \in Nat, NEW s \in Nat \ {0}, q % s = 0
             PROVE  /\ Entry!RoundToStep(<<q, 1>>, s) \in {q, q - s}
                    /\ Entry!RoundToStep(<<q, 1>>, s) # q => s = 1 /\ q \in Entry!Slips
  OBVIOUS
<1> DEFINE k == q \div (1 * s)
<1>1. k \in Nat /\ s * k = q
  <2>1. 1 * s = s
    OBVIOUS
  <2> QED BY <2>1, WholeSteps, DivisionIs
<1>2. s * (k - 1) = q - s
  BY <1>1
<1>3. Entry!RoundToStep(<<q, 1>>, s)
        = s * (IF s = 1 /\ q = k * 1 /\ k \in Entry!Slips THEN k - 1 ELSE k)
  BY DEF Entry!RoundToStep
<1> HIDE DEF k
<1> QED BY <1>1, <1>2, <1>3

LEMMA PriceRounded ==
  \A p \in Nat, t \in Nat \ {0} :
    /\ Entry!RoundPrice(p, t) \in Nat /\ Entry!RoundPrice(p, t) <= p
    /\ p % t = 0 => Entry!RoundPrice(p, t) = p
<1> SUFFICES ASSUME NEW p \in Nat, NEW t \in Nat \ {0}
             PROVE  /\ Entry!RoundPrice(p, t) \in Nat /\ Entry!RoundPrice(p, t) <= p
                    /\ p % t = 0 => Entry!RoundPrice(p, t) = p
  OBVIOUS
<1> DEFINE k == p \div t
<1>1. k \in Nat /\ t * k <= p /\ (p % t = 0 => t * k = p)
  BY DivisionIs, WholeSteps
<1>2. Entry!RoundPrice(p, t) = k * t
  BY DEF Entry!RoundPrice
<1> HIDE DEF k
<1>3. k * t = t * k /\ k * t \in Nat
  BY <1>1
<1> QED BY <1>1, <1>2, <1>3

-----------------------------------------------------------------------------
(* What a row holds                                                          *)

\* normalizer.ts: what an order must be to be sent.
LEMMA NormalizedIs ==
  \A q \in Nat \X (Nat \ {0}), p \in Nat \ {0}, lim \in BOOLEAN, r \in Instruments :
    LET o == Entry!NormalizeOrder(q, p, lim, r) IN
    /\ o \in Orders
    /\ o.valid =>
         /\ o.qty = Entry!RoundToStep(q, r.step) /\ o.qty \in r.min..r.max
         /\ o.price \in Nat /\ o.price <= p
    /\ ~o.valid => o.why \in Whys \ {"none", "lookup", "venue", "size"}
    /\ o = Entry!Refused(o.why) \/ o.valid
<1> SUFFICES ASSUME NEW q \in Nat \X (Nat \ {0}), NEW p \in Nat \ {0}, NEW lim \in BOOLEAN,
                    NEW r \in Instruments
             PROVE  LET o == Entry!NormalizeOrder(q, p, lim, r) IN
                    /\ o \in Orders
                    /\ o.valid =>
                         /\ o.qty = Entry!RoundToStep(q, r.step) /\ o.qty \in r.min..r.max
                         /\ o.price \in Nat /\ o.price <= p
                    /\ ~o.valid => o.why \in Whys \ {"none", "lookup", "venue", "size"}
                    /\ o = Entry!Refused(o.why) \/ o.valid
  OBVIOUS
<1> DEFINE o == Entry!NormalizeOrder(q, p, lim, r)
           qty == Entry!RoundToStep(q, r.step)
           at == IF lim THEN Entry!RoundPrice(p, r.tick) ELSE p
<1>1. qty \in Nat
  <2>1. q = <<q[1], q[2]>> /\ q[1] \in Nat /\ q[2] \in Nat \ {0} /\ r.step \in Nat \ {0}
    BY EntryConstants
  <2> QED BY <2>1, RoundedDown
<1>2. at \in Nat /\ at <= p
  BY EntryConstants, PriceRounded
<1>3. r.min \in Nat /\ r.max \in Nat
  BY EntryConstants
<1>4. \/ /\ o = [valid |-> TRUE, qty |-> qty, price |-> at]
         /\ ~(qty < r.min) /\ ~(qty > r.max)
      \/ \E why \in {"status", "min", "max", "price", "notional"} : o = Entry!Refused(why)
  BY DEF Entry!NormalizeOrder
<1> HIDE DEF o, qty, at
<1>5. CASE o = [valid |-> TRUE, qty |-> qty, price |-> at] /\ ~(qty < r.min) /\ ~(qty > r.max)
  <2>1. o.valid /\ o.qty = qty /\ o.price = at /\ o \in Orders
    BY <1>1, <1>2, <1>5 DEF Orders
  <2> QED BY <1>1, <1>2, <1>3, <1>5, <2>1 DEF qty, o
<1>6. CASE \E why \in {"status", "min", "max", "price", "notional"} : o = Entry!Refused(why)
  <2>1. PICK why \in {"status", "min", "max", "price", "notional"} : o = Entry!Refused(why)
    BY <1>6
  <2>2. ~o.valid /\ o.why = why /\ o \in Orders
    BY <2>1 DEF Orders, Whys, Entry!Refused
  <2> QED BY <2>1, <2>2 DEF Whys, o
<1> QED BY <1>4, <1>5, <1>6

LEMMA SizedIs ==
  \A b \in Nat \ {0}, p \in Nat \ {0}, r \in Instruments :
    LET q == Entry!RoundToStep(<<b, p>>, r.step)
        o == Entry!SizeOrder(b, p, r)
    IN o.valid => o.qty = q /\ q > 0 /\ q \in r.min..r.max /\ ~(q * p < r.minNotional)
<1> SUFFICES ASSUME NEW b \in Nat \ {0}, NEW p \in Nat \ {0}, NEW r \in Instruments,
                    Entry!SizeOrder(b, p, r).valid
             PROVE  LET q == Entry!RoundToStep(<<b, p>>, r.step) IN
                    /\ Entry!SizeOrder(b, p, r).qty = q
                    /\ q > 0 /\ q \in r.min..r.max /\ ~(q * p < r.minNotional)
  OBVIOUS
<1> DEFINE q == Entry!RoundToStep(<<b, p>>, r.step)
<1>1. q \in Nat /\ r.min \in Nat /\ r.max \in Nat
  BY RoundedDown, EntryConstants
<1>2. Entry!SizeOrder(b, p, r)
        = IF q <= 0 \/ q < r.min \/ q > r.max \/ q * p < r.minNotional
          THEN Entry!Refused("size") ELSE [valid |-> TRUE, qty |-> q]
  BY DEF Entry!SizeOrder
<1> HIDE DEF q
<1>3. ~(q <= 0 \/ q < r.min \/ q > r.max \/ q * p < r.minNotional)
  BY <1>2 DEF Entry!Refused
<1> QED BY <1>1, <1>2, <1>3 DEF q

\* A row that fits has an order within its budget.
LEMMA OrderFits ==
  \A e \in EntryRow : st \in Strategies /\ Fits(e) /\ e.order.valid =>
    /\ e.order.qty > 0 /\ e.order.qty % e.used.step = 0
    /\ e.order.qty \in e.used.min..e.used.max
    /\ e.order.qty * e.order.price <= e.budget
    /\ e.rules = e.used => (e.order.qty + 3 * e.used.step) * e.price > e.budget
<1> SUFFICES ASSUME NEW e \in EntryRow, Fits(e), st \in Strategies, e.order.valid
             PROVE  /\ e.order.qty > 0 /\ e.order.qty % e.used.step = 0
                    /\ e.order.qty \in e.used.min..e.used.max
                    /\ e.order.qty * e.order.price <= e.budget
                    /\ e.rules = e.used => (e.order.qty + 3 * e.used.step) * e.price > e.budget
  OBVIOUS
<1> DEFINE Q == e.order.qty
           at == e.order.price
           p == e.price
           b == e.budget
           s == e.used.step
           a == e.qty[1]
           d == e.qty[2]
<1>1. /\ p \in Nat \ {0} /\ b \in Nat \ {0} /\ e.used \in Instruments /\ s \in Nat \ {0}
      /\ a \in Nat /\ d \in Nat \ {0} /\ e.qty = <<a, d>> /\ e.qty \in Nat \X (Nat \ {0})
      /\ e.used.min \in Nat \ {0} /\ e.used.max \in Nat
  <2>1. /\ p \in Nat \ {0} /\ b \in Nat \ {0} /\ e.qty \in Nat \X (Nat \ {0}) /\ e.used \in Instruments
    BY EntryConstants DEF EntryRow, Fits
  <2>2. e.qty = <<a, d>> /\ a \in Nat /\ d \in Nat \ {0}
    BY <2>1
  <2>3. s \in Nat \ {0} /\ e.used.min \in Nat \ {0} /\ e.used.max \in Nat
    BY <2>1, EntryConstants
  <2> QED BY <2>1, <2>2, <2>3
<1> DEFINE S == Entry!RoundToStep(<<b, p>>, e.rules.step)
<1>2. Q = Entry!RoundToStep(<<a, d>>, s) /\ Q \in e.used.min..e.used.max /\ at \in Nat /\ at <= p
  <2>1. e.order = Entry!NormalizeOrder(e.qty, p, st.limit, e.used)
    BY DEF Fits
  <2>2. Entry!NormalizeOrder(e.qty, p, st.limit, e.used).valid
    BY <2>1
  <2>3. /\ Entry!NormalizeOrder(e.qty, p, st.limit, e.used).qty = Entry!RoundToStep(e.qty, s)
        /\ Entry!NormalizeOrder(e.qty, p, st.limit, e.used).qty \in e.used.min..e.used.max
        /\ Entry!NormalizeOrder(e.qty, p, st.limit, e.used).price \in Nat
        /\ Entry!NormalizeOrder(e.qty, p, st.limit, e.used).price <= p
    <3> DEFINE qq == e.qty
               uu == e.used
               ll == st.limit
    <3>1. /\ qq \in Nat \X (Nat \ {0}) /\ p \in Nat \ {0} /\ ll \in BOOLEAN /\ uu \in Instruments
          /\ Entry!NormalizeOrder(qq, p, ll, uu).valid
      BY <1>1, <2>2, EntryConstants DEF Fits
    <3> HIDE DEF qq, uu, ll, p
    <3>2. /\ Entry!NormalizeOrder(qq, p, ll, uu).qty = Entry!RoundToStep(qq, uu.step)
          /\ Entry!NormalizeOrder(qq, p, ll, uu).qty \in uu.min..uu.max
          /\ Entry!NormalizeOrder(qq, p, ll, uu).price \in Nat
          /\ Entry!NormalizeOrder(qq, p, ll, uu).price <= p
      BY <3>1, NormalizedIs
    <3> QED BY <3>2 DEF qq, uu, ll, p
  <2> QED BY <1>1, <2>1, <2>3
<1>3. Q \in Nat /\ Q > 0 /\ Q % s = 0 /\ Q * d <= a /\ a < (Q + 2 * s) * d
  <2> HIDE DEF Q, at, p, b, s, a, d, S
  <2>1. a \in Nat /\ d \in Nat \ {0} /\ s \in Nat \ {0}
    BY <1>1
  <2>2. /\ Entry!RoundToStep(<<a, d>>, s) \in Nat /\ Entry!RoundToStep(<<a, d>>, s) % s = 0
        /\ Entry!RoundToStep(<<a, d>>, s) * d <= a
        /\ a < (Entry!RoundToStep(<<a, d>>, s) + 2 * s) * d
    BY <2>1, RoundedDown, Zenon
  <2> DEFINE R == Entry!RoundToStep(<<a, d>>, s)
  <2>3. Q = R /\ Q >= e.used.min
    BY <1>1, <1>2
  <2>4. R \in Nat /\ R % s = 0 /\ R * d <= a /\ a < (R + 2 * s) * d
    BY <2>2
  <2> HIDE DEF R
  <2>5. e.used.min \in Nat \ {0}
    BY <1>1
  <2>6. Q > 0
    BY <2>3, <2>4, <2>5
  <2> QED BY <2>3, <2>4, <2>6, Zenon
<1>4. ~e.sized => a = b /\ d = p
  BY DEF Fits
<1>5. e.sized => /\ e.rules \in Instruments /\ e.rules.step \in Nat \ {0} /\ a = S /\ d = 1
                 /\ S \in Nat /\ S % e.rules.step = 0 /\ S * p <= b
                 /\ b < (S + 2 * e.rules.step) * p
  <2> HAVE e.sized
  <2>1. e.rules \in Instruments /\ a = S /\ d = 1
    BY DEF Fits
  <2> DEFINE t == e.rules.step
  <2>2. t \in Nat \ {0}
    BY <2>1, EntryConstants
  <2> HIDE DEF Q, at, p, b, s, a, d, S, t
  <2>3. b \in Nat /\ p \in Nat \ {0}
    BY <1>1
  <2>4. /\ Entry!RoundToStep(<<b, p>>, t) \in Nat /\ Entry!RoundToStep(<<b, p>>, t) % t = 0
        /\ Entry!RoundToStep(<<b, p>>, t) * p <= b
        /\ b < (Entry!RoundToStep(<<b, p>>, t) + 2 * t) * p
    BY <2>2, <2>3, RoundedDown, Zenon
  <2> QED BY <2>1, <2>2, <2>4 DEF S, t
<1> HIDE DEF Q, at, p, b, s, a, d, S
<1>6. Q * at <= Q * p
  BY <1>1, <1>2, <1>3, ProductGrows
<1>7. Q * p <= b
  <2>1. CASE ~e.sized
    BY <1>1, <1>3, <1>4, <2>1
  <2>2. CASE e.sized
    <3>1. Q <= S
      BY <1>3, <1>5, <2>2
    <3>2. Q * p <= S * p
      BY <1>1, <1>3, <1>5, <2>2, <3>1, ProductGrows
    <3> QED BY <1>1, <1>3, <1>5, <2>2, <3>2
  <2> QED BY <2>1, <2>2
<1>8. ASSUME e.rules = e.used PROVE (Q + 3 * s) * p > b
  <2>1. CASE ~e.sized
    <3>1. b < (Q + 2 * s) * p
      BY <1>3, <1>4, <2>1
    <3>2. (Q + 2 * s) * p <= (Q + 3 * s) * p
      BY <1>1, <1>3, ProductGrows
    <3> QED BY <1>1, <1>3, <3>1, <3>2
  <2>2. CASE e.sized
    <3>1. e.rules.step = s
      BY <1>8 DEF s
    <3>2. Q \in {S, S - s}
      BY <1>1, <1>2, <1>5, <2>2, <3>1, RoundedAgain
    <3>3. (S + 2 * s) * p <= (Q + 3 * s) * p
      BY <1>1, <1>3, <1>5, <2>2, <3>2, ProductGrows
    <3> QED BY <1>1, <1>3, <1>5, <2>2, <3>1, <3>3
  <2> QED BY <2>1, <2>2
<1>9. Q * at <= b
  BY <1>1, <1>2, <1>3, <1>6, <1>7
<1> QED BY <1>2, <1>3, <1>8, <1>9 DEF Q, at, p, b, s

\* A sized row that the normalizer refuses under the same rules has a double
\* that slips, or a price between two ticks.
LEMMA RefusedOnlyForASlip ==
  \A e \in EntryRow :
    st \in Strategies /\ Fits(e) /\ e.state = "FAILED" /\ e.sized /\ e.why \notin {"lookup", "venue", "status"}
      /\ e.used = e.rules =>
      \/ e.used.step = 1 /\ e.qty[1] \in Entry!Slips
      \/ e.why \in {"notional", "price"} /\ e.price % e.used.tick # 0
<1> SUFFICES ASSUME NEW e \in EntryRow, Fits(e), st \in Strategies, e.state = "FAILED", e.sized,
                    e.why \notin {"lookup", "venue", "status"}, e.used = e.rules,
                    ~(e.used.step = 1 /\ e.qty[1] \in Entry!Slips)
             PROVE  e.why \in {"notional", "price"} /\ e.price % e.used.tick # 0
  OBVIOUS
<1> DEFINE r == e.used
           p == e.price
           q == e.qty[1]
           at == IF st.limit THEN Entry!RoundPrice(p, r.tick) ELSE p
<1>1. /\ p \in Nat \ {0} /\ e.budget \in Nat \ {0} /\ r \in Instruments
      /\ r.step \in Nat \ {0} /\ r.tick \in Nat \ {0}
  BY EntryConstants DEF EntryRow, Fits
<1>2. /\ e.qty = <<Entry!RoundToStep(<<e.budget, p>>, r.step), 1>>
      /\ Entry!SizeOrder(e.budget, p, r).valid
  BY DEF Fits
<1>3. q = Entry!RoundToStep(<<e.budget, p>>, r.step) /\ e.qty = <<q, 1>>
  BY <1>2
<1>4. /\ q \in Nat /\ q % r.step = 0 /\ q > 0 /\ q \in r.min..r.max /\ ~(q * p < r.minNotional)
  <2> DEFINE b == e.budget
             t == r.step
  <2> HIDE DEF b, t, p, q, r
  <2>1. b \in Nat /\ b \in Nat \ {0} /\ p \in Nat \ {0} /\ t \in Nat \ {0} /\ q = Entry!RoundToStep(<<b, p>>, t)
    BY <1>1, <1>3 DEF b, t
  <2>2. Entry!RoundToStep(<<b, p>>, t) \in Nat /\ Entry!RoundToStep(<<b, p>>, t) % t = 0
    BY <2>1, RoundedDown, Zenon
  <2>3. Entry!SizeOrder(b, p, r).valid /\ r \in Instruments
    BY <1>1, <1>2 DEF b
  <2>4. /\ Entry!RoundToStep(<<b, p>>, r.step) > 0
        /\ Entry!RoundToStep(<<b, p>>, r.step) \in r.min..r.max
        /\ ~(Entry!RoundToStep(<<b, p>>, r.step) * p < r.minNotional)
    BY <2>1, <2>3, SizedIs, Zenon
  <2> QED BY <2>1, <2>2, <2>4 DEF t
<1>5. Entry!RoundToStep(e.qty, r.step) = q
  BY <1>1, <1>3, <1>4, RoundedAgain
<1>6. Entry!NormalizeOrder(e.qty, p, st.limit, r) = Entry!Refused(e.why)
  BY DEF Fits
<1> HIDE DEF q
<1>7. e.why \in {"price", "notional"} /\ (~st.limit => FALSE) /\ (at = p => FALSE)
  <2>1. Entry!NormalizeOrder(e.qty, p, st.limit, r)
          = CASE r.status # "Trading" -> Entry!Refused("status")
              [] q < r.min -> Entry!Refused("min")
              [] q > r.max -> Entry!Refused("max")
              [] st.limit /\ at <= 0 -> Entry!Refused("price")
              [] q * at < r.minNotional -> Entry!Refused("notional")
              [] OTHER -> [valid |-> TRUE, qty |-> q, price |-> at]
    BY <1>5 DEF Entry!NormalizeOrder
  <2>2. ~(q < r.min) /\ ~(q > r.max) /\ (at = p => ~(at <= 0) /\ ~(q * at < r.minNotional))
    BY <1>1, <1>4, EntryConstants
  <2> HIDE DEF at, r, p
  <2>3. \A u, v : Entry!Refused(u) = Entry!Refused(v) => u = v
    BY DEF Entry!Refused
  <2>4. \A u, v, w : Entry!Refused(u) # [valid |-> TRUE, qty |-> v, price |-> w]
    BY DEF Entry!Refused
  <2> QED BY <1>6, <2>1, <2>2, <2>3, <2>4 DEF at
<1>8. p % r.tick # 0
  BY <1>1, <1>7, PriceRounded
<1> QED BY <1>7, <1>8

-----------------------------------------------------------------------------
(* The rows                                                                  *)

LEMMA RowsAre ==
  RowsTyped => /\ Len(entries) \in Nat /\ DOMAIN entries = 1..Len(entries)
               /\ \A n \in DOMAIN entries : entries[n] \in EntryRow
<1> HIDE DEF EntryRow
<1> QED BY DEF RowsTyped

LEMMA RowReplaced ==
  \A n \in DOMAIN entries, r \in EntryRow :
    RowsTyped /\ entries' = [entries EXCEPT ![n] = r] =>
      /\ RowsTyped' /\ Len(entries') = Len(entries) /\ DOMAIN entries' = DOMAIN entries
      /\ entries'[n] = r /\ \A m \in DOMAIN entries \ {n} : entries'[m] = entries[m]
<1> HIDE DEF EntryRow
<1> QED BY DEF RowsTyped

LEMMA RowAppended ==
  \A r \in EntryRow :
    RowsTyped /\ entries' = Append(entries, r) =>
      /\ RowsTyped' /\ DOMAIN entries \subseteq DOMAIN entries'
      /\ \A m \in DOMAIN entries : entries'[m] = entries[m]
      /\ \A m \in DOMAIN entries' : m \in DOMAIN entries \/ entries'[m] = r
<1> HIDE DEF EntryRow
<1> QED BY DEF RowsTyped

\* executeIntent writes the outcome, and leaves what was decided.
LEMMA AttemptedIs ==
  ASSUME NEW e \in EntryRow, NEW to \in {"PENDING", "PLACED", "FILLED", "FAILED"}, NEW why \in Whys,
         NEW order \in Orders, NEW rules \in Rulesets
  PROVE  LET a == Entry!Attempted(e, to, why, order, rules) IN
         /\ a \in EntryRow
         /\ a.at = e.at /\ a.qty = e.qty /\ a.sized = e.sized /\ a.rules = e.rules
         /\ a.price = e.price /\ a.budget = e.budget
         /\ a.state = to /\ a.why = why /\ a.order = order /\ a.used = rules
         /\ a.hot = (to = "PLACED" /\ Entry!InCooldown) /\ a.late = (e.at <= closedAt)
<1> DEFINE a == Entry!Attempted(e, to, why, order, rules)
           cool == (to = "PLACED" /\ Entry!InCooldown)
           old == (e.at <= closedAt)
<1>1. cool \in BOOLEAN /\ old \in BOOLEAN
  BY DEF Entry!InCooldown
<1>2. a = [e EXCEPT !.state = to, !.why = why, !.order = order, !.used = rules,
                    !.hot = cool, !.late = old]
  BY Zenon DEF Entry!Attempted
<1> HIDE DEF a, cool, old, Whys, Orders, Rulesets
<1>3. a = [at |-> e.at, side |-> e.side, qty |-> e.qty, sized |-> e.sized, rules |-> e.rules,
           price |-> e.price, budget |-> e.budget, state |-> to, why |-> why,
           order |-> order, used |-> rules, hot |-> cool, late |-> old]
  BY <1>2 DEF EntryRow
<1>4. a \in EntryRow
  BY <1>1, <1>3 DEF EntryRow
<1> QED BY <1>3, <1>4 DEF a, cool, old

\* Rows that do not change hold while time passes, a position closes or the
\* process restarts.
LEMMA RowsStay ==
  ASSUME EntryShape, RowsTyped, RowsHold, UNCHANGED <<entries, st>>,
         time' \in Nat, time <= time', crashed => crashed',
         closedAt' = closedAt \/ closedAt' = time
  PROVE  RowsHold'
<1> SUFFICES ASSUME NEW n \in DOMAIN entries PROVE Fits(entries[n])' /\ Cooled(entries[n])'
  BY DEF RowsHold
<1>1. entries[n].at \in Nat /\ time \in Nat /\ Fits(entries[n]) /\ Cooled(entries[n])
  BY RowsAre DEF RowsHold, EntryRow, EntryShape
<1>2. Fits(entries[n])'
  BY <1>1 DEF Fits
<1>3. Cooled(entries[n])'
  BY <1>1 DEF Cooled
<1> QED BY <1>2, <1>3

-----------------------------------------------------------------------------
(* What has failed                                                           *)

LEMMA Counts == \A S : Entry!Cardinality(S) = Cardinality(S)
BY DEF Entry!Cardinality, Cardinality

LEMMA Fewer ==
  ASSUME NEW m \in Nat, NEW T \in SUBSET (1..m), NEW S \in SUBSET T, NEW k \in Nat, NEW l \in Nat,
         Cardinality(T) * k < l
  PROVE  Cardinality(S) * k < l
<1>1. IsFiniteSet(T)
  <2>1. IsFiniteSet(1..m)
    BY FS_Interval
  <2> QED BY <2>1, FS_Subset
<1>2. Cardinality(S) \in Nat /\ Cardinality(T) \in Nat /\ Cardinality(S) <= Cardinality(T)
  BY <1>1, FS_Subset, FS_CardinalityType
<1>3. Cardinality(S) * k <= Cardinality(T) * k
  BY <1>2, ProductGrows
<1> DEFINE c == Cardinality(S) * k
           d == Cardinality(T) * k
<1>4. c \in Nat /\ d \in Nat
  BY <1>2
<1> HIDE DEF c, d
<1> QED BY <1>3, <1>4 DEF c, d

\* A day does not begin earlier as time goes on.
LEMMA DayBegins ==
  \A t \in Nat : (t \div Day) * Day \in Nat /\ (t \div Day) * Day <= ((t + 1) \div Day) * Day
<1> SUFFICES ASSUME NEW t \in Nat
             PROVE  /\ (t \div Day) * Day \in Nat
                    /\ (t \div Day) * Day <= ((t + 1) \div Day) * Day
  OBVIOUS
<1> DEFINE k == t \div Day
           l == (t + 1) \div Day
<1>1. Day \in Nat \ {0}
  BY EntryConstants
<1>2. /\ k \in Nat /\ Day * k <= t
      /\ l \in Nat /\ t + 1 < Day * l + Day
  BY <1>1, DivisionIs
<1> HIDE DEF k, l
<1>3. k <= l
  <2> SUFFICES ASSUME ~(k <= l) PROVE FALSE
    OBVIOUS
  <2>1. l + 1 <= k
    BY <1>2
  <2>2. Day * (l + 1) <= Day * k
    BY <1>1, <1>2, <2>1, ProductGrows
  <2>3. Day * (l + 1) = Day * l + Day
    BY <1>1, <1>2
  <2> QED BY <1>1, <1>2, <2>2, <2>3
<1>4. k * Day \in Nat /\ k * Day <= l * Day
  BY <1>1, <1>2, <1>3, ProductGrows
<1> QED BY <1>4 DEF k, l

\* As long as no more has failed before the poll, its guards hold.
LEMMA LossGuardKeeps ==
  ASSUME RowsTyped, st \in Strategies, LossGuard, pc # "loss",
         run' = "RUNNING" /\ ~denied' => run = "RUNNING" /\ ~denied,
         st' = st, (FailedBefore \cap Entry!FailedToday)' \subseteq FailedBefore \cap Entry!FailedToday
  PROVE  LossGuard'
<1> DEFINE T == FailedBefore \cap Entry!FailedToday
           S == (FailedBefore \cap Entry!FailedToday)'
<1>1. T \subseteq 1..Len(entries) /\ Len(entries) \in Nat
  BY RowsAre DEF Entry!FailedToday
<1>2. st.perTrade \in Nat /\ st.lossLimit \in Nat
  BY EntryConstants
<1>3. SUFFICES ASSUME run' = "RUNNING", ~denied', st.lossLimit > 0
               PROVE  Cardinality(S) * st.perTrade < st.lossLimit
  BY DEF LossGuard
<1>4. Cardinality(T) * st.perTrade < st.lossLimit
  BY <1>3 DEF LossGuard
<1> HIDE DEF T
<1>5. S \in SUBSET T
  BY DEF T
<1> HIDE DEF S
<1> QED BY <1>1, <1>2, <1>4, <1>5, Fewer

-----------------------------------------------------------------------------
(* The actions                                                               *)

LEMMA PauseGuardKeeps ==
  ASSUME PauseGuard, pc' = pc, st' = st, Len(entries') = Len(entries),
         run' = "RUNNING" /\ ~denied' => run = "RUNNING" /\ ~denied,
         FailedBefore' \subseteq FailedBefore
  PROVE  PauseGuard'
<1>1. \A S, T, n : S \subseteq T /\ Streak(S, n) => Streak(T, n)
  BY DEF Streak
<1>2. Streak(FailedBefore', Len(entries)) => Streak(FailedBefore, Len(entries))
  BY <1>1
<1> QED BY <1>2 DEF PauseGuard

LEMMA LookupIs ==
  ASSUME EntryShape, NEW f \in Entry!Lookups
  PROVE  /\ f.rules \in Rulesets /\ f.cache.rules \in Rulesets
         /\ f.rules # Entry!NoRules => f.rules \in Instruments
BY DEF EntryShape, Entry!Lookups, Rulesets, Entry!Fresh

\* The quantity a signal is written with: sized by the rules the row keeps, or
\* the raw quotient.
LEMMA SizingIs ==
  ASSUME EntryShape, NEW found \in Entry!Lookups, NEW again \in Entry!Lookups,
         found.rules # Entry!NoRules => again = found, st.dca = 0 => again = found,
         NEW s \in Entry!Sizings(found, again)
  PROVE  LET b == IF st.dca > 0 THEN st.dca ELSE st.budget IN
         /\ b \in Nat \ {0} /\ s.sized \in BOOLEAN /\ s.qty \in Nat \X (Nat \ {0})
         /\ s.sized => /\ again.rules \in Instruments
                       /\ s.qty = <<Entry!RoundToStep(<<b, price>>, again.rules.step), 1>>
                       /\ Entry!SizeOrder(b, price, again.rules).valid
         /\ ~s.sized => s.qty = <<b, price>>
<1> DEFINE b == IF st.dca > 0 THEN st.dca ELSE st.budget
           order == Entry!SizeOrder(b, price, again.rules)
<1>1. st.dca \in Nat /\ st.budget \in Nat \ {0} /\ b \in Nat \ {0} /\ price \in Nat \ {0}
  BY EntryConstants DEF EntryShape
<1>2. /\ again.rules # Entry!NoRules => again.rules \in Instruments
      /\ found.rules # Entry!NoRules => found.rules \in Instruments
  BY LookupIs
<1>3. \/ s = [qty |-> <<order.qty, 1>>, sized |-> TRUE] /\ again.rules # Entry!NoRules /\ order.valid
      \/ s = [qty |-> <<b, price>>, sized |-> FALSE]
  <2>1. CASE st.dca > 0
    BY <2>1 DEF Entry!Sizings, Entry!Sized, Entry!Raw
  <2>2. CASE ~(st.dca > 0)
    BY <1>1, <2>2 DEF Entry!Sizings, Entry!Sized, Entry!Raw
  <2> QED BY <2>1, <2>2
<1> HIDE DEF b
<1>4. CASE s = [qty |-> <<order.qty, 1>>, sized |-> TRUE] /\ again.rules # Entry!NoRules /\ order.valid
  <2> DEFINE r == again.rules
  <2>1. r \in Instruments /\ Entry!SizeOrder(b, price, r).valid
    BY <1>2, <1>4
  <2> HIDE DEF r
  <2>2. /\ Entry!SizeOrder(b, price, r).qty = Entry!RoundToStep(<<b, price>>, r.step)
        /\ Entry!RoundToStep(<<b, price>>, r.step) > 0
        /\ Entry!RoundToStep(<<b, price>>, r.step) \in r.min..r.max
    BY <1>1, <2>1, SizedIs, Zenon
  <2>3. r.min \in Nat /\ r.max \in Nat
    BY <2>1, EntryConstants
  <2>4. Entry!RoundToStep(<<b, price>>, r.step) \in Nat
    BY <2>2, <2>3
  <2>5. s.qty = <<Entry!RoundToStep(<<b, price>>, again.rules.step), 1>> /\ s.sized
    BY <1>4, <2>2 DEF r
  <2> QED BY <1>1, <1>4, <2>1, <2>4, <2>5 DEF r, b
<1>5. CASE s = [qty |-> <<b, price>>, sized |-> FALSE]
  BY <1>1, <1>5 DEF b
<1> QED BY <1>3, <1>4, <1>5

LEMMA ShortageStays ==
  ASSUME EntryShape, Shortage, UNCHANGED <<candles, shortages, flagged, crashed>>,
         faults' \in Nat, faults <= faults'
  PROVE  Shortage'
<1>1. faults \in Nat /\ shortages \in Nat
  BY DEF EntryShape
<1>2. shortages <= 1 + faults => shortages <= 1 + faults'
  <2>1. \A a, b, c \in Nat : b <= c /\ a <= 1 + b => a <= 1 + c
    OBVIOUS
  <2> QED BY <1>1, <2>1
<1>3. shortages <= faults => shortages <= faults'
  BY <1>1
<1> QED BY <1>2, <1>3 DEF Shortage

LEMMA EntryInit == Entry!Init => EntryIInv
<1> SUFFICES ASSUME Entry!Init PROVE EntryIInv
  OBVIOUS
<1>1. RowsTyped /\ DOMAIN entries = {}
  BY DEF RowsTyped, Entry!Init
<1>2. faults \in Nat /\ cache.rules \in Rulesets
  BY DEF Entry!Init, Rulesets
<1>3. EntryShape
  <2>1. 1 \in 1..MaxTime
    BY EntryConstants
  <2>2. batch \subseteq DOMAIN entries /\ \A n \in batch : entries[n].state = "PENDING"
    BY DEF Entry!Init
  <2>3. /\ time = 1 /\ lastClose = 0 /\ closedAt = 0 /\ shortages = 0 /\ candles = 1
        /\ flagged = FALSE /\ denied = FALSE /\ crashed = FALSE
        /\ run = "RUNNING" /\ pc = "loss"
        /\ st \in Strategies /\ listed \in Instruments /\ price \in Prices
    BY DEF Entry!Init
  <2>4. time \in 1..MaxTime /\ candles \in 1..2 /\ closedAt <= time /\ shortages \in Nat
        /\ lastClose \in Nat /\ closedAt \in Nat
    BY <2>1, <2>3
  <2> QED BY <1>2, <2>2, <2>3, <2>4, Zenon DEF EntryShape
<1>4. RowsHold /\ CloseSeen /\ LossGuard /\ PauseGuard /\ Shortage
  BY <1>1 DEF RowsHold, CloseSeen, LossGuard, PauseGuard, Shortage, Entry!Init
<1> QED BY <1>1, <1>3, <1>4 DEF EntryIInv

LEMMA EnforceDailyLossLimitKeeps == EntryIInv /\ Entry!EnforceDailyLossLimit => EntryIInv'
<1> SUFFICES ASSUME EntryIInv, Entry!EnforceDailyLossLimit PROVE EntryIInv'
  OBVIOUS
<1> USE DEF EntryIInv, Entry!EnforceDailyLossLimit, Entry!market
<1>1. RowsTyped' /\ CloseSeen' /\ PauseGuard'
  BY DEF RowsTyped, CloseSeen, PauseGuard
<1>2. /\ run' \in {"RUNNING", "STOPPING"} /\ denied' \in BOOLEAN /\ faults' \in Nat
      /\ faults <= faults'
      /\ run' = "RUNNING" /\ ~denied' =>
           run = "RUNNING" /\ ~Entry!LossLimitReached(Entry!FailedToday)
  <2>1. run \in {"RUNNING", "STOPPING"} /\ denied \in BOOLEAN /\ faults \in Nat
    BY DEF EntryShape
  <2>2. CASE Entry!LossLimitReached(Entry!FailedToday) /\ run = "RUNNING"
    <3>1. \/ run' = "STOPPING" /\ UNCHANGED <<denied, faults>>
          \/ Entry!Fault /\ denied' = TRUE /\ run' = run
      BY <2>2, Zenon DEF Entry!Stop
    <3>2. CASE run' = "STOPPING" /\ UNCHANGED <<denied, faults>>
      BY <2>1, <3>2
    <3>3. CASE Entry!Fault /\ denied' = TRUE /\ run' = run
      BY <2>1, <3>3 DEF Entry!Fault
    <3> QED BY <3>1, <3>2, <3>3
  <2>3. CASE ~(Entry!LossLimitReached(Entry!FailedToday) /\ run = "RUNNING")
    BY <2>1, <2>3 DEF Entry!Stop
  <2> QED BY <2>2, <2>3
<1>3. EntryShape'
  BY <1>2 DEF EntryShape
<1>4. RowsHold'
  BY RowsStay DEF EntryShape
<1>5. LossGuard'
  <2> SUFFICES ASSUME run' = "RUNNING", ~denied', st.lossLimit > 0
               PROVE  (Cardinality(FailedBefore \cap Entry!FailedToday) * st.perTrade < st.lossLimit)'
    BY DEF LossGuard
  <2> DEFINE T == Entry!FailedToday
             S == FailedBefore \cap Entry!FailedToday
  <2>1. st.perTrade \in Nat /\ st.lossLimit \in Nat
    BY EntryConstants DEF EntryShape
  <2>2. Cardinality(T) * st.perTrade < st.lossLimit
    <3> HIDE DEF T
    <3>1. ~(Cardinality(T) * st.perTrade >= st.lossLimit)
      BY <1>2, Counts DEF Entry!LossLimitReached, T
    <3>2. IsFiniteSet(T)
      <4>1. Len(entries) \in Nat /\ T \subseteq 1..Len(entries)
        BY RowsAre DEF T, Entry!FailedToday
      <4>2. IsFiniteSet(1..Len(entries))
        BY <4>1, FS_Interval
      <4> QED BY <4>1, <4>2, FS_Subset
    <3>3. Cardinality(T) \in Nat
      BY <3>2, FS_CardinalityType
    <3> DEFINE c == Cardinality(T) * st.perTrade
    <3>4. c \in Nat
      BY <2>1, <3>3
    <3> HIDE DEF c
    <3> QED BY <2>1, <3>1, <3>4 DEF c
  <2>3. T \subseteq 1..Len(entries) /\ Len(entries) \in Nat /\ S \subseteq T
    BY RowsAre DEF Entry!FailedToday
  <2>4. Cardinality(S) * st.perTrade < st.lossLimit
    <3> HIDE DEF S, T
    <3>1. S \in SUBSET T /\ T \in SUBSET (1..Len(entries))
      BY <2>3
    <3> QED BY <2>1, <2>2, <2>3, <3>1, Fewer
  <2> QED BY <2>4 DEF FailedBefore, Entry!FailedToday, Entry!Failed
<1>6. Shortage'
  BY <1>2, ShortageStays
<1> QED BY <1>1, <1>3, <1>4, <1>5, <1>6

LEMMA EnforceErrorPauseKeeps == EntryIInv /\ Entry!EnforceErrorPause => EntryIInv'
<1> SUFFICES ASSUME EntryIInv, Entry!EnforceErrorPause PROVE EntryIInv'
  OBVIOUS
<1> USE DEF EntryIInv, Entry!EnforceErrorPause, Entry!market
<1>1. RowsTyped' /\ CloseSeen'
  BY DEF RowsTyped, CloseSeen
<1>2. /\ run' \in {"RUNNING", "STOPPING"} /\ denied' \in BOOLEAN /\ faults' \in Nat
      /\ faults <= faults'
      /\ run' = "RUNNING" /\ ~denied' => run = "RUNNING" /\ ~denied /\ ~Entry!ErrorPauseReached
  <2>1. run \in {"RUNNING", "STOPPING"} /\ denied \in BOOLEAN /\ faults \in Nat
    BY DEF EntryShape
  <2>2. CASE Entry!ErrorPauseReached /\ run = "RUNNING"
    <3>1. \/ run' = "STOPPING" /\ UNCHANGED <<denied, faults>>
          \/ Entry!Fault /\ denied' = TRUE /\ run' = run
      BY <2>2, Zenon DEF Entry!Stop
    <3>2. CASE run' = "STOPPING" /\ UNCHANGED <<denied, faults>>
      BY <2>1, <3>2
    <3>3. CASE Entry!Fault /\ denied' = TRUE /\ run' = run
      BY <2>1, <3>3 DEF Entry!Fault
    <3> QED BY <3>1, <3>2, <3>3
  <2>3. CASE ~(Entry!ErrorPauseReached /\ run = "RUNNING")
    BY <2>1, <2>3 DEF Entry!Stop
  <2> QED BY <2>2, <2>3
<1>3. batch' \subseteq DOMAIN entries /\ \A n \in batch' : entries[n].state = "PENDING"
  BY DEF Entry!Pending
<1>4. EntryShape'
  BY <1>2, <1>3 DEF EntryShape
<1>5. RowsHold'
  BY RowsStay DEF EntryShape
<1>6. LossGuard'
  BY <1>2, LossGuardKeeps DEF EntryShape, FailedBefore, Entry!FailedToday, Entry!Failed
<1>7. PauseGuard'
  <2> SUFFICES ASSUME run' = "RUNNING", ~denied', st.pause, Streak(FailedBefore, Len(entries))
               PROVE  FALSE
    BY DEF PauseGuard, FailedBefore, Entry!Failed
  <2>1. Len(entries) \in Nat /\ Len(entries) >= 3
    BY RowsAre DEF Streak
  <2>2. \A m \in Entry!LastThree : Entry!Failed(m)
    BY <2>1 DEF Entry!LastThree, Entry!Threshold, FailedBefore, Streak
  <2> QED BY <1>2, <2>1, <2>2 DEF Entry!ErrorPauseReached, Entry!Threshold
<1>8. Shortage'
  BY <1>2, ShortageStays
<1> QED BY <1>1, <1>4, <1>5, <1>6, <1>7, <1>8

\* One intent of the batch is executed: it held for PENDING, so it is none of
\* those that had failed before.
LEMMA ResultKeeps ==
  ASSUME EntryIInv, pc = "intents", NEW n \in batch,
         NEW to \in {"PENDING", "PLACED", "FAILED"}, NEW why \in Whys, NEW order \in Orders,
         NEW rules \in Rulesets,
         Entry!Result(n, to, why, order, rules),
         order.valid => /\ rules \in Instruments
                        /\ order = Entry!NormalizeOrder(entries[n].qty, entries[n].price, st.limit, rules),
         to = "FAILED" /\ why \notin {"lookup", "venue"} =>
           /\ rules \in Instruments
           /\ Entry!NormalizeOrder(entries[n].qty, entries[n].price, st.limit, rules) = Entry!Refused(why),
         batch' = batch \ {n}, cache'.rules \in Rulesets, faults' \in Nat, faults <= faults',
         UNCHANGED <<st, time, price, candles, listed, lastClose, flagged, denied, pc,
                     position, closedAt, run, shortages, crashed>>
  PROVE  EntryIInv'
<1> USE DEF EntryIInv
<1>1. /\ n \in DOMAIN entries /\ entries[n] \in EntryRow /\ entries[n].state = "PENDING"
      /\ Len(entries) \in Nat /\ DOMAIN entries = 1..Len(entries)
      /\ closedAt \in Nat /\ time \in Nat /\ st.cooldown \in Nat
  BY RowsAre, EntryConstants DEF EntryShape
<1>2. PICK r \in EntryRow :
      /\ r = Entry!Attempted(entries[n], to, why, order, rules)
      /\ r.at = entries[n].at /\ r.qty = entries[n].qty /\ r.sized = entries[n].sized
      /\ r.rules = entries[n].rules /\ r.price = entries[n].price /\ r.budget = entries[n].budget
      /\ r.state = to /\ r.why = why /\ r.order = order /\ r.used = rules
      /\ r.hot = (to = "PLACED" /\ Entry!InCooldown) /\ r.late = (entries[n].at <= closedAt)
  BY <1>1, AttemptedIs
<1>3. /\ entries' = [entries EXCEPT ![n] = r]
      /\ failedNow' = IF to = "FAILED" THEN failedNow \cup {n} ELSE failedNow
  BY <1>2 DEF Entry!Result
<1>4. /\ RowsTyped' /\ Len(entries') = Len(entries) /\ DOMAIN entries' = DOMAIN entries
      /\ entries'[n] = r /\ \A m \in DOMAIN entries \ {n} : entries'[m] = entries[m]
  BY <1>1, <1>2, <1>3, RowReplaced
<1>5. EntryShape'
  <2>1. batch' \subseteq DOMAIN entries' /\ \A m \in batch' : entries'[m].state = "PENDING"
    BY <1>4 DEF EntryShape
  <2> QED BY <2>1 DEF EntryShape
<1>6. RowsHold'
  <2>1. \A m \in DOMAIN entries \ {n} : (Fits(entries[m]) /\ Cooled(entries[m]))'
    <3> SUFFICES ASSUME NEW m \in DOMAIN entries \ {n}
                 PROVE  (Fits(entries[m]) /\ Cooled(entries[m]))'
      OBVIOUS
    <3>1. entries'[m] = entries[m] /\ Fits(entries[m]) /\ Cooled(entries[m])
      BY <1>4 DEF RowsHold
    <3> QED BY <3>1 DEF Fits, Cooled
  <2>2. Fits(r) /\ st' = st
    <3>1. Fits(entries[n])
      BY <1>1 DEF RowsHold
    <3> QED BY <1>2, <3>1 DEF Fits
  <2>3. Cooled(r) /\ UNCHANGED <<time, crashed, closedAt, st>>
    <3>1. Cooled(entries[n]) /\ entries[n].at \in Nat
      BY <1>1 DEF RowsHold, EntryRow
    <3>2. ASSUME r.hot, ~r.late, ~crashed PROVE FALSE
      <4>1. /\ Entry!InCooldown /\ ~(entries[n].at <= closedAt)
            /\ ~crashed /\ 0 < closedAt /\ closedAt < entries[n].at =>
                 entries[n].at - closedAt >= st.cooldown
            /\ entries[n].at <= time
        BY <1>2, <3>1, <3>2, Zenon DEF Cooled
      <4>2. 0 < closedAt /\ time - closedAt < st.cooldown
        BY <1>1, <4>1 DEF Entry!InCooldown
      <4>3. closedAt < entries[n].at
        BY <1>1, <3>1, <4>1
      <4>4. entries[n].at - closedAt >= st.cooldown
        BY <3>2, <4>1, <4>2, <4>3
      <4>5. entries[n].at \in Nat /\ entries[n].at <= time
        BY <3>1, <4>1
      <4> QED BY <1>1, <4>2, <4>4, <4>5
    <3>3. /\ r.at <= time
          /\ ~crashed /\ 0 < closedAt /\ closedAt < r.at => r.at - closedAt >= st.cooldown
      BY <1>2, <3>1 DEF Cooled
    <3> QED BY <3>2, <3>3 DEF Cooled
  <2>4. (Fits(entries[n]) /\ Cooled(entries[n]))'
    BY <1>4, <2>2, <2>3 DEF Fits, Cooled
  <2> QED BY <1>4, <2>1, <2>4 DEF RowsHold
<1>7. CloseSeen'
  BY DEF CloseSeen
<1>8. FailedBefore' \subseteq FailedBefore
  BY <1>1, <1>2, <1>3, <1>4 DEF FailedBefore, Entry!Failed
<1>9. LossGuard'
  <2>1. (FailedBefore \cap Entry!FailedToday)' \subseteq FailedBefore \cap Entry!FailedToday
    <3>1. \A m \in FailedBefore : m # n
      BY <1>1 DEF FailedBefore, Entry!Failed
    <3>2. Entry!FailedToday' \subseteq Entry!FailedToday \cup {n}
      BY <1>4 DEF Entry!FailedToday, Entry!Failed
    <3> QED BY <1>8, <3>1, <3>2
  <2> QED BY <2>1, LossGuardKeeps DEF EntryShape
<1>10. PauseGuard'
  BY <1>4, <1>8, PauseGuardKeeps
<1>11. Shortage'
  BY ShortageStays
<1> QED BY <1>4, <1>5, <1>6, <1>7, <1>9, <1>10, <1>11

LEMMA ExecuteIntentKeeps == EntryIInv /\ Entry!ExecuteIntent => EntryIInv'
<1> SUFFICES ASSUME EntryIInv, Entry!ExecuteIntent PROVE EntryIInv'
  OBVIOUS
<1> DEFINE n == Entry!Next1
           e == entries[n]
<1>1. n \in batch
  <2>1. batch \subseteq Nat /\ batch # {}
    BY RowsAre DEF EntryIInv, EntryShape, Entry!ExecuteIntent
  <2>2. \E b \in batch : \A m \in batch : b <= m
    BY <2>1, PublicProofs!Least
  <2> QED BY <2>2 DEF Entry!Next1
<1>2. /\ e \in EntryRow /\ st.limit \in BOOLEAN /\ faults \in Nat
      /\ e.qty \in Nat \X (Nat \ {0}) /\ e.price \in Nat \ {0}
  BY <1>1, RowsAre, EntryConstants DEF EntryIInv, EntryShape, EntryRow
<1>3. /\ batch' = batch \ {n} /\ pc = "intents"
      /\ UNCHANGED <<st, time, price, candles, listed, lastClose, flagged, denied, pc,
                     position, closedAt, run, shortages, crashed>>
  BY DEF Entry!ExecuteIntent, Entry!market
<1>4. PICK found \in Entry!Lookups :
        LET order == Entry!NormalizeOrder(e.qty, e.price, st.limit, found.rules) IN
        /\ cache' = found.cache /\ Entry!Cost(found)
        /\ \/ /\ found.rules = Entry!NoRules
              /\ \/ Entry!Result(n, "PENDING", "none", Entry!NoOrder, Entry!NoRules)
                 \/ Entry!Result(n, "FAILED", "lookup", Entry!NoOrder, Entry!NoRules)
           \/ /\ found.rules # Entry!NoRules /\ ~order.valid
              /\ Entry!Result(n, "FAILED", order.why, Entry!NoOrder, found.rules)
           \/ /\ found.rules # Entry!NoRules /\ order.valid
              /\ \/ Entry!Result(n, "PLACED", "none", order, found.rules)
                 \/ Entry!Result(n, "FAILED", "venue", Entry!NoOrder, found.rules)
  BY Zenon DEF Entry!ExecuteIntent
<1> DEFINE order == Entry!NormalizeOrder(e.qty, e.price, st.limit, found.rules)
<1>5. /\ cache'.rules \in Rulesets /\ faults' \in Nat /\ faults <= faults'
      /\ found.rules \in Rulesets /\ Entry!NoRules \in Rulesets
      /\ found.rules # Entry!NoRules => found.rules \in Instruments
  BY <1>2, <1>4, LookupIs DEF EntryIInv, Entry!Cost, Rulesets
<1>6. Entry!NoOrder \in Orders /\ ~Entry!NoOrder.valid /\ {"none", "lookup", "venue"} \subseteq Whys
  BY DEF Entry!NoOrder, Orders, Whys
<1>7. CASE found.rules = Entry!NoRules
  <2>1. PICK to \in {"PENDING", "FAILED"}, why \in {"none", "lookup"} :
          /\ Entry!Result(n, to, why, Entry!NoOrder, Entry!NoRules)
          /\ to = "FAILED" => why = "lookup"
    BY <1>4, <1>7
  <2> HIDE DEF n, e
  <2> QED BY <1>1, <1>3, <1>5, <1>6, <2>1, ResultKeeps
<1>8. CASE found.rules # Entry!NoRules
  <2> DEFINE r == found.rules
  <2>1. r \in Instruments
    BY <1>5, <1>8
  <2>2. /\ order \in Orders /\ (~order.valid => order.why \in Whys)
        /\ (order = Entry!Refused(order.why) \/ order.valid)
    <3> DEFINE q == e.qty
               p == e.price
               l == st.limit
    <3>1. q \in Nat \X (Nat \ {0}) /\ p \in Nat \ {0} /\ l \in BOOLEAN
      BY <1>2
    <3> HIDE DEF q, p, l, r, Orders, Whys
    <3>2. /\ Entry!NormalizeOrder(q, p, l, r) \in Orders
          /\ ~Entry!NormalizeOrder(q, p, l, r).valid => Entry!NormalizeOrder(q, p, l, r).why \in Whys
          /\ \/ Entry!NormalizeOrder(q, p, l, r) = Entry!Refused(Entry!NormalizeOrder(q, p, l, r).why)
             \/ Entry!NormalizeOrder(q, p, l, r).valid
      BY <2>1, <3>1, NormalizedIs
    <3> QED BY <3>2 DEF q, p, l, r
  <2>3. CASE ~order.valid /\ Entry!Result(n, "FAILED", order.why, Entry!NoOrder, r)
    <3> HIDE DEF n
    <3> QED BY <1>1, <1>3, <1>5, <1>6, <2>1, <2>2, <2>3, ResultKeeps
  <2>4. CASE order.valid /\ Entry!Result(n, "PLACED", "none", order, r)
    <3> HIDE DEF n
    <3> QED BY <1>1, <1>3, <1>5, <1>6, <2>1, <2>2, <2>4, ResultKeeps
  <2>5. CASE order.valid /\ Entry!Result(n, "FAILED", "venue", Entry!NoOrder, r)
    <3> HIDE DEF n
    <3> QED BY <1>1, <1>3, <1>5, <1>6, <2>1, <2>2, <2>5, ResultKeeps
  <2> QED BY <1>4, <1>8, <2>3, <2>4, <2>5
<1> QED BY <1>7, <1>8

\* A step that leaves the rows alone and starts no guard.
LEMMA QuietKeeps ==
  ASSUME EntryIInv, EntryShape', UNCHANGED <<entries, st>>, pc' # "loss" => failedNow' = failedNow,
         time <= time', crashed => crashed',
         closedAt' = closedAt \/ closedAt' = time, CloseSeen', Shortage',
         pc' # "loss" /\ run' = "RUNNING" /\ ~denied' => run = "RUNNING" /\ ~denied,
         pc' = "loss" \/ pc' = pc \/ (pc = "intents" /\ pc' = "evaluate"),
         pc' # "loss" => (Entry!FailedToday' \subseteq Entry!FailedToday)
  PROVE  EntryIInv'
<1> USE DEF EntryIInv
<1>1. RowsTyped'
  BY DEF RowsTyped
<1>2. RowsHold'
  BY RowsStay DEF EntryShape
<1>3. pc' # "loss" => FailedBefore' = FailedBefore
  BY DEF FailedBefore, Entry!Failed
<1>4. LossGuard'
  <2>1. CASE pc' = "loss"
    BY <2>1 DEF LossGuard
  <2>2. CASE pc' # "loss"
    <3>1. pc # "loss"
      BY <2>2
    <3>2. (FailedBefore \cap Entry!FailedToday)' \subseteq FailedBefore \cap Entry!FailedToday
      BY <1>3, <2>2
    <3> QED BY <2>2, <3>1, <3>2, LossGuardKeeps DEF EntryShape
  <2> QED BY <2>1, <2>2
<1>5. PauseGuard'
  <2>1. CASE pc' = "loss"
    BY <2>1 DEF PauseGuard
  <2>2. CASE pc' # "loss"
    <3>1. pc' \in {"intents", "evaluate"} => pc \in {"intents", "evaluate"}
      BY <2>2
    <3>2. FailedBefore' = FailedBefore
      BY <1>3, <2>2
    <3> QED BY <2>2, <3>1, <3>2 DEF PauseGuard
  <2> QED BY <2>1, <2>2
<1> QED BY <1>1, <1>2, <1>4, <1>5

LEMMA BatchDoneKeeps == EntryIInv /\ Entry!BatchDone => EntryIInv'
<1> SUFFICES ASSUME EntryIInv, Entry!BatchDone PROVE EntryIInv'
  OBVIOUS
<1> USE DEF Entry!BatchDone, Entry!market, Entry!rows
<1>1. EntryShape' /\ CloseSeen' /\ Shortage'
  BY DEF EntryIInv, EntryShape, CloseSeen, Shortage
<1>2. Entry!FailedToday' = Entry!FailedToday
  BY DEF Entry!FailedToday, Entry!Failed
<1>3. time \in Nat
  BY DEF EntryIInv, EntryShape
<1> QED BY <1>1, <1>2, <1>3, QuietKeeps

LEMMA NotEvaluatedKeeps == EntryIInv /\ Entry!NotEvaluated => EntryIInv'
<1> SUFFICES ASSUME EntryIInv, Entry!NotEvaluated PROVE EntryIInv'
  OBVIOUS
<1> USE DEF Entry!NotEvaluated, Entry!PollEnds, Entry!market, Entry!rows
<1>1. /\ candles \in 1..2 /\ shortages \in Nat /\ faults \in Nat /\ time \in Nat
      /\ flagged' \in BOOLEAN /\ (flagged' = flagged \/ candles = 2)
  <2>1. /\ candles \in 1..2 /\ shortages \in Nat /\ faults \in Nat /\ time \in Nat
        /\ flagged \in BOOLEAN
    BY DEF EntryIInv, EntryShape
  <2>2. CASE candles = 1
    <3>1. (candles < 2) = TRUE
      BY <2>2
    <3>2. flagged' = flagged \/ flagged' = (flagged /\ (candles < 2))
      OBVIOUS
    <3> QED BY <2>1, <3>1, <3>2, Zenon
  <2>3. CASE candles = 2
    <3>1. flagged' \in BOOLEAN
      BY <2>1
    <3> QED BY <2>1, <2>3, <3>1
  <2> QED BY <2>1, <2>2, <2>3
<1>2. cache'.rules \in Rulesets
  BY LookupIs DEF EntryIInv, EntryShape
<1>3. EntryShape'
  BY <1>1, <1>2 DEF EntryIInv, EntryShape
<1>4. CloseSeen'
  BY DEF EntryIInv, CloseSeen
<1>5. Shortage'
  <2>1. CASE flagged' = flagged
    BY <2>1 DEF EntryIInv, Shortage
  <2>2. CASE candles = 2
    <3>1. shortages = 0 /\ 0 <= faults /\ 0 <= 1 + faults /\ 0 <= 1
      BY <1>1, <2>2 DEF EntryIInv, Shortage
    <3> QED BY <3>1 DEF Shortage
  <2> QED BY <1>1, <2>1, <2>2
<1> QED BY <1>1, <1>3, <1>4, <1>5, QuietKeeps

LEMMA DatasetInsufficientKeeps == EntryIInv /\ Entry!DatasetInsufficient => EntryIInv'
<1> SUFFICES ASSUME EntryIInv, Entry!DatasetInsufficient PROVE EntryIInv'
  OBVIOUS
<1> USE DEF Entry!DatasetInsufficient, Entry!PollEnds, Entry!market
<1>1. /\ candles \in 1..2 /\ shortages \in Nat /\ faults \in Nat /\ time \in Nat
      /\ candles = 1 /\ flagged = FALSE
  BY DEF EntryIInv, EntryShape
<1>2. \/ flagged' = TRUE /\ shortages' = shortages + 1 /\ faults' = faults
      \/ flagged' = flagged /\ shortages' = shortages /\ faults' = faults + 1
  BY DEF Entry!Fault
<1>3. shortages' \in Nat /\ faults' \in Nat /\ flagged' \in BOOLEAN
  <2>1. CASE flagged' = TRUE /\ shortages' = shortages + 1 /\ faults' = faults
    BY <1>1, <2>1
  <2>2. CASE flagged' = flagged /\ shortages' = shortages /\ faults' = faults + 1
    <3>1. shortages' \in Nat /\ faults' \in Nat
      BY <1>1, <2>2
    <3>2. flagged' \in BOOLEAN
      BY <1>1, <2>2, Zenon
    <3> QED BY <3>1, <3>2
  <2> QED BY <1>2, <2>1, <2>2
<1>4. EntryShape'
  BY <1>3 DEF EntryIInv, EntryShape
<1>5. CloseSeen'
  BY DEF EntryIInv, CloseSeen
<1>6. Shortage'
  <2>1. /\ ~crashed => shortages = 0
        /\ crashed => shortages <= faults
    BY <1>1 DEF EntryIInv, Shortage
  <2>2. CASE flagged' = TRUE /\ shortages' = shortages + 1 /\ faults' = faults
    <3>1. ~crashed => shortages' <= 1
      BY <2>1, <2>2
    <3>2. crashed => shortages' <= 1 + faults'
      BY <1>1, <2>1, <2>2
    <3> QED BY <1>1, <2>2, <3>1, <3>2 DEF Shortage
  <2>3. CASE flagged' = flagged /\ shortages' = shortages /\ faults' = faults + 1
    <3>1. faults' \in Nat /\ faults <= faults'
      BY <1>1, <2>3
    <3> QED BY <2>3, <3>1, ShortageStays DEF EntryIInv
  <2> QED BY <1>2, <2>2, <2>3
<1> QED BY <1>1, <1>4, <1>5, <1>6, QuietKeeps

LEMMA NewCandleKeeps == ASSUME EntryIInv, NEW p \in Prices, Entry!NewCandle(p) PROVE EntryIInv'
<1> USE DEF Entry!NewCandle, Entry!worker
<1>1. /\ candles \in 1..2 /\ shortages \in Nat /\ faults \in Nat /\ time \in 1..MaxTime
      /\ closedAt \in Nat /\ closedAt <= time /\ MaxTime \in Nat
  BY EntryConstants DEF EntryIInv, EntryShape
<1>2. /\ candles' = 2 /\ shortages' = 0
      /\ time' \in 1..MaxTime /\ time <= time' /\ closedAt <= time'
  <2>1. candles = 2 => shortages = 0
    BY DEF EntryIInv, Shortage
  <2> QED BY <1>1, <2>1
<1>3. EntryShape'
  BY <1>2 DEF EntryIInv, EntryShape
<1>4. CloseSeen'
  BY DEF EntryIInv, CloseSeen
<1>5. Shortage'
  <2>1. 0 <= 1 /\ 0 <= 1 + faults /\ 0 <= faults
    BY <1>1
  <2> QED BY <1>2, <2>1 DEF Shortage
<1>6. Entry!FailedToday' \subseteq Entry!FailedToday
  <2> DEFINE b == (time \div Day) * Day
             c == ((time + 1) \div Day) * Day
  <2>1. b \in Nat /\ b <= c /\ c \in Nat
    BY <1>1, DayBegins
  <2>2. \A n \in DOMAIN entries : entries[n].at \in Nat
    BY RowsAre DEF EntryIInv, EntryRow
  <2>3. /\ Entry!FailedToday = {n \in DOMAIN entries : Entry!Failed(n) /\ entries[n].at >= b}
        /\ Entry!FailedToday' = {n \in DOMAIN entries : Entry!Failed(n) /\ entries[n].at >= c}
    BY DEF Entry!FailedToday, Entry!Failed
  <2> HIDE DEF b, c
  <2> QED BY <2>1, <2>2, <2>3
<1> QED BY <1>1, <1>2, <1>3, <1>4, <1>5, <1>6, QuietKeeps

LEMMA VenueChangesKeeps ==
  ASSUME EntryIInv, NEW i \in Instruments, Entry!VenueChanges(i) PROVE EntryIInv'
<1> USE DEF Entry!VenueChanges, Entry!worker, Entry!rows
<1>1. faults \in Nat /\ time \in Nat /\ faults' \in Nat /\ faults <= faults'
  BY DEF EntryIInv, EntryShape, Entry!Fault
<1>2. EntryShape' /\ CloseSeen'
  BY <1>1 DEF EntryIInv, EntryShape, CloseSeen
<1>3. Shortage'
  BY <1>1, ShortageStays DEF EntryIInv
<1>4. Entry!FailedToday' = Entry!FailedToday
  BY DEF Entry!FailedToday, Entry!Failed
<1> QED BY <1>1, <1>2, <1>3, <1>4, QuietKeeps

LEMMA CloseKeeps == EntryIInv /\ Entry!Close => EntryIInv'
<1> SUFFICES ASSUME EntryIInv, Entry!Close PROVE EntryIInv'
  OBVIOUS
<1> USE DEF Entry!Close, Entry!market
<1>1. time \in Nat /\ time <= time
  BY DEF EntryIInv, EntryShape
<1>2. EntryShape'
  BY <1>1 DEF EntryIInv, EntryShape
<1>3. CloseSeen' /\ Shortage'
  BY DEF EntryIInv, CloseSeen, Shortage
<1>4. Entry!FailedToday' = Entry!FailedToday
  BY DEF Entry!FailedToday, Entry!Failed
<1> QED BY <1>1, <1>2, <1>3, <1>4, QuietKeeps

LEMMA RestartKeeps == EntryIInv /\ Entry!Restart => EntryIInv'
<1> SUFFICES ASSUME EntryIInv, Entry!Restart PROVE EntryIInv'
  OBVIOUS
<1> USE DEF Entry!Restart, Entry!market, Entry!rows
<1>1. /\ faults \in Nat /\ time \in Nat /\ shortages \in Nat
      /\ faults' = faults + 1
  BY DEF EntryIInv, EntryShape, Entry!Fault
<1>2. cache'.rules \in Rulesets /\ faults' \in Nat
  BY <1>1 DEF Rulesets
<1>3. EntryShape'
  BY <1>2 DEF EntryIInv, EntryShape
<1>4. CloseSeen'
  BY DEF CloseSeen
<1>5. shortages <= faults'
  <2>1. CASE crashed
    BY <1>1, <2>1 DEF EntryIInv, Shortage
  <2>2. CASE ~crashed
    BY <1>1, <2>2 DEF EntryIInv, Shortage
  <2> QED BY <2>1, <2>2
<1>6. Shortage'
  <2>1. shortages <= 1 + faults'
    BY <1>1, <1>5
  <2> QED BY <1>5, <2>1 DEF EntryIInv, Shortage
<1> QED BY <1>1, <1>3, <1>4, <1>6, QuietKeeps

LEMMA FillKeeps ==
  ASSUME EntryIInv, NEW n \in DOMAIN entries, Entry!Fill(n) PROVE EntryIInv'
<1> USE DEF EntryIInv
<1>1. UNCHANGED <<st, time, price, candles, listed, cache, lastClose, flagged, batch,
                  failedNow, denied, pc, closedAt, run, shortages, crashed, faults>>
  BY DEF Entry!Fill, Entry!market, Entry!worker
<1>2. /\ entries[n] \in EntryRow /\ entries[n].state = "PLACED"
      /\ entries' = [entries EXCEPT ![n].state = "FILLED"]
      /\ Fits(entries[n]) /\ Cooled(entries[n]) /\ n \notin batch
  BY RowsAre DEF Entry!Fill, RowsHold, EntryShape
<1>3. PICK r \in EntryRow :
        /\ r = [entries[n] EXCEPT !.state = "FILLED"]
        /\ r.at = entries[n].at /\ r.qty = entries[n].qty /\ r.sized = entries[n].sized
        /\ r.rules = entries[n].rules /\ r.price = entries[n].price /\ r.budget = entries[n].budget
        /\ r.state = "FILLED" /\ r.why = entries[n].why /\ r.order = entries[n].order
        /\ r.used = entries[n].used /\ r.hot = entries[n].hot /\ r.late = entries[n].late
  <2> HIDE DEF EntryIInv, Whys, Orders, Rulesets
  <2> DEFINE e == entries[n]
             r == [e EXCEPT !.state = "FILLED"]
  <2>1. e \in EntryRow
    BY <1>2
  <2> HIDE DEF e
  <2>2. /\ r \in EntryRow /\ r.state = "FILLED"
        /\ r.at = e.at /\ r.qty = e.qty /\ r.sized = e.sized
        /\ r.rules = e.rules /\ r.price = e.price /\ r.budget = e.budget
        /\ r.why = e.why /\ r.order = e.order
        /\ r.used = e.used /\ r.hot = e.hot /\ r.late = e.late
    BY <2>1 DEF EntryRow
  <2> QED BY <2>2, Zenon DEF e
<1>4. entries' = [entries EXCEPT ![n] = r]
  BY <1>2, <1>3
<1>5. /\ RowsTyped' /\ Len(entries') = Len(entries) /\ DOMAIN entries' = DOMAIN entries
      /\ entries'[n] = r /\ \A m \in DOMAIN entries \ {n} : entries'[m] = entries[m]
  BY <1>4, RowReplaced
<1>6. EntryShape'
  <2>1. batch' \subseteq DOMAIN entries' /\ \A m \in batch' : entries'[m].state = "PENDING"
    BY <1>1, <1>2, <1>5 DEF EntryShape
  <2> QED BY <1>1, <2>1 DEF EntryShape
<1>7. RowsHold'
  <2>1. \A m \in DOMAIN entries \ {n} : (Fits(entries[m]) /\ Cooled(entries[m]))'
    <3> SUFFICES ASSUME NEW m \in DOMAIN entries \ {n}
                 PROVE  (Fits(entries[m]) /\ Cooled(entries[m]))'
      OBVIOUS
    <3>1. entries'[m] = entries[m] /\ Fits(entries[m]) /\ Cooled(entries[m])
      BY <1>5 DEF RowsHold
    <3> QED BY <1>1, <3>1 DEF Fits, Cooled
  <2>2. Fits(r)
    BY <1>2, <1>3 DEF Fits
  <2>3. Cooled(r)
    BY <1>2, <1>3 DEF Cooled
  <2>4. (Fits(entries[n]) /\ Cooled(entries[n]))'
    BY <1>1, <1>5, <2>2, <2>3 DEF Fits, Cooled
  <2> QED BY <1>5, <2>1, <2>4 DEF RowsHold
<1>8. CloseSeen' /\ Shortage'
  BY <1>1 DEF CloseSeen, Shortage
<1>9. \A m \in DOMAIN entries : Entry!Failed(m)' <=> Entry!Failed(m)
  BY <1>2, <1>3, <1>5 DEF Entry!Failed
<1>10. FailedBefore' \subseteq FailedBefore
  BY <1>1, <1>5, <1>9 DEF FailedBefore
<1>11. (FailedBefore \cap Entry!FailedToday)' \subseteq FailedBefore \cap Entry!FailedToday
  <2>1. \A m \in DOMAIN entries : entries'[m].at = entries[m].at
    BY <1>3, <1>5
  <2>2. Entry!FailedToday' \subseteq Entry!FailedToday
    BY <1>1, <1>5, <1>9, <2>1 DEF Entry!FailedToday
  <2> QED BY <1>10, <2>2
<1>12. LossGuard'
  <2>1. CASE pc = "loss"
    BY <1>1, <2>1 DEF LossGuard
  <2>2. CASE pc # "loss"
    BY <1>1, <1>11, <2>2, LossGuardKeeps DEF EntryShape
  <2> QED BY <2>1, <2>2
<1>13. PauseGuard'
  BY <1>1, <1>5, <1>10, PauseGuardKeeps
<1> QED BY <1>5, <1>6, <1>7, <1>8, <1>12, <1>13

\* A signal of a new candle and side is written, one that is there is not.
LEMMA EvaluateEntryKeeps ==
  ASSUME EntryIInv, NEW side \in Sides, Entry!EvaluateEntry(side) PROVE EntryIInv'
<1> USE DEF EntryIInv
<1>1. /\ UNCHANGED <<st, time, price, candles, listed, lastClose, position, closedAt, run,
                     shortages, crashed>>
      /\ pc' = "loss" /\ failedNow' = {} /\ denied' = FALSE /\ batch' = {} /\ flagged' = FALSE
      /\ candles >= 2 /\ Entry!Eligible
  BY DEF Entry!EvaluateEntry, Entry!PollEnds, Entry!market
<1>2. PICK found \in Entry!Lookups, again \in Entry!Lookups :
        /\ found.rules # Entry!NoRules => again = found
        /\ st.dca = 0 => again = found
        /\ cache' = again.cache /\ Entry!Cost(found)
        /\ \E s \in Entry!Sizings(found, again) :
             LET e == [at |-> time, side |-> side, qty |-> s.qty, sized |-> s.sized,
                       rules |-> again.rules, price |-> price,
                       budget |-> IF st.dca > 0 THEN st.dca ELSE st.budget,
                       state |-> "PENDING", why |-> "none", order |-> Entry!NoOrder,
                       used |-> Entry!NoRules, hot |-> FALSE, late |-> FALSE]
             IN entries' = entries \/ entries' = Append(entries, e)
  BY Zenon DEF Entry!EvaluateEntry
<1>3. PICK s \in Entry!Sizings(found, again) :
        LET e == [at |-> time, side |-> side, qty |-> s.qty, sized |-> s.sized,
                  rules |-> again.rules, price |-> price,
                  budget |-> IF st.dca > 0 THEN st.dca ELSE st.budget,
                  state |-> "PENDING", why |-> "none", order |-> Entry!NoOrder,
                  used |-> Entry!NoRules, hot |-> FALSE, late |-> FALSE]
        IN entries' = entries \/ entries' = Append(entries, e)
  BY <1>2, Zenon
<1>4. /\ candles = 2 /\ time \in Nat /\ price \in Prices /\ faults \in Nat /\ lastClose \in Nat
      /\ closedAt \in Nat /\ st.cooldown \in Nat /\ closedAt <= time
  BY <1>1, EntryConstants DEF EntryShape
<1>5. /\ cache'.rules \in Rulesets /\ again.rules \in Rulesets /\ Entry!NoRules \in Rulesets
      /\ faults' \in Nat
  BY <1>2, <1>4, LookupIs DEF Entry!Cost, Rulesets
<1> DEFINE b == IF st.dca > 0 THEN st.dca ELSE st.budget
<1>6. /\ b \in Nat \ {0} /\ s.sized \in BOOLEAN /\ s.qty \in Nat \X (Nat \ {0})
      /\ s.sized => /\ again.rules \in Instruments
                    /\ s.qty = <<Entry!RoundToStep(<<b, price>>, again.rules.step), 1>>
                    /\ Entry!SizeOrder(b, price, again.rules).valid
      /\ ~s.sized => s.qty = <<b, price>>
  BY <1>2, SizingIs
<1> HIDE DEF b
<1>7. PICK r \in EntryRow :
        /\ entries' = entries \/ entries' = Append(entries, r)
        /\ r.at = time /\ r.qty = s.qty /\ r.sized = s.sized /\ r.rules = again.rules
        /\ r.price = price /\ r.budget = b /\ r.state = "PENDING" /\ ~r.order.valid /\ ~r.hot
  <2> DEFINE e == [at |-> time, side |-> side, qty |-> s.qty, sized |-> s.sized,
                   rules |-> again.rules, price |-> price, budget |-> b,
                   state |-> "PENDING", why |-> "none", order |-> Entry!NoOrder,
                   used |-> Entry!NoRules, hot |-> FALSE, late |-> FALSE]
  <2>1. entries' = entries \/ entries' = Append(entries, e)
    BY <1>3 DEF b
  <2>2. Entry!NoOrder \in Orders /\ ~Entry!NoOrder.valid /\ "none" \in Whys
    BY DEF Entry!NoOrder, Orders, Whys
  <2> HIDE DEF Orders, Whys, Rulesets
  <2>3. e \in EntryRow
    BY <1>4, <1>5, <1>6, <2>2 DEF EntryRow
  <2>4. /\ e.at = time /\ e.qty = s.qty /\ e.sized = s.sized /\ e.rules = again.rules
        /\ e.price = price /\ e.budget = b /\ e.state = "PENDING" /\ e.order = Entry!NoOrder
        /\ e.hot = FALSE
    OBVIOUS
  <2> HIDE DEF e
  <2> QED BY <2>1, <2>2, <2>3, <2>4
<1>8. Fits(r)
  BY <1>6, <1>7 DEF Fits
<1>9. Cooled(r)
  <2>1. ASSUME ~crashed, 0 < closedAt, closedAt < time PROVE time - closedAt >= st.cooldown
    <3>1. lastClose = closedAt
      BY <2>1 DEF CloseSeen
    <3>2. lastClose > 0 /\ st.cooldown > 0 => time - lastClose >= st.cooldown
      BY <1>1, Zenon DEF Entry!Eligible
    <3> QED BY <1>4, <2>1, <3>1, <3>2
  <2>2. time <= time
    BY <1>4
  <2> QED BY <1>7, <2>1, <2>2 DEF Cooled
<1>10. /\ RowsTyped' /\ DOMAIN entries \subseteq DOMAIN entries'
       /\ \A m \in DOMAIN entries : entries'[m] = entries[m]
       /\ \A m \in DOMAIN entries' : m \in DOMAIN entries \/ entries'[m] = r
  <2>1. CASE entries' = entries
    BY <2>1 DEF RowsTyped
  <2>2. CASE entries' = Append(entries, r)
    BY <2>2, RowAppended
  <2> QED BY <1>7, <2>1, <2>2
<1>11. RowsHold'
  <2> SUFFICES ASSUME NEW m \in DOMAIN entries' PROVE (Fits(entries[m]) /\ Cooled(entries[m]))'
    BY DEF RowsHold
  <2>1. Fits(entries'[m]) /\ Cooled(entries'[m])
    BY <1>8, <1>9, <1>10 DEF RowsHold
  <2> QED BY <1>1, <2>1 DEF Fits, Cooled
<1>12. EntryShape'
  BY <1>1, <1>5 DEF EntryShape
<1>13. CloseSeen' /\ LossGuard' /\ PauseGuard'
  BY <1>1 DEF CloseSeen, LossGuard, PauseGuard
<1>14. Shortage'
  <2>1. shortages = 0 /\ 0 <= 1 /\ 0 <= faults' /\ 0 <= 1 + faults'
    <3>1. shortages = 0
      BY <1>4, Zenon DEF Shortage
    <3>2. \A f \in Nat : 0 <= 1 /\ 0 <= f /\ 0 <= 1 + f
      OBVIOUS
    <3>3. faults' \in Nat
      BY <1>5, Zenon
    <3> QED BY <3>1, <3>2, <3>3, Zenon
  <2> QED BY <1>1, <2>1 DEF Shortage
<1> QED BY <1>10, <1>11, <1>12, <1>13, <1>14

LEMMA EntryStep == EntryIInv /\ Entry!Next => EntryIInv'
BY EnforceDailyLossLimitKeeps, EnforceErrorPauseKeeps, ExecuteIntentKeeps, BatchDoneKeeps,
   NotEvaluatedKeeps, DatasetInsufficientKeeps, EvaluateEntryKeeps, NewCandleKeeps,
   VenueChangesKeeps, FillKeeps, CloseKeeps, RestartKeeps DEF Entry!Next

LEMMA EntryHolds ==
  EntryIInv => /\ Entry!OrdersFit /\ Entry!SizerAndNormalizerAgree /\ Entry!CooldownHolds
               /\ Entry!GuardsStop /\ Entry!ShortageReportedOnce
<1> SUFFICES ASSUME EntryIInv
             PROVE  /\ Entry!OrdersFit /\ Entry!SizerAndNormalizerAgree /\ Entry!CooldownHolds
                    /\ Entry!GuardsStop /\ Entry!ShortageReportedOnce
  OBVIOUS
<1>1. /\ \A n \in DOMAIN entries : entries[n] \in EntryRow /\ Fits(entries[n]) /\ Cooled(entries[n])
      /\ st \in Strategies
  BY RowsAre DEF EntryIInv, RowsHold, EntryShape
<1>2. Entry!OrdersFit
  BY <1>1, OrderFits DEF Entry!OrdersFit
<1>3. Entry!SizerAndNormalizerAgree
  BY <1>1, RefusedOnlyForASlip DEF Entry!SizerAndNormalizerAgree
<1>4. Entry!CooldownHolds
  BY <1>1 DEF Cooled, Entry!CooldownHolds
<1>5. Entry!GuardsStop
  <2> SUFFICES ASSUME pc \in {"intents", "evaluate"}, run = "RUNNING", ~denied
               PROVE  /\ st.lossLimit > 0 =>
                           Entry!Cardinality(FailedBefore \cap Entry!FailedToday) * st.perTrade < st.lossLimit
                      /\ st.pause => ~\E n \in 3..Len(entries) : /\ n = Len(entries)
                                                                /\ {n, n - 1, n - 2} \subseteq FailedBefore
    BY Zenon DEF Entry!GuardsStop, FailedBefore
  <2>1. ASSUME st.lossLimit > 0
        PROVE  Entry!Cardinality(FailedBefore \cap Entry!FailedToday) * st.perTrade < st.lossLimit
    <3>1. pc # "loss" /\ LossGuard
      BY DEF EntryIInv
    <3>2. Cardinality(FailedBefore \cap Entry!FailedToday) * st.perTrade < st.lossLimit
      BY <2>1, <3>1, Zenon DEF LossGuard
    <3> QED BY <3>2, Counts, Zenon
  <2>2. ASSUME st.pause, NEW n \in 3..Len(entries), n = Len(entries),
               {n, n - 1, n - 2} \subseteq FailedBefore
        PROVE  FALSE
    <3>1. ~Streak(FailedBefore, Len(entries))
      BY <2>2, Zenon DEF EntryIInv, PauseGuard
    <3>2. n >= 3
      BY <2>2
    <3> QED BY <2>2, <3>1, <3>2, Zenon DEF Streak
  <2> QED BY <2>1, <2>2
<1>6. Entry!ShortageReportedOnce
  BY DEF EntryIInv, Shortage, Entry!ShortageReportedOnce
<1> QED BY <1>2, <1>3, <1>4, <1>5, <1>6

-----------------------------------------------------------------------------
(* Funding: the window                                                       *)

\* What is stored, held or paid has settled, and the ingest runs at a
\* settlement.
FundingShape ==
  /\ Funding!TypeOK
  /\ published \subseteq Funding!Past /\ paid \subseteq Funding!Past
  /\ fetched \subseteq Funding!Past /\ snaps \subseteq Funding!Past
  /\ ingest \in {"retry", "fetched"} => now % Period = 0
\* A payment that was seen lies behind, and until the next settlement its rate
\* is not stored; an entry that was seen has the rate before it stored.
SeenOnce ==
  /\ \A s \in reported : /\ s \in Funding!Settlements /\ s < now
                         /\ now < s + Period => s \notin snaps
  /\ \A o \in opened : o - Period \in snaps

FundingIInv ==
  /\ FundingShape /\ SeenOnce
  /\ Funding!SignalsAreOfTheirSettlement /\ Funding!PaymentOrEntry

LEMMA Multiples ==
  \A s \in Nat, p \in Nat \ {0} : s % p = 0 =>
    /\ (s + p) % p = 0
    /\ \A t \in Nat : s < t /\ t < s + p => t % p # 0
<1> SUFFICES ASSUME NEW s \in Nat, NEW p \in Nat \ {0}, s % p = 0
             PROVE  /\ (s + p) % p = 0
                    /\ \A t \in Nat : s < t /\ t < s + p => t % p # 0
  OBVIOUS
<1> DEFINE q == s \div p
<1>1. q \in Nat /\ p * q = s
  BY DivisionIs, WholeSteps
<1> HIDE DEF q
<1>2. (s + p) % p = 0
  <2>1. q + 1 \in Nat /\ p * (q + 1) = s + p
    BY <1>1
  <2> QED BY <2>1, MultipleIs
<1>3. ASSUME NEW t \in Nat, s < t, t < s + p, t % p = 0
      PROVE  FALSE
  <2> DEFINE r == t \div p
  <2>1. r \in Nat /\ p * r = t
    BY <1>3, DivisionIs, WholeSteps
  <2> HIDE DEF r
  <2>2. CASE r <= q
    <3>1. p * r <= p * q
      BY <1>1, <2>1, <2>2, ProductGrows
    <3> QED BY <1>1, <1>3, <2>1, <3>1
  <2>3. CASE r >= q + 1
    <3>1. p * (q + 1) <= p * r /\ p * (q + 1) = p * q + p
      BY <1>1, <2>1, <2>3, ProductGrows
    <3> QED BY <1>1, <1>3, <2>1, <3>1
  <2> QED BY <1>1, <2>1, <2>2, <2>3
<1> QED BY <1>2, <1>3

LEMMA Largest ==
  ASSUME NEW S \in SUBSET Nat, NEW b \in Nat, S # {}, \A s \in S : s <= b
  PROVE  Funding!Max(S) \in S /\ \A s \in S : s <= Funding!Max(S)
<1> DEFINE T == {b - s : s \in S}
<1>1. T \in SUBSET Nat /\ T # {}
  <2>1. \A s \in S : b - s \in Nat
    OBVIOUS
  <2>2. PICK s \in S : TRUE
    OBVIOUS
  <2> QED BY <2>1, <2>2
<1>2. PICK t \in T : \A u \in T : t <= u
  BY <1>1, PublicProofs!Least
<1>3. PICK m \in S : t = b - m
  BY <1>2
<1>4. \A s \in S : b - s \in T /\ s \in Nat /\ m \in Nat
  BY <1>3
<1>5. \A s \in S : m >= s
  BY <1>2, <1>3, <1>4
<1> QED BY <1>3, <1>5 DEF Funding!Max

LEMMA NextIs ==
  ASSUME FundingConstants, FundingShape, snaps # {}
  PROVE  /\ Funding!NextFunding - Period \in snaps /\ Funding!NextFunding \in Nat
         /\ \A s \in snaps : s < Funding!NextFunding
         /\ Funding!NextFunding % Period = 0
<1>1. /\ snaps \in SUBSET Nat /\ Horizon \in Nat /\ \A s \in snaps : s <= Horizon /\ s % Period = 0
      /\ Period \in Nat \ {0}
  BY DEF FundingConstants, FundingShape, Funding!Past, Funding!Settlements
<1>2. Funding!Max(snaps) \in snaps /\ \A s \in snaps : s <= Funding!Max(snaps)
  BY <1>1, Largest
<1> DEFINE m == Funding!Max(snaps)
<1>3. m \in Nat /\ m % Period = 0 /\ m \in snaps /\ (\A s \in snaps : s <= m /\ s \in Nat)
      /\ Funding!NextFunding = m + Period
  BY <1>1, <1>2 DEF Funding!NextFunding
<1> HIDE DEF m
<1>4. (m + Period) % Period = 0
  BY <1>1, <1>3, Multiples
<1> QED BY <1>1, <1>3, <1>4

LEMMA FundingInit == Funding!Init => FundingIInv
<1> SUFFICES ASSUME Funding!Init PROVE FundingIInv
  OBVIOUS
<1>1. 0 \in Funding!Past /\ Funding!Past \subseteq Funding!Settlements
  BY FundingConstants DEF FundingConstants, Funding!Init, Funding!Past, Funding!Settlements
<1>2. FundingShape
  <2>1. 0 <= 1 /\ 1 <= Horizon /\ 1 \in 0..Horizon /\ 0 \in 0..MaxFaults
    BY FundingConstants, ServiceConstants DEF FundingConstants, ServiceConstants
  <2>2. Funding!TypeOK
    BY <1>1, <2>1 DEF Funding!Init, Funding!TypeOK, Funding!NoWindow
  <2>3. /\ published = {0} /\ paid = {0} /\ fetched = {} /\ snaps \in {{}, {0}}
        /\ ingest = "done"
    BY DEF Funding!Init
  <2> QED BY <1>1, <2>2, <2>3 DEF FundingShape
<1>3. SeenOnce /\ Funding!SignalsAreOfTheirSettlement /\ Funding!PaymentOrEntry
  BY DEF Funding!Init, SeenOnce, Funding!SignalsAreOfTheirSettlement, Funding!PaymentOrEntry,
     Funding!NoWindow
<1> QED BY <1>2, <1>3 DEF FundingIInv

LEMMA ShapeNext ==
  ASSUME now' \in 0..Horizon, faults' \in 0..MaxFaults, ingest' \in {"idle", "retry", "fetched", "done"},
         window'.source \in {"proxy", "ledger", "ledger-empty"},
         Funding!Past' \subseteq Funding!Settlements,
         published' \subseteq Funding!Past', paid' \subseteq Funding!Past',
         fetched' \subseteq Funding!Past', snaps' \subseteq Funding!Past',
         ingest' \in {"retry", "fetched"} => now' % Period = 0
  PROVE  FundingShape'
<1>1. /\ published' \subseteq Funding!Settlements /\ paid' \subseteq Funding!Settlements
      /\ fetched' \subseteq Funding!Settlements /\ snaps' \subseteq Funding!Settlements
  OBVIOUS
<1>2. Funding!TypeOK'
  BY <1>1, Zenon DEF Funding!TypeOK
<1> QED BY <1>2, Zenon DEF FundingShape

LEMMA PastGrows ==
  ASSUME FundingConstants, FundingShape, now' \in Nat, now <= now'
  PROVE  Funding!Past \subseteq Funding!Past' /\ Funding!Past' \subseteq Funding!Settlements
BY DEF FundingConstants, FundingShape, Funding!TypeOK, Funding!Past, Funding!Settlements

\* What the detector said stands while the detector sleeps.
LEMMA TicksStay ==
  ASSUME UNCHANGED Funding!ticks, paid \subseteq paid', Funding!SignalsAreOfTheirSettlement,
         Funding!PaymentOrEntry
  PROVE  Funding!SignalsAreOfTheirSettlement' /\ Funding!PaymentOrEntry'
BY DEF Funding!ticks, Funding!SignalsAreOfTheirSettlement, Funding!PaymentOrEntry

LEMMA AdvanceKeeps == FundingIInv /\ Funding!Advance => FundingIInv'
<1> SUFFICES ASSUME FundingIInv, Funding!Advance PROVE FundingIInv'
  OBVIOUS
<1>1. /\ now < Horizon /\ now' = now + 1 /\ ingest' = "idle" /\ fetched' = {}
      /\ UNCHANGED Funding!ticks /\ published' = published /\ paid' = paid
      /\ snaps' = snaps /\ faults' = faults
  BY DEF Funding!Advance, Funding!venue
<1>2. FundingShape /\ SeenOnce /\ now \in Nat /\ Horizon \in Nat /\ now' \in 0..Horizon
  BY <1>1, FundingConstants DEF FundingIInv, FundingShape, Funding!TypeOK, FundingConstants
<1>3. Funding!Past \subseteq Funding!Past' /\ Funding!Past' \subseteq Funding!Settlements
  BY <1>1, <1>2, PastGrows, FundingConstants
<1>4. FundingShape'
  <2>1. /\ published \subseteq Funding!Past /\ paid \subseteq Funding!Past
        /\ snaps \subseteq Funding!Past /\ window.source \in {"proxy", "ledger", "ledger-empty"}
        /\ faults \in 0..MaxFaults
    BY <1>2 DEF FundingShape, Funding!TypeOK
  <2>2. window' = window
    BY <1>1 DEF Funding!ticks
  <2>3. /\ published' \subseteq Funding!Past' /\ paid' \subseteq Funding!Past'
        /\ snaps' \subseteq Funding!Past' /\ fetched' \subseteq Funding!Past'
    BY <1>1, <1>3, <2>1, Zenon
  <2> QED BY <1>1, <1>2, <1>3, <2>1, <2>2, <2>3, ShapeNext
<1>5. SeenOnce'
  <2>1. \A s \in Funding!Settlements : s \in Nat
    BY DEF Funding!Settlements
  <2> QED BY <1>1, <1>2, <2>1, FundingConstants DEF SeenOnce, Funding!ticks, FundingConstants
<1> QED BY <1>1, <1>4, <1>5, TicksStay DEF FundingIInv

LEMMA VenueKeeps == FundingIInv /\ (Funding!Publish \/ Funding!Pay) => FundingIInv'
<1> SUFFICES ASSUME FundingIInv, Funding!Publish \/ Funding!Pay PROVE FundingIInv'
  OBVIOUS
<1>1. /\ UNCHANGED <<now, ingest, fetched, snaps, faults>> /\ UNCHANGED Funding!ticks
      /\ published' \in {published, Funding!Past} /\ paid' \in {paid, Funding!Past}
  BY DEF Funding!Publish, Funding!Pay
<1>2. /\ FundingShape /\ SeenOnce /\ paid \subseteq Funding!Past
      /\ Funding!Past \subseteq Funding!Settlements /\ Funding!Past' = Funding!Past
  BY <1>1 DEF FundingIInv, FundingShape, Funding!Past
<1>3. FundingShape'
  <2>1. window' = window
    BY <1>1 DEF Funding!ticks
  <2>2. /\ published \subseteq Funding!Past /\ fetched \subseteq Funding!Past
        /\ snaps \subseteq Funding!Past /\ window.source \in {"proxy", "ledger", "ledger-empty"}
        /\ faults \in 0..MaxFaults /\ now \in 0..Horizon
        /\ ingest \in {"idle", "retry", "fetched", "done"}
        /\ ingest \in {"retry", "fetched"} => now % Period = 0
    BY <1>2 DEF FundingShape, Funding!TypeOK
  <2>3. published' \subseteq Funding!Past /\ paid' \subseteq Funding!Past
    BY <1>1, <1>2, <2>2
  <2> QED BY <1>1, <1>2, <2>1, <2>2, <2>3, ShapeNext
<1>4. SeenOnce'
  BY <1>1, <1>2 DEF SeenOnce, Funding!ticks
<1>5. paid \subseteq paid'
  BY <1>1, <1>2
<1> QED BY <1>1, <1>3, <1>4, <1>5, TicksStay DEF FundingIInv

LEMMA FetchKeeps == FundingIInv /\ Funding!Fetch => FundingIInv'
<1> SUFFICES ASSUME FundingIInv, Funding!Fetch PROVE FundingIInv'
  OBVIOUS
<1>1. /\ now % Period = 0 /\ now' = now /\ published' = published /\ paid' = paid /\ snaps' = snaps
      /\ UNCHANGED Funding!ticks /\ fetched' \in {fetched, published}
      /\ ingest' \in {"fetched", "retry", "done"}
      /\ faults' = faults \/ (faults < MaxFaults /\ faults' = faults + 1)
  BY DEF Funding!Fetch, Funding!venue
<1>2. FundingShape /\ SeenOnce /\ Funding!Past' = Funding!Past
  BY <1>1 DEF FundingIInv, Funding!Past
<1>3. FundingShape'
  <2>1. faults' \in 0..MaxFaults
    BY <1>1, <1>2, ServiceConstants DEF FundingShape, Funding!TypeOK, ServiceConstants
  <2>2. window' = window
    BY <1>1 DEF Funding!ticks
  <2>3. /\ published \subseteq Funding!Past /\ fetched \subseteq Funding!Past
        /\ snaps \subseteq Funding!Past /\ window.source \in {"proxy", "ledger", "ledger-empty"}
        /\ paid \subseteq Funding!Past /\ Funding!Past \subseteq Funding!Settlements
        /\ now \in 0..Horizon
    BY <1>2 DEF FundingShape, Funding!TypeOK, Funding!Past
  <2> QED BY <1>1, <1>2, <2>1, <2>2, <2>3, ShapeNext
<1>5. SeenOnce'
  BY <1>1, <1>2 DEF SeenOnce, Funding!ticks
<1> QED BY <1>1, <1>3, <1>5, TicksStay DEF FundingIInv

LEMMA InsertKeeps == FundingIInv /\ Funding!Insert => FundingIInv'
<1> SUFFICES ASSUME FundingIInv, Funding!Insert PROVE FundingIInv'
  OBVIOUS
<1>1. /\ ingest = "fetched" /\ ingest' = "done" /\ snaps' = snaps \cup fetched
      /\ UNCHANGED <<now, published, paid, fetched, faults>> /\ UNCHANGED Funding!ticks
  BY DEF Funding!Insert, Funding!venue
<1>2. FundingShape /\ SeenOnce /\ Funding!Past' = Funding!Past
  BY <1>1 DEF FundingIInv, Funding!Past
<1>3. FundingShape'
  <2>1. window' = window
    BY <1>1 DEF Funding!ticks
  <2>2. /\ published \subseteq Funding!Past /\ fetched \subseteq Funding!Past
        /\ snaps \subseteq Funding!Past /\ window.source \in {"proxy", "ledger", "ledger-empty"}
        /\ paid \subseteq Funding!Past /\ Funding!Past \subseteq Funding!Settlements
        /\ faults \in 0..MaxFaults /\ now \in 0..Horizon
    BY <1>2 DEF FundingShape, Funding!TypeOK, Funding!Past
  <2> QED BY <1>1, <1>2, <2>1, <2>2, ShapeNext
<1>4. SeenOnce'
  <2>1. now % Period = 0 /\ now \in Nat /\ Period \in Nat \ {0}
    BY <1>1, <1>2, FundingConstants DEF FundingShape, Funding!TypeOK, FundingConstants
  <2>2. ASSUME NEW s \in reported PROVE ~(now < s + Period)
    <3>1. s \in Nat /\ s % Period = 0 /\ s < now
      BY <1>2, <2>2 DEF SeenOnce, Funding!Settlements
    <3> QED BY <2>1, <3>1, Multiples
  <2> QED BY <1>1, <1>2, <2>2 DEF SeenOnce, Funding!ticks
<1> QED BY <1>1, <1>3, <1>4, TicksStay DEF FundingIInv

LEMMA DetectKeeps == FundingIInv /\ Funding!Detect => FundingIInv'
<1> SUFFICES ASSUME FundingIInv, Funding!Detect PROVE FundingIInv'
  OBVIOUS
<1> DEFINE n == Funding!NextFunding
<1>1. /\ UNCHANGED <<now, published, paid, ingest, fetched, snaps>>
      /\ reported' = IF window'.payment THEN reported \cup {window'.next} ELSE reported
      /\ opened' = IF window'.open THEN opened \cup {window'.next} ELSE opened
      /\ faults' = faults \/ (faults < MaxFaults /\ faults' = faults + 1)
  BY DEF Funding!Detect, Funding!venue
<1>2. /\ FundingShape /\ SeenOnce /\ Funding!Past' = Funding!Past /\ now \in Nat /\ now <= Horizon
      /\ Period \in Nat \ {0} /\ PreBuffer \in Nat /\ Horizon \in Nat
  BY <1>1, FundingConstants DEF FundingIInv, FundingShape, Funding!TypeOK, Funding!Past, FundingConstants
<1>3. /\ window'.at = now /\ window'.source \in {"proxy", "ledger", "ledger-empty"}
      /\ \/ ~window'.payment /\ ~window'.open
         \/ /\ snaps # {} /\ window'.next = n
            /\ window'.payment => n < now
            /\ window'.payment /\ window'.source = "ledger" => \E s \in paid : s >= n
            /\ window'.open => n - now > 0 /\ n - now <= PreBuffer
  <2>1. CASE snaps = {}
    BY <2>1 DEF Funding!Detect, Funding!NoWindow
  <2>2. CASE snaps # {}
    <3>1. n \in Nat
      BY <1>2, <2>2, NextIs, FundingConstants
    <3> HIDE DEF n
    <3>2. \/ window' = [at |-> now, open |-> Funding!Open(n), payment |-> FALSE,
                        next |-> n, source |-> "proxy"]
          \/ /\ now - n > 0
             /\ window' = [at |-> now, open |-> Funding!Open(n), payment |-> TRUE,
                           next |-> n, source |-> "ledger"]
             /\ \E s \in paid : s >= n
          \/ window' = [at |-> now, open |-> Funding!Open(n), payment |-> FALSE,
                        next |-> n, source |-> "ledger-empty"]
          \/ /\ now - n > 0
             /\ window' = [at |-> now, open |-> Funding!Open(n), payment |-> Funding!ProxyPaid(n),
                           next |-> n, source |-> "proxy"]
      BY <2>2 DEF Funding!Detect, Funding!WindowAt, Funding!LedgerPaid, n
    <3>3. Funding!Open(n) => n - now > 0 /\ n - now <= PreBuffer
      BY DEF Funding!Open
    <3>4. now - n > 0 => n < now
      BY <1>2, <3>1
    <3>5. /\ window'.at = now /\ window'.next = n /\ (window'.open <=> Funding!Open(n))
          /\ window'.source \in {"proxy", "ledger", "ledger-empty"}
          /\ window'.payment => now - n > 0
          /\ window'.payment /\ window'.source = "ledger" => \E s \in paid : s >= n
      <4> DEFINE open == Funding!Open(n)
                 due == Funding!ProxyPaid(n)
      <4>1. \A w, src, paying :
              w = [at |-> now, open |-> open, payment |-> paying, next |-> n, source |-> src] =>
                w.at = now /\ w.next = n /\ w.open = open /\ w.source = src /\ w.payment = paying
        OBVIOUS
      <4> HIDE DEF open, due
      <4>2. /\ window'.at = now /\ window'.next = n /\ window'.open = open
            /\ \/ window'.payment = FALSE /\ window'.source = "proxy"
               \/ /\ now - n > 0 /\ window'.payment = TRUE /\ window'.source = "ledger"
                  /\ \E s \in paid : s >= n
               \/ window'.payment = FALSE /\ window'.source = "ledger-empty"
               \/ now - n > 0 /\ window'.payment = due /\ window'.source = "proxy"
        BY <3>2, <4>1, Zenon DEF open, due
      <4>3. "proxy" # "ledger"
        OBVIOUS
      <4> QED BY <4>2, <4>3, Zenon DEF open
    <3> QED BY <2>2, <3>3, <3>4, <3>5, Zenon
  <2> QED BY <2>1, <2>2
<1>4. FundingShape'
  <2>1. faults' \in 0..MaxFaults
    BY <1>1, <1>2, ServiceConstants DEF FundingShape, Funding!TypeOK, ServiceConstants
  <2>2. /\ published \subseteq Funding!Past /\ fetched \subseteq Funding!Past
        /\ snaps \subseteq Funding!Past /\ paid \subseteq Funding!Past
        /\ Funding!Past \subseteq Funding!Settlements
        /\ now \in 0..Horizon /\ ingest \in {"idle", "retry", "fetched", "done"}
        /\ ingest \in {"retry", "fetched"} => now % Period = 0
    BY <1>2 DEF FundingShape, Funding!TypeOK, Funding!Past
  <2> QED BY <1>1, <1>2, <1>3, <2>1, <2>2, ShapeNext
<1>5. CASE ~window'.payment /\ ~window'.open
  <2>1. reported' = reported /\ opened' = opened
    BY <1>1, <1>5
  <2>2. SeenOnce' /\ Funding!PaymentOrEntry'
    BY <1>1, <2>1 DEF FundingIInv, SeenOnce, Funding!PaymentOrEntry
  <2>3. Funding!SignalsAreOfTheirSettlement'
    BY <1>5 DEF Funding!SignalsAreOfTheirSettlement
  <2> QED BY <1>4, <2>2, <2>3 DEF FundingIInv
<1>6. CASE window'.payment \/ window'.open
  <2>1. /\ snaps # {} /\ window'.next = n
        /\ window'.payment => n < now
        /\ window'.payment /\ window'.source = "ledger" => \E s \in paid : s >= n
        /\ window'.open => n - now > 0 /\ n - now <= PreBuffer
    BY <1>3, <1>6
  <2>2. /\ n - Period \in snaps /\ n \in Nat /\ n % Period = 0
        /\ \A s \in snaps : s < n
    BY <1>2, <2>1, NextIs, FundingConstants
  <2> HIDE DEF n
  <2>3. Funding!SignalsAreOfTheirSettlement'
    BY <1>1, <1>2, <1>3, <2>1, <2>2 DEF Funding!SignalsAreOfTheirSettlement
  <2>4. \A s \in reported' : \/ s \in reported
                             \/ s = n /\ n < now
    BY <1>1, <2>1
  <2>5. \A o \in opened' : \/ o \in opened
                           \/ o = n /\ now < n
    BY <1>1, <1>2, <2>1, <2>2
  <2>6. SeenOnce'
    <3>1. ASSUME NEW s \in reported'
          PROVE s \in Funding!Settlements /\ s < now /\ (now < s + Period => s \notin snaps)
      <4>1. CASE s \in reported
        BY <1>2, <4>1 DEF SeenOnce
      <4>2. CASE s = n /\ n < now
        BY <1>2, <2>2, <4>2 DEF Funding!Settlements
      <4> QED BY <2>4, <4>1, <4>2
    <3>2. ASSUME NEW o \in opened' PROVE o - Period \in snaps
      BY <1>2, <2>2, <2>5 DEF SeenOnce
    <3> QED BY <1>1, <3>1, <3>2 DEF SeenOnce
  <2>7. Funding!PaymentOrEntry'
    <3> SUFFICES ASSUME NEW s \in reported', s + Period \in opened' PROVE FALSE
      BY DEF Funding!PaymentOrEntry
    <3>1. s \in Nat
      BY <1>1, <2>6 DEF SeenOnce, Funding!Settlements
    <3>2. CASE s \in reported /\ s + Period \in opened
      BY <3>2 DEF FundingIInv, Funding!PaymentOrEntry
    <3>3. CASE s = n /\ s + Period \in opened
      <4>1. (s + Period) - Period \in snaps
        BY <1>2, <3>3 DEF SeenOnce
      <4>2. s \in snaps
        BY <1>2, <3>1, <4>1
      <4> QED BY <2>2, <3>1, <3>3, <4>2
    <3>4. CASE s \in reported /\ s + Period = n /\ now < n
      <4>1. s \in snaps
        BY <1>2, <2>2, <3>1, <3>4
      <4> QED BY <1>2, <3>4, <4>1 DEF SeenOnce
    <3>5. CASE s = n /\ s + Period = n
      BY <1>2, <3>1, <3>5
    <3> QED BY <2>4, <2>5, <3>2, <3>3, <3>4, <3>5
  <2> QED BY <1>4, <2>3, <2>6, <2>7 DEF FundingIInv
<1> QED BY <1>5, <1>6

LEMMA FundingStep == FundingIInv /\ Funding!Next => FundingIInv'
BY AdvanceKeeps, VenueKeeps, FetchKeeps, InsertKeeps, DetectKeeps DEF Funding!Next

-----------------------------------------------------------------------------
(* Funding: the scanner, the planner and the balances                        *)

Legs == {Scan!NoLeg} \cup [price : Nat, quantity : {2}, fee : {1}]
HedgeRecords ==
  [status : {"PLANNED", "OPENING", "OPEN", "CLOSED"}, spotLeg : Legs, perpLeg : Legs,
   spotCloseLeg : Legs, perpCloseLeg : Legs, funding : Nat]
ScanIInv ==
  /\ data \in [Symbols -> [rates : Scan!RateSeqs, basis : Bases \cup {0}]]
  /\ holding.perp \in Int /\ holding.spot \in Nat
  /\ hedge \in HedgeRecords
  /\ hedge.status \in {"OPEN", "CLOSED"} => hedge.spotLeg # Scan!NoLeg /\ hedge.perpLeg # Scan!NoLeg
  /\ hedge.status = "CLOSED" =>
       hedge.spotCloseLeg # Scan!NoLeg /\ hedge.perpCloseLeg # Scan!NoLeg

\* Any finite set can be listed with the greater values first.
LEMMA Sortable ==
  ASSUME NEW S, IsFiniteSet(S), NEW v \in [S -> Nat]
  PROVE  \E f \in [1..Cardinality(S) -> S] :
           /\ \A i, j \in 1..Cardinality(S) : i # j => f[i] # f[j]
           /\ \A i, j \in 1..Cardinality(S) : i < j => v[f[i]] >= v[f[j]]
<1> DEFINE Listed(T) == \E f \in [1..Cardinality(T) -> T] :
                          /\ \A i, j \in 1..Cardinality(T) : i # j => f[i] # f[j]
                          /\ \A i, j \in 1..Cardinality(T) : i < j => v[f[i]] >= v[f[j]]
           Sizes == {n \in Nat : \E T \in SUBSET S : Cardinality(T) = n /\ ~Listed(T)}
<1>1. ASSUME Sizes # {} PROVE FALSE
  <2>1. PICK n \in Sizes : \A m \in Sizes : n <= m
    <3>1. Sizes \in SUBSET Nat
      OBVIOUS
    <3> HIDE DEF Sizes
    <3> QED BY <1>1, <3>1, PublicProofs!Least
  <2>2. PICK T \in SUBSET S : Cardinality(T) = n /\ ~Listed(T)
    BY <2>1
  <2>3. IsFiniteSet(T) /\ n \in Nat
    BY <2>1, FS_Subset
  <2>4. CASE T = {}
    <3>1. n = 0 /\ 1..n = {}
      BY <2>2, <2>3, <2>4, FS_EmptySet
    <3>2. [i \in {} |-> i] \in [1..n -> T] /\ \A i \in 1..n : FALSE
      BY <3>1
    <3> QED BY <2>2, <3>2
  <2>5. CASE T # {}
    <3>1. PICK x \in T : \A c \in T : v[x] <= v[c]
      <4>1. {v[c] : c \in T} \in SUBSET Nat /\ {v[c] : c \in T} # {}
        BY <2>5
      <4>2. PICK m \in {v[c] : c \in T} : \A k \in {v[c] : c \in T} : m <= k
        BY <4>1, PublicProofs!Least
      <4> QED BY <4>2
    <3> DEFINE R == T \ {x}
    <3>2. n # 0 /\ Cardinality(R) = n - 1 /\ R \in SUBSET S
      BY <2>2, <2>3, <2>5, <3>1, FS_RemoveElement, FS_EmptySet
    <3>3. Listed(R)
      <4>1. n - 1 \in Nat /\ ~(n <= n - 1)
        BY <2>3, <3>2
      <4>2. n - 1 \notin Sizes
        BY <2>1, <4>1
      <4> QED BY <3>2, <4>1, <4>2
    <3>4. PICK g \in [1..n-1 -> R] :
            /\ \A i, j \in 1..n-1 : i # j => g[i] # g[j]
            /\ \A i, j \in 1..n-1 : i < j => v[g[i]] >= v[g[j]]
      BY <3>2, <3>3
    <3> DEFINE f == [i \in 1..n |-> IF i < n THEN g[i] ELSE x]
    <3>5. /\ \A i \in 1..n : i < n => i \in 1..n-1
          /\ \A i \in 1..n : ~(i < n) => i = n
      BY <2>3
    <3>6. f \in [1..n -> T]
      BY <3>1, <3>4, <3>5
    <3>7. \A i \in 1..n : /\ i < n => f[i] = g[i] /\ g[i] \in R
                          /\ ~(i < n) => f[i] = x
      BY <3>4, <3>5
    <3> HIDE DEF f, Listed
    <3>8. \A i, j \in 1..n : i # j => f[i] # f[j]
      BY <3>4, <3>5, <3>7
    <3>9. ASSUME NEW i \in 1..n, NEW j \in 1..n, i < j PROVE v[f[i]] >= v[f[j]]
      <4>1. i < n /\ f[i] = g[i] /\ g[i] \in T /\ i \in 1..n-1
        BY <2>3, <3>5, <3>7, <3>9
      <4>2. CASE j < n
        <5>1. f[j] = g[j] /\ j \in 1..n-1
          BY <3>5, <3>7, <4>2
        <5> QED BY <3>4, <3>9, <4>1, <5>1
      <4>3. CASE ~(j < n)
        <5>1. f[j] = x /\ v[x] \in Nat /\ v[g[i]] \in Nat
          BY <3>1, <3>7, <4>1, <4>3
        <5> QED BY <3>1, <4>1, <5>1
      <4> QED BY <4>2, <4>3
    <3> QED BY <2>2, <3>6, <3>8, <3>9 DEF Listed
  <2> QED BY <2>4, <2>5
<1>2. Cardinality(S) \in Nat /\ S \in SUBSET S
  BY FS_CardinalityType
<1>3. Listed(S)
  BY <1>1, <1>2
<1> QED BY <1>3

LEMMA Minimum ==
  \A a, b \in Nat : /\ Scan!Min({a, b}) \in {a, b} /\ Scan!Min({a, b}) <= a /\ Scan!Min({a, b}) <= b
<1> SUFFICES ASSUME NEW a \in Nat, NEW b \in Nat
             PROVE  Scan!Min({a, b}) \in {a, b} /\ Scan!Min({a, b}) <= a /\ Scan!Min({a, b}) <= b
  OBVIOUS
<1>1. \E x \in {a, b} : \A y \in {a, b} : x <= y
  OBVIOUS
<1> QED BY <1>1 DEF Scan!Min

LEMMA Maximum ==
  \A a, b \in Nat : Scan!Max({a, b}) \in {a, b} /\ Scan!Max({a, b}) >= a /\ Scan!Max({a, b}) >= b
<1> SUFFICES ASSUME NEW a \in Nat, NEW b \in Nat
             PROVE  Scan!Max({a, b}) \in {a, b} /\ Scan!Max({a, b}) >= a /\ Scan!Max({a, b}) >= b
  OBVIOUS
<1>1. \E x \in {a, b} : \A y \in {a, b} : x >= y
  OBVIOUS
<1> QED BY <1>1 DEF Scan!Max

LEMMA SameSize == \A S : Scan!Cardinality(S) = Cardinality(S)
BY DEF Scan!Cardinality, Cardinality

\* What is left of a ranking of candidates with integer yields.
LEMMA RankIs ==
  ASSUME FundingConstants, NEW S, IsFiniteSet(S), \A c \in S : c.yield \in Int
  PROVE  \E m \in Nat, f \in [1..Cardinality(S) -> S] :
           /\ m \in {TopN, Cardinality(S)} /\ m <= TopN /\ m <= Cardinality(S)
           /\ \A i, j \in 1..Cardinality(S) : i # j => f[i] # f[j]
           /\ \A i, j \in 1..Cardinality(S) :
                i < j => Scan!AbsInt(f[i].yield) >= Scan!AbsInt(f[j].yield)
           /\ Scan!Rank(S) = [i \in 1..m |-> f[i]]
<1> DEFINE n == Cardinality(S)
           v == [c \in S |-> Scan!AbsInt(c.yield)]
<1>1. n \in Nat /\ TopN \in Nat
  BY FS_CardinalityType DEF FundingConstants
<1>2. v \in [S -> Nat] /\ \A c \in S : v[c] = Scan!AbsInt(c.yield)
  BY DEF Scan!AbsInt
<1>3. PICK g \in [1..n -> S] : /\ \A i, j \in 1..n : i # j => g[i] # g[j]
                               /\ \A i, j \in 1..n : i < j => v[g[i]] >= v[g[j]]
  BY <1>2, Sortable
<1>4. g \in Scan!SetToSeqs(S)
  BY <1>3, SameSize DEF Scan!SetToSeqs
<1>5. Scan!Ordered(g)
  BY <1>2, <1>3 DEF Scan!Ordered
<1> DEFINE f == CHOOSE s \in Scan!SetToSeqs(S) : Scan!Ordered(s)
<1>6. f \in Scan!SetToSeqs(S) /\ Scan!Ordered(f)
  BY <1>4, <1>5
<1> DEFINE m == Scan!Min({TopN, n})
<1>7. Scan!Rank(S) = SubSeq(f, 1, m)
  BY SameSize DEF Scan!Rank
<1>8. m \in {TopN, n} /\ m <= TopN /\ m <= n /\ m \in Nat
  BY <1>1, Minimum
<1> HIDE DEF f, m, n
<1>9. /\ f \in [1..n -> S] /\ \A i, j \in 1..n : i # j => f[i] # f[j]
      /\ \A i, j \in 1..n : i < j => Scan!AbsInt(f[i].yield) >= Scan!AbsInt(f[j].yield)
  BY <1>6, SameSize DEF Scan!SetToSeqs, Scan!Ordered, n
<1>10. SubSeq(f, 1, m) = [i \in 1..m |-> f[i]]
  BY <1>1, <1>8, <1>9
<1> QED BY <1>7, <1>8, <1>9, <1>10 DEF n

LEMMA ScanInit == Scan!Init => ScanIInv
<1> SUFFICES ASSUME Scan!Init PROVE ScanIInv
  OBVIOUS
<1>1. data \in [Symbols -> [rates : Scan!RateSeqs, basis : Bases \cup {0}]]
  <2>1. 0 \in 0..MaxSnaps
    BY FundingConstants DEF FundingConstants
  <2>2. <<>> \in [1..0 -> Rates]
    OBVIOUS
  <2>3. <<>> \in Scan!RateSeqs
    BY <2>1, <2>2 DEF Scan!RateSeqs
  <2> HIDE DEF Scan!RateSeqs
  <2> QED BY <2>3 DEF Scan!Init, Scan!Quiet
<1>2. hedge \in HedgeRecords /\ hedge.status = "PLANNED"
  BY DEF Scan!Init, Scan!PlanHedge, HedgeRecords, Legs
<1>3. holding.perp = 0 /\ holding.spot = 0
  BY DEF Scan!Init, Scan!Flat
<1> QED BY <1>1, <1>2, <1>3 DEF ScanIInv

LEMMA FilledLeg ==
  \A p \in Marks : Scan!Leg(p, 2) \in Legs /\ Scan!Leg(p, 2) # Scan!NoLeg
BY FundingConstants DEF FundingConstants, Scan!Leg, Scan!NoLeg, Legs

LEMMA HedgeMoves ==
  ASSUME NEW h \in HedgeRecords, NEW fill \in Legs, NEW other \in Legs
  PROVE  /\ Scan!ApplySpotFill(h, fill) \in HedgeRecords
         /\ Scan!ApplyPerpFill(h, fill) \in HedgeRecords
         /\ Scan!FinalizeClose(h, fill, other) \in HedgeRecords
         /\ h.status # "CLOSED" => [h EXCEPT !.funding = h.funding + 1] \in HedgeRecords
<1> DEFINE s == IF h.perpLeg # Scan!NoLeg THEN "OPEN" ELSE "OPENING"
           t == IF h.spotLeg # Scan!NoLeg THEN "OPEN" ELSE "OPENING"
<1>1. s \in {"OPEN", "OPENING"} /\ t \in {"OPEN", "OPENING"}
  OBVIOUS
<1> HIDE DEF s, t
<1>2. [h EXCEPT !.spotLeg = fill, !.status = s] \in HedgeRecords
  BY <1>1 DEF HedgeRecords
<1>3. [h EXCEPT !.perpLeg = fill, !.status = t] \in HedgeRecords
  BY <1>1 DEF HedgeRecords
<1>4. Scan!FinalizeClose(h, fill, other) \in HedgeRecords
  BY DEF HedgeRecords, Scan!FinalizeClose
<1>5. [h EXCEPT !.funding = h.funding + 1] \in HedgeRecords
  BY DEF HedgeRecords
<1> QED BY <1>2, <1>3, <1>4, <1>5 DEF Scan!ApplySpotFill, Scan!ApplyPerpFill, s, t

LEMMA ScanStep == ScanIInv /\ Scan!Next => ScanIInv'
<1> SUFFICES ASSUME ScanIInv, Scan!Next PROVE ScanIInv'
  OBVIOUS
<1>1. CASE Scan!Observe
  <2>1. data' \in [Symbols -> [rates : Scan!RateSeqs, basis : Bases]]
    BY <1>1 DEF Scan!Observe
  <2>2. data' \in [Symbols -> [rates : Scan!RateSeqs, basis : Bases \cup {0}]]
    BY <2>1
  <2> QED BY <1>1, <2>2 DEF Scan!Observe, ScanIInv
<1>2. CASE Scan!Reconcile
  <2>1. holding'.perp \in Int /\ holding'.spot \in Nat
    BY <1>2 DEF Scan!Reconcile
  <2> QED BY <1>2, <2>1 DEF Scan!Reconcile, ScanIInv
<1>3. CASE Scan!Hedging
  <2>1. data' = data /\ holding' = holding /\ hedge \in HedgeRecords
    BY <1>3 DEF Scan!Hedging, ScanIInv
  <2>2. CASE Scan!SpotFills
    <3>1. PICK p \in Marks : hedge' = Scan!ApplySpotFill(hedge, Scan!Leg(p, 2))
      BY <2>2 DEF Scan!SpotFills
    <3> DEFINE fill == Scan!Leg(p, 2)
    <3>2. fill \in Legs /\ fill # Scan!NoLeg
      BY FilledLeg
    <3> HIDE DEF fill
    <3>3. hedge' = Scan!ApplySpotFill(hedge, fill)
      BY <3>1 DEF fill
    <3>4. hedge' \in HedgeRecords
      BY <2>1, <3>2, <3>3, HedgeMoves
    <3>5. /\ hedge'.spotLeg = fill /\ hedge'.perpLeg = hedge.perpLeg
          /\ hedge'.status = IF hedge.perpLeg # Scan!NoLeg THEN "OPEN" ELSE "OPENING"
      BY <2>1, <3>3 DEF HedgeRecords, Scan!ApplySpotFill
    <3>6. hedge'.status # "CLOSED" /\ (hedge'.status = "OPEN" => hedge.perpLeg # Scan!NoLeg)
      BY <3>5
    <3> QED BY <2>1, <3>2, <3>4, <3>5, <3>6 DEF ScanIInv
  <2>3. CASE Scan!PerpFills
    <3>1. PICK p \in Marks : hedge' = Scan!ApplyPerpFill(hedge, Scan!Leg(p, 2))
      BY <2>3 DEF Scan!PerpFills
    <3> DEFINE fill == Scan!Leg(p, 2)
    <3>2. fill \in Legs /\ fill # Scan!NoLeg
      BY FilledLeg
    <3> HIDE DEF fill
    <3>3. hedge' = Scan!ApplyPerpFill(hedge, fill)
      BY <3>1 DEF fill
    <3>4. hedge' \in HedgeRecords
      BY <2>1, <3>2, <3>3, HedgeMoves
    <3>5. /\ hedge'.perpLeg = fill /\ hedge'.spotLeg = hedge.spotLeg
          /\ hedge'.status = IF hedge.spotLeg # Scan!NoLeg THEN "OPEN" ELSE "OPENING"
      BY <2>1, <3>3 DEF HedgeRecords, Scan!ApplyPerpFill
    <3>6. hedge'.status # "CLOSED" /\ (hedge'.status = "OPEN" => hedge.spotLeg # Scan!NoLeg)
      BY <3>5
    <3> QED BY <2>1, <3>2, <3>4, <3>5, <3>6 DEF ScanIInv
  <2>4. CASE Scan!Pays
    <3>1. hedge.status = "OPEN" /\ hedge' = [hedge EXCEPT !.funding = hedge.funding + 1]
      BY <2>4 DEF Scan!Pays
    <3>2. /\ hedge'.status = "OPEN" /\ hedge'.spotLeg = hedge.spotLeg
          /\ hedge'.perpLeg = hedge.perpLeg
      BY <2>1, <3>1 DEF HedgeRecords
    <3>3. hedge' \in HedgeRecords
      BY <2>1, <3>1, HedgeMoves DEF Legs
    <3> QED BY <2>1, <3>1, <3>2, <3>3 DEF ScanIInv
  <2>5. CASE Scan!Closes
    <3>1. PICK p \in Marks, q \in Marks :
            hedge' = Scan!FinalizeClose(hedge, Scan!Leg(p, 2), Scan!Leg(q, 2))
      BY <2>5 DEF Scan!Closes
    <3> DEFINE spot == Scan!Leg(p, 2)
               perp == Scan!Leg(q, 2)
    <3>2. spot \in Legs /\ perp \in Legs /\ spot # Scan!NoLeg /\ perp # Scan!NoLeg
      BY FilledLeg
    <3> HIDE DEF spot, perp
    <3>3. hedge' = Scan!FinalizeClose(hedge, spot, perp) /\ hedge.status = "OPEN"
      BY <2>5, <3>1 DEF spot, perp, Scan!Closes
    <3>4. hedge' \in HedgeRecords
      BY <2>1, <3>2, <3>3, HedgeMoves
    <3>5. /\ hedge'.spotLeg = hedge.spotLeg /\ hedge'.perpLeg = hedge.perpLeg
          /\ hedge'.spotCloseLeg = spot /\ hedge'.perpCloseLeg = perp
      BY <2>1, <3>3 DEF HedgeRecords, Scan!FinalizeClose
    <3> QED BY <2>1, <3>2, <3>3, <3>4, <3>5 DEF ScanIInv
  <2> QED BY <1>3, <2>2, <2>3, <2>4, <2>5 DEF Scan!Hedging
<1> QED BY <1>1, <1>2, <1>3 DEF Scan!Next

LEMMA PnlHolds == ScanIInv => Scan!PnlIsBasis
<1> SUFFICES ASSUME ScanIInv, hedge.status = "CLOSED" PROVE Scan!PnlIsBasis
  BY DEF Scan!PnlIsBasis
<1> DEFINE s == hedge.spotLeg
           p == hedge.perpLeg
           t == hedge.spotCloseLeg
           q == hedge.perpCloseLeg
<1>1. \A l \in {s, p, t, q} : l \in [price : Nat, quantity : {2}, fee : {1}]
  BY DEF ScanIInv, HedgeRecords, Legs
<1>2. /\ s.price \in Nat /\ p.price \in Nat /\ t.price \in Nat /\ q.price \in Nat
      /\ s.quantity = 2 /\ p.quantity = 2
      /\ s.fee = 1 /\ p.fee = 1 /\ t.fee = 1 /\ q.fee = 1
      /\ hedge.funding \in Nat
  BY <1>1 DEF ScanIInv, HedgeRecords
<1> HIDE DEF s, p, t, q
<1>3. Scan!ComputeHedgePnl(hedge) =
        hedge.funding + (t.price - s.price) * s.quantity + (p.price - q.price) * p.quantity
        - (s.fee + p.fee + t.fee + q.fee)
  BY DEF Scan!ComputeHedgePnl, Scan!FeesOf, s, p, t, q
<1>4. Scan!ComputeHedgePnl(hedge) =
        hedge.funding - 4 + 2 * ((p.price - s.price) - (q.price - t.price))
  <2>1. \A f, a, b, c, d \in Nat :
          f + (c - a) * 2 + (b - d) * 2 - (1 + 1 + 1 + 1) = f - 4 + 2 * ((b - a) - (d - c))
    OBVIOUS
  <2>2. Scan!ComputeHedgePnl(hedge) =
          hedge.funding + (t.price - s.price) * 2 + (p.price - q.price) * 2 - (1 + 1 + 1 + 1)
    BY <1>2, <1>3, Zenon
  <2> DEFINE a == s.price
             b == p.price
             c == t.price
             d == q.price
             e == hedge.funding
  <2>3. a \in Nat /\ b \in Nat /\ c \in Nat /\ d \in Nat /\ e \in Nat
    BY <1>2
  <2> HIDE DEF a, b, c, d, e
  <2>4. e + (c - a) * 2 + (b - d) * 2 - (1 + 1 + 1 + 1) = e - 4 + 2 * ((b - a) - (d - c))
    BY <2>1, <2>3
  <2> QED BY <2>2, <2>4, Zenon DEF a, b, c, d, e
<1> QED BY <1>4, Zenon DEF Scan!PnlIsBasis, s, p, t, q

LEMMA BalanceHolds == ScanIInv => Scan!BalancedIsHedged
<1> SUFFICES ASSUME ScanIInv, Scan!Classify(holding) = "balanced" PROVE Scan!BalancedIsHedged
  BY DEF Scan!BalancedIsHedged
<1> DEFINE a == Scan!AbsInt(holding.perp)
           s == holding.spot
<1>1. holding.perp \in Int /\ s \in Nat /\ a \in Nat /\ (holding.perp # 0 => a > 0)
  BY DEF ScanIInv, Scan!AbsInt
<1>2. /\ holding.perp # 0 /\ s > 0
      /\ 1000 * Scan!AbsInt(a - s) <= 5 * Scan!Max({a, s})
  BY <1>1 DEF Scan!Classify
<1>3. Scan!Max({a, s}) \in Nat /\ Scan!AbsInt(a - s) \in Nat
  BY <1>1, Maximum DEF Scan!AbsInt
<1> HIDE DEF a, s
<1>4. 200 * Scan!AbsInt(a - s) <= Scan!Max({a, s})
  BY <1>2, <1>3
<1> QED BY <1>1, <1>2, <1>4 DEF Scan!BalancedIsHedged, a, s

LEMMA CandidatesAre ==
  ASSUME FundingConstants, ScanIInv
  PROVE  /\ Scan!Candidates(data) = {Scan!Candidate(sym, data[sym]) : sym \in Symbols}
         /\ IsFiniteSet(Scan!Candidates(data))
         /\ \A c \in Scan!Candidates(data) : c.yield \in Int /\ c.basis \in Int
<1>1. DOMAIN data = Symbols
  BY DEF ScanIInv
<1>2. Scan!Candidates(data) = {Scan!Candidate(sym, data[sym]) : sym \in Symbols}
  BY <1>1 DEF Scan!Candidates
<1>3. IsFiniteSet(Scan!Candidates(data))
  <2>1. IsFiniteSet(Symbols)
    BY DEF FundingConstants
  <2> DEFINE f == [sym \in Symbols |-> Scan!Candidate(sym, data[sym])]
  <2>2. f \in Surjection(Symbols, Scan!Candidates(data))
    BY <1>2 DEF Surjection
  <2> QED BY <2>1, <2>2, FS_Surjection
<1>4. ASSUME NEW sym \in Symbols
      PROVE  /\ Scan!Candidate(sym, data[sym]).yield \in Int
             /\ Scan!Candidate(sym, data[sym]).basis \in Int
  <2>1. data[sym].rates \in Scan!RateSeqs /\ data[sym].basis \in Bases \cup {0}
    <3> DEFINE R == Scan!RateSeqs
               B == Bases \cup {0}
    <3>1. data \in [Symbols -> [rates : R, basis : B]]
      BY DEF ScanIInv
    <3> HIDE DEF R, B
    <3>2. data[sym] \in [rates : R, basis : B]
      BY <3>1
    <3>3. data[sym].rates \in R /\ data[sym].basis \in B
      BY <3>2
    <3> QED BY <3>3 DEF R, B
  <2>2. PICK n \in 0..MaxSnaps : data[sym].rates \in [1..n -> Rates]
    BY <2>1 DEF Scan!RateSeqs
  <2> DEFINE r == data[sym].rates
  <2>3. r = <<>> \/ Scan!Last(r) \in Int
    <3>1. n \in Nat /\ Rates \subseteq Int /\ r \in [1..n -> Rates]
      BY <2>2 DEF FundingConstants
    <3> HIDE DEF r
    <3>2. CASE n = 0
      BY <3>1, <3>2
    <3>3. CASE n # 0
      <4>1. Len(r) = n /\ n \in 1..n
        BY <3>1, <3>3
      <4> QED BY <3>1, <4>1 DEF Scan!Last
    <3> QED BY <3>2, <3>3
  <2>4. data[sym].basis \in Int
    <3>1. data[sym].basis \in Bases \/ data[sym].basis = 0
      BY <2>1
    <3>2. 0 \in Int /\ \A b \in Bases : b \in Int
      BY DEF FundingConstants
    <3> QED BY <3>1, <3>2, Zenon
  <2>5. Scan!Candidate(sym, data[sym]).yield = IF r = <<>> THEN 0 ELSE Scan!Last(r) * 1095
    BY DEF Scan!Candidate, Scan!AnnualizedYield, Scan!PeriodsPerYear
  <2>6. Scan!Candidate(sym, data[sym]).basis = data[sym].basis
    BY DEF Scan!Candidate
  <2> HIDE DEF r
  <2> QED BY <2>3, <2>4, <2>5, <2>6
<1> QED BY <1>2, <1>3, <1>4

LEMMA RankHolds == FundingConstants /\ ScanIInv => Scan!RankingIsTop
<1> SUFFICES ASSUME FundingConstants, ScanIInv PROVE Scan!RankingIsTop
  OBVIOUS
<1> DEFINE all == {Scan!Candidate(sym, data[sym]) : sym \in Symbols}
           good == {c \in all : /\ Scan!AbsInt(c.yield) >= 5000 /\ Scan!AbsInt(c.basis) <= 50
                                /\ c.streak >= 3}
           list == Scan!ScanFundingCandidates(data)
           listed1 == Scan!ToSet(list)
<1>1. /\ all = Scan!Candidates(data) /\ good = {c \in all : Scan!Qualifies(c)}
      /\ list = Scan!Rank(good)
  BY CandidatesAre DEF Scan!Qualifies, Scan!ScanFundingCandidates
<1>2. /\ IsFiniteSet(good) /\ good \subseteq all
      /\ \A c \in all : c.yield \in Int /\ c.basis \in Int
  BY <1>1, CandidatesAre, FS_Subset
<1>3. \A c \in good : c.yield \in Int
  BY <1>2
<1>4. \A c \in all : Scan!ShouldEnterHedge(c) => c \in good
  BY <1>2 DEF Scan!ShouldEnterHedge, Scan!AbsInt
<1> HIDE DEF good, all
<1> DEFINE n == Cardinality(good)
<1>5. n \in Nat /\ TopN \in Nat
  BY <1>2, FS_CardinalityType DEF FundingConstants
<1>6. n = 0 \/ n > 0
  BY <1>5
<1>7. PICK m \in Nat, f \in [1..n -> good] :
        /\ m \in {TopN, n} /\ m <= TopN /\ m <= n
        /\ \A i, j \in 1..n : i # j => f[i] # f[j]
        /\ \A i, j \in 1..n : i < j => Scan!AbsInt(f[i].yield) >= Scan!AbsInt(f[j].yield)
        /\ Scan!Rank(good) = [i \in 1..m |-> f[i]]
  <2>1. IsFiniteSet(good)
    BY <1>2
  <2> HIDE DEF list, listed1
  <2> QED BY <2>1, <1>3, RankIs
<1>8. list = [i \in 1..m |-> f[i]]
  <2> HIDE DEF list
  <2> QED BY <1>1, <1>7
<1>9. \A i \in 1..m : i \in 1..n /\ list[i] = f[i]
  BY <1>5, <1>7, <1>8
<1>10. listed1 = {f[i] : i \in 1..m}
  BY <1>9, <1>8 DEF Scan!ToSet
<1>11. Len(list) = m
  BY <1>7, <1>8
<1>12. good = {f[i] : i \in 1..n}
  <2>1. f \in Injection(1..n, good)
    BY <1>7 DEF Injection, IsInjective
  <2>2. IsFiniteSet(1..n) /\ Cardinality(1..n) = n
    BY <1>5, FS_Interval
  <2>3. f \in Surjection(1..n, good)
    BY <1>2, <2>1, <2>2, FS_Injection
  <2>4. \A c \in good : \E i \in 1..n : f[i] = c
    BY <2>3 DEF Surjection
  <2> HIDE DEF n
  <2> QED BY <1>7, <2>4
<1> HIDE DEF n, list, listed1
<1>13. Cardinality(listed1) = m
  <2>1. IsFiniteSet(1..m) /\ Cardinality(1..m) = m
    BY <1>7, FS_Interval
  <2> DEFINE g == [i \in 1..m |-> f[i]]
  <2>2. g \in Bijection(1..m, listed1)
    <3>1. g \in [1..m -> listed1] /\ \A i \in 1..m : g[i] = f[i]
      BY <1>10
    <3> HIDE DEF g
    <3>2. \A i, j \in 1..m : g[i] = g[j] => i = j
      BY <1>7, <1>9, <3>1
    <3>3. \A c \in listed1 : \E i \in 1..m : g[i] = c
      BY <1>10, <3>1
    <3> QED BY <3>1, <3>2, <3>3 DEF Bijection, Injection, Surjection, IsInjective
  <2>3. ExistsBijection(1..m, listed1)
    BY <2>2 DEF ExistsBijection
  <2> QED BY <2>1, <2>3, FS_Bijection
<1>14. listed1 \subseteq good
  BY <1>9, <1>10, <1>7
<1>15. ASSUME NEW c \in good \ listed1, NEW l \in listed1
       PROVE  Scan!AbsInt(c.yield) <= Scan!AbsInt(l.yield)
  <2>1. PICK i \in 1..m : l = f[i]
    BY <1>10
  <2>2. PICK j \in 1..n : c = f[j]
    BY <1>12
  <2>3. i \in 1..n /\ i < j
    BY <1>7, <1>9, <1>10, <2>1, <2>2
  <2>4. c.yield \in Int /\ l.yield \in Int
    BY <1>2, <1>14
  <2> QED BY <1>7, <2>1, <2>2, <2>3, <2>4 DEF Scan!AbsInt
<1>16. m = Scan!Min({TopN, n})
  BY <1>5, <1>7, Minimum
<1>17. ASSUME NEW c \in all, Scan!ShouldEnterHedge(c) PROVE c \in listed1 \/ m = TopN
  <2>1. CASE m = n
    BY <1>4, <1>10, <1>12, <1>17, <2>1
  <2> QED BY <1>7, <2>1
<1>18. \A i, j \in 1..m : i < j => Scan!AbsInt(list[i].yield) >= Scan!AbsInt(list[j].yield)
  BY <1>7, <1>9
<1>19. /\ Scan!Cardinality(listed1) = m /\ Scan!Cardinality(good) = n
  BY <1>13, SameSize DEF n
<1>20. /\ listed1 \subseteq good /\ Len(list) = Scan!Cardinality(listed1)
       /\ Len(list) = Scan!Min({TopN, Scan!Cardinality(good)})
       /\ \A i, j \in 1..Len(list) :
            i < j => Scan!AbsInt(list[i].yield) >= Scan!AbsInt(list[j].yield)
       /\ \A c \in good \ listed1, l \in listed1 : Scan!AbsInt(c.yield) <= Scan!AbsInt(l.yield)
       /\ \A c \in all : Scan!ShouldEnterHedge(c) => c \in listed1 \/ Len(list) = TopN
  BY <1>11, <1>14, <1>15, <1>16, <1>17, <1>18, <1>19
<1> QED BY <1>20, Zenon DEF Scan!RankingIsTop, all, good, list, listed1

LEMMA ExitHolds == FundingConstants /\ ScanIInv => Scan!EntryIsNoExit
<1> SUFFICES ASSUME FundingConstants, ScanIInv PROVE Scan!EntryIsNoExit
  OBVIOUS
<1> SUFFICES ASSUME NEW c \in {Scan!Candidate(sym, data[sym]) : sym \in Symbols}
             PROVE  /\ hedge.status # "OPEN" => Scan!ExitReason(hedge, c.yield, c.basis, 9, 0) = "none"
                    /\ Scan!ShouldEnterHedge(c) =>
                         Scan!ExitReason([hedge EXCEPT !.status = "OPEN"], c.yield, c.basis, 0, 0) = "none"
  BY DEF Scan!EntryIsNoExit
<1>1. c.yield \in Int /\ c.basis \in Int
  BY CandidatesAre
<1>2. hedge.status # "OPEN" => Scan!ExitReason(hedge, c.yield, c.basis, 9, 0) = "none"
  BY DEF Scan!ExitReason
<1>3. ASSUME Scan!ShouldEnterHedge(c)
      PROVE  Scan!ExitReason([hedge EXCEPT !.status = "OPEN"], c.yield, c.basis, 0, 0) = "none"
  <2>1. [hedge EXCEPT !.status = "OPEN"].status = "OPEN"
    BY DEF ScanIInv, HedgeRecords
  <2>2. ~(c.yield < 2000) /\ ~(Scan!AbsInt(c.basis) > 100) /\ ~(0 > 0)
    BY <1>1, <1>3 DEF Scan!ShouldEnterHedge, Scan!AbsInt
  <2> QED BY <2>1, <2>2 DEF Scan!ExitReason
<1> QED BY <1>2, <1>3

LEMMA ScanHolds ==
  ScanIInv => /\ Scan!RankingIsTop /\ Scan!PnlIsBasis /\ Scan!BalancedIsHedged
              /\ Scan!EntryIsNoExit
BY FundingConstants, RankHolds, PnlHolds, BalanceHolds, ExitHolds

-----------------------------------------------------------------------------
(* The services together                                                     *)

ServicesInv ==
  /\ In("sessions", SessionIInv) /\ In("assistant", AssistantIInv)
  /\ In("terminal", TerminalIInv) /\ In("entries", EntryIInv)
  /\ In("page", PageIInv) /\ FeedIInv
  /\ In("funding", FundingIInv) /\ In("scan", ScanIInv)

LEMMA ServicesInit == Init => ServicesInv
BY SessionInit, AssistantInit, TerminalInit, EntryInit, PageInit, FundingInit, ScanInit, SameInit,
   SocketConstants,   PrivateProofs!InitInv, PublicProofs!InitInv
   DEF Init, ServicesInv, In, FeedIInv

\* A step belongs to the service of the behaviour, and the others' invariants
\* say nothing of it.
LEMMA ServicesStep == ServicesInv /\ Next => ServicesInv'
<1> SUFFICES ASSUME ServicesInv, Next PROVE ServicesInv'
  OBVIOUS
<1>1. service' = service
  BY DEF Next, Of
<1>2. /\ service = "sessions" => Session!Next
      /\ service = "assistant" => Assistant!Next
      /\ service = "terminal" => Terminal!Next
      /\ service = "entries" => Entry!Next
      /\ service = "page" => Page!Next
      /\ service = "funding" => Funding!Next
      /\ service = "scan" => Scan!Next
      /\ service = "private" => PrivateSocket!Next
      /\ service = "public" => PublicSocket!Next
  BY DEF Next, Of
<1>3. In("sessions", SessionIInv)'
  BY <1>1, <1>2, SessionStep DEF ServicesInv, In
<1>4. In("page", PageIInv)'
  BY <1>1, <1>2, PageStep DEF ServicesInv, In
<1>5. FeedIInv'
  BY <1>1, <1>2, PrivateStep, PublicStep DEF ServicesInv, FeedIInv, In
<1>6. In("assistant", AssistantIInv)'
  BY <1>1, <1>2, AssistantStep DEF ServicesInv, In
<1>7. In("terminal", TerminalIInv)'
  BY <1>1, <1>2, TerminalStep DEF ServicesInv, In
<1>8. In("entries", EntryIInv)'
  BY <1>1, <1>2, EntryStep DEF ServicesInv, In
<1>9. In("funding", FundingIInv)'
  BY <1>1, <1>2, FundingStep DEF ServicesInv, In
<1>10. In("scan", ScanIInv)'
  BY <1>1, <1>2, ScanStep DEF ServicesInv, In
<1> QED BY <1>3, <1>4, <1>5, <1>6, <1>7, <1>8, <1>9, <1>10 DEF ServicesInv

LEMMA EntryStutter == EntryIInv /\ UNCHANGED entryVars /\ faults' = faults => EntryIInv'
<1> SUFFICES ASSUME EntryIInv, UNCHANGED entryVars, faults' = faults PROVE EntryIInv'
  OBVIOUS
<1>1. RowsTyped' /\ EntryShape' /\ CloseSeen' /\ Shortage'
  BY DEF entryVars, EntryIInv, RowsTyped, EntryShape, CloseSeen, Shortage
<1>2. RowsHold'
  BY DEF entryVars, EntryIInv, RowsHold, Fits, Cooled
<1>3. LossGuard' /\ PauseGuard'
  BY DEF entryVars, EntryIInv, LossGuard, PauseGuard, FailedBefore, Entry!Failed, Entry!FailedToday
<1> QED BY <1>1, <1>2, <1>3 DEF EntryIInv

LEMMA ServicesStutter == ServicesInv /\ UNCHANGED vars => ServicesInv'
<1> SUFFICES ASSUME ServicesInv, UNCHANGED vars PROVE ServicesInv'
  OBVIOUS
<1>1. /\ service' = service /\ faults' = faults /\ UNCHANGED sessionVars
      /\ UNCHANGED assistantVars /\ UNCHANGED terminalVars /\ UNCHANGED entryVars
      /\ UNCHANGED pageVars /\ UNCHANGED socketVars /\ UNCHANGED fundingVars
      /\ UNCHANGED scanVars
  BY DEF vars
<1>2. In("sessions", SessionIInv)'
  BY <1>1 DEF ServicesInv, In, sessionVars, SessionIInv, Session!TypeOK, TokensIssued, Exchanged,
     Presents, RotationUnderWay, NoRival, Session!RotatedOnce, CalmSession, Calm,
     Session!NoSpuriousLogout, LoggedOut
<1>3. In("page", PageIInv)'
  BY <1>1 DEF ServicesInv, In, pageVars, PageIInv, Page!TypeOK, Underway, Page!OneChainPolls,
     DirectoryComes, PrefsUntouched
<1>4. UNCHANGED PrivateProofs!vars /\ UNCHANGED PublicProofs!vars
  BY <1>1 DEF socketVars, PrivateProofs!vars, PublicProofs!vars
<1>5. FeedIInv'
  BY <1>1, <1>4, SocketConstants, PrivateProofs!NextInv, PublicProofs!NextInv
     DEF ServicesInv, FeedIInv, In
<1>6. In("assistant", AssistantIInv)'
  BY <1>1 DEF ServicesInv, In, assistantVars, AssistantIInv, AssistantShape, AuditShape, ExecShape,
     ServedRequest, Substantiated, Parsed, OneByOne, Assistant!EffectOnce,
     Assistant!DependenciesFirst
<1>7. In("terminal", TerminalIInv)'
  BY <1>1 DEF ServicesInv, In, terminalVars, TerminalIInv, TerminalShape, Terminal!TypeOK, RowsThere,
     SyncsKnow, NothingLive, CallsHold, Terminal!RowFollowsVenue, Terminal!ConnectedHasWorked
<1>8. In("entries", EntryIInv)'
  BY <1>1, EntryStutter DEF ServicesInv, In
<1>9. In("funding", FundingIInv)'
  BY <1>1 DEF ServicesInv, In, fundingVars, FundingIInv, FundingShape, Funding!TypeOK, Funding!Past,
     SeenOnce, Funding!SignalsAreOfTheirSettlement, Funding!PaymentOrEntry
<1>10. In("scan", ScanIInv)'
  BY <1>1 DEF ServicesInv, In, scanVars, ScanIInv
<1> QED BY <1>2, <1>3, <1>5, <1>6, <1>7, <1>8, <1>9, <1>10 DEF ServicesInv

LEMMA ServicesInvariant == Spec => []ServicesInv
<1>1. ServicesInv /\ [Next]_vars => ServicesInv'
  BY ServicesStep, ServicesStutter
<1> QED BY <1>1, ServicesInit, PTL DEF Spec

\* routes/auth.ts and lib/api.ts: a refresh token is exchanged for one other
\* unless two tabs present it at once, no call logs the user out unless tabs
\* raced or an answer was lost, and a logout that meets no refresh is final.
THEOREM SessionsAreSound == Spec => []SessionsRotate
<1>1. ServicesInv => SessionsRotate
  <2>1. ASSUME SessionIInv PROVE Session!LogoutIsFinal
    BY <2>1 DEF SessionIInv, LoggedOut, Session!LogoutIsFinal
  <2> QED BY <2>1 DEF ServicesInv, SessionsRotate, In, SessionIInv
<1> QED BY <1>1, ServicesInvariant, PTL

\* routes/ai.ts and lib/ai/planParser.ts: an action takes effect once unless two
\* requests for it overlapped or one died, never before the actions it depends
\* on, and a plan whose dependencies point backwards always has a next action.
THEOREM PlansAreSound == Spec => []PlansExecute
<1>1. ServicesInv => PlansExecute
  BY Advances DEF ServicesInv, PlansExecute, In, AssistantIInv
<1> QED BY <1>1, ServicesInvariant, PTL

\* lib/botWorker.ts, exchange/normalizer.ts, positionSizing.ts and
\* routes/terminal.ts: an order fits the venue's rules it was checked against,
\* no entry is opened within a cooldown that was seen or past the loss limit or
\* the error pause, a shortage of candles is reported once; and the row of a
\* manual order never runs ahead of the venue, nor says FAILED of a live order
\* unless an answer was lost.
THEOREM OrdersAreSound == Spec => []OrdersFollowVenue
<1>1. ServicesInv => OrdersFollowVenue
  BY TerminalHolds, EntryHolds DEF ServicesInv, OrdersFollowVenue, In
<1> QED BY <1>1, ServicesInvariant, PTL

\* terminal/page.tsx: of the polling chains that renders leave behind one goes
\* on, the directory shown is the market's, and opening the page stores
\* nothing that was not stored.
THEOREM PageIsSound == Spec => []PageFollows
<1>1. ServicesInv => PageFollows
  <2>1. ASSUME PageIInv PROVE Page!DirectoryOfMarket
    BY <2>1 DEF PageIInv, DirectoryComes, Page!DirectoryOfMarket
  <2>2. ASSUME PageIInv PROVE Page!OpeningKeepsPrefs
    BY <2>2 DEF PageIInv, PrefsUntouched, Page!OpeningKeepsPrefs
  <2> QED BY <2>1, <2>2 DEF ServicesInv, PageFollows, In, PageIInv
<1> QED BY <1>1, ServicesInvariant, PTL

\* lib/ws: until a pong is missed each client has one socket or one reconnect
\* timer, it always has a way back, and the venue sends what is subscribed.
THEOREM FeedIsSound == Spec => []FeedHolds
<1>1. PrivateProofs!IInv => /\ PrivateSocket!OneSocket /\ PrivateSocket!NeverStranded
                            /\ PrivateSocket!FeedIsWanted
  BY SocketConstants, PrivateProofs!Holds
     DEF PrivateProofs!OneSocket, PrivateProofs!NeverStranded, PrivateProofs!FeedIsWanted,
         PrivateProofs!LiveSockets, PrivateProofs!Live,
         PrivateSocket!OneSocket, PrivateSocket!NeverStranded, PrivateSocket!FeedIsWanted,
         PrivateSocket!LiveSockets, PrivateSocket!Live,
         PrivateProofs!Cardinality, PrivateSocket!Cardinality
<1>2. PublicProofs!IInv => /\ PublicSocket!OneSocket /\ PublicSocket!NeverStranded
                           /\ PublicSocket!FeedIsWanted
  BY SocketConstants, PublicProofs!Holds
     DEF PublicProofs!OneSocket, PublicProofs!NeverStranded, PublicProofs!FeedIsWanted,
         PublicProofs!LiveSockets, PublicProofs!Live,
         PublicSocket!OneSocket, PublicSocket!NeverStranded, PublicSocket!FeedIsWanted,
         PublicSocket!LiveSockets, PublicSocket!Live,
         PublicProofs!Cardinality, PublicSocket!Cardinality
<1>3. ServicesInv => FeedHolds
  BY <1>1, <1>2 DEF ServicesInv, FeedIInv, FeedHolds, In
<1> QED BY <1>3, ServicesInvariant, PTL

\* lib/funding and exchange/balanceReconciler.ts: a payment or an entry that the
\* detector reports is of the settlement it names, and no snapshot shows both;
\* the scanner lists the candidates of greatest yield, the planner's profit is
\* what the basis narrowed by, and nothing lopsided is called balanced.
THEOREM FundingIsSound == Spec => []FundingIsSeen
<1>1. ServicesInv => FundingIsSeen
  BY ScanHolds DEF ServicesInv, FundingIsSeen, In, FundingIInv
<1> QED BY <1>1, ServicesInvariant, PTL

LEMMA SizedIsPositive ==
  ASSUME EntryIInv, NEW m \in DOMAIN entries
  PROVE  entries[m].qty[1] > 0 /\ entries[m].state \in {"PENDING", "PLACED", "FILLED", "FAILED"}
<1>1. entries[m] \in EntryRow /\ Fits(entries[m])
  BY RowsAre DEF EntryIInv, RowsHold
<1>2. entries[m].state \in {"PENDING", "PLACED", "FILLED", "FAILED"}
  BY <1>1 DEF EntryRow
<1>3. CASE entries[m].sized
  <2> PICK e \in EntryRow : e = entries[m]
    BY <1>1
  <2>1. /\ e.rules \in Instruments /\ e.budget \in Nat \ {0} /\ e.price \in Nat \ {0}
        /\ e.qty = <<Entry!RoundToStep(<<e.budget, e.price>>, e.rules.step), 1>>
        /\ Entry!SizeOrder(e.budget, e.price, e.rules).valid
    BY <1>1, <1>3, EntryConstants DEF Fits, EntryRow, EntryConstants
  <2>2. Entry!RoundToStep(<<e.budget, e.price>>, e.rules.step) > 0
    BY <2>1, SizedIs
  <2> QED BY <1>2, <2>1, <2>2
<1>4. CASE ~entries[m].sized
  BY <1>1, <1>4 DEF Fits, EntryRow
<1> QED BY <1>2, <1>3, <1>4

\* The state of every service stays within its range.
THEOREM ServicesAreTyped == Spec => []TypeOK
<1>1. AssistantIInv => Assistant!TypeOK
  <2> SUFFICES ASSUME AssistantIInv PROVE Assistant!TypeOK
    OBVIOUS
  <2>1. DOMAIN effects = DOMAIN plan /\ DOMAIN raw = DOMAIN plan
    BY DEF AssistantIInv, AssistantShape
  <2>2. \A k \in DOMAIN audit : /\ audit[k].action \in DOMAIN plan
                                /\ audit[k].status \in {"PROPOSED", "EXECUTED", "FAILED"}
    BY AuditRows DEF AssistantIInv, AuditShape
  <2>3. ASSUME NEW h \in Clients
        PROVE  /\ exec[h].pc \in Pcs /\ exec[h].action \in DOMAIN plan \cup {0}
               /\ exec[h].row \in 0..Len(audit)
    <3>1. exec[h].pc \in Pcs /\ exec[h].row \in Nat
      BY DEF AssistantIInv, ExecShape
    <3>2. exec[h].action \in DOMAIN plan \cup {0}
      BY DEF AssistantIInv, ServedRequest
    <3>3. exec[h].row = 0 \/ exec[h].row \in DOMAIN audit
      BY DEF AssistantIInv, ServedRequest
    <3>4. DOMAIN audit = 1..Len(audit) /\ Len(audit) \in Nat
      BY DEF AssistantIInv, AuditShape
    <3> QED BY <3>1, <3>2, <3>3, <3>4
  <2> QED BY <2>1, <2>2, <2>3 DEF Assistant!TypeOK, Pcs
<1>2. EntryIInv => Entry!TypeOK
  BY SizedIsPositive DEF EntryIInv, EntryShape, Rulesets, Entry!TypeOK
<1>3. PrivateProofs!IInv => PrivateSocket!TypeOK
  BY DEF PrivateProofs!IInv, PrivateProofs!TypeOK, PrivateSocket!TypeOK, PrivateProofs!Live,
         PrivateSocket!Live
<1>4. PublicProofs!IInv => PublicSocket!TypeOK
  BY DEF PublicProofs!IInv, PublicProofs!TypeOK, PublicSocket!TypeOK, PublicProofs!Live,
         PublicSocket!Live
<1>5. /\ SessionIInv => Session!TypeOK
      /\ TerminalIInv => Terminal!TypeOK
      /\ PageIInv => Page!TypeOK
      /\ FundingIInv => Funding!TypeOK
  BY DEF SessionIInv, TerminalIInv, TerminalShape, PageIInv, FundingIInv, FundingShape
<1>6. ServicesInv => TypeOK
  BY <1>1, <1>2, <1>3, <1>4, <1>5 DEF ServicesInv, FeedIInv, In, TypeOK
<1> QED BY <1>6, ServicesInvariant, PTL
=============================================================================
