-------------------------- MODULE WebClientProofs --------------------------
(***************************************************************************)
(* Proofs that the script of the pages keeps its invariants, in any number *)
(* of tabs and of checks that overlap, and of what may end a session.      *)
(***************************************************************************)
EXTENDS WebClientProps, TLAPS

USE CallersAssumption, NavAssumption DEF scriptVars, cookieVars, Callers, Pages, Request, Idle
-----------------------------------------------------------------------------
(* Type correctness                                                        *)

\* A new request in the place of a caller.
LEMMA PutTyped ==
    ASSUME TypeOK, NEW t \in Tabs, NEW k \in Callers, NEW r \in Requests, Put(t, k, r)
    PROVE  call' \in [Tabs -> [Callers -> Requests]]
  BY DEF TypeOK, Put

\* What a request may be.
LEMMA RequestsTyped ==
    ASSUME NEW b \in BOOLEAN
    PROVE  Request("me", b) \in Requests /\ Request("refresh", b) \in Requests /\ Idle \in Requests
  BY DEF Requests

\* The state a step may end a session in.
LEMMA UserTyped ==
    ASSUME TypeOK, NEW t \in Tabs, handleTokenExpired(t) \/ StillHere \/ NoUser(t)
    PROVE  /\ stored' \in BOOLEAN /\ currentUser' \in [Tabs -> BOOLEAN]
           /\ nav' \in [Tabs -> Pages \cup {None}]
  BY DEF TypeOK, handleTokenExpired, StillHere, NoUser, clearAuth, navigateTo

\* The flag and the request of refreshAccessToken.
LEMMA RefreshTyped ==
    ASSUME TypeOK, NEW t \in Tabs, NEW k \in Callers,
           SendRefresh(t, k) \/ (Unflag(t) /\ UNCHANGED call) \/ (UNCHANGED <<isRefreshing, call>>)
    PROVE  isRefreshing' \in [Tabs -> BOOLEAN] /\ call' \in [Tabs -> [Callers -> Requests]]
<1>1. CASE SendRefresh(t, k)
  <2>1. Request("refresh", refresh) \in Requests
    BY RequestsTyped DEF TypeOK
  <2> QED
    BY <1>1, <2>1, PutTyped DEF SendRefresh, TypeOK
<1> QED
  BY <1>1 DEF TypeOK, Unflag

\* The answers to the requests of a check keep the types.
LEMMA TypeCheck ==
    ASSUME TypeOK, NEW t \in Tabs, NEW k \in Checks, checkAuthStatus(t, k) \/ Tick(t, k)
    PROVE  TypeOK'
<1> USE DEF Put, OnlyCheck
<1>1. isRefreshing' \in [Tabs -> BOOLEAN]
  BY RefreshTyped
     DEF checkAuthStatus, Tick, MeOk, MeUnauthorized, MeFails, CheckRefreshOk,
         CheckRefreshUnauthorized, CheckRefreshFails, Unflag, SendRefresh, TypeOK
<1>2. call' \in [Tabs -> [Callers -> Requests]]
  <2>1. \E r \in Requests : Put(t, k, r)
    BY RequestsTyped DEF checkAuthStatus, Tick, MeOk, MeUnauthorized, MeFails, CheckRefreshOk,
         CheckRefreshUnauthorized, CheckRefreshFails, SendRefresh, AfterRefresh, TypeOK
  <2> QED
    BY <2>1, PutTyped
<1>3. handleTokenExpired(t) \/ StillHere \/ NoUser(t)
  BY DEF checkAuthStatus, Tick, MeOk, MeUnauthorized, MeFails, CheckRefreshOk,
         CheckRefreshUnauthorized, CheckRefreshFails, Expired
<1>4. access' \in BOOLEAN /\ refresh' \in BOOLEAN /\ ended' \in BOOLEAN
  BY DEF checkAuthStatus, Tick, MeOk, MeUnauthorized, MeFails, CheckRefreshOk,
         CheckRefreshUnauthorized, CheckRefreshFails, TypeOK
<1>5. UNCHANGED <<page, form, leaving, socket, attempts>>
  BY DEF checkAuthStatus, Tick, MeOk, MeUnauthorized, MeFails, CheckRefreshOk,
         CheckRefreshUnauthorized, CheckRefreshFails
<1> QED
  BY <1>1, <1>2, <1>3, <1>4, <1>5, UserTyped DEF TypeOK

\* The events of the chat page's WebSocket keep the types.
LEMMA TypeSocket ==
    ASSUME TypeOK, NEW t \in Tabs, WebSocketEvent(t)
    PROVE  TypeOK'
<1> USE DEF WebSocketEvent, SocketOpen, SocketClosed, SocketExpired, SocketRefreshOk,
            SocketRefreshFails, reconnectWebSocket, OnlySocket
<1>1. isRefreshing' \in [Tabs -> BOOLEAN]
  BY DEF Unflag, SendRefresh, TypeOK
<1>2. call' \in [Tabs -> [Callers -> Requests]]
  <2>1. UNCHANGED call \/ \E r \in Requests : Put(t, Socket, r)
    BY RequestsTyped DEF SendRefresh, TypeOK
  <2> QED
    BY <2>1, PutTyped DEF TypeOK
<1>3. handleTokenExpired(t) \/ StillHere
  OBVIOUS
<1>4. access' \in BOOLEAN /\ refresh' \in BOOLEAN /\ ended' \in BOOLEAN
  BY DEF TypeOK
<1>5. UNCHANGED <<page, form, leaving>>
  OBVIOUS
<1>6. socket' \in [Tabs -> {"none", "connecting", "doomed", "open", "closed"}]
  BY DEF TypeOK, Handshake
<1>7. attempts' \in [Tabs -> 0..MAX_RECONNECT_ATTEMPTS]
  <2>1. \/ UNCHANGED attempts
        \/ attempts' = [attempts EXCEPT ![t] = 0]
        \/ attempts[t] < 3 /\ attempts' = [attempts EXCEPT ![t] = attempts[t] + 1]
    BY DEF Opened, MAX_RECONNECT_ATTEMPTS
  <2>2. attempts \in [Tabs -> 0..3] /\ attempts[t] \in 0..3
    BY DEF TypeOK, MAX_RECONNECT_ATTEMPTS
  <2>3. attempts' \in [Tabs -> 0..3]
    <3>1. attempts[t] < 3 => attempts[t] + 1 \in 0..3
      BY <2>2
    <3> HIDE DEF WebSocketEvent
    <3> QED
      BY <2>1, <2>2, <3>1
  <2> QED
    BY <2>3 DEF MAX_RECONNECT_ATTEMPTS
<1> QED
  BY <1>1, <1>2, <1>3, <1>4, <1>5, <1>6, <1>7, UserTyped DEF TypeOK

\* Page loads, forms, the user and the shared state keep the types.
LEMMA TypePage ==
    ASSUME TypeOK,
           \/ UserStep
           \/ \E t \in Tabs : Load(t) \/ FormStep(t) \/ LogoutReturns(t)
           \/ LoginElsewhere \/ LogoutElsewhere \/ ExpireAccess \/ ExpireRefresh
    PROVE  TypeOK'
<1>1. ASSUME NEW t \in Tabs, NEW p \in Pages, Visit(t, p) PROVE TypeOK'
  BY <1>1 DEF Visit, TypeOK, navigateTo
<1>2. ASSUME NEW t \in Tabs, Submit(t) PROVE TypeOK'
  BY <1>2 DEF Submit, TypeOK
<1>3. ASSUME NEW t \in Tabs, ClickLogout(t) PROVE TypeOK'
  BY <1>3 DEF ClickLogout, TypeOK
<1>4. ASSUME NEW t \in Tabs, Load(t) PROVE TypeOK'
  BY <1>4 DEF Load, Destination, Handshake, isAuthenticated, TypeOK, Requests, navigateTo,
              MAX_RECONNECT_ATTEMPTS
<1>5. ASSUME NEW t \in Tabs, FormStep(t) PROVE TypeOK'
  <2> USE <1>5 DEF FormStep, LoginOk, RegisterOk, FormFails, Redirect, OnlyForm, Answered
  <2>1. form' \in [Tabs -> SUBSET {"sent", "redirect"}]
    BY DEF TypeOK
  <2>2. currentUser' \in [Tabs -> BOOLEAN] /\ nav' \in [Tabs -> Pages \cup {None}]
    BY DEF TypeOK, StillHere, navigateTo
  <2>3. stored' \in BOOLEAN /\ access' \in BOOLEAN /\ refresh' \in BOOLEAN /\ ended' \in BOOLEAN
    BY DEF TypeOK, StillHere
  <2>4. UNCHANGED <<page, isRefreshing, call, leaving, socket, attempts>>
    OBVIOUS
  <2> QED
    BY <2>1, <2>2, <2>3, <2>4 DEF TypeOK
<1>6. ASSUME NEW t \in Tabs, LogoutReturns(t) PROVE TypeOK'
  BY <1>6, UserTyped DEF LogoutReturns, LogoutHandler, TypeOK
<1>7. CASE LoginElsewhere \/ LogoutElsewhere \/ ExpireAccess \/ ExpireRefresh
  BY <1>7 DEF LoginElsewhere, LogoutElsewhere, LogoutHandler, ExpireAccess, ExpireRefresh, TypeOK
<1> QED
  BY <1>1, <1>2, <1>3, <1>4, <1>5, <1>6, <1>7 DEF UserStep

\* Every step keeps the types.
LEMMA TypeStep == TypeOK /\ [Next]_vars => TypeOK'
<1> SUFFICES ASSUME TypeOK, [Next]_vars PROVE TypeOK'
  OBVIOUS
<1>1. CASE UNCHANGED vars
  BY <1>1 DEF vars, TypeOK
<1> QED
  BY <1>1, TypeCheck, TypeSocket, TypePage DEF Next

\* A browser without tabs is type correct.
LEMMA TypeInit == Init => TypeOK
<1> SUFFICES ASSUME Init PROVE TypeOK
  OBVIOUS
<1>1. call \in [Tabs -> [Callers -> Requests]]
  BY DEF Init, Requests
<1>2. /\ page \in [Tabs -> Pages \cup {"closed"}] /\ nav \in [Tabs -> Pages \cup {None}]
      /\ currentUser \in [Tabs -> BOOLEAN] /\ isRefreshing \in [Tabs -> BOOLEAN]
      /\ leaving \in [Tabs -> BOOLEAN]
  BY DEF Init
<1>3. form \in [Tabs -> SUBSET {"sent", "redirect"}]
  BY DEF Init
<1>4. /\ socket \in [Tabs -> {"none", "connecting", "doomed", "open", "closed"}]
      /\ attempts \in [Tabs -> 0..MAX_RECONNECT_ATTEMPTS]
  BY DEF Init, MAX_RECONNECT_ATTEMPTS
<1>5. stored \in BOOLEAN /\ access \in BOOLEAN /\ refresh \in BOOLEAN /\ ended \in BOOLEAN
  BY DEF Init
<1> QED
  BY <1>1, <1>2, <1>3, <1>4, <1>5 DEF TypeOK

\* Every reachable state is type correct.
THEOREM TypeCorrect == Spec => []TypeOK
<1> QED
  BY TypeInit, TypeStep, PTL DEF Spec
-----------------------------------------------------------------------------
(* One refresh at a time                                                   *)

\* OneRefresh for one tab: its flag, and the requests c of its callers.
One(flag, c) ==
    /\ flag <=> \E k \in Callers : c[k].at = "refresh"
    /\ \A j, k \in Callers : c[j].at = "refresh" /\ c[k].at = "refresh" => j = k

\* A caller that finds the flag down raises it and is the only one to wait.
LEMMA OneSends ==
    ASSUME NEW c \in [Callers -> Requests], NEW k \in Callers, NEW b \in BOOLEAN, One(FALSE, c)
    PROVE  One(TRUE, [c EXCEPT ![k] = Request("refresh", b)])
  BY DEF One, Requests

\* The caller that waited puts the flag down.
LEMMA OneReturns ==
    ASSUME NEW c \in [Callers -> Requests], NEW k \in Callers, NEW r \in Requests,
           NEW flag, One(flag, c), c[k].at = "refresh", r.at # "refresh"
    PROVE  One(FALSE, [c EXCEPT ![k] = r])
  BY DEF One, Requests

\* Other requests do not touch the flag.
LEMMA OneOther ==
    ASSUME NEW c \in [Callers -> Requests], NEW k \in Callers, NEW r \in Requests,
           NEW flag, One(flag, c), c[k].at # "refresh", r.at # "refresh"
    PROVE  One(flag, [c EXCEPT ![k] = r])
  BY DEF One, Requests

\* One tab's part of the invariant.
Script(t) ==
    /\ One(isRefreshing[t], call[t])
    /\ call[t][Socket].at # "me"
    /\ socket[t] = "open" => attempts[t] = 0
    /\ Refreshing(t, Socket) => WsExpiry /\ socket[t] = "closed" /\ attempts[t] = 0
    /\ socket[t] # "none" /\ ~currentUser[t] => nav[t] # None
    /\ attempts[t] <= 1

\* The invariant is that of every tab.
LEMMA ByTab == IInv <=> TypeOK /\ \A t \in Tabs : Script(t)
  BY DEF IInv, OneRefresh, SocketCaller, ChatHasUser, CounterReset, Script, One, Refreshing

\* The script of tab t is as it was.
SameScript(t) ==
    /\ isRefreshing'[t] = isRefreshing[t] /\ call'[t] = call[t]
    /\ socket'[t] = socket[t] /\ attempts'[t] = attempts[t]
    /\ (currentUser'[t] = currentUser[t] /\ nav'[t] = nav[t]) \/ nav'[t] # None

\* Then its part of the invariant stays true.
LEMMA SameKept ==
    ASSUME NEW t \in Tabs, Script(t), SameScript(t)
    PROVE  Script(t)'
  BY DEF Script, SameScript, Refreshing, One

\* A tab that was sent to the login page, or left as it was, is no worse off.
LEMMA UserKept ==
    ASSUME TypeOK, NEW t \in Tabs, handleTokenExpired(t) \/ StillHere \/ NoUser(t)
    PROVE  (currentUser'[t] = currentUser[t] /\ nav'[t] = nav[t]) \/ nav'[t] # None
  BY DEF TypeOK, handleTokenExpired, StillHere, NoUser, clearAuth, navigateTo

\* The answers to a check keep the invariant of its tab.
LEMMA ScriptCheck ==
    ASSUME TypeOK, NEW t \in Tabs, NEW k \in Checks, Script(t),
           checkAuthStatus(t, k) \/ Tick(t, k)
    PROVE  Script(t)'
<1>1. /\ call[t] \in [Callers -> Requests] /\ k \in Callers /\ k # Socket
      /\ isRefreshing[t] \in BOOLEAN /\ access \in BOOLEAN /\ refresh \in BOOLEAN
  BY DEF TypeOK
<1>2. \A r : Put(t, k, r) => call'[t] = [call[t] EXCEPT ![k] = r] /\ call'[t][Socket] = call[t][Socket]
  BY <1>1 DEF Put, TypeOK
<1>3. Unflag(t) => isRefreshing'[t] = FALSE
  BY DEF Unflag, TypeOK
<1>4. handleTokenExpired(t) \/ StillHere \/ NoUser(t)
  BY DEF checkAuthStatus, Tick, MeOk, MeUnauthorized, MeFails, CheckRefreshOk,
         CheckRefreshUnauthorized, CheckRefreshFails, Expired
<1>5. UNCHANGED <<socket, attempts>>
  BY DEF checkAuthStatus, Tick, MeOk, MeUnauthorized, MeFails, CheckRefreshOk,
         CheckRefreshUnauthorized, CheckRefreshFails, OnlyCheck
<1>6. call'[t][Socket] = call[t][Socket]
  BY <1>2 DEF checkAuthStatus, Tick, MeOk, MeUnauthorized, MeFails, CheckRefreshOk,
         CheckRefreshUnauthorized, CheckRefreshFails, SendRefresh
<1>7. One(isRefreshing'[t], call'[t])
  <2>1. ASSUME NEW r \in Requests, Put(t, k, r), call[t][k].at # "refresh", r.at # "refresh",
               UNCHANGED isRefreshing
        PROVE  One(isRefreshing'[t], call'[t])
    <3>1. One(isRefreshing[t], [call[t] EXCEPT ![k] = r])
      <4>1. One(isRefreshing[t], call[t])
        BY DEF Script
      <4> QED
        BY <1>1, <2>1, <4>1, OneOther
    <3>2. isRefreshing'[t] = isRefreshing[t] /\ call'[t] = [call[t] EXCEPT ![k] = r]
      BY <1>2, <2>1
    <3> QED
      BY <3>1, <3>2
  <2>2. ASSUME NEW r \in Requests, Put(t, k, r), call[t][k].at = "refresh", r.at # "refresh",
               Unflag(t)
        PROVE  One(isRefreshing'[t], call'[t])
    <3>1. One(FALSE, [call[t] EXCEPT ![k] = r])
      <4>1. One(isRefreshing[t], call[t])
        BY DEF Script
      <4> QED
        BY <1>1, <2>2, <4>1, OneReturns
    <3>2. isRefreshing'[t] = FALSE /\ call'[t] = [call[t] EXCEPT ![k] = r]
      BY <1>2, <1>3, <2>2
    <3> QED
      BY <3>1, <3>2
  <2>3. /\ Request("me", access) \in Requests /\ Request("me", TRUE) \in Requests /\ Idle \in Requests
        /\ Request("me", access).at # "refresh" /\ Request("me", TRUE).at # "refresh"
        /\ Idle.at # "refresh"
    BY <1>1 DEF Requests
  <2> HIDE DEF Request, Idle
  <2>4. \A b : Request("me", b).at # "refresh" /\ Request("refresh", b).at = "refresh"
    BY DEF Request
  <2>5. CASE Tick(t, k)
    BY <2>1, <2>3, <2>5 DEF Tick
  <2>6. CASE MeOk(t, k) \/ MeFails(t, k)
    BY <2>1, <2>3, <2>4, <2>6 DEF MeOk, MeFails
  <2>7. CASE MeUnauthorized(t, k)
    <3>1. CASE SendRefresh(t, k)
      <4>1. isRefreshing[t] = FALSE /\ isRefreshing'[t] = TRUE
        BY <1>1, <3>1 DEF SendRefresh, MayRefresh, TypeOK
      <4>2. call'[t] = [call[t] EXCEPT ![k] = Request("refresh", refresh)]
        BY <1>2, <3>1 DEF SendRefresh
      <4>3. One(FALSE, call[t])
        BY <4>1 DEF Script
      <4>4. One(TRUE, [call[t] EXCEPT ![k] = Request("refresh", refresh)])
        BY <1>1, <4>3, OneSends
      <4> QED
        BY <4>1, <4>2, <4>4
    <3>2. CASE ~SendRefresh(t, k)
      BY <2>1, <2>3, <2>4, <2>7, <3>2 DEF MeUnauthorized
    <3> QED
      BY <3>1, <3>2
  <2>8. CASE CheckRefreshOk(t, k)
    BY <2>2, <2>3, <2>4, <2>8 DEF CheckRefreshOk, AfterRefresh
  <2>9. CASE CheckRefreshUnauthorized(t, k) \/ CheckRefreshFails(t, k)
    BY <2>2, <2>3, <2>4, <2>9 DEF CheckRefreshUnauthorized, CheckRefreshFails
  <2> QED
    BY <2>5, <2>6, <2>7, <2>8, <2>9 DEF checkAuthStatus
<1> QED
  BY <1>4, <1>5, <1>6, <1>7, UserKept DEF Script, Refreshing

\* The events of its WebSocket keep the invariant of a tab.
LEMMA ScriptSocket ==
    ASSUME TypeOK, NEW t \in Tabs, Script(t), WebSocketEvent(t)
    PROVE  Script(t)'
<1>1. /\ call[t] \in [Callers -> Requests] /\ Socket \in Callers
      /\ isRefreshing[t] \in BOOLEAN /\ access \in BOOLEAN /\ refresh \in BOOLEAN
      /\ attempts[t] \in 0..3
  BY DEF TypeOK, MAX_RECONNECT_ATTEMPTS
<1>2. \A r : Put(t, Socket, r) => call'[t] = [call[t] EXCEPT ![Socket] = r]
  BY <1>1 DEF Put, TypeOK
<1>3. Unflag(t) => isRefreshing'[t] = FALSE
  BY DEF Unflag, TypeOK
<1>4. \A s : socket' = [socket EXCEPT ![t] = s] => socket'[t] = s
  BY DEF TypeOK
<1>5. \A a : attempts' = [attempts EXCEPT ![t] = a] => attempts'[t] = a
  BY DEF TypeOK
<1>6. handleTokenExpired(t) \/ StillHere
  BY DEF WebSocketEvent, SocketOpen, SocketClosed, SocketExpired, SocketRefreshOk,
         SocketRefreshFails, reconnectWebSocket
<1>7. (currentUser'[t] = currentUser[t] /\ nav'[t] = nav[t]) \/ nav'[t] # None
  BY <1>6, UserKept
<1>8. One(isRefreshing[t], call[t]) /\ (Refreshing(t, Socket) => socket[t] = "closed")
  BY DEF Script
<1>9. CASE SocketOpen(t)
  <2>1. socket[t] = "connecting" /\ socket'[t] = "open" /\ attempts'[t] = 0
    BY <1>4, <1>5, <1>9 DEF SocketOpen, Opened
  <2>2. UNCHANGED <<isRefreshing, call>>
    BY <1>9 DEF SocketOpen
  <2> QED
    BY <1>7, <1>8, <2>1, <2>2 DEF Script, Refreshing
<1>10. CASE SocketClosed(t)
  <2>1. socket[t] # "closed" /\ socket[t] # "none" /\ socket'[t] = "closed"
    BY <1>4, <1>10 DEF SocketClosed
  <2>2. UNCHANGED <<isRefreshing, call, attempts>>
    BY <1>10 DEF SocketClosed
  <2> QED
    BY <1>7, <1>8, <2>1, <2>2 DEF Script, Refreshing
<1>11. CASE SocketExpired(t)
  <2>1. /\ WsExpiry /\ socket[t] # "closed" /\ socket[t] # "none" /\ socket'[t] = "closed"
        /\ attempts'[t] = 0
    BY <1>4, <1>5, <1>11 DEF SocketExpired, Opened, Script
  <2>2. CASE SendRefresh(t, Socket)
    <3>1. isRefreshing[t] = FALSE /\ isRefreshing'[t] = TRUE
      BY <1>1, <2>2 DEF SendRefresh, MayRefresh, TypeOK
    <3>2. call'[t] = [call[t] EXCEPT ![Socket] = Request("refresh", refresh)]
      BY <1>2, <2>2 DEF SendRefresh
    <3>3. One(isRefreshing'[t], call'[t])
      <4>1. One(FALSE, call[t])
        BY <1>8, <3>1
      <4>2. One(TRUE, [call[t] EXCEPT ![Socket] = Request("refresh", refresh)])
        BY <1>1, <4>1, OneSends
      <4> QED
        BY <3>1, <3>2, <4>2
    <3>4. call'[t][Socket].at = "refresh"
      BY <1>1, <3>2
    <3> QED
      BY <1>7, <2>1, <3>3, <3>4 DEF Script, Refreshing
  <2>3. CASE UNCHANGED <<isRefreshing, call>>
    BY <1>7, <1>8, <2>1, <2>3 DEF Script, Refreshing
  <2> QED
    BY <1>11, <2>2, <2>3 DEF SocketExpired
<1>12. ASSUME Unflag(t), Put(t, Socket, Idle), call[t][Socket].at = "refresh"
       PROVE  /\ One(isRefreshing'[t], call'[t]) /\ call'[t][Socket].at = "idle"
              /\ socket[t] = "closed" /\ attempts[t] = 0
  <2>1. call'[t] = [call[t] EXCEPT ![Socket] = Idle] /\ isRefreshing'[t] = FALSE
    BY <1>2, <1>3, <1>12
  <2>2. Idle \in Requests /\ Idle.at = "idle"
    BY DEF Requests
  <2>3. One(FALSE, [call[t] EXCEPT ![Socket] = Idle])
    <3> HIDE DEF Idle
    <3> QED
      BY <1>1, <1>8, <1>12, <2>2, OneReturns
  <2> QED
    BY <1>1, <1>12, <2>1, <2>2, <2>3 DEF Script, Refreshing
<1>13. CASE SocketRefreshOk(t)
  <2>1. Unflag(t) /\ Put(t, Socket, Idle) /\ call[t][Socket].at = "refresh"
    BY <1>13 DEF SocketRefreshOk
  <2>2. /\ attempts'[t] = 1 /\ socket'[t] = "connecting"
    <3>1. attempts[t] = 0
      BY <1>12, <2>1
    <3>2. attempts' = [attempts EXCEPT ![t] = 1] /\ socket' = [socket EXCEPT ![t] = "connecting"]
      BY <1>13, <3>1 DEF SocketRefreshOk, reconnectWebSocket, MAX_RECONNECT_ATTEMPTS, Handshake
    <3> QED
      BY <1>4, <1>5, <3>2
  <2>3. socket[t] # "none" /\ (socket[t] # "none" /\ ~currentUser[t] => nav[t] # None)
    BY <1>12, <2>1 DEF Script
  <2> QED
    BY <1>7, <1>12, <2>1, <2>2, <2>3 DEF Script, Refreshing
<1>14. CASE SocketRefreshFails(t)
  <2>1. Unflag(t) /\ Put(t, Socket, Idle) /\ call[t][Socket].at = "refresh"
    BY <1>14 DEF SocketRefreshFails
  <2>2. UNCHANGED <<socket, attempts>>
    BY <1>14 DEF SocketRefreshFails
  <2> QED
    BY <1>7, <1>12, <2>1, <2>2 DEF Script, Refreshing
<1> QED
  BY <1>9, <1>10, <1>11, <1>13, <1>14 DEF WebSocketEvent

\* A page load brings the invariant of its tab.
LEMMA ScriptLoad ==
    ASSUME TypeOK, NEW t \in Tabs, Load(t)
    PROVE  Script(t)'
<1> DEFINE chatting == nav[t] = "chat" /\ isAuthenticated
<1>1. /\ currentUser'[t] = chatting /\ isRefreshing'[t] = FALSE /\ attempts'[t] = 0
      /\ call'[t] = [k \in Callers |-> Idle]
  BY DEF Load, TypeOK
<1>2. socket'[t] = IF chatting THEN Handshake(access) ELSE "none"
  BY DEF Load, TypeOK
<1>3. \A k \in Callers : call'[t][k].at = "idle"
  BY <1>1
<1>4. socket'[t] # "open" /\ (socket'[t] # "none" => currentUser'[t])
  BY <1>1, <1>2 DEF Handshake
<1> QED
  BY <1>1, <1>3, <1>4 DEF Script, One, Refreshing

\* So do the other steps that are not the script's own, in every tab.
LEMMA ScriptRest ==
    ASSUME TypeOK, NEW t \in Tabs, Script(t),
           \/ UserStep \/ \E u \in Tabs : FormStep(u) \/ LogoutReturns(u)
           \/ LoginElsewhere \/ LogoutElsewhere \/ ExpireAccess \/ ExpireRefresh
    PROVE  Script(t)'
<1>1. UNCHANGED <<isRefreshing, call, socket, attempts>>
  BY DEF UserStep, Visit, Submit, ClickLogout, FormStep, LoginOk, RegisterOk, FormFails, Redirect,
         OnlyForm, LogoutReturns, LoginElsewhere, LogoutElsewhere, ExpireAccess, ExpireRefresh
<1>2. (currentUser'[t] = currentUser[t] /\ nav'[t] = nav[t]) \/ nav'[t] # None
  <2> USE DEF navigateTo, StillHere, handleTokenExpired, clearAuth, TypeOK
  <2>1. CASE UserStep
    BY <2>1 DEF UserStep, Visit, Submit, ClickLogout
  <2>2. ASSUME NEW u \in Tabs, LoginOk(u) PROVE <1>2!1 \/ <1>2!2
    BY <2>2 DEF LoginOk
  <2>3. ASSUME NEW u \in Tabs, RegisterOk(u) \/ FormFails(u) \/ Redirect(u) PROVE <1>2!1 \/ <1>2!2
    BY <2>3 DEF RegisterOk, FormFails, Redirect
  <2>4. ASSUME NEW u \in Tabs, LogoutReturns(u) PROVE <1>2!1 \/ <1>2!2
    BY <2>4 DEF LogoutReturns
  <2>5. CASE LoginElsewhere \/ LogoutElsewhere \/ ExpireAccess \/ ExpireRefresh
    BY <2>5 DEF LoginElsewhere, LogoutElsewhere, ExpireAccess, ExpireRefresh
  <2> QED
    BY <2>1, <2>2, <2>3, <2>4, <2>5 DEF FormStep
<1> QED
  BY <1>1, <1>2, SameKept DEF SameScript

\* The script's steps in one tab leave the script of the others alone.
LEMMA OtherTabs ==
    ASSUME TypeOK, NEW t \in Tabs, NEW u \in Tabs, t # u,
           Load(u) \/ WebSocketEvent(u) \/ \E k \in Checks : Tick(u, k) \/ checkAuthStatus(u, k)
    PROVE  SameScript(t)
<1> USE DEF TypeOK, SameScript, navigateTo, StillHere, handleTokenExpired, NoUser, clearAuth,
            Unflag, Put, SendRefresh
<1>1. CASE Load(u)
  BY <1>1 DEF Load
<1>2. CASE WebSocketEvent(u)
  <2> USE DEF OnlySocket, Opened
  <2>1. CASE SocketOpen(u) \/ SocketClosed(u)
    BY <2>1 DEF SocketOpen, SocketClosed
  <2>2. CASE SocketExpired(u)
    BY <2>2 DEF SocketExpired
  <2>3. CASE SocketRefreshOk(u)
    BY <2>3 DEF SocketRefreshOk, reconnectWebSocket
  <2>4. CASE SocketRefreshFails(u)
    BY <2>4 DEF SocketRefreshFails
  <2> QED
    BY <1>2, <2>1, <2>2, <2>3, <2>4 DEF WebSocketEvent
<1>3. ASSUME NEW k \in Checks, Tick(u, k) \/ checkAuthStatus(u, k) PROVE SameScript(t)
  BY <1>3 DEF Tick, checkAuthStatus, MeOk, MeUnauthorized, MeFails, CheckRefreshOk,
              CheckRefreshUnauthorized, CheckRefreshFails, Expired, OnlyCheck
<1> QED
  BY <1>1, <1>2, <1>3

\* Every step keeps the invariant.
LEMMA InvStep == IInv /\ [Next]_vars => IInv'
<1> SUFFICES ASSUME IInv, [Next]_vars PROVE IInv'
  OBVIOUS
<1>1. TypeOK /\ TypeOK' /\ \A t \in Tabs : Script(t)
  BY ByTab, TypeStep
<1>2. ASSUME NEW t \in Tabs PROVE Script(t)'
  <2>1. Script(t)
    BY <1>1
  <2>2. CASE UNCHANGED vars
    BY <2>1, <2>2, SameKept DEF vars, SameScript
  <2>3. ASSUME NEW u \in Tabs,
               Load(u) \/ WebSocketEvent(u) \/ \E k \in Checks : Tick(u, k) \/ checkAuthStatus(u, k)
        PROVE  Script(t)'
    <3>1. CASE t = u
      BY <1>1, <2>1, <2>3, <3>1, ScriptLoad, ScriptSocket, ScriptCheck
    <3>2. CASE t # u
      BY <1>1, <2>1, <2>3, <3>2, OtherTabs, SameKept
    <3> QED
      BY <3>1, <3>2
  <2>4. CASE \/ UserStep \/ \E u \in Tabs : FormStep(u) \/ LogoutReturns(u)
             \/ LoginElsewhere \/ LogoutElsewhere \/ ExpireAccess \/ ExpireRefresh
    BY <1>1, <2>1, <2>4, ScriptRest
  <2> QED
    BY <2>2, <2>3, <2>4 DEF Next
<1>3. (\A t \in Tabs : Script(t))'
  BY <1>2
<1> QED
  <2>1. OneRefresh'
    BY <1>3 DEF OneRefresh, Script, One, Refreshing
  <2>2. SocketCaller'
    BY <1>3 DEF SocketCaller, Script, Refreshing
  <2>3. ChatHasUser' /\ CounterReset'
    BY <1>3 DEF ChatHasUser, CounterReset, Script
  <2> QED
    BY <1>1, <2>1, <2>2, <2>3 DEF IInv

\* A browser without tabs satisfies the invariant.
LEMMA InvInit == Init => IInv
<1> SUFFICES ASSUME Init PROVE IInv
  OBVIOUS
<1>1. ASSUME NEW t \in Tabs PROVE Script(t)
  <2>1. \A k \in Callers : call[t][k].at = "idle"
    BY DEF Init
  <2>2. One(isRefreshing[t], call[t])
    <3>1. isRefreshing[t] = FALSE
      BY DEF Init
    <3>2. One(FALSE, call[t])
      BY <2>1 DEF One
    <3> QED
      BY <3>1, <3>2
  <2>3. call[t][Socket].at = "idle"
    BY <2>1
  <2>4. socket[t] = "none" /\ attempts[t] = 0
    BY DEF Init
  <2> QED
    BY <2>2, <2>3, <2>4 DEF Script, Refreshing
<1>2. TypeOK
  BY TypeInit
<1> QED
  BY <1>1, <1>2, ByTab

\* The invariant holds in every reachable state.
THEOREM Invariant == Spec => []IInv
<1> QED
  BY InvInit, InvStep, PTL DEF Spec

\* However many checks of a tab overlap, and however their answers come, at most
\* one of them refreshes, and the flag isRefreshing is up exactly then.
THEOREM OneRefreshAtATime == Spec => []OneRefresh
<1>1. IInv => OneRefresh
  BY DEF IInv
<1> QED
  BY <1>1, Invariant, PTL

\* No page with a WebSocket is left without its user.
THEOREM ChatKnowsUser == Spec => []ChatHasUser
<1>1. IInv => ChatHasUser
  BY DEF IInv
<1> QED
  BY <1>1, Invariant, PTL

\* The counter of reconnections never gets beyond its first step.
THEOREM CounterStaysReset == Spec => []CounterReset
<1>1. IInv => CounterReset
  BY DEF IInv
<1> QED
  BY <1>1, Invariant, PTL
-----------------------------------------------------------------------------
(* What ends a session                                                     *)

\* A step of tab t that ends the session gives one of the reasons.
Reason(t) ==
    /\ nav'[t] = "login"
    /\ \/ LogoutReturned(t) \/ Overlapped(t)
       \/ \E k \in Callers : Refused(t, k) \/ Failed(t, k) \/ Stranger(t, k)

\* What a step must not do to the session.
Ends ==
    stored /\ ~stored' =>
       \/ Elsewhere /\ ended' /\ UNCHANGED <<page, nav, scriptVars>>
       \/ \E t \in Tabs : Reason(t)

\* The flag is up only while some caller waits for a refresh.
LEMMA FlagCaller ==
    ASSUME IInv, NEW t \in Tabs, ~MayRefresh(t)
    PROVE  \E j \in Callers : Refreshing(t, j)
  BY DEF IInv, OneRefresh, MayRefresh

\* Where the session ends, the tab goes to the login page.
LEMMA EndLeaves ==
    ASSUME TypeOK, NEW t \in Tabs, handleTokenExpired(t) \/ NoUser(t) \/ StillHere,
           stored, ~stored'
    PROVE  nav'[t] = "login"
  BY DEF TypeOK, handleTokenExpired, NoUser, StillHere, navigateTo

\* The answers to a check.
LEMMA CheckEnds ==
    ASSUME IInv, NEW t \in Tabs, NEW k \in Checks, checkAuthStatus(t, k)
    PROVE  Ends
<1> SUFFICES ASSUME stored, ~stored' PROVE Reason(t)
  BY DEF Ends
<1>1. TypeOK /\ k \in Callers
  BY DEF IInv
<1>2. Put(t, k, Idle) => call'[t] = [call[t] EXCEPT ![k] = Idle] /\ call'[t][k] = Idle
  BY <1>1 DEF Put, TypeOK
<1>3. CASE MeOk(t, k)
  <2>1. nav'[t] = "login"
    BY <1>1, <1>3, EndLeaves DEF MeOk
  <2>2. Stranger(t, k)
    BY <1>2, <1>3 DEF MeOk, StillHere, Stranger, Back
  <2> QED
    BY <1>1, <2>1, <2>2 DEF Reason
<1>4. CASE MeUnauthorized(t, k)
  <2>1. ~MayRefresh(t) /\ Put(t, k, Idle) /\ NoUser(t) /\ call[t][k] = Request("me", FALSE)
    BY <1>4 DEF MeUnauthorized, StillHere
  <2>2. PICK j \in Callers : Refreshing(t, j)
    BY <2>1, FlagCaller
  <2>3. j # k /\ call'[t][j] = call[t][j]
    <3>1. j # k
      BY <2>1, <2>2 DEF Refreshing
    <3> QED
      BY <1>1, <1>2, <2>1, <3>1 DEF TypeOK
  <2>4. Overlapped(t)
    <3>1. Back(t, k, Request("me", FALSE))
      BY <1>2, <2>1 DEF Back
    <3>2. Refreshing(t, j)'
      BY <2>2, <2>3 DEF Refreshing
    <3> QED
      BY <2>2, <3>1, <3>2 DEF Overlapped
  <2> QED
    BY <1>1, <2>1, <2>4, EndLeaves DEF Reason
<1>5. CASE MeFails(t, k) \/ CheckRefreshFails(t, k)
  <2>1. Failed(t, k)
    BY <1>2, <1>5 DEF MeFails, CheckRefreshFails, Failed
  <2>2. NoUser(t)
    BY <1>5 DEF MeFails, CheckRefreshFails
  <2> QED
    BY <1>1, <2>1, <2>2, EndLeaves DEF Reason
<1>6. CASE CheckRefreshOk(t, k)
  BY <1>6 DEF CheckRefreshOk, StillHere
<1>7. CASE CheckRefreshUnauthorized(t, k)
  <2>1. Refused(t, k)
    BY <1>2, <1>7 DEF CheckRefreshUnauthorized, Refused, Back
  <2>2. handleTokenExpired(t)
    BY <1>7 DEF CheckRefreshUnauthorized, Expired
  <2> QED
    BY <1>1, <2>1, <2>2, EndLeaves DEF Reason
<1> QED
  BY <1>3, <1>4, <1>5, <1>6, <1>7 DEF checkAuthStatus

\* The events of a WebSocket: the limit on reconnections is not reached.
LEMMA SocketEnds ==
    ASSUME IInv, NEW t \in Tabs, WebSocketEvent(t)
    PROVE  Ends
<1> SUFFICES ASSUME stored, ~stored' PROVE Reason(t)
  BY DEF Ends
<1>1. TypeOK /\ Socket \in Callers
  BY DEF IInv
<1>2. CASE SocketOpen(t) \/ SocketClosed(t)
  BY <1>2 DEF SocketOpen, SocketClosed, StillHere
<1>3. CASE SocketExpired(t)
  <2>1. ~MayRefresh(t) /\ UNCHANGED call /\ handleTokenExpired(t)
    BY <1>3 DEF SocketExpired, StillHere
  <2>2. WsExpiry /\ socket[t] \in {"doomed", "open"} /\ socket'[t] = "closed"
    BY <1>1, <1>3 DEF SocketExpired, TypeOK
  <2>3. Overlapped(t)
    BY <2>1, <2>2, FlagCaller DEF Overlapped, Refreshing
  <2> QED
    BY <1>1, <2>1, <2>3, EndLeaves DEF Reason
<1>4. CASE SocketRefreshOk(t)
  <2>1. attempts[t] < MAX_RECONNECT_ATTEMPTS
    <3>1. attempts[t] \in 0..3
      BY <1>1 DEF TypeOK, MAX_RECONNECT_ATTEMPTS
    <3>2. attempts[t] <= 1
      BY DEF IInv, CounterReset
    <3> QED
      BY <3>1, <3>2 DEF MAX_RECONNECT_ATTEMPTS
  <2>2. StillHere
    BY <1>4, <2>1 DEF SocketRefreshOk, reconnectWebSocket
  <2> QED
    BY <2>2 DEF StillHere
<1>5. CASE SocketRefreshFails(t)
  <2>1. Put(t, Socket, Idle) => call'[t][Socket] = Idle
    BY <1>1 DEF Put, TypeOK
  <2>2. Refused(t, Socket) \/ Failed(t, Socket)
    BY <1>5, <2>1 DEF SocketRefreshFails, Refused, Failed, Back
  <2>3. handleTokenExpired(t)
    BY <1>5 DEF SocketRefreshFails
  <2> QED
    BY <1>1, <2>2, <2>3, EndLeaves DEF Reason
<1> QED
  BY <1>2, <1>3, <1>4, <1>5 DEF WebSocketEvent

\* Every step that ends the session has a reason.
LEMMA EndsStep == IInv /\ [Next]_vars => Ends
<1> SUFFICES ASSUME IInv, [Next]_vars PROVE Ends
  OBVIOUS
<1>1. TypeOK
  BY DEF IInv
<1>2. CASE UNCHANGED vars
  BY <1>2 DEF vars, Ends
<1>3. CASE UserStep \/ LoginElsewhere \/ ExpireAccess \/ ExpireRefresh
  BY <1>3 DEF UserStep, Visit, Submit, ClickLogout, LoginElsewhere, ExpireAccess, ExpireRefresh, Ends
<1>4. CASE LogoutElsewhere
  BY <1>4 DEF LogoutElsewhere, Ends
<1>5. ASSUME NEW t \in Tabs, Load(t) \/ FormStep(t) PROVE Ends
  BY <1>5 DEF Load, FormStep, LoginOk, RegisterOk, FormFails, Redirect, StillHere, Ends
<1>6. ASSUME NEW t \in Tabs, LogoutReturns(t) PROVE Ends
  <2>1. LogoutReturned(t) /\ handleTokenExpired(t)
    BY <1>1, <1>6 DEF LogoutReturns, LogoutReturned, TypeOK
  <2> QED
    BY <1>1, <2>1, EndLeaves DEF Ends, Reason
<1>7. ASSUME NEW t \in Tabs, NEW k \in Checks, Tick(t, k) PROVE Ends
  BY <1>7 DEF Tick, StillHere, Ends
<1> QED
  BY <1>2, <1>3, <1>4, <1>5, <1>6, <1>7, CheckEnds, SocketEnds DEF Next

\* In any number of tabs, with any overlap of checks, failures of requests and servers
\* that close WebSockets with 4001: a session ends only by a logout, by a refresh that
\* is refused, by a request that fails (where requests may fail), by a second attempt
\* to refresh during another (auth.js, refreshAccessToken), or by an accepted check of
\* a tab that does not know its user (auth.js, checkAuthStatus).
THEOREM SessionsEnd == Spec => SessionEnds
<1>1. IInv /\ [Next]_vars => [Ends]_vars
  BY EndsStep
<1>2. [][Ends]_vars => SessionEnds
  BY PTL DEF Ends, Reason, SessionEnds
<1> QED
  BY <1>1, <1>2, Invariant, PTL DEF Spec
-----------------------------------------------------------------------------
(* After a logout                                                          *)

\* A confirmed logout has taken the refresh token, and only a login sets it.
LoggedOut == ended => ~refresh

LEMMA LoggedOutInit == Init => LoggedOut
  BY DEF Init, LoggedOut

LEMMA LoggedOutStep ==
    ASSUME LoggedOut, [Next]_vars
    PROVE  LoggedOut'
<1> USE DEF LoggedOut
<1>1. CASE UNCHANGED vars
  BY <1>1 DEF vars
<1>2. CASE UserStep \/ LoginElsewhere \/ LogoutElsewhere \/ ExpireAccess \/ ExpireRefresh
  BY <1>2 DEF UserStep, Visit, Submit, ClickLogout, LoginElsewhere, LogoutElsewhere, LogoutHandler,
              ExpireAccess, ExpireRefresh
<1>3. ASSUME NEW t \in Tabs, Load(t) \/ FormStep(t) \/ LogoutReturns(t) PROVE LoggedOut'
  BY <1>3 DEF Load, FormStep, LoginOk, RegisterOk, FormFails, Redirect, LogoutReturns, LogoutHandler
<1>4. ASSUME NEW t \in Tabs, WebSocketEvent(t) PROVE LoggedOut'
  BY <1>4 DEF WebSocketEvent, SocketOpen, SocketClosed, SocketExpired, SocketRefreshOk,
              SocketRefreshFails, OnlySocket
<1>5. ASSUME NEW t \in Tabs, NEW k \in Checks, Tick(t, k) \/ checkAuthStatus(t, k) PROVE LoggedOut'
  BY <1>5 DEF Tick, checkAuthStatus, MeOk, MeUnauthorized, MeFails, CheckRefreshOk,
              CheckRefreshUnauthorized, CheckRefreshFails
<1> QED
  BY <1>1, <1>2, <1>3, <1>4, <1>5 DEF Next

\* The caller k of t waits for a refresh that will be granted.
Grants(t, k) == call[t][k] = Request("refresh", TRUE)

\* No refresh that will be granted is new, and the access token comes only from one.
Late ==
    /\ \A t \in Tabs, k \in Callers : Grants(t, k)' => Grants(t, k)
    /\ ~access /\ access' => \E t \in Tabs, k \in Callers : Grants(t, k) /\ ~Grants(t, k)'

\* A request that is not a granted refresh takes the place of another.
LEMMA PutLate ==
    ASSUME TypeOK, NEW t \in Tabs, NEW k \in Callers, NEW r, Put(t, k, r),
           r # Request("refresh", TRUE), ~access /\ access' => Grants(t, k)
    PROVE  Late
<1>1. \A u \in Tabs, j \in Callers : call'[u][j] = IF u = t /\ j = k THEN r ELSE call[u][j]
  BY DEF Put, TypeOK
<1> QED
  BY <1>1 DEF Late, Grants

\* Where no request is sent and no cookie set, there is nothing to show.
LEMMA SameLate ==
    ASSUME UNCHANGED <<call, access>> \/ (UNCHANGED call /\ ~access')
    PROVE  Late
  BY DEF Late, Grants

\* After a logout every refresh is sent without a token.
LEMMA LateStep ==
    ASSUME TypeOK, LoggedOut, [Next]_vars, ended, ended'
    PROVE  Late
<1>1. CASE UNCHANGED vars
  BY <1>1, SameLate DEF vars
<1>2. CASE UserStep \/ LoginElsewhere \/ LogoutElsewhere \/ ExpireAccess \/ ExpireRefresh
  BY <1>2, SameLate DEF UserStep, Visit, Submit, ClickLogout, LoginElsewhere, LogoutElsewhere,
              LogoutHandler, ExpireAccess, ExpireRefresh
<1>3. ASSUME NEW t \in Tabs, Load(t) PROVE Late
  BY <1>3 DEF Load, TypeOK, Late, Grants
<1>4. ASSUME NEW t \in Tabs, FormStep(t) \/ LogoutReturns(t) PROVE Late
  BY <1>4, SameLate DEF FormStep, LoginOk, RegisterOk, FormFails, Redirect, OnlyForm, LogoutReturns,
              LogoutHandler
<1>5. ASSUME NEW t \in Tabs, NEW k \in Callers, SendRefresh(t, k), UNCHANGED access PROVE Late
  BY <1>5, PutLate DEF SendRefresh, LoggedOut
<1>6. ASSUME NEW t \in Tabs, WebSocketEvent(t) PROVE Late
  <2>1. CASE SocketOpen(t) \/ SocketClosed(t)
    BY <2>1, SameLate DEF SocketOpen, SocketClosed, OnlySocket
  <2>2. CASE SocketExpired(t)
    BY <2>2, <1>5, SameLate DEF SocketExpired, OnlySocket
  <2>3. CASE SocketRefreshOk(t)
    BY <2>3, PutLate DEF SocketRefreshOk, Grants
  <2>4. CASE SocketRefreshFails(t)
    BY <2>4, PutLate DEF SocketRefreshFails, OnlySocket
  <2> QED
    BY <1>6, <2>1, <2>2, <2>3, <2>4 DEF WebSocketEvent
<1>7. ASSUME NEW t \in Tabs, NEW k \in Checks, Tick(t, k) PROVE Late
  BY <1>7, PutLate DEF Tick
<1>8. ASSUME NEW t \in Tabs, NEW k \in Checks, checkAuthStatus(t, k) PROVE Late
  <2>1. CASE MeUnauthorized(t, k) /\ SendRefresh(t, k)
    BY <2>1, <1>5 DEF MeUnauthorized
  <2>2. CASE CheckRefreshOk(t, k)
    BY <2>2, PutLate DEF CheckRefreshOk, AfterRefresh, Grants
  <2>3. CASE Put(t, k, Idle) /\ UNCHANGED access
    BY <2>3, PutLate
  <2> QED
    BY <1>8, <2>1, <2>2, <2>3 DEF checkAuthStatus, MeOk, MeUnauthorized, MeFails,
                                  CheckRefreshUnauthorized, CheckRefreshFails
<1> QED
  BY <1>1, <1>2, <1>3, <1>4, <1>6, <1>7, <1>8 DEF Next

\* After a logout, in however many tabs, the access token comes back at most once for
\* each refresh that was under way, and none is added to them before the next login:
\* what the logout handler and the cookies guarantee although answers may be late.
THEOREM LogoutsHold == Spec => LateRefreshes
<1> DEFINE After == ended /\ ended' =>
                      /\ Granted' \subseteq Granted
                      /\ ~access /\ access' => Granted' # Granted
<1>1. ASSUME Late PROVE Granted' \subseteq Granted /\ (~access /\ access' => Granted' # Granted)
  <2>1. \A t \in Tabs, k \in Callers : /\ <<t, k>> \in Granted <=> Grants(t, k)
                                       /\ <<t, k>> \in Granted' <=> Grants(t, k)'
    BY DEF Granted, Grants
  <2>2. Granted \subseteq Tabs \X Callers /\ Granted' \subseteq Tabs \X Callers
    BY DEF Granted
  <2>3. ASSUME NEW x \in Granted' PROVE x \in Granted
    <3>1. PICK t \in Tabs, k \in Callers : x = <<t, k>>
      BY <2>2
    <3> QED
      BY <1>1, <2>1, <2>3, <3>1 DEF Late
  <2>4. ASSUME ~access, access' PROVE Granted' # Granted
    <3>1. PICK t \in Tabs, k \in Callers : Grants(t, k) /\ ~Grants(t, k)'
      BY <1>1, <2>4 DEF Late
    <3> QED
      BY <2>1, <3>1
  <2> QED
    BY <2>3, <2>4
<1>2. IInv /\ LoggedOut /\ [Next]_vars => [After]_vars
  BY <1>1, LateStep DEF IInv
<1>3. IInv /\ LoggedOut /\ [Next]_vars => LoggedOut'
  BY LoggedOutStep
<1>4. [][After]_vars => LateRefreshes
  BY PTL DEF After, LateRefreshes
<1> QED
  BY <1>2, <1>3, <1>4, Invariant, LoggedOutInit, PTL DEF Spec
=============================================================================
