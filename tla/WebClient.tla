----------------------------- MODULE WebClient -----------------------------
(***************************************************************************)
(* The browser side: the pages of the chat in the tabs of one browser, the *)
(* script they share (web/static/js/auth.js) and the chat page's WebSocket *)
(* (web/templates/html/index.html).  Tabs share the cookies and the local  *)
(* storage; each has its own script state, which a page load resets.       *)
(* Script code runs to completion between two awaits, so a step is one     *)
(* event: a timer, an answer, a click, a page load.  The servers are the   *)
(* answers their handlers can give (internal/handlers/handlers.go).  A     *)
(* request carries the cookie as it was when it was sent ("with"); the     *)
(* answer's cookies are set when it arrives.                               *)
(***************************************************************************)
EXTENDS Naturals

CONSTANTS
    Tabs,      \* the tabs of the browser
    Checks,    \* periodic checks of one tab that may be under way together
    Socket,    \* the caller of refreshAccessToken that handles an expired WebSocket
    None,      \* no navigation under way
    Failures,  \* may requests fail other than by 401 (network, proxy, 5xx)?
    WsExpiry,  \* does a server close the WebSocket of an expired token with 4001?
    Elsewhere  \* may a tab that is not modelled log in and out?

ASSUME CallersAssumption == Socket \notin Checks
ASSUME NavAssumption == None \notin {"login", "register", "chat"}
ASSUME SwitchAssumption == {Failures, WsExpiry, Elsewhere} \subseteq BOOLEAN

VARIABLES
    page,          \* page[t]: the page loaded in the tab, or "closed"
    nav,           \* nav[t]: the page being loaded, or None
    currentUser,   \* currentUser[t]: does the script know its user?
    isRefreshing,  \* isRefreshing[t]
    call,          \* call[t][k]: where a check, or handleWsTokenExpired, is
    form,          \* form[t]: "sent" (login or register), "redirect" (setTimeout)
    leaving,       \* leaving[t]: a logout request is under way
    socket,        \* socket[t]: the chat page's WebSocket
    attempts,      \* reconnectAttempts[t]
    stored,        \* does the local storage hold USER_KEY?
    access,        \* does the browser hold a live auth_token cookie?
    refresh,       \* does it hold a live refresh_token cookie?
    ended          \* history: a logout was confirmed, and no login since

scriptVars == <<currentUser, isRefreshing, call, form, leaving, socket, attempts>>
cookieVars == <<access, refresh, ended>>
vars == <<page, nav, scriptVars, stored, cookieVars>>

Pages == {"login", "register", "chat"}
Callers == Checks \cup {Socket}
MAX_RECONNECT_ATTEMPTS == 3

\* A request on its way: which, and whether its cookie went with it.
Request(at, with) == [at |-> at, with |-> with]
Idle == Request("idle", FALSE)

\* The handshake of a new WebSocket; the middleware refuses one without a token.
Handshake(with) == IF with THEN "connecting" ELSE "doomed"

isAuthenticated == stored
-----------------------------------------------------------------------------
Init ==
    /\ page = [t \in Tabs |-> "closed"] /\ nav = [t \in Tabs |-> None]
    /\ currentUser = [t \in Tabs |-> FALSE] /\ isRefreshing = [t \in Tabs |-> FALSE]
    /\ call = [t \in Tabs |-> [k \in Callers |-> Idle]]
    /\ form = [t \in Tabs |-> {}] /\ leaving = [t \in Tabs |-> FALSE]
    /\ socket = [t \in Tabs |-> "none"] /\ attempts = [t \in Tabs |-> 0]
    /\ stored = FALSE /\ access = FALSE /\ refresh = FALSE /\ ended = FALSE
-----------------------------------------------------------------------------
(* What the script's functions do to its state                             *)

navigateTo(t, p) == nav' = [nav EXCEPT ![t] = p]

clearAuthStorageKept(t) == stored' = stored /\ currentUser' = [currentUser EXCEPT ![t] = FALSE]
clearAuth(t) == stored' = FALSE /\ currentUser' = [currentUser EXCEPT ![t] = FALSE]

handleTokenExpired(t) == clearAuth(t) /\ navigateTo(t, "login")

StillHere == UNCHANGED <<stored, currentUser, nav>>

\* The callback of the periodic check, once checkAuthStatus returned null.
NoUser(t) == IF isAuthenticated THEN handleTokenExpired(t) ELSE StillHere

Put(t, k, request) == call' = [call EXCEPT ![t][k] = request]

UnflagForgotten(t) == UNCHANGED isRefreshing
\* The finally of refreshAccessToken.
Unflag(t) == isRefreshing' = [isRefreshing EXCEPT ![t] = FALSE]

\* refreshAccessToken sends its request, unless one of this tab is under way.
MayAlwaysRefresh(t) == TRUE
MayRefresh(t) == ~isRefreshing[t]
SendRefresh(t, k) ==
    /\ MayRefresh(t)
    /\ isRefreshing' = [isRefreshing EXCEPT ![t] = TRUE]
    /\ Put(t, k, Request("refresh", refresh))
-----------------------------------------------------------------------------
(* Page loads                                                              *)

\* The user opens, reloads or goes back to a page, or follows a link.
Visit(t, p) ==
    /\ navigateTo(t, p)
    /\ UNCHANGED <<page, scriptVars, stored, cookieVars>>

Destination(p) ==
    CASE p # "chat" /\ isAuthenticated -> "chat"
      [] p = "chat" /\ ~isAuthenticated -> "login"
      [] OTHER -> None

\* The new page's script starts, and the requests of the old page are dropped:
\* handleInitialLoad may redirect, and the chat page of a known user connects.
Load(t) ==
    LET p == nav[t]
        chatting == p = "chat" /\ isAuthenticated
    IN
    /\ p # None
    /\ page' = [page EXCEPT ![t] = p]
    /\ navigateTo(t, Destination(p))
    /\ currentUser' = [currentUser EXCEPT ![t] = chatting]
    /\ isRefreshing' = [isRefreshing EXCEPT ![t] = FALSE]
    /\ call' = [call EXCEPT ![t] = [k \in Callers |-> Idle]]
    /\ form' = [form EXCEPT ![t] = {}]
    /\ leaving' = [leaving EXCEPT ![t] = FALSE]
    /\ socket' = [socket EXCEPT ![t] = IF chatting THEN Handshake(access) ELSE "none"]
    /\ attempts' = [attempts EXCEPT ![t] = 0]
    /\ UNCHANGED <<stored, cookieVars>>
-----------------------------------------------------------------------------
(* startTokenCheck and checkAuthStatus                                     *)

OnlyCheck == UNCHANGED <<page, form, leaving, socket, attempts>>

Tick(t, k) ==
    /\ page[t] # "closed" /\ call[t][k] = Idle
    /\ Put(t, k, Request("me", access))
    /\ UNCHANGED isRefreshing /\ StillHere /\ OnlyCheck /\ UNCHANGED cookieVars

\* The answer to /auth/me names no user, so the check returns currentUser.
MeOk(t, k) ==
    /\ call[t][k] = Request("me", TRUE)
    /\ Put(t, k, Idle)
    /\ IF currentUser[t] THEN StillHere ELSE NoUser(t)
    /\ UNCHANGED isRefreshing /\ OnlyCheck /\ UNCHANGED cookieVars

MeUnauthorized(t, k) ==
    /\ call[t][k] = Request("me", FALSE)
    /\ \/ SendRefresh(t, k) /\ StillHere
       \/ ~MayRefresh(t) /\ Put(t, k, Idle) /\ UNCHANGED isRefreshing /\ NoUser(t)
    /\ OnlyCheck /\ UNCHANGED cookieVars

MeFails(t, k) ==
    /\ Failures /\ call[t][k].at = "me"
    /\ Put(t, k, Idle) /\ NoUser(t)
    /\ UNCHANGED isRefreshing /\ OnlyCheck /\ UNCHANGED cookieVars

\* The check is repeated, with the cookie the answer has just set.
AfterRefresh == Request("me", TRUE)

CheckRefreshOk(t, k) ==
    /\ k \in Checks /\ call[t][k] = Request("refresh", TRUE)
    /\ access' = TRUE
    /\ Unflag(t) /\ Put(t, k, AfterRefresh) /\ StillHere
    /\ OnlyCheck /\ UNCHANGED <<refresh, ended>>

ExpiredStays(t) == clearAuth(t) /\ UNCHANGED nav
Expired(t) == handleTokenExpired(t)

CheckRefreshUnauthorized(t, k) ==
    /\ k \in Checks /\ call[t][k] = Request("refresh", FALSE)
    /\ Unflag(t) /\ Put(t, k, Idle) /\ Expired(t)
    /\ OnlyCheck /\ UNCHANGED cookieVars

CheckRefreshFails(t, k) ==
    /\ Failures /\ k \in Checks /\ call[t][k].at = "refresh"
    /\ Unflag(t) /\ Put(t, k, Idle) /\ NoUser(t)
    /\ OnlyCheck /\ UNCHANGED cookieVars

checkAuthStatus(t, k) ==
    \/ MeOk(t, k) \/ MeUnauthorized(t, k) \/ MeFails(t, k)
    \/ CheckRefreshOk(t, k) \/ CheckRefreshUnauthorized(t, k) \/ CheckRefreshFails(t, k)
-----------------------------------------------------------------------------
(* The forms, and logout                                                   *)

\* The submit button is disabled while a request is under way.
Submit(t) ==
    /\ page[t] \in {"login", "register"} /\ "sent" \notin form[t]
    /\ form' = [form EXCEPT ![t] = @ \cup {"sent"}]
    /\ UNCHANGED <<page, nav, currentUser, isRefreshing, call, leaving, socket, attempts,
                   stored, cookieVars>>

Answered(t, then) == form' = [form EXCEPT ![t] = (@ \ {"sent"}) \cup then]
OnlyForm == UNCHANGED <<page, isRefreshing, call, leaving, socket, attempts>>

\* The answer sets both cookies; its body may still fail to arrive.
LoginOk(t) ==
    /\ page[t] = "login" /\ "sent" \in form[t]
    /\ access' = TRUE /\ refresh' = TRUE /\ ended' = FALSE
    /\ Answered(t, {})
    /\ \/ stored' = TRUE /\ currentUser' = [currentUser EXCEPT ![t] = TRUE]
          /\ navigateTo(t, "chat")
       \/ Failures /\ StillHere
    /\ OnlyForm

RegisterOk(t) ==
    /\ page[t] = "register" /\ "sent" \in form[t]
    /\ Answered(t, {"redirect"})
    /\ StillHere /\ OnlyForm /\ UNCHANGED cookieVars

\* The server rejects the form, or the request fails: the form shows the error.
FormFails(t) ==
    /\ "sent" \in form[t]
    /\ Answered(t, {})
    /\ StillHere /\ OnlyForm /\ UNCHANGED cookieVars

\* The timeout after a registration.
Redirect(t) ==
    /\ "redirect" \in form[t]
    /\ form' = [form EXCEPT ![t] = @ \ {"redirect"}]
    /\ navigateTo(t, "login")
    /\ UNCHANGED <<stored, currentUser>> /\ OnlyForm /\ UNCHANGED cookieVars

ClickLogout(t) ==
    /\ page[t] = "chat" /\ currentUser[t] /\ ~leaving[t]
    /\ leaving' = [leaving EXCEPT ![t] = TRUE]
    /\ UNCHANGED <<page, nav, currentUser, isRefreshing, call, form, socket, attempts,
                   stored, cookieVars>>

LogoutHandlerAccessOnly == access' = FALSE /\ UNCHANGED refresh
LogoutHandler == access' = FALSE /\ refresh' = FALSE

\* Whether or not the request succeeds, logout clears the tab's own state.
LogoutReturns(t) ==
    /\ leaving[t]
    /\ leaving' = [leaving EXCEPT ![t] = FALSE]
    /\ handleTokenExpired(t)
    /\ \/ LogoutHandler /\ ended' = TRUE
       \/ Failures /\ UNCHANGED cookieVars
    /\ UNCHANGED <<page, isRefreshing, call, form, socket, attempts>>
-----------------------------------------------------------------------------
(* The chat page's WebSocket                                               *)

OnlySocket == UNCHANGED <<page, form, leaving>> /\ UNCHANGED cookieVars

OpenedUncounted(t) == UNCHANGED attempts
Opened(t) == attempts' = [attempts EXCEPT ![t] = 0]

SocketOpen(t) ==
    /\ socket[t] = "connecting"
    /\ socket' = [socket EXCEPT ![t] = "open"]
    /\ Opened(t)
    /\ UNCHANGED <<isRefreshing, call>> /\ StillHere /\ OnlySocket

\* The handshake is refused or fails, or the connection is lost: the page only
\* notes that it is not connected.
SocketClosed(t) ==
    /\ \/ socket[t] = "doomed" /\ (Failures \/ ~WsExpiry)
       \/ socket[t] \in {"connecting", "open"} /\ Failures
    /\ socket' = [socket EXCEPT ![t] = "closed"]
    /\ UNCHANGED <<isRefreshing, call, attempts>> /\ StillHere /\ OnlySocket

\* Close code 4001 of a connection whose token has expired (a server sends it
\* after the upgrade, so the page saw the connection open): handleWsTokenExpired.
SocketExpired(t) ==
    /\ WsExpiry
    /\ socket[t] = "doomed" \/ (socket[t] = "open" /\ ~access)
    /\ socket' = [socket EXCEPT ![t] = "closed"]
    /\ IF socket[t] = "doomed" THEN Opened(t) ELSE UNCHANGED attempts
    /\ \/ SendRefresh(t, Socket) /\ StillHere
       \/ ~MayRefresh(t) /\ UNCHANGED <<isRefreshing, call>> /\ handleTokenExpired(t)
    /\ OnlySocket

ReconnectUnbound(t) == StillHere /\ UNCHANGED <<attempts, socket>>
reconnectWebSocket(t) ==
    IF attempts[t] < MAX_RECONNECT_ATTEMPTS
      THEN /\ attempts' = [attempts EXCEPT ![t] = @ + 1]
           /\ socket' = [socket EXCEPT ![t] = Handshake(TRUE)]
           /\ StillHere
      ELSE handleTokenExpired(t) /\ UNCHANGED <<attempts, socket>>

SocketRefreshOk(t) ==
    /\ call[t][Socket] = Request("refresh", TRUE)
    /\ access' = TRUE
    /\ Unflag(t) /\ Put(t, Socket, Idle)
    /\ reconnectWebSocket(t)
    /\ UNCHANGED <<page, form, leaving, refresh, ended>>

SocketRefreshFails(t) ==
    /\ \/ call[t][Socket] = Request("refresh", FALSE)
       \/ Failures /\ call[t][Socket].at = "refresh"
    /\ Unflag(t) /\ Put(t, Socket, Idle) /\ handleTokenExpired(t)
    /\ UNCHANGED <<socket, attempts>> /\ OnlySocket

WebSocketEvent(t) ==
    \/ SocketOpen(t) \/ SocketClosed(t) \/ SocketExpired(t)
    \/ SocketRefreshOk(t) \/ SocketRefreshFails(t)
-----------------------------------------------------------------------------
(* What changes the shared state outside the tabs                          *)

LoginElsewhere ==
    /\ Elsewhere
    /\ stored' = TRUE /\ access' = TRUE /\ refresh' = TRUE /\ ended' = FALSE
    /\ UNCHANGED <<page, nav, scriptVars>>

LogoutElsewhere ==
    /\ Elsewhere
    /\ stored' = FALSE /\ LogoutHandler /\ ended' = TRUE
    /\ UNCHANGED <<page, nav, scriptVars>>

\* The lifetimes of the cookies are those of their tokens.
ExpireAccess ==
    /\ access /\ access' = FALSE
    /\ UNCHANGED <<page, nav, scriptVars, stored, refresh, ended>>

ExpireRefresh ==
    /\ refresh /\ refresh' = FALSE
    /\ UNCHANGED <<page, nav, scriptVars, stored, access, ended>>
-----------------------------------------------------------------------------
UserStep == \E t \in Tabs : (\E p \in Pages : Visit(t, p)) \/ Submit(t) \/ ClickLogout(t)

FormStep(t) == LoginOk(t) \/ RegisterOk(t) \/ FormFails(t) \/ Redirect(t)

Next ==
    \/ UserStep
    \/ \E t \in Tabs :
          \/ Load(t) \/ FormStep(t) \/ LogoutReturns(t) \/ WebSocketEvent(t)
          \/ \E k \in Checks : Tick(t, k) \/ checkAuthStatus(t, k)
    \/ LoginElsewhere \/ LogoutElsewhere \/ ExpireAccess \/ ExpireRefresh

Spec == Init /\ [][Next]_vars
=============================================================================
