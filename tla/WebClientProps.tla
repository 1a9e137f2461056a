--------------------------- MODULE WebClientProps ---------------------------
(***************************************************************************)
(* What the pages promise their user: invariants of the script, what may   *)
(* end a session, and what must eventually happen.                         *)
(***************************************************************************)
EXTENDS WebClient

Requests == [at : {"idle", "me", "refresh"}, with : BOOLEAN]

TypeOK ==
    /\ page \in [Tabs -> Pages \cup {"closed"}]
    /\ nav \in [Tabs -> Pages \cup {None}]
    /\ currentUser \in [Tabs -> BOOLEAN] /\ isRefreshing \in [Tabs -> BOOLEAN]
    /\ call \in [Tabs -> [Callers -> Requests]]
    /\ form \in [Tabs -> SUBSET {"sent", "redirect"}]
    /\ leaving \in [Tabs -> BOOLEAN]
    /\ socket \in [Tabs -> {"none", "connecting", "doomed", "open", "closed"}]
    /\ attempts \in [Tabs -> 0..MAX_RECONNECT_ATTEMPTS]
    /\ stored \in BOOLEAN /\ access \in BOOLEAN /\ refresh \in BOOLEAN /\ ended \in BOOLEAN

Refreshing(t, k) == call[t][k].at = "refresh"

\* Of all the callers of refreshAccessToken in a tab at most one waits for the
\* server, and the flag isRefreshing is up exactly while it does: no way out of
\* the function, and no page load, leaves it up, which would make every later
\* check of the tab fail.
OneRefresh ==
    \A t \in Tabs :
        /\ isRefreshing[t] <=> \E k \in Callers : Refreshing(t, k)
        /\ \A j, k \in Callers : Refreshing(t, j) /\ Refreshing(t, k) => j = k

\* A page that shows the chat and has a WebSocket knows its user, unless it is
\* already on its way elsewhere: no answer that comes late, in this tab or in
\* another, leaves a nameless user chatting.
ChatHasUser ==
    \A t \in Tabs : socket[t] # "none" /\ ~currentUser[t] => nav[t] # None

\* The limit on reconnections never comes into play: the page only reconnects
\* after a close with code 4001, which follows an opening that reset the counter,
\* and a handshake that fails is not tried again.
CounterReset == \A t \in Tabs : attempts[t] <= 1

\* The handler of an expired WebSocket runs only where a server closes sockets with
\* 4001, and waits for its refresh beside a closed socket that had been opened.
SocketCaller ==
    \A t \in Tabs :
        /\ call[t][Socket].at # "me"
        /\ socket[t] = "open" => attempts[t] = 0
        /\ Refreshing(t, Socket) => WsExpiry /\ socket[t] = "closed" /\ attempts[t] = 0

\* The conjunction that every step preserves.
IInv == TypeOK /\ OneRefresh /\ SocketCaller /\ ChatHasUser /\ CounterReset

\* The request of caller k, and nothing after it, has been answered.
Back(t, k, request) == call[t][k] = request /\ call'[t][k] = Idle

\* The server refused k a refresh for want of a live refresh token.
Refused(t, k) == Back(t, k, Request("refresh", FALSE))

\* A request of k failed.
Failed(t, k) == Failures /\ call[t][k] # Idle /\ call'[t][k] = Idle

\* /auth/me accepted the token of a tab that does not know its user.
Stranger(t, k) == Back(t, k, Request("me", TRUE)) /\ ~currentUser[t]

\* /auth/me refused a token, or a WebSocket was closed with 4001, while the tab was
\* already waiting for a refresh, which it goes on doing.
Overlapped(t) ==
    /\ \E j \in Callers : Refreshing(t, j) /\ Refreshing(t, j)'
    /\ \/ \E k \in Checks : Back(t, k, Request("me", FALSE))
       \/ WsExpiry /\ socket[t] \in {"doomed", "open"} /\ socket'[t] = "closed"

LogoutReturned(t) == leaving[t] /\ ~leaving'[t]

\* All the ways in which a browser that was authenticated ceases to be: a logout; the
\* refusal of a refresh; and what auth.js takes for one, which is a request that fails,
\* a refresh that is already under way, and an answer that names no user.  No stale
\* flag isRefreshing, no limit on reconnections, no answer to a successful refresh
\* and no page load ends a session; and the tab that ends one goes to the login page.
SessionEnds ==
    [][stored /\ ~stored' =>
          \/ Elsewhere /\ ended' /\ UNCHANGED <<page, nav, scriptVars>>
          \/ \E t \in Tabs :
                /\ nav'[t] = "login"
                /\ \/ LogoutReturned(t) \/ Overlapped(t)
                   \/ \E k \in Callers : Refused(t, k) \/ Failed(t, k) \/ Stranger(t, k)]_vars

\* "Was authenticated but token is now invalid" (auth.js, startTokenCheck): apart from
\* a logout, and a tab that does not know its user (MeNamesUser), a session ends only
\* when the server has refused to refresh the token.
InvalidEnds ==
    [][stored /\ ~stored' =>
          \E t \in Tabs :
              LogoutReturned(t) \/ \E k \in Callers : Refused(t, k) \/ Stranger(t, k)]_vars

\* The refreshes under way that will be granted.
Granted == {tk \in Tabs \X Callers : call[tk[1]][tk[2]] = Request("refresh", TRUE)}

\* After a logout and until the next login, only a refresh that was sent before it can
\* bring the access token back, each once: no tab sends another that is granted.
LateRefreshes ==
    [][ended /\ ended' =>
          /\ Granted' \subseteq Granted
          /\ ~access /\ access' => Granted' # Granted]_vars

\* "Server returns {user: "username"}" (auth.js): a check that the server
\* answers with success knows its user.
MeNamesUser == [][\A t \in Tabs, k \in Checks : MeOk(t, k) => currentUser'[t]]_vars

\* "Was authenticated but token is now invalid" (auth.js, startTokenCheck): only
\* a tab of a browser that was authenticated is sent to the login page by its
\* check, so a visitor can fill in the registration form in peace.
VisitorUndisturbed ==
    [][\A t \in Tabs, k \in Checks :
          checkAuthStatus(t, k) /\ page[t] = "register" /\ nav'[t] # nav[t] => stored]_vars

\* "Logged out successfully" (handlers.go): after the answer to a logout, and
\* until the next login, the browser holds no token.
LogoutEndsSession == ended => ~access /\ ~refresh
-----------------------------------------------------------------------------
(* Fairness.  Pages load, timers fire, connections are made, every request *)
(* is answered, and however often requests fail one gets through at last.  *)

AnswerFairness(t) ==
    /\ WF_vars(Load(t)) /\ WF_vars(LogoutReturns(t)) /\ WF_vars(Redirect(t))
    /\ WF_vars(SocketOpen(t)) /\ WF_vars(SocketClosed(t) \/ SocketExpired(t))
    /\ SF_vars(SocketRefreshOk(t)) /\ WF_vars(SocketRefreshFails(t))
    /\ \A k \in Checks :
          /\ WF_vars(Tick(t, k))
          /\ SF_vars(MeOk(t, k) \/ MeUnauthorized(t, k))
          /\ SF_vars(CheckRefreshOk(t, k) \/ CheckRefreshUnauthorized(t, k))

\* Access tokens expire unless they are replaced; refresh tokens live for days.
FairSpec ==
    /\ Spec
    /\ \A t \in Tabs : AnswerFairness(t)
    /\ SF_vars(ExpireAccess)
-----------------------------------------------------------------------------
(* Liveness                                                                *)

\* When a logout is not followed by a login, the access token dies for good,
\* even one that the late answer to a refresh brought back: nothing renews it.
LogoutSticks == <>[]ended => <>[]~access

\* Once the browser has lost its tokens for good (a logout in another tab, or
\* expiry), no tab goes on showing the chat: its check finds out.
ChatAbandoned == \A t \in Tabs : <>[](~access /\ ~refresh) => []<>(socket[t] = "none")

\* Without anybody's doing, no tab is sent to and fro between chat and login for
\* ever: the redirects of the two pages do not feed each other.
NoPingPong ==
    <>[][~(UserStep \/ LoginElsewhere \/ LogoutElsewhere)]_vars =>
        \A t \in Tabs : <>[](page[t] = "chat") \/ <>[](page[t] # "chat")

\* "Reconnect WebSocket after token refresh" (index.html): while the session can
\* be refreshed, a chat page whose connection was refused or closed connects again.
Reconnects ==
    \A t \in Tabs : <>[](refresh /\ page[t] = "chat") => []<>(socket[t] # "closed")
=============================================================================
