# A TLA+ development of WebSocketChat

WebSocketChat is a chat server in Go: browsers connect over WebSocket, every
message goes to every connected client, and several servers may share their
messages through a Kafka topic. The pages and their script keep the session of the
user in the browser. This directory holds TLA+ modules translated from the source,
TLC configurations that check them on small instances, and TLAPS proofs, for every
instance, of the main invariants and of the three refinements.

## Running

    tlc -workers 2 -config hub_stop.cfg MCHub             # hub_*.cfg
    tlc -workers 2 -config hub_order.cfg MCHubOrder       # hub_order*.cfg
    tlc -workers 2 -config fed_room.cfg MCFederation      # fed_*.cfg
    tlc -workers 2 -config web_script.cfg MCWebClient     # web_*.cfg
    tlc -workers 2 -config auth_registry.cfg MCAuth       # auth_*.cfg
    tlc -workers 2 -config heartbeat.cfg MCHeartbeat
    tlc -workers 2 -config forms_register.cfg MCForms     # forms_*.cfg
    tlapm HubProofs.tla                                   # and the other *Proofs.tla

PROJECT.json lists the runs that make up the development. The other `.cfg` files are
smaller questions to ask by hand; the text marks them "by hand". The configurations
named under *Findings* are expected to report a violation, all others to pass. Each
takes from a second to about three minutes.

## Inventory

| Part | Source | State | Operations |
|---|---|---|---|
| Hub | `internal/wsserver/hub.go`, `metrics.go` | map `wsClients` under an `RWMutex`, `clientsWg`, gauge, channels `connChan`, `delConnChan`, `broadcast` | `AddClientConn`, `DelClientConn`, `ReadFromBroadCastWriteToClients`: one goroutine each |
| Clients | `client.go`, `types.go`, `handlers.go` (`CreateWsConnection`) | connection, context, `Send` channel of 256 | handler, `ReadFromClient`, `WriteToClient`, `Close` |
| Lifecycle | `server.go`, `cmd/server/main.go` | contexts `ctx` and `KCtx`, two WaitGroups, the listener | `Start`, `Stop`, the signal, the errgroup |
| Kafka bridge | `internal/kafka/kafka.go` | `KChan`, producer, consumer, own host name | `SendToKafka`, `KafkaWorker`, `ReceiveKafka`, delivery events |
| Heartbeat | `client.go`, durations of `types.go` | ticker, read deadline, write deadline | ping, pong, time-out |
| Accounts | `internal/auth/auth.go`, `handlers.go` | in-memory `Storage` under its mutex | register, log in |
| Tokens and cookies | `auth.go`, `handlers.go` | two secrets, two lifetimes, cookies in the browser | validate, refresh, log out |
| Web client session | `web/static/js/auth.js` | `isRefreshing`, `currentUser`, local storage, route | status check, refresh, periodic check, logout |
| Forms | `auth.js` (`initLogin`, `initRegister`), `login.html`, `register.html` | inputs, marks, messages, button, timer | input, blur, submit, answer |
| Chat page | `web/templates/html/index.html` | the page's WebSocket, reconnection counter | connect, reconnect (at most 3), send, show |
| Deployment | `nginx.conf`, `docker-compose.yml`, `.env`, `Makefile` | none of its own | two servers behind one balancer |

How they interact. A handler that passed the token check upgrades the connection,
sends the new client to `connChan` and starts its reader and writer.
`AddClientConn` moves clients from `connChan` into the map. The reader sends every
message to `broadcast` and then, if Kafka is used, to `KChan`; the broadcaster
copies the map under the read lock and offers the message to every client's
`Send`; the writer drains `Send` into the connection. Reader and writer on exit,
the broadcaster on an overflow, and `Stop` for everyone, request a removal through
`delConnChan`; `DelClientConn` takes the client out of the map and closes it.
`KafkaWorker` publishes what `KChan` holds; `ReceiveKafka` puts messages of other
servers into `broadcast`. The browser holds an access cookie and a refresh cookie;
the page's script refreshes the former and reconnects.

What is hard here. Registration and removal come through two channels with no
order between them. Three kinds of sender request removals without blocking and a
fourth (`Stop`) blocks with a lock held. Snapshots of the map are used after the
unlock. Every channel is bounded and each sender has its own policy when it is
full (block, drop, or drop and evict). Shutdown races with handlers that it does
not wait for. Between servers a message passes four queues, each with its own way to
lose it, while processes stop, crash and come back under the same name. In the
browser every `await` lets other events in, and tabs share the cookies but not the
script's variables. Correct means, part by part:

- *Hub*: counters follow the map; each client is registered once and removed at
  most once; a slow client does not hold up the others and is evicted; a dead
  client is removed.
- *Clients*: a reader gets back to its connection; goroutines end when the
  connection does.
- *Lifecycle*: `Stop` terminates, leaving no client behind, without a panic.
- *Kafka*: no message loops between servers; a server shows each message of
  another server at most once, in the order its sender's server published it.
- *Heartbeat*: a peer that answers is kept, one that vanished is found out.
- *Accounts*: one account per address; a login is decided by what is registered.
- *Web client*: a session ends for known reasons only; after a logout no tab renews
  the tokens; the pages do not send each other to and fro.
- *Forms*: what is marked as wrong is wrong, and the button tells what was sent.

PROJECT.json lists each hazard at its line with the properties that cover it.

## Modules

| Module | Contents |
|---|---|
| `Hub`, `HubProps` | one server process: hub goroutines, clients, `Start` and `Stop`, the Kafka goroutines as far as the process sees them |
| `Multicast` | abstract: what one server owes its clients, whatever its goroutines do |
| `HubOrder` | `Hub` with the history of what is taken and written; implements `Multicast` |
| `ChatRoom` | abstract: what a chat over several servers may show, and when |
| `Federation`, `FederationProps` | servers, their queues, the topic and its consumers; implements `ChatRoom` |
| `Heartbeat` | one connection in discrete time |
| `Accounts` | abstract: a registry that decides each request in one instant |
| `Auth` | the handlers of register and login over `Storage`; implements `Accounts` |
| `WebClient`, `WebClientProps` | the tabs of one browser: session, routing, the chat page's WebSocket |
| `Forms` | the registration or the login form of one page |
| `MC...` | symmetry and constants for TLC |
| `...Proofs` | TLAPS proofs |

`Hub` and `Federation` look at the same server from two sides. `Hub` has its
goroutines, locks and clients, and a Kafka that delivers anything; `Federation` has
the way of a message across servers, with the inside of each reduced to its queues
and the lines of `Stop` that matter to Kafka. They meet in what the broadcaster
took: the `log` of `HubOrder` is the `view` of a server of `Federation`, so
`ChatRoom` says in which order a server takes messages and `Multicast` how its
clients get them. `HubOrder`, `Federation` and `Auth` are compared with their
abstract modules by a refinement mapping (`INSTANCE ... WITH`).

### Hub: correspondence with the code

A Go channel is a sequence with a capacity. A `select` with several ready cases is
a disjunction; one with a `default` is `Offer` (append, or leave a full channel
alone). Every goroutine has a program counter whose values are the places where
another goroutine may interfere: a channel operation, a lock, or the statement
after an unlock. A critical section without a blocking call inside is one step.

The hub goroutines are records: `adder` and `deleter` hold the client taken from
the channel, `caster` the message and the clients it has still to be offered to.
A client is `conn` (its connection and context: `Close` ends both), `reader` with
the message it carries (`held`), `writer`, and `send`. `stop` is the line of `Stop`.

The mutex. Only `Stop` blocks with it held (the read lock, while `stop = "push"`);
all other critical sections are atomic steps that need no reader or writer to be
in. `mutex` records what Go's `RWMutex` adds: a `Lock` that waits for `Stop`'s read
lock keeps later `RLock`s out, so a waiting `DelClientConn` also stops the
broadcaster.

`WaitGroup.Wait` is two steps, the release by the last `Done` (`"woken"`) and the
check that the counter has not moved again, which panics otherwise. With `Debug`,
`log.Debug` iterates over the map without the mutex; a write of the map at that
time may end the process, so `AddUpdate` and `DelUpdate` may lead to `"crashed"`.

Abstractions. A client is a model value and connects at most once (a reconnecting
browser is a new client, and a new `SClient` in the code). A message is a model
value without fields. Time is nondeterminism: a read or a ping may fail at any
moment. A ping that succeeds, and logging, change nothing. The map iteration order
is arbitrary (`\E c \in todo`). Kafka delivers anything, or nothing. `missed` is a
history variable; no step reads it. The operators named after a plausible bug
(`AddRecvTwice`, `DelTryLock`, `FanOutBlocking`, ...) are not part of the
specification: PROJECT.json names the property that fails when one takes the place
of the definition after it.

### Multicast and HubOrder

`Multicast` says what a server owes its clients: each joins once and leaves once; a
member is offered every message in the order in which they were taken, and misses one
only while `Room` others wait for it. A client that joins or leaves while a message is
being offered may or may not get that one.

`HubOrder` is `Hub` with two history variables: `log`, what the broadcaster took
from `broadcast`, and `shown`, what each writer took from `Send` (of the last
message the write may have failed). No step depends on them, apart from the bound
`MaxLog`. The mapping: `queue` is `send`, and a client's place in the log is `Due`:
the last message while the broadcaster has still to copy a map with the client on
it, or has the client on its copy; the next one when the client is on the map
otherwise; before and after that the client is new or has left. `CastRecv` is
`Post`, `AddUpdate` is `Join`, `CastSend` is `Serve`, `WriteMsg` is `Show`;
`DelUpdate` is `Leave`, unless the client is still on the copy and leaves when it is
served; every other step is a stutter.

### Hub: runs

| Run | Instance | Shows |
|---|---|---|
| `hub_kafka` | 1 client, 1 message, all channels of 1, Kafka, Stop, Debug | `TypeOK`, `LaggardPending`, `WaitedForLeave` |
| `hub_order` | 2 clients, 2 messages, `Send` of 2, other channels of 1; 3 enter `broadcast`, alternating | `WgBalance`, `MulticastImplemented` |
| `hub_serve` | 1 client, 1 message, all channels of 1, Kafka | `ReaderReturns`, `DeadClientCollected` (liveness) |
| `hub_stop` | 2 clients, `delConnChan` of 6, Stop, Debug | `GaugeBalance`, `OncePerClient`, `QuietStopClean`; `QuietStopCompletes` (liveness) |
| `hub_lock_cycle` | 2 clients, Stop | finding |
| by hand: `hub_registry` | 3 clients, `delConnChan` of 2, Stop, Debug | `WgBalance`, `GaugeBalance`, `OncePerClient` |
| by hand: `hub_order_queue` | 1 client, 2 messages, `Send` of 2, Kafka; 3 enter `broadcast` | `TypeOK`, `MulticastImplemented` |
| by hand: `hub_collect` | 2 clients that talk, channels of 1 | `DeadClientCollected` |
| by hand: `hub_dead_client`, `hub_late_client` | 1 or 2 clients | findings |

Bounds. Capacities of 1 or 2 make every channel full, and every drop happen, with
one or two clients; the source's 1024 and 256 only need more clients for the same
states. `hub_kafka` and `hub_serve` have every goroutine with one client, whose
traffic comes from Kafka and from itself; with two clients, Kafka and messages the
states exceed what can be explored in minutes. In `hub_order` a message can stand
behind another in `Send` while a third overflows it, and one client can lag, leave
or join while the other is served. The messages that enter `broadcast` alternate
(`Alternating`, a constraint of the configuration), so that two neighbours in a
queue cannot change places unseen; to the hub messages are opaque. `hub_stop` has
two clients that come and go, without messages; the three clients of `hub_registry`
let two requests fill `delConnChan` while a third is dropped. In `hub_collect` a
second client's requests fill the queue when the overflow's request comes. What
these bounds leave open for the safety properties is closed by the proofs.
`hub_stop` needs room for the three requests (reader, writer, `Stop`) each client
can cause: less room is the deadlock of `hub_lock_cycle`.

What the properties of `Stop` leave out. `QuietStopCompletes` and `QuietStopClean`
speak of a Stop with no connection on its way into the map (`Quiet`). With one on its
way the code may panic in `Wait`, lose the process to a race on the map, or leave the
client behind, and the model does all three. `WaitedForLeave` needs none of this: of
any Stop it says that whoever was in the map before the wait was over is gone when
`ctx` is cancelled. The client that is added after the wait is the finding
`hub_late_client`.

Deadlock is not checked: a stopped process takes no step, and the hang of `Stop`
is the subject of properties of its own.

### Hub: fairness

Go runs every goroutine that can go on. A step that once enabled stays enabled until
taken gets weak fairness. The hub goroutines get strong fairness, because a `Lock`
may find the mutex taken again and again and Go's starvation mode serves it
nevertheless; blocked senders on a channel are served first in, first out, hence
strong fairness for `Publish` and `StopPush`. `ReadFail` is fair only once the
connection is closed or the writer is gone: then no more pongs arrive (peers are
assumed to send none unasked) and the read deadline passes. Each property states
only what it needs: `ReaderReturns` nothing of the writers, peers and Kafka
(`ServeSpec`), `DeadClientCollected` only `DelClientConn` (`hub_collect` checks it
under `CollectSpec`, which assumes no more), `QuietStopCompletes` the hub and `Stop`
(`StopSpec`).

### ChatRoom and Federation

`ChatRoom` says what a chat over several servers promises: a server shows a message
at most once in the life of its process, after its client said it, those of one
client in the order they were said, and never a message after one that answers it.
Any message may be lost, at some servers or at all.

`Federation` is the way of a message. `reader` and `held` are `ReadFromClient`
before `broadcast` and before `KChan`; `broadcast` and `view` what
`ReadFromBroadCastWriteToClients` has to show and took, in order; `kChan`, `out`
(the producer's queue), `topic` and `cursor` the Kafka side. `KafkaWorker` is one
round of the worker with `SendToKafka` (a message that already has a `Host` is not
sent; the others are stamped); `ReceiveKafka` one round of the consumer with its
filter by `Host`. `phase` is the line of `Stop`: KCancel, the two waits, `Flush`, the
two `Close`s; the worker may still produce after `Flush` returned, and does in the
model. `End` is what the end of a process takes with it, and `Start` a new process
under the same host name, whose consumer group resumes at its stored position
(`docker-compose.yml` has the one topic partition and `restart: unless-stopped`; the
host name is what `os.Hostname` says, `server.go:63`, and a container that is started
again keeps its own; group name, `latest` and auto-commit are those of `kafka.go`).

The mapping: `said` is `sent`, `shown` is `view` with each message reduced to client
and number. `after` is a history kept alike on both sides: a client of another server
answers what its own server has shown. The same-server case is left out on purpose:
the code does not order it. A reader puts its message into `broadcast` before
`KChan`, so two messages of clients of one server may reach the topic in the opposite
order of their display (`client.go:57-69`), and a local answer may overtake what it
answers on the way to the other servers. No document promises otherwise.

Abstractions. Kafka's client and broker are external: an idempotent producer delivers
in order, the one partition is one log. A message is client, number and `Host`. Its
clients' `Send` queues are `Hub`'s. A connection that says nothing more is not told
from a closed one. `Commit` is only taken for servers that may crash: elsewhere the
stored position shows only after a stop, which stores it anyway.

What is lost without a trace, and therefore outside `NothingVanishes`: what is in
`KChan` when the worker stops (`kafka.go:152`), what a reader drops because `KCtx` is
done (`client.go:65`), and what fails to be delivered, which is only logged
(`kafka.go:73`). A message whose client filled in `Host` is shown locally and never
sent (`kafka.go:42`).

| Run | Instance | Shows |
|---|---|---|
| `fed_room` | 2 clients on 2 servers, 1 message each, clients that fill in `Host`, failing Kafka; one server stops, one crashes, both start again | `HostTrue`, `ChatRoomImplemented` |
| `fed_cross` | 1 client with 2 messages, queues of 1, its server stops, the other crashes, both start again | `TypeOK`, `NothingVanishes`, `ChatRoomImplemented`, `Crosses`, `FlushKeeps` (the last two liveness) |

Bounds. Two messages of one client follow each other through every queue
(`fed_cross`); order of a third adds nothing new. One message of each of two clients
on different servers suffices for an answer (`fed_room`). Queues of 1 fill and drop
everywhere. `MaxStarts` of 2 is one restart of each. Fairness: the goroutines of the
bridge and Kafka itself go on (`BridgeFairness`), the worker only while its server
serves; readers and clients owe nothing. `Crosses` counts a message that a full
queue dropped as answered for only if `KafkaDropped` counted it.

### Heartbeat

One connection in discrete time; what is due happens before time goes on (`Elapse`).
`tick` is the ticker's channel of one place, `writer` the loop of `WriteToClient`,
`quiet` the time since the reader set its deadline, which only a pong does. Three
constants bound what the code leaves to the network and to `select`: `WriteTime`, the
longest write to a peer that is there; `Unlucky`, how often in a row `select` prefers
a message to a tick that is due; `Echo`, the longest way from a ping to the handling
of its pong (the ping's own write, and a reader that is blocked on a full `broadcast`,
count into it). With `Slack` (`PingPeriod + Lag + Echo < PongWait`) a peer that
answers is never given up.

The run has the source's durations in half seconds (20, 16, 10). Its slack is two
seconds: a single write that takes more, though `WriteWait` allows five, may cost a
peer that answers its connection. `heartbeat` checks `TypeOK`, `ResponsiveKept` and
`DeadFound`; the proofs hold for all durations. Deadlock is not checked: the
connection ends. No fairness is used.

### Accounts and Auth

`Accounts` decides each request in one instant. `Auth` is the handlers of `POST
/auth/register` and `POST /auth/login` over `Storage`: hashing and parsing outside
the mutex, `addUser` one critical section, `Login` in two (copy the user, compare).
`emails[s][e]` is the password of the account at server s; a hash is modelled by the
password it is made of (bcrypt tells passwords apart and refuses those above 72
bytes: `TooLong`); `Norm` is `normalizeEmail`, which maps several spellings to one
address, or to none. The mapping: the registry's `answer` is "pending" while the
handler runs; a registration is decided in `addUser`, a login in `Compare`, and
`UserCurrent` is why deciding there, on a copy, is right. The answer "failed" is an
error of the server's own: no user ID in `addUser`, or no token in `LoginUser`;
nothing is kept. `NewService` is a restart.

| Run | Instance | Shows |
|---|---|---|
| `auth_registry` | 3 requests, 2 servers, restarts | `TypeOK`, `UserCurrent`, `AccountsImplemented` |
| by hand: `auth_cluster` | 3 requests, 2 servers, two spellings, no restart | finding |

Bounds: two registrations of one address race, and a login meets both; a fourth
request repeats one of these. Requests, servers and passwords are interchangeable.
All properties are safety; no fairness.

### WebClient

The tabs of one browser. Script code runs to completion between two awaits, so a step
is an event: page load, timer, answer, click, WebSocket event. Cookies (`access`,
`refresh`) and local storage (`stored`) are shared, the rest belongs to a tab and a
page load resets it. `call[t][k]` is where a check, or the handler of an expired
WebSocket, awaits an answer; a request carries the cookie as it was when sent.
`Failures` lets requests fail otherwise than by 401; `WsExpiry` is a server that would
close WebSockets with code 4001, as the page expects and no server does; `Elsewhere`
is another tab, reduced to its logins and logouts.

Abstractions. A user is known or not. A form that `validateForm` rejects changes
nothing here (`Forms` has the details). Going back to a page is a visit to it. A tab
has one logout request under way at a time. Messages and their display are left out.
Cookies expire at any moment.

| Run | Instance | Shows |
|---|---|---|
| `web_script` | 1 tab beside others, 2 checks, failures, 4001 | `OneRefresh`, `ChatHasUser`, `CounterReset`; `SessionEnds`, `LateRefreshes`; `LogoutSticks`, `ChatAbandoned`, `NoPingPong` (liveness) |
| `web_stuck` | 1 tab | finding |
| by hand: `web_session` | 2 tabs, 1 check each, 4001, no failures | `SessionEnds` |
| by hand: `web_reconnect` | 1 tab, 4001 | `Reconnects` holds (liveness) |
| by hand: `web_failure`, `web_overlap`, `web_second_tab`, `web_visitor`, `web_late_refresh` | 1 or 2 tabs | findings |

`CounterReset` says that `MAX_RECONNECT_ATTEMPTS` is never reached, even with a
server that sends 4001: each attempt that can be followed by another was an opening
that reset the counter. `SessionEnds` lists every way in which the browser ceases to
be authenticated: a logout, a refused refresh, and the three things the script takes
for one (a request that fails, a refresh already under way, an answer that names no
user). It holds because the flag `isRefreshing` is never left up, the limit on
reconnections is never reached, and no late answer of a refresh clears anything.
Bounds: two checks overlap each other and the socket's refresh; two tabs are what
shared cookies need, since a third only repeats what the second does to the first.
Nothing counts up besides `attempts`.

Fairness (`FairSpec`): pages load, timers fire, requests are answered, and however
often they fail one gets through at last (strong fairness of the successful answers of
one request); access tokens expire if not replaced. Users, and other tabs, owe
nothing. `<>[]ended` and the like in the properties are hypotheses about them.

### Forms

One page with the registration or the login form. An event of an input, a blur, a
submission, an answer and the timer are a step each; `Match` is the comparison of
the passwords on input and blur, `Judged` the marks of `validateForm`. A text is
empty, white space, short or long; the server accepts or refuses, and refuses an
empty address always. The run `forms_register` has the larger form (`TypeOK`,
`FeedbackTrue`, `ButtonTells`, `Redirected`). `FeedbackTrue` says that what is
marked as wrong is wrong and that a message shown is true; it says nothing of the
mark of a match, which the code leaves standing (`forms_match`). The login form is
one input and one message less, and `FormsProofs` covers both. By hand: four
findings. Two texts suffice for passwords that agree, differ, or are too short.
Fairness: `setTimeout` calls back.

## Findings

`hub_lock_cycle` and `web_stuck` are runs of PROJECT.json; each of the other
configurations named here gives its trace by hand.

In the server:

- *A dead client may be registered for good* (`hub_dead_client`). If both
  goroutines end before `AddClientConn` takes the client from `connChan`, their
  requests find nothing to remove. Traffic collects such a client
  (`DeadClientCollected`), once its `Send` has overflowed; a quiet server keeps it.
- *Stop misses late clients* (`hub_late_client`). Clients between the upgrade and
  the map when `Stop` copies the map are neither removed nor closed.
- *Stop may deadlock with DelClientConn* (`hub_lock_cycle`), when more requests
  than `delConnChan` holds are due. `QuietStopCompletes` says when the shutdown does
  work: no connection under way and room for all requests.
- *An account exists at one server only* (`auth_cluster`): behind nginx the login
  after a registration may go to the other one.
- *The e-mail is not optional* (`forms_email`).

In the browser:

- *No reconnection* (`web_stuck`): the server refuses the handshake of an expired
  token, the page waits for a close with 4001.
- *One failed request ends the session* (`web_failure`), and so does *a check that
  finds the refresh of another under way* (`web_overlap`): `InvalidEnds` says what the
  comment at `auth.js:337` takes such an end for.
- *The success of a check names no user* (`web_second_tab`): a tab that was loaded
  before another tab logged in takes it for an invalid token.
- *A visitor is sent away from the registration form* (`web_visitor`).
- *A late refresh brings the access token back after a logout* (`web_late_refresh`);
  `LogoutSticks` shows that it then dies with the token's lifetime.
- *The confirmation stays marked valid* when the password changes (`forms_match`);
  *the terms need not be agreed to* (`forms_terms`); *the minimum length is not
  enforced* (`forms_short`).

An observation without a run: `main.go:49` tests `JwtSecret` where the message on the
next line speaks of `REFRESH_JWT_SECRET`, so an empty refresh secret is accepted.

## Proofs

Every theorem holds for all values of the constants that satisfy the named
assumptions of its module: any finite set of clients, any servers, capacities,
durations, tabs, requests, and either value of every switch.

*HubProofs*: `TypeCorrect`, `WaitGroupBalanced` (`WgBalance`), `GaugeBalanced`
(`GaugeBalance`), `OnePassage` (`OncePerClient`), `LaggardsLeave`
(`LaggardPending`). `TypeOK` is inductive: it also says that a hub goroutine holds a
client exactly while it waits for the mutex, which is what makes its update
well-typed. The others are not inductive alone. The gauge is incremented outside the
test for a new client, so `GaugeBalance` needs that `AddUpdate` never meets a client
that is already in the map. That is `OncePerClient`: a client on its way into the
map is in one place only, open, and unknown to the map, to the broadcaster's copy
and to the overflow history; the code guarantees it because only the handler sends
to `connChan`, once, before the reader exists. The same fact makes `LaggardPending`
inductive, since a client that overflowed can then not be registered again. Three
frame lemmas (`BooksFrame`, `RequestFrame`, `OnceFrame`) go through all actions
once, so that each invariant's proof only treats the steps that can disturb it.
`QuietStopsAreClean` (`QuietStopClean`) is the safety half of `QuietStopCompletes`,
without fairness and without its assumption on `DelCap`: `CleanStop`, which holds
from the moment on at which Stop finds no connection on its way, says that none can
come any more and that the map is empty once the wait is over; by `WgBalance` the
last `Done` is the one that empties it. `StopWaitsForAll` (`WaitedForLeave`) does
without the premise that no connection is under way: `InTime`, which holds of a
client from the moment it is in the map, says that it is in the map, or closed, and
closed once the wait is over; since the wait ends only with the counter at zero,
hence with the map empty (`WgBalance`), and a closed client is on no way into the
map (`OncePerClient`), it stays out.

*FederationProofs*: `TypeCorrect`, `HostsTrue` (`HostTrue`), `AllAccounted`
(`NothingVanishes`). The types need that a reader on its way carries a message of
its own client (`Carried`) and that a polling consumer has a position (`Placed`).
`HostTrue` needs to know where the queues' messages come from (`Routed`): `KChan`
holds messages of the server's own clients, the producer's queue holds them stamped.
`NothingVanishes` needs in addition that without a `Host` from the client no message
has one before `KafkaWorker` (`Bare`), so that the worker never skips one, and that
the clients of a process that does not run yet have said nothing (`Silent`).
`AccountStep` follows one message through the queues.

*RoomProofs*: `Implements` (`ChatRoomImplemented`, the refinement of `ChatRoom`)
from `RoomInvariant`. That a server shows a message at most once and in order is a
fact about queues at several servers at once, so its invariant has a part for each
place the order could be lost. `Known` and `Fresh`: what a reader has still to pass
on is newer than all its client has in the queues. `Queued`: reader, `KChan`,
producer and log are one line (`InLine`) in which messages of one client stay in
order. `Fetched` and `Idle`: what a server shows of others it has read from the log
in this life of its process, so what the cursor has still to reach is new to it,
also after a restart. `Heeded` and `Answered`: a question is on its answerer's
screen, hence in the log, before the answer is. `Showable` puts these together: what
waits in `broadcast` may follow what is shown. One step lemma per part;
`PublishFollows` and `ReceiveFollows` are the two steps that add to `broadcast`.

*HubOrderProofs*: `HubMulticasts` (`MulticastImplemented`). To `Hub`'s own invariant
`OrderInv` adds that what the broadcaster holds is the last message it took
(`LastTaken`) and that whoever is on its copy is on the map or was closed
(`CopyKnown`). `OncePerClient` is what makes `AddUpdate` a `Join`: the client it
adds is not on the copy, nor was ever removed. `RestCases` reduces the steps to the
few that the multicast sees; one lemma for each says which of its actions it is.

*HeartbeatProofs*: `TypeCorrect`, `ResponsivePeersKept` (`ResponsiveKept`),
`DeadPeersFound` (`DeadFound`). `Paced` is the argument: a due tick has waited at most
for the write under way and for those `select` may still prefer, so a ping leaves
within `Lag`, its pong is in before the next tick, and the deadline was set in this
period of the ticker or the one before.

*AuthProofs*: `TypeCorrect`, `LoginCurrent` (`UserCurrent`), `Implements`
(`AccountsImplemented`, the refinement of `Accounts`: initial states map to initial
states, `RegistryStep` maps every step to a step of the registry or to a stutter) and
`AccountsLast` (`CreatedCanLogin`, assuming one server that is not restarted, which is
what `auth_cluster` shows to be needed).

*WebClientProofs*: `TypeCorrect`, `OneRefreshAtATime` (`OneRefresh`),
`ChatKnowsUser` (`ChatHasUser`), `CounterStaysReset` (`CounterReset`), and
`SessionsEnd` (`SessionEnds`), without assumptions on failures, overlaps or the
server: one lemma for the answers to a check and one for the events of a WebSocket.
A check that may not refresh has met another's request, because the flag is up only
while a caller waits (`FlagCaller`), and a socket whose refresh was granted
reconnects, because the counter is below its limit (`CounterReset`). `SocketCaller`
strengthens the invariants: the socket's handler refreshes only beside a closed
socket that had been opened. `LogoutsHold` (`LateRefreshes`) rests on `LoggedOut`: a
confirmed logout has taken the refresh token and only a login brings one, so
whatever a tab sends after it is refused.

*FormsProofs*: `TypeCorrect`, `FeedbackStaysTrue` (`FeedbackTrue`), `OneSubmission`
(`ButtonTells`), for both forms.

Only model-checked: all liveness (`ReaderReturns`, `DeadClientCollected`,
`QuietStopCompletes`, `Crosses`, `FlushKeeps`, `LogoutSticks`, `ChatAbandoned`,
`NoPingPong`, `Redirected`, and `Reconnects` with a server that sends 4001), since
fairness and ENABLED are beyond the prover. The safety halves of
`QuietStopCompletes` and `LogoutSticks` are proved (`QuietStopClean`,
`LateRefreshes`), and every other property of a passing run is an invariant, an
action property or a refinement that is proved for all constants.

## Not modelled

- *Bootstrap*: `web/static/js/bootstrap.js`, `bootstrap.bundle.js` and
  `bootstrap.esm.js` are three builds of one third-party library, and some 15 000 of
  the 16 000 lines of JavaScript. The pages load it for its style; no property of the
  program rests on it. Of the program's own script, `auth.js`, most is modelled; the
  rest is wording, element look-up and logging.
- *Signing and parsing of tokens*: the JWT library's. A token is live or not.
- *Configuration*: environment variables, TLS, HTTP routes, images, the log level.
  They keep no state; what they settle is in the constants.
- *Rendering of messages* in `index.html`, and style sheets.
- *The second `Close` of the consumer* (`server.go:185` after `kafka.go:105`): what it
  does is inside the Kafka library, which answers with an error that is ignored.

## Plan

1. The safety half of `Crosses` and `FlushKeeps`: which steps may take a message out
   of the bridge, and that `KafkaDropped` counts each drop once.
2. With messages that nobody sends, room for three requests per client keeps
   `delConnChan` from ever being full: a counting argument that would show that the
   hypothesis of `hub_stop` is enough for every number of clients.
3. One server of `Federation` refined by `HubOrder`, so that the chat room is stated
   for what browsers are sent and not for what servers take.
