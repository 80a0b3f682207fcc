# MPIM in TLA+

MPIM is an instant-messaging server in C++: a gateway that speaks a line protocol
with the clients, and four services behind it (user, presence, message, group),
called over a home-made RPC framework (`mprpc`) that finds them in ZooKeeper.
The state lives in MySQL and Redis. This directory models its core - who is
logged in, where a user is reachable, what becomes of a message - checks it with
TLC and proves its safety properties with TLAPS. Paths below are relative to `src/`.

Contents: [parts of the system](#parts-of-the-system) -
[modules](#modules-and-how-they-correspond-to-the-code) -
[runs](#what-the-runs-check) - [bounds](#bounds) - [fairness](#fairness) -
[proofs](#proofs) - [disagreements](#where-code-and-documents-disagree) -
[not modelled](#not-modelled) - [plan](#plan).

## Parts of the system

| part | state | operations | with whom |
|---|---|---|---|
| **gateway** `im-gateway` | connections with a `Session` in their context; table `uid2conn_` under a `shared_mutex`; functors queued on the IO threads; the subscription to its Redis channel | one handler per command line, `onConnection`, `handleRedisMessage` | calls all services synchronously from its IO threads; listens to Redis on a thread of its own |
| **accounts and online state** `im-user` | rows of `user` with the column `state`; a pool of MySQL connections and one more, `db_`, without a lock; a Redis cache of users | Login, Logout, Register, reset at start-up | called by the gateway |
| **friends** `im-user` | rows of `friend`, two per friendship; cached lists | AddFriend, GetFriends, RemoveFriend | called by the gateway |
| **presence** `im-presence` | `route:<uid>` in Redis with 120 s to live; a cache connection and a publishing connection | BindRoute, QueryRoute, Deliver | called by gateway and message service; publishes to the channel of a gateway |
| **message service** `im-message` | rows of `offlinemessage`, of type c2c or group | Send, SendGroup, PullOffline, Ack | called by the gateway, calls presence |
| **group service** `im-group` | rows of groups and members, a cache | CreateGroup, JoinGroup, LeaveGroup, ... | called by the gateway |
| **RPC channel** `mprpc/src/mprpcchannel.cc` | pool of sockets per method; cached endpoints; a ZooKeeper client | CallMethod: frame, endpoint, socket, send, receive, put back | in every caller |
| **RPC provider** `mprpc/src/rpcprovider.cc` | table of services; a buffer per connection | OnMessage parses frames, executes the call on its IO thread and answers from within | in every service |
| **discovery** `mprpc/src/zookeeperutil.cc` | the session; ephemeral nodes `/Service/method` | Start, Create, GetData | ZooKeeper |
| **MySQL pool** `thirdparty/mysqldb/db_pool.cpp` | list of free connections under a mutex and a condition variable | acquire, acquire_for, release | user, message and group service |
| **Redis connections** `thirdparty/redisclient` | `redisContext`s; the observer thread | cache commands, Publish, Subscribe | presence, gateway, caches |
| **client** `im-client` | socket, outbox, flags, two threads | commands, stop, gracefulExit | gateway |
| **logger and queues** `im-common`, `mprpc/src/include/lockqueue.h` | a queue and its writer thread | Log, Start, Stop; Push, Pop, TryPop, Close | everyone |

What makes it hard:

* **Blocked threads.** A handler of the gateway blocks its IO thread in an RPC
  without a timeout; the other connections of that thread, and the functors that
  push messages, wait. In between anything else happens on other threads.
* **Three records of one fact.** That a user is logged in is kept as the session
  of a connection, as an entry of `uid2conn_`, as the column `state`, and as a
  route in Redis. They are changed one after another by different processes, and
  nothing repeats a step that failed.
* **Statements without transactions.** Login reads the state and sets it in two
  statements; PullOffline reads and deletes in two; any number of workers are in
  between.
* **Shared connections.** `db_` and the publishing connection of hiredis are used
  by all workers without a lock.
* **Limited pools.** A login keeps up to three of eight connections for up to
  three statements, and four workers do so at once; a statement that waits too
  long is *skipped*.
* **Failure.** Dead sockets stay in the RPC pool; a failed call may have been
  executed; a broken Redis connection is taken for a good one; routes outlive
  gateways.

What makes each part correct: a client sees no message before it is told who it
is, and none after it is gone, in order and once (gateway); an online user is not
let in again, and an offline one is (accounts, with the gateway); an entry of the
table names the user's session (gateway and accounts); calls end (RPC, pool); a
delivery uses the recipient's route (presence); what is queued is kept until read
and given once, to its recipient (messages); "delivered" means delivered, and what
is delivered is not also stored (messages with presence). The hazards, each at its
line, and the properties that cover them are in `PROJECT.json`.

## Modules and how they correspond to the code

The map in `PROJECT.json` gives the lines of each definition.

```
 PushChannel <=implements= Gateway --+              MessageService --+
                                     +--> Sessions                   +--> Delivery
                       UserService --+              Presence --------+

 Discovery --> RpcChannel      MySQLPool --> GroupService
 FriendService                 Client
 GatewayProofs, UserServiceProofs, PresenceProofs, MessageServiceProofs,
 GroupServiceProofs, FriendServiceProofs, RpcChannelProofs, ClientProofs: theorems
 MC*: instances for TLC
```

**Gateway** (`gatewayServer.cc`). `conn`, `sess`, `uid2conn` are the connections,
sessions and the table. Each connection belongs to one IO thread (`LoopOf`), and
`handler[l]` is the RPC that thread is blocked in: a handler is one action up to
its call (`RecvLOGIN`), and one per answer (`LOGINReturns` fills the session and
the table and goes on into the call of BindRoute, `BINDReturns` writes
`+OK uid=`). `onConnection` is `ConnUp`/`ConnDown`, whose Logout keeps the thread
blocked until `CloseReturns`. `handleRedisMessage` is split where its locks are:
`ObserverLookup` (read lock), `ObserverErase` (write lock, when the `weak_ptr` has
expired, which `ConnDestroyed` makes happen), `ObserverPost` (`runInLoop`).
`RunFunctor` is the functor. A payload that does not parse is thrown away, and the
message is `garbled`: PUBLISH is formatted from a C string, so that one with a NUL in
it arrives cut. `out` keeps the lines a property speaks of,
`+OK uid=` and `MSG`; the other lines, parsing and formatting are left out, and
the answers of the services are any. `Restart` is the end and start of the
process; the observer ends for good with the first failed read
(`SubscriptionLost`).

**PushChannel** is what Gateway promises of pushed messages, whatever threads they
pass: each is written at most once, to one connection that was greeted as its
recipient, and in the order of publication. Gateway implements it under the mapping
`lines` <- `out` (`PushesAsPromised`); `published` is a history variable of Gateway, and
threads, queues, table and sessions do not occur in PushChannel.

**UserService** (`user_service.cc`, `db_pool.cpp`). `worker[w]` is the call a
worker executes and the statement it is at. A statement on the pool is first
`Acquire` (or `TimedOut`, possible only when no connection is free) and then the
statement (`Authenticate`, `CheckState`, `SetOnline`, `SetOffline`) or its failure
(`QueryFails`); `Without` says how the code goes on when it has no result. `held`
are the local variables that hold a connection: a login gives all of them back
when it returns, after its answer (`Return`), a logout before it. Register runs on
`db_` (`UserExists`, `InsertUser`, `NewId`), as do the friend operations, which
appear here as one statement (`FriendsStatement`): while two workers are on it
(`Racing`) a statement's result may be the other's, and `lastId` is the insert id
of the shared connection. `cached[u]` is the id the cache has for a name - that id
is taken on trust by the next login, also when it is another user's. `size` is the
number of connections the pool got when it was first used. `Start` resets all
states.

**FriendService** (`user_service.cc`, `user_cache.cc`). One action per statement or
cache command of AddFriend, RemoveFriend and GetFriends. `rows` is the table of
`docs/architecture/data-storage.md:193-201`: a pair at most once, by its unique key, on
which a second INSERT fails (`Duplicate`), and no foreign key, so that a check that is
raced lets an id without a user pass (`None`). `cache[u]` is what Redis has under the key
of the list: nothing, a list, or a *set*, since `Sadd` and `Setex` write one key; keys of
ids that no user has are left out, as nobody asks for them. `Crossed` is a statement
while another worker is on `db_`. `disturbed` and `left` record the ways in which a pair
or a cached list is knowingly left wrong.

**MySQLPool** and **GroupService** (`db_pool.cpp`, `group_service.cc`). The free
connections are a sequence, as the queue of the code is, filled at the first use
with those that could be opened. `conn` and `forId` are the local variables of
CreateGroup: the second connection, taken for the id, is kept while the third is
waited for. `CallJoinOrLeave` is a call of JoinGroup or LeaveGroup, which
dereferences a `db_` that nothing sets: the process ends. `insertId` is kept per
connection. The tables are those of `docs/architecture/data-storage.md:205-229`: any name
and any group id will do, only the pair of group and user is unique, and both tables
count ids of their own (numbers that failed INSERTs skip are left out).

**Discovery** and **RpcChannel** (`zookeeperutil.cc`, `rpcprovider.cc`,
`mprpcchannel.cc`). `node[m]` is the session that owns the ephemeral node of a
method; a provider registers the methods one by one, skips nodes that exist, and
listens. RpcChannel adds a calling process: `call[t]` is a thread's CallMethod
(address, socket, send, length, body, return), `pool` the sockets kept per method,
`cached` the addresses, `socket`, `inbound`, `serving`, `outbound` the two
directions of each connection. `SendFails`, `RecvFails` and `ResponseUnparsed` are the
error returns with a socket, each with its close; that a request cannot be serialised
is left out. The provider executes one frame of a connection after another
and sends length and body separately; `DropRequest` is the frame it throws away.
`CallerEnds` frees all descriptors; what the provider has received it may still
execute.

**Sessions** composes Gateway (`G == INSTANCE`) and UserService (`EXTENDS`, so that its
theorems can be cited) and adds the part of the RPC channel they need: `caller` (the IO
thread a worker works for), `sockets` (idle sockets per method, live or dead), `lost` (threads whose call failed). `Request`
takes a pooled socket or opens one, `DeadSocket` loses the call on a dead one,
`NoConnection` finds no service, `Answered` puts the socket back and lets the
gateway's handler go on. `ServiceEnds` turns idle sockets into dead ones and loses
the calls being executed. `replaced` are the users whose session another login on
the same connection overwrote. Here pushed messages are left to Gateway
(`Msgs <- {}`), registrations that race on `db_` and wrong passwords to UserService.

**Presence** (`presence_service.cc`, `cache_manager.cc`, `message_queue.cc`). The
two Redis connections are "none", "open" or "broken"; `EnsureConnected` is the
reconnect of BindRoute and QueryRoute, which takes a broken connection for a
connected one. Deliver is a lookup (`Get`), a PUBLISH that is sent (`Publish`) and
its reply (`PublishReturns`). Two that overlap on the unlocked connection leave it
`mixed` for good, as hiredis keeps its buffers and its error between commands: from then
on a command may stay unsent (`buffered`) and leave with a later one, and its reply may be
that of another, or none, also when it is alone. `heard` is what reached a gateway: the
subscribers of the channel, which other gateways may share
(`GwChannelOf` is a hash).

**MessageService** (`message_service.cc`, `offline_model.cc`). One action per
statement or call: Send is `CallSend`, `QueryReturns`, `DeliverReturns`, `Store`;
PullOffline is `Select`, `SelectGroup`, `Remove`, `RemoveGroup`; `Reply` sends the
answer. A failed SELECT gives no rows, a failed DELETE or INSERT is not looked at.
`exposed` records the messages that met one of the four ways to be lost,
`overlapped` the users who had two PULLs at once.

**Delivery** composes MessageService (`EXTENDS`, so that its lemmas can be cited) and
Presence (`P == INSTANCE`): the answers Send waits for are those of presence workers
(`client`), calls are lost before, during or after their execution (`CallLost`),
gateways subscribe and vanish, routes are bound and expire at any time. `Observe`, a
conjunct of every step, keeps three histories: the messages whose recipient had no
route at some moment of the Send (`unroutable`), those a route of which had no
subscriber at some moment of the Deliver (`unheard`), and those whose PUBLISH ran on a
mixed connection or into an outage (`collided`).

**Client** (`client.cc`, `commandHandler.cc`, `lockqueue.hpp`, the client's
`main.cc`). `pc` says where main, reader and writer are; whoever ends the process
goes through `Graceful`, `OnDisconnected`, `Report`, `Stop`, `CloseQueue`, `Shutdown`,
`JoinReader`, `JoinWriter`, `Close`, on the thread it is on: main at "quit" or the end of
its input, main in the middle of anything else in a signal handler (`Signal`), the
reader when `recv` ends. `goal` is what follows when a `stop()` returns. A signal can
find main anywhere, so that the locks main may hold are kept: the queue's (`outboxLock`)
in a `Push`, also that of the LOGOUT of a `stop()`, and in `Close`; the terminal's
(`ioLock`) in the notice at the end of a `stop()`; and, as a place of main, the
allocator's (`SignalInAllocator`). The handler needs all of them. The gateway is reduced
to the lines it answers and pushes, and to closing.

Operators named after a fault (`ObserverPostDirect`, `CheckStateUnread`,
`RemoveAll`, ...) stand before the definition they vary. They are not part of any
next-state relation: each says how a plausible slip in that code would look, and
the property listed with it in `PROJECT.json` fails when it is put in.

## What the runs check

| run | constants | checked |
|---|---|---|
| `gateway` | 2 users, 2 connections on 2 IO threads, 2 messages for one user, 2 commands, 1 restart | `TypeOK`; `LoginReplyBeforePush`; `PushesAsPromised`, the refinement of PushChannel; `SoleSessionMapped`: a user with one session is in the table; `NothingWrittenAfterDown`; `HandedOverIsWritten` and `PublishedIsWritten`: what was handed to an IO thread, or published, is written, but for the losses they name |
| `user` | 2 users, 2 workers, pools that got 4 or 6 connections, 1 failing statement or end of the process | `TypeOK`; `AlreadyOnlineRefused`: with three connections a worker an online user is not let in; `AnsweredOwnId`: an id is another user's only after a race on `db_` |
| `sessions` | 2 users, 2 connections, 2 workers, 3 commands in any order, one failing statement, end or restart of either process | `SessionsTypeOK`; `NoLockout`: a user who is online has a session; `EntriesNameSessions`: no entry leads into the session of somebody else |
| `sessions_live` | 1 user, 2 commands, 2 connections for each worker, 1 end of the service, 1 restart of the gateway | `NoThreadStuck`: IO threads get out of their calls |
| `presence` | 2 users, 2 gateways on one channel, 2 workers, 1 outage | `TypeOK`; `PublishedToRoute`: the route used was the recipient's during the call |
| `message` | a c2c and a group message, 2 users, 2 workers, 2 failing statements, 1 end | `TypeOK`; `LostOnlyIfExposed`; `GivenOnce`; `PushedOrStored` |
| `delivery` | 2 messages for one user, 1 message worker, 2 presence workers, 1 gateway, one lost call or end | `DeliveryTypeOK`; `RoutedIsPushed`; `DeliveredIsHeard`; `NotPushedAndPulled` |
| `friends` | 2 users, 2 workers, 2 changes, 1 failure | `TypeOK`; `CachedListCurrent`; `FriendshipMutual` |
| `groups` | 3 groups, 2 workers, up to 3 connections, 1 failing statement, 1 end | `TypeOK`; `PoolIntact`; `CallsReturn`: with more connections than workers calls never all wait for one another |
| `groups_id` | 1 worker, 3 connections, no failure | `CreatorInOwnGroup` fails |
| `rpc` | 1 method, 2 threads, 2 descriptors, a pool of 1, 2 calls, 2 starts of the service, 2 failures | `TypeOK`; `ListeningIsFound`; `AnsweredOnce`; `SocketsAccounted`; `CallsEnd` |
| `client` | 2 commands, 1 pushed line | `TypeOK`; `ClosedUnused`; `ReaderAttends`; `EndsWhenAsked` |

Most of these properties say where a guarantee ends, and that it ends nowhere else:
`LostOnlyIfExposed` that four ways of losing a queued message are the only ones,
`GivenOnce` that only overlapping PULLs give twice, `DeliveredIsHeard` that only a
route nobody listens to, an outage of Redis and a connection on which PUBLISH commands
have met swallow a message, `NotPushedAndPulled` that only a lost call and such a PUBLISH
duplicate one, `NoLockout` that without an end of a process states and sessions
agree unless a session was overwritten, `FriendshipMutual` that only a failed or
overlapped change leaves half a friendship, `EndsWhenAsked` that only a signal that finds
main with one of the three locks keeps the client alive. These are sharper than what the documents promise, and
each is as strong as the code allows. Where such an exception is kept in a history
variable (`exposed`, `replaced`, `disturbed`, `left`, `mistaken`, `missed`, `dropped`,
`unattended`, `caught`, `garbled`), the variable is set only by the step that does the damage,
and no guard reads it. Those of Delivery record states, in which the damage can be done.

### Bounds

Every counter has a bound of its own: `MaxCommands`, `MaxRestarts` (Gateway),
`MaxFaults`, `MaxCrashes`, `MaxEnds` (services), `MaxFailures` (UserService,
FriendService, RpcChannel: failures of any kind, together), `MaxOutages` (Redis),
`MaxLost` (calls lost and ends of the message service, together), `MaxChanges`,
`MaxCalls`, `MaxStarts`, `MaxLines`, `MaxPushes`. Two users, connections and workers
are what the interleavings need: a user whose entry, route or rows another one
could touch, two connections that share one user, two workers between whose
statements something happens. One IO thread per connection gives all
interleavings of handlers; the queue of functors behind a blocked handler occurs
with one connection as well. Two commands in `gateway` are a login and a second
login, on the same or the other connection, then closes, the restart and pushes in
any order; closing is not a command. The race of `gatewayServer.cc:158` with a new
login needs an entry of a connection that is gone and so is within two commands; to
have the user log out and in once more takes three, which was checked once for the
safety properties and takes too long to keep. `sessions` has three, so that a
connection can log in, log out and log in as somebody else. Two messages show an
order. Three connections a worker is the premise of `AlreadyOnlineRefused`, two
a worker the program's figure. `groups` has fewer, as many and more connections than
workers; three groups let one worker create two while the other waits within its own. In `rpc` the pool has room for one of the two sockets, and the second
failure can hit what the first has weakened: a service whose session is lost while a
request of its was dropped, or a second start that finds the old nodes. In `delivery`
one worker of the message service is enough for two deliveries at once: when its call
is lost, or the service ends, a presence worker is still publishing while the next
message is sent. Without `collided`, or without `lostCalls = 0`, the run finds a
violation of the property that has it as premise. Two gateways on one channel, and an
outage of Redis, for which `RoutedIsPushed` has `outages = 0`, were checked one at a
time with `MaxLost = 0`; two workers of the message service take too long, and they
meet in `messages`. `client` has been run with three lines too, without a push, and
with one for the invariants alone. Each message is sent once, each connection is
accepted once; nothing else bounds the number of calls. Deadlock is not checked:
with all bounded events used up the models stop, the client's process ends, and the
system does nothing when nobody sends anything. Where a bound could hide a wait for
ever, the run has a liveness property (`NoThreadStuck`, `CallsReturn`,
`CallsEnd`, `EndsWhenAsked`).

### Fairness

* Gateway: `WF` of the answers a handler waits for and of the observer - the
  services answer, threads run. `SF` of `RunFunctor(l)`: the loop of an IO thread
  alternates between the handlers of readable sockets and its functors
  (`doPendingFunctors` after every poll), so a functor cannot be passed over for
  ever, although it is not enabled while a handler blocks the thread.
* Sessions: `WF` of workers and of the start of the service (an operator or
  supervisor restarts it), `SF` of a thread's way into or out of a call: while the
  workers are busy the request waits in a socket buffer, and is taken in turn.
* GroupService: `WF` of each worker. A worker that waits in `acquire()` is enabled
  only while a connection is free; weak fairness is all a condition variable gives. It
  does not keep one waiting call from being passed over for ever by the calls of others,
  and nothing in the code does: `CallsReturn` is of the calls together, and says that
  one or another returns as long as there are any.
* RpcChannel: `WF` of each calling thread and of each connection of the provider,
  while it lives. ZooKeeper need not end a session, addresses need not expire.
* Client: `WF` of main, reader and writer in their own steps. A `send()` may wait for
  ever, the user may stop typing.

Nothing is assumed of clients, of Redis or of the arrival of messages.

## Proofs

TLAPS checks these theorems for all values of the constants that satisfy the assumption
of the module (`GatewayAssumption`, `UserServiceAssumption`, `PresenceAssumption`,
`MessageServiceAssumption`, `GroupServiceAssumption`, `FriendServiceAssumption`,
`RpcChannelAssumption`, `DiscoveryAssumption`, `ClientAssumption`,
`SessionsAssumption`, `DeliveryAssumption`). They say that sorts
are disjoint from `None`, that functions have their sorts, and that bounds are natural
numbers; the user service has finitely many workers, the group service finitely many
workers and connections, the gateway of Sessions finitely many threads; in Delivery
every message has one recipient, as group messages are not handed over. TLC evaluates
each assumption in the runs of its module.

A safety property is proved through an invariant that holds at first, that every
action keeps, and that implies it. Each proof module states what its invariant adds to
the property and has one lemma for each part, or for each action; where many actions do
the same thing to the state, a lemma states that effect (`CallSendEffect`, `Becomes`,
`OthersStay`, `QuietStep`) and the actions are shown to have it.

`GatewayProofs`
* `GatewayTypeCorrect`: `Spec => []TypeOK`.
* `GatewayInvariant`: `Spec => []GatewayInv`. `LoginReplyBeforePush` alone is not
  inductive: it says nothing of a message that is still on its way. The invariant
  adds that each station of the way - the table, the observer between lookup and
  post, the functors of an IO thread - names a connection that is *vouched for*:
  its client has been told it is the recipient, or the handler that will tell it
  occupies the very thread on which the functor waits (`TableVouched`,
  `ObserverVouched`, `FunctorsVouched`). For that, handlers must run on the thread
  of their connection (`OwnThread`), and a connection being served must not have
  closed (`ServedUp`).
* `PushAfterLogin`: `Spec => []LoginReplyBeforePush`, from the above.
* `SilentAfterDown`: `Spec => NothingWrittenAfterDown`, an action property: actions
  that write do so for a served connection, which is up by `ServedUp`, or test it.
* `SoleSessionKeepsEntry`: `Spec => []SoleSessionMapped`. Two steps erase by key and not
  by connection. `EraseSeen` says that an observer about to erase has seen a connection
  of the user that is gone, which makes the user one with two sessions in its history;
  `SessVouched` that each session counts as one.
* `OrderInvariant`, `ImplementsPushChannel`: `Spec => PushesAsPromised`, the refinement.
  `OrderInv` says where a message is. The channel is the rest of what was published
  (`ChannelIsRest`); the observer is at the last message taken (`ObserverAtLast`);
  functors and lines are of messages before that one (`WaitingPast`, `WrittenPast`); the
  functors of one thread are in the order of publication and no two threads have the
  same message (`WaitingInOrder`, `WaitingApart`); what was written on a connection
  comes before what its thread still has to write, and is with no thread any more
  (`WrittenBefore`). Since a connection has one thread, its order follows. Every step
  that writes `+OK uid=` is a `Greet`, each functor that finds its connection up is a
  `Push` (its greeting is `GatewayInv`), and all others stutter.

`UserServiceProofs`
* `UserServiceTypeCorrect`: `Spec => []TypeOK`.
* `OnlineUserRefused`: with such a pool, and until a statement fails, a login is
  accepted only if its user was offline at some moment of the call. `RefusalInv` is
  inductive: a login beyond the check has passed it, which needs that the check
  is never skipped, hence the pool: three connections a worker are never all taken while
  one of them waits (`PoolNeverEmpty`). With the program's own figure, eight connections
  for four workers, the condition does not hold.
* `AnsweredWithOwnId`: `Spec => []AnsweredOwnId`. `IdInv` follows the id from `db_`
  through the cache: between the INSERT and the reading of the insert id it is the call's
  own or another call has passed it (`shared`), and a cached id is its user's own or
  came from such a registration.

The same module goes on with Sessions:
* `CompositionInvariant`: `SessionsSpec => []CompositionInv`, of which every theorem
  below makes use. Every step of the composition is one of the user service or none
  (`ServiceStep`), so `RefusalInv` and `IdInv` hold of it too, and since one registration
  at a time is let in, no id is mistaken (`DbInv`). Of the channel it says that a worker
  with a caller executes the very call the thread is blocked in, for the user the thread
  asks for (`CallerMatches`), that two workers have different callers (`CallersApart`),
  that a thread whose call is lost has no worker (`LostWaits`), and that without ends of
  the processes nothing is lost (`NothingLost`). Of the gateway, that handlers run on the
  thread of a connection which is up, and that a LOGOUT is for the user of its session
  (`HandlerInv`): the three handlers split at their RPC find the session they left.
* `SessionsTypeCorrect`: `SessionsSpec => []SessionsTypeOK`. The bound of the channel's
  pools is the content: idle sockets of a method and threads being served with it are
  together no more than the threads (`SocketInv`), because a socket is only opened when
  none is idle.
* `EntriesInvariant`: `SessionsSpec => []EntriesNameSessions`; `EntryInv` adds that no
  entry names a connection that has not come yet.
* `NobodyLockedOut`: `SessionsSpec => []NoLockout`. `NoLockout` lets a user who is online
  be excused by any LOGOUT in progress; that is not inductive, since the LOGOUT may have
  been executed before another login set the user online. `OnlineInv` counts only a
  LOGOUT still to be executed (`Departing`), only a session no executed LOGOUT is about
  to end (`Present`), and only a login that has been accepted (`Arriving`). The steps to
  watch are the UPDATE of the state, which is for the user of the session that ends
  (`HandlerInv`, `DbInv`, and `ClosingInv`: a close callback runs for a connection that
  is down); the answer, at which one excuse gives way to the next; and the statement
  that is skipped for want of a connection, which the ample pool excludes
  (`PoolNeverEmpty`).

`PresenceProofs`
* `PresenceTypeCorrect`: `Spec => []TypeOK`; the steps of a call that publish only
  occur in a Deliver (`DeliveringProc`).
* `DeliveryUsesRoute`: `Spec => []PublishedToRoute`. The property says nothing of a
  call before its lookup; `RouteInv` adds that the history of every call in
  progress holds the present route of its user, which each bind, expiry and outage
  keeps up (`RouteInvKept`, one step per action; `QuietStep` covers the actions
  that touch one call and no route).

`MessageServiceProofs`
* `MessageTypeCorrect`: `Spec => []TypeOK`.
* `PushedNotStored`: `Spec => []PushedOrStored`, whatever fails. `PushInv` adds that a
  message has one Send and is not answered before that returns (`OneSend`), that what is
  stored was not delivered (`StoredIsQueued`), and that the rows a PULL has read are its
  user's (`OwnRows`).
* `QueuedLostOnlyIfExposed`: `Spec => []LostOnlyIfExposed`. `KeptInv` adds the calls
  about to answer "queued" (`QueuedIsKept`), and that a PULL about to delete has read
  every row of its user that is not `exposed` (`DeletedIsRead`).
* `GivenToUserOnce`: `Spec => []GivenOnce`. `GivenInv`: while PULLs of a user do not
  overlap and no statement fails there is one PULL (`OnePull`), what it has read is in
  the table until it has deleted it, and what is in the table was never given
  (`ReadOnce`).

The same module goes on with Delivery:
* `DeliveryInvariant`: `DeliverySpec => []DeliveryInv`. `ServedInv` is its core: the
  presence worker that has a client executes the very call the client's Send waits for,
  for its message; two workers have different clients; a message is delivered by one
  worker at most, and once its Send waits for a Deliver, by the one that serves it. So an
  answer is never taken for that of another call, though calls are lost and the executions
  go on. To it are added what a call has at each step and that before the first outage
  every connection is open (`DeliveryCalls`), what `Observe` has seen (`Observed`),
  `P!RouteInv` of the presence service, and of the message service `OneSend` and
  `StoredIsQueued`.
* `DeliveredHeard`: `DeliverySpec => []DeliveredIsHeard`. `OkIsHeard` follows "Ok" from
  PUBLISH through the answer of Deliver and the Send that returns it. A worker that
  publishes on a connection that was never mixed, to a route that is subscribed is heard: `P!RouteInv` makes the gateway
  one of the routes seen, which `unheard` is about.
* `PushedOrPulled`: `DeliverySpec => []NotPushedAndPulled`. `HeardIsOk`: a delivery in
  progress whose message was heard, or can still leave the buffer of a mixed connection
  (`Released`), answers "Ok", so a Send that stores has a message that was neither, and
  nobody delivers it any more, for which no call may be lost.
* `RoutedPushed`: `DeliverySpec => []RoutedIsPushed`. `FailsForCause`: a call for a
  message that is in neither history answers "Ok", and its Send does not store.
* `ComposedMessages`, `ComposedPresence`: `DeliverySpec => Spec` and `=> P!Spec`: each
  service does in the composition only what it does alone, for which every other part of
  its environment was left open. What is proved of it alone therefore holds here.
* `DeliveryTypeCorrect`: `DeliverySpec => []DeliveryTypeOK`.

`GroupServiceProofs`
* `GroupTypeCorrect`: `Spec => []TypeOK`.
* `PoolKeptIntact`: `Spec => []PoolIntact`. `PoolInv` adds that a pool not yet filled
  has no connections and that the second one of CreateGroup is only held from where it
  is taken. Every action exchanges connections between one call and the pool so that
  both together keep theirs.

`FriendServiceProofs`
* `FriendTypeCorrect`: `Spec => []TypeOK`, with the fields a call has at each step
  (`WellFormed`).
* `FriendshipKeptMutual`: `Spec => []FriendshipMutual`. `PairInv` says of a change
  half-way which of the two rows it has written (`HalfAdded`, `HalfRemoved`), that an
  AddFriend past its check found none (`AddChecked`), and that of two changes of a pair
  one is late and the pair disturbed (`RivalsLate`, `LateDisturbed`).
* `CachedListKeptCurrent`: `Spec => []CachedListCurrent`: what a GetFriends has read and
  not yet cached is what the table says, unless a change has made it late
  (`FillCurrent`).

`RpcChannelProofs`
* `ListeningServiceFound`: `Spec => []ListeningIsFound`. `DiscoveryInv` says it of a
  provider that has not come to its last method. Every action of the channel leaves
  discovery alone or is one of its own (`DiscoveryStep`).
* `ChannelTypeCorrect`: `Spec => []TypeOK`.
* `SocketsAreAccounted`: `Spec => []SocketsAccounted`. `OwnInv`: a descriptor is open
  exactly when one thread has it or it is once in one pool.
* `CallsAnsweredOnce`: `Spec => []AnsweredOnce`. `WireInv` states the protocol of a
  socket at each step of the call that holds it: the request is on its way, or being
  executed, or its answer is, length before body, or everything is lost (`Protocol`);
  a socket nobody holds is silent (`IdleQuiet`), so that the next call cannot read the
  answer to an earlier one; requests are numbered and executed at most once
  (`Numbered`).

`ClientProofs`
* `ClientInvariant`, `ClientTypeCorrect`: `Spec => [](TypeOK /\ ClientInv)`. That the
  queue is never longer than the lines entered and one LOGOUT (part of `TypeOK`) needs
  where that LOGOUT can come from (`QueueInv`), and so the whole order of an exit:
  `GoalInv` (who is in `stop()`, and for what), `ClosedInv` (the queue is closed before
  threads are joined), `JoinInv` (who is joined has ended), `RunningInv` (who finds
  `running_` cleared).
* `DescriptorClosedUnused`: `Spec => []ClosedUnused`, from `JoinInv`.
* `ReaderKeepsAttending`: `Spec => []ReaderAttends`, from `RunningInv`.

Only model-checked: liveness (`HandedOverIsWritten`, `PublishedIsWritten`,
`NoThreadStuck`, `CallsReturn`, `CallsEnd`, `EndsWhenAsked`), which is out of reach
of the prover, as are ENABLED and facts about recursive definitions. Every invariant and
action property of a passing run is proved. A composition that takes a component by a
named `INSTANCE` cannot cite its theorems, as the prover keeps those of an instance
closed: what Sessions needs of Gateway is proved again for the actions it uses
(`GatewayStep`), and the lemmas of PresenceProofs that Delivery needs for the instance
`P` (`PresenceTyped`, `PRouteInvKept`).

## Where code and documents disagree

One run of `PROJECT.json` ends in a violation, `groups_id`: the id of a new group is
read from another connection of the pool than the one that inserted it
(`group_service.cc:60`, against the comments at 57 and 69), and the creator is entered
into group 0, or into another group; the answer is "group created".

Other disagreements are part of the models and appear as exceptions of properties
that pass:

* A check of the state that gets no connection in 200 ms is skipped, and an online
  user is let in (`user_service.cc:136`, against the comments at 54 and 141): `Ample`
  in `AlreadyOnlineRefused`.
* A second LOGIN on a connection forgets the first user, who stays "online" and is
  refused from then on (`gatewayServer.cc:405`, against the comment at 192):
  `replaced` in `NoLockout`.
* A message stored between the SELECT and the DELETE of its recipient's PULL is
  deleted unread (`message_service.cc:161`, against
  `docs/architecture/message-flow-enhanced.md:342`), as it is when the SELECT failed:
  `exposed` in `LostOnlyIfExposed`.
* Two PUBLISH at once on one hiredis connection, and every later one on it
  (`message_queue.cc:81`, against `cache_manager.h:49`): `collided` in the three
  properties of Delivery.
* A payload with a NUL is cut by PUBLISH (`message_queue.cc:81`) and thrown away by the
  gateway (`gatewayServer.cc:128`): `garbled` in `PublishedIsWritten`.
* The insert id is read after another worker's statement on `db_`
  (`user_service.cc:230`): `mistaken` in `AnsweredOwnId`.
* `stop()` promises a LOGOUT before the socket is shut (`client.cc:79`, and "logging
  out and exiting" in the client's `main.cc:19`), but `gracefulExit` has reset
  `loginSuccess` by then (`client.cc:408`): the line is only sent after " quit" with
  blanks around it, which takes the other path (`commandHandler.cc:52`), or when a
  login is answered in between.
* A broken cache connection of presence is never opened again, and the first PULL of
  anyone deletes the group messages of everyone: actions of Presence and
  MessageService, stated in the hazard list.

## Not modelled

* `src/.history` holds some thousand earlier versions of the sources, left by an
  editor, which are most of the repository's lines. They are not the program. A schema
  among them differs from the one the models follow, that of
  `docs/architecture/data-storage.md:171-243`, which says it agrees with the code.
* Base64, the JSON of a stored row, the width of ids (cut to `int` in the SQL texts; the
  columns are `BIGINT` and count from 1), message numbers: data no property tells
  apart.
* What is cached about a user's status and about a group is written and never read.
* The logger: a queue and a writer thread that no other part waits for.
* `thirdparty/redisclient/redis.cpp`, the headers for JWT, rate limit and health:
  used by no component. Configuration is read once. Benchmarks and tests drive the
  system from outside; the LRU examples are not part of it.
* muduo, hiredis, libmysqlclient and ZooKeeper are seen only through what the code
  does with them. Memory safety is out of scope, except where undefined behaviour is a
  choice between outcomes (`Racing`, `mixed`, the watcher of a ZooKeeper session that
  writes to a promise that is gone).
* The watcher of `redisGetReply` and the client of the composition Delivery are not
  joined into one model with Gateway: Gateway's side is PushChannel, and the product is
  beyond TLC.

## Plan

The parts that carry state are modelled, and every safety property the runs check is
proved. What remains:

* Gateway and Delivery meet in the Redis channel, which both models have at their edge:
  what Delivery counts as heard is what Gateway calls published. A composition of
  the two is beyond TLC, but by `ImplementsPushChannel` one of Delivery with PushChannel
  would do: from Send to the line the client reads.
* Invariants that the liveness runs rest on, so that less is left to small instances: in
  RpcChannel, that a call that waits has its request or its answer under way, or has lost
  its service; in GroupService, that with more connections than workers one is free while
  a call waits.
