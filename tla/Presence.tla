------------------------------ MODULE Presence ------------------------------
(***************************************************************************)
(* Routes of users and delivery to gateways                                *)
(* (im-presence/src/presence_service.cc) over the two Redis connections of *)
(* the process: cache_manager_, whose commands are under a mutex, and the  *)
(* publishing connection of message_queue_, which the RPC workers share    *)
(* without one (thirdparty/redisclient/src/).                              *)
(*                                                                         *)
(* A hiredis connection that has failed once fails from then on; Connect   *)
(* takes it for a connected one, since the pointer to it is not null.      *)
(* The publishing connection keeps what it has not sent yet in one buffer  *)
(* and what it has read in another, and a command first takes a reply that *)
(* was read already: once two threads have used it at the same time, its   *)
(* replies can be one behind, or its state an error, for good.             *)
(***************************************************************************)
EXTENDS Naturals, FiniteSets

CONSTANTS
  Users,
  Gateways,     \* gateway ids
  Channels,     \* channel numbers, 10000 to 59999
  ChannelOf,    \* the channel of a gateway: a hash, not one to one
  Msgs,         \* messages to deliver
  To,           \* the recipient of each message
  Procs,        \* RPC worker threads of the service
  None,         \* no user, no gateway, no message
  MaxOutages    \* bound: outages of Redis

ASSUME PresenceAssumption ==
  /\ ChannelOf \in [Gateways -> Channels]
  /\ To \in [Msgs -> Users]
  /\ None \notin Users \cup Gateways \cup Msgs
  /\ MaxOutages \in Nat

VARIABLES
  redis,       \* the Redis server runs
  route,       \* keys route:<uid>
  subscribed,  \* gateways whose subscription is established
  cache,       \* connection of cache_manager_
  queue,       \* publishing connection of message_queue_
  mixed,       \* two threads have used the publishing connection at once
  buffered,    \* its commands that were not sent, though their PUBLISH returned
  connected,   \* redis_connected_
  proc,        \* the call each worker thread executes
  heard,       \* history: which gateway got which message
  outages,
  routesSeen   \* history: routes the user of a call had during the call

publishing == <<queue, mixed, buffered>>
vars == <<redis, route, subscribed, cache, publishing, connected, proc, heard,
          outages, routesSeen>>

Link == {"none", "open", "broken"}

Codes == {"Ok", "NOT_FOUND", "INTERNAL"}

Routing ==
  [op : {"BindRoute", "QueryRoute"}, step : {"connect", "key", "answer"},
   user : Users, gw : Gateways \cup {None}, msg : {None},
   code : Codes \cup {"none"}]

Delivering ==
  [op : {"Deliver"}, step : {"connect", "key", "publish", "sent", "answer"},
   user : Users, gw : Gateways \cup {None}, msg : Msgs,
   code : Codes \cup {"none"}]

Busy == Routing \cup Delivering

Idle == [op |-> "none", step |-> "idle", user |-> None, gw |-> None,
         msg |-> None, code |-> "none"]

TypeOK ==
  /\ redis \in BOOLEAN
  /\ route \in [Users -> Gateways \cup {None}]
  /\ subscribed \subseteq Gateways
  /\ cache \in Link
  /\ queue \in Link
  /\ mixed \in BOOLEAN
  /\ buffered \subseteq Msgs \X (Gateways \cup {None})
  /\ connected \in BOOLEAN
  /\ proc \in [Procs -> Busy \cup {Idle}]
  /\ heard \subseteq Msgs \X Gateways
  /\ outages \in Nat
  /\ routesSeen \in [Procs -> SUBSET (Gateways \cup {None})]

\* What the constructor leaves after its three attempts.  Connect of the queue
\* is tried only after that of the cache, and an attempt that finds the cache
\* connection of an earlier one does not open it again.  Redis being down then
\* counts as an outage.
Constructed ==
  \/ /\ redis /\ cache = "open" /\ queue = "open" /\ connected
     /\ outages = 0
  \/ /\ redis /\ cache = "broken" /\ queue = "open" /\ connected
     /\ outages = 1
  \/ /\ ~redis /\ cache \in {"none", "broken"} /\ queue = "none" /\ ~connected
     /\ outages = 1

Init ==
  /\ redis \in BOOLEAN /\ cache \in Link /\ queue \in Link
  /\ connected \in BOOLEAN
  /\ outages \in 0..MaxOutages
  /\ Constructed
  /\ mixed = FALSE
  /\ buffered = {}
  /\ route = [u \in Users |-> None]
  /\ subscribed = {}
  /\ proc = [p \in Procs |-> Idle]
  /\ heard = {}
  /\ routesSeen = [p \in Procs |-> {}]

-----------------------------------------------------------------------------
(* RPC handlers.                                                           *)

Answer(p, code) ==
  proc' = [proc EXCEPT ![p].step = "answer", ![p].code = code]

Goto(p, step) == proc' = [proc EXCEPT ![p].step = step]

Call(p, op, u, g, m) ==
  /\ proc[p] = Idle
  /\ proc' = [proc EXCEPT ![p] =
                [Idle EXCEPT !.op = op, !.step = "connect", !.user = u,
                             !.gw = g, !.msg = m]]
  /\ routesSeen' = [routesSeen EXCEPT ![p] = {route[u]}]
  /\ UNCHANGED <<redis, route, subscribed, cache, publishing, connected, heard,
                 outages>>

CallBindRoute(p, u, g) == Call(p, "BindRoute", u, g, None)
CallQueryRoute(p, u) == Call(p, "QueryRoute", u, None, None)
CallDeliver(p, m) == Call(p, "Deliver", To[m], None, m)

\* "Redis not connected, attempting to reconnect": only the cache, and only a
\* connection that was never opened.  Deliver does not even try.
EnsureConnected(p) ==
  /\ proc[p].step = "connect"
  /\ \/ /\ connected
        /\ Goto(p, "key")
        /\ UNCHANGED <<cache, connected>>
     \/ /\ ~connected
        /\ proc[p].op # "Deliver"
        /\ cache # "none" \/ redis
        /\ cache' = IF cache = "none" THEN "open" ELSE cache
        /\ connected' = TRUE
        /\ Goto(p, "key")
     \/ /\ ~connected
        /\ proc[p].op = "Deliver" \/ (cache = "none" /\ ~redis)
        /\ Answer(p, "INTERNAL")
        /\ UNCHANGED <<cache, connected>>
  /\ UNCHANGED <<redis, route, subscribed, publishing, heard, outages, routesSeen>>

\* BindRoute: SETEX of the route.
Setex(p) ==
  /\ proc[p].step = "key" /\ proc[p].op = "BindRoute"
  /\ IF cache = "open"
     THEN /\ route' = [route EXCEPT ![proc[p].user] = proc[p].gw]
          /\ Answer(p, "Ok")
          /\ routesSeen' = [q \in Procs |->
               IF proc[q].user = proc[p].user
               THEN routesSeen[q] \cup {proc[p].gw} ELSE routesSeen[q]]
     ELSE /\ Answer(p, "INTERNAL")
          /\ UNCHANGED <<route, routesSeen>>
  /\ UNCHANGED <<redis, subscribed, cache, publishing, connected, heard, outages>>

\* What a lookup does with the value of the key.
Found(p, g) ==
  \/ /\ g = None
     /\ Answer(p, "NOT_FOUND")
  \/ /\ g # None
     /\ proc' = [proc EXCEPT
          ![p].gw = g,
          ![p].step = IF proc[p].op = "Deliver" THEN "publish" ELSE "answer",
          ![p].code = IF proc[p].op = "Deliver" THEN "none" ELSE "Ok"]

\* A lookup whose key is built in a buffer the threads share.
GetShared(p) ==
  /\ proc[p].step = "key" /\ proc[p].op # "BindRoute"
  /\ \E q \in Procs :
        /\ proc[q] # Idle
        /\ Found(p, IF cache = "open" THEN route[proc[q].user] ELSE None)
  /\ UNCHANGED <<redis, route, subscribed, cache, publishing, connected, heard,
                 outages, routesSeen>>

\* QueryRoute and Deliver: GET of the route.  A broken connection finds nothing.
Get(p) ==
  /\ proc[p].step = "key" /\ proc[p].op # "BindRoute"
  /\ Found(p, IF cache = "open" THEN route[proc[p].user] ELSE None)
  /\ UNCHANGED <<redis, route, subscribed, cache, publishing, connected, heard,
                 outages, routesSeen>>

\* The calls inside redisCommand on the publishing connection.
Sent == {p \in Procs : proc[p].step = "sent"}

\* Publish that gives up when the connection may be in use.
PublishBusy(p) ==
  /\ proc[p].step = "publish"
  /\ IF queue = "open" /\ \A q \in Procs \ {p} : proc[q] = Idle
     THEN Goto(p, "sent")
     ELSE Answer(p, "INTERNAL")
  /\ UNCHANGED <<redis, route, subscribed, cache, publishing, connected, heard,
                 outages, routesSeen>>

\* Publish that leaves its command in the buffer of the connection.
PublishBuffered(p) ==
  /\ proc[p].step = "publish"
  /\ Answer(p, IF queue = "open" THEN "Ok" ELSE "INTERNAL")
  /\ UNCHANGED <<redis, route, subscribed, cache, publishing, connected, heard,
                 outages, routesSeen>>

\* MessageQueue::Publish enters redisCommand, whoever is in it already.  Without
\* a connection there is no command, and a broken one only has replies to give
\* that were left in it.
Publish(p) ==
  /\ proc[p].step = "publish"
  /\ IF queue = "open" \/ (queue = "broken" /\ mixed)
     THEN Goto(p, "sent") /\ mixed' = (mixed \/ Sent # {})
     ELSE Answer(p, "INTERNAL") /\ UNCHANGED mixed
  /\ UNCHANGED <<redis, route, subscribed, cache, queue, buffered, connected,
                 heard, outages, routesSeen>>

\* PUBLISH to the channel of a gateway, and who hears such commands.
PublishCommand(p) == <<proc[p].msg, proc[p].gw>>
Listeners(g) == {h \in subscribed : ChannelOf[h] = ChannelOf[g]}
Reached(cmds) == UNION {{c[1]} \X Listeners(c[2]) : c \in cmds}

\* The reply of a command that was alone is an integer, also when nobody listens.
\* On a mixed connection the reply can be that of another command, or none, for
\* this command and for every later one; what leaves the buffer, now or with a
\* later command, is open, and nothing leaves it once the connection is broken.
PublishReturns(p) ==
  /\ proc[p].step = "sent"
  /\ \/ /\ ~mixed
        /\ heard' = heard \cup Reached({PublishCommand(p)})
        /\ Answer(p, "Ok")
        /\ UNCHANGED buffered
     \/ /\ mixed
        /\ \E left \in SUBSET (buffered \cup {PublishCommand(p)}),
              gone \in SUBSET (buffered \cup {PublishCommand(p)}) :
              /\ left \cap gone = {}
              /\ gone # {} => queue = "open"
              /\ buffered' = left
              /\ heard' = heard \cup Reached(gone)
        /\ \E code \in {"Ok", "INTERNAL"} : Answer(p, code)
  /\ UNCHANGED <<redis, route, subscribed, cache, queue, mixed, connected,
                 outages, routesSeen>>

\* An answer object the next call finds as it was left.
ReplyKept(p) ==
  /\ proc[p].step = "answer"
  /\ Goto(p, "idle")
  /\ UNCHANGED <<redis, route, subscribed, cache, publishing, connected, heard,
                 outages, routesSeen>>

Reply(p) ==
  /\ proc[p].step = "answer"
  /\ proc' = [proc EXCEPT ![p] = Idle]
  /\ routesSeen' = [routesSeen EXCEPT ![p] = {}]
  /\ UNCHANGED <<redis, route, subscribed, cache, publishing, connected, heard,
                 outages>>

-----------------------------------------------------------------------------
(* Redis and the gateways.                                                 *)

\* 120 seconds after the last BindRoute of the user.
Expire(u) ==
  /\ redis
  /\ route[u] # None
  /\ route' = [route EXCEPT ![u] = None]
  /\ routesSeen' = [p \in Procs |->
       IF proc[p].user = u THEN routesSeen[p] \cup {None} ELSE routesSeen[p]]
  /\ UNCHANGED <<redis, subscribed, cache, publishing, connected, proc, heard,
                 outages>>

\* GatewayServer::initMessageQueue subscribes to the channel of the gateway.
Subscribe(g) ==
  /\ redis
  /\ g \notin subscribed
  /\ subscribed' = subscribed \cup {g}
  /\ UNCHANGED <<redis, route, cache, publishing, connected, proc, heard, outages,
                 routesSeen>>

\* The gateway ends, or its observer does.
Unsubscribe(g) ==
  /\ g \in subscribed
  /\ subscribed' = subscribed \ {g}
  /\ UNCHANGED <<redis, route, cache, publishing, connected, proc, heard, outages,
                 routesSeen>>

Broken(link) == IF link = "open" THEN "broken" ELSE link

\* The keys survive, or not.  Commands under way were executed, or not, and one
\* that was not finds no reply, unless one was left on a mixed connection.
RedisDown ==
  /\ redis
  /\ outages < MaxOutages
  /\ outages' = outages + 1
  /\ redis' = FALSE
  /\ cache' = Broken(cache)
  /\ queue' = Broken(queue)
  /\ subscribed' = {}
  /\ \/ UNCHANGED <<route, routesSeen>>
     \/ /\ route' = [u \in Users |-> None]
        /\ routesSeen' = [p \in Procs |-> routesSeen[p] \cup {None}]
  /\ \E executed \in SUBSET (buffered \cup {PublishCommand(p) : p \in Sent}),
        replied \in SUBSET Sent :
        /\ mixed \/ \A p \in replied : PublishCommand(p) \in executed
        /\ heard' = heard \cup (IF queue = "open" THEN Reached(executed) ELSE {})
        /\ proc' = [p \in Procs |->
             IF p \in Sent
             THEN [proc[p] EXCEPT !.step = "answer",
                     !.code = IF p \in replied THEN "Ok" ELSE "INTERNAL"]
             ELSE proc[p]]
  /\ buffered' = {}
  /\ UNCHANGED <<mixed, connected>>

RedisUp ==
  /\ ~redis
  /\ redis' = TRUE
  /\ UNCHANGED <<route, subscribed, cache, publishing, connected, proc, heard,
                 outages, routesSeen>>

-----------------------------------------------------------------------------
Receive(p) ==
  \/ \E u \in Users, g \in Gateways : CallBindRoute(p, u, g)
  \/ \E u \in Users : CallQueryRoute(p, u)
  \/ \E m \in Msgs : CallDeliver(p, m)

Execute(p) ==
  \/ EnsureConnected(p) \/ Setex(p) \/ Get(p)
  \/ Publish(p) \/ PublishReturns(p)

Environment ==
  \/ \E u \in Users : Expire(u)
  \/ \E g \in Gateways : Subscribe(g) \/ Unsubscribe(g)
  \/ RedisDown \/ RedisUp

Next ==
  \/ \E p \in Procs : Receive(p) \/ Execute(p) \/ Reply(p)
  \/ Environment

Spec == Init /\ [][Next]_vars

-----------------------------------------------------------------------------
\* A message is published to the channel of a gateway that was the route of
\* its recipient during the call: binds and expiries may pass a Deliver on its
\* way, but the route it uses is never that of another user or an older one.
PublishedToRoute ==
  \A p \in Procs :
     proc[p].step \in {"publish", "sent"} => proc[p].gw \in routesSeen[p]

\* What PublishedToRoute rests on: the history of a call keeps up with the route
\* of its user, so that whatever a lookup finds is in it.
RouteInv ==
  /\ \A p \in Procs : proc[p] # Idle => route[proc[p].user] \in routesSeen[p]
  /\ PublishedToRoute
=============================================================================
