------------------------------ MODULE Delivery ------------------------------
(***************************************************************************)
(* The message service and the presence service together: a Send that asks *)
(* for the route of its recipient, asks again for the delivery, and stores *)
(* the message when either says no, while routes are bound and expire,     *)
(* gateways come and go, and the presence service is lost and replaced.    *)
(***************************************************************************)
EXTENDS MessageService

CONSTANTS
  Gateways, Channels, ChannelOf, Procs, MaxOutages,      \* Presence
  MaxLost    \* bound: calls between the services that fail, and ends of the
             \* message service, together

\* Group messages are never handed over: here every message has one recipient.
ASSUME DeliveryAssumption ==
  /\ To \in [Msgs -> Users]
  /\ ChannelOf \in [Gateways -> Channels]
  /\ None \notin Gateways \cup Workers
  /\ MaxOutages \in Nat
  /\ MaxLost \in Nat

VARIABLES
  redis, route, subscribed, cache, queue, mixed, buffered, connected, proc,
  heard, outages, routesSeen,
  client,      \* the worker of the message service each presence worker serves
  lostCalls,
  unroutable,  \* history: sends during which the recipient had no route once
  unheard,     \* history: messages with a route that had no subscriber once
  collided     \* history: messages whose PUBLISH met an outage or a mixed connection

P == INSTANCE Presence

messageVars == vars
presenceVars == <<redis, route, subscribed, cache, queue, mixed, buffered,
                  connected, proc, heard, outages, routesSeen>>
histories == <<unroutable, unheard, collided>>
deliveryVars == <<messageVars, presenceVars, client, lostCalls, histories>>

DeliveryTypeOK ==
  /\ TypeOK
  /\ P!TypeOK
  /\ client \in [Procs -> Workers \cup {None}]
  /\ lostCalls \in Nat
  /\ unroutable \subseteq Msgs
  /\ unheard \subseteq Msgs
  /\ collided \subseteq Msgs

DeliveryInit ==
  /\ Init
  /\ P!Init
  /\ client = [p \in Procs |-> None]
  /\ lostCalls = 0
  /\ unroutable = {}
  /\ unheard = {}
  /\ collided = {}

-----------------------------------------------------------------------------
Sending(m) == \E w \in Workers : worker[w].op = "send" /\ worker[w].msg = m

\* A presence worker delivers m, or has delivered it.
Delivers(p, m) == proc[p].op = "Deliver" /\ proc[p].msg = m

\* What the histories record of the state a step leads to.
Observe ==
  /\ unroutable' = unroutable \cup
       {m \in Msgs : Sending(m)' /\ (route[To[m]] = None)'}
  /\ unheard' = unheard \cup
       {m \in Msgs : \E p \in Procs :
                        Delivers(p, m)' /\ ~ (routesSeen[p] \ {None} \subseteq subscribed)'}
  /\ collided' = collided \cup
       {m \in Msgs : \E p \in Procs :
          \/ Delivers(p, m)' /\ proc'[p].step = "sent" /\ mixed'
          \/ Delivers(p, m) /\ proc[p].step = "sent" /\ redis # redis'}

-----------------------------------------------------------------------------
(* Calls from the message service to the presence service.                 *)

Called(w) == \E p \in Procs : client[p] = w

\* presence_->QueryRoute and presence_->Deliver reach a worker.
Request(w, p) ==
  /\ ~Called(w)
  /\ \/ /\ worker[w].step = "query"
        /\ P!CallQueryRoute(p, To[worker[w].msg])
     \/ /\ worker[w].step = "deliver"
        /\ P!CallDeliver(p, worker[w].msg)
  /\ client' = [client EXCEPT ![p] = w]
  /\ UNCHANGED <<messageVars, lostCalls>>

\* Send goes on: with what the call answered, or with its failure.
Resume(w, ok) ==
  IF worker[w].step = "query" THEN QueryReturns(w, ok)
                              ELSE DeliverReturns(w, ok)

Answered(p) ==
  /\ P!Reply(p)
  /\ IF client[p] = None
     THEN UNCHANGED messageVars
     ELSE Resume(client[p], proc[p].code = "Ok")
  /\ client' = [client EXCEPT ![p] = None]
  /\ UNCHANGED lostCalls

\* The call fails before it is taken, or while it is executed: the socket to
\* the presence service breaks, and the service goes on regardless.
CallLost(w) ==
  /\ lostCalls + crashes < MaxLost
  /\ lostCalls' = lostCalls + 1
  /\ worker[w].step \in {"query", "deliver"}
  /\ Resume(w, FALSE)
  /\ client' = [p \in Procs |-> IF client[p] = w THEN None ELSE client[p]]
  /\ UNCHANGED presenceVars

-----------------------------------------------------------------------------
\* A gateway asks for a route to be bound.
Bind(p) ==
  /\ \E u \in Users, g \in Gateways : P!CallBindRoute(p, u, g)
  /\ UNCHANGED <<messageVars, client, lostCalls>>

PresenceStep ==
  /\ (\E p \in Procs : P!Execute(p)) \/ P!Environment
  /\ UNCHANGED <<messageVars, client, lostCalls>>

MessageStep ==
  /\ \E w \in Workers : Receive(w) \/ Store(w) \/ Pull(w) \/ Reply(w)
  /\ UNCHANGED <<presenceVars, client, lostCalls>>

\* The message service ends; what the presence service does for it goes on.
MessageServiceEnds ==
  /\ lostCalls + crashes < MaxLost
  /\ Crash
  /\ client' = [p \in Procs |-> None]
  /\ UNCHANGED <<presenceVars, lostCalls>>

DeliveryNext ==
  /\ \/ \E w \in Workers : CallLost(w) \/ \E p \in Procs : Request(w, p)
     \/ \E p \in Procs : Answered(p) \/ Bind(p)
     \/ PresenceStep \/ MessageStep \/ MessageServiceEnds
  /\ Observe

DeliverySpec == DeliveryInit /\ [][DeliveryNext]_deliveryVars

-----------------------------------------------------------------------------
Heard(m) == \E g \in Gateways : <<m, g>> \in heard

\* As long as Redis runs and no call between the services is lost, a message whose
\* recipient is routed during the whole Send is handed over, not stored: "online users
\* get messages in real time" (message-flow-enhanced.md:348).  The exception is a
\* PUBLISH on a connection that two threads have used at once, then or earlier,
\* which may be told it failed.
RoutedIsPushed ==
  \A m \in Msgs :
     (lostCalls = 0 /\ outages = 0 /\ answered[m] = "queued")
        => m \in unroutable \cup collided

\* Whatever is lost: a message answered "delivered" was heard by a gateway, unless
\* one that was its route did not listen, or its PUBLISH met an outage, or a
\* connection whose replies may be those of others since two threads used it at once.
DeliveredIsHeard ==
  \A m \in Msgs :
     answered[m] = "delivered" => Heard(m) \/ m \in unheard \cup collided

\* A message is both heard by a gateway and stored, or given by a PULL, only if
\* a call between the services was lost, or its PUBLISH met an outage or a connection
\* that two threads have used at once.
NotPushedAndPulled ==
  \A m \in Msgs \ collided :
     (lostCalls = 0 /\ Heard(m)) => m \notin table /\ ~Taken(m)
=============================================================================
