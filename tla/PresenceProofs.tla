--------------------------- MODULE PresenceProofs ---------------------------
(***************************************************************************)
(* What the presence service promises of a delivery, for any users,        *)
(* gateways, channels, messages and workers: the route it uses is one its  *)
(* recipient had during the call, whatever binds, expires or breaks.       *)
(***************************************************************************)
EXTENDS Presence, TLAPS

USE DEF publishing

\* A worker that is not idle executes a call.
LEMMA BusyProc ==
  ASSUME TypeOK, NEW p \in Procs, proc[p].step # "idle"
  PROVE  proc[p] \in Busy
BY DEF TypeOK, Idle

\* Only a Deliver publishes.
LEMMA DeliveringProc ==
  ASSUME TypeOK, NEW p \in Procs, proc[p].step \in {"publish", "sent"}
  PROVE  proc[p] \in Delivering
<1>1. proc[p] \in Busy
  BY BusyProc
<1>2. proc[p] \notin Routing
  BY DEF Routing
<1> QED
  BY <1>1, <1>2 DEF Busy

\* The moves of a call keep it a call.
LEMMA GotoTyped ==
  ASSUME TypeOK, NEW p \in Procs, proc[p].step # "idle",
         NEW step, Goto(p, step),
         \/ step \in {"connect", "key", "answer"}
         \/ step \in {"publish", "sent"} /\ proc[p] \in Delivering
  PROVE  proc' \in [Procs -> Busy \cup {Idle}]
<1>1. [proc[p] EXCEPT !.step = step] \in Busy
  BY BusyProc DEF Busy, Routing, Delivering
<1> QED
  BY <1>1 DEF TypeOK, Goto

LEMMA AnswerTyped ==
  ASSUME TypeOK, NEW p \in Procs, proc[p].step # "idle",
         NEW code \in Codes, Answer(p, code)
  PROVE  proc' \in [Procs -> Busy \cup {Idle}]
<1>1. [proc[p] EXCEPT !.step = "answer", !.code = code] \in Busy
  BY BusyProc DEF Busy, Routing, Delivering
<1> QED
  BY <1>1 DEF TypeOK, Answer

\* A lookup leaves a call that has a gateway, or an answer.
LEMMA FoundTyped ==
  ASSUME TypeOK, NEW p \in Procs, proc[p].step # "idle",
         NEW g \in Gateways \cup {None}, Found(p, g)
  PROVE  proc' \in [Procs -> Busy \cup {Idle}]
<1>1. CASE Answer(p, "NOT_FOUND")
  BY <1>1, AnswerTyped DEF Codes
<1>2. CASE proc' = [proc EXCEPT
             ![p].gw = g,
             ![p].step = IF proc[p].op = "Deliver" THEN "publish" ELSE "answer",
             ![p].code = IF proc[p].op = "Deliver" THEN "none" ELSE "Ok"]
  <2> DEFINE c == [proc[p] EXCEPT
               !.gw = g,
               !.step = IF proc[p].op = "Deliver" THEN "publish" ELSE "answer",
               !.code = IF proc[p].op = "Deliver" THEN "none" ELSE "Ok"]
  <2>1. c \in Busy
    <3>1. CASE proc[p].op = "Deliver"
      <4>1. proc[p] \in Delivering
        BY <3>1, BusyProc DEF Busy, Routing
      <4>2. c = [proc[p] EXCEPT !.gw = g, !.step = "publish", !.code = "none"]
        BY <3>1
      <4> QED
        BY <4>1, <4>2 DEF Busy, Delivering
    <3>2. CASE proc[p].op # "Deliver"
      <4>1. proc[p] \in Routing
        BY <3>2, BusyProc DEF Busy, Delivering
      <4>2. c = [proc[p] EXCEPT !.gw = g, !.step = "answer", !.code = "Ok"]
        BY <3>2
      <4> QED
        BY <4>1, <4>2 DEF Busy, Routing, Codes
    <3> QED
      BY <3>1, <3>2
  <2>2. proc' = [proc EXCEPT ![p] = c]
    BY <1>2
  <2> QED
    BY <2>1, <2>2 DEF TypeOK
<1> QED
  BY <1>1, <1>2 DEF Found

\* The command of a call in redisCommand is one, and commands reach gateways.
Commands == Msgs \X (Gateways \cup {None})

LEMMA CommandTyped ==
  ASSUME TypeOK, NEW p \in Procs, proc[p].step = "sent"
  PROVE  PublishCommand(p) \in Commands
BY DeliveringProc DEF PublishCommand, Commands, Delivering

LEMMA ReachedTyped ==
  ASSUME TypeOK, NEW cmds \in SUBSET Commands
  PROVE  heard \cup Reached(cmds) \subseteq Msgs \X Gateways
<1>1. \A c \in cmds : {c[1]} \X Listeners(c[2]) \subseteq Msgs \X Gateways
  BY DEF Commands, Listeners, TypeOK
<1> QED
  BY <1>1 DEF Reached, TypeOK

-----------------------------------------------------------------------------
\* Every value of the state stays in its type (the locals of BindRoute,
\* QueryRoute and Deliver in presence_service.cc).
THEOREM PresenceTypeCorrect == Spec => []TypeOK
<1>1. Init => TypeOK
  <2> SUFFICES ASSUME Init PROVE TypeOK
    OBVIOUS
  <2>1. outages \in Nat
    BY PresenceAssumption DEF Init
  <2> QED
    BY <2>1 DEF Init, TypeOK
<1>2. TypeOK /\ [Next]_vars => TypeOK'
  <2> SUFFICES ASSUME TypeOK, [Next]_vars PROVE TypeOK'
    OBVIOUS
  <2>1. ASSUME NEW p \in Procs, Receive(p) PROVE TypeOK'
    <3>1. ASSUME NEW op, NEW u \in Users, NEW g, NEW m, Call(p, op, u, g, m),
                 [Idle EXCEPT !.op = op, !.step = "connect", !.user = u,
                              !.gw = g, !.msg = m] \in Busy
          PROVE  TypeOK'
      <4>2. proc' \in [Procs -> Busy \cup {Idle}]
        BY <3>1 DEF Call, TypeOK
      <4>3. routesSeen' \in [Procs -> SUBSET (Gateways \cup {None})]
        BY <3>1 DEF Call, TypeOK
      <4> QED
        BY <3>1, <4>2, <4>3 DEF Call, TypeOK
    <3>2. ASSUME NEW u \in Users, NEW g \in Gateways, CallBindRoute(p, u, g)
          PROVE  TypeOK'
      BY <3>1, <3>2 DEF CallBindRoute, Idle, Busy, Routing
    <3>3. ASSUME NEW u \in Users, CallQueryRoute(p, u) PROVE TypeOK'
      BY <3>1, <3>3 DEF CallQueryRoute, Idle, Busy, Routing
    <3>4. ASSUME NEW m \in Msgs, CallDeliver(p, m) PROVE TypeOK'
      <4>1. To[m] \in Users
        BY PresenceAssumption
      <4> QED
        BY <3>1, <3>4, <4>1 DEF CallDeliver, Idle, Busy, Delivering
    <3> QED
      BY <2>1, <3>2, <3>3, <3>4 DEF Receive
  <2>2. ASSUME NEW p \in Procs, EnsureConnected(p) PROVE TypeOK'
    <3>1. proc[p].step # "idle"
      BY <2>2 DEF EnsureConnected
    <3>2. proc' \in [Procs -> Busy \cup {Idle}]
      <4>1. CASE Goto(p, "key")
        BY <3>1, <4>1, GotoTyped
      <4>2. CASE Answer(p, "INTERNAL")
        BY <3>1, <4>2, AnswerTyped DEF Codes
      <4> QED
        BY <2>2, <4>1, <4>2 DEF EnsureConnected
    <3>3. cache' \in Link /\ connected' \in BOOLEAN
      BY <2>2 DEF EnsureConnected, TypeOK, Link
    <3> QED
      BY <2>2, <3>2, <3>3 DEF EnsureConnected, TypeOK
  <2>3. ASSUME NEW p \in Procs, Setex(p) PROVE TypeOK'
    <3>1. proc[p].step # "idle"
      BY <2>3 DEF Setex
    <3>2. proc[p].user \in Users /\ proc[p].gw \in Gateways \cup {None}
      BY <3>1, BusyProc DEF Busy, Routing, Delivering
    <3>3. proc' \in [Procs -> Busy \cup {Idle}]
      BY <2>3, <3>1, AnswerTyped DEF Setex, Codes
    <3>4. route' \in [Users -> Gateways \cup {None}]
      BY <2>3, <3>2 DEF Setex, TypeOK
    <3>5. routesSeen' \in [Procs -> SUBSET (Gateways \cup {None})]
      BY <2>3, <3>2 DEF Setex, TypeOK
    <3> QED
      BY <2>3, <3>3, <3>4, <3>5 DEF Setex, TypeOK
  <2>4. ASSUME NEW p \in Procs, Get(p) PROVE TypeOK'
    <3>1. proc[p].step # "idle"
      BY <2>4 DEF Get
    <3>2. proc[p].user \in Users
      BY <3>1, BusyProc DEF Busy, Routing, Delivering
    <3>3. (IF cache = "open" THEN route[proc[p].user] ELSE None)
             \in Gateways \cup {None}
      BY <3>2 DEF TypeOK
    <3>4. proc' \in [Procs -> Busy \cup {Idle}]
      BY <2>4, <3>1, <3>3, FoundTyped DEF Get
    <3> QED
      BY <2>4, <3>4 DEF Get, TypeOK
  <2>5. ASSUME NEW p \in Procs, Publish(p) PROVE TypeOK'
    <3>1. proc[p] \in Delivering /\ proc[p].step # "idle"
      BY <2>5, DeliveringProc DEF Publish
    <3>2. proc' \in [Procs -> Busy \cup {Idle}]
      <4>1. CASE Goto(p, "sent")
        BY <3>1, <4>1, GotoTyped
      <4>2. CASE Answer(p, "INTERNAL")
        BY <3>1, <4>2, AnswerTyped DEF Codes
      <4> QED
        BY <2>5, <4>1, <4>2 DEF Publish
    <3>3. mixed' \in BOOLEAN
      BY <2>5 DEF Publish, TypeOK
    <3> QED
      BY <2>5, <3>2, <3>3 DEF Publish, TypeOK
  <2>6. ASSUME NEW p \in Procs, PublishReturns(p) PROVE TypeOK'
    <3>1. proc[p].step # "idle" /\ PublishCommand(p) \in Commands
      BY <2>6, CommandTyped DEF PublishReturns
    <3>2. proc' \in [Procs -> Busy \cup {Idle}]
      BY <2>6, <3>1, AnswerTyped DEF PublishReturns, Codes
    <3>3. buffered \cup {PublishCommand(p)} \subseteq Commands
      BY <3>1 DEF TypeOK, Commands
    <3>4. buffered' \subseteq Commands
      BY <2>6, <3>3 DEF PublishReturns, TypeOK, Commands
    <3>5. heard' \subseteq Msgs \X Gateways
      <4>1. PICK gone \in SUBSET Commands : heard' = heard \cup Reached(gone)
        BY <2>6, <3>1, <3>3 DEF PublishReturns
      <4> QED
        BY <4>1, ReachedTyped
    <3> QED
      BY <2>6, <3>2, <3>4, <3>5 DEF PublishReturns, TypeOK, Commands
  <2>7. ASSUME NEW p \in Procs, Reply(p) PROVE TypeOK'
    <3>1. routesSeen' \in [Procs -> SUBSET (Gateways \cup {None})]
      BY <2>7 DEF Reply, TypeOK
    <3> QED
      BY <2>7, <3>1 DEF Reply, TypeOK
  <2>8. ASSUME NEW u \in Users, Expire(u) PROVE TypeOK'
    <3>1. route' \in [Users -> Gateways \cup {None}]
      BY <2>8 DEF Expire, TypeOK
    <3>2. routesSeen' \in [Procs -> SUBSET (Gateways \cup {None})]
      BY <2>8 DEF Expire, TypeOK
    <3> QED
      BY <2>8, <3>1, <3>2 DEF Expire, TypeOK
  <2>9. ASSUME NEW g \in Gateways, Subscribe(g) \/ Unsubscribe(g) PROVE TypeOK'
    BY <2>9 DEF Subscribe, Unsubscribe, TypeOK
  <2>10. CASE RedisDown
    <3>0. PICK executed \in SUBSET (buffered \cup {PublishCommand(p) : p \in Sent}),
               replied \in SUBSET Sent :
            /\ heard' = heard \cup (IF queue = "open" THEN Reached(executed) ELSE {})
            /\ proc' = [p \in Procs |->
                 IF p \in Sent
                 THEN [proc[p] EXCEPT !.step = "answer",
                         !.code = IF p \in replied THEN "Ok" ELSE "INTERNAL"]
                 ELSE proc[p]]
      BY <2>10 DEF RedisDown
    <3>1. proc' \in [Procs -> Busy \cup {Idle}]
      <4>1. ASSUME NEW p \in Sent, NEW code \in Codes
            PROVE  [proc[p] EXCEPT !.step = "answer", !.code = code] \in Busy
        BY DeliveringProc DEF Busy, Delivering, Sent
      <4>2. \A p \in Procs : proc[p] \in Busy \cup {Idle}
        BY DEF TypeOK
      <4>3. \A p \in Procs : (IF p \in replied THEN "Ok" ELSE "INTERNAL") \in Codes
        BY DEF Codes
      <4>4. \A p \in Sent : [proc[p] EXCEPT !.step = "answer",
                         !.code = IF p \in replied THEN "Ok" ELSE "INTERNAL"] \in Busy
        BY <4>1, <4>3 DEF Sent
      <4> QED
        BY <3>0, <4>2, <4>4
    <3>2. heard' \subseteq Msgs \X Gateways
      <4>1. executed \in SUBSET Commands
        BY CommandTyped DEF TypeOK, Commands, Sent
      <4>2. heard \subseteq Msgs \X Gateways
        BY DEF TypeOK
      <4> QED
        BY <3>0, <4>1, <4>2, ReachedTyped
    <3>a. /\ \/ UNCHANGED <<route, routesSeen>>
             \/ /\ route' = [u \in Users |-> None]
                /\ routesSeen' = [p \in Procs |-> routesSeen[p] \cup {None}]
          /\ cache' = Broken(cache) /\ queue' = Broken(queue)
          /\ outages' = outages + 1
      BY <2>10 DEF RedisDown
    <3>3. route' \in [Users -> Gateways \cup {None}]
      BY <3>a DEF TypeOK
    <3>4. routesSeen' \in [Procs -> SUBSET (Gateways \cup {None})]
      BY <3>a DEF TypeOK
    <3>5. cache' \in Link /\ queue' \in Link /\ outages' \in Nat
      BY <3>a DEF Broken, Link, TypeOK
    <3> QED
      BY <2>10, <3>1, <3>2, <3>3, <3>4, <3>5 DEF RedisDown, TypeOK
  <2>11. CASE RedisUp
    BY <2>11 DEF RedisUp, TypeOK
  <2>12. CASE UNCHANGED vars
    BY <2>12 DEF vars, TypeOK
  <2> QED
    BY <2>1, <2>2, <2>3, <2>4, <2>5, <2>6, <2>7, <2>8, <2>9, <2>10, <2>11,
       <2>12 DEF Next, Execute, Environment
<1> QED
  BY <1>1, <1>2, PTL DEF Spec

-----------------------------------------------------------------------------
\* A step of a call that changes neither routes nor histories and does not
\* publish disturbs nothing.
LEMMA QuietStep ==
  ASSUME TypeOK, RouteInv, NEW p \in Procs, proc[p] # Idle,
         UNCHANGED <<route, routesSeen>>,
         NEW c, proc' = [proc EXCEPT ![p] = c], c.user = proc[p].user,
         c.step \in {"publish", "sent"} => c.gw \in routesSeen[p]
  PROVE  RouteInv'
<1>1. proc'[p] = c /\ \A q \in Procs \ {p} : proc'[q] = proc[q]
  BY DEF TypeOK
<1>2. ASSUME NEW q \in Procs, proc'[q] # Idle
      PROVE  route'[proc'[q].user] \in routesSeen'[q]
  BY <1>1, <1>2 DEF RouteInv
<1>3. ASSUME NEW q \in Procs, proc'[q].step \in {"publish", "sent"}
      PROVE  proc'[q].gw \in routesSeen'[q]
  BY <1>1, <1>3 DEF RouteInv, PublishedToRoute
<1> QED
  BY <1>2, <1>3 DEF RouteInv, PublishedToRoute

\* Every step keeps the history of each call up with the route of its user.
LEMMA RouteInvKept ==
  ASSUME TypeOK, RouteInv, [Next]_vars
  PROVE  RouteInv'
<1>1. ASSUME NEW p \in Procs, NEW op, NEW u, NEW g, NEW m, Call(p, op, u, g, m)
      PROVE  RouteInv'
  <2> DEFINE c == [Idle EXCEPT !.op = op, !.step = "connect", !.user = u,
                               !.gw = g, !.msg = m]
  <2>1. c.user = u /\ c.step = "connect"
    BY DEF Idle
  <2>2. proc'[p] = c /\ \A q \in Procs \ {p} : proc'[q] = proc[q]
    BY <1>1 DEF Call, TypeOK
  <2>3. routesSeen'[p] = {route[u]}
        /\ \A q \in Procs \ {p} : routesSeen'[q] = routesSeen[q]
    BY <1>1 DEF Call, TypeOK
  <2>4. route' = route
    BY <1>1 DEF Call
  <2> HIDE DEF c
  <2>5. ASSUME NEW q \in Procs, proc'[q] # Idle
        PROVE  route'[proc'[q].user] \in routesSeen'[q]
    BY <2>1, <2>2, <2>3, <2>4, <2>5 DEF RouteInv
  <2>6. ASSUME NEW q \in Procs, proc'[q].step \in {"publish", "sent"}
        PROVE  proc'[q].gw \in routesSeen'[q]
    BY <2>1, <2>2, <2>3, <2>6 DEF RouteInv, PublishedToRoute
  <2> QED
    BY <2>5, <2>6 DEF RouteInv, PublishedToRoute
<1>2. ASSUME NEW p \in Procs, EnsureConnected(p) PROVE RouteInv'
  <2>1. proc[p] \in Busy /\ proc[p] # Idle
    BY <1>2, BusyProc DEF EnsureConnected, Idle
  <2>2. CASE Goto(p, "key")
    <3> DEFINE c == [proc[p] EXCEPT !.step = "key"]
    <3>1. c.user = proc[p].user /\ c.step = "key"
      BY <2>1 DEF Busy, Routing, Delivering
    <3>2. proc' = [proc EXCEPT ![p] = c]
      BY <2>2 DEF Goto
    <3> QED
      BY <1>2, <2>1, <3>1, <3>2, QuietStep DEF EnsureConnected
  <2>3. CASE Answer(p, "INTERNAL")
    <3> DEFINE c == [proc[p] EXCEPT !.step = "answer", !.code = "INTERNAL"]
    <3>1. c.user = proc[p].user /\ c.step = "answer"
      BY <2>1 DEF Busy, Routing, Delivering
    <3>2. proc' = [proc EXCEPT ![p] = c]
      BY <2>3 DEF Answer
    <3> QED
      BY <1>2, <2>1, <3>1, <3>2, QuietStep DEF EnsureConnected
  <2> QED
    BY <1>2, <2>2, <2>3 DEF EnsureConnected
<1>3. ASSUME NEW p \in Procs, Setex(p) PROVE RouteInv'
  <2>1. proc[p] \in Busy /\ proc[p] # Idle
    BY <1>3, BusyProc DEF Setex, Idle
  <2>2. PICK code \in Codes : Answer(p, code)
    BY <1>3 DEF Setex, Codes
  <2> DEFINE c == [proc[p] EXCEPT !.step = "answer", !.code = code]
  <2>3. c.user = proc[p].user /\ c.step = "answer"
    BY <2>1 DEF Busy, Routing, Delivering
  <2>4. proc' = [proc EXCEPT ![p] = c]
    BY <2>2 DEF Answer
  <2> HIDE DEF c
  <2>5. CASE UNCHANGED <<route, routesSeen>>
    BY <2>1, <2>3, <2>4, <2>5, QuietStep
  <2>6. CASE /\ route' = [route EXCEPT ![proc[p].user] = proc[p].gw]
             /\ routesSeen' = [q \in Procs |->
                  IF proc[q].user = proc[p].user
                  THEN routesSeen[q] \cup {proc[p].gw} ELSE routesSeen[q]]
    <3>1. proc'[p] = c /\ \A q \in Procs \ {p} : proc'[q] = proc[q]
      BY <2>4 DEF TypeOK
    <3>2. \A q \in Procs : proc'[q].user = proc[q].user
      BY <2>3, <3>1
    <3>3. \A q \in Procs : routesSeen[q] \subseteq routesSeen'[q]
      BY <2>6
    <3>4. ASSUME NEW q \in Procs, proc'[q] # Idle
          PROVE  route'[proc'[q].user] \in routesSeen'[q]
      <4>1. proc[q] # Idle /\ route[proc[q].user] \in routesSeen[q]
        BY <2>1, <3>1, <3>4 DEF RouteInv
      <4>2. proc[q].user \in Users
        BY <4>1 DEF TypeOK, Busy, Routing, Delivering
      <4>3. CASE proc[q].user = proc[p].user
        <5>1. route'[proc[q].user] = proc[p].gw
          BY <2>6, <4>2, <4>3 DEF TypeOK
        <5> QED
          BY <2>6, <3>2, <4>3, <5>1
      <4>4. CASE proc[q].user # proc[p].user
        <5>1. route'[proc[q].user] = route[proc[q].user]
          BY <2>6, <4>2, <4>4 DEF TypeOK
        <5> QED
          BY <3>2, <3>3, <4>1, <5>1
      <4> QED
        BY <4>3, <4>4
    <3>5. ASSUME NEW q \in Procs, proc'[q].step \in {"publish", "sent"}
          PROVE  proc'[q].gw \in routesSeen'[q]
      BY <2>3, <3>1, <3>3, <3>5 DEF RouteInv, PublishedToRoute
    <3> QED
      BY <3>4, <3>5 DEF RouteInv, PublishedToRoute
  <2> QED
    BY <1>3, <2>5, <2>6 DEF Setex
<1>4. ASSUME NEW p \in Procs, Get(p) PROVE RouteInv'
  <2>1. proc[p] \in Busy /\ proc[p] # Idle
    BY <1>4, BusyProc DEF Get, Idle
  <2>2. PICK g : /\ Found(p, g)
                 /\ g = IF cache = "open" THEN route[proc[p].user] ELSE None
    BY <1>4 DEF Get
  <2>3. CASE Answer(p, "NOT_FOUND")
    <3> DEFINE c == [proc[p] EXCEPT !.step = "answer", !.code = "NOT_FOUND"]
    <3>1. c.user = proc[p].user /\ c.step = "answer"
      BY <2>1 DEF Busy, Routing, Delivering
    <3>2. proc' = [proc EXCEPT ![p] = c]
      BY <2>3 DEF Answer
    <3> QED
      BY <1>4, <2>1, <3>1, <3>2, QuietStep DEF Get
  <2>4. CASE /\ g # None
             /\ proc' = [proc EXCEPT
                  ![p].gw = g,
                  ![p].step = IF proc[p].op = "Deliver" THEN "publish"
                              ELSE "answer",
                  ![p].code = IF proc[p].op = "Deliver" THEN "none" ELSE "Ok"]
    <3> DEFINE c == [proc[p] EXCEPT
               !.gw = g,
               !.step = IF proc[p].op = "Deliver" THEN "publish" ELSE "answer",
               !.code = IF proc[p].op = "Deliver" THEN "none" ELSE "Ok"]
    <3>1. c.user = proc[p].user /\ c.gw = g
      BY <2>1 DEF Busy, Routing, Delivering
    <3>2. proc' = [proc EXCEPT ![p] = c]
      BY <2>4
    <3>3. g \in routesSeen[p]
      BY <2>1, <2>2, <2>4 DEF RouteInv
    <3> HIDE DEF c
    <3> QED
      BY <1>4, <2>1, <3>1, <3>2, <3>3, QuietStep DEF Get
  <2> QED
    BY <2>2, <2>3, <2>4 DEF Found
<1>5. ASSUME NEW p \in Procs, Publish(p) PROVE RouteInv'
  <2>1. proc[p] \in Delivering /\ proc[p] # Idle
    <3>1. proc[p].step \in {"publish", "sent"}
      BY <1>5 DEF Publish
    <3> QED
      BY <3>1, DeliveringProc DEF Idle
  <2>2. CASE Goto(p, "sent")
    <3> DEFINE c == [proc[p] EXCEPT !.step = "sent"]
    <3>1. c.user = proc[p].user /\ c.gw = proc[p].gw
      BY <2>1 DEF Delivering
    <3>2. proc' = [proc EXCEPT ![p] = c]
      BY <2>2 DEF Goto
    <3>3. proc[p].gw \in routesSeen[p] /\ UNCHANGED <<route, routesSeen>>
      BY <1>5 DEF Publish, RouteInv, PublishedToRoute
    <3> HIDE DEF c
    <3> QED
      BY <2>1, <3>1, <3>2, <3>3, QuietStep
  <2>3. CASE Answer(p, "INTERNAL")
    <3> DEFINE c == [proc[p] EXCEPT !.step = "answer", !.code = "INTERNAL"]
    <3>1. c.user = proc[p].user /\ c.step = "answer"
      BY <2>1 DEF Delivering
    <3>2. proc' = [proc EXCEPT ![p] = c]
      BY <2>3 DEF Answer
    <3> QED
      BY <1>5, <2>1, <3>1, <3>2, QuietStep DEF Publish
  <2> QED
    BY <1>5, <2>2, <2>3 DEF Publish
<1>6. ASSUME NEW p \in Procs, PublishReturns(p) PROVE RouteInv'
  <2>1. proc[p] \in Delivering /\ proc[p] # Idle
    <3>1. proc[p].step \in {"publish", "sent"}
      BY <1>6 DEF PublishReturns
    <3> QED
      BY <3>1, DeliveringProc DEF Idle
  <2>2. PICK code : Answer(p, code)
    BY <1>6 DEF PublishReturns
  <2> DEFINE c == [proc[p] EXCEPT !.step = "answer", !.code = code]
  <2>3. c.user = proc[p].user /\ c.step = "answer"
    BY <2>1 DEF Delivering
  <2>4. proc' = [proc EXCEPT ![p] = c]
    BY <2>2 DEF Answer
  <2> QED
    BY <1>6, <2>1, <2>3, <2>4, QuietStep DEF PublishReturns
<1>7. ASSUME NEW p \in Procs, Reply(p) PROVE RouteInv'
  <2>1. proc'[p] = Idle /\ \A q \in Procs \ {p} : proc'[q] = proc[q]
    BY <1>7 DEF Reply, TypeOK
  <2>2. route' = route /\ \A q \in Procs \ {p} : routesSeen'[q] = routesSeen[q]
    BY <1>7 DEF Reply, TypeOK
  <2>3. Idle.step = "idle"
    BY DEF Idle
  <2> QED
    BY <2>1, <2>2, <2>3 DEF RouteInv, PublishedToRoute
<1>8. ASSUME NEW u \in Users, Expire(u) PROVE RouteInv'
  <2>1. proc' = proc /\ route' = [route EXCEPT ![u] = None]
    BY <1>8 DEF Expire
  <2>2. routesSeen' = [p \in Procs |->
          IF proc[p].user = u THEN routesSeen[p] \cup {None} ELSE routesSeen[p]]
    BY <1>8 DEF Expire
  <2>3. ASSUME NEW q \in Procs, proc[q] # Idle
        PROVE  route'[proc[q].user] \in routesSeen'[q]
    <3>1. proc[q].user \in Users
      BY <2>3 DEF TypeOK, Busy, Routing, Delivering
    <3>2. route[proc[q].user] \in routesSeen[q]
      BY <2>3 DEF RouteInv
    <3> QED
      BY <2>1, <2>2, <3>1, <3>2 DEF TypeOK
  <2>4. \A q \in Procs : routesSeen[q] \subseteq routesSeen'[q]
    BY <2>2
  <2> QED
    BY <2>1, <2>3, <2>4 DEF RouteInv, PublishedToRoute
<1>9. CASE UNCHANGED <<proc, route, routesSeen>>
  BY <1>9 DEF RouteInv, PublishedToRoute
<1>10. CASE RedisDown
  <2>1. \A q \in Procs : /\ proc'[q] # Idle => proc[q] # Idle
                         /\ proc'[q].user = proc[q].user
                         /\ proc'[q].step \in {"publish", "sent"}
                              => proc'[q] = proc[q]
    <3> SUFFICES ASSUME NEW q \in Procs
                 PROVE  /\ proc'[q] # Idle => proc[q] # Idle
                        /\ proc'[q].user = proc[q].user
                        /\ proc'[q].step \in {"publish", "sent"}
                             => proc'[q] = proc[q]
      OBVIOUS
    <3>1. CASE proc[q].step = "sent"
      <4>1. proc[q] \in Delivering /\ proc[q] # Idle
        BY <3>1, DeliveringProc DEF Idle
      <4>2. PICK code : proc'[q] = [proc[q] EXCEPT !.step = "answer", !.code = code]
        BY <1>10, <3>1 DEF RedisDown, Sent
      <4> QED
        BY <4>1, <4>2 DEF Delivering
    <3>2. CASE proc[q].step # "sent"
      BY <1>10, <3>2 DEF RedisDown, Sent
    <3> QED
      BY <3>1, <3>2
  <2>2. CASE UNCHANGED <<route, routesSeen>>
    BY <2>1, <2>2 DEF RouteInv, PublishedToRoute
  <2>3. CASE /\ route' = [u \in Users |-> None]
             /\ routesSeen' = [p \in Procs |-> routesSeen[p] \cup {None}]
    <3>1. ASSUME NEW q \in Procs, proc'[q] # Idle
          PROVE  route'[proc'[q].user] \in routesSeen'[q]
      <4>1. proc[q].user \in Users
        BY <2>1, <3>1 DEF TypeOK, Busy, Routing, Delivering
      <4> QED
        BY <2>1, <2>3, <4>1
    <3>2. \A q \in Procs : routesSeen[q] \subseteq routesSeen'[q]
      BY <2>3
    <3> QED
      BY <2>1, <3>1, <3>2 DEF RouteInv, PublishedToRoute
  <2> QED
    BY <1>10, <2>2, <2>3 DEF RedisDown
<1>11. ASSUME NEW g \in Gateways, Subscribe(g) \/ Unsubscribe(g)
       PROVE  RouteInv'
  BY <1>9, <1>11 DEF Subscribe, Unsubscribe
<1>12. CASE RedisUp \/ UNCHANGED vars
  BY <1>9, <1>12 DEF RedisUp, vars
<1>13. ASSUME NEW p \in Procs, Receive(p) PROVE RouteInv'
  BY <1>1, <1>13 DEF Receive, CallBindRoute, CallQueryRoute, CallDeliver
<1> QED
  BY <1>2, <1>3, <1>4, <1>5, <1>6, <1>7, <1>8, <1>10, <1>11, <1>12, <1>13
     DEF Next, Execute, Environment

\* A Deliver publishes to the channel of a gateway its recipient was bound to
\* during the call (GetUserRoute and the publish of Deliver).
THEOREM DeliveryUsesRoute == Spec => []PublishedToRoute
<1>1. Init => RouteInv
  BY DEF Init, RouteInv, PublishedToRoute, Idle
<1>2. TypeOK /\ RouteInv /\ [Next]_vars => RouteInv'
  BY RouteInvKept
<1>3. RouteInv => PublishedToRoute
  BY DEF RouteInv
<1> QED
  BY <1>1, <1>2, <1>3, PresenceTypeCorrect, PTL DEF Spec
=============================================================================
