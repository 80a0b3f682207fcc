-------------------------- MODULE RpcChannelProofs --------------------------
(***************************************************************************)
(* The remote call, for any threads, methods, descriptors, limits and      *)
(* failures: where each descriptor is, what is on the wire at each step of *)
(* a call, and what a service is found by.                                 *)
(***************************************************************************)
EXTENDS RpcChannel, FiniteSetTheorems, SequenceTheorems, TLAPS

-----------------------------------------------------------------------------
(* Discovery.                                                              *)

\* A method the provider has come to has a node of the provider's own session,
\* which only the loss of that session removes, or is missed.
DiscoveryInv ==
  /\ DiscoveryTyped
  /\ provider.step # "down" => provider.session \in Sessions
  /\ provider.step = "listen" => todo = {}
  /\ provider.step # "down" =>
        \A m \in Methods \ todo : node[m] = provider.session \/ m \in missed

\* Every step of the registry is one of discovery, or leaves it alone.
DiscoveryStep ==
  \/ ProviderStarts \/ Listen \/ SessionLost \/ ProviderEnds
  \/ \E m \in Methods : Register(m)
  \/ \E i \in Sessions : OldSessionExpires(i)
  \/ UNCHANGED registry /\ (failures' = failures \/ Failure)

LEMMA DiscoverySteps == [Next]_vars => DiscoveryStep
BY DEF Next, Thread, CallMethod, Resolve, NotFound, Pop, Connect, Refused, Send, SendFails,
       Recv, RecvFails, ResponseUnparsed, Return, Serve, OnMessage, DropRequest, SendRpcResponse,
       AddressExpires, Registry, ServiceEnds, CallerSessionLost, CallerEnds,
       discovery, registry, vars, DiscoveryStep

LEMMA DiscoveryKept ==
  ASSUME DiscoveryInv, [Next]_vars
  PROVE  DiscoveryInv'
<1>0. /\ node \in [Methods -> {0} \cup Sessions]
      /\ provider \in [step : {"down", "register", "listen"}, session : 0..MaxStarts]
      /\ todo \subseteq Methods /\ expired \subseteq Sessions
      /\ failures \in 0..MaxFailures /\ missed \subseteq Methods
      /\ MaxStarts \in Nat /\ MaxFailures \in Nat
      /\ Sessions = 1..MaxStarts
  BY DiscoveryAssumption DEF DiscoveryInv, DiscoveryTyped, Sessions
<1>1. Failure => failures' \in 0..MaxFailures
  BY <1>0 DEF Failure
<1>2. CASE ProviderStarts
  BY <1>0, <1>2 DEF ProviderStarts, DiscoveryInv, DiscoveryTyped
<1>3. CASE Listen
  BY <1>0, <1>3 DEF Listen, DiscoveryInv, DiscoveryTyped
<1>4. ASSUME NEW m \in Methods, Register(m) PROVE DiscoveryInv'
  <2>1. DiscoveryTyped'
    BY <1>0, <1>1, <1>4 DEF Register, DiscoveryInv, DiscoveryTyped
  <2>2. ASSUME NEW n \in Methods \ todo' PROVE node'[n] = provider'.session \/ n \in missed'
    BY <1>0, <1>4, <2>2 DEF Register, DiscoveryInv
  <2> QED
    BY <1>4, <2>1, <2>2 DEF Register, DiscoveryInv
<1>5. ASSUME NEW i \in Sessions, Remove(i), expired' = expired \cup {i}
      PROVE  /\ node' \in [Methods -> {0} \cup Sessions] /\ expired' \subseteq Sessions
             /\ \A m \in Methods : node[m] # i => node'[m] = node[m]
  BY <1>0, <1>5 DEF Remove
<1>6. ASSUME NEW i \in Sessions, OldSessionExpires(i) PROVE DiscoveryInv'
  <2>1. provider.step # "down" => provider.session # i
    BY <1>0, <1>6 DEF OldSessionExpires
  <2>2. /\ node' \in [Methods -> {0} \cup Sessions] /\ expired' \subseteq Sessions
        /\ \A m \in Methods : node[m] # i => node'[m] = node[m]
    BY <1>5, <1>6 DEF OldSessionExpires, Remove
  <2>3. UNCHANGED <<provider, todo, failures, missed>>
    BY <1>6 DEF OldSessionExpires
  <2> QED
    BY <1>0, <2>1, <2>2, <2>3 DEF DiscoveryInv, DiscoveryTyped
<1>7. CASE SessionLost
  <2>1. provider.session \in Sessions
    BY <1>7 DEF SessionLost, DiscoveryInv
  <2>2. node' \in [Methods -> {0} \cup Sessions] /\ expired' \subseteq Sessions
    BY <1>5, <1>7, <2>1 DEF SessionLost, Remove
  <2>3. UNCHANGED <<provider, todo>> /\ missed' = Methods /\ failures' \in 0..MaxFailures
    BY <1>1, <1>7 DEF SessionLost
  <2> QED
    BY <1>0, <2>2, <2>3 DEF DiscoveryInv, DiscoveryTyped
<1>8. CASE ProviderEnds
  BY <1>0, <1>8 DEF ProviderEnds, DiscoveryInv, DiscoveryTyped
<1>9. CASE UNCHANGED registry /\ (failures' = failures \/ Failure)
  BY <1>0, <1>1, <1>9 DEF registry, DiscoveryInv, DiscoveryTyped
<1> QED
  BY <1>2, <1>3, <1>4, <1>6, <1>7, <1>8, <1>9, DiscoverySteps DEF DiscoveryStep

LEMMA DiscoveryStarts == Init => DiscoveryInv
BY DiscoveryAssumption DEF Init, DiscoveryInit, DiscoveryInv, DiscoveryTyped, Sessions

\* A service that listens is found under each of its methods, or missed it.
THEOREM ListeningServiceFound == Spec => []ListeningIsFound
<1>1. DiscoveryInv => ListeningIsFound
  <2> SUFFICES ASSUME DiscoveryInv, Listening, NEW m \in Methods
               PROVE  node[m] # 0 \/ m \in missed
    BY DEF ListeningIsFound
  <2>1. provider.step = "listen" /\ provider.step # "down" /\ todo = {}
    BY DEF Listening, DiscoveryInv
  <2>2. provider.session # 0
    BY <2>1, DiscoveryAssumption DEF DiscoveryInv, Sessions
  <2> QED
    BY <2>1, <2>2 DEF DiscoveryInv
<1> QED
  BY <1>1, DiscoveryStarts, DiscoveryKept, PTL DEF Spec

-----------------------------------------------------------------------------
(* Types.                                                                  *)

Calls == {Idle} \cup
         [step : Steps, method : Methods, socket : Sockets \cup {None},
          request : Requests, answer : {0} \cup Requests]
Parts == [request : Requests, part : {"len", "body"}]
Servings == [request : {0} \cup Requests, step : {"idle", "len", "body"}]

\* The containers have their elements' types, and a call that has come to send
\* has a socket.
TypeInv ==
  /\ DiscoveryTyped
  /\ call \in [Threads -> Calls]
  /\ calls \in 0..MaxCalls
  /\ pool \in [Methods -> Seq(Sockets)]
  /\ \A m \in Methods : Len(pool[m]) <= PoolLimit
  /\ cached \subseteq Methods
  /\ zkLost \in BOOLEAN
  /\ socket \in [Sockets -> SocketState]
  /\ inbound \in [Sockets -> Seq(Requests)]
  /\ serving \in [Sockets -> Servings]
  /\ \A s \in Sockets : serving[s] # NotServing =>
        serving[s].request \in Requests /\ serving[s].step \in {"len", "body"}
  /\ outbound \in [Sockets -> Seq(Parts)]
  /\ executed \in [Requests -> Nat]
  /\ dropped \subseteq Requests
  /\ \A t \in Threads : call[t].step \in {"send", "len", "body", "return"} =>
        call[t].socket \in Sockets

LEMMA TypeInvImplies == TypeInv => TypeOK
<1> SUFFICES ASSUME TypeInv PROVE TypeOK
  OBVIOUS
<1>1. \A m \in Methods : \A i \in DOMAIN pool[m] : pool[m][i] \in Sockets
  BY ElementOfSeq, LenProperties DEF TypeInv
<1>2. \A s \in Sockets : \A i \in DOMAIN inbound[s] : inbound[s][i] \in Requests
  BY ElementOfSeq, LenProperties DEF TypeInv
<1>3. \A s \in Sockets : \A i \in DOMAIN outbound[s] : outbound[s][i] \in Parts
  BY ElementOfSeq, LenProperties DEF TypeInv
<1> QED
  BY <1>1, <1>2, <1>3 DEF TypeInv, TypeOK, Calls, Parts, Servings

\* A call that is not idle, and where it may be.
LEMMA CallTyped ==
  ASSUME TypeInv, NEW t \in Threads
  PROVE  /\ call[t].step = "idle" <=> call[t] = Idle
         /\ call[t].step # "idle" =>
              /\ call[t] \in [step : Steps, method : Methods, socket : Sockets \cup {None},
                              request : Requests, answer : {0} \cup Requests]
              /\ call[t].method \in Methods
         /\ call[t].socket \in Sockets \cup {None}
<1>1. call[t] \in Calls
  BY DEF TypeInv
<1>2. CASE call[t] = Idle
  BY <1>2 DEF Idle
<1>3. CASE call[t] # Idle
  <2>1. call[t] \in [step : Steps, method : Methods, socket : Sockets \cup {None},
                     request : Requests, answer : {0} \cup Requests]
    BY <1>1, <1>3 DEF Calls
  <2>2. call[t].step \in Steps
    BY <2>1
  <2>3. call[t].step # "idle"
    BY <2>2 DEF Steps
  <2> QED
    BY <1>3, <2>1, <2>3
<1> QED
  BY <1>2, <1>3

\* One thread has a new call, or has gone on in its call.
CallBecomes(t, r) ==
  /\ call' = [call EXCEPT ![t] = r]
  /\ r \in Calls
  /\ r.step \in {"send", "len", "body", "return"} => r.socket \in Sockets

CallsTyped ==
  /\ call \in [Threads -> Calls]
  /\ \A t \in Threads : call[t].step \in {"send", "len", "body", "return"} =>
        call[t].socket \in Sockets

LEMMA CallBecomesTyped ==
  ASSUME TypeInv, NEW t \in Threads, NEW r, CallBecomes(t, r)
  PROVE  CallsTyped'
BY DEF TypeInv, CallBecomes, CallsTyped

LEMMA FailTyped ==
  ASSUME TypeInv, NEW t \in Threads, Fail(t)
  PROVE  CallsTyped' /\ CallBecomes(t, Idle)
<1>1. CallBecomes(t, Idle)
  BY DEF Fail, CallBecomes, Calls, Idle
<1> QED
  BY <1>1, CallBecomesTyped

LEMMA GotoTyped ==
  ASSUME TypeInv, NEW t \in Threads, NEW step \in Steps, Goto(t, step), call[t].step # "idle",
         step \in {"send", "len", "body", "return"} => call[t].socket \in Sockets
  PROVE  /\ CallsTyped' /\ CallBecomes(t, [call[t] EXCEPT !.step = step])
<1>1. [call[t] EXCEPT !.step = step] \in Calls
  BY CallTyped DEF Calls
<1>2. [call[t] EXCEPT !.step = step].socket = call[t].socket
  BY CallTyped
<1>3. [call[t] EXCEPT !.step = step].step = step
  BY CallTyped
<1>4. CallBecomes(t, [call[t] EXCEPT !.step = step])
  BY <1>1, <1>2, <1>3 DEF CallBecomes, Goto
<1> QED
  BY <1>4, CallBecomesTyped

WireTyped ==
  /\ socket \in [Sockets -> SocketState]
  /\ inbound \in [Sockets -> Seq(Requests)]
  /\ serving \in [Sockets -> Servings]
  /\ \A s \in Sockets : serving[s] # NotServing =>
        serving[s].request \in Requests /\ serving[s].step \in {"len", "body"}
  /\ outbound \in [Sockets -> Seq(Parts)]

LEMMA ClosedTyped ==
  ASSUME TypeInv, NEW s \in Sockets, Closed(s)
  PROVE  WireTyped'
<1>1. <<>> \in Seq(Requests) /\ <<>> \in Seq(Parts) /\ NotServing \in Servings
  BY EmptySeq DEF NotServing, Servings
<1>2. socket' \in [Sockets -> SocketState]
  BY DEF Closed, TypeInv, SocketState
<1>3. inbound' \in [Sockets -> Seq(Requests)] /\ outbound' \in [Sockets -> Seq(Parts)]
  BY <1>1 DEF Closed, TypeInv
<1>4. serving' \in [Sockets -> Servings]
  BY <1>1 DEF Closed, TypeInv
<1>5. \A x \in Sockets : serving'[x] # NotServing =>
        serving'[x].request \in Requests /\ serving'[x].step \in {"len", "body"}
  BY DEF Closed, TypeInv
<1> QED
  BY <1>2, <1>3, <1>4, <1>5 DEF WireTyped

PoolsTyped ==
  /\ pool \in [Methods -> Seq(Sockets)]
  /\ \A m \in Methods : Len(pool[m]) <= PoolLimit

LEMMA TypeStarts == Init => TypeInv
<1> SUFFICES ASSUME Init PROVE TypeInv
  OBVIOUS
<1>1. DiscoveryTyped
  BY DiscoveryStarts DEF DiscoveryInv
<1>2. /\ <<>> \in Seq(Requests) /\ <<>> \in Seq(Parts) /\ <<>> \in Seq(Sockets)
      /\ Len(<<>>) = 0 /\ NotServing \in Servings /\ Idle \in Calls /\ Idle.step = "idle"
  BY EmptySeq DEF NotServing, Servings, Idle, Calls
<1>3. CallsTyped
  BY <1>2 DEF Init, CallsTyped
<1>4. PoolsTyped
  BY <1>2, RpcChannelAssumption DEF Init, PoolsTyped
<1>5. WireTyped
  BY <1>2 DEF Init, WireTyped, SocketState
<1>6. /\ calls \in 0..MaxCalls /\ cached \subseteq Methods
      /\ executed \in [Requests -> Nat] /\ dropped \subseteq Requests
  BY RpcChannelAssumption DEF Init
<1>7. zkLost \in BOOLEAN
  BY Zenon DEF Init
<1> QED
  BY <1>1, <1>3, <1>4, <1>5, <1>6, <1>7 DEF TypeInv, CallsTyped, PoolsTyped, WireTyped

\* Every step keeps the types.
LEMMA TypeKept ==
  ASSUME TypeInv, DiscoveryInv, [Next]_vars
  PROVE  TypeInv'
<1> USE DEF wire, channel, history
<1>0. /\ CallsTyped /\ PoolsTyped /\ WireTyped /\ DiscoveryTyped'
      /\ calls \in 0..MaxCalls /\ cached \subseteq Methods /\ zkLost \in BOOLEAN
      /\ executed \in [Requests -> Nat] /\ dropped \subseteq Requests
      /\ MaxCalls \in Nat /\ PoolLimit \in Nat
  <2>1. DiscoveryTyped'
    BY DiscoveryKept DEF DiscoveryInv
  <2> QED
    BY <2>1, RpcChannelAssumption DEF TypeInv, CallsTyped, PoolsTyped, WireTyped
<1> DEFINE Counts == /\ calls' \in 0..MaxCalls /\ cached' \subseteq Methods /\ zkLost' \in BOOLEAN
                     /\ executed' \in [Requests -> Nat] /\ dropped' \subseteq Requests
<1>1. ASSUME CallsTyped', PoolsTyped', WireTyped', Counts PROVE TypeInv'
  BY <1>0, <1>1 DEF TypeInv, CallsTyped, PoolsTyped, WireTyped
<1>2. UNCHANGED pool => PoolsTyped'
  BY <1>0 DEF PoolsTyped
<1>3. UNCHANGED <<socket, wire>> => WireTyped'
  BY <1>0 DEF WireTyped
<1>4. UNCHANGED <<calls, cached, zkLost, history>> => Counts
  BY <1>0
<1>5. UNCHANGED call => CallsTyped'
  BY <1>0 DEF CallsTyped
<1> HIDE DEF Counts
<1>6. ASSUME NEW t \in Threads, NEW m \in Methods, CallMethod(t, m) PROVE TypeInv'
  <2> DEFINE r == [step |-> "resolve", method |-> m, socket |-> None,
                   request |-> calls + 1, answer |-> 0]
  <2>1. calls' = calls + 1 /\ calls' \in 0..MaxCalls /\ calls + 1 \in Requests
    BY <1>0, <1>6 DEF CallMethod, Requests
  <2>2. CallBecomes(t, r)
    BY <1>6, <2>1 DEF CallMethod, CallBecomes, Calls, Steps
  <2> HIDE DEF r
  <2>3. Counts
    BY <1>0, <1>6, <2>1 DEF CallMethod, Counts
  <2> QED
    BY <1>1, <1>2, <1>3, <1>6, <2>2, <2>3, CallBecomesTyped DEF CallMethod
<1>7. ASSUME NEW t \in Threads, Resolve(t) PROVE TypeInv'
  <2>1. CallsTyped'
    BY <1>7, GotoTyped DEF Resolve, In, Steps
  <2>2. call[t].method \in Methods
    BY <1>7, CallTyped DEF Resolve, In
  <2>3. Counts
    BY <1>0, <1>7, <2>2 DEF Resolve, Counts
  <2> QED
    BY <1>1, <1>2, <1>3, <1>7, <2>1, <2>3 DEF Resolve
<1>8. ASSUME NEW t \in Threads, NotFound(t) \/ Refused(t) PROVE TypeInv'
  BY <1>1, <1>2, <1>3, <1>4, <1>8, FailTyped DEF NotFound, Refused
<1>9. ASSUME NEW t \in Threads, Pop(t) PROVE TypeInv'
  <2> DEFINE m == call[t].method
             vec == pool[m]
             s == vec[Len(vec)]
             r == [call[t] EXCEPT !.step = "send", !.socket = s]
  <2>1. m \in Methods /\ vec \in Seq(Sockets) /\ vec # <<>> /\ Len(vec) \in Nat /\ Len(vec) <= PoolLimit
    BY <1>0, <1>9, CallTyped DEF Pop, In, PoolsTyped
  <2>2. Len(vec) \in 1..Len(vec) /\ s \in Sockets
    BY <2>1, EmptySeq, ElementOfSeq
  <2>3. /\ SubSeq(vec, 1, Len(vec) - 1) \in Seq(Sockets)
        /\ Len(SubSeq(vec, 1, Len(vec) - 1)) = Len(vec) - 1
    BY <2>1, <2>2, SubSeqProperties
  <2>4. PoolsTyped'
    <3>1. pool' = [pool EXCEPT ![m] = SubSeq(vec, 1, Len(vec) - 1)]
      BY <1>9 DEF Pop
    <3> HIDE DEF m, vec
    <3>2. pool' \in [Methods -> Seq(Sockets)]
      BY <1>0, <2>3, <3>1 DEF PoolsTyped
    <3>3. \A n \in Methods : Len(pool'[n]) <= PoolLimit
      BY <1>0, <2>1, <2>3, <3>1 DEF PoolsTyped
    <3> QED
      BY <3>2, <3>3 DEF PoolsTyped
  <2>5. CallBecomes(t, r)
    <3>1. call' = [call EXCEPT ![t] = r]
      BY <1>0, <1>9 DEF Pop, CallsTyped
    <3> HIDE DEF s
    <3>2. r \in Calls /\ r.socket = s
      BY <1>9, <2>2, CallTyped DEF Pop, In, Calls, Steps
    <3> QED
      BY <2>2, <3>1, <3>2 DEF CallBecomes
  <2> HIDE DEF r
  <2> QED
    BY <1>1, <1>3, <1>4, <1>9, <2>4, <2>5, CallBecomesTyped DEF Pop
<1>10. ASSUME NEW t \in Threads, Connect(t) PROVE TypeInv'
  <2>1. PICK s \in Sockets :
          /\ socket' = [socket EXCEPT ![s] = "open"]
          /\ call' = [call EXCEPT ![t].step = "send", ![t].socket = s]
    BY <1>10 DEF Connect
  <2> DEFINE r == [call[t] EXCEPT !.step = "send", !.socket = s]
  <2>2. CallBecomes(t, r)
    <3>1. call' = [call EXCEPT ![t] = r]
      BY <1>0, <2>1 DEF CallsTyped
    <3>2. r \in Calls /\ r.socket = s
      BY <1>10, CallTyped DEF Connect, In, Calls, Steps
    <3> QED
      BY <3>1, <3>2 DEF CallBecomes
  <2> HIDE DEF r
  <2>3. WireTyped'
    BY <1>0, <1>10, <2>1 DEF Connect, WireTyped, SocketState
  <2> QED
    BY <1>1, <1>2, <1>4, <1>10, <2>2, <2>3, CallBecomesTyped DEF Connect
<1>11. ASSUME NEW t \in Threads, Send(t) PROVE TypeInv'
  <2> DEFINE s == call[t].socket
             q == IF socket[s] = "open" THEN Append(inbound[s], call[t].request) ELSE inbound[s]
  <2>1. s \in Sockets /\ call[t].request \in Requests
    BY <1>11, CallTyped DEF Send, In, TypeInv
  <2>2. CallsTyped'
    BY <1>11, <2>1, GotoTyped DEF Send, In, Steps
  <2>3. q \in Seq(Requests)
    BY <1>0, <2>1, AppendProperties DEF WireTyped
  <2>4. inbound' = [inbound EXCEPT ![s] = q]
    BY <1>0, <1>11, <2>1 DEF Send, WireTyped
  <2>5. UNCHANGED <<socket, serving, outbound, executed>>
    BY <1>11 DEF Send, history
  <2> HIDE DEF q, s
  <2>6. WireTyped'
    BY <1>0, <2>3, <2>4, <2>5 DEF WireTyped
  <2> QED
    BY <1>1, <1>2, <1>4, <1>11, <2>2, <2>6 DEF Send
<1>12. ASSUME NEW t \in Threads, SendFails(t) \/ RecvFails(t) \/ ResponseUnparsed(t) PROVE TypeInv'
  <2>1. call[t].socket \in Sockets
    BY <1>12 DEF SendFails, RecvFails, ResponseUnparsed, In, TypeInv
  <2>2. WireTyped'
    BY <1>12, <2>1, ClosedTyped DEF SendFails, RecvFails, ResponseUnparsed
  <2> QED
    BY <1>1, <1>2, <1>4, <1>12, <2>2, FailTyped DEF SendFails, RecvFails, ResponseUnparsed
<1>13. ASSUME NEW t \in Threads, Recv(t) PROVE TypeInv'
  <2> DEFINE s == call[t].socket
             step == IF In(t, "len") THEN "body" ELSE "return"
             r == [call[t] EXCEPT !.step = step, !.answer = Head(outbound[s]).request]
  <2>1. s \in Sockets /\ outbound[s] \in Seq(Parts) /\ outbound[s] # <<>>
    BY <1>0, <1>13 DEF Recv, In, TypeInv
  <2>2. Head(outbound[s]) \in Parts /\ Tail(outbound[s]) \in Seq(Parts)
    BY <2>1, HeadTailProperties
  <2>3. Head(outbound[s]).request \in Requests
    BY <2>2 DEF Parts
  <2>4. outbound' = [outbound EXCEPT ![s] = Tail(outbound[s])]
    BY <1>0, <1>13, <2>1 DEF Recv, WireTyped
  <2>5. WireTyped'
    <3> HIDE DEF s
    <3> QED
      BY <1>0, <1>13, <2>2, <2>4 DEF Recv, WireTyped
  <2>6. CallBecomes(t, r)
    <3>1. call' = [call EXCEPT ![t] = r]
      BY <1>0, <1>13 DEF Recv, CallsTyped
    <3>2. r \in Calls /\ r.socket = s
      BY <1>13, <2>3, CallTyped DEF Recv, In, Calls, Steps
    <3> QED
      BY <2>1, <3>1, <3>2 DEF CallBecomes
  <2> HIDE DEF r
  <2> QED
    BY <1>1, <1>2, <1>4, <1>13, <2>5, <2>6, CallBecomesTyped DEF Recv
<1>14. ASSUME NEW t \in Threads, Return(t) PROVE TypeInv'
  <2> DEFINE m == call[t].method
             s == call[t].socket
  <2>1. m \in Methods /\ s \in Sockets /\ pool[m] \in Seq(Sockets)
    BY <1>0, <1>14, CallTyped DEF Return, In, TypeInv, PoolsTyped
  <2>2. CASE /\ Len(pool[m]) < PoolLimit
             /\ pool' = [pool EXCEPT ![m] = Append(@, s)]
             /\ UNCHANGED <<socket, wire>>
    <3>1. Append(pool[m], s) \in Seq(Sockets) /\ Len(Append(pool[m], s)) = Len(pool[m]) + 1
      BY <2>1, AppendProperties
    <3>2. pool' = [pool EXCEPT ![m] = Append(pool[m], s)]
      BY <2>1, <2>2
    <3>3. Len(pool[m]) \in Nat
      BY <2>1, LenProperties
    <3>4. PoolsTyped'
      <4> HIDE DEF m, s
      <4>1. pool' \in [Methods -> Seq(Sockets)]
        BY <1>0, <3>1, <3>2 DEF PoolsTyped
      <4>2. \A n \in Methods : Len(pool'[n]) <= PoolLimit
        BY <1>0, <2>1, <2>2, <3>1, <3>2, <3>3 DEF PoolsTyped
      <4> QED
        BY <4>1, <4>2 DEF PoolsTyped
    <3> QED
      BY <1>1, <1>3, <1>4, <1>14, <2>2, <3>4, FailTyped DEF Return
  <2>3. CASE Closed(s) /\ UNCHANGED pool
    BY <1>1, <1>2, <1>4, <1>14, <2>1, <2>3, ClosedTyped, FailTyped DEF Return
  <2> QED
    BY <1>14, <2>2, <2>3 DEF Return
<1>15. ASSUME NEW s \in Sockets, OnMessage(s) \/ DropRequest(s) PROVE TypeInv'
  <2>1. /\ Head(inbound[s]) \in Requests /\ Tail(inbound[s]) \in Seq(Requests)
        /\ inbound' = [inbound EXCEPT ![s] = Tail(inbound[s])]
    BY <1>0, <1>15, HeadTailProperties DEF OnMessage, DropRequest, WireTyped
  <2>2. CASE OnMessage(s)
    <3> DEFINE r == [request |-> Head(inbound[s]), step |-> "len"]
    <3>1. r \in Servings /\ r.request \in Requests /\ r.step = "len"
      BY <2>1 DEF Servings
    <3>2. serving' = [serving EXCEPT ![s] = r]
      BY <2>2 DEF OnMessage
    <3> HIDE DEF r
    <3>3. WireTyped'
      BY <1>0, <2>1, <2>2, <3>1, <3>2 DEF OnMessage, WireTyped
    <3>4. Counts
      <4>1. executed' \in [Requests -> Nat]
        BY <1>0, <2>1, <2>2 DEF OnMessage
      <4> QED
        BY <1>0, <2>2, <4>1 DEF OnMessage, Counts
    <3> QED
      BY <1>1, <1>2, <1>5, <2>2, <3>3, <3>4 DEF OnMessage
  <2>3. CASE DropRequest(s)
    <3>1. WireTyped'
      BY <1>0, <2>1, <2>3 DEF DropRequest, WireTyped
    <3>2. Counts
      BY <1>0, <2>1, <2>3 DEF DropRequest, Counts
    <3> QED
      BY <1>1, <1>2, <1>5, <2>3, <3>1, <3>2 DEF DropRequest
  <2> QED
    BY <1>15, <2>2, <2>3
<1>16. ASSUME NEW s \in Sockets, SendRpcResponse(s) PROVE TypeInv'
  <2> DEFINE p == [request |-> serving[s].request, part |-> serving[s].step]
             n == IF serving[s].step = "len" THEN [serving[s] EXCEPT !.step = "body"]
                  ELSE NotServing
  <2>1. serving[s] \in Servings /\ serving[s].request \in Requests /\ serving[s].step \in {"len", "body"}
    BY <1>0, <1>16 DEF SendRpcResponse, WireTyped
  <2>2. p \in Parts /\ outbound[s] \in Seq(Parts)
    BY <1>0, <2>1 DEF Parts, WireTyped
  <2>3. n \in Servings /\ (n # NotServing => n.request \in Requests /\ n.step \in {"len", "body"})
    BY <2>1 DEF Servings, NotServing
  <2>4. /\ outbound' = [outbound EXCEPT ![s] = Append(outbound[s], p)]
        /\ serving' = [serving EXCEPT ![s] = n]
    BY <1>0, <1>16 DEF SendRpcResponse, WireTyped
  <2> HIDE DEF p, n
  <2>5. Append(outbound[s], p) \in Seq(Parts)
    BY <2>2, AppendProperties
  <2>6. WireTyped'
    <3>1. outbound' \in [Sockets -> Seq(Parts)]
      BY <1>0, <2>4, <2>5 DEF WireTyped
    <3>2. /\ serving' \in [Sockets -> Servings]
          /\ \A x \in Sockets : serving'[x] # NotServing =>
                serving'[x].request \in Requests /\ serving'[x].step \in {"len", "body"}
      BY <1>0, <2>3, <2>4 DEF WireTyped
    <3> QED
      BY <1>0, <1>16, <3>1, <3>2 DEF SendRpcResponse, WireTyped
  <2> QED
    BY <1>1, <1>2, <1>4, <1>5, <1>16, <2>6 DEF SendRpcResponse
<1>17. ASSUME NEW m \in Methods, AddressExpires(m) PROVE TypeInv'
  <2>1. Counts
    BY <1>0, <1>17 DEF AddressExpires, Counts
  <2> QED
    BY <1>1, <1>2, <1>3, <1>5, <1>17, <2>1 DEF AddressExpires
<1>18. CASE CallerSessionLost
  <2>1. zkLost' \in BOOLEAN
    BY <1>18, Zenon DEF CallerSessionLost
  <2>2. Counts
    BY <1>0, <1>18, <2>1 DEF CallerSessionLost, Counts
  <2> QED
    BY <1>1, <1>2, <1>3, <1>5, <1>18, <2>2 DEF CallerSessionLost
<1>19. /\ <<>> \in Seq(Requests) /\ <<>> \in Seq(Parts) /\ <<>> \in Seq(Sockets)
       /\ Len(<<>>) = 0 /\ NotServing \in Servings /\ Idle \in Calls /\ Idle.step = "idle"
  BY EmptySeq DEF NotServing, Servings, Idle, Calls
<1>20. CASE CallerEnds
  <2>1. CallsTyped'
    BY <1>19, <1>20 DEF CallerEnds, CallsTyped
  <2>2. PoolsTyped'
    BY <1>0, <1>19, <1>20 DEF CallerEnds, PoolsTyped
  <2>3. WireTyped'
    BY <1>19, <1>20 DEF CallerEnds, WireTyped, SocketState
  <2>4. executed' \in [Requests -> Nat]
    BY <1>0, <1>20 DEF CallerEnds
  <2>5. zkLost' \in BOOLEAN
    BY <1>20, Zenon DEF CallerEnds
  <2>6. Counts
    BY <1>0, <1>20, <2>4, <2>5 DEF CallerEnds, Counts
  <2> QED
    BY <1>1, <2>1, <2>2, <2>3, <2>6
<1>21. CASE ServiceEnds
  <2>1. WireTyped'
    <3>1. socket' \in [Sockets -> SocketState]
      BY <1>0, <1>21 DEF ServiceEnds, WireTyped, SocketState
    <3>2. /\ inbound' \in [Sockets -> Seq(Requests)] /\ serving' \in [Sockets -> Servings]
          /\ \A x \in Sockets : serving'[x] = NotServing
      BY <1>19, <1>21 DEF ServiceEnds
    <3>3. outbound' \in [Sockets -> Seq(Parts)]
      BY <1>0, <1>19, <1>21 DEF ServiceEnds, WireTyped
    <3> QED
      BY <3>1, <3>2, <3>3 DEF WireTyped
  <2> QED
    BY <1>1, <1>2, <1>4, <1>5, <1>21, <2>1 DEF ServiceEnds
<1>22. CASE UNCHANGED <<channel, wire, history>>
  BY <1>1, <1>2, <1>3, <1>4, <1>5, <1>22
<1> QED
  BY <1>6, <1>7, <1>8, <1>9, <1>10, <1>11, <1>12, <1>13, <1>14, <1>15, <1>16, <1>17, <1>18,
     <1>20, <1>21, <1>22
     DEF Next, Thread, Serve, Registry, vars

\* The state of the channel is typed, always.
THEOREM ChannelTypeCorrect == Spec => []TypeOK
BY TypeStarts, TypeKept, DiscoveryStarts, DiscoveryKept, TypeInvImplies, PTL DEF Spec
-----------------------------------------------------------------------------
(* Where a descriptor is.                                                  *)

HeldBy(s) == \E t \in Threads : call[t].socket = s
InPool(s) == \E m \in Methods : \E i \in DOMAIN pool[m] : pool[m][i] = s

OneHolder ==
  \A t, u \in Threads :
     call[t].socket = call[u].socket /\ call[t].socket # None => t = u
OnePlace ==
  \A m, n \in Methods : \A i \in DOMAIN pool[m], j \in DOMAIN pool[n] :
     pool[m][i] = pool[n][j] => m = n /\ i = j
Apart == \A s \in Sockets : ~ (HeldBy(s) /\ InPool(s))
Open == \A s \in Sockets : socket[s] # "free" <=> HeldBy(s) \/ InPool(s)
NoneYet ==
  \A t \in Threads : call[t].step \in {"idle", "resolve", "connect"} => call[t].socket = None

\* A descriptor is open exactly when it is in one place.
OwnInv == OneHolder /\ OnePlace /\ Apart /\ Open /\ NoneYet

-----------------------------------------------------------------------------
(* What is on the wire at each step of a call.                             *)

Quiet(s) == inbound[s] = <<>> /\ serving[s] = NotServing /\ outbound[s] = <<>>
Part(r, part) == [request |-> r, part |-> part]
ServingStep(r, step) == [request |-> r, step |-> step]

\* The request is on its way, or in a connection, or its answer is; or all is lost.
BeforeLen(s, r) ==
  \/ /\ executed[r] = 0 /\ inbound[s] = <<r>>
     /\ serving[s] = NotServing /\ outbound[s] = <<>>
  \/ /\ executed[r] = 1 /\ inbound[s] = <<>>
     /\ serving[s] = ServingStep(r, "len") /\ outbound[s] = <<>>
  \/ /\ executed[r] = 1 /\ inbound[s] = <<>>
     /\ serving[s] = ServingStep(r, "body") /\ outbound[s] = <<Part(r, "len")>>
  \/ /\ executed[r] = 1 /\ inbound[s] = <<>> /\ serving[s] = NotServing
     /\ outbound[s] = <<Part(r, "len")>> \/ outbound[s] = <<Part(r, "len"), Part(r, "body")>>
  \/ executed[r] <= 1 /\ Quiet(s)

BeforeBody(s, r) ==
  /\ executed[r] = 1 /\ inbound[s] = <<>>
  /\ \/ serving[s] = ServingStep(r, "body") /\ outbound[s] = <<>>
     \/ serving[s] = NotServing /\ outbound[s] = <<Part(r, "body")>>
     \/ serving[s] = NotServing /\ outbound[s] = <<>>

Protocol(t) ==
  LET r == call[t].request
      s == call[t].socket
  IN
  /\ call[t].step \in {"resolve", "connect", "send"} => executed[r] = 0
  /\ call[t].step = "send" => Quiet(s)
  /\ call[t].step = "len" => BeforeLen(s, r)
  /\ call[t].step = "body" => BeforeBody(s, r) /\ call[t].answer = r
  /\ call[t].step = "return" => Quiet(s) /\ executed[r] = 1 /\ call[t].answer = r

IdleQuiet == \A s \in Sockets : ~ HeldBy(s) => Quiet(s)
Numbered ==
  /\ \A t \in Threads : call[t].step # "idle" => call[t].request <= calls
  /\ \A t, u \in Threads :
        call[t].step # "idle" /\ call[t].request = call[u].request => t = u
  /\ \A r \in Requests : executed[r] <= 1 /\ (r > calls => executed[r] = 0)

\* A connection serves the one call that holds it, and has its request once.
WireInv == IdleQuiet /\ Numbered /\ \A t \in Threads : Protocol(t)

\* No thread takes a descriptor, and none is opened, closed or moved.
LEMMA OwnSame ==
  ASSUME OwnInv,
         \A t \in Threads : call'[t].socket = call[t].socket,
         \A t \in Threads : call'[t].step \in {"idle", "resolve", "connect"} =>
                               call'[t].socket = None,
         UNCHANGED pool,
         \A s \in Sockets : socket'[s] = "free" <=> socket[s] = "free"
  PROVE  OwnInv'
<1>1. \A s \in Sockets : (HeldBy(s)' <=> HeldBy(s)) /\ (InPool(s)' <=> InPool(s))
  BY DEF HeldBy, InPool
<1>2. OneHolder' /\ OnePlace' /\ NoneYet'
  BY DEF OwnInv, OneHolder, OnePlace, NoneYet
<1>3. Apart' /\ Open'
  BY <1>1 DEF OwnInv, Apart, Open
<1> QED
  BY <1>2, <1>3 DEF OwnInv

\* One thread, without a descriptor, takes one that is in no other hand.
OneHolds(t, s) ==
  /\ call'[t].socket = s /\ call'[t].step = "send"
  /\ \A u \in Threads \ {t} : call'[u] = call[u]

LEMMA TakeHolder ==
  ASSUME OwnInv, NEW t \in Threads, NEW s \in Sockets, OneHolds(t, s),
         call[t].socket = None, ~ HeldBy(s)
  PROVE  /\ OneHolder' /\ NoneYet'
         /\ \A x \in Sockets : HeldBy(x)' <=> (HeldBy(x) \/ x = s)
<1>1. s # None
  BY RpcChannelAssumption
<1>2. \A u \in Threads : call[u].socket # s
  BY DEF HeldBy
<1>3. OneHolder'
  BY <1>2 DEF OneHolds, OwnInv, OneHolder
<1>4. NoneYet'
  BY DEF OneHolds, OwnInv, NoneYet
<1>5. \A x \in Sockets : HeldBy(x)' <=> (HeldBy(x) \/ x = s)
  BY RpcChannelAssumption DEF OneHolds, HeldBy
<1> QED
  BY <1>3, <1>4, <1>5

\* One thread gives its descriptor up.
LEMMA DropHolder ==
  ASSUME OwnInv, NEW t \in Threads, Fail(t), call[t].socket \in Sockets,
         call \in [Threads -> Calls]
  PROVE  /\ OneHolder' /\ NoneYet'
         /\ \A x \in Sockets : HeldBy(x)' <=> (HeldBy(x) /\ x # call[t].socket)
<1>1. /\ call'[t].socket = None /\ call'[t].step = "idle"
      /\ \A u \in Threads \ {t} : call'[u] = call[u]
  BY DEF Fail, Idle
<1>2. OneHolder'
  BY <1>1 DEF OwnInv, OneHolder
<1>3. NoneYet'
  BY <1>1 DEF OwnInv, NoneYet
<1>4. \A x \in Sockets : HeldBy(x)' <=> (HeldBy(x) /\ x # call[t].socket)
  BY <1>1, RpcChannelAssumption DEF OwnInv, OneHolder, HeldBy
<1> QED
  BY <1>2, <1>3, <1>4

\* The last socket of a pool leaves it.
PoolBecomes(m, q) == pool' = [pool EXCEPT ![m] = q]

LEMMA PopPlace ==
  ASSUME OwnInv, PoolsTyped, NEW m \in Methods, pool[m] # <<>>,
         PoolBecomes(m, SubSeq(pool[m], 1, Len(pool[m]) - 1))
  PROVE  /\ OnePlace' /\ InPool(pool[m][Len(pool[m])])
         /\ pool[m][Len(pool[m])] \in Sockets
         /\ \A x \in Sockets : InPool(x)' <=> (InPool(x) /\ x # pool[m][Len(pool[m])])
<1> DEFINE vec == pool[m]
           s == vec[Len(vec)]
           q == SubSeq(vec, 1, Len(vec) - 1)
<1>1. vec \in Seq(Sockets) /\ vec # <<>> /\ Len(vec) \in Nat /\ pool \in [Methods -> Seq(Sockets)]
  BY DEF PoolsTyped
<1>2. Len(vec) \in 1..Len(vec) /\ DOMAIN vec = 1..Len(vec) /\ s \in Sockets
  BY <1>1, EmptySeq, ElementOfSeq
<1>3. /\ q \in Seq(Sockets) /\ DOMAIN q = 1..(Len(vec) - 1)
      /\ \A i \in 1..(Len(vec) - 1) : q[i] = vec[i]
  BY <1>1, <1>2, SubSeqProperties
<1>4. pool' = [pool EXCEPT ![m] = q]
  BY DEF PoolBecomes
<1>5. pool'[m] = q /\ \A n \in Methods \ {m} : pool'[n] = pool[n]
  BY <1>1, <1>4
<1>6. InPool(s)
  BY <1>2 DEF InPool
<1> HIDE DEF vec, s, q
<1>7. \A n \in Methods : \A i \in DOMAIN pool'[n] :
         i \in DOMAIN pool[n] /\ pool'[n][i] = pool[n][i] /\ (n = m => i # Len(vec))
  BY <1>1, <1>2, <1>3, <1>5 DEF vec
<1>8. \A n \in Methods : \A i \in DOMAIN pool[n] :
         ~(n = m /\ i = Len(vec)) => i \in DOMAIN pool'[n] /\ pool'[n][i] = pool[n][i]
  BY <1>1, <1>2, <1>3, <1>5 DEF vec
<1>9. OnePlace'
  BY <1>7 DEF OwnInv, OnePlace
<1>10. \A n \in Methods : \A i \in DOMAIN pool[n] : pool[n][i] = s => n = m /\ i = Len(vec)
  BY <1>2 DEF OwnInv, OnePlace, s, vec
<1>11. pool[m][Len(vec)] = s
  BY DEF s, vec
<1>12. ASSUME NEW x \in Sockets PROVE InPool(x)' <=> (InPool(x) /\ x # s)
  <2>1. InPool(x)' => InPool(x) /\ x # s
    BY <1>7, <1>10 DEF InPool
  <2>2. InPool(x) /\ x # s => InPool(x)'
    BY <1>8, <1>11 DEF InPool
  <2> QED
    BY <2>1, <2>2
<1> QED
  BY <1>2, <1>6, <1>9, <1>12 DEF s, vec

\* A socket of no pool is put into one.
LEMMA PushPlace ==
  ASSUME OwnInv, PoolsTyped, NEW m \in Methods, NEW s \in Sockets, ~ InPool(s),
         PoolBecomes(m, Append(pool[m], s))
  PROVE  /\ OnePlace'
         /\ \A x \in Sockets : InPool(x)' <=> (InPool(x) \/ x = s)
<1> DEFINE vec == pool[m]
           q == Append(vec, s)
           n1 == Len(vec) + 1
<1>1. vec \in Seq(Sockets) /\ Len(vec) \in Nat /\ DOMAIN vec = 1..Len(vec)
      /\ pool \in [Methods -> Seq(Sockets)]
  BY LenProperties DEF PoolsTyped
<1>2. /\ q \in Seq(Sockets) /\ Len(q) = n1 /\ DOMAIN q = 1..n1 /\ q[n1] = s
      /\ \A i \in 1..Len(vec) : q[i] = vec[i]
  BY <1>1, AppendProperties, LenProperties
<1>3. pool' = [pool EXCEPT ![m] = q]
  BY DEF PoolBecomes
<1>4. pool'[m] = q /\ \A n \in Methods \ {m} : pool'[n] = pool[n]
  BY <1>1, <1>3
<1>5. \A n \in Methods : \A i \in DOMAIN pool[n] : pool[n][i] # s
  BY DEF InPool
<1>6. /\ n1 \in 1..n1 /\ n1 \notin 1..Len(vec)
      /\ \A i \in 1..n1 : i = n1 \/ i \in 1..Len(vec)
      /\ \A i \in 1..Len(vec) : i \in 1..n1
  BY <1>1
<1> HIDE DEF vec, q, n1
<1>7. \A n \in Methods : \A i \in DOMAIN pool'[n] :
         \/ n = m /\ i = n1 /\ pool'[n][i] = s
         \/ i \in DOMAIN pool[n] /\ pool'[n][i] = pool[n][i]
  BY <1>1, <1>2, <1>4, <1>6 DEF vec
<1>8. \A n \in Methods : \A i \in DOMAIN pool[n] :
         i \in DOMAIN pool'[n] /\ pool'[n][i] = pool[n][i]
  BY <1>1, <1>2, <1>4, <1>6 DEF vec
<1>9. n1 \in DOMAIN pool'[m] /\ pool'[m][n1] = s
  BY <1>2, <1>4, <1>6
<1>10. OnePlace'
  BY <1>5, <1>7 DEF OwnInv, OnePlace
<1>11. ASSUME NEW x \in Sockets PROVE InPool(x)' <=> (InPool(x) \/ x = s)
  BY <1>7, <1>8, <1>9 DEF InPool
<1> QED
  BY <1>10, <1>11

LEMMA OwnStarts == Init => OwnInv
<1> SUFFICES ASSUME Init PROVE OwnInv
  OBVIOUS
<1>1. \A t \in Threads : call[t].socket = None
  BY DEF Init, Idle
<1>2. \A m \in Methods : pool[m] = <<>>
  BY DEF Init
<1>3. \A s \in Sockets : ~ HeldBy(s) /\ ~ InPool(s) /\ socket[s] = "free"
  BY <1>1, <1>2, RpcChannelAssumption DEF Init, HeldBy, InPool
<1> QED
  BY <1>1, <1>2, <1>3 DEF OwnInv, OneHolder, OnePlace, Apart, Open, NoneYet

\* A thread goes on with the descriptor it has, or has none before and after.
LEMMA OwnGoesOn ==
  ASSUME OwnInv, TypeInv, NEW t \in Threads, NEW r, CallBecomes(t, r),
         r.socket = call[t].socket,
         r.step \in {"idle", "resolve", "connect"} => r.socket = None,
         UNCHANGED <<pool, socket>>
  PROVE  OwnInv'
<1>1. call'[t] = r /\ \A u \in Threads \ {t} : call'[u] = call[u]
  BY DEF CallBecomes, TypeInv
<1>2. \A u \in Threads : call'[u].socket = call[u].socket
  BY <1>1
<1>3. \A u \in Threads : call'[u].step \in {"idle", "resolve", "connect"} => call'[u].socket = None
  BY <1>1 DEF OwnInv, NoneYet
<1> QED
  BY <1>2, <1>3, OwnSame

LEMMA OwnKept ==
  ASSUME OwnInv, TypeInv, [Next]_vars
  PROVE  OwnInv'
<1> USE DEF wire, channel, history
<1>0. CallsTyped /\ PoolsTyped /\ call \in [Threads -> Calls] /\ socket \in [Sockets -> SocketState]
  BY DEF TypeInv, CallsTyped, PoolsTyped
<1>1. UNCHANGED <<call, pool, socket>> => OwnInv'
  BY DEF OwnInv, OneHolder, OnePlace, Apart, Open, NoneYet, HeldBy, InPool
<1>2. ASSUME NEW t \in Threads, call[t].socket = None, Fail(t), UNCHANGED <<pool, socket>>
      PROVE  OwnInv'
  BY <1>2, FailTyped, OwnGoesOn DEF Idle
<1>3. ASSUME NEW t \in Threads, NEW step \in Steps, Goto(t, step), call[t].step # "idle",
             step \in {"send", "len", "body", "return"} => call[t].socket \in Sockets,
             step \in {"idle", "resolve", "connect"} => call[t].socket = None,
             UNCHANGED <<pool, socket>>
      PROVE  OwnInv'
  <2> DEFINE r == [call[t] EXCEPT !.step = step]
  <2>1. CallBecomes(t, r)
    BY <1>3, GotoTyped
  <2>2. r.socket = call[t].socket /\ r.step = step
    BY <1>3, CallTyped
  <2> HIDE DEF r
  <2> QED
    BY <1>3, <2>1, <2>2, OwnGoesOn
<1>4. ASSUME NEW t \in Threads, Fail(t), Closed(call[t].socket), UNCHANGED pool,
             call[t].socket \in Sockets
      PROVE  OwnInv'
  <2> DEFINE s == call[t].socket
  <2>1. OneHolder' /\ NoneYet' /\ \A x \in Sockets : HeldBy(x)' <=> (HeldBy(x) /\ x # s)
    BY <1>0, <1>4, DropHolder
  <2>2. OnePlace' /\ \A x \in Sockets : InPool(x)' <=> InPool(x)
    BY <1>4 DEF OwnInv, OnePlace, InPool
  <2>3. HeldBy(s)
    BY DEF HeldBy
  <2>4. socket' = [socket EXCEPT ![s] = "free"]
    BY <1>4 DEF Closed
  <2>5. s \in Sockets
    BY <1>4
  <2> HIDE DEF s
  <2>6. Apart' /\ Open'
    BY <1>0, <2>1, <2>2, <2>3, <2>4, <2>5 DEF OwnInv, Apart, Open
  <2> QED
    BY <2>1, <2>2, <2>6 DEF OwnInv
<1>5. ASSUME NEW t \in Threads, NEW m \in Methods, CallMethod(t, m) PROVE OwnInv'
  <2> DEFINE r == [step |-> "resolve", method |-> m, socket |-> None,
                   request |-> calls + 1, answer |-> 0]
  <2>1. calls + 1 \in Requests
    BY <1>5, RpcChannelAssumption DEF CallMethod, Requests, TypeInv
  <2>2. CallBecomes(t, r)
    BY <1>5, <2>1 DEF CallMethod, CallBecomes, Calls, Steps
  <2>3. r.socket = call[t].socket /\ r.socket = None
    BY <1>5 DEF CallMethod, Idle
  <2> HIDE DEF r
  <2> QED
    BY <1>5, <2>2, <2>3, OwnGoesOn DEF CallMethod
<1>6. ASSUME NEW t \in Threads, Resolve(t) PROVE OwnInv'
  BY <1>3, <1>6 DEF Resolve, In, Steps, OwnInv, NoneYet
<1>7. ASSUME NEW t \in Threads, NotFound(t) \/ Refused(t) PROVE OwnInv'
  BY <1>2, <1>7 DEF NotFound, Refused, In, OwnInv, NoneYet
<1>8. ASSUME NEW t \in Threads, Pop(t) PROVE OwnInv'
  <2> DEFINE m == call[t].method
             s == pool[m][Len(pool[m])]
  <2>1. m \in Methods /\ pool[m] # <<>> /\ call[t].socket = None
    BY <1>8, CallTyped DEF Pop, In, OwnInv, NoneYet
  <2>2. PoolBecomes(m, SubSeq(pool[m], 1, Len(pool[m]) - 1))
    BY <1>8 DEF Pop, PoolBecomes
  <2>3. OneHolds(t, s)
    <3>1. call' = [call EXCEPT ![t] = [call[t] EXCEPT !.step = "send", !.socket = s]]
      BY <1>0, <1>8 DEF Pop
    <3> HIDE DEF s
    <3>2. [call[t] EXCEPT !.step = "send", !.socket = s].socket = s
          /\ [call[t] EXCEPT !.step = "send", !.socket = s].step = "send"
      BY <1>8, CallTyped DEF Pop, In
    <3> QED
      BY <1>0, <3>1, <3>2 DEF OneHolds
  <2> HIDE DEF m
  <2>4. /\ OnePlace' /\ InPool(s) /\ s \in Sockets
        /\ \A x \in Sockets : InPool(x)' <=> (InPool(x) /\ x # s)
    BY <1>0, <2>1, <2>2, PopPlace
  <2> HIDE DEF s
  <2>5. ~ HeldBy(s)
    BY <2>4 DEF OwnInv, Apart
  <2>6. OneHolder' /\ NoneYet' /\ \A x \in Sockets : HeldBy(x)' <=> (HeldBy(x) \/ x = s)
    BY <2>1, <2>3, <2>4, <2>5, TakeHolder
  <2>7. Apart' /\ Open'
    BY <1>8, <2>4, <2>5, <2>6 DEF Pop, OwnInv, Apart, Open
  <2> QED
    BY <2>4, <2>6, <2>7 DEF OwnInv
<1>9. ASSUME NEW t \in Threads, Connect(t) PROVE OwnInv'
  <2>1. PICK s \in Sockets :
          /\ socket[s] = "free" /\ socket' = [socket EXCEPT ![s] = "open"]
          /\ call' = [call EXCEPT ![t].step = "send", ![t].socket = s]
    BY <1>9 DEF Connect
  <2>2. OneHolds(t, s)
    <3>1. call' = [call EXCEPT ![t] = [call[t] EXCEPT !.step = "send", !.socket = s]]
      BY <1>0, <2>1
    <3>2. [call[t] EXCEPT !.step = "send", !.socket = s].socket = s
          /\ [call[t] EXCEPT !.step = "send", !.socket = s].step = "send"
      BY <1>9, CallTyped DEF Connect, In
    <3> QED
      BY <1>0, <3>1, <3>2 DEF OneHolds
  <2>3. ~ HeldBy(s) /\ ~ InPool(s) /\ call[t].socket = None
    BY <1>9, <2>1 DEF Connect, In, OwnInv, Open, NoneYet
  <2>4. OneHolder' /\ NoneYet' /\ \A x \in Sockets : HeldBy(x)' <=> (HeldBy(x) \/ x = s)
    BY <2>2, <2>3, TakeHolder
  <2>5. OnePlace' /\ \A x \in Sockets : InPool(x)' <=> InPool(x)
    BY <1>9 DEF Connect, OwnInv, OnePlace, InPool
  <2>6. socket'[s] # "free" /\ \A x \in Sockets \ {s} : socket'[x] = socket[x]
    BY <1>0, <2>1
  <2>7. Apart' /\ Open'
    BY <2>3, <2>4, <2>5, <2>6 DEF OwnInv, Apart, Open
  <2> QED
    BY <2>4, <2>5, <2>7 DEF OwnInv
<1>10. ASSUME NEW t \in Threads, Send(t) PROVE OwnInv'
  BY <1>3, <1>10 DEF Send, In, Steps, TypeInv
<1>11. ASSUME NEW t \in Threads, SendFails(t) \/ RecvFails(t) \/ ResponseUnparsed(t) PROVE OwnInv'
  BY <1>4, <1>11 DEF SendFails, RecvFails, ResponseUnparsed, In, TypeInv
<1>12. ASSUME NEW t \in Threads, Recv(t) PROVE OwnInv'
  <2> DEFINE s == call[t].socket
             step == IF In(t, "len") THEN "body" ELSE "return"
             r == [call[t] EXCEPT !.step = step, !.answer = Head(outbound[s]).request]
  <2>1. call' = [call EXCEPT ![t] = r]
    BY <1>0, <1>12 DEF Recv
  <2>2. r.socket = call[t].socket /\ r.step = step /\ step \in {"body", "return"}
    BY <1>12, CallTyped DEF Recv, In
  <2> HIDE DEF r, step
  <2>3. call'[t].socket = call[t].socket /\ call'[t].step \notin {"idle", "resolve", "connect"}
    BY <1>0, <2>1, <2>2
  <2>4. \A u \in Threads \ {t} : call'[u] = call[u]
    BY <1>0, <2>1
  <2>5. \A u \in Threads : call'[u].socket = call[u].socket
    BY <2>3, <2>4
  <2>6. \A u \in Threads : call'[u].step \in {"idle", "resolve", "connect"} => call'[u].socket = None
    BY <2>3, <2>4 DEF OwnInv, NoneYet
  <2>7. UNCHANGED <<pool, socket>>
    BY <1>12 DEF Recv
  <2> QED
    BY <2>5, <2>6, <2>7, OwnSame
<1>13. ASSUME NEW t \in Threads, Return(t) PROVE OwnInv'
  <2> DEFINE m == call[t].method
             s == call[t].socket
  <2>1. m \in Methods /\ s \in Sockets /\ Fail(t)
    BY <1>13, CallTyped DEF Return, In, TypeInv
  <2>2. CASE PoolBecomes(m, Append(pool[m], s)) /\ UNCHANGED socket
    <3>1. HeldBy(s)
      BY DEF HeldBy
    <3>2. OneHolder' /\ NoneYet' /\ \A x \in Sockets : HeldBy(x)' <=> (HeldBy(x) /\ x # s)
      BY <1>0, <2>1, DropHolder
    <3> HIDE DEF m, s
    <3>3. ~ InPool(s)
      BY <2>1, <3>1 DEF OwnInv, Apart
    <3>4. OnePlace' /\ \A x \in Sockets : InPool(x)' <=> (InPool(x) \/ x = s)
      BY <1>0, <2>1, <2>2, <3>3, PushPlace
    <3>5. Apart' /\ Open'
      BY <2>1, <2>2, <3>1, <3>2, <3>3, <3>4 DEF OwnInv, Apart, Open
    <3> QED
      BY <3>2, <3>4, <3>5 DEF OwnInv
  <2>3. CASE Closed(s) /\ UNCHANGED pool
    BY <1>4, <2>1, <2>3
  <2> QED
    BY <1>13, <2>2, <2>3 DEF Return, PoolBecomes
<1>14. ASSUME NEW s \in Sockets, Serve(s) PROVE OwnInv'
  BY <1>1, <1>14 DEF Serve, OnMessage, DropRequest, SendRpcResponse
<1>15. ASSUME NEW m \in Methods, AddressExpires(m) PROVE OwnInv'
  BY <1>1, <1>15 DEF AddressExpires
<1>16. CASE CallerSessionLost
  BY <1>1, <1>16 DEF CallerSessionLost
<1>17. CASE CallerEnds
  <2>1. /\ \A t \in Threads : call'[t] = Idle /\ call'[t].socket = None
        /\ \A m \in Methods : pool'[m] = <<>>
        /\ \A s \in Sockets : socket'[s] = "free"
    BY <1>17 DEF CallerEnds, Idle
  <2>2. \A s \in Sockets : ~ HeldBy(s)' /\ ~ InPool(s)'
    BY <2>1, RpcChannelAssumption DEF HeldBy, InPool
  <2> QED
    BY <2>1, <2>2 DEF OwnInv, OneHolder, OnePlace, Apart, Open, NoneYet
<1>18. CASE ServiceEnds
  <2>1. \A s \in Sockets : socket'[s] = "free" <=> socket[s] = "free"
    BY <1>18 DEF ServiceEnds
  <2>2. UNCHANGED <<call, pool>>
    BY <1>18 DEF ServiceEnds
  <2> QED
    BY <2>1, <2>2, OwnSame DEF OwnInv, NoneYet
<1>19. CASE UNCHANGED channel
  BY <1>1, <1>19
<1> QED
  BY <1>5, <1>6, <1>7, <1>8, <1>9, <1>10, <1>11, <1>12, <1>13, <1>14, <1>15, <1>16, <1>17,
     <1>18, <1>19 DEF Next, Thread, Registry, vars

\* Where a descriptor is, counted.
LEMMA InOnePlace ==
  ASSUME OwnInv, TypeInv, NEW s \in Sockets
  PROVE  Cardinality(Held(s)) + Cardinality(Pooled(s)) = IF socket[s] = "free" THEN 0 ELSE 1
<1>1. Cardinality({}) = 0 /\ \A x : Cardinality({x}) = 1
  BY FS_EmptySet, FS_Singleton
<1>2. s # None /\ (socket[s] # "free" <=> HeldBy(s) \/ InPool(s)) /\ ~ (HeldBy(s) /\ InPool(s))
  BY RpcChannelAssumption DEF OwnInv, Open, Apart
<1>3. \A m \in Methods : \A i \in DOMAIN pool[m] : i \in 1..PoolLimit
  BY LenProperties, RpcChannelAssumption DEF TypeInv
<1>4. ~ HeldBy(s) => Held(s) = {}
  BY DEF HeldBy, Held
<1>5. ~ InPool(s) => Pooled(s) = {}
  BY DEF InPool, Pooled
<1>6. ASSUME NEW t \in Threads, call[t].socket = s PROVE Held(s) = {t}
  BY <1>2, <1>6 DEF OwnInv, OneHolder, Held
<1>7. ASSUME NEW m \in Methods, NEW i \in DOMAIN pool[m], pool[m][i] = s
      PROVE  Pooled(s) = {<<m, i>>}
  <2>1. <<m, i>> \in Pooled(s)
    BY <1>3, <1>7 DEF Pooled
  <2>2. ASSUME NEW p \in Pooled(s) PROVE p = <<m, i>>
    BY <1>7, <2>2 DEF Pooled, OwnInv, OnePlace
  <2> QED
    BY <2>1, <2>2
<1>8. HeldBy(s) => Cardinality(Held(s)) = 1
  BY <1>1, <1>6 DEF HeldBy
<1>9. InPool(s) => Cardinality(Pooled(s)) = 1
  BY <1>1, <1>7 DEF InPool
<1> QED
  BY <1>1, <1>2, <1>4, <1>5, <1>8, <1>9

LEMMA WireStarts == Init => WireInv
<1> SUFFICES ASSUME Init PROVE WireInv
  OBVIOUS
<1>1. \A t \in Threads : call[t].step = "idle"
  BY DEF Init, Idle
<1>2. \A s \in Sockets : Quiet(s)
  BY DEF Init, Quiet
<1>3. \A r \in Requests : executed[r] = 0
  BY DEF Init
<1> QED
  BY <1>1, <1>2, <1>3 DEF WireInv, IdleQuiet, Numbered, Protocol

LEMMA ShortSequences ==
  ASSUME NEW S, NEW a \in S, NEW b \in S
  PROVE  /\ Append(<<>>, a) = <<a>> /\ Append(<<a>>, b) = <<a, b>>
         /\ Head(<<a>>) = a /\ Tail(<<a>>) = <<>>
         /\ Head(<<a, b>>) = a /\ Tail(<<a, b>>) = <<b>>
         /\ <<a>> # <<>> /\ <<a, b>> # <<>>
<1>0. <<>> \in Seq(S) /\ <<a>> \in Seq(S) /\ <<b>> \in Seq(S) /\ <<a, b>> \in Seq(S)
  OBVIOUS
<1>1. Append(<<>>, a) = <<a>>
  BY <1>0
<1>2. Append(<<a>>, b) = <<a, b>>
  <2>1. Len(<<a>>) = 1 /\ <<a>>[1] = a
    BY <1>0
  <2>2. /\ Append(<<a>>, b) \in Seq(S) /\ Len(Append(<<a>>, b)) = 2
        /\ Append(<<a>>, b)[1] = a /\ Append(<<a>>, b)[2] = b
    BY <1>0, <2>1, AppendProperties
  <2>3. Len(<<a, b>>) = 2 /\ <<a, b>>[1] = a /\ <<a, b>>[2] = b
    BY <1>0
  <2>4. \A i \in 1..2 : i = 1 \/ i = 2
    OBVIOUS
  <2> QED
    BY <1>0, <2>2, <2>3, <2>4, SeqEqual
<1>3. Head(<<a>>) = a /\ Head(<<a, b>>) = a
  BY <1>0
<1>5.  <<a>> # <<>> /\ <<a, b>> # <<>> 
  BY <1>0
<1>4. Tail(<<a>>) = <<>> 
  BY <1>0, <1>5, HeadTailProperties, EmptySeq
<1>6. Tail(<<a, b>>) = <<b>>
  BY <1>0
<1> QED
  BY <1>1, <1>2, <1>3, <1>4, <1>5, <1>6

SameWire(s) == inbound'[s] = inbound[s] /\ serving'[s] = serving[s] /\ outbound'[s] = outbound[s]
Busy(t) == call[t].step \in {"send", "len", "body", "return"}

\* What others do to other requests on other connections does not matter to a call.
LEMMA ProtocolFrame ==
  ASSUME NEW u \in Threads, Protocol(u), call'[u] = call[u],
         Busy(u) => SameWire(call[u].socket),
         call[u].step # "idle" => executed'[call[u].request] = executed[call[u].request]
  PROVE  Protocol(u)'
<1> DEFINE r == call[u].request
           s == call[u].socket
<1>1. CASE call[u].step \notin {"resolve", "connect", "send", "len", "body", "return"}
  BY <1>1 DEF Protocol
<1>2. CASE call[u].step \in {"resolve", "connect"}
  BY <1>2 DEF Protocol
<1>3. CASE Busy(u)
  <2>1. executed'[r] = executed[r] /\ SameWire(s)
    BY <1>3 DEF Busy
  <2>2. (Quiet(s)' <=> Quiet(s)) /\ (BeforeLen(s, r)' <=> BeforeLen(s, r))
        /\ (BeforeBody(s, r)' <=> BeforeBody(s, r))
    BY <2>1 DEF SameWire, Quiet, BeforeLen, BeforeBody
  <2> QED
    BY <2>1, <2>2 DEF Protocol
<1> QED
  BY <1>1, <1>2, <1>3 DEF Busy

\* One thread goes on: it keeps its own part of the protocol, and touches no
\* connection that another thread uses.
LEMMA ThreadWire ==
  ASSUME WireInv, NEW t \in Threads,
         \A u \in Threads \ {t} : call'[u] = call[u],
         \A u \in Threads \ {t} : Busy(u) => SameWire(call[u].socket),
         executed' = executed,
         IdleQuiet', Numbered', Protocol(t)'
  PROVE  WireInv'
<1>1. ASSUME NEW u \in Threads \ {t} PROVE Protocol(u)'
  BY ProtocolFrame DEF WireInv
<1> QED
  BY <1>1 DEF WireInv

\* A call goes on with its own request, or ends.
LEMMA NumberedKept ==
  ASSUME Numbered, NEW t \in Threads,
         \A u \in Threads \ {t} : call'[u] = call[u],
         call'[t].step = "idle" \/ (call[t].step # "idle" /\ call'[t].request = call[t].request),
         call'[t].step = "idle" => call'[t].request = 0,
         \A u \in Threads : call[u].step # "idle" => call[u].request # 0,
         calls' = calls, executed' = executed
  PROVE  Numbered'
BY DEF Numbered

\* The two lemmas for an action of one thread, on its own connection s.
LEMMA CallGoesOn ==
  ASSUME WireInv, OwnInv, TypeInv, NEW t \in Threads, NEW r, CallBecomes(t, r),
         calls' = calls, executed' = executed,
         NEW s \in Sockets, call[t].socket = s, \A x \in Sockets \ {s} : SameWire(x),
         \/ r = Idle /\ Quiet(s)'
         \/ r.step # "idle" /\ call[t].step # "idle" /\ r.request = call[t].request
            /\ r.socket = s,
         Protocol(t)'
  PROVE  WireInv'
<1>1. call'[t] = r /\ \A u \in Threads \ {t} : call'[u] = call[u]
  BY DEF CallBecomes, TypeInv
<1>2. \A u \in Threads : call[u].step # "idle" => call[u].request # 0
  <2>1. \A n \in Requests : n # 0
    BY RpcChannelAssumption DEF Requests
  <2> QED
    BY <2>1, CallTyped
<1>3. Numbered'
  <2>1. call'[t].step = "idle" \/ (call[t].step # "idle" /\ call'[t].request = call[t].request)
    BY <1>1 DEF Idle
  <2>2. call'[t].step = "idle" => call'[t].request = 0
    BY <1>1 DEF Idle
  <2>3. Numbered /\ calls' = calls /\ executed' = executed
    BY DEF WireInv
  <2> QED
    BY <1>1, <1>2, <2>1, <2>2, <2>3, NumberedKept
<1>4. ASSUME NEW u \in Threads \ {t}, Busy(u) PROVE SameWire(call[u].socket)
  <2>1. call[u].socket \in Sockets
    BY <1>4 DEF Busy, TypeInv
  <2>2. call[u].socket # s
    BY <1>4, <2>1, RpcChannelAssumption DEF OwnInv, OneHolder
  <2> QED
    BY <2>1, <2>2
<1>5. ASSUME NEW x \in Sockets, ~ HeldBy(x)' PROVE Quiet(x)'
  <2>1. CASE x = s
    BY <1>1, <1>5, <2>1 DEF HeldBy
  <2>2. CASE x # s
    <3>1. ~ HeldBy(x)
      BY <1>1, <1>5, <2>2 DEF HeldBy
    <3>2. Quiet(x)
      BY <3>1 DEF WireInv, IdleQuiet
    <3> QED
      BY <2>2, <3>2 DEF SameWire, Quiet
  <2> QED
    BY <2>1, <2>2
<1>6. IdleQuiet'
  BY <1>5 DEF IdleQuiet
<1> QED
  BY <1>1, <1>3, <1>4, <1>6, ThreadWire

\* A thread that has no connection yet goes on; the wire is as it was.
LEMMA CallMoves ==
  ASSUME WireInv, OwnInv, TypeInv, NEW t \in Threads, NEW r, CallBecomes(t, r),
         UNCHANGED <<calls, executed, wire>>, call[t].socket = None,
         \/ r = Idle
         \/ r.step # "idle" /\ call[t].step # "idle" /\ r.request = call[t].request,
         Protocol(t)'
  PROVE  WireInv'
<1>1. call'[t] = r /\ \A u \in Threads \ {t} : call'[u] = call[u]
  BY DEF CallBecomes, TypeInv
<1>2. \A u \in Threads : call[u].step # "idle" => call[u].request # 0
  <2>1. \A n \in Requests : n # 0
    BY RpcChannelAssumption DEF Requests
  <2> QED
    BY <2>1, CallTyped
<1>3. Numbered'
  <2>1. call'[t].step = "idle" \/ (call[t].step # "idle" /\ call'[t].request = call[t].request)
    BY <1>1 DEF Idle
  <2>2. call'[t].step = "idle" => call'[t].request = 0
    BY <1>1 DEF Idle
  <2>3. Numbered /\ calls' = calls /\ executed' = executed
    BY DEF WireInv
  <2> QED
    BY <1>1, <1>2, <2>1, <2>2, <2>3, NumberedKept
<1>4. \A x : SameWire(x)
  BY DEF SameWire, wire
<1>5. ASSUME NEW x \in Sockets, ~ HeldBy(x)' PROVE Quiet(x)'
  <2>1. ~ HeldBy(x)
    BY <1>1, <1>5, RpcChannelAssumption DEF HeldBy
  <2> QED
    BY <1>4, <2>1 DEF WireInv, IdleQuiet, SameWire, Quiet
<1>6. IdleQuiet'
  BY <1>5 DEF IdleQuiet
<1> QED
  BY <1>1, <1>3, <1>4, <1>6, ThreadWire

\* A connection that is not quiet belongs to a call that awaits its answer.
LEMMA AwaitedBy ==
  ASSUME WireInv, OwnInv, TypeInv, NEW s \in Sockets, ~ Quiet(s)
  PROVE  \E t \in Threads :
           /\ call[t].socket = s /\ call[t].request \in Requests
           /\ \/ call[t].step = "len" /\ BeforeLen(s, call[t].request)
              \/ call[t].step = "body" /\ BeforeBody(s, call[t].request)
<1>1. PICK t \in Threads : call[t].socket = s
  BY DEF WireInv, IdleQuiet, HeldBy
<1>2. Protocol(t) /\ call[t].socket # None
  BY <1>1, RpcChannelAssumption DEF WireInv
<1>3. call[t].step \notin {"idle", "resolve", "connect"}
  BY <1>2 DEF OwnInv, NoneYet
<1>4. call[t].step \in Steps /\ call[t].request \in Requests
  BY <1>3, CallTyped
<1>5. call[t].step \in {"len", "body"}
  BY <1>1, <1>2, <1>3, <1>4 DEF Protocol, Steps
<1> QED
  BY <1>1, <1>2, <1>4, <1>5 DEF Protocol

\* The provider goes on with the request of one call, on its connection.
LEMMA ServeWire ==
  ASSUME WireInv, OwnInv, TypeInv, NEW s \in Sockets, NEW t \in Threads,
         call[t].socket = s, call[t].step \in {"len", "body"},
         UNCHANGED <<call, calls>>,
         \A x \in Sockets \ {s} : SameWire(x),
         \A q \in Requests : q # call[t].request => executed'[q] = executed[q],
         executed'[call[t].request] <= 1,
         Protocol(t)'
  PROVE  WireInv'
<1>0. call[t].request \in Requests /\ call[t].request <= calls
      /\ \A u \in Threads : call[u].step # "idle" => call[u].request \in Requests
  BY CallTyped DEF WireInv, Numbered
<1>1. ASSUME NEW u \in Threads \ {t} PROVE Protocol(u)'
  <2>1. Busy(u) => SameWire(call[u].socket)
    <3> SUFFICES ASSUME Busy(u) PROVE SameWire(call[u].socket)
      OBVIOUS
    <3>1. call[u].socket \in Sockets
      BY DEF Busy, TypeInv
    <3>2. call[u].socket # s
      BY <3>1, RpcChannelAssumption DEF OwnInv, OneHolder
    <3> QED
      BY <3>1, <3>2
  <2>2. call[u].step # "idle" => executed'[call[u].request] = executed[call[u].request]
    BY <1>0 DEF WireInv, Numbered
  <2>3. Protocol(u) /\ call'[u] = call[u]
    BY DEF WireInv
  <2> QED
    BY <2>1, <2>2, <2>3, ProtocolFrame
<1>2. IdleQuiet'
  <2> SUFFICES ASSUME NEW x \in Sockets, ~ HeldBy(x)' PROVE Quiet(x)'
    BY DEF IdleQuiet
  <2>1. ~ HeldBy(x) /\ x # s
    BY DEF HeldBy
  <2> QED
    BY <2>1 DEF WireInv, IdleQuiet, SameWire, Quiet
<1>3. Numbered'
  <2>1. \A q \in Requests : executed'[q] <= 1 /\ (q > calls => executed'[q] = 0)
    <3> SUFFICES ASSUME NEW q \in Requests
                 PROVE  executed'[q] <= 1 /\ (q > calls => executed'[q] = 0)
      OBVIOUS
    <3>1. CASE q = call[t].request
      BY <1>0, <3>1, RpcChannelAssumption DEF Requests, TypeInv
    <3>2. CASE q # call[t].request
      BY <3>2 DEF WireInv, Numbered
    <3> QED
      BY <3>1, <3>2
  <2> QED
    BY <2>1 DEF WireInv, Numbered
<1> QED
  BY <1>1, <1>2, <1>3 DEF WireInv

\* A closed connection is quiet.
LEMMA ClosedQuiet ==
  ASSUME TypeInv, NEW s \in Sockets, Closed(s)
  PROVE  Quiet(s)' /\ \A x \in Sockets \ {s} : SameWire(x)
BY DEF TypeInv, Closed, Quiet, SameWire

\* A thread that ends its call says no more of it.
LEMMA IdleProtocol ==
  ASSUME NEW t, call'[t] = Idle
  PROVE  Protocol(t)'
BY DEF Protocol, Idle

LEMMA WireKept ==
  ASSUME WireInv, OwnInv, TypeInv, [Next]_vars
  PROVE  WireInv'
<1> USE DEF channel, history
<1>0. /\ call \in [Threads -> Calls] /\ calls \in Nat /\ executed \in [Requests -> Nat]
      /\ inbound \in [Sockets -> Seq(Requests)] /\ serving \in [Sockets -> Servings]
      /\ outbound \in [Sockets -> Seq(Parts)]
      /\ \A t \in Threads : Protocol(t)
  BY RpcChannelAssumption DEF TypeInv, WireInv
<1>1. ASSUME UNCHANGED <<call, calls, wire, executed>> PROVE WireInv'
  <2>1. \A s : Quiet(s)' <=> Quiet(s)
    BY <1>1 DEF Quiet, wire
  <2>2. IdleQuiet' /\ Numbered'
    BY <1>1, <2>1 DEF WireInv, IdleQuiet, Numbered, HeldBy
  <2>3. \A t \in Threads : Protocol(t)'
    BY <1>0, <1>1, ProtocolFrame DEF SameWire, wire
  <2> QED
    BY <2>2, <2>3 DEF WireInv
<1>2. ASSUME NEW t \in Threads, call[t].socket = None, Fail(t),
             UNCHANGED <<calls, executed, wire>>
      PROVE  WireInv'
  <2>1. CallBecomes(t, Idle) /\ call'[t] = Idle
    BY <1>0, <1>2, FailTyped DEF CallBecomes
  <2>2. Protocol(t)'
    BY <2>1, IdleProtocol
  <2> QED
    BY <1>2, <2>1, <2>2, CallMoves
<1>3. ASSUME NEW t \in Threads, NEW s \in Sockets, call[t].socket = s, Fail(t), Closed(s),
             UNCHANGED <<calls, executed>>
      PROVE  WireInv'
  <2>1. CallBecomes(t, Idle) /\ call'[t] = Idle
    BY <1>0, <1>3, FailTyped DEF CallBecomes
  <2>2. Protocol(t)'
    BY <2>1, IdleProtocol
  <2>3. Quiet(s)' /\ \A x \in Sockets \ {s} : SameWire(x)
    BY <1>3, ClosedQuiet
  <2> QED
    BY <1>3, <2>1, <2>2, <2>3, CallGoesOn
<1>4. ASSUME NEW t \in Threads, NEW m \in Methods, CallMethod(t, m) PROVE WireInv'
  <2> DEFINE r == [step |-> "resolve", method |-> m, socket |-> None,
                   request |-> calls + 1, answer |-> 0]
  <2>1. call[t].socket = None /\ call'[t] = r /\ \A u \in Threads \ {t} : call'[u] = call[u]
    BY <1>0, <1>4 DEF CallMethod, Idle
  <2>2. calls + 1 \in Requests /\ calls + 1 > calls /\ calls' = calls + 1
    BY <1>0, <1>4, RpcChannelAssumption DEF CallMethod, Requests, TypeInv
  <2>3. UNCHANGED <<executed, wire>>
    BY <1>4 DEF CallMethod
  <2>4. r.step = "resolve" /\ r.request = calls + 1 /\ r.socket = None
    OBVIOUS
  <2> HIDE DEF r
  <2>5. executed[calls + 1] = 0
    BY <2>2 DEF WireInv, Numbered
  <2>6. Protocol(t)'
    BY <2>1, <2>3, <2>4, <2>5 DEF Protocol
  <2>7. \A u \in Threads : call[u].step # "idle" => call[u].request \in Nat
    BY CallTyped, RpcChannelAssumption DEF Requests
  <2>8. Numbered'
    <3>1. \A u \in Threads : call'[u].step # "idle" => call'[u].request <= calls'
      <4>1. call'[t].request <= calls'
        BY <1>0, <2>1, <2>2, <2>4
      <4>2. ASSUME NEW u \in Threads \ {t}, call[u].step # "idle"
            PROVE  call[u].request <= calls'
        <5>1. call[u].request <= calls /\ call[u].request \in Nat
          BY <2>7, <4>2 DEF WireInv, Numbered
        <5> QED
          BY <1>0, <2>2, <5>1
      <4> QED
        BY <2>1, <4>1, <4>2
    <3>2. \A u \in Threads \ {t} : call[u].step # "idle" => call[u].request # calls + 1
      BY <1>0, <2>7 DEF WireInv, Numbered
    <3>3. \A u, v \in Threads :
             call'[u].step # "idle" /\ call'[u].request = call'[v].request => u = v
      <4>1. \A u \in Threads \ {t} : call[u].request # calls + 1
        <5> SUFFICES ASSUME NEW u \in Threads \ {t}, call[u].step = "idle"
                     PROVE  call[u].request # calls + 1
          BY <3>2
        <5>1. call[u].request = 0
          BY CallTyped DEF Idle
        <5> QED
          BY <1>0, <5>1
      <4> QED
        BY <2>1, <2>4, <4>1 DEF WireInv, Numbered
    <3>4. \A q \in Requests : executed'[q] <= 1 /\ (q > calls' => executed'[q] = 0)
      BY <1>0, <2>2, <2>3, RpcChannelAssumption DEF WireInv, Numbered, Requests
    <3> QED
      BY <3>1, <3>3, <3>4 DEF Numbered
  <2>9. IdleQuiet'
    <3> SUFFICES ASSUME NEW x \in Sockets, ~ HeldBy(x)' PROVE Quiet(x)'
      BY DEF IdleQuiet
    <3>1. ~ HeldBy(x)
      BY <2>1, RpcChannelAssumption DEF HeldBy
    <3> QED
      BY <2>3, <3>1 DEF WireInv, IdleQuiet, Quiet, wire
  <2>10. \A x : SameWire(x)
    BY <2>3 DEF SameWire, wire
  <2> QED
    BY <2>1, <2>3, <2>6, <2>8, <2>9, <2>10, ThreadWire
<1>5. ASSUME NEW t \in Threads, Resolve(t) PROVE WireInv'
  <2> DEFINE r == [call[t] EXCEPT !.step = "connect"]
  <2>1. CallBecomes(t, r)
    BY <1>5, GotoTyped DEF Resolve, In, Steps
  <2>2. r.step = "connect" /\ r.request = call[t].request
    BY <1>5, CallTyped DEF Resolve, In
  <2>3. call[t].step = "resolve" /\ UNCHANGED <<calls, executed, wire>> /\ call[t].socket = None
    BY <1>5 DEF Resolve, In, OwnInv, NoneYet
  <2>4. call'[t] = r
    BY <1>0, <2>1 DEF CallBecomes
  <2> HIDE DEF r
  <2>5. Protocol(t)'
    BY <1>0, <2>2, <2>3, <2>4 DEF Protocol
  <2> QED
    BY <2>1, <2>2, <2>3, <2>5, CallMoves
<1>6. ASSUME NEW t \in Threads, NotFound(t) \/ Refused(t) PROVE WireInv'
  BY <1>2, <1>6 DEF NotFound, Refused, In, OwnInv, NoneYet
\* A thread at "connect" takes a connection that nobody holds.
<1>7. ASSUME NEW t \in Threads, NEW s \in Sockets, In(t, "connect"), ~ HeldBy(s),
             call' = [call EXCEPT ![t].step = "send", ![t].socket = s],
             UNCHANGED <<calls, executed, wire>>
      PROVE  WireInv'
  <2> DEFINE r == [call[t] EXCEPT !.step = "send", !.socket = s]
  <2>1. r \in Calls /\ r.socket = s /\ r.step = "send" /\ r.request = call[t].request
    BY <1>7, CallTyped DEF In, Calls, Steps
  <2>2. call' = [call EXCEPT ![t] = r]
    BY <1>0, <1>7
  <2> HIDE DEF r
  <2>3. CallBecomes(t, r)
    BY <2>1, <2>2 DEF CallBecomes
  <2>4. call[t].step = "connect" /\ call[t].socket = None /\ call'[t] = r
    BY <1>0, <1>7, <2>2 DEF In, OwnInv, NoneYet
  <2>5. Quiet(s)' /\ executed'[call[t].request] = executed[call[t].request]
    BY <1>7 DEF WireInv, IdleQuiet, Quiet, wire
  <2>6. Protocol(t)'
    BY <1>0, <2>1, <2>4, <2>5 DEF Protocol
  <2>7. (r.step # "idle" /\ call[t].step # "idle" /\ r.request = call[t].request)
    BY <2>1, <2>4
  <2> QED
    BY <1>7, <2>3, <2>4, <2>6, <2>7, CallMoves
<1>8. ASSUME NEW t \in Threads, Pop(t) PROVE WireInv'
  <2> DEFINE m == call[t].method
             s == pool[m][Len(pool[m])]
  <2>1. m \in Methods /\ pool[m] \in Seq(Sockets) /\ pool[m] # <<>>
    BY <1>8, CallTyped DEF Pop, In, TypeInv
  <2>2. Len(pool[m]) \in DOMAIN pool[m] /\ s \in Sockets
    BY <2>1, EmptySeq, ElementOfSeq, LenProperties
  <2>3. ~ HeldBy(s)
    BY <2>1, <2>2 DEF OwnInv, Apart, InPool
  <2>4. call' = [call EXCEPT ![t].step = "send", ![t].socket = s]
    BY <1>8 DEF Pop
  <2> HIDE DEF s
  <2> QED
    BY <1>7, <1>8, <2>2, <2>3, <2>4 DEF Pop
<1>9. ASSUME NEW t \in Threads, Connect(t) PROVE WireInv'
  <2>1. PICK s \in Sockets :
          /\ socket[s] = "free"
          /\ call' = [call EXCEPT ![t].step = "send", ![t].socket = s]
    BY <1>9 DEF Connect
  <2>2. ~ HeldBy(s)
    BY <2>1 DEF OwnInv, Open
  <2> QED
    BY <1>7, <1>9, <2>1, <2>2 DEF Connect
<1>10. ASSUME NEW t \in Threads, Send(t) PROVE WireInv'
  <2>0. call[t].step = "send" /\ call[t].socket \in Sockets /\ call[t].request \in Requests
    BY <1>10, CallTyped DEF Send, In, TypeInv
  <2>13. PICK s \in Sockets, q \in Requests : call[t].socket = s /\ call[t].request = q
    BY <2>0
  <2> DEFINE r == [call[t] EXCEPT !.step = "len"]
  <2>1. call[t].step = "send" /\ s \in Sockets /\ q \in Requests /\ call[t].socket \in Sockets
    BY <2>0
  <2>2. CallBecomes(t, r)
    BY <1>10, <2>1, GotoTyped DEF Send, Steps
  <2>3. r.step = "len" /\ r.request = q /\ r.socket = s
    BY <2>1, <2>13, CallTyped
  <2>4. call'[t] = r
    BY <1>0, <2>2 DEF CallBecomes
  <2>5. UNCHANGED <<calls, executed, serving, outbound>>
    BY <1>10 DEF Send
  <2>6. Quiet(s) /\ executed[q] = 0
    BY <1>0, <2>1, <2>13 DEF Protocol
  <2>7. inbound' = [inbound EXCEPT ![s] =
                      IF socket[s] = "open" THEN Append(inbound[s], q) ELSE inbound[s]]
    BY <1>0, <1>10, <2>1, <2>13 DEF Send
  <2> HIDE DEF r
  <2>8. Append(<<>>, q) = <<q>>
    BY <2>1, ShortSequences
  <2>9. inbound'[s] = <<q>> \/ inbound'[s] = <<>>
    BY <1>0, <2>1, <2>6, <2>7, <2>8 DEF Quiet
  <2>10. BeforeLen(s, q)'
    BY <1>0, <2>5, <2>6, <2>9 DEF BeforeLen, Quiet
  <2>11. Protocol(t)'
    BY <2>3, <2>4, <2>10 DEF Protocol
  <2>12. \A x \in Sockets \ {s} : SameWire(x)
    BY <1>0, <2>5, <2>7 DEF SameWire
  <2>14. (r.step # "idle" /\ call[t].step # "idle" /\ r.request = call[t].request /\ r.socket = s)
    BY <2>1, <2>3, <2>13
  <2> QED
    BY <2>1, <2>2, <2>5, <2>11, <2>12, <2>13, <2>14, CallGoesOn
<1>11. ASSUME NEW t \in Threads, SendFails(t) \/ RecvFails(t) \/ ResponseUnparsed(t) PROVE WireInv'
  <2>1. PICK s \in Sockets : call[t].socket = s
    BY <1>11 DEF SendFails, RecvFails, ResponseUnparsed, In, TypeInv
  <2> QED
    BY <1>3, <1>11, <2>1 DEF SendFails, RecvFails, ResponseUnparsed
<1>12. ASSUME NEW t \in Threads, Recv(t) PROVE WireInv'
  <2>8. PICK s \in Sockets, q \in Requests : call[t].socket = s /\ call[t].request = q
    BY <1>12, CallTyped DEF Recv, In, TypeInv
  <2> DEFINE out == outbound[s]
             step == IF In(t, "len") THEN "body" ELSE "return"
             r == [call[t] EXCEPT !.step = step, !.answer = Head(out).request]
  <2>1. /\ s \in Sockets /\ q \in Requests /\ call[t].step \in {"len", "body"}
        /\ out \in Seq(Parts) /\ out # <<>>
    BY <1>0, <1>12, <2>8 DEF Recv, In
  <2>2. Head(out) \in Parts
    BY <2>1, HeadTailProperties
  <2>3. call' = [call EXCEPT ![t] = r]
    BY <1>0, <1>12, <2>8 DEF Recv
  <2>4. /\ r \in Calls /\ r.socket = s /\ r.request = q /\ r.step = step
        /\ r.answer = Head(out).request
    <3>1. Head(out).request \in Requests /\ step \in Steps
      BY <2>2 DEF Parts, Steps
    <3>2. call[t] \in [step : Steps, method : Methods, socket : Sockets \cup {None},
                       request : Requests, answer : {0} \cup Requests]
      BY <2>1, CallTyped
    <3> HIDE DEF out, step
    <3> QED
      BY <2>8, <3>1, <3>2 DEF Calls
  <2>5. UNCHANGED <<calls, executed, inbound, serving>>
    BY <1>12 DEF Recv
  <2>6. outbound' = [outbound EXCEPT ![s] = Tail(out)]
    BY <1>0, <1>12, <2>1, <2>8 DEF Recv
  <2>7. step = (IF call[t].step = "len" THEN "body" ELSE "return")
    BY DEF In
  <2>9. out = outbound[s]
    OBVIOUS
  <2> HIDE DEF r, step, out
  <2>10. CallBecomes(t, r) /\ call'[t] = r
    BY <1>0, <2>1, <2>3, <2>4 DEF CallBecomes
  <2>11. \A x \in Sockets \ {s} : SameWire(x)
    BY <1>0, <2>5, <2>6 DEF SameWire
  <2>12. outbound'[s] = Tail(out)
    BY <1>0, <2>1, <2>6
  <2>13. Part(q, "len") \in Parts /\ Part(q, "body") \in Parts
    BY <2>1 DEF Part, Parts
  <2>14. /\ Head(<<Part(q, "len")>>) = Part(q, "len") /\ Tail(<<Part(q, "len")>>) = <<>>
         /\ Head(<<Part(q, "body")>>) = Part(q, "body") /\ Tail(<<Part(q, "body")>>) = <<>>
         /\ Head(<<Part(q, "len"), Part(q, "body")>>) = Part(q, "len")
         /\ Tail(<<Part(q, "len"), Part(q, "body")>>) = <<Part(q, "body")>>
    BY <2>13, ShortSequences
  <2>15. Part(q, "len").request = q /\ Part(q, "body").request = q
    BY DEF Part
  <2>16. Protocol(t)'
    <3>1. CASE call[t].step = "len"
      <4>1. BeforeLen(s, q)
        BY <1>0, <2>8, <3>1 DEF Protocol
      <4>2. /\ executed[q] = 1 /\ inbound[s] = <<>> /\ Head(out) = Part(q, "len")
            /\ \/ serving[s] = ServingStep(q, "body") /\ Tail(out) = <<>>
               \/ serving[s] = NotServing /\ Tail(out) = <<>>
               \/ serving[s] = NotServing /\ Tail(out) = <<Part(q, "body")>>
        BY <2>1, <2>9, <2>14, <4>1 DEF BeforeLen, Quiet
      <4>3. BeforeBody(s, q)'
        BY <2>5, <2>12, <4>2 DEF BeforeBody
      <4>4. r.step = "body" /\ r.answer = q
        BY <2>4, <2>7, <2>15, <3>1, <4>2
      <4> QED
        BY <2>4, <2>10, <4>3, <4>4 DEF Protocol
    <3>2. CASE call[t].step = "body"
      <4>1. BeforeBody(s, q)
        BY <1>0, <2>8, <3>2 DEF Protocol
      <4>2. /\ executed[q] = 1 /\ inbound[s] = <<>> /\ serving[s] = NotServing
            /\ Head(out) = Part(q, "body") /\ Tail(out) = <<>>
        BY <2>1, <2>9, <2>14, <4>1 DEF BeforeBody
      <4>3. Quiet(s)' /\ executed'[q] = 1
        BY <2>5, <2>12, <4>2 DEF Quiet
      <4>4. r.step = "return" /\ r.answer = q
        BY <2>4, <2>7, <2>15, <3>2, <4>2
      <4> QED
        BY <2>4, <2>10, <4>3, <4>4 DEF Protocol
    <3> QED
      BY <2>1, <3>1, <3>2
  <2>17. (r.step # "idle" /\ call[t].step # "idle" /\ r.request = call[t].request /\ r.socket = s)
    BY <2>1, <2>4, <2>7, <2>8
  <2> QED
    BY <2>1, <2>5, <2>8, <2>10, <2>11, <2>16, <2>17, CallGoesOn
<1>13. ASSUME NEW t \in Threads, Return(t) PROVE WireInv'
  <2>0. PICK s \in Sockets : call[t].socket = s
    BY <1>13 DEF Return, In, TypeInv
  <2>1. Fail(t) /\ UNCHANGED <<calls, executed>> /\ Quiet(s)
    BY <1>0, <1>13, <2>0 DEF Return, In, Protocol
  <2>2. CASE UNCHANGED wire
    <3>1. CallBecomes(t, Idle) /\ call'[t] = Idle
      BY <1>0, <2>1, FailTyped DEF CallBecomes
    <3>2. Protocol(t)'
      BY <3>1, IdleProtocol
    <3>3. Quiet(s)' /\ \A x \in Sockets \ {s} : SameWire(x)
      BY <2>1, <2>2 DEF Quiet, SameWire, wire
    <3> QED
      BY <2>0, <2>1, <3>1, <3>2, <3>3, CallGoesOn
  <2>3. CASE Closed(s)
    BY <1>3, <2>0, <2>1, <2>3
  <2> QED
    BY <1>13, <2>0, <2>2, <2>3 DEF Return
<1>14. ASSUME NEW s \in Sockets, Serve(s) PROVE WireInv'
  <2>1. ~ Quiet(s)
    BY <1>14 DEF Serve, OnMessage, DropRequest, SendRpcResponse, Quiet
  <2>2. PICK t \in Threads :
           /\ call[t].socket = s /\ call[t].request \in Requests
           /\ \/ call[t].step = "len" /\ BeforeLen(s, call[t].request)
              \/ call[t].step = "body" /\ BeforeBody(s, call[t].request)
    BY <2>1, AwaitedBy
  <2>4. PICK q \in Requests : call[t].request = q
    BY <2>2
  <2>3. UNCHANGED <<call, calls>> /\ call[t].step \in {"len", "body"}
    BY <1>14, <2>2 DEF Serve, OnMessage, DropRequest, SendRpcResponse
  <2>5. \/ call[t].step = "len" /\ BeforeLen(s, q)
        \/ call[t].step = "body" /\ BeforeBody(s, q)
    BY <2>2, <2>4
  <2>6. ASSUME \A x \in Sockets \ {s} : SameWire(x),
               \A p \in Requests : p # q => executed'[p] = executed[p],
               executed'[q] <= 1, Protocol(t)'
        PROVE  WireInv'
    BY <2>2, <2>3, <2>4, <2>6, ServeWire
  <2>7. Part(q, "len") \in Parts /\ Part(q, "body") \in Parts
    BY <2>3 DEF Part, Parts
  <2>8. CASE OnMessage(s) \/ DropRequest(s)
    <3>1. serving[s] = NotServing /\ inbound[s] # <<>> /\ inbound' = [inbound EXCEPT ![s] = Tail(@)]
          /\ UNCHANGED outbound
      BY <2>8 DEF OnMessage, DropRequest
    <3>2. /\ call[t].step = "len" /\ executed[q] = 0
          /\ inbound[s] = <<q>> /\ outbound[s] = <<>>
      BY <2>5, <3>1 DEF BeforeLen, BeforeBody, Quiet
    <3>3. Head(<<q>>) = q /\ Tail(<<q>>) = <<>>
      BY <2>3, ShortSequences
    <3>4. inbound'[s] = <<>> /\ Head(inbound[s]) = q /\ \A x \in Sockets \ {s} : inbound'[x] = inbound[x]
      BY <1>0, <3>1, <3>2, <3>3
    <3>5. BeforeLen(s, q)' => Protocol(t)'
      BY <2>2, <2>3, <2>4, <3>2 DEF Protocol
    <3>6. CASE OnMessage(s)
      <4>1. /\ serving' = [serving EXCEPT ![s] = [request |-> q, step |-> "len"]]
            /\ executed' = [executed EXCEPT ![q] = @ + 1]
        BY <3>4, <3>6 DEF OnMessage
      <4>2. /\ executed'[q] = 1 /\ \A p \in Requests : p # q => executed'[p] = executed[p]
        BY <1>0, <2>3, <3>2, <4>1
      <4>3. /\ serving'[s] = ServingStep(q, "len")
            /\ \A x \in Sockets \ {s} : serving'[x] = serving[x]
        BY <1>0, <4>1 DEF ServingStep
      <4>4. BeforeLen(s, q)'
        BY <3>1, <3>2, <3>4, <4>2, <4>3 DEF BeforeLen
      <4>5. \A x \in Sockets \ {s} : SameWire(x)
        BY <3>1, <3>4, <4>3 DEF SameWire
      <4> QED
        BY <2>6, <3>5, <4>2, <4>4, <4>5
    <3>7. CASE DropRequest(s)
      <4>1. UNCHANGED <<serving, executed>>
        BY <3>7 DEF DropRequest
      <4>2. BeforeLen(s, q)'
        BY <3>1, <3>2, <3>4, <4>1 DEF BeforeLen, Quiet
      <4>3. \A x \in Sockets \ {s} : SameWire(x)
        BY <3>1, <3>4, <4>1 DEF SameWire
      <4> QED
        BY <2>6, <3>2, <3>5, <4>1, <4>2, <4>3
    <3> QED
      BY <2>8, <3>6, <3>7
  <2>9. CASE SendRpcResponse(s)
    <3>1. serving[s] # NotServing /\ UNCHANGED <<inbound, executed>>
      BY <2>9 DEF SendRpcResponse
    <3>2. /\ outbound' = [outbound EXCEPT ![s] =
                Append(outbound[s], Part(serving[s].request, serving[s].step))]
          /\ serving' = [serving EXCEPT ![s] =
                IF serving[s].step = "len" THEN [serving[s] EXCEPT !.step = "body"] ELSE NotServing]
      BY <1>0, <2>9 DEF SendRpcResponse, Part
    <3>3. \A x \in Sockets \ {s} : SameWire(x)
      BY <1>0, <3>1, <3>2 DEF SameWire
    <3>4. /\ outbound'[s] = Append(outbound[s], Part(serving[s].request, serving[s].step))
          /\ serving'[s] = IF serving[s].step = "len" THEN [serving[s] EXCEPT !.step = "body"]
                           ELSE NotServing
      BY <1>0, <3>2
    <3>5. /\ Append(<<>>, Part(q, "len")) = <<Part(q, "len")>>
          /\ Append(<<>>, Part(q, "body")) = <<Part(q, "body")>>
          /\ Append(<<Part(q, "len")>>, Part(q, "body")) = <<Part(q, "len"), Part(q, "body")>>
      BY <2>7, ShortSequences
    <3>6. executed[q] = 1 /\ inbound[s] = <<>>
      BY <2>5, <3>1 DEF BeforeLen, BeforeBody, Quiet
    <3>7. CASE serving[s] = ServingStep(q, "len") /\ outbound[s] = <<>> /\ call[t].step = "len"
      <4>1. outbound'[s] = <<Part(q, "len")>> /\ serving'[s] = ServingStep(q, "body")
        BY <3>4, <3>5, <3>7 DEF ServingStep
      <4>2. BeforeLen(s, q)'
        BY <3>1, <3>6, <4>1 DEF BeforeLen
      <4> QED
        BY <2>2, <2>3, <2>4, <2>6, <3>1, <3>3, <3>6, <3>7, <4>2 DEF Protocol
    <3>8. CASE /\ serving[s] = ServingStep(q, "body") /\ outbound[s] = <<Part(q, "len")>>
               /\ call[t].step = "len"
      <4>1. outbound'[s] = <<Part(q, "len"), Part(q, "body")>> /\ serving'[s] = NotServing
        BY <3>4, <3>5, <3>8 DEF ServingStep
      <4>2. BeforeLen(s, q)'
        BY <3>1, <3>6, <4>1 DEF BeforeLen
      <4> QED
        BY <2>2, <2>3, <2>4, <2>6, <3>1, <3>3, <3>6, <3>8, <4>2 DEF Protocol
    <3>9. CASE serving[s] = ServingStep(q, "body") /\ outbound[s] = <<>> /\ call[t].step = "body"
      <4>1. outbound'[s] = <<Part(q, "body")>> /\ serving'[s] = NotServing
        BY <3>4, <3>5, <3>9 DEF ServingStep
      <4>2. BeforeBody(s, q)' /\ call[t].answer = q
        BY <1>0, <2>4, <3>1, <3>6, <3>9, <4>1 DEF BeforeBody, Protocol
      <4> QED
        BY <2>2, <2>3, <2>4, <2>6, <3>1, <3>3, <3>6, <3>9, <4>2 DEF Protocol
    <3> QED
      BY <2>5, <3>1, <3>7, <3>8, <3>9 DEF BeforeLen, BeforeBody, Quiet
  <2> QED
    BY <1>14, <2>8, <2>9 DEF Serve
<1>15. ASSUME NEW m \in Methods, AddressExpires(m) PROVE WireInv'
  BY <1>1, <1>15 DEF AddressExpires
<1>16. CASE CallerSessionLost
  BY <1>1, <1>16 DEF CallerSessionLost
\* What has reached the provider may still be executed, once.
<1>17. CASE CallerEnds
  <2>1. /\ \A t \in Threads : call'[t] = Idle
        /\ \A s \in Sockets : Quiet(s)'
        /\ calls' = calls
    BY <1>17 DEF CallerEnds, Quiet
  <2>2. ASSUME NEW s \in Sockets, NEW i \in DOMAIN inbound[s]
        PROVE  /\ inbound[s][i] \in Requests /\ executed[inbound[s][i]] = 0
               /\ inbound[s][i] <= calls
    <3>1. inbound[s] # <<>> /\ ~ Quiet(s)
      BY DEF Quiet
    <3>2. PICK t \in Threads :
             /\ call[t].socket = s /\ call[t].request \in Requests
             /\ \/ call[t].step = "len" /\ BeforeLen(s, call[t].request)
                \/ call[t].step = "body" /\ BeforeBody(s, call[t].request)
      BY <3>1, AwaitedBy
    <3>3. inbound[s] = <<call[t].request>> /\ executed[call[t].request] = 0
      BY <3>1, <3>2 DEF BeforeLen, BeforeBody, Quiet
    <3>4. inbound[s][i] = call[t].request
      BY <3>3
    <3>5. call[t].request <= calls
      BY <3>2 DEF WireInv, Numbered
    <3> QED
      BY <3>2, <3>3, <3>4, <3>5
  <2>3. ASSUME NEW r \in Requests PROVE executed'[r] <= 1 /\ (r > calls => executed'[r] = 0)
    <3> DEFINE Way == \E s \in Sockets : \E i \in DOMAIN inbound[s] : inbound[s][i] = r
    <3>1. executed'[r] = executed[r] \/ (Way /\ executed'[r] = executed[r] + 1)
      BY <1>0, <1>17 DEF CallerEnds
    <3>2. Way => executed[r] = 0 /\ r <= calls
      BY <2>2
    <3> HIDE DEF Way
    <3>3. executed[r] <= 1 /\ (r > calls => executed[r] = 0) /\ r \in Nat
      BY RpcChannelAssumption DEF WireInv, Numbered, Requests
    <3> QED
      BY <1>0, <3>1, <3>2, <3>3
  <2>4. Numbered'
    BY <2>1, <2>3 DEF Numbered, Idle
  <2> QED
    BY <2>1, <2>4, IdleProtocol DEF WireInv, IdleQuiet
<1>18. CASE ServiceEnds
  <2>1. /\ UNCHANGED <<call, calls, executed>>
        /\ \A s \in Sockets : /\ inbound'[s] = <<>> /\ serving'[s] = NotServing
                              /\ outbound'[s] = outbound[s] \/ outbound'[s] = <<>>
    BY <1>18 DEF ServiceEnds
  <2>2. \A s \in Sockets : Quiet(s) => Quiet(s)'
    BY <2>1 DEF Quiet
  <2>3. IdleQuiet'
    BY <2>1, <2>2 DEF WireInv, IdleQuiet, HeldBy
  <2>4. ASSUME NEW t \in Threads PROVE Protocol(t)'
    <3>0. PICK s, r : call[t].socket = s /\ call[t].request = r
      OBVIOUS
    <3>1. call[t].step \in {"send", "len", "body", "return"} => s \in Sockets
      BY <3>0 DEF TypeInv
    <3>2. s \in Sockets /\ BeforeLen(s, r) => BeforeLen(s, r)'
      BY <2>1 DEF BeforeLen, Quiet
    <3>3. s \in Sockets /\ BeforeBody(s, r) => BeforeBody(s, r)'
      BY <2>1 DEF BeforeBody
    <3> QED
      BY <1>0, <2>1, <2>2, <3>0, <3>1, <3>2, <3>3 DEF Protocol
  <2> QED
    BY <2>1, <2>3, <2>4 DEF WireInv, Numbered
<1>19. CASE UNCHANGED <<channel, wire, history>>
  BY <1>1, <1>19
<1> QED
  BY <1>4, <1>5, <1>6, <1>8, <1>9, <1>10, <1>11, <1>12, <1>13, <1>14, <1>15, <1>16, <1>17,
     <1>18, <1>19 DEF Next, Thread, Registry, vars

\* The descriptors are accounted for, on every way a call fails.
THEOREM SocketsAreAccounted == Spec => []SocketsAccounted
<1>1. TypeInv /\ OwnInv /\ WireInv => SocketsAccounted
  <2> SUFFICES ASSUME TypeInv, OwnInv, WireInv, NEW s \in Sockets
               PROVE  /\ Cardinality(Held(s)) + Cardinality(Pooled(s))
                           = IF socket[s] = "free" THEN 0 ELSE 1
                      /\ Held(s) = {} => inbound[s] = <<>> /\ outbound[s] = <<>>
                                         /\ serving[s] = NotServing
    BY DEF SocketsAccounted
  <2>1. Held(s) = {} => Quiet(s)
    BY DEF WireInv, IdleQuiet, HeldBy, Held
  <2> QED
    BY <2>1, InOnePlace DEF Quiet
<1> QED
  BY <1>1, TypeStarts, TypeKept, DiscoveryStarts, DiscoveryKept, OwnStarts, OwnKept,
     WireStarts, WireKept, PTL DEF Spec

\* A call that returns has the answer to its own request, executed once.
THEOREM CallsAnsweredOnce == Spec => []AnsweredOnce
<1>1. WireInv => AnsweredOnce
  BY DEF WireInv, Numbered, Protocol, AnsweredOnce, In
<1> QED
  BY <1>1, TypeStarts, TypeKept, DiscoveryStarts, DiscoveryKept, OwnStarts, OwnKept,
     WireStarts, WireKept, PTL DEF Spec
=============================================================================
