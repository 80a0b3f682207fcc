----------------------------- MODULE RpcChannel -----------------------------
(***************************************************************************)
(* A remote call (mprpc/src/mprpcchannel.cc and rpcprovider.cc): threads   *)
(* of one process call the methods of a service.  A call looks up the      *)
(* address, which is kept for a second, takes a socket from the pool of    *)
(* its method or connects, writes the request, reads the length and then   *)
(* the body of the response, and puts the socket back.  A call that fails  *)
(* closes its socket and is not repeated.                                  *)
(***************************************************************************)
EXTENDS Discovery, Sequences, FiniteSets

CONSTANTS
  Threads,    \* the calling threads
  Sockets,    \* file descriptors
  PoolLimit,  \* kMaxPoolPerKey
  None,
  MaxCalls    \* bound: calls

ASSUME RpcChannelAssumption ==
  /\ None \notin Sockets \cup Methods
  /\ PoolLimit \in Nat /\ MaxCalls \in Nat

VARIABLES
  call,       \* the call each thread is in
  calls,      \* requests issued, which are numbered
  pool,       \* s_conn_pool: the idle sockets of each method
  cached,     \* methods whose address is in s_addr_cache and fresh
  zkLost,     \* the session of the callers' s_zk has expired
  socket,     \* the state of each descriptor of the calling process
  inbound,    \* requests on their way to the provider
  serving,    \* the request a connection of the provider is in
  outbound,   \* parts of responses on their way back
  executed,   \* how often each request was executed
  dropped     \* requests the provider threw away

registry == <<node, provider, todo, expired, missed>>
channel == <<call, calls, pool, cached, zkLost, socket>>
wire == <<inbound, serving, outbound>>
history == <<executed, dropped>>
vars == <<discovery, channel, wire, history>>

Requests == 1..MaxCalls
Steps == {"resolve", "connect", "send", "len", "body", "return"}

\* answer: the request whose response was read.
Idle == [step |-> "idle", method |-> None, socket |-> None, request |-> 0,
         answer |-> 0]

\* The descriptor is free; its connection lives; the provider has closed it.
SocketState == {"free", "open", "broken"}

TypeOK ==
  /\ DiscoveryTyped
  /\ call \in [Threads -> {Idle} \cup
                [step : Steps, method : Methods, socket : Sockets \cup {None},
                 request : Requests, answer : {0} \cup Requests]]
  /\ calls \in 0..MaxCalls
  /\ \A m \in Methods : /\ Len(pool[m]) <= PoolLimit
                        /\ \A i \in DOMAIN pool[m] : pool[m][i] \in Sockets
  /\ cached \subseteq Methods
  /\ zkLost \in BOOLEAN
  /\ socket \in [Sockets -> SocketState]
  /\ \A s \in Sockets : \A i \in DOMAIN inbound[s] : inbound[s][i] \in Requests
  /\ serving \in [Sockets -> [request : {0} \cup Requests,
                              step : {"idle", "len", "body"}]]
  /\ \A s \in Sockets : \A i \in DOMAIN outbound[s] :
        outbound[s][i] \in [request : Requests, part : {"len", "body"}]
  /\ executed \in [Requests -> Nat]
  /\ dropped \subseteq Requests

NotServing == [request |-> 0, step |-> "idle"]

Init ==
  /\ DiscoveryInit
  /\ call = [t \in Threads |-> Idle]
  /\ calls = 0
  /\ pool = [m \in Methods |-> <<>>]
  /\ cached = {}
  /\ zkLost = FALSE
  /\ socket = [s \in Sockets |-> "free"]
  /\ inbound = [s \in Sockets |-> <<>>]
  /\ serving = [s \in Sockets |-> NotServing]
  /\ outbound = [s \in Sockets |-> <<>>]
  /\ executed = [r \in Requests |-> 0]
  /\ dropped = {}

-----------------------------------------------------------------------------
(* The calling threads.                                                    *)

In(t, step) == call[t].step = step
Goto(t, step) == call' = [call EXCEPT ![t].step = step]
Fail(t) == call' = [call EXCEPT ![t] = Idle]

\* The descriptor and what is still on the wire.
Closed(s) ==
  /\ socket' = [socket EXCEPT ![s] = "free"]
  /\ inbound' = [inbound EXCEPT ![s] = <<>>]
  /\ outbound' = [outbound EXCEPT ![s] = <<>>]
  /\ serving' = [serving EXCEPT ![s] = NotServing]

\* CallMethod: the frame is built.
CallMethod(t, m) ==
  /\ call[t] = Idle
  /\ calls < MaxCalls
  /\ calls' = calls + 1
  /\ call' = [call EXCEPT ![t] =
                [step |-> "resolve", method |-> m, socket |-> None,
                 request |-> calls + 1, answer |-> 0]]
  /\ UNCHANGED <<discovery, pool, cached, zkLost, socket, wire, history>>

\* resolveEndpoint: the address is in the cache or in the node.
Resolve(t) ==
  LET m == call[t].method IN
  /\ In(t, "resolve")
  /\ m \in cached \/ (node[m] # 0 /\ ~zkLost)
  /\ cached' = cached \cup {m}
  /\ Goto(t, "connect")
  /\ UNCHANGED <<discovery, calls, pool, zkLost, socket, wire, history>>

NotFound(t) ==
  LET m == call[t].method IN
  /\ In(t, "resolve")
  /\ m \notin cached /\ (node[m] = 0 \/ zkLost)
  /\ Fail(t)
  /\ UNCHANGED <<discovery, calls, pool, cached, zkLost, socket, wire, history>>

\* getConnection: the socket that was put back last.
Pop(t) ==
  LET vec == pool[call[t].method] IN
  /\ In(t, "connect")
  /\ vec # <<>>
  /\ pool' = [pool EXCEPT ![call[t].method] = SubSeq(vec, 1, Len(vec) - 1)]
  /\ call' = [call EXCEPT ![t].step = "send", ![t].socket = vec[Len(vec)]]
  /\ UNCHANGED <<discovery, calls, cached, zkLost, socket, wire, history>>

\* getConnection: a new one, on any free descriptor.
Connect(t) ==
  /\ In(t, "connect")
  /\ pool[call[t].method] = <<>>
  /\ Listening
  /\ \E s \in Sockets :
        /\ socket[s] = "free"
        /\ socket' = [socket EXCEPT ![s] = "open"]
        /\ call' = [call EXCEPT ![t].step = "send", ![t].socket = s]
  /\ UNCHANGED <<discovery, calls, pool, cached, zkLost, wire, history>>

\* socket() or connect() fails: no descriptor is free, or nobody listens.
Refused(t) ==
  /\ In(t, "connect")
  /\ pool[call[t].method] = <<>>
  /\ ~Listening \/ \A s \in Sockets : socket[s] # "free"
  /\ Fail(t)
  /\ UNCHANGED <<discovery, calls, pool, cached, zkLost, socket, wire, history>>

\* sendAll: a socket the provider has closed may still take the request.
Send(t) ==
  LET s == call[t].socket IN
  /\ In(t, "send")
  /\ inbound' = [inbound EXCEPT ![s] =
                   IF socket[s] = "open" THEN Append(@, call[t].request) ELSE @]
  /\ Goto(t, "len")
  /\ UNCHANGED <<discovery, calls, pool, cached, zkLost, socket, serving,
                 outbound, history>>

\* The error return that forgets the descriptor.
SendFailsOpen(t) ==
  /\ In(t, "send")
  /\ socket[call[t].socket] = "broken"
  /\ Fail(t)
  /\ UNCHANGED <<discovery, calls, pool, cached, zkLost, socket, wire, history>>

SendFails(t) ==
  /\ In(t, "send")
  /\ socket[call[t].socket] = "broken"
  /\ Closed(call[t].socket)
  /\ Fail(t)
  /\ UNCHANGED <<discovery, calls, pool, cached, zkLost, history>>

\* recvResponse: the length, then the body.
Recv(t) ==
  LET s == call[t].socket IN
  /\ In(t, "len") \/ In(t, "body")
  /\ outbound[s] # <<>>
  /\ outbound' = [outbound EXCEPT ![s] = Tail(@)]
  /\ call' = [call EXCEPT ![t].step = IF In(t, "len") THEN "body" ELSE "return",
                          ![t].answer = Head(outbound[s]).request]
  /\ UNCHANGED <<discovery, calls, pool, cached, zkLost, socket, inbound, serving,
                 history>>

\* recvResponse that takes recv() = 0 for nothing to read yet, and tries again.
RecvSpins(t) ==
  /\ In(t, "len") \/ In(t, "body")
  /\ outbound[call[t].socket] = <<>> /\ socket[call[t].socket] = "broken"
  /\ UNCHANGED vars

\* A closed connection that is tried again, with the same request.
RecvRepeats(t) ==
  LET s == call[t].socket IN
  /\ In(t, "len") \/ In(t, "body")
  /\ outbound[s] = <<>> /\ socket[s] = "broken"
  /\ Closed(s)
  /\ call' = [call EXCEPT ![t].step = "connect", ![t].socket = None]
  /\ UNCHANGED <<discovery, calls, pool, cached, zkLost, history>>

\* recv sees the other side closed, before the length or within the response.
RecvFails(t) ==
  LET s == call[t].socket IN
  /\ In(t, "len") \/ In(t, "body")
  /\ outbound[s] = <<>> /\ socket[s] = "broken"
  /\ Closed(s)
  /\ Fail(t)
  /\ UNCHANGED <<discovery, calls, pool, cached, zkLost, history>>

\* A response that has come whole and does not parse (a string that is not UTF-8).
ResponseUnparsed(t) ==
  /\ In(t, "body")
  /\ outbound[call[t].socket] # <<>>
  /\ Failure
  /\ Closed(call[t].socket)
  /\ Fail(t)
  /\ UNCHANGED <<registry, calls, pool, cached, zkLost, history>>

\* returnConnection without the limit.
ReturnAlways(t) ==
  /\ In(t, "return")
  /\ pool' = [pool EXCEPT ![call[t].method] = Append(@, call[t].socket)]
  /\ Fail(t)
  /\ UNCHANGED <<discovery, calls, cached, zkLost, socket, wire, history>>

\* returnConnection keeps the socket, or closes it when the pool is full.
Return(t) ==
  LET m == call[t].method
      s == call[t].socket
  IN
  /\ In(t, "return")
  /\ IF Len(pool[m]) < PoolLimit
     THEN /\ pool' = [pool EXCEPT ![m] = Append(@, s)]
          /\ UNCHANGED <<socket, wire>>
     ELSE Closed(s) /\ UNCHANGED pool
  /\ Fail(t)
  /\ UNCHANGED <<discovery, calls, cached, zkLost, history>>

\* A second has passed since the address was stored.
AddressExpires(m) ==
  /\ m \in cached
  /\ cached' = cached \ {m}
  /\ UNCHANGED <<discovery, call, calls, pool, zkLost, socket, wire, history>>

\* s_zk is started once: a session that has expired stays so.
CallerSessionLost ==
  /\ ~zkLost
  /\ Failure
  /\ zkLost' = TRUE
  /\ UNCHANGED <<registry, call, calls, pool, cached, socket, wire, history>>

\* The calling process ends and starts anew; what the provider has received it
\* may still execute, and answers nobody.
CallerEnds ==
  /\ Failure
  /\ call' = [t \in Threads |-> Idle]
  /\ pool' = [m \in Methods |-> <<>>]
  /\ cached' = {}
  /\ zkLost' = FALSE
  /\ socket' = [s \in Sockets |-> "free"]
  /\ inbound' = [s \in Sockets |-> <<>>]
  /\ outbound' = [s \in Sockets |-> <<>>]
  /\ serving' = [s \in Sockets |-> NotServing]
  /\ \E late \in SUBSET {r \in Requests : \E s \in Sockets : \E i \in DOMAIN inbound[s] :
                                             inbound[s][i] = r} :
        executed' = [r \in Requests |-> executed[r] + IF r \in late THEN 1 ELSE 0]
  /\ UNCHANGED <<registry, calls, dropped>>

-----------------------------------------------------------------------------
(* The provider: a connection is served by one IO thread.                  *)

\* OnMessage: a whole frame is there, and its method is executed.
OnMessage(s) ==
  /\ serving[s] = NotServing
  /\ inbound[s] # <<>>
  /\ inbound' = [inbound EXCEPT ![s] = Tail(@)]
  /\ serving' = [serving EXCEPT ![s] = [request |-> Head(inbound[s]), step |-> "len"]]
  /\ executed' = [executed EXCEPT ![Head(inbound[s])] = @ + 1]
  /\ UNCHANGED <<discovery, channel, outbound, dropped>>

\* OnMessage: a request with an unknown method, or that does not parse (a string
\* that is not UTF-8), is thrown away without an answer.
DropRequest(s) ==
  /\ serving[s] = NotServing
  /\ inbound[s] # <<>>
  /\ Failure
  /\ inbound' = [inbound EXCEPT ![s] = Tail(@)]
  /\ dropped' = dropped \cup {Head(inbound[s])}
  /\ UNCHANGED <<registry, channel, serving, outbound, executed>>

\* SendRpcResponse: the length, then the response.
SendRpcResponse(s) ==
  /\ serving[s] # NotServing
  /\ outbound' = [outbound EXCEPT ![s] =
                    Append(@, [request |-> serving[s].request, part |-> serving[s].step])]
  /\ serving' = [serving EXCEPT ![s] =
                   IF @.step = "len" THEN [@ EXCEPT !.step = "body"] ELSE NotServing]
  /\ UNCHANGED <<discovery, channel, inbound, history>>

\* The provider ends: its connections are closed, and what it wrote last may be
\* lost.
ServiceEnds ==
  /\ ProviderEnds
  /\ socket' = [s \in Sockets |-> IF socket[s] = "open" THEN "broken" ELSE socket[s]]
  /\ inbound' = [s \in Sockets |-> <<>>]
  /\ serving' = [s \in Sockets |-> NotServing]
  /\ \E cut \in SUBSET {s \in Sockets : outbound[s] # <<>>} :
        outbound' = [s \in Sockets |-> IF s \in cut THEN <<>> ELSE outbound[s]]
  /\ UNCHANGED <<call, calls, pool, cached, zkLost, history>>

-----------------------------------------------------------------------------
Thread(t) ==
  \/ Resolve(t) \/ NotFound(t)
  \/ Pop(t) \/ Connect(t) \/ Refused(t)
  \/ Send(t) \/ SendFails(t)
  \/ Recv(t) \/ RecvFails(t) \/ ResponseUnparsed(t)
  \/ Return(t)

Serve(s) == OnMessage(s) \/ DropRequest(s) \/ SendRpcResponse(s)

Registry ==
  /\ \/ ProviderStarts \/ Listen \/ SessionLost
     \/ \E m \in Methods : Register(m)
     \/ \E i \in Sessions : OldSessionExpires(i)
  /\ UNCHANGED <<channel, wire, history>>

Next ==
  \/ \E t \in Threads : Thread(t) \/ \E m \in Methods : CallMethod(t, m)
  \/ \E s \in Sockets : Serve(s)
  \/ \E m \in Methods : AddressExpires(m)
  \/ Registry
  \/ ServiceEnds
  \/ CallerSessionLost
  \/ CallerEnds

Spec == Init /\ [][Next]_vars

\* The threads of both processes go on.
Fairness ==
  /\ \A t \in Threads : WF_vars(Thread(t))
  /\ \A s \in Sockets : WF_vars(Serve(s))

LiveSpec == Spec /\ Fairness

-----------------------------------------------------------------------------
\* A call that succeeds has read the answer to its own request, although threads
\* share the sockets of a method, and its request was executed; no request is
\* executed twice, whoever fails.
AnsweredOnce ==
  /\ \A r \in Requests : executed[r] <= 1
  /\ \A t \in Threads :
        In(t, "return") => /\ call[t].answer = call[t].request
                           /\ executed[call[t].request] = 1

Held(s) == {t \in Threads : call[t].socket = s}
Pooled(s) == {p \in Methods \X (1..PoolLimit) :
                p[2] \in DOMAIN pool[p[1]] /\ pool[p[1]][p[2]] = s}

\* Every descriptor that is open is in one place: with the one thread that uses
\* it, or once in one pool; none is leaked or closed under a user, on any of the
\* ways a call fails.  An idle socket has nothing on the wire.
SocketsAccounted ==
  \A s \in Sockets :
     /\ Cardinality(Held(s)) + Cardinality(Pooled(s))
          = IF socket[s] = "free" THEN 0 ELSE 1
     /\ Held(s) = {} => inbound[s] = <<>> /\ outbound[s] = <<>>
                        /\ serving[s] = NotServing

\* Every call ends, whenever the service ends or is lost, except one whose request
\* the service threw away (recv has no timeout, mprpcchannel.cc:249).
CallsEnd ==
  \A t \in Threads :
     (call[t] # Idle) ~> (call[t] = Idle \/ call[t].request \in dropped)
=============================================================================
