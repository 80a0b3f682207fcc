----------------------------- MODULE Discovery -----------------------------
(***************************************************************************)
(* How a service is found (mprpc/src/rpcprovider.cc, zookeeperutil.cc):    *)
(* before it listens, RpcProvider::Run creates an ephemeral node for each  *)
(* method unless the node is there already.  ZooKeeper keeps the nodes of  *)
(* a process that ended until its session times out (30 s), and takes away *)
(* those of a process it has not heard of for as long; nothing creates     *)
(* them again.                                                             *)
(***************************************************************************)
EXTENDS Naturals

CONSTANTS
  Methods,     \* the methods of the service
  MaxStarts,   \* bound: starts of the providing process, each a new session
  MaxFailures  \* bound: failures, of this module and of those that extend it

ASSUME DiscoveryAssumption == MaxStarts \in Nat /\ MaxFailures \in Nat

VARIABLES
  node,      \* the session that owns the node of a method, 0: no node
  provider,  \* what the providing process does, and its session
  todo,      \* the methods it has not registered yet
  expired,   \* sessions that ZooKeeper has ended
  failures,
  missed     \* history: methods the running provider has no node of its own for

discovery == <<node, provider, todo, expired, failures, missed>>

Sessions == 1..MaxStarts

DiscoveryTyped ==
  /\ node \in [Methods -> {0} \cup Sessions]
  /\ provider \in [step : {"down", "register", "listen"}, session : 0..MaxStarts]
  /\ todo \subseteq Methods
  /\ expired \subseteq Sessions
  /\ failures \in 0..MaxFailures
  /\ missed \subseteq Methods

DiscoveryInit ==
  /\ node = [m \in Methods |-> 0]
  /\ provider = [step |-> "down", session |-> 0]
  /\ todo = {}
  /\ expired = {}
  /\ failures = 0
  /\ missed = {}

Failure == failures < MaxFailures /\ failures' = failures + 1

Listening == provider.step = "listen"

\* ZkClient::Start: a session of its own.
ProviderStarts ==
  /\ provider.step = "down"
  /\ provider.session < MaxStarts
  /\ provider' = [step |-> "register", session |-> provider.session + 1]
  /\ todo' = Methods
  /\ missed' = {}
  /\ UNCHANGED <<node, expired, failures>>

\* Create: a node that exists is left alone, whoever owns it; an error is logged.
Register(m) ==
  /\ provider.step = "register"
  /\ m \in todo
  /\ todo' = todo \ {m}
  /\ \/ /\ node[m] = 0 /\ provider.session \notin expired
        /\ node' = [node EXCEPT ![m] = provider.session]
        /\ UNCHANGED <<failures, missed>>
     \/ /\ node[m] # 0 \/ provider.session \in expired
        /\ missed' = missed \cup {m}
        /\ UNCHANGED <<node, failures>>
     \/ /\ Failure
        /\ missed' = missed \cup {m}
        /\ UNCHANGED node
  /\ UNCHANGED <<provider, expired>>

\* server.start() before the methods are registered.
ListenFirst ==
  /\ provider.step = "register"
  /\ provider' = [provider EXCEPT !.step = "listen"]
  /\ UNCHANGED <<node, todo, expired, failures, missed>>

Listen ==
  /\ provider.step = "register"
  /\ todo = {}
  /\ provider' = [provider EXCEPT !.step = "listen"]
  /\ UNCHANGED <<node, todo, expired, failures, missed>>

\* The process ends without closing its session: loop() never returns.  A second
\* ZOO_CONNECTED event, for the promise of Start that is gone, can end it too.
ProviderEnds ==
  /\ provider.step # "down"
  /\ provider' = [provider EXCEPT !.step = "down"]
  /\ todo' = {}
  /\ missed' = {}
  /\ UNCHANGED <<node, expired, failures>>

\* ZooKeeper ends session i and removes its nodes.
Remove(i) ==
  /\ expired' = expired \cup {i}
  /\ node' = [m \in Methods |-> IF node[m] = i THEN 0 ELSE node[m]]

\* The session of a process that has ended.
OldSessionExpires(i) ==
  /\ i \notin expired
  /\ i < provider.session \/ (i = provider.session /\ provider.step = "down")
  /\ Remove(i)
  /\ UNCHANGED <<provider, todo, failures, missed>>

\* The session of the running process, which the watcher does not notice.
SessionLost ==
  /\ provider.step # "down"
  /\ provider.session \notin expired
  /\ Failure
  /\ Remove(provider.session)
  /\ missed' = Methods
  /\ UNCHANGED <<provider, todo>>

-----------------------------------------------------------------------------
\* A service that listens is found under each of its methods, unless at its start
\* the node of an earlier session was still there, the creation failed, or its
\* session was lost: from then on nothing registers it again.
ListeningIsFound ==
  Listening => \A m \in Methods : node[m] # 0 \/ m \in missed
=============================================================================
