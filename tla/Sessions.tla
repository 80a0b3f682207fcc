------------------------------ MODULE Sessions ------------------------------
(***************************************************************************)
(* The gateway and the user service together: who is logged in, as the     *)
(* gateway's sessions say and as the column user.state says.  The IO       *)
(* threads of the gateway call Register, Login and Logout over the         *)
(* channel of mprpc/src/mprpcchannel.cc, which keeps the sockets of        *)
(* earlier calls in a pool per method and finds out that one is dead only  *)
(* by losing a call on it; a worker thread of the service executes the     *)
(* call and answers it.                                                    *)
(*                                                                         *)
(* Left to the modules of the components: pushed messages (Gateway), and   *)
(* the database connection that registrations and friend commands share    *)
(* and cached ids that expire (UserService).                               *)
(***************************************************************************)
EXTENDS UserService

CONSTANTS
  Conns, Loops, LoopOf, MaxCommands, MaxRestarts  \* Gateway

ASSUME SessionsAssumption ==
  /\ LoopOf \in [Conns -> Loops]
  /\ IsFiniteSet(Loops)
  /\ None \notin Conns \cup Loops
  /\ MaxCommands \in Nat
  /\ MaxRestarts \in Nat

VARIABLES
  conn, sess, uid2conn, handler, functors, channel, observer, out, published,
  commands, restarts, garbled,
  caller,    \* the IO thread that waits for the call of a worker
  lost,      \* IO threads whose call has failed and who have not noticed yet
  sockets,   \* idle sockets the channel keeps for each method
  replaced   \* history: users whose session another login has overwritten

G == INSTANCE Gateway WITH Msgs <- {}, To <- [m \in {} |-> None]

gatewayVars == <<conn, sess, uid2conn, handler, functors, channel, observer,
                 out, published, commands, restarts, garbled>>
serviceVars == vars
channelVars == <<caller, lost, sockets>>
sessionsVars == <<gatewayVars, serviceVars, channelVars, replaced>>

Methods == {"Register", "Login", "Logout"}

\* The handlers that are blocked in a call of the user service.
Method == [register |-> "Register", login |-> "Login", logout |-> "Logout",
           close |-> "Logout"]

SessionsTypeOK ==
  /\ G!TypeOK
  /\ TypeOK
  /\ caller \in [Workers -> Loops \cup {None}]
  /\ lost \subseteq Loops
  /\ sockets \in [Methods -> [live : 0..Cardinality(Loops),
                              dead : 0..Cardinality(Loops)]]
  /\ replaced \subseteq Users

SessionsInit ==
  /\ G!Init /\ observer = G!Dead
  /\ Init
  /\ caller = [w \in Workers |-> None]
  /\ lost = {}
  /\ sockets = [m \in Methods |-> [live |-> 0, dead |-> 0]]
  /\ replaced = {}

-----------------------------------------------------------------------------
(* The channel.                                                            *)

\* Thread l is in CallMethod and has no socket yet.
Calling(l) ==
  /\ handler[l].step \in DOMAIN Method
  /\ l \notin lost
  /\ \A w \in Workers : caller[w] # l

Pool(l) == sockets[Method[handler[l].step]]
MethodOf(l) == Method[handler[l].step]

\* getConnection that leaves the socket it takes in the pool.
RequestUnpopped(w, l) ==
  /\ Calling(l)
  /\ Pool(l).dead = 0
  /\ CASE handler[l].step = "register" -> CallRegister(w, handler[l].arg)
       [] handler[l].step = "login" -> CallLogin(w, handler[l].arg, TRUE)
       [] OTHER -> CallLogout(w, handler[l].arg)
  /\ caller' = [caller EXCEPT ![w] = l]
  /\ UNCHANGED <<gatewayVars, lost, sockets, replaced>>

\* getConnection: a pooled socket, or a new one when there is none: so a dead
\* socket, put in the pool before the service ended, never lies with live ones.
\* The service takes the request once the worker of that socket is free.
Request(w, l) ==
  /\ Calling(l)
  /\ Pool(l).dead = 0
  /\ CASE handler[l].step = "register" ->
            /\ \A v \in Workers : worker[v].step \notin DbSteps
            /\ CallRegister(w, handler[l].arg)
       [] handler[l].step = "login" -> CallLogin(w, handler[l].arg, TRUE)
       [] OTHER -> CallLogout(w, handler[l].arg)
  /\ caller' = [caller EXCEPT ![w] = l]
  /\ sockets' = [sockets EXCEPT ![MethodOf(l)].live =
                   IF @ > 0 THEN @ - 1 ELSE 0]
  /\ UNCHANGED <<gatewayVars, lost, replaced>>

\* A dead socket takes the request and gives no response: it is closed, and
\* the call fails.
DeadSocket(l) ==
  /\ Calling(l)
  /\ Pool(l).dead > 0
  /\ sockets' = [sockets EXCEPT ![MethodOf(l)].dead = @ - 1]
  /\ lost' = lost \cup {l}
  /\ UNCHANGED <<gatewayVars, serviceVars, caller, replaced>>

\* resolveEndpoint or connect fails: the service does not run.
NoConnection(l) ==
  /\ Calling(l)
  /\ Pool(l).dead = 0
  /\ ~up
  /\ lost' = lost \cup {l}
  /\ UNCHANGED <<gatewayVars, serviceVars, caller, sockets, replaced>>

\* The handler of thread l goes on with the answer, or without one.
Resume(l, ok, u) ==
  CASE handler[l].step = "register" -> G!REGISTERReturns(l, ok, u)
    [] handler[l].step = "login" -> G!LOGINReturns(l, ok, u)
    [] handler[l].step = "logout" -> G!LOGOUTReturns(l, ok)
    [] handler[l].step = "close" -> G!CloseReturns(l)

\* A LOGIN or REGISTER puts its user in the place of the session's.
Overwritten == {u \in Users : \E c \in Conns : sess[c] = u /\ sess'[c] \notin {u, None}}

\* The answer of worker w, which returns the socket to the pool.
Answered(w) ==
  /\ Reply(w)
  /\ LET l == caller[w]
     IN  IF l = None
         THEN UNCHANGED <<gatewayVars, sockets, replaced>>
         ELSE /\ Resume(l, worker[w].step = "accept", worker[w].id)
              /\ sockets' = [sockets EXCEPT ![MethodOf(l)].live = @ + 1]
              /\ replaced' = replaced \cup Overwritten
  /\ caller' = [caller EXCEPT ![w] = None]
  /\ UNCHANGED lost

Failed(l) ==
  /\ l \in lost
  /\ Resume(l, FALSE, None)
  /\ lost' = lost \ {l}
  /\ UNCHANGED <<serviceVars, caller, sockets, replaced>>

-----------------------------------------------------------------------------
(* The user service.                                                       *)

Serve(w) ==
  /\ Execute(w) \/ Return(w)
  /\ UNCHANGED <<gatewayVars, channelVars, replaced>>

\* recvResponse that does not see the other side close.
ServiceEndsUnnoticed ==
  /\ Crash
  /\ UNCHANGED <<gatewayVars, channelVars, replaced>>

\* The process ends: the calls in it are lost, and those whose request it had
\* not taken yet may be; idle sockets are dead.
ServiceEnds ==
  /\ Crash
  /\ \E untaken \in SUBSET {l \in Loops : Calling(l)} :
        lost' = lost \cup untaken
                  \cup {l \in Loops : \E w \in Workers : caller[w] = l}
  /\ caller' = [w \in Workers |-> None]
  /\ sockets' = [m \in Methods |->
                   [live |-> 0, dead |-> sockets[m].dead + sockets[m].live]]
  /\ UNCHANGED <<gatewayVars, replaced>>

ServiceStarts ==
  /\ Start
  /\ UNCHANGED <<gatewayVars, channelVars, replaced>>

-----------------------------------------------------------------------------
(* Clients and the gateway.                                                *)

\* im-client/src/commandHandler.cc sends REGISTER and LOGIN in any state.
Client(c) ==
  /\ \/ G!ConnUp(c)
     \/ G!ConnDown(c)
     \/ \E u \in Users : G!RecvREGISTER(c, u) \/ G!RecvLOGIN(c, u)
     \/ G!RecvLOGOUT(c)
  /\ UNCHANGED <<serviceVars, channelVars, replaced>>

Gateway ==
  /\ \/ \E c \in Conns : G!ConnDestroyed(c)
     \/ \E l \in Loops : G!BINDReturns(l)
  /\ UNCHANGED <<serviceVars, channelVars, replaced>>

\* The service goes on with the calls of the gateway that ended.
GatewayRestarts ==
  /\ G!Restart /\ observer' = G!Dead
  /\ caller' = [w \in Workers |-> None]
  /\ lost' = {}
  /\ sockets' = [m \in Methods |-> [live |-> 0, dead |-> 0]]
  /\ UNCHANGED <<serviceVars, replaced>>

-----------------------------------------------------------------------------
Answer(l) ==
  \/ \E w \in Workers : Request(w, l)
  \/ DeadSocket(l) \/ NoConnection(l) \/ Failed(l)

SessionsNext ==
  \/ \E c \in Conns : Client(c)
  \/ \E l \in Loops : Answer(l)
  \/ \E w \in Workers : Answered(w) \/ Serve(w)
  \/ Gateway \/ GatewayRestarts
  \/ ServiceEnds \/ ServiceStarts

SessionsSpec == SessionsInit /\ [][SessionsNext]_sessionsVars

\* The threads of both processes go on, and the service is started again.
Fairness ==
  /\ \A l \in Loops : SF_sessionsVars(Answer(l))
  /\ \A w \in Workers : WF_sessionsVars(Answered(w) \/ Serve(w))
  /\ WF_sessionsVars(Gateway)
  /\ WF_sessionsVars(ServiceStarts)

LiveSpec == SessionsSpec /\ Fairness

-----------------------------------------------------------------------------
LoggedIn(c, u) == conn[c] = "up" /\ sess[c] = u

Entering(u) ==
  \E w \in Workers : /\ caller[w] # None
                     /\ worker[w].op = "login" /\ worker[w].user = u

Leaving(u) ==
  \E l \in Loops : handler[l].step \in {"logout", "close"} /\ handler[l].arg = u

\* As long as neither process has ended, statements succeed and the pool is large,
\* a user whose state is online has a session, or one that is about to begin or to
\* end: nobody is refused as "already online" who is not ("when the connection
\* closes ... the user's state is set to offline", gatewayServer.cc:192).  The
\* exception is a user whose session a second LOGIN or REGISTER on the connection
\* has overwritten (gatewayServer.cc:405): nobody logs that user out any more.
NoLockout ==
  \A u \in Users :
     (/\ Ample /\ crashes = 0 /\ restarts = 0
      /\ u \notin replaced /\ state[u] = "online")
        => (\E c \in Conns : LoggedIn(c, u)) \/ Entering(u) \/ Leaving(u)

\* An entry of the table that names a live connection names the session of its
\* user, or of the user who has overwritten it there: no other message is pushed
\* into the session of somebody else.
EntriesNameSessions ==
  \A u \in Users, c \in Conns :
     (uid2conn[u] = c /\ conn[c] = "up" /\ u \notin replaced) => sess[c] = u

\* No IO thread stays blocked in a call, whatever the worker threads wait for
\* and whenever the service ends and starts.
NoThreadStuck == \A l \in Loops : handler[l] # G!Idle ~> handler[l] = G!Idle
=============================================================================
