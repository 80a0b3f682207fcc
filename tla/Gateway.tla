------------------------------ MODULE Gateway ------------------------------
(***************************************************************************)
(* The IM gateway (im-gateway/src/gatewayServer.cc): client connections,   *)
(* each served by one IO thread for its whole life, the session kept in    *)
(* the context of the connection, the table uid2conn_ the threads share    *)
(* under a lock, and the thread that observes the Redis channel of the     *)
(* gateway and hands every message to the IO thread of its recipient.      *)
(*                                                                         *)
(* A command handler runs on the IO thread and blocks it in a synchronous  *)
(* RPC: the handler is one action up to the call and one after the answer, *)
(* and nothing else happens on that thread in between.  What a service     *)
(* answers is left open here: Sessions composes the gateway with the user  *)
(* service.                                                                *)
(***************************************************************************)
EXTENDS Naturals, Sequences

CONSTANTS
  Users,        \* user ids
  Conns,        \* connections; one is accepted and closed at most once
  Loops,        \* IO threads (server_.setThreadNum(4))
  LoopOf,       \* the IO thread of each connection
  Msgs,         \* messages published to the channel of this gateway
  To,           \* the recipient of each message
  None,         \* no user, no connection, no message
  MaxCommands,  \* bound: command lines the clients send
  MaxRestarts   \* bound: restarts of the gateway process

ASSUME GatewayAssumption ==
  /\ LoopOf \in [Conns -> Loops]
  /\ To \in [Msgs -> Users]
  /\ None \notin Users \cup Conns \cup Msgs
  /\ MaxCommands \in Nat
  /\ MaxRestarts \in Nat

VARIABLES
  conn,       \* state of each connection
  sess,       \* uid of the session of a connection, None: not authenticated
  uid2conn,   \* the shared table, None: no entry
  handler,    \* what each IO thread is blocked in
  functors,   \* runInLoop functors waiting on each IO thread
  channel,    \* messages in the Redis subscription
  garbled,    \* history: messages whose payload the observer could not parse
  observer,   \* the thread of the subscription
  out,        \* "+OK uid=" lines and pushed "MSG" lines, as written
  published,  \* history: messages in the order they entered the channel
  commands,   \* command lines received
  restarts

vars == <<conn, sess, uid2conn, handler, functors, channel, observer, out,
          published, commands, restarts, garbled>>

(***************************************************************************)
(* A connection is "up" while TcpConnection::connected(), "down" from the  *)
(* close callback on, and "gone" when its last shared_ptr is released and  *)
(* a weak_ptr to it no longer locks.                                       *)
(***************************************************************************)
ConnState == {"fresh", "up", "down", "gone"}

Idle == [conn |-> None, step |-> "idle", arg |-> None]

UserStep ==
  {"register", "login", "bind", "pull", "logout", "forward", "close"}

\* The RPC a thread is blocked in, for which connection and which user: the one
\* named by the command, or the one of the session.  SEND carries its message.
Handler ==
  {Idle} \cup [conn : Conns, step : UserStep, arg : Users]
         \cup [conn : Conns, step : {"send"}, arg : Msgs]

\* The observer blocked in redisGetReply, and the observer that does not run:
\* initMessageQueue found no Redis, or the subscription broke.
Waiting == [step |-> "recv", conn |-> None, msg |-> None]
Dead == [step |-> "dead", conn |-> None, msg |-> None]

Observer ==
  {Waiting, Dead}
    \cup [step : {"erase"}, conn : {None}, msg : Msgs]
    \cup [step : {"post"}, conn : Conns, msg : Msgs]

Functor == [conn : Conns, msg : Msgs]

UidLine(u) == [line |-> "uid", val |-> u]
MsgLine(m) == [line |-> "msg", val |-> m]
Line == [line : {"uid"}, val : Users] \cup [line : {"msg"}, val : Msgs]

Elements(s) == {s[i] : i \in DOMAIN s}

TypeOK ==
  /\ conn \in [Conns -> ConnState]
  /\ sess \in [Conns -> Users \cup {None}]
  /\ uid2conn \in [Users -> Conns \cup {None}]
  /\ handler \in [Loops -> Handler]
  /\ functors \in [Loops -> Seq(Functor)]
  /\ channel \in Seq(Msgs)
  /\ observer \in Observer
  /\ out \in [Conns -> Seq(Line)]
  /\ published \in Seq(Msgs)
  /\ commands \in Nat
  /\ restarts \in Nat
  /\ garbled \subseteq Msgs

Init ==
  /\ conn = [c \in Conns |-> "fresh"]
  /\ sess = [c \in Conns |-> None]
  /\ uid2conn = [u \in Users |-> None]
  /\ handler = [l \in Loops |-> Idle]
  /\ functors = [l \in Loops |-> <<>>]
  /\ channel = <<>>
  /\ observer \in {Waiting, Dead}
  /\ out = [c \in Conns |-> <<>>]
  /\ published = <<>>
  /\ commands = 0
  /\ restarts = 0
  /\ garbled = {}

-----------------------------------------------------------------------------
(* Connections and commands: the IO threads.                               *)

LoopIdle(c) == handler[LoopOf[c]] = Idle

Block(c, step, arg) ==
  handler' = [handler EXCEPT ![LoopOf[c]] =
                [conn |-> c, step |-> step, arg |-> arg]]

Unblock(l) == handler' = [handler EXCEPT ![l] = Idle]

BlockedIn(l, step) == handler[l].step = step

Write(c, line) == out' = [out EXCEPT ![c] = Append(@, line)]

Map(u, c) == uid2conn' = [uid2conn EXCEPT ![u] = c]

(* Faulty variants of the actions below, for the sensitivity of the         *)
(* properties: each is the mistake its comment names.                       *)

\* onConnection that does not ask whether the session is authenticated.
ConnDownUnasked(c) ==
  /\ conn[c] = "up"
  /\ LoopIdle(c)
  /\ conn' = [conn EXCEPT ![c] = "down"]
  /\ Map(sess[c], None)
  /\ Block(c, "close", sess[c])
  /\ UNCHANGED <<sess, functors, channel, observer, out, published, commands,
                 restarts, garbled>>

\* onConnection that does not tell the user service.
ConnDownSilent(c) ==
  /\ conn[c] = "up"
  /\ LoopIdle(c)
  /\ conn' = [conn EXCEPT ![c] = "down"]
  /\ IF sess[c] = None THEN UNCHANGED uid2conn ELSE Map(sess[c], None)
  /\ UNCHANGED <<sess, handler, functors, channel, observer, out, published,
                 commands, restarts, garbled>>

\* handleLOGOUT that leaves the entry in the table.
LOGOUTReturnsMapped(l, ok) ==
  /\ BlockedIn(l, "logout")
  /\ sess' = [sess EXCEPT ![handler[l].conn] = IF ok THEN None ELSE @]
  /\ Unblock(l)
  /\ UNCHANGED <<conn, uid2conn, functors, channel, observer, out, published,
                 commands, restarts, garbled>>

\* A refused LOGIN that takes the user out of the table.
RefuseForgets(l) ==
  /\ Unblock(l)
  /\ handler[l].arg \in Users
  /\ Map(handler[l].arg, None)
  /\ UNCHANGED sess

\* A subscription that is taken up again, without what was published meanwhile.
SubscriptionResumed ==
  /\ observer = Waiting
  /\ channel' = <<>>
  /\ UNCHANGED <<conn, sess, uid2conn, handler, functors, observer, out,
                 published, commands, restarts, garbled>>

\* The functor without the test of connected().
RunFunctorUnchecked(l) ==
  /\ handler[l] = Idle
  /\ functors[l] # <<>>
  /\ functors' = [functors EXCEPT ![l] = Tail(@)]
  /\ Write(Head(functors[l]).conn, MsgLine(Head(functors[l]).msg))
  /\ UNCHANGED <<conn, sess, uid2conn, handler, channel, observer, published,
                 commands, restarts, garbled>>

\* The functor that looks the recipient up again.
RunFunctorRemapped(l) ==
  /\ handler[l] = Idle
  /\ functors[l] # <<>>
  /\ functors' = [functors EXCEPT ![l] = Tail(@)]
  /\ LET f == Head(functors[l])
     IN  IF conn[f.conn] = "up" /\ uid2conn[To[f.msg]] = f.conn
         THEN Write(f.conn, MsgLine(f.msg))
         ELSE UNCHANGED out
  /\ UNCHANGED <<conn, sess, uid2conn, handler, channel, observer, published,
                 commands, restarts, garbled>>

\* conn->send from the observer's own thread.
ObserverPostDirect ==
  /\ observer.step = "post"
  /\ IF conn[observer.conn] = "up"
     THEN Write(observer.conn, MsgLine(observer.msg))
     ELSE UNCHANGED out
  /\ observer' = Waiting
  /\ UNCHANGED <<conn, sess, uid2conn, handler, functors, channel, published,
                 commands, restarts, garbled>>

\* runInLoop that runs the newest functor first.
ObserverPostFront ==
  /\ observer.step = "post"
  /\ functors' = [functors EXCEPT ![LoopOf[observer.conn]] =
                    <<[conn |-> observer.conn, msg |-> observer.msg]>> \o @]
  /\ observer' = Waiting
  /\ UNCHANGED <<conn, sess, uid2conn, handler, channel, out, published,
                 commands, restarts, garbled>>

-----------------------------------------------------------------------------
\* onConnection, connection established.
ConnUp(c) ==
  /\ conn[c] = "fresh"
  /\ LoopIdle(c)
  /\ conn' = [conn EXCEPT ![c] = "up"]
  /\ sess' = [sess EXCEPT ![c] = None]
  /\ UNCHANGED <<uid2conn, handler, functors, channel, observer, out,
                 published, commands, restarts, garbled>>

\* onConnection, connection closed: the entry of the session's uid is erased,
\* whichever connection it names, then the user service is told.
ConnDown(c) ==
  /\ conn[c] = "up"
  /\ LoopIdle(c)
  /\ conn' = [conn EXCEPT ![c] = "down"]
  /\ \/ /\ sess[c] = None
        /\ UNCHANGED <<uid2conn, handler>>
     \/ /\ sess[c] # None
        /\ Map(sess[c], None)
        /\ Block(c, "close", sess[c])
  /\ UNCHANGED <<sess, functors, channel, observer, out, published, commands,
                 restarts, garbled>>

\* The last reference is released: after the close callback, when neither a
\* functor nor the observer holds the connection.
ConnDestroyed(c) ==
  /\ conn[c] = "down"
  /\ handler[LoopOf[c]].conn # c
  /\ observer.conn # c
  /\ \A l \in Loops : \A i \in DOMAIN functors[l] : functors[l][i].conn # c
  /\ conn' = [conn EXCEPT ![c] = "gone"]
  /\ sess' = [sess EXCEPT ![c] = None]
  /\ UNCHANGED <<uid2conn, handler, functors, channel, observer, out,
                 published, commands, restarts, garbled>>

\* handleLine takes a line of connection c: its handler issues its first RPC,
\* or answers at once (no session, when the command needs one).
Command(c, step, arg) ==
  /\ conn[c] = "up"
  /\ LoopIdle(c)
  /\ commands < MaxCommands
  /\ commands' = commands + 1
  /\ IF step \in {"register", "login"} \/ sess[c] # None
     THEN Block(c, step, arg)
     ELSE UNCHANGED handler
  /\ UNCHANGED <<conn, sess, uid2conn, functors, channel, observer, out,
                 published, restarts, garbled>>

RecvREGISTER(c, u) == Command(c, "register", u)
RecvLOGIN(c, u) == Command(c, "login", u)
RecvSEND(c, m) == Command(c, "send", m)
RecvPULL(c) == Command(c, "pull", sess[c])
RecvLOGOUT(c) == Command(c, "logout", sess[c])
\* ADDFRIEND, GETFRIENDS, CREATEGROUP, JOINGROUP, SENDGROUP: one RPC, and the
\* answer only becomes a line.
RecvForwarded(c) == Command(c, "forward", sess[c])

\* REGISTER and LOGIN share what follows an accepted answer with user id u:
\* session, table, then the call of BindRoute.
Enter(l, u) ==
  LET c == handler[l].conn
  IN  /\ sess' = [sess EXCEPT ![c] = u]
      /\ Map(u, c)
      /\ Block(c, "bind", u)

Refuse(l) ==
  /\ Unblock(l)
  /\ UNCHANGED <<sess, uid2conn>>

REGISTERReturns(l, ok, u) ==
  /\ BlockedIn(l, "register")
  /\ IF ok THEN Enter(l, u) ELSE Refuse(l)
  /\ UNCHANGED <<conn, functors, channel, observer, out, published, commands,
                 restarts, garbled>>

LOGINReturns(l, ok, u) ==
  /\ BlockedIn(l, "login")
  /\ IF ok THEN Enter(l, u) ELSE Refuse(l)
  /\ UNCHANGED <<conn, functors, channel, observer, out, published, commands,
                 restarts, garbled>>

\* The outcome of BindRoute is at most logged: "+OK uid=" in any case.
BINDReturns(l) ==
  /\ BlockedIn(l, "bind")
  /\ Write(handler[l].conn, UidLine(handler[l].arg))
  /\ Unblock(l)
  /\ UNCHANGED <<conn, sess, uid2conn, functors, channel, observer, published,
                 commands, restarts, garbled>>

\* SEND, PULL and the forwarded commands: the answer only becomes lines.
AnswerReturns(l, step) ==
  /\ BlockedIn(l, step)
  /\ Unblock(l)
  /\ UNCHANGED <<conn, sess, uid2conn, functors, channel, observer, out,
                 published, commands, restarts, garbled>>

SENDReturns(l) == AnswerReturns(l, "send")
PULLReturns(l) == AnswerReturns(l, "pull")
ForwardedReturns(l) == AnswerReturns(l, "forward")

LOGOUTReturns(l, ok) ==
  /\ BlockedIn(l, "logout")
  /\ IF ok
     THEN /\ Map(sess[handler[l].conn], None)
          /\ sess' = [sess EXCEPT ![handler[l].conn] = None]
     ELSE UNCHANGED <<sess, uid2conn>>
  /\ Unblock(l)
  /\ UNCHANGED <<conn, functors, channel, observer, out, published, commands,
                 restarts, garbled>>

\* The answer of the Logout the close callback sent is only logged.
CloseReturns(l) == AnswerReturns(l, "close")

\* An IO thread runs the next functor queued on it.
RunFunctor(l) ==
  /\ handler[l] = Idle
  /\ functors[l] # <<>>
  /\ functors' = [functors EXCEPT ![l] = Tail(@)]
  /\ LET f == Head(functors[l])
     IN  IF conn[f.conn] = "up"
         THEN Write(f.conn, MsgLine(f.msg))
         ELSE UNCHANGED out
  /\ UNCHANGED <<conn, sess, uid2conn, handler, channel, observer, published,
                 commands, restarts, garbled>>

-----------------------------------------------------------------------------
(* The Redis channel and the thread that observes it.                      *)

\* Presence.Deliver publishes to the channel of this gateway.
Publish(m) ==
  /\ observer.step # "dead"
  /\ m \notin Elements(published)
  /\ channel' = Append(channel, m)
  /\ published' = Append(published, m)
  /\ UNCHANGED <<conn, sess, uid2conn, handler, functors, observer, out,
                 commands, restarts, garbled>>

\* handleRedisMessage up to the end of its read lock.  The payload does not
\* parse: PUBLISH %s ends at the first NUL of a text (message_queue.cc:81).  Or
\* the table has no entry, a live connection (now referenced), or an expired one.
ObserverLookup ==
  /\ observer = Waiting
  /\ channel # <<>>
  /\ channel' = Tail(channel)
  /\ LET m == Head(channel)
         c == uid2conn[To[m]]
     IN  \/ /\ garbled' = garbled \cup {m}
            /\ UNCHANGED observer
         \/ /\ observer' =
                 IF c = None THEN Waiting
                 ELSE IF conn[c] = "gone"
                      THEN [step |-> "erase", conn |-> None, msg |-> m]
                      ELSE [step |-> "post", conn |-> c, msg |-> m]
            /\ UNCHANGED garbled
  /\ UNCHANGED <<conn, sess, uid2conn, handler, functors, out, published,
                 commands, restarts>>

\* The expired entry is erased under the write lock, by key: the entry may
\* have been replaced since the lookup.
ObserverErase ==
  /\ observer.step = "erase"
  /\ Map(To[observer.msg], None)
  /\ observer' = Waiting
  /\ UNCHANGED <<conn, sess, handler, functors, channel, out, published,
                 commands, restarts, garbled>>

ObserverPost ==
  /\ observer.step = "post"
  /\ functors' = [functors EXCEPT ![LoopOf[observer.conn]] =
                    Append(@, [conn |-> observer.conn, msg |-> observer.msg])]
  /\ observer' = Waiting
  /\ UNCHANGED <<conn, sess, uid2conn, handler, channel, out, published,
                 commands, restarts, garbled>>

\* redisGetReply fails: the observer leaves its loop and nothing restarts it.
SubscriptionLost ==
  /\ observer = Waiting
  /\ observer' = Dead
  /\ channel' = <<>>
  /\ UNCHANGED <<conn, sess, uid2conn, handler, functors, out, published,
                 commands, restarts, garbled>>

\* The process ends and starts again: initMessageQueue may find Redis or not,
\* and every connection of the old process is gone without its close callback.
Restart ==
  /\ restarts < MaxRestarts
  /\ restarts' = restarts + 1
  /\ conn' = [c \in Conns |-> IF conn[c] = "fresh" THEN "fresh" ELSE "gone"]
  /\ sess' = [c \in Conns |-> None]
  /\ uid2conn' = [u \in Users |-> None]
  /\ handler' = [l \in Loops |-> Idle]
  /\ functors' = [l \in Loops |-> <<>>]
  /\ channel' = <<>>
  /\ observer' \in {Waiting, Dead}
  /\ UNCHANGED <<out, published, commands, garbled>>

-----------------------------------------------------------------------------
Connection ==
  \E c \in Conns : ConnUp(c) \/ ConnDown(c) \/ ConnDestroyed(c)

Receive ==
  \E c \in Conns :
     \/ \E u \in Users : RecvREGISTER(c, u) \/ RecvLOGIN(c, u)
     \/ \E m \in Msgs : RecvSEND(c, m)
     \/ RecvPULL(c)
     \/ RecvLOGOUT(c)
     \/ RecvForwarded(c)

Answer(l) ==
  \/ \E ok \in BOOLEAN, u \in Users :
        REGISTERReturns(l, ok, u) \/ LOGINReturns(l, ok, u)
  \/ BINDReturns(l)
  \/ SENDReturns(l)
  \/ PULLReturns(l)
  \/ ForwardedReturns(l)
  \/ \E ok \in BOOLEAN : LOGOUTReturns(l, ok)
  \/ CloseReturns(l)

Observe == ObserverLookup \/ ObserverErase \/ ObserverPost

Next ==
  \/ Connection
  \/ Receive
  \/ \E l \in Loops : Answer(l) \/ RunFunctor(l)
  \/ \E m \in Msgs : Publish(m)
  \/ Observe
  \/ SubscriptionLost
  \/ Restart

Spec == Init /\ [][Next]_vars

\* The services answer the RPCs the IO threads are blocked in, every IO thread
\* keeps looping, and the observer keeps reading.
Fairness ==
  /\ \A l \in Loops : WF_vars(Answer(l)) /\ SF_vars(RunFunctor(l))
  /\ WF_vars(Observe)

LiveSpec == Spec /\ Fairness

-----------------------------------------------------------------------------
\* A client sees a pushed message only after the "+OK uid=" of the recipient
\* on that same connection: the table is filled before BindRoute is called,
\* but the functor waits for the IO thread, which writes the reply first.
LoginReplyBeforePush ==
  \A c \in Conns : \A i \in DOMAIN out[c] :
     out[c][i].line = "msg" =>
        \E j \in 1..(i - 1) : out[c][j] = UidLine(To[out[c][i].val])

\* Connection c was told it is user u, or the handler that will tell it so
\* before it ends is running.
Greeted(c, u) == UidLine(u) \in Elements(out[c])
Entering(c, u) == handler[LoopOf[c]] = [conn |-> c, step |-> "bind", arg |-> u]
Vouched(c, u) == Greeted(c, u) \/ Entering(c, u)

\* A handler runs on the thread of its own connection.
OwnThread ==
  \A l \in Loops : handler[l] # Idle => LoopOf[handler[l].conn] = l

\* The close callback of a connection runs only when no handler serves it.
ServedUp ==
  \A l \in Loops :
     (handler[l] # Idle /\ handler[l].step # "close")
        => conn[handler[l].conn] = "up"

\* What LoginReplyBeforePush rests on: every path a message takes to a
\* connection, from the table through the observer to the functors of the
\* connection's own thread, is vouched for.
TableVouched ==
  \A u \in Users : uid2conn[u] # None => Vouched(uid2conn[u], u)

ObserverVouched ==
  observer.step = "post" => Vouched(observer.conn, To[observer.msg])

FunctorVouched(l, f) == LoopOf[f.conn] = l /\ Vouched(f.conn, To[f.msg])

FunctorsVouched ==
  \A l \in Loops : \A i \in DOMAIN functors[l] :
     FunctorVouched(l, functors[l][i])

GatewayInv ==
  /\ OwnThread
  /\ ServedUp
  /\ TableVouched
  /\ ObserverVouched
  /\ FunctorsVouched
  /\ LoginReplyBeforePush

Push == INSTANCE PushChannel WITH lines <- out

\* The gateway implements the channel its clients rely on: through the observer
\* thread and the queues of the IO threads each message is pushed at most once,
\* to one connection, in the order of the Redis channel, and after the greeting.
PushesAsPromised == Push!Spec

\* As long as only one connection has been a session of its user, the table has
\* it: no close, refused login or expired entry of somebody else takes the entry
\* away (gatewayServer.cc:158 erases by key what it found expired before, and :205
\* erases by key as well).
SoleSessionMapped ==
  \A c \in Conns, u \in Users :
     (/\ conn[c] = "up" /\ sess[c] = u
      /\ \A d \in Conns \ {c} : ~Vouched(d, u))
        => uid2conn[u] = c

\* Nothing is written to a connection whose close callback has run, though
\* functors queued for it before the close are still executed.
NothingWrittenAfterDown ==
  [][\A c \in Conns : conn[c] # "up" => out'[c] = out[c]]_vars

\* A message the observer has handed to the thread of a connection is written
\* to it unless that connection closes or the gateway restarts.
HandedOverIsWritten ==
  \A c \in Conns, m \in Msgs :
     (\E i \in DOMAIN functors[LoopOf[c]] :
         functors[LoopOf[c]][i] = [conn |-> c, msg |-> m])
       ~> (MsgLine(m) \in Elements(out[c]) \/ conn[c] # "up")

\* A published message is written to the connection the table has for its
\* recipient, unless that connection closes or loses its entry, the gateway
\* restarts, the thread of the subscription has ended (message_queue.cc:163), or
\* the payload was cut at a NUL and does not parse (gatewayServer.cc:128).
PublishedIsWritten ==
  \A c \in Conns, m \in Msgs :
     (m \in Elements(channel) /\ uid2conn[To[m]] = c)
       ~> \/ MsgLine(m) \in Elements(out[c])
          \/ conn[c] # "up" \/ uid2conn[To[m]] # c
          \/ observer = Dead \/ m \in garbled
=============================================================================
