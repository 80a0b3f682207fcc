--------------------------- MODULE GatewayProofs ---------------------------
(***************************************************************************)
(* Gateway keeps its types, writes nothing to a closed connection, pushes  *)
(* to a connection only after the login reply of the recipient, keeps the  *)
(* entry of a session that is the only one of its user, and implements     *)
(* PushChannel, for any users, connections, IO threads and messages.       *)
(***************************************************************************)
EXTENDS Gateway, Integers, TLAPS

(* The two ways a handler leaves an IO thread.                             *)
LEMMA BlockTyped ==
  ASSUME TypeOK, NEW c \in Conns, NEW step \in UserStep, NEW u \in Users,
         Block(c, step, u)
  PROVE  handler' \in [Loops -> Handler]
<1>1. [conn |-> c, step |-> step, arg |-> u] \in Handler
  BY DEF Handler
<1> QED
  BY <1>1, GatewayAssumption DEF TypeOK, Block

LEMMA BlockSendTyped ==
  ASSUME TypeOK, NEW c \in Conns, NEW m \in Msgs, Block(c, "send", m)
  PROVE  handler' \in [Loops -> Handler]
<1>1. [conn |-> c, step |-> "send", arg |-> m] \in Handler
  BY DEF Handler
<1> QED
  BY <1>1, GatewayAssumption DEF TypeOK, Block

LEMMA UnblockTyped ==
  ASSUME TypeOK, NEW l \in Loops, Unblock(l)
  PROVE  handler' \in [Loops -> Handler]
BY DEF TypeOK, Unblock, Handler

LEMMA WriteTyped ==
  ASSUME TypeOK, NEW c \in Conns, NEW line \in Line, Write(c, line)
  PROVE  out' \in [Conns -> Seq(Line)]
<1>1. Append(out[c], line) \in Seq(Line)
  BY DEF TypeOK
<1> QED
  BY <1>1 DEF TypeOK, Write

LEMMA MapTyped ==
  ASSUME TypeOK, NEW u, NEW c \in Conns \cup {None}, Map(u, c)
  PROVE  uid2conn' \in [Users -> Conns \cup {None}]
BY DEF TypeOK, Map

\* Who blocks a thread is a connection.
LEMMA BlockedConn ==
  ASSUME TypeOK, NEW l \in Loops, handler[l] # Idle
  PROVE  /\ handler[l].conn \in Conns
         /\ handler[l].step # "send" => handler[l].arg \in Users
BY DEF TypeOK, Handler

\* Every value of the state stays in its type (all fields of gatewayServer.h).
THEOREM GatewayTypeCorrect == Spec => []TypeOK
<1> USE GatewayAssumption
<1>1. Init => TypeOK
  BY DEF Init, TypeOK, ConnState, Handler, Idle, Observer, Waiting, Dead
<1>2. TypeOK /\ [Next]_vars => TypeOK'
  <2> SUFFICES ASSUME TypeOK, [Next]_vars PROVE TypeOK'
    OBVIOUS
  <2> USE DEF TypeOK
  <2>1. ASSUME NEW c \in Conns, ConnUp(c) PROVE TypeOK'
    BY <2>1 DEF ConnUp, ConnState
  <2>2. ASSUME NEW c \in Conns, ConnDown(c) PROVE TypeOK'
    <3>1. conn' \in [Conns -> ConnState]
      BY <2>2 DEF ConnDown, ConnState
    <3>2. CASE sess[c] = None
      BY <2>2, <3>1, <3>2 DEF ConnDown
    <3>3. CASE sess[c] # None
      <4>1. Map(sess[c], None) /\ Block(c, "close", sess[c])
        BY <2>2, <3>3 DEF ConnDown
      <4>2. sess[c] \in Users /\ "close" \in UserStep
        BY <3>3 DEF UserStep
      <4>3. handler' \in [Loops -> Handler]
        BY <4>1, <4>2, BlockTyped
      <4>4. uid2conn' \in [Users -> Conns \cup {None}]
        BY <4>1, MapTyped
      <4> QED
        BY <2>2, <3>1, <4>3, <4>4 DEF ConnDown
    <3> QED
      BY <3>2, <3>3
  <2>3. ASSUME NEW c \in Conns, ConnDestroyed(c) PROVE TypeOK'
    BY <2>3 DEF ConnDestroyed, ConnState
  <2>4. ASSUME NEW c \in Conns, NEW step \in UserStep, NEW u \in Users \cup {None},
               Command(c, step, u),
               step \in {"register", "login"} => u \in Users,
               step \notin {"register", "login"} => u = sess[c]
        PROVE TypeOK'
    <3>1. CASE handler' = handler
      BY <2>4, <3>1 DEF Command
    <3>2. CASE Block(c, step, u) /\ u \in Users
      <4>1. handler' \in [Loops -> Handler]
        BY <3>2, BlockTyped
      <4> QED
        BY <2>4, <4>1 DEF Command
    <3> QED
      BY <2>4, <3>1, <3>2 DEF Command
  <2>5. ASSUME NEW l \in Loops, NEW ok \in BOOLEAN, NEW u \in Users,
               REGISTERReturns(l, ok, u) \/ LOGINReturns(l, ok, u)
        PROVE TypeOK'
    <3>1. handler[l].conn \in Conns
      BY <2>5, BlockedConn DEF REGISTERReturns, LOGINReturns, BlockedIn, Idle
    <3>2. handler' \in [Loops -> Handler]
      <4>1. "bind" \in UserStep
        BY DEF UserStep
      <4> QED
        BY <2>5, <3>1, <4>1, BlockTyped, UnblockTyped
           DEF REGISTERReturns, LOGINReturns, Enter, Refuse
    <3>3. sess' \in [Conns -> Users \cup {None}]
      BY <2>5, <3>1 DEF REGISTERReturns, LOGINReturns, Enter, Refuse
    <3>4. uid2conn' \in [Users -> Conns \cup {None}]
      BY <2>5, <3>1, MapTyped DEF REGISTERReturns, LOGINReturns, Enter, Refuse
    <3> QED
      BY <2>5, <3>2, <3>3, <3>4 DEF REGISTERReturns, LOGINReturns
  <2>6. ASSUME NEW l \in Loops, BINDReturns(l) PROVE TypeOK'
    <3>1. handler[l].conn \in Conns /\ handler[l].arg \in Users
      BY <2>6, BlockedConn DEF BINDReturns, BlockedIn, Idle
    <3>2. UidLine(handler[l].arg) \in Line
      BY <3>1 DEF UidLine, Line
    <3>3. out' \in [Conns -> Seq(Line)]
      BY <2>6, <3>1, <3>2, WriteTyped DEF BINDReturns
    <3> QED
      BY <2>6, <3>3, UnblockTyped DEF BINDReturns
  <2>7. ASSUME NEW l \in Loops, NEW step, AnswerReturns(l, step)
        PROVE TypeOK'
    BY <2>7, UnblockTyped DEF AnswerReturns
  <2>8. ASSUME NEW l \in Loops, NEW ok \in BOOLEAN, LOGOUTReturns(l, ok)
        PROVE TypeOK'
    <3>1. handler[l].conn \in Conns
      BY <2>8, BlockedConn DEF LOGOUTReturns, BlockedIn, Idle
    <3>2. handler' \in [Loops -> Handler]
      BY <2>8, UnblockTyped DEF LOGOUTReturns
    <3>3. uid2conn' \in [Users -> Conns \cup {None}]
      BY <2>8, MapTyped DEF LOGOUTReturns
    <3> QED
      BY <2>8, <3>1, <3>2, <3>3 DEF LOGOUTReturns
  <2>9. ASSUME NEW l \in Loops, RunFunctor(l) PROVE TypeOK'
    <3> DEFINE f == Head(functors[l])
    <3>1. functors[l] \in Seq(Functor) /\ functors[l] # <<>>
      BY <2>9 DEF RunFunctor
    <3>2. f \in Functor /\ Tail(functors[l]) \in Seq(Functor)
      BY <3>1
    <3>3. functors' \in [Loops -> Seq(Functor)]
      BY <2>9, <3>2 DEF RunFunctor
    <3>4. f.conn \in Conns /\ MsgLine(f.msg) \in Line
      BY <3>2 DEF Functor, MsgLine, Line
    <3>5. out' \in [Conns -> Seq(Line)]
      BY <2>9, <3>4, WriteTyped DEF RunFunctor
    <3> QED
      BY <2>9, <3>3, <3>5 DEF RunFunctor
  <2>10. ASSUME NEW m \in Msgs, Publish(m) PROVE TypeOK'
    BY <2>10 DEF Publish
  <2>11. CASE ObserverLookup
    <3>1. Head(channel) \in Msgs /\ channel' \in Seq(Msgs)
      BY <2>11 DEF ObserverLookup
    <3>2. uid2conn[To[Head(channel)]] \in Conns \cup {None}
      BY <3>1
    <3>3. observer' \in Observer
      BY <2>11, <3>1, <3>2 DEF ObserverLookup, Observer
    <3> QED
      BY <2>11, <3>1, <3>3 DEF ObserverLookup
  <2>12. CASE ObserverErase
    <3>1. uid2conn' \in [Users -> Conns \cup {None}]
      BY <2>12, MapTyped DEF ObserverErase
    <3> QED
      BY <2>12, <3>1 DEF ObserverErase, Observer
  <2>13. CASE ObserverPost
    <3>1. [conn |-> observer.conn, msg |-> observer.msg] \in Functor
      BY <2>13 DEF ObserverPost, Observer, Waiting, Dead, Functor
    <3>2. functors' \in [Loops -> Seq(Functor)]
      <4> DEFINE l == LoopOf[observer.conn]
                 f == [conn |-> observer.conn, msg |-> observer.msg]
      <4>1. l \in Loops
        BY <3>1 DEF Functor
      <4>2. Append(functors[l], f) \in Seq(Functor)
        BY <3>1, <4>1
      <4>3. functors' = [functors EXCEPT ![l] = Append(functors[l], f)]
        BY <2>13 DEF ObserverPost
      <4> HIDE DEF l, f
      <4> QED
        BY <4>1, <4>2, <4>3
    <3> QED
      BY <2>13, <3>2 DEF ObserverPost, Observer
  <2>14. CASE SubscriptionLost
    BY <2>14 DEF SubscriptionLost, Observer
  <2>15. CASE Restart
    BY <2>15 DEF Restart, ConnState, Observer, Handler
  <2>16. CASE UNCHANGED vars
    BY <2>16 DEF vars
  <2>17. ASSUME NEW c \in Conns, NEW m \in Msgs, RecvSEND(c, m)
         PROVE TypeOK'
    <3>1. CASE handler' = handler
      BY <2>17, <3>1 DEF RecvSEND, Command
    <3>2. CASE Block(c, "send", m)
      <4>1. handler' \in [Loops -> Handler]
        BY <3>2, BlockSendTyped
      <4> QED
        BY <2>17, <4>1 DEF RecvSEND, Command
    <3> QED
      BY <2>17, <3>1, <3>2 DEF RecvSEND, Command
  <2>18. ASSUME NEW c \in Conns, NEW u \in Users,
                RecvREGISTER(c, u) \/ RecvLOGIN(c, u)
         PROVE TypeOK'
    BY <2>18, <2>4 DEF RecvREGISTER, RecvLOGIN, UserStep
  <2>19. ASSUME NEW c \in Conns,
                RecvPULL(c) \/ RecvLOGOUT(c) \/ RecvForwarded(c)
         PROVE TypeOK'
    <3>1. sess[c] \in Users \cup {None}
      OBVIOUS
    <3> QED
      BY <2>19, <2>4, <3>1 DEF RecvPULL, RecvLOGOUT, RecvForwarded, UserStep
  <2>20. CASE Connection
    BY <2>20, <2>1, <2>2, <2>3 DEF Connection
  <2>21. CASE Receive
    BY <2>21, <2>17, <2>18, <2>19 DEF Receive
  <2>22. ASSUME NEW l \in Loops, Answer(l) PROVE TypeOK'
    BY <2>22, <2>5, <2>6, <2>7, <2>8
       DEF Answer, SENDReturns, PULLReturns, ForwardedReturns, CloseReturns
  <2> QED
    BY <2>9, <2>10, <2>11, <2>12, <2>13, <2>14, <2>15, <2>16, <2>20, <2>21,
       <2>22 DEF Next, Observe
<1>3. QED
  BY <1>1, <1>2, PTL DEF Spec

-----------------------------------------------------------------------------
(* What every step does to the lines of a connection, and to a handler that *)
(* is in BindRoute.                                                         *)
LEMMA OutGrows ==
  ASSUME TypeOK, [Next]_vars, NEW c \in Conns
  PROVE  \/ out'[c] = out[c]
         \/ \E line \in Line : out'[c] = Append(out[c], line)
<1>1. ASSUME NEW l \in Loops, BINDReturns(l)
      PROVE  out'[c] = out[c] \/ \E line \in Line : out'[c] = Append(out[c], line)
  <2>1. handler[l].conn \in Conns /\ handler[l].arg \in Users
    BY <1>1, BlockedConn DEF BINDReturns, BlockedIn, Idle
  <2>2. UidLine(handler[l].arg) \in Line
    BY <2>1 DEF UidLine, Line
  <2> QED
    BY <1>1, <2>1, <2>2 DEF BINDReturns, Write, TypeOK
<1>2. ASSUME NEW l \in Loops, RunFunctor(l)
      PROVE  out'[c] = out[c] \/ \E line \in Line : out'[c] = Append(out[c], line)
  <2> DEFINE f == Head(functors[l])
  <2>1. f \in Functor
    BY <1>2 DEF RunFunctor, TypeOK
  <2>2. MsgLine(f.msg) \in Line
    BY <2>1 DEF MsgLine, Line, Functor
  <2> QED
    BY <1>2, <2>1, <2>2 DEF RunFunctor, Write, TypeOK
<1>3. CASE UNCHANGED out
  BY <1>3
<1> QED
  BY <1>1, <1>2, <1>3 DEF Next, vars, Connection, Receive, Answer, Observe,
     ConnUp, ConnDown, ConnDestroyed, Command, RecvREGISTER, RecvLOGIN, RecvSEND,
     RecvPULL, RecvLOGOUT, RecvForwarded, REGISTERReturns, LOGINReturns,
     AnswerReturns, SENDReturns, PULLReturns, ForwardedReturns, LOGOUTReturns,
     CloseReturns, Publish, ObserverLookup, ObserverErase, ObserverPost,
     SubscriptionLost, Restart

LEMMA BindKept ==
  ASSUME TypeOK, OwnThread, [Next]_vars, NEW l \in Loops, BlockedIn(l, "bind")
  PROVE  handler'[l] = handler[l] \/ BINDReturns(l) \/ Restart
<1> USE GatewayAssumption DEF TypeOK, BlockedIn, Idle
<1>1. ASSUME NEW c \in Conns, ConnDown(c) PROVE handler'[l] = handler[l]
  BY <1>1 DEF ConnDown, LoopIdle, Block
<1>2. ASSUME NEW c \in Conns, NEW step, NEW arg, Command(c, step, arg)
      PROVE handler'[l] = handler[l]
  BY <1>2 DEF Command, LoopIdle, Block
<1>3. ASSUME NEW k \in Loops, NEW ok \in BOOLEAN, NEW u \in Users,
             REGISTERReturns(k, ok, u) \/ LOGINReturns(k, ok, u)
      PROVE handler'[l] = handler[l]
  <2>1. k # l /\ handler[k] # Idle
    BY <1>3 DEF REGISTERReturns, LOGINReturns
  <2>2. LoopOf[handler[k].conn] = k
    BY <2>1 DEF OwnThread
  <2> QED
    BY <1>3, <2>1, <2>2
       DEF REGISTERReturns, LOGINReturns, Enter, Refuse, Block, Unblock
<1>4. ASSUME NEW k \in Loops, BINDReturns(k), k # l PROVE handler'[l] = handler[l]
  BY <1>4 DEF BINDReturns, Unblock
<1>5. ASSUME NEW k \in Loops, NEW step, AnswerReturns(k, step), step # "bind"
      PROVE handler'[l] = handler[l]
  BY <1>5 DEF AnswerReturns, Unblock
<1>6. ASSUME NEW k \in Loops, NEW ok \in BOOLEAN, LOGOUTReturns(k, ok)
      PROVE handler'[l] = handler[l]
  BY <1>6 DEF LOGOUTReturns, Unblock
<1>7. CASE UNCHANGED handler
  BY <1>7
<1>8. CASE Receive
  BY <1>8, <1>2 DEF Receive, RecvREGISTER, RecvLOGIN, RecvSEND, RecvPULL,
     RecvLOGOUT, RecvForwarded
<1>9. ASSUME NEW k \in Loops, Answer(k)
      PROVE handler'[l] = handler[l] \/ BINDReturns(l)
  BY <1>9, <1>3, <1>4, <1>5, <1>6
     DEF Answer, SENDReturns, PULLReturns, ForwardedReturns, CloseReturns
<1> QED
  BY <1>1, <1>7, <1>8, <1>9 DEF Next, vars, Connection, Observe, ConnUp,
     ConnDestroyed, RunFunctor, Publish, ObserverLookup, ObserverErase,
     ObserverPost, SubscriptionLost

(* OwnThread is kept by every step.                                         *)
LEMMA OwnThreadKept ==
  ASSUME TypeOK, OwnThread, [Next]_vars
  PROVE  OwnThread'
<1> USE GatewayAssumption DEF TypeOK
<1>1. ASSUME NEW c \in Conns, NEW step, NEW arg, Block(c, step, arg)
      PROVE OwnThread'
  BY <1>1 DEF Block, OwnThread
<1>2. ASSUME NEW l \in Loops, Unblock(l) PROVE OwnThread'
  BY <1>2 DEF Unblock, OwnThread
<1>3. CASE UNCHANGED handler
  BY <1>3 DEF OwnThread
<1>4. CASE Connection
  BY <1>4, <1>1, <1>3 DEF Connection, ConnUp, ConnDown, ConnDestroyed
<1>5. CASE Receive
  BY <1>5, <1>1, <1>3 DEF Receive, Command, RecvREGISTER, RecvLOGIN, RecvSEND,
     RecvPULL, RecvLOGOUT, RecvForwarded
<1>6. ASSUME NEW l \in Loops, NEW ok \in BOOLEAN, NEW u \in Users,
             REGISTERReturns(l, ok, u) \/ LOGINReturns(l, ok, u)
      PROVE OwnThread'
  <2>1. handler[l].conn \in Conns
    BY <1>6, BlockedConn DEF REGISTERReturns, LOGINReturns, BlockedIn, Idle
  <2> QED
    BY <1>6, <2>1, <1>1, <1>2 DEF REGISTERReturns, LOGINReturns, Enter, Refuse
<1>7. ASSUME NEW l \in Loops, Answer(l) PROVE OwnThread'
  BY <1>7, <1>6, <1>2 DEF Answer, BINDReturns, AnswerReturns, SENDReturns,
     PULLReturns, ForwardedReturns, LOGOUTReturns, CloseReturns
<1>8. CASE Restart
  BY <1>8 DEF Restart, OwnThread
<1> QED
  BY <1>3, <1>4, <1>5, <1>7, <1>8 DEF Next, vars, Observe, RunFunctor, Publish,
     ObserverLookup, ObserverErase, ObserverPost, SubscriptionLost

(* The close callback of a connection waits for the handler that serves it. *)
LEMMA ServedUpKept ==
  ASSUME TypeOK, TypeOK', OwnThread, ServedUp, [Next]_vars
  PROVE  ServedUp'
<1> USE GatewayAssumption DEF ServedUp
<1> SUFFICES ASSUME NEW l \in Loops, handler'[l] # Idle,
                    handler'[l].step # "close"
             PROVE  conn'[handler'[l].conn] = "up"
  BY DEF Idle
<1>1. ASSUME handler'[l] = handler[l], conn' = conn
      PROVE  conn'[handler'[l].conn] = "up"
  BY <1>1
<1>2. ASSUME NEW c \in Conns, NEW step, NEW arg, Block(c, step, arg),
             conn[c] = "up", conn' = conn
      PROVE  conn'[handler'[l].conn] = "up"
  BY <1>2 DEF Block, TypeOK
<1>3. ASSUME NEW k \in Loops, Unblock(k), conn' = conn
      PROVE  conn'[handler'[l].conn] = "up"
  BY <1>3 DEF Unblock, TypeOK
<1>4. ASSUME NEW c \in Conns, ConnUp(c) \/ ConnDown(c) \/ ConnDestroyed(c)
      PROVE  conn'[handler'[l].conn] = "up"
  <2>1. CASE handler'[l] = handler[l]
    <3>1. handler[l].conn \in Conns /\ conn[handler[l].conn] = "up"
      BY <2>1, BlockedConn
    <3>2. handler[l].conn # c
      BY <1>4, <2>1, <3>1 DEF ConnUp, ConnDown, ConnDestroyed, OwnThread, LoopIdle
    <3> QED
      BY <1>4, <2>1, <3>1, <3>2 DEF ConnUp, ConnDown, ConnDestroyed, TypeOK
  <2>2. CASE Block(c, "close", sess[c])
    BY <1>4, <2>1, <2>2 DEF Block, TypeOK
  <2> QED
    BY <1>4, <2>1, <2>2 DEF ConnUp, ConnDown, ConnDestroyed
<1>5. CASE Receive
  BY <1>5, <1>1, <1>2 DEF Receive, Command, RecvREGISTER, RecvLOGIN, RecvSEND,
     RecvPULL, RecvLOGOUT, RecvForwarded
<1>6. ASSUME NEW k \in Loops, NEW ok \in BOOLEAN, NEW u \in Users,
             REGISTERReturns(k, ok, u) \/ LOGINReturns(k, ok, u)
      PROVE  conn'[handler'[l].conn] = "up"
  <2>1. handler[k] # Idle /\ handler[k].step # "close"
    BY <1>6 DEF REGISTERReturns, LOGINReturns, BlockedIn, Idle
  <2>2. handler[k].conn \in Conns /\ conn[handler[k].conn] = "up"
    BY <2>1, BlockedConn
  <2> QED
    BY <1>6, <2>2, <1>2, <1>3 DEF REGISTERReturns, LOGINReturns, Enter, Refuse
<1>7. ASSUME NEW k \in Loops, Answer(k) PROVE conn'[handler'[l].conn] = "up"
  BY <1>7, <1>6, <1>3 DEF Answer, BINDReturns, AnswerReturns, SENDReturns,
     PULLReturns, ForwardedReturns, LOGOUTReturns, CloseReturns
<1>8. CASE Restart
  BY <1>8 DEF Restart
<1> QED
  BY <1>1, <1>4, <1>5, <1>7, <1>8 DEF Next, vars, Connection, Observe,
     RunFunctor, Publish, ObserverLookup, ObserverErase, ObserverPost,
     SubscriptionLost

(* A vouched connection stays so unless the process restarts.               *)
LEMMA VouchedKept ==
  ASSUME TypeOK, OwnThread, [Next]_vars, ~Restart,
         NEW c \in Conns, NEW u \in Users, Vouched(c, u)
  PROVE  Vouched(c, u)'
<1>1. CASE Greeted(c, u)
  <2>1. ASSUME NEW line \in Line, out'[c] = Append(out[c], line)
        PROVE Greeted(c, u)'
    <3>1. PICK i \in DOMAIN out[c] : out[c][i] = UidLine(u)
      BY <1>1 DEF Greeted, Elements
    <3>2. out[c] \in Seq(Line)
      BY DEF TypeOK
    <3>3. i \in DOMAIN out'[c] /\ out'[c][i] = UidLine(u)
      BY <2>1, <3>1, <3>2
    <3> QED
      BY <3>3 DEF Greeted, Elements, UidLine
  <2>2. ASSUME out'[c] = out[c] PROVE Greeted(c, u)'
    BY <1>1, <2>2 DEF Greeted, Elements, UidLine
  <2>3. Greeted(c, u)'
    BY <2>1, <2>2, OutGrows
  <2> QED
    BY <2>3 DEF Vouched
<1>2. CASE Entering(c, u)
  <2> DEFINE l == LoopOf[c]
  <2>1. l \in Loops /\ BlockedIn(l, "bind")
    BY <1>2, GatewayAssumption DEF Entering, BlockedIn
  <2>2. CASE handler'[l] = handler[l]
    BY <1>2, <2>2 DEF Entering, Vouched
  <2>3. CASE BINDReturns(l)
    <3>1. out'[c] = Append(out[c], UidLine(u)) /\ out[c] \in Seq(Line)
      BY <1>2, <2>3 DEF BINDReturns, Write, Entering, TypeOK
    <3>2. Len(out[c]) + 1 \in DOMAIN out'[c]
          /\ out'[c][Len(out[c]) + 1] = UidLine(u)
      BY <3>1
    <3> QED
      BY <3>2 DEF Greeted, Vouched, Elements, UidLine
  <2> QED
    BY <2>1, <2>2, <2>3, BindKept
<1> QED
  BY <1>1, <1>2 DEF Vouched

-----------------------------------------------------------------------------
(* One lemma for each part of GatewayInv.                                      *)
LEMMA TableVouchedKept ==
  ASSUME TypeOK, TypeOK', GatewayInv, [Next]_vars
  PROVE  TableVouched'
<1> SUFFICES ASSUME NEW u \in Users, NEW c \in Conns, uid2conn'[u] = c
             PROVE  Vouched(c, u)'
  BY DEF TableVouched, TypeOK, Vouched, Greeted, Entering
<1> USE GatewayAssumption DEF GatewayInv
<1>1. CASE Restart
  BY <1>1 DEF Restart
<1>2. ASSUME ~Restart, uid2conn[u] = c PROVE Vouched(c, u)'
  <2>1. Vouched(c, u)
    BY <1>2 DEF TableVouched
  <2> QED
    BY <1>2, <2>1, VouchedKept
<1>3. ASSUME NEW l \in Loops, NEW v \in Users, handler[l] # Idle, Enter(l, v)
      PROVE  uid2conn[u] = c \/ Vouched(c, u)'
  <2>1. handler[l].conn \in Conns
    BY <1>3, BlockedConn
  <2>2. CASE u = v
    <3>1. c = handler[l].conn
      BY <1>3, <2>2 DEF Enter, Map, TypeOK
    <3>2. handler'[LoopOf[c]] = [conn |-> c, step |-> "bind", arg |-> u]
      BY <1>3, <2>2, <3>1 DEF Enter, Block, TypeOK
    <3> QED
      BY <3>2 DEF Vouched, Entering
  <2>3. CASE u # v
    BY <1>3, <2>3 DEF Enter, Map, TypeOK
  <2> QED
    BY <2>2, <2>3
<1>4. ASSUME NEW v, Map(v, None) PROVE uid2conn[u] = c
  BY <1>4 DEF Map, TypeOK
<1>5. ASSUME NEW l \in Loops, Answer(l)
      PROVE  uid2conn[u] = c \/ Vouched(c, u)'
  <2>1. ASSUME NEW ok \in BOOLEAN, NEW v \in Users,
               REGISTERReturns(l, ok, v) \/ LOGINReturns(l, ok, v)
        PROVE  uid2conn[u] = c \/ Vouched(c, u)'
    BY <2>1, <1>3 DEF REGISTERReturns, LOGINReturns, Refuse, BlockedIn, Idle
  <2>2. ASSUME NEW ok \in BOOLEAN, LOGOUTReturns(l, ok)
        PROVE  uid2conn[u] = c
    BY <2>2, <1>4 DEF LOGOUTReturns
  <2> QED
    BY <1>5, <2>1, <2>2 DEF Answer, BINDReturns, AnswerReturns, SENDReturns,
       PULLReturns, ForwardedReturns, CloseReturns
<1>6. CASE Connection
  BY <1>2, <1>4, <1>6, <1>1 DEF Connection, ConnUp, ConnDown, ConnDestroyed
<1>7. CASE Receive
  BY <1>2, <1>7, <1>1 DEF Receive, Command, RecvREGISTER, RecvLOGIN, RecvSEND,
     RecvPULL, RecvLOGOUT, RecvForwarded
<1>8. CASE ObserverErase
  BY <1>1, <1>2, <1>4, <1>8 DEF ObserverErase
<1> QED
  BY <1>1, <1>2, <1>5, <1>6, <1>7, <1>8 DEF Next, vars, Observe, RunFunctor,
     Publish, ObserverLookup, ObserverPost, SubscriptionLost

LEMMA ObserverVouchedKept ==
  ASSUME TypeOK, GatewayInv, [Next]_vars
  PROVE  ObserverVouched'
<1> USE GatewayAssumption DEF GatewayInv
<1>1. CASE Restart
  BY <1>1 DEF Restart, ObserverVouched, Waiting, Dead
<1>2. CASE ~Restart /\ observer' = observer
  <2> SUFFICES ASSUME observer.step = "post"
               PROVE  Vouched(observer.conn, To[observer.msg])'
    BY <1>2 DEF ObserverVouched, Vouched, Greeted, Entering
  <2>1. PICK c \in Conns, u \in Users : c = observer.conn /\ u = To[observer.msg]
    BY DEF TypeOK, Observer, Waiting, Dead
  <2>2. Vouched(c, u)'
    BY <1>2, <2>1, VouchedKept DEF ObserverVouched
  <2> QED
    BY <1>2, <2>1, <2>2 DEF Vouched, Greeted, Entering
<1>3. CASE ~Restart /\ ObserverLookup
  <2>1. PICK m \in Msgs : m = Head(channel)
    BY <1>3 DEF ObserverLookup, TypeOK
  <2>2. PICK c \in Conns \cup {None} : c = uid2conn[To[m]]
    BY DEF TypeOK
  <2>3. CASE c # None /\ conn[c] # "gone" /\ UNCHANGED garbled
    <3>1. c \in Conns /\ Vouched(c, To[m])
      BY <2>2, <2>3 DEF TableVouched
    <3>2. Vouched(c, To[m])'
      BY <1>3, <3>1, VouchedKept
    <3>3. observer' \in {Waiting, [step |-> "post", conn |-> c, msg |-> m]}
      BY <1>3, <2>1, <2>2, <2>3 DEF ObserverLookup
    <3> QED
      BY <3>2, <3>3 DEF Waiting, ObserverVouched, Vouched, Greeted, Entering
  <2>4. CASE ~(c # None /\ conn[c] # "gone" /\ UNCHANGED garbled)
    BY <1>3, <2>1, <2>2, <2>4 DEF ObserverLookup, ObserverVouched, Waiting
  <2> QED
    BY <2>3, <2>4
<1>4. CASE observer' = Waiting \/ observer' = Dead
  BY <1>4 DEF ObserverVouched, Waiting, Dead
<1> QED
  BY <1>1, <1>2, <1>3, <1>4 DEF Next, vars, Connection, Receive, Answer, Observe,
     ConnUp, ConnDown, ConnDestroyed, Command, RecvREGISTER, RecvLOGIN, RecvSEND,
     RecvPULL, RecvLOGOUT, RecvForwarded, REGISTERReturns, LOGINReturns,
     BINDReturns, AnswerReturns, SENDReturns, PULLReturns, ForwardedReturns,
     LOGOUTReturns, CloseReturns, RunFunctor, Publish, ObserverErase,
     ObserverPost, SubscriptionLost

LEMMA FunctorsVouchedKept ==
  ASSUME TypeOK, TypeOK', GatewayInv, [Next]_vars
  PROVE  FunctorsVouched'
<1> USE GatewayAssumption DEF GatewayInv
<1>1. CASE Restart
  BY <1>1 DEF Restart, FunctorsVouched
<1>2. CASE ~Restart
  <2> SUFFICES ASSUME NEW l \in Loops, NEW f \in Functor,
                      NEW i \in DOMAIN functors'[l], f = functors'[l][i]
               PROVE  FunctorVouched(l, f)'
    BY DEF FunctorsVouched, TypeOK, FunctorVouched, Vouched, Greeted, Entering
  <2>1. f.conn \in Conns /\ f.msg \in Msgs /\ To[f.msg] \in Users
    BY DEF Functor
  <2>2. PICK c \in Conns, u \in Users : c = f.conn /\ u = To[f.msg]
    BY <2>1
  <2>3. ASSUME LoopOf[c] = l, Vouched(c, u) PROVE FunctorVouched(l, f)'
    <3>1. Vouched(c, u)'
      BY <1>2, <2>3, VouchedKept
    <3> QED
      BY <2>2, <2>3, <3>1 DEF FunctorVouched, Vouched, Greeted, Entering
  <2>4. ASSUME NEW j \in DOMAIN functors[l], f = functors[l][j]
        PROVE  LoopOf[c] = l /\ Vouched(c, u)
    BY <2>2, <2>4 DEF FunctorsVouched, FunctorVouched
  <2>5. CASE functors'[l] = functors[l]
    BY <2>3, <2>4, <2>5
  <2>6. CASE RunFunctor(l)
    <3>1. functors[l] \in Seq(Functor) /\ functors[l] # <<>>
      BY <2>6 DEF RunFunctor, TypeOK
    <3>2. functors'[l] = Tail(functors[l])
      BY <2>6 DEF RunFunctor, TypeOK
    <3>3. i + 1 \in DOMAIN functors[l] /\ f = functors[l][i + 1]
      BY <3>1, <3>2
    <3> QED
      BY <2>3, <2>4, <3>3
  <2>7. CASE ObserverPost
    <3>1. functors[l] \in Seq(Functor)
      BY DEF TypeOK
    <3> DEFINE g == [conn |-> observer.conn, msg |-> observer.msg]
    <3>2. CASE l = LoopOf[observer.conn]
      <4>1. functors'[l] = Append(functors[l], g)
        BY <2>7, <3>2 DEF ObserverPost, TypeOK
      <4>2. CASE i \in DOMAIN functors[l]
        <5>1. f = functors[l][i]
          BY <3>1, <4>1, <4>2
        <5> QED
          BY <2>3, <2>4, <4>2, <5>1
      <4>3. CASE f = g
        BY <2>2, <2>3, <2>7, <3>2, <4>3 DEF ObserverPost, ObserverVouched
      <4> HIDE DEF g
      <4>4. i \in DOMAIN functors[l] \/ f = g
        BY <3>1, <4>1
      <4> QED
        BY <4>2, <4>3, <4>4
    <3>3. CASE l # LoopOf[observer.conn]
      <4>1. functors'[l] = functors[l]
        BY <2>7, <3>3 DEF ObserverPost, TypeOK
      <4> QED
        BY <2>5, <4>1
    <3> QED
      BY <3>2, <3>3
  <2>8. ASSUME NEW k \in Loops, k # l, RunFunctor(k)
        PROVE  functors'[l] = functors[l]
    BY <2>8 DEF RunFunctor, TypeOK
  <2> QED
    BY <1>2, <2>5, <2>6, <2>7, <2>8 DEF Next, vars, Connection, Receive, Answer,
       Observe, ConnUp, ConnDown, ConnDestroyed, Command, RecvREGISTER,
       RecvLOGIN, RecvSEND, RecvPULL, RecvLOGOUT, RecvForwarded,
       REGISTERReturns, LOGINReturns, BINDReturns, AnswerReturns, SENDReturns,
       PULLReturns, ForwardedReturns, LOGOUTReturns, CloseReturns, Publish,
       ObserverLookup, ObserverErase, SubscriptionLost
<1> QED
  BY <1>1, <1>2

(* A line is appended, and a MSG line only by a functor of an idle thread:   *)
(* then the connection is vouched for by a line already written.             *)
LEMMA ReplyFirstKept ==
  ASSUME TypeOK, TypeOK', GatewayInv, [Next]_vars
  PROVE  LoginReplyBeforePush'
<1> USE GatewayAssumption DEF GatewayInv
<1> SUFFICES ASSUME NEW c \in Conns, NEW i \in DOMAIN out'[c],
                    out'[c][i].line = "msg"
             PROVE  \E j \in 1..(i - 1) : out'[c][j] = UidLine(To[out'[c][i].val])
  BY DEF LoginReplyBeforePush, UidLine
<1>1. out[c] \in Seq(Line)
  BY DEF TypeOK
<1>2. ASSUME i \in DOMAIN out[c], NEW line, out'[c] = Append(out[c], line)
      PROVE  \E j \in 1..(i - 1) : out'[c][j] = UidLine(To[out'[c][i].val])
  <2>1. out'[c][i] = out[c][i]
    BY <1>1, <1>2
  <2>2. PICK j \in 1..(i - 1) : out[c][j] = UidLine(To[out[c][i].val])
    BY <1>2, <2>1 DEF LoginReplyBeforePush
  <2>3. out'[c][j] = out[c][j]
    BY <1>1, <1>2
  <2> QED
    BY <2>1, <2>2, <2>3
<1>3. CASE out'[c] = out[c]
  BY <1>3 DEF LoginReplyBeforePush
<1>4. ASSUME NEW l \in Loops, BINDReturns(l), out'[c] # out[c]
      PROVE  i \in DOMAIN out[c] /\ \E line : out'[c] = Append(out[c], line)
  <2>1. PICK line \in {UidLine(handler[l].arg)} : out'[c] = Append(out[c], line)
    BY <1>4 DEF BINDReturns, Write, TypeOK
  <2>2. line.line = "uid"
    BY <2>1 DEF UidLine
  <2> QED
    BY <1>1, <2>1, <2>2
<1>5. ASSUME NEW l \in Loops, RunFunctor(l), out'[c] # out[c]
      PROVE  \E j \in 1..(i - 1) : out'[c][j] = UidLine(To[out'[c][i].val])
  <2>1. functors[l] \in Seq(Functor) /\ functors[l] # <<>>
    BY <1>5 DEF RunFunctor, TypeOK
  <2>2. PICK f \in Functor : f = Head(functors[l]) /\ f = functors[l][1]
    BY <2>1
  <2>3. f.conn = c /\ out'[c] = Append(out[c], MsgLine(f.msg))
    BY <1>5, <2>2 DEF RunFunctor, Write, TypeOK
  <2>4. FunctorVouched(l, f)
    BY <2>1, <2>2 DEF FunctorsVouched
  <2>5. Greeted(c, To[f.msg])
    BY <1>5, <2>3, <2>4
       DEF FunctorVouched, Vouched, Entering, RunFunctor, Idle
  <2>6. PICK j \in DOMAIN out[c] : out[c][j] = UidLine(To[f.msg])
    BY <2>5 DEF Greeted, Elements
  <2>7. CASE i \in DOMAIN out[c]
    BY <1>2, <2>3, <2>7
  <2>8. CASE i = Len(out[c]) + 1
    <3>1. out'[c][i] = MsgLine(f.msg) /\ out'[c][j] = out[c][j]
          /\ j \in 1..(i - 1)
      BY <1>1, <2>3, <2>6, <2>8
    <3> QED
      BY <2>6, <3>1 DEF MsgLine
  <2>9. i \in DOMAIN out[c] \/ i = Len(out[c]) + 1
    BY <1>1, <2>3
  <2> QED
    BY <2>7, <2>8, <2>9
<1>6. ASSUME NEW l \in Loops, BINDReturns(l), out'[c] # out[c]
      PROVE  \E j \in 1..(i - 1) : out'[c][j] = UidLine(To[out'[c][i].val])
  BY <1>2, <1>4, <1>6
<1> QED
  BY <1>3, <1>5, <1>6 DEF Next, vars, Connection, Receive, Answer, Observe,
     ConnUp, ConnDown, ConnDestroyed, Command, RecvREGISTER, RecvLOGIN, RecvSEND,
     RecvPULL, RecvLOGOUT, RecvForwarded, REGISTERReturns, LOGINReturns,
     AnswerReturns, SENDReturns, PULLReturns, ForwardedReturns, LOGOUTReturns,
     CloseReturns, Publish, ObserverLookup, ObserverErase, ObserverPost,
     SubscriptionLost, Restart

\* The invariant behind the two results below holds in every state.
THEOREM GatewayInvariant == Spec => []GatewayInv
<1>1. Init => GatewayInv
  BY DEF Init, GatewayInv, OwnThread, ServedUp, TableVouched, ObserverVouched,
     FunctorsVouched, LoginReplyBeforePush, Waiting, Dead
<1>2. TypeOK /\ TypeOK' /\ GatewayInv /\ [Next]_vars => GatewayInv'
  <2> SUFFICES ASSUME TypeOK, TypeOK', GatewayInv, [Next]_vars PROVE GatewayInv'
    OBVIOUS
  <2>1. OwnThread'
    BY OwnThreadKept DEF GatewayInv
  <2> QED
    BY <2>1, ServedUpKept, TableVouchedKept, ObserverVouchedKept,
       FunctorsVouchedKept, ReplyFirstKept DEF GatewayInv
<1> QED
  BY <1>1, <1>2, GatewayTypeCorrect, PTL DEF Spec

\* A connection is sent a pushed message only after it was told that it is the
\* recipient: handleRedisMessage against REGISTER, LOGIN and LOGOUT on the IO
\* threads (gatewayServer.cc), in every interleaving.
THEOREM PushAfterLogin == Spec => []LoginReplyBeforePush
<1>1. GatewayInv => LoginReplyBeforePush
  BY DEF GatewayInv
<1> QED
  BY <1>1, GatewayInvariant, PTL

\* A functor that outlives its connection writes nothing, and no handler still
\* runs when the close callback does: no step writes to a connection that is
\* not up (onConnection, and the connected() test of handleRedisMessage).
THEOREM SilentAfterDown == Spec => NothingWrittenAfterDown
<1>1. TypeOK /\ GatewayInv /\ [Next]_vars
        => [\A c \in Conns : conn[c] # "up" => out'[c] = out[c]]_vars
  <2> SUFFICES ASSUME TypeOK, GatewayInv, [Next]_vars,
                      NEW c \in Conns, conn[c] # "up"
               PROVE  out'[c] = out[c]
    OBVIOUS
  <2>1. ASSUME NEW l \in Loops, BINDReturns(l) PROVE out'[c] = out[c]
    <3>1. handler[l].conn \in Conns
      BY <2>1, BlockedConn DEF BINDReturns, BlockedIn, Idle
    <3>2. conn[handler[l].conn] = "up"
      BY <2>1 DEF BINDReturns, BlockedIn, Idle, GatewayInv, ServedUp
    <3> QED
      BY <2>1, <3>1, <3>2 DEF BINDReturns, Write, TypeOK
  <2>2. ASSUME NEW l \in Loops, RunFunctor(l) PROVE out'[c] = out[c]
    BY <2>2 DEF RunFunctor, Write, TypeOK
  <2>3. CASE UNCHANGED out
    BY <2>3
  <2> QED
    BY <2>1, <2>2, <2>3 DEF Next, vars, Connection, Receive, Answer, Observe,
       ConnUp, ConnDown, ConnDestroyed, Command, RecvREGISTER, RecvLOGIN,
       RecvSEND, RecvPULL, RecvLOGOUT, RecvForwarded, REGISTERReturns,
       LOGINReturns, AnswerReturns, SENDReturns, PULLReturns, ForwardedReturns,
       LOGOUTReturns, CloseReturns, Publish, ObserverLookup, ObserverErase,
       ObserverPost, SubscriptionLost, Restart
<1> QED
  BY <1>1, GatewayTypeCorrect, GatewayInvariant, PTL
     DEF Spec, NothingWrittenAfterDown
-----------------------------------------------------------------------------
(* The entry of a user with one session.                                   *)

\* The user of a session was told so on its connection, or is about to be.
SessVouched == \A c \in Conns : sess[c] # None => Vouched(c, sess[c])

\* The entry that the observer is about to erase named a connection that is gone.
EraseSeen ==
  observer.step = "erase" =>
     \E d \in Conns : conn[d] = "gone" /\ Vouched(d, To[observer.msg])

SoleInv == SessVouched /\ EraseSeen /\ SoleSessionMapped

\* The steps that change a session or the table.
EntryStep ==
  \/ \E c \in Conns : ConnUp(c) \/ ConnDown(c) \/ ConnDestroyed(c)
  \/ \E l \in Loops, u \in Users : handler[l] # Idle /\ Enter(l, u) /\ UNCHANGED conn
  \/ \E l \in Loops : LOGOUTReturns(l, TRUE)
  \/ ObserverErase
  \/ UNCHANGED <<sess, uid2conn, conn>>

LEMMA EntrySteps ==
  ASSUME [Next]_vars
  PROVE  EntryStep \/ Restart
<1>1. ASSUME NEW l \in Loops, NEW ok \in BOOLEAN, NEW u \in Users,
             REGISTERReturns(l, ok, u) \/ LOGINReturns(l, ok, u)
      PROVE  EntryStep
  <2>1. handler[l] # Idle
    BY <1>1 DEF REGISTERReturns, LOGINReturns, BlockedIn, Idle
  <2> QED
    BY <1>1, <2>1 DEF REGISTERReturns, LOGINReturns, Refuse, EntryStep
<1>2. ASSUME NEW l \in Loops, NEW ok \in BOOLEAN, LOGOUTReturns(l, ok) PROVE EntryStep
  BY <1>2 DEF LOGOUTReturns, EntryStep
<1>3. CASE Connection \/ ObserverErase
  BY <1>3 DEF Connection, EntryStep
<1>4. CASE UNCHANGED <<sess, uid2conn, conn>>
  BY <1>4 DEF EntryStep
<1> QED
  BY <1>1, <1>2, <1>3, <1>4 DEF Next, vars, Receive, Answer, Observe, Command, RecvREGISTER,
     RecvLOGIN, RecvSEND, RecvPULL, RecvLOGOUT, RecvForwarded, BINDReturns, AnswerReturns,
     SENDReturns, PULLReturns, ForwardedReturns, CloseReturns, RunFunctor, Publish,
     ObserverLookup, ObserverPost, SubscriptionLost

\* Who enters is vouched for from then on.
LEMMA EnterVouched ==
  ASSUME TypeOK, NEW l \in Loops, NEW u \in Users, NEW d \in Conns, handler[l].conn = d,
         Enter(l, u)
  PROVE  /\ Vouched(d, u)' /\ sess'[d] = u /\ uid2conn'[u] = d
         /\ \A c \in Conns : c # d => sess'[c] = sess[c]
         /\ \A v \in Users : v # u => uid2conn'[v] = uid2conn[v]
<1>1. /\ sess' = [sess EXCEPT ![d] = u] /\ uid2conn' = [uid2conn EXCEPT ![u] = d]
      /\ handler' = [handler EXCEPT ![LoopOf[d]] = [conn |-> d, step |-> "bind", arg |-> u]]
  BY DEF Enter, Map, Block
<1>2. Entering(d, u)'
  BY <1>1, GatewayAssumption DEF Entering, TypeOK
<1> QED
  BY <1>1, <1>2 DEF TypeOK, Vouched

LEMMA SessVouchedKept ==
  ASSUME TypeOK, GatewayInv, SessVouched, [Next]_vars
  PROVE  SessVouched'
<1> SUFFICES ASSUME NEW c \in Conns, NEW u, sess'[c] = u, u # None PROVE Vouched(c, u)'
  BY DEF SessVouched, Vouched, Greeted, Entering
<1>1. CASE Restart
  BY <1>1 DEF Restart
<1>2. ASSUME ~Restart, sess[c] = u PROVE Vouched(c, u)'
  <2>1. Vouched(c, u) /\ u \in Users
    BY <1>2 DEF SessVouched, TypeOK
  <2> QED
    BY <1>2, <2>1, VouchedKept DEF GatewayInv
<1>3. ASSUME ~Restart, EntryStep, sess[c] # u PROVE Vouched(c, u)'
  <2>1. ASSUME NEW l \in Loops, NEW v \in Users, handler[l] # Idle, Enter(l, v)
        PROVE  Vouched(c, u)'
    <3>1. PICK d \in Conns : handler[l].conn = d
      BY <2>1, BlockedConn
    <3>2. /\ Vouched(d, v)' /\ sess'[d] = v
          /\ \A e \in Conns : e # d => sess'[e] = sess[e]
      BY <2>1, <3>1, EnterVouched
    <3>3. c = d /\ u = v
      BY <1>3, <3>2
    <3> QED
      BY <3>2, <3>3
  <2>2. ASSUME NEW d \in Conns, ConnUp(d) \/ ConnDown(d) \/ ConnDestroyed(d) PROVE FALSE
    BY <1>3, <2>2 DEF ConnUp, ConnDown, ConnDestroyed, TypeOK
  <2>3. ASSUME NEW l \in Loops, LOGOUTReturns(l, TRUE) PROVE FALSE
    BY <1>3, <2>3 DEF LOGOUTReturns, TypeOK
  <2> QED
    BY <1>3, <2>1, <2>2, <2>3 DEF EntryStep, ObserverErase
<1> QED
  BY <1>1, <1>2, <1>3, EntrySteps

LEMMA GoneForGood ==
  ASSUME TypeOK, [Next]_vars, NEW d \in Conns, conn[d] = "gone"
  PROVE  conn'[d] = "gone"
<1>1. CASE Restart
  BY <1>1 DEF Restart
<1>2. CASE EntryStep
  <2>1. ASSUME NEW c \in Conns, ConnUp(c) \/ ConnDown(c) \/ ConnDestroyed(c)
        PROVE  conn'[d] = "gone"
    BY <2>1 DEF ConnUp, ConnDown, ConnDestroyed, TypeOK
  <2> QED
    BY <1>2, <2>1 DEF EntryStep, LOGOUTReturns, ObserverErase
<1> QED
  BY <1>1, <1>2, EntrySteps

LEMMA EraseSeenKept ==
  ASSUME TypeOK, TypeOK', GatewayInv, EraseSeen, [Next]_vars
  PROVE  EraseSeen'
<1> SUFFICES ASSUME NEW m, observer'.msg = m, observer'.step = "erase"
             PROVE  \E d \in Conns : conn'[d] = "gone" /\ Vouched(d, To[m])'
  BY DEF EraseSeen, Vouched, Greeted, Entering
<1>1. ~Restart
  BY DEF Restart, Waiting, Dead
<1>2. To[m] \in Users
  <2>1. observer' \in Observer
    BY DEF TypeOK
  <2> QED
    BY <2>1, GatewayAssumption DEF Observer, Waiting, Dead
<1>3. ASSUME NEW d \in Conns, conn[d] = "gone", Vouched(d, To[m])
      PROVE  \E e \in Conns : conn'[e] = "gone" /\ Vouched(e, To[m])'
  <2>1. conn'[d] = "gone"
    BY <1>3, GoneForGood
  <2>2. Vouched(d, To[m])'
    BY <1>1, <1>2, <1>3, VouchedKept DEF GatewayInv
  <2> QED
    BY <2>1, <2>2
<1>4. CASE observer' = observer
  BY <1>3, <1>4 DEF EraseSeen
<1>5. CASE ObserverLookup
  <2>1. PICK d : uid2conn[To[Head(channel)]] = d
    OBVIOUS
  <2>2. Head(channel) = m /\ d # None /\ conn[d] = "gone"
    BY <1>5, <2>1 DEF ObserverLookup, Waiting
  <2>3. d \in Conns /\ Vouched(d, To[m])
    BY <1>2, <2>1, <2>2 DEF TypeOK, GatewayInv, TableVouched
  <2> QED
    BY <1>3, <2>2, <2>3
<1>6. CASE ObserverErase \/ ObserverPost \/ SubscriptionLost
  BY <1>6 DEF ObserverErase, ObserverPost, SubscriptionLost, Waiting, Dead
<1> QED
  BY <1>1, <1>4, <1>5, <1>6 DEF Next, vars, Connection, Receive, Answer, Observe, ConnUp,
     ConnDown, ConnDestroyed, Command, RecvREGISTER, RecvLOGIN, RecvSEND, RecvPULL,
     RecvLOGOUT, RecvForwarded, REGISTERReturns, LOGINReturns, BINDReturns,
     AnswerReturns, SENDReturns, PULLReturns, ForwardedReturns, LOGOUTReturns,
     CloseReturns, RunFunctor, Publish

\* Every step that takes an entry away belongs to a connection that was told it is
\* the user, and a connection that enters takes the entry.
LEMMA SoleSessionKept ==
  ASSUME TypeOK, TypeOK', GatewayInv, SoleInv, [Next]_vars
  PROVE  SoleSessionMapped'
<1> SUFFICES ASSUME NEW c \in Conns, NEW u \in Users, conn'[c] = "up", sess'[c] = u,
                    \A d \in Conns \ {c} : ~Vouched(d, u)'
             PROVE  uid2conn'[u] = c
  BY DEF SoleSessionMapped, Vouched, Greeted, Entering
<1>1. ~Restart /\ u # None
  BY GatewayAssumption DEF Restart
<1>2. \A d \in Conns \ {c} : ~Vouched(d, u)
  BY <1>1, VouchedKept DEF GatewayInv
<1>3. conn[c] = "up" /\ sess[c] = u => uid2conn[u] = c
  BY <1>2 DEF SoleInv, SoleSessionMapped
<1>4. \A d \in Conns : sess[d] = u => d = c
  BY <1>1, <1>2 DEF SoleInv, SessVouched
<1>5. ASSUME NEW d \in Conns, ConnUp(d) \/ ConnDown(d) \/ ConnDestroyed(d)
      PROVE  uid2conn'[u] = c
  <2>1. conn[c] = "up" /\ sess[c] = u /\ d # c
    BY <1>1, <1>5 DEF ConnUp, ConnDown, ConnDestroyed, TypeOK
  <2>2. sess[d] # u
    BY <1>4, <2>1
  <2> QED
    BY <1>3, <1>5, <2>1, <2>2 DEF ConnUp, ConnDown, ConnDestroyed, Map, TypeOK
<1>6. ASSUME NEW l \in Loops, NEW v \in Users, handler[l] # Idle, Enter(l, v), UNCHANGED conn
      PROVE  uid2conn'[u] = c
  <2>1. PICK d \in Conns :
          /\ Vouched(d, v)' /\ sess'[d] = v
          /\ \A e \in Conns : e # d => sess'[e] = sess[e]
          /\ uid2conn'[v] = d
          /\ \A x \in Users : x # v => uid2conn'[x] = uid2conn[x]
    <3>1. PICK d \in Conns : handler[l].conn = d
      BY <1>6, BlockedConn
    <3> QED
      BY <1>6, <3>1, EnterVouched
  <2>2. CASE v = u
    BY <2>1, <2>2
  <2>3. CASE v # u
    BY <1>3, <1>6, <2>1, <2>3
  <2> QED
    BY <2>2, <2>3
<1>7. ASSUME NEW l \in Loops, LOGOUTReturns(l, TRUE) PROVE uid2conn'[u] = c
  <2>1. PICK d \in Conns : handler[l].conn = d
    BY <1>7, BlockedConn DEF LOGOUTReturns, BlockedIn, Idle
  <2>2. /\ sess' = [sess EXCEPT ![d] = None] /\ Map(sess[d], None) /\ UNCHANGED conn
    BY <1>7, <2>1 DEF LOGOUTReturns
  <2>3. d # c /\ sess[c] = u /\ sess[d] # u
    BY <1>1, <1>4, <2>2 DEF TypeOK
  <2> QED
    BY <1>3, <2>2, <2>3 DEF Map, TypeOK
<1>8. CASE ObserverErase
  <2>1. PICK d \in Conns : conn[d] = "gone" /\ Vouched(d, To[observer.msg])
    BY <1>8 DEF ObserverErase, SoleInv, EraseSeen
  <2>2. UNCHANGED <<conn, sess>> /\ Map(To[observer.msg], None)
    BY <1>8 DEF ObserverErase
  <2>3. To[observer.msg] # u
    BY <1>2, <2>1, <2>2
  <2> QED
    BY <1>3, <2>2, <2>3 DEF Map, TypeOK
<1>9. CASE UNCHANGED <<sess, uid2conn, conn>>
  BY <1>3, <1>9
<1> QED
  BY <1>1, <1>5, <1>6, <1>7, <1>8, <1>9, EntrySteps DEF EntryStep

\* A user with one session has the entry of that session: no close, refused login
\* or expired entry of somebody else takes it (gatewayServer.cc:158 and :205 erase by
\* key).
THEOREM SoleSessionKeepsEntry == Spec => []SoleSessionMapped
<1>1. Init => SoleInv
  BY GatewayAssumption
     DEF Init, SoleInv, SessVouched, EraseSeen, SoleSessionMapped, Waiting, Dead
<1>2. TypeOK /\ TypeOK' /\ GatewayInv /\ SoleInv /\ [Next]_vars => SoleInv'
  BY SessVouchedKept, EraseSeenKept, SoleSessionKept DEF SoleInv
<1>3. SoleInv => SoleSessionMapped
  BY DEF SoleInv
<1> QED
  BY <1>1, <1>2, <1>3, GatewayTypeCorrect, GatewayInvariant, PTL DEF Spec

-----------------------------------------------------------------------------
(* The refinement of PushChannel: where a published message is.            *)

Place(m) == Push!Position(m)

\* How many messages the observer has taken from the channel, or lost with it.
Taken == Len(published) - Len(channel)

PublishedOnce ==
  \A i, j \in DOMAIN published : published[i] = published[j] => i = j

\* The channel is the end of what was published.
ChannelIsRest ==
  /\ Len(channel) <= Len(published)
  /\ \A i \in DOMAIN channel : channel[i] = published[Taken + i]

AtMessage == observer.step \in {"post", "erase"}

\* Message m was taken from the channel before the one the observer is at.
Past(m) ==
  /\ m \in Elements(published)
  /\ Place(m) <= Taken
  /\ AtMessage => Place(m) < Taken

ObserverAtLast ==
  \A m \in Msgs : AtMessage /\ observer.msg = m =>
     m \in Elements(published) /\ Place(m) = Taken

\* The functors of a thread are in the order of the channel, and no two threads
\* have one for the same message.
Waits(l, i, m) == i \in DOMAIN functors[l] /\ functors[l][i].msg = m

WaitingPast ==
  \A l \in Loops, m \in Msgs : \A i \in DOMAIN functors[l] : Waits(l, i, m) => Past(m)
WaitingInOrder ==
  \A l \in Loops, m, n \in Msgs : \A i, j \in DOMAIN functors[l] :
     Waits(l, i, m) /\ Waits(l, j, n) /\ i < j => Place(m) < Place(n)
WaitingApart ==
  \A l, k \in Loops, m \in Msgs : \A i \in DOMAIN functors[l], j \in DOMAIN functors[k] :
     Waits(l, i, m) /\ Waits(k, j, m) => l = k

Written(c, m) == MsgLine(m) \in Elements(out[c])

\* What was written comes before what is still to be written by the same thread, and
\* is no longer to be written by any.
WrittenPast == \A c \in Conns, m \in Msgs : Written(c, m) => Past(m)
WrittenBefore ==
  \A c \in Conns, l \in Loops, m, n \in Msgs : \A i \in DOMAIN functors[l] :
     Written(c, m) /\ Waits(l, i, n) => n # m /\ (l = LoopOf[c] => Place(m) < Place(n))

OrderInv ==
  /\ PublishedOnce /\ ChannelIsRest /\ ObserverAtLast
  /\ WaitingPast /\ WaitingInOrder /\ WaitingApart
  /\ WrittenPast /\ WrittenBefore

\* Places are counted from one, and what is published keeps its place.
LEMMA PlaceOf ==
  ASSUME PublishedOnce, NEW i \in DOMAIN published
  PROVE  Place(published[i]) = i
BY DEF PublishedOnce, Place, Push!Position

LEMMA PlaceIn ==
  ASSUME TypeOK, NEW m \in Elements(published)
  PROVE  Place(m) \in 1..Len(published) /\ published[Place(m)] = m
BY DEF TypeOK, Elements, Place, Push!Position

LEMMA PlaceSame ==
  ASSUME published' = published, NEW m
  PROVE  Place(m)' = Place(m) /\ (m \in Elements(published)' <=> m \in Elements(published))
BY DEF Place, Push!Position, Elements

LEMMA PublishPlace ==
  ASSUME TypeOK, PublishedOnce, NEW x \in Msgs, Publish(x)
  PROVE  /\ PublishedOnce'
         /\ \A m \in Elements(published) : m \in Elements(published)' /\ Place(m)' = Place(m)
<1>1. /\ published \in Seq(Msgs) /\ published' = Append(published, x)
      /\ x \notin Elements(published) /\ Len(published) \in Nat
  BY DEF TypeOK, Publish
<1>2. /\ DOMAIN published = 1..Len(published) /\ DOMAIN published' = 1..(Len(published) + 1)
      /\ \A i \in DOMAIN published : published'[i] = published[i]
      /\ published'[Len(published) + 1] = x
  BY <1>1
<1>3. PublishedOnce'
  <2> SUFFICES ASSUME NEW i \in DOMAIN published', NEW j \in DOMAIN published',
                      published'[i] = published'[j]
               PROVE  i = j
    BY DEF PublishedOnce
  <2>1. CASE i \in DOMAIN published /\ j \in DOMAIN published
    BY <1>2, <2>1 DEF PublishedOnce
  <2>2. \A k \in DOMAIN published : published'[k] # x
    BY <1>1, <1>2 DEF Elements
  <2>3. \A k \in DOMAIN published' : k \in DOMAIN published \/ k = Len(published) + 1
    BY <1>1, <1>2
  <2> QED
    BY <1>2, <2>1, <2>2, <2>3
<1>4. ASSUME NEW m \in Elements(published)
      PROVE  m \in Elements(published)' /\ Place(m)' = Place(m)
  <2>1. PICK i \in DOMAIN published : published[i] = m
    BY DEF Elements
  <2>2. i \in DOMAIN published' /\ published'[i] = m
    BY <1>1, <1>2, <2>1
  <2>3. Place(m) = i
    BY <2>1, PlaceOf
  <2>4. \A j \in DOMAIN published' : published'[j] = m => j = i
    BY <1>3, <2>2 DEF PublishedOnce
  <2>5. Place(m)' = i
    BY <2>2, <2>4 DEF Place, Push!Position
  <2> QED
    BY <2>2, <2>3, <2>5 DEF Elements
<1> QED
  BY <1>3, <1>4

\* What the observer has passed stays so; then order and separation carry over.
PastKept == \A m \in Msgs : Past(m) => Past(m)' /\ Place(m)' = Place(m)

LEMMA OrderCarried ==
  ASSUME TypeOK, OrderInv, PastKept, UNCHANGED <<functors>>,
         \A c \in Conns, m \in Msgs : Written(c, m)' => Written(c, m)
  PROVE  WaitingPast' /\ WaitingInOrder' /\ WaitingApart' /\ WrittenPast' /\ WrittenBefore'
<1>1. \A l, i, m : Waits(l, i, m)' <=> Waits(l, i, m)
  BY DEF Waits
<1>2. ASSUME NEW l \in Loops, NEW m \in Msgs, NEW i, Waits(l, i, m) PROVE Past(m)
  BY <1>2 DEF OrderInv, WaitingPast, Waits
<1>3. WaitingPast'
  <2> SUFFICES ASSUME NEW l \in Loops, NEW m \in Msgs, NEW i, Waits(l, i, m)' PROVE Past(m)'
    BY DEF WaitingPast
  <2> QED
    BY <1>1, <1>2 DEF PastKept
<1>4. WaitingInOrder'
  <2> SUFFICES ASSUME NEW l \in Loops, NEW m \in Msgs, NEW n \in Msgs,
                      NEW i \in DOMAIN functors'[l], NEW j \in DOMAIN functors'[l],
                      Waits(l, i, m)', Waits(l, j, n)', i < j
               PROVE  Place(m)' < Place(n)'
    BY DEF WaitingInOrder
  <2>1. Waits(l, i, m) /\ Waits(l, j, n)
    BY <1>1
  <2>2. Place(m) < Place(n)
    BY <2>1 DEF WaitingInOrder, OrderInv, Waits
  <2> QED
    BY <1>2, <2>1, <2>2 DEF PastKept
<1>5. WaitingApart'
  BY <1>1 DEF WaitingApart, OrderInv
<1>6. WrittenPast'
  BY DEF PastKept, WrittenPast, OrderInv
<1>7. \A c \in Conns, m \in Msgs : Written(c, m) => Past(m)
  BY DEF OrderInv, WrittenPast
<1>8. WrittenBefore'
  <2> SUFFICES ASSUME NEW c \in Conns, NEW l \in Loops, NEW m \in Msgs, NEW n \in Msgs,
                      NEW i \in DOMAIN functors'[l], Written(c, m)', Waits(l, i, n)'
               PROVE  n # m /\ (l = LoopOf[c] => Place(m)' < Place(n)')
    BY DEF WrittenBefore
  <2>1. Written(c, m) /\ Waits(l, i, n)
    BY <1>1
  <2>2. n # m /\ (l = LoopOf[c] => Place(m) < Place(n))
    BY <2>1 DEF WrittenBefore, OrderInv, Waits
  <2> QED
    BY <1>2, <1>7, <2>1, <2>2 DEF PastKept
<1> QED
  BY <1>3, <1>4, <1>5, <1>6, <1>8

LEMMA OrderStarts == Init => OrderInv
<1> SUFFICES ASSUME Init PROVE OrderInv
  OBVIOUS
<1>1. published = <<>> /\ channel = <<>> /\ observer.step \in {"recv", "dead"}
  BY DEF Init, Waiting, Dead
<1>2. PublishedOnce /\ ChannelIsRest /\ ObserverAtLast
  BY <1>1 DEF PublishedOnce, ChannelIsRest, ObserverAtLast, AtMessage
<1>3. \A l \in Loops : functors[l] = <<>>
  BY DEF Init
<1>4. \A l \in Loops : \A i, m : ~ Waits(l, i, m)
  BY <1>3 DEF Waits
<1>5. \A c \in Conns : \A m : ~ Written(c, m)
  BY DEF Init, Written, Elements
<1> QED
  BY <1>2, <1>4, <1>5 DEF OrderInv, WaitingPast, WaitingInOrder, WaitingApart, WrittenPast,
     WrittenBefore

\* A step that leaves the channel and the observer alone.
LEMMA PathSame ==
  ASSUME TypeOK, OrderInv, UNCHANGED <<published, channel, observer>>
  PROVE  /\ PastKept /\ PublishedOnce' /\ ChannelIsRest' /\ ObserverAtLast'
         /\ \A m : Place(m)' = Place(m) /\ (Past(m)' <=> Past(m))
<1>1. \A m : Place(m)' = Place(m) /\ (m \in Elements(published)' <=> m \in Elements(published))
  BY PlaceSame
<1>2. Taken' = Taken /\ (AtMessage' <=> AtMessage)
  BY DEF Taken, AtMessage
<1>3. \A m : Past(m)' <=> Past(m)
  BY <1>1, <1>2 DEF Past
<1>4. PastKept
  BY <1>1, <1>3 DEF PastKept
<1>5. PublishedOnce' /\ ChannelIsRest'
  BY <1>2 DEF OrderInv, PublishedOnce, ChannelIsRest
<1>6. ObserverAtLast'
  <2> SUFFICES ASSUME NEW m \in Msgs, AtMessage', observer'.msg = m
               PROVE  m \in Elements(published)' /\ Place(m)' = Taken'
    BY DEF ObserverAtLast
  <2> QED
    BY <1>1, <1>2 DEF OrderInv, ObserverAtLast
<1> QED
  BY <1>1, <1>3, <1>4, <1>5, <1>6

LEMMA WrittenSame ==
  ASSUME UNCHANGED out
  PROVE  \A c \in Conns, m \in Msgs : Written(c, m)' => Written(c, m)
BY DEF Written, Elements, MsgLine

LEMMA BindWrites ==
  ASSUME TypeOK, NEW l \in Loops, BINDReturns(l)
  PROVE  \A c \in Conns, m \in Msgs : Written(c, m)' => Written(c, m)
<1>1. PICK d \in Conns, u \in Users : handler[l].conn = d /\ handler[l].arg = u
  BY BlockedConn DEF BINDReturns, BlockedIn, Idle
<1>2. out' = [out EXCEPT ![d] = Append(out[d], UidLine(u))]
  BY <1>1 DEF BINDReturns, Write
<1> SUFFICES ASSUME NEW c \in Conns, NEW m \in Msgs, Written(c, m)' PROVE Written(c, m)
  OBVIOUS
<1>3. PICK i \in DOMAIN out'[c] : out'[c][i] = MsgLine(m)
  BY DEF Written, Elements, MsgLine
<1>4. out[c] \in Seq(Line) /\ MsgLine(m) # UidLine(u)
  BY DEF TypeOK, MsgLine, UidLine
<1>5. i \in DOMAIN out[c] /\ out[c][i] = MsgLine(m)
  <2>1. CASE c # d
    BY <1>2, <1>3, <2>1 DEF TypeOK
  <2>2. CASE c = d
    <3>1. out'[c] = Append(out[c], UidLine(u))
      BY <1>2, <2>2 DEF TypeOK
    <3> QED
      BY <1>3, <1>4, <3>1
  <2> QED
    BY <2>1, <2>2
<1> QED
  BY <1>5 DEF Written, Elements

LEMMA PublishOrder ==
  ASSUME TypeOK, OrderInv, NEW x \in Msgs, Publish(x)
  PROVE  OrderInv'
<1>1. /\ PublishedOnce'
      /\ \A m \in Elements(published) : m \in Elements(published)' /\ Place(m)' = Place(m)
  BY PublishPlace DEF OrderInv
<1>2. /\ published \in Seq(Msgs) /\ channel \in Seq(Msgs)
      /\ published' = Append(published, x) /\ channel' = Append(channel, x)
      /\ UNCHANGED <<functors, observer, out>>
  BY DEF TypeOK, Publish
<1>3. Taken' = Taken /\ (AtMessage' <=> AtMessage)
  BY <1>2 DEF Taken, AtMessage
<1>4. PastKept
  <2> SUFFICES ASSUME NEW m \in Msgs, Past(m) PROVE Past(m)' /\ Place(m)' = Place(m)
    BY DEF PastKept
  <2> QED
    BY <1>1, <1>3 DEF Past
<1>5. ChannelIsRest'
  <2>1. Len(channel) <= Len(published) /\ \A i \in DOMAIN channel : channel[i] = published[Taken + i]
    BY DEF OrderInv, ChannelIsRest
  <2>2. Len(channel') <= Len(published')
    BY <1>2, <2>1
  <2>3. ASSUME NEW i \in DOMAIN channel' PROVE channel'[i] = published'[Taken + i]
    <3>1. CASE i \in DOMAIN channel
      <4>1. Taken + i \in DOMAIN published
        BY <1>2, <2>1, <3>1 DEF Taken
      <4> QED
        BY <1>2, <2>1, <3>1, <4>1
    <3>2. CASE i = Len(channel) + 1
      BY <1>2, <2>1, <3>2 DEF Taken
    <3>3. i \in DOMAIN channel \/ i = Len(channel) + 1
      BY <1>2
    <3> QED
      BY <3>1, <3>2, <3>3
  <2> QED
    BY <1>3, <2>2, <2>3 DEF ChannelIsRest
<1>6. ObserverAtLast'
  <2> SUFFICES ASSUME NEW m \in Msgs, AtMessage', observer'.msg = m
               PROVE  m \in Elements(published)' /\ Place(m)' = Taken'
    BY DEF ObserverAtLast
  <2> QED
    BY <1>1, <1>2, <1>3 DEF OrderInv, ObserverAtLast
<1> QED
  BY <1>1, <1>2, <1>4, <1>5, <1>6, OrderCarried, WrittenSame DEF OrderInv

LEMMA LookupOrder ==
  ASSUME TypeOK, OrderInv, ObserverLookup
  PROVE  OrderInv'
<1>1. /\ published \in Seq(Msgs) /\ channel \in Seq(Msgs) /\ channel # <<>>
      /\ channel' = Tail(channel) /\ UNCHANGED <<published, functors, out>>
      /\ ~ AtMessage /\ (AtMessage' => observer'.msg = Head(channel))
  BY DEF TypeOK, ObserverLookup, AtMessage, Waiting
<1>2. \A m : Place(m)' = Place(m) /\ (m \in Elements(published)' <=> m \in Elements(published))
  BY <1>1, PlaceSame
<1>3. Len(channel') = Len(channel) - 1 /\ Len(channel) \in Nat \ {0} /\ Len(published) \in Nat
      /\ \A i \in DOMAIN channel' : i + 1 \in DOMAIN channel /\ channel'[i] = channel[i + 1]
  BY <1>1
<1>4. Taken' = Taken + 1
  BY <1>1, <1>3 DEF Taken
<1>5. Len(channel) <= Len(published) /\ \A i \in DOMAIN channel : channel[i] = published[Taken + i]
  BY DEF OrderInv, ChannelIsRest
<1>6. PastKept
  <2> SUFFICES ASSUME NEW m \in Msgs, Past(m) PROVE Past(m)' /\ Place(m)' = Place(m)
    BY DEF PastKept
  <2>1. Place(m) \in Nat
    BY <1>3, PlaceIn DEF Past
  <2>2. Taken \in Int
    BY <1>3 DEF Taken
  <2> QED
    BY <1>2, <1>4, <2>1, <2>2 DEF Past
<1>7. ChannelIsRest'
  <2>1. \A i \in DOMAIN channel' : channel'[i] = published'[Taken' + i]
    <3> SUFFICES ASSUME NEW i \in DOMAIN channel' PROVE channel'[i] = published[Taken + (i + 1)]
      BY <1>1, <1>3, <1>4 DEF Taken
    <3> QED
      BY <1>3, <1>5
  <2> QED
    BY <1>1, <1>3, <1>5, <2>1 DEF ChannelIsRest
<1>8. ObserverAtLast'
  <2> SUFFICES ASSUME NEW m \in Msgs, AtMessage', observer'.msg = m
               PROVE  m \in Elements(published)' /\ Place(m)' = Taken'
    BY DEF ObserverAtLast
  <2>1. m = channel[1] /\ 1 \in DOMAIN channel
    BY <1>1
  <2>2. m = published[Taken + 1] /\ Taken + 1 \in DOMAIN published
    BY <1>1, <1>3, <1>5, <2>1 DEF Taken
  <2>3. Place(m) = Taken + 1 /\ m \in Elements(published)
    BY <2>2, PlaceOf DEF OrderInv, Elements
  <2> QED
    BY <1>2, <1>4, <2>3
<1>9. PublishedOnce'
  BY <1>1 DEF OrderInv, PublishedOnce
<1> QED
  BY <1>1, <1>6, <1>7, <1>8, <1>9, OrderCarried, WrittenSame DEF OrderInv

\* The observer is at no message any more, and has perhaps lost the channel.
LEMMA ObserverLeaves ==
  ASSUME TypeOK, OrderInv, UNCHANGED published, channel' = channel \/ channel' = <<>>,
         ~ AtMessage'
  PROVE  PastKept /\ PublishedOnce' /\ ChannelIsRest' /\ ObserverAtLast' /\ Taken' >= Taken
<1>1. published \in Seq(Msgs) /\ channel \in Seq(Msgs) /\ Len(<<>>) = 0
  BY DEF TypeOK
<1>2. \A m : Place(m)' = Place(m) /\ (m \in Elements(published)' <=> m \in Elements(published))
  BY PlaceSame
<1>3. Taken' >= Taken /\ Taken \in Int /\ Taken' \in Int
  BY <1>1 DEF Taken
<1>4. PastKept
  <2> SUFFICES ASSUME NEW m \in Msgs, Past(m) PROVE Past(m)' /\ Place(m)' = Place(m)
    BY DEF PastKept
  <2>1. Place(m) \in Nat
    BY PlaceIn DEF Past
  <2> QED
    BY <1>2, <1>3, <2>1 DEF Past
<1>5. ChannelIsRest'
  <2>1. CASE channel' = channel
    BY <2>1 DEF OrderInv, ChannelIsRest, Taken
  <2>2. CASE channel' = <<>>
    BY <1>1, <2>2 DEF ChannelIsRest
  <2> QED
    BY <2>1, <2>2
<1> QED
  BY <1>3, <1>4, <1>5 DEF OrderInv, PublishedOnce, ObserverAtLast

LEMMA EraseOrder ==
  ASSUME TypeOK, OrderInv, ObserverErase \/ SubscriptionLost
  PROVE  OrderInv'
<1>1. /\ UNCHANGED <<published, functors, out>> /\ (channel' = channel \/ channel' = <<>>)
      /\ ~ AtMessage'
  BY DEF ObserverErase, SubscriptionLost, AtMessage, Waiting, Dead
<1> QED
  BY <1>1, ObserverLeaves, OrderCarried, WrittenSame DEF OrderInv

LEMMA RestartOrder ==
  ASSUME TypeOK, OrderInv, Restart
  PROVE  OrderInv'
<1>1. /\ UNCHANGED <<published, out>> /\ channel' = <<>> /\ ~ AtMessage'
      /\ \A l \in Loops : functors'[l] = <<>>
  BY DEF Restart, AtMessage, Waiting, Dead
<1>2. PastKept /\ PublishedOnce' /\ ChannelIsRest' /\ ObserverAtLast'
  BY <1>1, ObserverLeaves
<1>3. \A l \in Loops : \A i, m : ~ Waits(l, i, m)'
  BY <1>1 DEF Waits
<1>4. WrittenPast'
  BY <1>1, <1>2, WrittenSame DEF PastKept, WrittenPast, OrderInv
<1> QED
  BY <1>2, <1>3, <1>4 DEF OrderInv, WaitingPast, WaitingInOrder, WaitingApart, WrittenBefore

\* The message the observer is at was published after all those that wait or were
\* written.
LEMMA PostOrder ==
  ASSUME TypeOK, OrderInv, ObserverPost
  PROVE  OrderInv'
<1>1. PICK c \in Conns, x \in Msgs : observer.conn = c /\ observer.msg = x
  BY DEF TypeOK, Observer, ObserverPost, Waiting, Dead
<1>2. PICK k \in Loops : k = LoopOf[c]
  BY GatewayAssumption
<1>3. /\ functors' = [functors EXCEPT ![k] = Append(@, [conn |-> c, msg |-> x])]
      /\ UNCHANGED <<published, channel, out>> /\ AtMessage /\ ~ AtMessage'
  BY <1>1, <1>2 DEF ObserverPost, AtMessage, Waiting
<1>4. x \in Elements(published) /\ Place(x) = Taken
  BY <1>1, <1>3 DEF OrderInv, ObserverAtLast
<1>5. PastKept /\ PublishedOnce' /\ ChannelIsRest' /\ ObserverAtLast'
  BY <1>3, ObserverLeaves
<1>6. \A m : Place(m)' = Place(m) /\ (m \in Elements(published)' <=> m \in Elements(published))
  BY <1>3, PlaceSame
<1>7. Past(x)'
  <2>1. Taken' = Taken
    BY <1>3 DEF Taken
  <2>2. Place(x) \in Nat
    BY <1>4, PlaceIn
  <2> QED
    BY <1>3, <1>4, <1>6, <2>1, <2>2 DEF Past
<1>8. ASSUME NEW l \in Loops, NEW i, NEW m, Waits(l, i, m)'
      PROVE  Waits(l, i, m) \/ (l = k /\ i = Len(functors[k]) + 1 /\ m = x)
  <2>1. functors[l] \in Seq(Functor)
    BY DEF TypeOK
  <2>2. CASE l # k
    BY <1>3, <1>8, <2>2 DEF Waits, TypeOK
  <2>3. CASE l = k
    <3>1. functors'[l] = Append(functors[l], [conn |-> c, msg |-> x])
      BY <1>3, <2>3 DEF TypeOK
    <3>2. i \in 1..(Len(functors[l]) + 1) /\ functors'[l][i].msg = m
      BY <1>8, <2>1, <3>1 DEF Waits
    <3>3. CASE i = Len(functors[l]) + 1
      BY <2>1, <2>3, <3>1, <3>2, <3>3
    <3>4. CASE i \in 1..Len(functors[l])
      BY <2>1, <3>1, <3>2, <3>4 DEF Waits
    <3> QED
      BY <2>1, <3>2, <3>3, <3>4
  <2> QED
    BY <2>2, <2>3
<1>9. ASSUME NEW l \in Loops, NEW i, NEW m \in Msgs, Waits(l, i, m)
      PROVE  /\ Past(m)' /\ Place(m) < Place(x) /\ m # x
             /\ i \in DOMAIN functors[l] /\ i < Len(functors[l]) + 1
  <2>1. Past(m) /\ i \in DOMAIN functors[l]
    BY <1>9 DEF Waits, OrderInv, WaitingPast
  <2>2. functors[l] \in Seq(Functor)
    BY DEF TypeOK
  <2>3. Place(m) < Place(x) /\ Place(m) \in Nat
    BY <1>3, <1>4, <2>1, PlaceIn DEF Past
  <2>4. m # x
    BY <2>3
  <2> QED
    BY <1>5, <2>1, <2>2, <2>3, <2>4 DEF PastKept
<1>10. WaitingPast'
  <2> SUFFICES ASSUME NEW l \in Loops, NEW m \in Msgs, NEW i, Waits(l, i, m)' PROVE Past(m)'
    BY DEF WaitingPast
  <2> QED
    BY <1>7, <1>8, <1>9
<1>11. WaitingInOrder'
  <2> SUFFICES ASSUME NEW l \in Loops, NEW m \in Msgs, NEW n \in Msgs,
                      NEW i \in DOMAIN functors'[l], NEW j \in DOMAIN functors'[l],
                      Waits(l, i, m)', Waits(l, j, n)', i < j
               PROVE  Place(m) < Place(n)
    BY <1>6 DEF WaitingInOrder
  <2>1. CASE Waits(l, i, m) /\ Waits(l, j, n)
    BY <1>9, <2>1 DEF OrderInv, WaitingInOrder
  <2>2. CASE Waits(l, i, m) /\ n = x
    BY <1>9, <2>2
  <2>3. ASSUME l = k, i = Len(functors[k]) + 1 PROVE FALSE
    <3>1. functors[l] \in Seq(Functor)
      BY DEF TypeOK
    <3>2. j \in DOMAIN functors[l] \/ j = Len(functors[l]) + 1
      BY <1>8, <1>9, <2>3
    <3> QED
      BY <2>3, <3>1, <3>2
  <2> QED
    BY <1>8, <2>1, <2>2, <2>3
<1>12. WaitingApart'
  <2> SUFFICES ASSUME NEW l \in Loops, NEW h \in Loops, NEW m \in Msgs, NEW i, NEW j,
                      Waits(l, i, m)', Waits(h, j, m)'
               PROVE  l = h
    BY DEF WaitingApart
  <2>1. CASE m = x
    BY <1>8, <1>9, <2>1
  <2>2. CASE m # x
    <3>1. Waits(l, i, m) /\ Waits(h, j, m)
      BY <1>8, <2>2
    <3> QED
      BY <1>9, <3>1 DEF OrderInv, WaitingApart
  <2> QED
    BY <2>1, <2>2
<1>13. ASSUME NEW c1 \in Conns, NEW m \in Msgs, Written(c1, m)'
       PROVE  Written(c1, m) /\ Past(m) /\ Past(m)' /\ Place(m) < Place(x) /\ m # x
  <2>1. Written(c1, m) /\ Past(m)
    BY <1>3, <1>13, WrittenSame DEF OrderInv, WrittenPast
  <2>2. Place(m) < Place(x) /\ Place(m) \in Nat
    BY <1>3, <1>4, <2>1, PlaceIn DEF Past
  <2>3. m # x
    BY <2>2
  <2> QED
    BY <1>5, <2>1, <2>2, <2>3 DEF PastKept
<1>14. WrittenPast'
  BY <1>13 DEF WrittenPast
<1>15. WrittenBefore'
  <2> SUFFICES ASSUME NEW d \in Conns, NEW l \in Loops, NEW m \in Msgs, NEW n \in Msgs,
                      NEW i \in DOMAIN functors'[l], Written(d, m)', Waits(l, i, n)'
               PROVE  n # m /\ (l = LoopOf[d] => Place(m) < Place(n))
    BY <1>6 DEF WrittenBefore
  <2>1. CASE Waits(l, i, n)
    BY <1>9, <1>13, <2>1 DEF OrderInv, WrittenBefore
  <2>2. CASE n = x
    BY <1>13, <2>2
  <2> QED
    BY <1>8, <2>1, <2>2
<1> QED
  BY <1>5, <1>10, <1>11, <1>12, <1>14, <1>15 DEF OrderInv

\* What a functor of thread l writes was ahead of all that is left on it.
LEMMA FunctorTaken ==
  ASSUME TypeOK, GatewayInv, NEW l \in Loops, RunFunctor(l)
  PROVE  \E d \in Conns, x \in Msgs :
           /\ LoopOf[d] = l /\ Vouched(d, To[x]) /\ Waits(l, 1, x)
           /\ out' = [out EXCEPT ![d] = Append(@, MsgLine(x))] \/ UNCHANGED out
           /\ \A k \in Loops : \A i, m : Waits(k, i, m)' =>
                \/ k # l /\ Waits(k, i, m)
                \/ k = l /\ i \in Nat \ {0} /\ Waits(l, i + 1, m)
<1>1. functors[l] \in Seq(Functor) /\ functors[l] # <<>> /\ functors \in [Loops -> Seq(Functor)]
  BY DEF TypeOK, RunFunctor
<1>2. functors[l][1] \in Functor /\ 1 \in DOMAIN functors[l] /\ Head(functors[l]) = functors[l][1]
  BY <1>1
<1>3. PICK d \in Conns, x \in Msgs : functors[l][1].conn = d /\ functors[l][1].msg = x
  BY <1>2 DEF Functor
<1>4. Waits(l, 1, x)
  BY <1>2, <1>3 DEF Waits
<1>5. LoopOf[d] = l /\ Vouched(d, To[x])
  BY <1>2, <1>3 DEF GatewayInv, FunctorsVouched, FunctorVouched
<1>6. out' = [out EXCEPT ![d] = Append(@, MsgLine(x))] \/ UNCHANGED out
  BY <1>2, <1>3 DEF RunFunctor, Write
<1>7. ASSUME NEW k \in Loops, NEW i, NEW m, Waits(k, i, m)'
      PROVE  \/ k # l /\ Waits(k, i, m)
             \/ k = l /\ i \in Nat \ {0} /\ Waits(l, i + 1, m)
  <2>1. functors' = [functors EXCEPT ![l] = Tail(functors[l])]
    BY DEF RunFunctor
  <2>2. CASE k # l
    BY <1>1, <1>7, <2>1, <2>2 DEF Waits
  <2>3. CASE k = l
    <3>1. functors'[l] = Tail(functors[l])
      BY <1>1, <2>1
    <3>2. i \in DOMAIN Tail(functors[l]) /\ Tail(functors[l])[i].msg = m
      BY <1>7, <2>3, <3>1 DEF Waits
    <3>3. i \in Nat \ {0} /\ i + 1 \in DOMAIN functors[l] /\ functors[l][i + 1].msg = m
      BY <1>1, <3>2
    <3> QED
      BY <2>3, <3>3 DEF Waits
  <2> QED
    BY <2>2, <2>3
<1> QED
  BY <1>4, <1>5, <1>6, <1>7

LEMMA RunFunctorOrder ==
  ASSUME TypeOK, GatewayInv, OrderInv, NEW l \in Loops, RunFunctor(l)
  PROVE  OrderInv'
<1>1. PICK d \in Conns, x \in Msgs :
        /\ LoopOf[d] = l /\ Waits(l, 1, x)
        /\ out' = [out EXCEPT ![d] = Append(@, MsgLine(x))] \/ UNCHANGED out
        /\ \A k \in Loops : \A i, m : Waits(k, i, m)' =>
             \/ k # l /\ Waits(k, i, m)
             \/ k = l /\ i \in Nat \ {0} /\ Waits(l, i + 1, m)
  BY FunctorTaken
<1>2. /\ PastKept /\ PublishedOnce' /\ ChannelIsRest' /\ ObserverAtLast'
      /\ \A m : Place(m)' = Place(m) /\ (Past(m)' <=> Past(m))
  BY PathSame DEF RunFunctor
<1>3. \A k \in Loops : \A i, m : Waits(k, i, m) => i \in DOMAIN functors[k]
  BY DEF Waits
<1>4. ASSUME NEW c \in Conns, NEW m \in Msgs, Written(c, m)'
      PROVE  Written(c, m) \/ (c = d /\ m = x)
  <2>1. PICK i \in DOMAIN out'[c] : out'[c][i] = MsgLine(m)
    BY <1>4 DEF Written, Elements, MsgLine
  <2>2. CASE UNCHANGED out \/ c # d
    <3>1. out'[c] = out[c]
      BY <1>1, <2>2 DEF TypeOK
    <3> QED
      BY <2>1, <3>1 DEF Written, Elements
  <2>3. CASE c = d /\ out' = [out EXCEPT ![d] = Append(@, MsgLine(x))]
    <3>1. out[d] \in Seq(Line) /\ out'[c] = Append(out[d], MsgLine(x))
      BY <2>3 DEF TypeOK
    <3>2. i \in 1..(Len(out[d]) + 1)
      BY <2>1, <3>1
    <3>3. CASE i = Len(out[d]) + 1
      BY <2>1, <2>3, <3>1, <3>3 DEF MsgLine
    <3>4. CASE i \in 1..Len(out[d])
      BY <2>1, <2>3, <3>1, <3>4 DEF Written, Elements
    <3> QED
      BY <3>1, <3>2, <3>3, <3>4
  <2> QED
    BY <1>1, <2>2, <2>3
<1>5. WaitingPast'
  <2> SUFFICES ASSUME NEW k \in Loops, NEW m \in Msgs, NEW i, Waits(k, i, m)' PROVE Past(m)
    BY <1>2 DEF WaitingPast
  <2>1. PICK j : Waits(k, j, m)
    BY <1>1
  <2> QED
    BY <1>3, <2>1 DEF OrderInv, WaitingPast
<1>6. WaitingInOrder'
  <2> SUFFICES ASSUME NEW k \in Loops, NEW m \in Msgs, NEW n \in Msgs,
                      NEW i, NEW j, Waits(k, i, m)', Waits(k, j, n)', i < j
               PROVE  Place(m) < Place(n)
    BY <1>2 DEF WaitingInOrder
  <2>1. CASE k # l
    <3>1. Waits(k, i, m) /\ Waits(k, j, n)
      BY <1>1, <2>1
    <3> QED
      BY <1>3, <3>1 DEF OrderInv, WaitingInOrder
  <2>2. CASE k = l
    <3>1. /\ i \in Nat /\ j \in Nat /\ Waits(k, i + 1, m) /\ Waits(k, j + 1, n)
      BY <1>1, <2>2
    <3>2. i + 1 < j + 1
      BY <3>1
    <3> QED
      BY <1>3, <3>1, <3>2 DEF OrderInv, WaitingInOrder
  <2> QED
    BY <2>1, <2>2
<1>7. WaitingApart'
  <2> SUFFICES ASSUME NEW k \in Loops, NEW h \in Loops, NEW m \in Msgs, NEW i, NEW j,
                      Waits(k, i, m)', Waits(h, j, m)'
               PROVE  k = h
    BY DEF WaitingApart
  <2>1. PICK i1, j1 : Waits(k, i1, m) /\ Waits(h, j1, m)
    BY <1>1
  <2> QED
    BY <1>3, <2>1 DEF OrderInv, WaitingApart
<1>8. Past(x)
  BY <1>1, <1>3 DEF OrderInv, WaitingPast
<1>9. WrittenPast'
  <2> SUFFICES ASSUME NEW c \in Conns, NEW m \in Msgs, Written(c, m)' PROVE Past(m)
    BY <1>2 DEF WrittenPast
  <2> QED
    BY <1>4, <1>8 DEF OrderInv, WrittenPast
<1>10. ASSUME NEW k \in Loops, NEW n \in Msgs, NEW i, Waits(k, i, n)'
       PROVE  n # x /\ (k = l => Place(x) < Place(n))
  <2>1. CASE k # l
    <3>1. Waits(k, i, n)
      BY <1>1, <1>10, <2>1
    <3> QED
      BY <1>1, <1>3, <2>1, <3>1 DEF OrderInv, WaitingApart
  <2>2. CASE k = l
    <3>1. i \in Nat \ {0} /\ Waits(l, i + 1, n)
      BY <1>1, <1>10, <2>2
    <3>2. 1 < i + 1
      BY <3>1
    <3>3. Place(x) < Place(n)
      BY <1>1, <1>3, <3>1, <3>2 DEF OrderInv, WaitingInOrder
    <3>4. Place(x) \in Nat
      BY <1>8, PlaceIn DEF Past
    <3> QED
      BY <3>3, <3>4
  <2> QED
    BY <2>1, <2>2
<1>11. WrittenBefore'
  <2> SUFFICES ASSUME NEW c \in Conns, NEW k \in Loops, NEW m \in Msgs, NEW n \in Msgs,
                      NEW i, Written(c, m)', Waits(k, i, n)'
               PROVE  n # m /\ (k = LoopOf[c] => Place(m) < Place(n))
    BY <1>2 DEF WrittenBefore
  <2>1. CASE c = d /\ m = x
    BY <1>1, <1>10, <2>1
  <2>2. CASE Written(c, m)
    <3>1. CASE k # l
      <4>1. Waits(k, i, n)
        BY <1>1, <3>1
      <4> QED
        BY <1>3, <2>2, <4>1 DEF OrderInv, WrittenBefore
    <3>2. CASE k = l
      <4>1. Waits(k, i + 1, n)
        BY <1>1, <3>2
      <4> QED
        BY <1>3, <2>2, <4>1 DEF OrderInv, WrittenBefore
    <3> QED
      BY <3>1, <3>2
  <2> QED
    BY <1>4, <2>1, <2>2
<1> QED
  BY <1>2, <1>5, <1>6, <1>7, <1>9, <1>11 DEF OrderInv

(* The other steps write at most the reply of a login.                      *)
LEMMA OtherSteps ==
  ASSUME [Next]_vars
  PROVE  \/ UNCHANGED <<published, channel, observer, functors, out>>
         \/ UNCHANGED <<published, channel, observer, functors>>
              /\ \E l \in Loops : BINDReturns(l)
         \/ \E m \in Msgs : Publish(m)
         \/ \E l \in Loops : RunFunctor(l)
         \/ Observe \/ SubscriptionLost \/ Restart
<1>1. ASSUME NEW l \in Loops, NEW ok \in BOOLEAN, NEW u \in Users,
             REGISTERReturns(l, ok, u) \/ LOGINReturns(l, ok, u)
      PROVE  UNCHANGED <<published, channel, observer, functors, out>>
  BY <1>1 DEF REGISTERReturns, LOGINReturns
<1>2. ASSUME NEW l \in Loops, NEW ok \in BOOLEAN, LOGOUTReturns(l, ok)
      PROVE  UNCHANGED <<published, channel, observer, functors, out>>
  BY <1>2 DEF LOGOUTReturns
<1>3. ASSUME NEW l \in Loops, SENDReturns(l) \/ PULLReturns(l) \/ ForwardedReturns(l)
                                \/ CloseReturns(l)
      PROVE  UNCHANGED <<published, channel, observer, functors, out>>
  BY <1>3 DEF SENDReturns, PULLReturns, ForwardedReturns, CloseReturns, AnswerReturns
<1>4. ASSUME NEW l \in Loops, BINDReturns(l)
      PROVE  UNCHANGED <<published, channel, observer, functors>>
  BY <1>4 DEF BINDReturns
<1>5. CASE Receive
  <2>1. ASSUME NEW c, NEW step, NEW arg, Command(c, step, arg)
        PROVE  UNCHANGED <<published, channel, observer, functors, out>>
    BY <2>1 DEF Command
  <2> QED
    BY <1>5, <2>1 DEF Receive, RecvREGISTER, RecvLOGIN, RecvSEND, RecvPULL, RecvLOGOUT,
       RecvForwarded
<1>6. CASE Connection
  BY <1>6 DEF Connection, ConnUp, ConnDown, ConnDestroyed
<1>7. ASSUME NEW l \in Loops, Answer(l)
      PROVE  \/ UNCHANGED <<published, channel, observer, functors, out>>
             \/ BINDReturns(l)
  BY <1>1, <1>2, <1>3, <1>7 DEF Answer
<1>8. CASE UNCHANGED vars
  BY <1>8 DEF vars
<1> QED
  BY <1>4, <1>5, <1>6, <1>7, <1>8 DEF Next

LEMMA OrderKept ==
  ASSUME TypeOK, GatewayInv, OrderInv, [Next]_vars
  PROVE  OrderInv'
<1>1. ASSUME UNCHANGED <<published, channel, observer, functors>>,
             \A c \in Conns, m \in Msgs : Written(c, m)' => Written(c, m)
      PROVE  OrderInv'
  BY <1>1, PathSame, OrderCarried DEF OrderInv
<1> QED
  BY <1>1, OtherSteps, WrittenSame, BindWrites, PublishOrder, LookupOrder, PostOrder,
     EraseOrder, RunFunctorOrder, RestartOrder DEF Observe

\* The order of the messages on every path they take (gatewayServer.cc:133-170).
THEOREM OrderInvariant == Spec => []OrderInv
BY OrderStarts, OrderKept, GatewayTypeCorrect, GatewayInvariant, PTL DEF Spec

\* A functor that writes makes the step Push of the channel, the others leave it alone.
LEMMA FunctorPushes ==
  ASSUME TypeOK, GatewayInv, OrderInv, NEW l \in Loops, RunFunctor(l)
  PROVE  Push!Next \/ UNCHANGED <<published, out>>
<1>1. PICK d \in Conns, x \in Msgs :
        /\ LoopOf[d] = l /\ Vouched(d, To[x]) /\ Waits(l, 1, x)
        /\ out' = [out EXCEPT ![d] = Append(@, MsgLine(x))] \/ UNCHANGED out
  BY FunctorTaken
<1>2. UNCHANGED published /\ handler[l] = Idle
  BY DEF RunFunctor
<1>3. CASE UNCHANGED out
  BY <1>2, <1>3
<1>4. CASE out' = [out EXCEPT ![d] = Append(@, MsgLine(x))]
  <2>1. 1 \in DOMAIN functors[l] /\ x \in Elements(published)
    BY <1>1 DEF Waits, OrderInv, WaitingPast, Past
  <2>2. Greeted(d, To[x])
    BY <1>1, <1>2 DEF Vouched, Entering, Idle
  <2>3. To[x] \in Push!Greeted(d)
    BY <2>2, GatewayAssumption
       DEF Greeted, Push!Greeted, Elements, Push!Elements, UidLine, Push!UidLine
  <2>4. ASSUME NEW c \in Conns, NEW m \in Msgs, m \in Push!Pushed(c) PROVE Written(c, m)
    BY <2>4 DEF Push!Pushed, Written, Elements, Push!Elements, MsgLine, Push!MsgLine
  <2>5. \A c \in Conns : x \notin Push!Pushed(c)
    BY <1>1, <2>1, <2>4 DEF OrderInv, WrittenBefore
  <2>6. \A n \in Push!Pushed(d) : Push!Position(n) < Push!Position(x)
    <3> SUFFICES ASSUME NEW n \in Push!Pushed(d) PROVE Place(n) < Place(x)
      BY DEF Place
    <3>1. n \in Msgs
      BY DEF Push!Pushed
    <3> QED
      BY <1>1, <2>1, <2>4, <3>1 DEF OrderInv, WrittenBefore
  <2>7. Push!Push(d, x)
    BY <1>2, <1>4, <2>1, <2>3, <2>5, <2>6
       DEF Push!Push, Push!Write, Elements, Push!Elements, MsgLine, Push!MsgLine
  <2> QED
    BY <2>7 DEF Push!Next
<1> QED
  BY <1>1, <1>3, <1>4

LEMMA StepPromised ==
  ASSUME TypeOK, GatewayInv, OrderInv, [Next]_vars
  PROVE  Push!Next \/ UNCHANGED <<published, out>>
<1>1. ASSUME NEW l \in Loops, BINDReturns(l), UNCHANGED published PROVE Push!Next
  <2>1. PICK d \in Conns, u \in Users : handler[l].conn = d /\ handler[l].arg = u
    BY <1>1, BlockedConn DEF BINDReturns, BlockedIn, Idle
  <2>2. Push!Greet(d, u)
    BY <1>1, <2>1 DEF BINDReturns, Write, Push!Greet, Push!Write, UidLine, Push!UidLine
  <2> QED
    BY <2>2 DEF Push!Next
<1>2. ASSUME NEW m \in Msgs, Publish(m) PROVE Push!Next
  <2>1. Push!Publish(m)
    BY <1>2 DEF Publish, Push!Publish, Elements, Push!Elements
  <2> QED
    BY <2>1 DEF Push!Next
<1>3. ASSUME Observe \/ SubscriptionLost \/ Restart PROVE UNCHANGED <<published, out>>
  BY <1>3 DEF Observe, ObserverLookup, ObserverErase, ObserverPost, SubscriptionLost, Restart
<1> QED
  BY <1>1, <1>2, <1>3, FunctorPushes, OtherSteps

\* The gateway implements the channel its clients rely on (PushChannel): whatever the
\* interleaving of the observer thread with the IO threads, a message is written to one
\* connection at most and once at most, only after the greeting of its recipient, and to
\* each connection in the order of publication (gatewayServer.cc:133-170).
THEOREM ImplementsPushChannel == Spec => PushesAsPromised
<1>1. Init => Push!Init
  BY DEF Init, Push!Init
<1>2. TypeOK /\ GatewayInv /\ OrderInv /\ [Next]_vars => [Push!Next]_<<published, out>>
  BY StepPromised
<1> QED
  BY <1>1, <1>2, GatewayTypeCorrect, GatewayInvariant, OrderInvariant, PTL
     DEF Spec, Push!Spec, PushesAsPromised
=============================================================================
