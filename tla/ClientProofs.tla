---------------------------- MODULE ClientProofs ----------------------------
(***************************************************************************)
(* Client keeps its types, does not close the descriptor under a thread    *)
(* that uses it, and has a reader as long as it is connected, for any      *)
(* number of lines the user enters and the gateway pushes.                 *)
(***************************************************************************)
EXTENDS Client, TLAPS

Parties == {"main", "reader"}
Over(t) == pc[t] \in {"none", "ended"}
Holds(s, x) == \E i \in DOMAIN s : s[i] = x

(* What stop() and gracefulExit of one thread rest on while the other runs.  *)
ExitSteps == StopSteps \ {"graceful"}

\* Who is in stop() was asked to end, and who has set exiting never comes back.
GoalInv ==
  /\ goal["reader"] \in {"none", "exit"}
  /\ pc["main"] = "graceful" => goal["main"] \in {"return", "graceful"}
  /\ pc["main"] \in ExitSteps => goal["main"] # "none"
  /\ pc["reader"] \in ExitSteps => goal["reader"] = "exit"
  /\ goal["main"] = "exit" => pc["main"] \in ExitSteps
  /\ pc["main"] \in {"disconnect", "report"} => goal["main"] = "exit"
  /\ \A t \in Parties : goal[t] = "exit" => exiting

\* The queue is closed before a thread is joined, and before the reader exits.
ClosedInv ==
  /\ pc["reader"] \in StopSteps => outboxClosed
  /\ pc["main"] \in {"closing", "joinReader", "joinWriter", "close", "notice"} =>
        outboxClosed
  /\ exiting /\ goal["main"] # "exit" /\ pc["main"] # "stuck" => outboxClosed
  /\ pc["main"] = "stop" /\ goal["main"] = "return" => outboxClosed

\* Main closes the descriptor when both other threads are over, for good.
JoinInv ==
  /\ \A t \in joined : pc[t] = "ended"
  /\ pc["main"] = "start" => pc["reader"] = "none"
  /\ pc["main"] \in {"start", "launched", "ready"} => pc["writer"] = "none"
  /\ pc["main"] \in {"launched", "ready"} /\ ended = "no" => fd = "open"
  /\ pc["main"] \in {"joinWriter", "close", "notice"} => Over("reader")
  /\ pc["main"] \in {"close", "notice"} => Over("writer")
  /\ fd # "open" /\ ended = "no" => Over("reader") /\ Over("writer")

\* A reader that finds running_ cleared was started too early or is being stopped.
RunningInv ==
  /\ pc["reader"] \in {"check", "recv"} /\ ~running /\ ended = "no" =>
       pc["main"] = "launched" \/ goal["main"] # "none" \/ exiting
  /\ ReaderAttends

ControlInv == GoalInv /\ ClosedInv /\ JoinInv /\ RunningInv

\* Something was sent that the gateway can answer with "+OK uid=", or has.
Answerable ==
  loggedIn \/ Holds(inbound, "uid") \/ Holds(received, "LOGIN") \/ frame = "LOGIN"

\* Besides what the user entered, the queue holds at most one LOGOUT more than
\* lines were taken from it: stop() adds one to an open queue, and a second only
\* after a signal inside the first.
QueueInv ==
  /\ Len(outbox) <= entered + 1
  /\ (goal["main"] = "exit" => pc["main"] \in {"disconnect", "report", "stop"}) =>
        Len(outbox) <= entered
  /\ (/\ ~outboxClosed /\ goal["main"] # "exit"
      /\ pc["main"] \notin {"logout", "wait", "shut", "stuck"}
      /\ Answerable) => Len(outbox) < entered

LEMMA AppendTyped ==
  ASSUME NEW S, NEW s \in Seq(S), NEW x \in S
  PROVE  Append(s, x) \in Seq(S)
OBVIOUS

LEMMA HoldsAppend ==
  ASSUME NEW S, NEW s \in Seq(S), NEW x \in S, NEW y, Holds(Append(s, x), y)
  PROVE  Holds(s, y) \/ x = y
BY DEF Holds

LEMMA HoldsTail ==
  ASSUME NEW S, NEW s \in Seq(S), s # <<>>
  PROVE  /\ Head(s) \in S /\ Tail(s) \in Seq(S) /\ Holds(s, Head(s))
         /\ \A y : Holds(Tail(s), y) => Holds(s, y)
<1>1. Head(s) = s[1] /\ 1 \in DOMAIN s
  OBVIOUS
<1>2. \A i \in DOMAIN Tail(s) : i + 1 \in DOMAIN s /\ Tail(s)[i] = s[i + 1]
  OBVIOUS
<1> QED
  BY <1>1, <1>2 DEF Holds

LEMMA HoldsNothing == ASSUME NEW x PROVE ~ Holds(<<>>, x)
BY DEF Holds

(* The parts of the type invariant.                                         *)
PlacesTyped ==
  /\ pc \in [Threads -> MainSteps \cup {"none", "check", "recv", "over", "pop",
                                        "send", "ended"}]
  /\ pc["main"] \in MainSteps
  /\ goal \in [Threads -> {"none", "exit", "graceful", "return"}]
  /\ joined \subseteq {"reader", "writer"}
  /\ ended \in {"no", "exit", "abort"}
  /\ fd \in {"none", "open", "stale"}
  /\ outboxLock \in {Nobody, "main", "reader"} /\ ioLock \in {Nobody, "main"}

FlagsTyped ==
  /\ {running, connected, exiting, loggedIn} \subseteq BOOLEAN
  /\ outboxClosed \in BOOLEAN
  /\ shut \in BOOLEAN /\ peerUp \in BOOLEAN
  /\ {unattended, caught} \subseteq BOOLEAN

LinesTyped ==
  /\ outbox \in Seq(Lines)
  /\ frame \in Lines \cup {"none"}
  /\ (frame # "none") <=> (pc["writer"] = "send")
  /\ received \in Seq(Lines)
  /\ inbound \in Seq(Replies)

CountsTyped ==
  /\ entered \in 0..MaxLines /\ pushed \in 0..MaxPushes

LEMMA TypeParts ==
  /\ TypeOK => PlacesTyped /\ FlagsTyped /\ LinesTyped /\ CountsTyped
  /\ PlacesTyped /\ FlagsTyped /\ LinesTyped /\ CountsTyped /\ QueueInv => TypeOK
<1>1. ASSUME LinesTyped, CountsTyped, QueueInv PROVE Len(outbox) <= MaxLines + 1
  <2>1. Len(outbox) \in Nat
    BY <1>1 DEF LinesTyped
  <2> QED
    BY <1>1, <2>1, ClientAssumption DEF CountsTyped, QueueInv
<1> QED
  BY <1>1 DEF TypeOK, PlacesTyped, FlagsTyped, LinesTyped, CountsTyped

-----------------------------------------------------------------------------
LEMMA GoalKept ==
  ASSUME TypeOK, GoalInv, [Next]_vars
  PROVE  GoalInv'
<1> USE DEF TypeOK, Threads, MainSteps, StopSteps, ExitSteps, Parties, Over,
   GoalInv, At, Goto, Push, Stopped, Nobody, flags, shared, socket, peer,
   history
<1>1. CASE ConnectFails
  BY <1>1 DEF ConnectFails
<1>2. CASE StartReader
  BY <1>2 DEF StartReader
<1>3. ASSUME NEW line \in Lines, Command(line) PROVE GoalInv'
  BY <1>3 DEF Command
<1>4. CASE Quit
  BY <1>4 DEF Quit
<1>5. CASE QuitTrimmed
  BY <1>5 DEF QuitTrimmed
<1>6. CASE Signal
  BY <1>6 DEF Signal
<1>7. CASE SignalInJoin
  BY <1>7 DEF SignalInJoin
<1>8. CASE SetRunning
  BY <1>8 DEF SetRunning
<1>9. CASE StartWriter
  BY <1>9 DEF StartWriter
<1>10. CASE PushReturns
  BY <1>10 DEF PushReturns
<1>11. ASSUME NEW t \in Parties, Graceful(t) PROVE GoalInv'
  BY <1>11 DEF Graceful
<1>12. ASSUME NEW t \in Parties, OnDisconnected(t) PROVE GoalInv'
  BY <1>12 DEF OnDisconnected
<1>13. ASSUME NEW t \in Parties, Stop(t) PROVE GoalInv'
  BY <1>13 DEF Stop
<1>14. ASSUME NEW t \in Parties, Waited(t) PROVE GoalInv'
  BY <1>14 DEF Waited
<1>15. ASSUME NEW t \in Parties, Shutdown(t) PROVE GoalInv'
  BY <1>15 DEF Shutdown
<1>16. ASSUME NEW t \in Parties, JoinReader(t) PROVE GoalInv'
  BY <1>16 DEF JoinReader, Join
<1>17. ASSUME NEW t \in Parties, JoinWriter(t) PROVE GoalInv'
  BY <1>17 DEF JoinWriter, Join
<1>18. ASSUME NEW t \in Parties, Close(t) PROVE GoalInv'
  BY <1>18 DEF Close
<1>19. CASE ReaderChecks
  BY <1>19 DEF ReaderChecks
<1>20. CASE Handle
  BY <1>20 DEF Handle
<1>21. CASE ConnectionEnds
  BY <1>21 DEF ConnectionEnds
<1>22. CASE WriterChecks
  BY <1>22 DEF WriterChecks
<1>23. CASE Pop
  BY <1>23 DEF Pop
<1>24. CASE SendFails
  BY <1>24 DEF SendFails
<1>25. CASE Sent
  BY <1>25 DEF Sent
<1>26. CASE GatewayAnswers
  BY <1>26 DEF GatewayAnswers, Connected
<1>27. CASE GatewayPushes
  BY <1>27 DEF GatewayPushes, Connected
<1>28. CASE GatewayCloses
  BY <1>28 DEF GatewayCloses, Connected
<1>29. CASE UNCHANGED vars
  BY <1>29 DEF vars
<1>30. CASE SignalInAllocator
  BY <1>30 DEF SignalInAllocator, Allocating
<1>31. ASSUME NEW t \in Parties, Report(t) PROVE GoalInv'
  BY <1>31 DEF Report
<1>32. ASSUME NEW t \in Parties, LogoutPushed(t) PROVE GoalInv'
  BY <1>32 DEF LogoutPushed
<1>33. ASSUME NEW t \in Parties, CloseQueue(t) PROVE GoalInv'
  BY <1>33 DEF CloseQueue
<1>34. ASSUME NEW t \in Parties, Notice(t) PROVE GoalInv'
  BY <1>34 DEF Notice
<1> QED
  BY <1>1, <1>2, <1>3, <1>4, <1>5, <1>6, <1>7, <1>8, <1>9, <1>10, <1>11, <1>12,
   <1>13, <1>14, <1>15, <1>16, <1>17, <1>18, <1>19, <1>20, <1>21, <1>22, <1>23,
   <1>24, <1>25, <1>26, <1>27, <1>28, <1>29, <1>30, <1>31, <1>32, <1>33, <1>34
     DEF Next, User, Main, Reader, Writer, Peer, Exits, Parties

LEMMA ClosedKept ==
  ASSUME TypeOK, GoalInv, ClosedInv, [Next]_vars
  PROVE  ClosedInv'
<1> USE DEF TypeOK, Threads, MainSteps, StopSteps, ExitSteps, Parties, Over,
   GoalInv, ClosedInv, At, Goto, Push, Stopped, Nobody, flags, shared, socket,
   peer, history
<1>1. CASE ConnectFails
  BY <1>1 DEF ConnectFails
<1>2. CASE StartReader
  BY <1>2 DEF StartReader
<1>3. ASSUME NEW line \in Lines, Command(line) PROVE ClosedInv'
  BY <1>3 DEF Command
<1>4. CASE Quit
  BY <1>4 DEF Quit
<1>5. CASE QuitTrimmed
  BY <1>5 DEF QuitTrimmed
<1>6. CASE Signal
  BY <1>6 DEF Signal
<1>7. CASE SignalInJoin
  BY <1>7 DEF SignalInJoin
<1>8. CASE SetRunning
  BY <1>8 DEF SetRunning
<1>9. CASE StartWriter
  BY <1>9 DEF StartWriter
<1>10. CASE PushReturns
  BY <1>10 DEF PushReturns
<1>11. ASSUME NEW t \in Parties, Graceful(t) PROVE ClosedInv'
  BY <1>11 DEF Graceful
<1>12. ASSUME NEW t \in Parties, OnDisconnected(t) PROVE ClosedInv'
  BY <1>12 DEF OnDisconnected
<1>13. ASSUME NEW t \in Parties, Stop(t) PROVE ClosedInv'
  BY <1>13 DEF Stop
<1>14. ASSUME NEW t \in Parties, Waited(t) PROVE ClosedInv'
  BY <1>14 DEF Waited
<1>15. ASSUME NEW t \in Parties, Shutdown(t) PROVE ClosedInv'
  BY <1>15 DEF Shutdown
<1>16. ASSUME NEW t \in Parties, JoinReader(t) PROVE ClosedInv'
  BY <1>16 DEF JoinReader, Join
<1>17. ASSUME NEW t \in Parties, JoinWriter(t) PROVE ClosedInv'
  BY <1>17 DEF JoinWriter, Join
<1>18. ASSUME NEW t \in Parties, Close(t) PROVE ClosedInv'
  BY <1>18 DEF Close
<1>19. CASE ReaderChecks
  BY <1>19 DEF ReaderChecks
<1>20. CASE Handle
  BY <1>20 DEF Handle
<1>21. CASE ConnectionEnds
  BY <1>21 DEF ConnectionEnds
<1>22. CASE WriterChecks
  BY <1>22 DEF WriterChecks
<1>23. CASE Pop
  BY <1>23 DEF Pop
<1>24. CASE SendFails
  BY <1>24 DEF SendFails
<1>25. CASE Sent
  BY <1>25 DEF Sent
<1>26. CASE GatewayAnswers
  BY <1>26 DEF GatewayAnswers, Connected
<1>27. CASE GatewayPushes
  BY <1>27 DEF GatewayPushes, Connected
<1>28. CASE GatewayCloses
  BY <1>28 DEF GatewayCloses, Connected
<1>29. CASE UNCHANGED vars
  BY <1>29 DEF vars
<1>30. CASE SignalInAllocator
  BY <1>30 DEF SignalInAllocator, Allocating
<1>31. ASSUME NEW t \in Parties, Report(t) PROVE ClosedInv'
  BY <1>31 DEF Report
<1>32. ASSUME NEW t \in Parties, LogoutPushed(t) PROVE ClosedInv'
  BY <1>32 DEF LogoutPushed
<1>33. ASSUME NEW t \in Parties, CloseQueue(t) PROVE ClosedInv'
  BY <1>33 DEF CloseQueue
<1>34. ASSUME NEW t \in Parties, Notice(t) PROVE ClosedInv'
  BY <1>34 DEF Notice
<1> QED
  BY <1>1, <1>2, <1>3, <1>4, <1>5, <1>6, <1>7, <1>8, <1>9, <1>10, <1>11, <1>12,
   <1>13, <1>14, <1>15, <1>16, <1>17, <1>18, <1>19, <1>20, <1>21, <1>22, <1>23,
   <1>24, <1>25, <1>26, <1>27, <1>28, <1>29, <1>30, <1>31, <1>32, <1>33, <1>34
     DEF Next, User, Main, Reader, Writer, Peer, Exits, Parties

LEMMA JoinKept ==
  ASSUME TypeOK, GoalInv, JoinInv, [Next]_vars
  PROVE  JoinInv'
<1> USE DEF TypeOK, Threads, MainSteps, StopSteps, ExitSteps, Parties, Over,
   GoalInv, JoinInv, At, Goto, Push, Stopped, Nobody, flags, shared, socket,
   peer, history
<1>1. CASE ConnectFails
  BY <1>1 DEF ConnectFails
<1>2. CASE StartReader
  BY <1>2 DEF StartReader
<1>3. ASSUME NEW line \in Lines, Command(line) PROVE JoinInv'
  BY <1>3 DEF Command
<1>4. CASE Quit
  BY <1>4 DEF Quit
<1>5. CASE QuitTrimmed
  BY <1>5 DEF QuitTrimmed
<1>6. CASE Signal
  BY <1>6 DEF Signal
<1>7. CASE SignalInJoin
  BY <1>7 DEF SignalInJoin
<1>8. CASE SetRunning
  BY <1>8 DEF SetRunning
<1>9. CASE StartWriter
  BY <1>9 DEF StartWriter
<1>10. CASE PushReturns
  BY <1>10 DEF PushReturns
<1>11. ASSUME NEW t \in Parties, Graceful(t) PROVE JoinInv'
  BY <1>11 DEF Graceful
<1>12. ASSUME NEW t \in Parties, OnDisconnected(t) PROVE JoinInv'
  BY <1>12 DEF OnDisconnected
<1>13. ASSUME NEW t \in Parties, Stop(t) PROVE JoinInv'
  <2>1. /\ pc[t] = "stop" /\ pc'[t] \in {"logout", "shut"}
        /\ \A other \in Threads \ {t} : pc'[other] = pc[other]
        /\ UNCHANGED <<joined, fd, ended>>
    BY <1>13 DEF Stop
  <2> QED
    BY <2>1
<1>14. ASSUME NEW t \in Parties, Waited(t) PROVE JoinInv'
  BY <1>14 DEF Waited
<1>15. ASSUME NEW t \in Parties, Shutdown(t) PROVE JoinInv'
  BY <1>15 DEF Shutdown
<1>16. ASSUME NEW t \in Parties, JoinReader(t) PROVE JoinInv'
  BY <1>16 DEF JoinReader, Join
<1>17. ASSUME NEW t \in Parties, JoinWriter(t) PROVE JoinInv'
  BY <1>17 DEF JoinWriter, Join
<1>18. ASSUME NEW t \in Parties, Close(t) PROVE JoinInv'
  <2>1. /\ pc[t] = "close" /\ ended = "no" /\ UNCHANGED joined
        /\ pc'[t] \in {"close", "notice", "graceful"}
        /\ \A other \in Threads \ {t} : pc'[other] = pc[other]
    BY <1>18 DEF Close
  <2>2. t = "reader" => ended' # "no"
    BY <1>18 DEF Close
  <2> QED
    BY <2>1, <2>2
<1>19. CASE ReaderChecks
  BY <1>19 DEF ReaderChecks
<1>20. CASE Handle
  BY <1>20 DEF Handle
<1>21. CASE ConnectionEnds
  BY <1>21 DEF ConnectionEnds
<1>22. CASE WriterChecks
  BY <1>22 DEF WriterChecks
<1>23. CASE Pop
  BY <1>23 DEF Pop
<1>24. CASE SendFails
  BY <1>24 DEF SendFails
<1>25. CASE Sent
  BY <1>25 DEF Sent
<1>26. CASE GatewayAnswers
  BY <1>26 DEF GatewayAnswers, Connected
<1>27. CASE GatewayPushes
  BY <1>27 DEF GatewayPushes, Connected
<1>28. CASE GatewayCloses
  BY <1>28 DEF GatewayCloses, Connected
<1>29. CASE UNCHANGED vars
  BY <1>29 DEF vars
<1>30. CASE SignalInAllocator
  BY <1>30 DEF SignalInAllocator, Allocating
<1>31. ASSUME NEW t \in Parties, Report(t) PROVE JoinInv'
  BY <1>31 DEF Report
<1>32. ASSUME NEW t \in Parties, LogoutPushed(t) PROVE JoinInv'
  BY <1>32 DEF LogoutPushed
<1>33. ASSUME NEW t \in Parties, CloseQueue(t) PROVE JoinInv'
  BY <1>33 DEF CloseQueue
<1>34. ASSUME NEW t \in Parties, Notice(t) PROVE JoinInv'
  <2>1. /\ pc[t] = "notice" /\ ended = "no" /\ UNCHANGED <<joined, fd>>
        /\ pc'[t] \in {"notice", "graceful"}
        /\ \A other \in Threads \ {t} : pc'[other] = pc[other]
    BY <1>34 DEF Notice
  <2>2. t = "reader" => ended' # "no"
    BY <1>34 DEF Notice
  <2> QED
    BY <2>1, <2>2
<1> QED
  BY <1>1, <1>2, <1>3, <1>4, <1>5, <1>6, <1>7, <1>8, <1>9, <1>10, <1>11, <1>12,
   <1>13, <1>14, <1>15, <1>16, <1>17, <1>18, <1>19, <1>20, <1>21, <1>22, <1>23,
   <1>24, <1>25, <1>26, <1>27, <1>28, <1>29, <1>30, <1>31, <1>32, <1>33, <1>34
     DEF Next, User, Main, Reader, Writer, Peer, Exits, Parties

LEMMA RunningKept ==
  ASSUME TypeOK, GoalInv, RunningInv, [Next]_vars
  PROVE  RunningInv'
<1> USE DEF TypeOK, Threads, MainSteps, StopSteps, ExitSteps, Parties, Over,
   GoalInv, RunningInv, ReaderAttends, At, Goto, Push, Stopped, Nobody, flags,
   shared, socket, peer, history
<1>1. CASE ConnectFails
  BY <1>1 DEF ConnectFails
<1>2. CASE StartReader
  BY <1>2 DEF StartReader
<1>3. ASSUME NEW line \in Lines, Command(line) PROVE RunningInv'
  BY <1>3 DEF Command
<1>4. CASE Quit
  BY <1>4 DEF Quit
<1>5. CASE QuitTrimmed
  BY <1>5 DEF QuitTrimmed
<1>6. CASE Signal
  BY <1>6 DEF Signal
<1>7. CASE SignalInJoin
  BY <1>7 DEF SignalInJoin
<1>8. CASE SetRunning
  BY <1>8 DEF SetRunning
<1>9. CASE StartWriter
  BY <1>9 DEF StartWriter
<1>10. CASE PushReturns
  BY <1>10 DEF PushReturns
<1>11. ASSUME NEW t \in Parties, Graceful(t) PROVE RunningInv'
  BY <1>11 DEF Graceful
<1>12. ASSUME NEW t \in Parties, OnDisconnected(t) PROVE RunningInv'
  BY <1>12 DEF OnDisconnected
<1>13. ASSUME NEW t \in Parties, Stop(t) PROVE RunningInv'
  BY <1>13 DEF Stop
<1>14. ASSUME NEW t \in Parties, Waited(t) PROVE RunningInv'
  BY <1>14 DEF Waited
<1>15. ASSUME NEW t \in Parties, Shutdown(t) PROVE RunningInv'
  BY <1>15 DEF Shutdown
<1>16. ASSUME NEW t \in Parties, JoinReader(t) PROVE RunningInv'
  BY <1>16 DEF JoinReader, Join
<1>17. ASSUME NEW t \in Parties, JoinWriter(t) PROVE RunningInv'
  BY <1>17 DEF JoinWriter, Join
<1>18. ASSUME NEW t \in Parties, Close(t) PROVE RunningInv'
  BY <1>18 DEF Close
<1>19. CASE ReaderChecks
  BY <1>19 DEF ReaderChecks
<1>20. CASE Handle
  BY <1>20 DEF Handle
<1>21. CASE ConnectionEnds
  BY <1>21 DEF ConnectionEnds
<1>22. CASE WriterChecks
  BY <1>22 DEF WriterChecks
<1>23. CASE Pop
  BY <1>23 DEF Pop
<1>24. CASE SendFails
  BY <1>24 DEF SendFails
<1>25. CASE Sent
  BY <1>25 DEF Sent
<1>26. CASE GatewayAnswers
  BY <1>26 DEF GatewayAnswers, Connected
<1>27. CASE GatewayPushes
  BY <1>27 DEF GatewayPushes, Connected
<1>28. CASE GatewayCloses
  BY <1>28 DEF GatewayCloses, Connected
<1>29. CASE UNCHANGED vars
  BY <1>29 DEF vars
<1>30. CASE SignalInAllocator
  BY <1>30 DEF SignalInAllocator, Allocating
<1>31. ASSUME NEW t \in Parties, Report(t) PROVE RunningInv'
  BY <1>31 DEF Report
<1>32. ASSUME NEW t \in Parties, LogoutPushed(t) PROVE RunningInv'
  BY <1>32 DEF LogoutPushed
<1>33. ASSUME NEW t \in Parties, CloseQueue(t) PROVE RunningInv'
  BY <1>33 DEF CloseQueue
<1>34. ASSUME NEW t \in Parties, Notice(t) PROVE RunningInv'
  BY <1>34 DEF Notice
<1> QED
  BY <1>1, <1>2, <1>3, <1>4, <1>5, <1>6, <1>7, <1>8, <1>9, <1>10, <1>11, <1>12,
   <1>13, <1>14, <1>15, <1>16, <1>17, <1>18, <1>19, <1>20, <1>21, <1>22, <1>23,
   <1>24, <1>25, <1>26, <1>27, <1>28, <1>29, <1>30, <1>31, <1>32, <1>33, <1>34
     DEF Next, User, Main, Reader, Writer, Peer, Exits, Parties

LEMMA QueueKept ==
  ASSUME TypeOK, GoalInv, ClosedInv, QueueInv, [Next]_vars
  PROVE  QueueInv'
<1> USE DEF TypeOK, Threads, MainSteps, StopSteps, ExitSteps, Parties, Over,
   GoalInv, ClosedInv, QueueInv, At, Goto, Push, Stopped, Nobody, flags, shared,
   socket, peer, history
<1>1. CASE ConnectFails
  BY <1>1 DEF ConnectFails, Answerable
<1>2. CASE StartReader
  BY <1>2 DEF StartReader, Answerable
<1>3. ASSUME NEW line \in Lines, Command(line) PROVE QueueInv'
  BY <1>3 DEF Command, Answerable
<1>4. CASE Quit
  BY <1>4 DEF Quit, Answerable
<1>5. CASE QuitTrimmed
  BY <1>5 DEF QuitTrimmed, Answerable
<1>6. CASE Signal
  BY <1>6 DEF Signal, Answerable
<1>7. CASE SignalInJoin
  BY <1>7 DEF SignalInJoin, Answerable
<1>8. CASE SetRunning
  BY <1>8 DEF SetRunning, Answerable
<1>9. CASE StartWriter
  BY <1>9 DEF StartWriter, Answerable
<1>10. CASE PushReturns
  BY <1>10 DEF PushReturns, Answerable
<1>11. ASSUME NEW t \in Parties, Graceful(t) PROVE QueueInv'
  BY <1>11 DEF Graceful, Answerable
<1>12. ASSUME NEW t \in Parties, OnDisconnected(t) PROVE QueueInv'
  BY <1>12 DEF OnDisconnected, Answerable
<1>13. ASSUME NEW t \in Parties, Stop(t) PROVE QueueInv'
  BY <1>13 DEF Stop, Answerable
<1>14. ASSUME NEW t \in Parties, Waited(t) PROVE QueueInv'
  BY <1>14 DEF Waited, Answerable
<1>15. ASSUME NEW t \in Parties, Shutdown(t) PROVE QueueInv'
  BY <1>15 DEF Shutdown, Answerable
<1>16. ASSUME NEW t \in Parties, JoinReader(t) PROVE QueueInv'
  BY <1>16 DEF JoinReader, Join, Answerable
<1>17. ASSUME NEW t \in Parties, JoinWriter(t) PROVE QueueInv'
  BY <1>17 DEF JoinWriter, Join, Answerable
<1>18. ASSUME NEW t \in Parties, Close(t) PROVE QueueInv'
  BY <1>18 DEF Close, Answerable
<1>19. CASE ReaderChecks
  BY <1>19 DEF ReaderChecks, Answerable
<1>20. CASE Handle
  <2>1. inbound \in Seq(Replies) /\ inbound # <<>> /\ inbound' = Tail(inbound)
    BY <1>20 DEF Handle
  <2>2. Holds(inbound, Head(inbound)) /\ (Holds(inbound', "uid") => Holds(inbound, "uid"))
    BY <2>1, HoldsTail
  <2>3. Answerable' => Answerable
    BY <1>20, <2>2 DEF Handle, Answerable
  <2> QED
    BY <1>20, <2>3 DEF Handle
<1>21. CASE ConnectionEnds
  BY <1>21 DEF ConnectionEnds, Answerable
<1>22. CASE WriterChecks
  BY <1>22 DEF WriterChecks, Answerable
<1>23. CASE Pop
  BY <1>23 DEF Pop, Answerable
<1>24. CASE SendFails
  BY <1>24 DEF SendFails, Answerable
<1>25. CASE Sent
  <2>1. PICK line \in Lines : line = frame
    BY <1>25 DEF Sent, At
  <2>2. received \in Seq(Lines) /\ received' = Append(received, line)
    BY <1>25, <2>1 DEF Sent
  <2>3. Holds(received', "LOGIN") => Holds(received, "LOGIN") \/ line = "LOGIN"
    BY <2>2, HoldsAppend
  <2>4. Answerable' => Answerable
    BY <1>25, <2>1, <2>3 DEF Sent, Answerable, flags
  <2> QED
    BY <1>25, <2>4 DEF Sent
<1>26. CASE GatewayAnswers
  <2>1. PICK reply \in AnswersTo(Head(received)) : inbound' = Append(inbound, reply)
    BY <1>26 DEF GatewayAnswers
  <2>2. reply \in Replies /\ (reply = "uid" => Head(received) = "LOGIN")
    BY DEF AnswersTo, Replies
  <2>3. received \in Seq(Lines) /\ received # <<>> /\ received' = Tail(received)
        /\ inbound \in Seq(Replies)
    BY <1>26 DEF GatewayAnswers
  <2>4. Holds(received, Head(received)) /\ (Holds(received', "LOGIN") => Holds(received, "LOGIN"))
    BY <2>3, HoldsTail
  <2>5. Holds(inbound', "uid") => Holds(inbound, "uid") \/ reply = "uid"
    BY <2>1, <2>2, <2>3, HoldsAppend
  <2>6. Answerable' => Answerable
    BY <1>26, <2>2, <2>4, <2>5 DEF GatewayAnswers, Answerable, flags
  <2> QED
    BY <1>26, <2>6 DEF GatewayAnswers, Connected
<1>27. CASE GatewayPushes
  <2>1. inbound \in Seq(Replies) /\ "other" \in Replies /\ inbound' = Append(inbound, "other")
    BY <1>27 DEF GatewayPushes, Replies
  <2>2. Holds(inbound', "uid") => Holds(inbound, "uid")
    BY <2>1, HoldsAppend
  <2>3. Answerable' => Answerable
    BY <1>27, <2>2 DEF GatewayPushes, Answerable, flags
  <2> QED
    BY <1>27, <2>3 DEF GatewayPushes, Connected
<1>28. CASE GatewayCloses
  <2>1. Answerable' => Answerable
    BY <1>28, HoldsNothing DEF GatewayCloses, Answerable, flags
  <2> QED
    BY <1>28, <2>1 DEF GatewayCloses, Connected
<1>29. CASE UNCHANGED vars
  BY <1>29 DEF vars, Answerable
<1>30. CASE SignalInAllocator
  BY <1>30 DEF SignalInAllocator, Allocating, Answerable
<1>31. ASSUME NEW t \in Parties, Report(t) PROVE QueueInv'
  BY <1>31 DEF Report, Answerable
<1>32. ASSUME NEW t \in Parties, LogoutPushed(t) PROVE QueueInv'
  BY <1>32 DEF LogoutPushed, Answerable
<1>33. ASSUME NEW t \in Parties, CloseQueue(t) PROVE QueueInv'
  BY <1>33 DEF CloseQueue, Answerable
<1>34. ASSUME NEW t \in Parties, Notice(t) PROVE QueueInv'
  BY <1>34 DEF Notice, Answerable
<1> QED
  BY <1>1, <1>2, <1>3, <1>4, <1>5, <1>6, <1>7, <1>8, <1>9, <1>10, <1>11, <1>12,
   <1>13, <1>14, <1>15, <1>16, <1>17, <1>18, <1>19, <1>20, <1>21, <1>22, <1>23,
   <1>24, <1>25, <1>26, <1>27, <1>28, <1>29, <1>30, <1>31, <1>32, <1>33, <1>34
     DEF Next, User, Main, Reader, Writer, Peer, Exits, Parties

-----------------------------------------------------------------------------
LEMMA PlacesKept ==
  ASSUME PlacesTyped, GoalInv, JoinInv, [Next]_vars
  PROVE  PlacesTyped'
<1> USE DEF Threads, MainSteps, StopSteps, ExitSteps, Parties, Over,
   PlacesTyped, GoalInv, JoinInv, At, Goto, Push, Stopped, Nobody, flags,
   shared, socket, peer, history
<1>1. CASE ConnectFails
  BY <1>1 DEF ConnectFails
<1>2. CASE StartReader
  BY <1>2 DEF StartReader
<1>3. ASSUME NEW line \in Lines, Command(line) PROVE PlacesTyped'
  BY <1>3 DEF Command
<1>4. CASE Quit
  BY <1>4 DEF Quit
<1>5. CASE QuitTrimmed
  BY <1>5 DEF QuitTrimmed
<1>6. CASE Signal
  BY <1>6 DEF Signal
<1>7. CASE SignalInJoin
  BY <1>7 DEF SignalInJoin
<1>8. CASE SetRunning
  BY <1>8 DEF SetRunning
<1>9. CASE StartWriter
  BY <1>9 DEF StartWriter
<1>10. CASE PushReturns
  BY <1>10 DEF PushReturns
<1>11. ASSUME NEW t \in Parties, Graceful(t) PROVE PlacesTyped'
  BY <1>11 DEF Graceful
<1>12. ASSUME NEW t \in Parties, OnDisconnected(t) PROVE PlacesTyped'
  BY <1>12 DEF OnDisconnected
<1>13. ASSUME NEW t \in Parties, Stop(t) PROVE PlacesTyped'
  BY <1>13 DEF Stop
<1>14. ASSUME NEW t \in Parties, Waited(t) PROVE PlacesTyped'
  BY <1>14 DEF Waited
<1>15. ASSUME NEW t \in Parties, Shutdown(t) PROVE PlacesTyped'
  BY <1>15 DEF Shutdown
<1>16. ASSUME NEW t \in Parties, JoinReader(t) PROVE PlacesTyped'
  BY <1>16 DEF JoinReader, Join
<1>17. ASSUME NEW t \in Parties, JoinWriter(t) PROVE PlacesTyped'
  BY <1>17 DEF JoinWriter, Join
<1>18. ASSUME NEW t \in Parties, Close(t) PROVE PlacesTyped'
  BY <1>18 DEF Close
<1>19. CASE ReaderChecks
  BY <1>19 DEF ReaderChecks
<1>20. CASE Handle
  BY <1>20 DEF Handle
<1>21. CASE ConnectionEnds
  BY <1>21 DEF ConnectionEnds
<1>22. CASE WriterChecks
  BY <1>22 DEF WriterChecks
<1>23. CASE Pop
  BY <1>23 DEF Pop
<1>24. CASE SendFails
  BY <1>24 DEF SendFails
<1>25. CASE Sent
  BY <1>25 DEF Sent
<1>26. CASE GatewayAnswers
  BY <1>26 DEF GatewayAnswers, Connected
<1>27. CASE GatewayPushes
  BY <1>27 DEF GatewayPushes, Connected
<1>28. CASE GatewayCloses
  BY <1>28 DEF GatewayCloses, Connected
<1>29. CASE UNCHANGED vars
  BY <1>29 DEF vars
<1>30. CASE SignalInAllocator
  BY <1>30 DEF SignalInAllocator, Allocating
<1>31. ASSUME NEW t \in Parties, Report(t) PROVE PlacesTyped'
  BY <1>31 DEF Report
<1>32. ASSUME NEW t \in Parties, LogoutPushed(t) PROVE PlacesTyped'
  BY <1>32 DEF LogoutPushed
<1>33. ASSUME NEW t \in Parties, CloseQueue(t) PROVE PlacesTyped'
  BY <1>33 DEF CloseQueue
<1>34. ASSUME NEW t \in Parties, Notice(t) PROVE PlacesTyped'
  BY <1>34 DEF Notice
<1> QED
  BY <1>1, <1>2, <1>3, <1>4, <1>5, <1>6, <1>7, <1>8, <1>9, <1>10, <1>11, <1>12,
   <1>13, <1>14, <1>15, <1>16, <1>17, <1>18, <1>19, <1>20, <1>21, <1>22, <1>23,
   <1>24, <1>25, <1>26, <1>27, <1>28, <1>29, <1>30, <1>31, <1>32, <1>33, <1>34
     DEF Next, User, Main, Reader, Writer, Peer, Exits, Parties

LEMMA FlagsKept ==
  ASSUME FlagsTyped, [Next]_vars
  PROVE  FlagsTyped'
<1> USE DEF FlagsTyped, At, Goto, Push, Stopped, Nobody, flags, shared, socket,
   peer, history
<1>1. CASE ConnectFails
  BY <1>1 DEF ConnectFails
<1>2. CASE StartReader
  BY <1>2 DEF StartReader
<1>3. ASSUME NEW line \in Lines, Command(line) PROVE FlagsTyped'
  BY <1>3 DEF Command
<1>4. CASE Quit
  BY <1>4 DEF Quit
<1>5. CASE QuitTrimmed
  BY <1>5 DEF QuitTrimmed
<1>6. CASE Signal
  BY <1>6 DEF Signal
<1>7. CASE SignalInJoin
  BY <1>7 DEF SignalInJoin
<1>8. CASE SetRunning
  BY <1>8 DEF SetRunning
<1>9. CASE StartWriter
  BY <1>9 DEF StartWriter
<1>10. CASE PushReturns
  BY <1>10 DEF PushReturns
<1>11. ASSUME NEW t \in Parties, Graceful(t) PROVE FlagsTyped'
  BY <1>11 DEF Graceful
<1>12. ASSUME NEW t \in Parties, OnDisconnected(t) PROVE FlagsTyped'
  BY <1>12 DEF OnDisconnected
<1>13. ASSUME NEW t \in Parties, Stop(t) PROVE FlagsTyped'
  BY <1>13 DEF Stop
<1>14. ASSUME NEW t \in Parties, Waited(t) PROVE FlagsTyped'
  BY <1>14 DEF Waited
<1>15. ASSUME NEW t \in Parties, Shutdown(t) PROVE FlagsTyped'
  BY <1>15 DEF Shutdown
<1>16. ASSUME NEW t \in Parties, JoinReader(t) PROVE FlagsTyped'
  BY <1>16 DEF JoinReader, Join
<1>17. ASSUME NEW t \in Parties, JoinWriter(t) PROVE FlagsTyped'
  BY <1>17 DEF JoinWriter, Join
<1>18. ASSUME NEW t \in Parties, Close(t) PROVE FlagsTyped'
  BY <1>18 DEF Close
<1>19. CASE ReaderChecks
  BY <1>19 DEF ReaderChecks
<1>20. CASE Handle
  BY <1>20 DEF Handle
<1>21. CASE ConnectionEnds
  BY <1>21 DEF ConnectionEnds
<1>22. CASE WriterChecks
  BY <1>22 DEF WriterChecks
<1>23. CASE Pop
  BY <1>23 DEF Pop
<1>24. CASE SendFails
  BY <1>24 DEF SendFails
<1>25. CASE Sent
  BY <1>25 DEF Sent
<1>26. CASE GatewayAnswers
  BY <1>26 DEF GatewayAnswers, Connected
<1>27. CASE GatewayPushes
  BY <1>27 DEF GatewayPushes, Connected
<1>28. CASE GatewayCloses
  BY <1>28 DEF GatewayCloses, Connected
<1>29. CASE UNCHANGED vars
  BY <1>29 DEF vars
<1>30. CASE SignalInAllocator
  BY <1>30 DEF SignalInAllocator, Allocating
<1>31. ASSUME NEW t \in Parties, Report(t) PROVE FlagsTyped'
  BY <1>31 DEF Report
<1>32. ASSUME NEW t \in Parties, LogoutPushed(t) PROVE FlagsTyped'
  BY <1>32 DEF LogoutPushed
<1>33. ASSUME NEW t \in Parties, CloseQueue(t) PROVE FlagsTyped'
  BY <1>33 DEF CloseQueue
<1>34. ASSUME NEW t \in Parties, Notice(t) PROVE FlagsTyped'
  BY <1>34 DEF Notice
<1> QED
  BY <1>1, <1>2, <1>3, <1>4, <1>5, <1>6, <1>7, <1>8, <1>9, <1>10, <1>11, <1>12,
   <1>13, <1>14, <1>15, <1>16, <1>17, <1>18, <1>19, <1>20, <1>21, <1>22, <1>23,
   <1>24, <1>25, <1>26, <1>27, <1>28, <1>29, <1>30, <1>31, <1>32, <1>33, <1>34
     DEF Next, User, Main, Reader, Writer, Peer, Exits, Parties

LEMMA LinesKept ==
  ASSUME PlacesTyped, LinesTyped, JoinInv, [Next]_vars
  PROVE  LinesTyped'
<1> USE DEF Threads, Parties, Over, PlacesTyped, LinesTyped, JoinInv, At, Goto,
   Push, Stopped, Nobody, flags, shared, socket, peer, history
<1>1. CASE ConnectFails
  BY <1>1 DEF ConnectFails
<1>2. CASE StartReader
  BY <1>2 DEF StartReader
<1>3. ASSUME NEW line \in Lines, Command(line) PROVE LinesTyped'
  BY <1>3 DEF Command
<1>4. CASE Quit
  BY <1>4 DEF Quit
<1>5. CASE QuitTrimmed
  BY <1>5 DEF QuitTrimmed
<1>6. CASE Signal
  BY <1>6 DEF Signal
<1>7. CASE SignalInJoin
  BY <1>7 DEF SignalInJoin
<1>8. CASE SetRunning
  BY <1>8 DEF SetRunning
<1>9. CASE StartWriter
  BY <1>9 DEF StartWriter
<1>10. CASE PushReturns
  BY <1>10 DEF PushReturns
<1>11. ASSUME NEW t \in Parties, Graceful(t) PROVE LinesTyped'
  BY <1>11 DEF Graceful
<1>12. ASSUME NEW t \in Parties, OnDisconnected(t) PROVE LinesTyped'
  BY <1>12 DEF OnDisconnected
<1>13. ASSUME NEW t \in Parties, Stop(t) PROVE LinesTyped'
  <2>1. "LOGOUT" \in Lines
    BY DEF Lines
  <2>2. outbox' = outbox \/ outbox' = Append(outbox, "LOGOUT")
    BY <1>13 DEF Stop, Push
  <2>3. pc'["writer"] = pc["writer"] /\ UNCHANGED <<frame, received, inbound>>
    BY <1>13 DEF Stop, At, Goto, peer
  <2>4. outbox \in Seq(Lines)
    OBVIOUS
  <2> HIDE DEF At, Goto, Push, Stopped, JoinInv, PlacesTyped
  <2>5. Append(outbox, "LOGOUT") \in Seq(Lines)
    BY <2>1, <2>4, AppendTyped
  <2>6. outbox' \in Seq(Lines)
    BY <2>2, <2>4, <2>5
  <2> QED
    BY <2>3, <2>6
<1>14. ASSUME NEW t \in Parties, Waited(t) PROVE LinesTyped'
  BY <1>14 DEF Waited
<1>15. ASSUME NEW t \in Parties, Shutdown(t) PROVE LinesTyped'
  BY <1>15 DEF Shutdown
<1>16. ASSUME NEW t \in Parties, JoinReader(t) PROVE LinesTyped'
  BY <1>16 DEF JoinReader, Join
<1>17. ASSUME NEW t \in Parties, JoinWriter(t) PROVE LinesTyped'
  BY <1>17 DEF JoinWriter, Join
<1>18. ASSUME NEW t \in Parties, Close(t) PROVE LinesTyped'
  BY <1>18 DEF Close
<1>19. CASE ReaderChecks
  BY <1>19 DEF ReaderChecks
<1>20. CASE Handle
  <2>1. inbound' \in Seq(Replies)
    BY <1>20, HoldsTail DEF Handle
  <2> QED
    BY <1>20, <2>1 DEF Handle
<1>21. CASE ConnectionEnds
  BY <1>21 DEF ConnectionEnds
<1>22. CASE WriterChecks
  BY <1>22 DEF WriterChecks
<1>23. CASE Pop
  <2>1. outbox' \in Seq(Lines) /\ (outbox # <<>> => Head(outbox) \in Lines)
    <3>1. CASE outbox # <<>>
      <4>1. outbox \in Seq(Lines) /\ outbox' = Tail(outbox)
        BY <1>23, <3>1 DEF Pop
      <4> QED
        BY <3>1, <4>1, HoldsTail
    <3>2. CASE outbox = <<>>
      BY <1>23, <3>2 DEF Pop
    <3> QED
      BY <3>1, <3>2
  <2> QED
    BY <1>23, <2>1 DEF Pop, Lines
<1>24. CASE SendFails
  BY <1>24 DEF SendFails
<1>25. CASE Sent
  BY <1>25 DEF Sent
<1>26. CASE GatewayAnswers
  <2>1. received' \in Seq(Lines)
    BY <1>26, HoldsTail DEF GatewayAnswers
  <2>2. inbound' \in Seq(Replies)
    BY <1>26 DEF GatewayAnswers, AnswersTo, Replies
  <2> QED
    BY <1>26, <2>1, <2>2 DEF GatewayAnswers, Connected
<1>27. CASE GatewayPushes
  <2>1. inbound' \in Seq(Replies)
    BY <1>27 DEF GatewayPushes, Replies
  <2> QED
    BY <1>27, <2>1 DEF GatewayPushes, Connected
<1>28. CASE GatewayCloses
  <2>1. <<>> \in Seq(Replies) /\ inbound \in Seq(Replies)
    OBVIOUS
  <2>2. inbound' \in Seq(Replies)
    BY <1>28, <2>1 DEF GatewayCloses
  <2> QED
    BY <1>28, <2>2 DEF GatewayCloses, Connected
<1>29. CASE UNCHANGED vars
  BY <1>29 DEF vars
<1>30. CASE SignalInAllocator
  BY <1>30 DEF SignalInAllocator, Allocating
<1>31. ASSUME NEW t \in Parties, Report(t) PROVE LinesTyped'
  BY <1>31 DEF Report
<1>32. ASSUME NEW t \in Parties, LogoutPushed(t) PROVE LinesTyped'
  BY <1>32 DEF LogoutPushed
<1>33. ASSUME NEW t \in Parties, CloseQueue(t) PROVE LinesTyped'
  BY <1>33 DEF CloseQueue
<1>34. ASSUME NEW t \in Parties, Notice(t) PROVE LinesTyped'
  BY <1>34 DEF Notice
<1> QED
  BY <1>1, <1>2, <1>3, <1>4, <1>5, <1>6, <1>7, <1>8, <1>9, <1>10, <1>11, <1>12,
   <1>13, <1>14, <1>15, <1>16, <1>17, <1>18, <1>19, <1>20, <1>21, <1>22, <1>23,
   <1>24, <1>25, <1>26, <1>27, <1>28, <1>29, <1>30, <1>31, <1>32, <1>33, <1>34
     DEF Next, User, Main, Reader, Writer, Peer, Exits, Parties

LEMMA CountsKept ==
  ASSUME CountsTyped, [Next]_vars
  PROVE  CountsTyped'
<1> USE ClientAssumption DEF CountsTyped, At, Goto, Push, Stopped, Nobody,
   flags, shared, socket, peer,
   history
<1>1. CASE ConnectFails
  BY <1>1 DEF ConnectFails
<1>2. CASE StartReader
  BY <1>2 DEF StartReader
<1>3. ASSUME NEW line \in Lines, Command(line) PROVE CountsTyped'
  BY <1>3 DEF Command
<1>4. CASE Quit
  BY <1>4 DEF Quit
<1>5. CASE QuitTrimmed
  BY <1>5 DEF QuitTrimmed
<1>6. CASE Signal
  BY <1>6 DEF Signal
<1>7. CASE SignalInJoin
  BY <1>7 DEF SignalInJoin
<1>8. CASE SetRunning
  BY <1>8 DEF SetRunning
<1>9. CASE StartWriter
  BY <1>9 DEF StartWriter
<1>10. CASE PushReturns
  BY <1>10 DEF PushReturns
<1>11. ASSUME NEW t \in Parties, Graceful(t) PROVE CountsTyped'
  BY <1>11 DEF Graceful
<1>12. ASSUME NEW t \in Parties, OnDisconnected(t) PROVE CountsTyped'
  BY <1>12 DEF OnDisconnected
<1>13. ASSUME NEW t \in Parties, Stop(t) PROVE CountsTyped'
  BY <1>13 DEF Stop
<1>14. ASSUME NEW t \in Parties, Waited(t) PROVE CountsTyped'
  BY <1>14 DEF Waited
<1>15. ASSUME NEW t \in Parties, Shutdown(t) PROVE CountsTyped'
  BY <1>15 DEF Shutdown
<1>16. ASSUME NEW t \in Parties, JoinReader(t) PROVE CountsTyped'
  BY <1>16 DEF JoinReader, Join
<1>17. ASSUME NEW t \in Parties, JoinWriter(t) PROVE CountsTyped'
  BY <1>17 DEF JoinWriter, Join
<1>18. ASSUME NEW t \in Parties, Close(t) PROVE CountsTyped'
  BY <1>18 DEF Close
<1>19. CASE ReaderChecks
  BY <1>19 DEF ReaderChecks
<1>20. CASE Handle
  BY <1>20 DEF Handle
<1>21. CASE ConnectionEnds
  BY <1>21 DEF ConnectionEnds
<1>22. CASE WriterChecks
  BY <1>22 DEF WriterChecks
<1>23. CASE Pop
  BY <1>23 DEF Pop
<1>24. CASE SendFails
  BY <1>24 DEF SendFails
<1>25. CASE Sent
  BY <1>25 DEF Sent
<1>26. CASE GatewayAnswers
  BY <1>26 DEF GatewayAnswers, Connected
<1>27. CASE GatewayPushes
  BY <1>27 DEF GatewayPushes, Connected
<1>28. CASE GatewayCloses
  BY <1>28 DEF GatewayCloses, Connected
<1>29. CASE UNCHANGED vars
  BY <1>29 DEF vars
<1>30. CASE SignalInAllocator
  BY <1>30 DEF SignalInAllocator, Allocating
<1>31. ASSUME NEW t \in Parties, Report(t) PROVE CountsTyped'
  BY <1>31 DEF Report
<1>32. ASSUME NEW t \in Parties, LogoutPushed(t) PROVE CountsTyped'
  BY <1>32 DEF LogoutPushed
<1>33. ASSUME NEW t \in Parties, CloseQueue(t) PROVE CountsTyped'
  BY <1>33 DEF CloseQueue
<1>34. ASSUME NEW t \in Parties, Notice(t) PROVE CountsTyped'
  BY <1>34 DEF Notice
<1> QED
  BY <1>1, <1>2, <1>3, <1>4, <1>5, <1>6, <1>7, <1>8, <1>9, <1>10, <1>11, <1>12,
   <1>13, <1>14, <1>15, <1>16, <1>17, <1>18, <1>19, <1>20, <1>21, <1>22, <1>23,
   <1>24, <1>25, <1>26, <1>27, <1>28, <1>29, <1>30, <1>31, <1>32, <1>33, <1>34
     DEF Next, User, Main, Reader, Writer, Peer, Exits, Parties

-----------------------------------------------------------------------------
ClientInv == GoalInv /\ ClosedInv /\ JoinInv /\ RunningInv /\ QueueInv

LEMMA ClientStarts == Init => TypeOK /\ ClientInv
<1> SUFFICES ASSUME Init PROVE TypeOK /\ ClientInv
  OBVIOUS
<1>1. GoalInv /\ ClosedInv /\ JoinInv /\ RunningInv
  BY DEF Init, GoalInv, ClosedInv, JoinInv, RunningInv, ReaderAttends, Threads, Parties,
     StopSteps, ExitSteps, Over
<1>2. QueueInv
  BY DEF Init, QueueInv, Answerable, Holds
<1>3. PlacesTyped /\ CountsTyped
  BY ClientAssumption DEF Init, PlacesTyped, CountsTyped, Threads, MainSteps
<1>4. FlagsTyped
  BY DEF Init, FlagsTyped
<1>5. LinesTyped
  BY DEF Init, LinesTyped, Threads
<1> QED
  BY <1>1, <1>2, <1>3, <1>4, <1>5, TypeParts DEF ClientInv

LEMMA ClientKept ==
  ASSUME TypeOK, ClientInv, [Next]_vars
  PROVE  TypeOK' /\ ClientInv'
<1>1. GoalInv' /\ ClosedInv' /\ JoinInv' /\ RunningInv' /\ QueueInv'
  BY GoalKept, ClosedKept, JoinKept, RunningKept, QueueKept DEF ClientInv
<1>2. PlacesTyped /\ FlagsTyped /\ LinesTyped /\ CountsTyped
  BY TypeParts
<1>3. PlacesTyped' /\ FlagsTyped' /\ LinesTyped' /\ CountsTyped'
  BY <1>2, PlacesKept, FlagsKept, LinesKept, CountsKept DEF ClientInv
<1>4. TypeOK'
  <2>1. Len(outbox') <= MaxLines + 1
    BY <1>1, <1>3, ClientAssumption DEF LinesTyped, CountsTyped, QueueInv
  <2> QED
    BY <1>3, <2>1 DEF TypeOK, PlacesTyped, FlagsTyped, LinesTyped, CountsTyped
<1> QED
  BY <1>1, <1>4 DEF ClientInv

\* The inductive invariant of the client: goals, the closed queue, joins, running_ and
\* what is in the queue (client.cc:28-125).
THEOREM ClientInvariant == Spec => [](TypeOK /\ ClientInv)
BY ClientStarts, ClientKept, PTL DEF Spec

\* The places of the threads, flags, queue and lines of the client are well typed, and
\* the queue holds at most one line more than the user entered.
THEOREM ClientTypeCorrect == Spec => []TypeOK
BY ClientInvariant, PTL

\* stop() closes the descriptor when neither the reader nor the writer can be in a
\* call on it (client.cc:107).
THEOREM DescriptorClosedUnused == Spec => []ClosedUnused
<1>1. ClientInv => ClosedUnused
  BY DEF ClientInv, JoinInv, ClosedUnused, Over
<1> QED
  BY <1>1, ClientInvariant, PTL

\* The reader ends only when the process does, or when it was started too early
\* (client.cc:53, :174).
THEOREM ReaderKeepsAttending == Spec => []ReaderAttends
<1>1. ClientInv => ReaderAttends
  BY DEF ClientInv, RunningInv
<1> QED
  BY <1>1, ClientInvariant, PTL
=============================================================================
