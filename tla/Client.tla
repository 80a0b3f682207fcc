------------------------------- MODULE Client -------------------------------
(***************************************************************************)
(* The command line client (im-client/src): main reads commands and pushes *)
(* the lines into a queue, the writer sends them, the reader handles what  *)
(* the gateway sends.  Whoever wants the process to end - main on "quit",  *)
(* on the end of its input or in a signal handler, the reader when the     *)
(* connection ends - shuts the socket down, joins the other threads and    *)
(* calls exit.                                                             *)
(***************************************************************************)
EXTENDS Naturals, Sequences, FiniteSets

CONSTANTS
  MaxLines,   \* bound: lines the user enters
  MaxPushes   \* bound: lines the gateway sends without being asked

ASSUME ClientAssumption == MaxLines \in Nat /\ MaxPushes \in Nat

VARIABLES
  pc,          \* where each thread is
  goal,        \* what follows once the stop() a thread is in returns
  running, connected, exiting, loggedIn,   \* the atomic flags
  outbox,      \* LockQueue: lines to send
  outboxClosed,
  outboxLock,  \* who holds the mutex of the queue
  ioLock,      \* who holds io_mtx_, the mutex of the terminal
  frame,       \* the line the writer has popped
  fd,          \* the descriptor
  shut,        \* shutdown was called on it
  joined,      \* threads that were joined
  ended,       \* how the process ended
  peerUp,      \* the gateway has not closed the connection
  received,    \* lines the gateway has received and not yet answered
  inbound,     \* lines on their way to the client
  entered, pushed,   \* counts of the bounds
  unattended,  \* history: the reader ended before running_ was set
  caught       \* history: a signal found main holding a lock its handler needs

flags == <<running, connected, exiting, loggedIn>>
shared == <<outbox, outboxClosed, outboxLock, ioLock>>
socket == <<fd, shut>>
peer == <<peerUp, received, inbound, pushed>>
history == <<unattended, caught>>
vars == <<pc, goal, flags, shared, frame, socket, joined, ended, peer, entered,
          history>>

Threads == {"main", "reader", "writer"}

StopSteps == {"graceful", "disconnect", "report", "stop", "logout", "wait", "shut",
              "closing", "joinReader", "joinWriter", "close", "notice"}

MainSteps == {"start", "launched", "ready", "prompt", "push", "stuck"} \cup StopSteps

\* Where main calls the allocator.
Allocating == {"start", "ready", "prompt", "push", "stop", "logout", "notice"}

Nobody == "nobody"

Lines == {"LOGIN", "LOGOUT", "other"}

Replies == {"uid", "logout", "other"}

\* "stale": closed by a failed connect, and still in clientfd.
TypeOK ==
  /\ pc \in [Threads -> MainSteps \cup {"none", "check", "recv", "over", "pop",
                                        "send", "ended"}]
  /\ pc["main"] \in MainSteps
  /\ goal \in [Threads -> {"none", "exit", "graceful", "return"}]
  /\ {running, connected, exiting, loggedIn} \subseteq BOOLEAN
  /\ outbox \in Seq(Lines) /\ Len(outbox) <= MaxLines + 1
  /\ outboxClosed \in BOOLEAN
  /\ outboxLock \in {Nobody, "main", "reader"} /\ ioLock \in {Nobody, "main"}
  /\ frame \in Lines \cup {"none"}
  /\ (frame # "none") <=> (pc["writer"] = "send")
  /\ fd \in {"none", "open", "stale"}
  /\ shut \in BOOLEAN
  /\ joined \subseteq {"reader", "writer"}
  /\ ended \in {"no", "exit", "abort"}
  /\ peerUp \in BOOLEAN
  /\ received \in Seq(Lines)
  /\ inbound \in Seq(Replies)
  /\ entered \in 0..MaxLines /\ pushed \in 0..MaxPushes
  /\ {unattended, caught} \subseteq BOOLEAN

Init ==
  /\ pc = [t \in Threads |-> IF t = "main" THEN "start" ELSE "none"]
  /\ goal = [t \in Threads |-> "none"]
  /\ running = FALSE /\ connected = FALSE
  /\ exiting = FALSE /\ loggedIn = FALSE
  /\ outbox = <<>> /\ outboxClosed = FALSE
  /\ outboxLock = Nobody /\ ioLock = Nobody
  /\ frame = "none"
  /\ fd = "none" /\ shut = FALSE
  /\ joined = {}
  /\ ended = "no"
  /\ peerUp = TRUE /\ received = <<>> /\ inbound = <<>>
  /\ entered = 0 /\ pushed = 0
  /\ unattended = FALSE /\ caught = FALSE

At(t, step) == ended = "no" /\ pc[t] = step
Goto(t, step) == pc' = [pc EXCEPT ![t] = step]

-----------------------------------------------------------------------------
(* main: connectToServer and the loop over the commands.                   *)

\* socket() fails, or connect() does and leaves the closed descriptor.
ConnectFails ==
  /\ At("main", "start")
  /\ fd' \in {"none", "stale"}
  /\ Goto("main", "prompt")
  /\ UNCHANGED <<goal, flags, shared, frame, shut, joined, ended, peer, entered,
                 history>>

\* The reader is started before running_ is set, the writer after it.
StartReader ==
  /\ At("main", "start")
  /\ fd' = "open"
  /\ pc' = [pc EXCEPT !["main"] = "launched", !["reader"] = "check"]
  /\ UNCHANGED <<goal, flags, shared, frame, shut, joined, ended, peer, entered,
                 history>>

SetRunning ==
  /\ At("main", "launched")
  /\ running' = TRUE
  /\ Goto("main", "ready")
  /\ UNCHANGED <<goal, connected, exiting, loggedIn, shared, frame, socket,
                 joined, ended, peer, entered, history>>

StartWriter ==
  /\ At("main", "ready")
  /\ connected' = TRUE
  /\ pc' = [pc EXCEPT !["main"] = "prompt", !["writer"] = "check"]
  /\ UNCHANGED <<goal, running, exiting, loggedIn, shared, frame, socket, joined,
                 ended, peer, entered, history>>

\* Push takes the mutex of the queue, until it returns, and drops the line once
\* the queue is closed.
Push(t, line) ==
  /\ outboxLock = Nobody
  /\ outboxLock' = t
  /\ outbox' = IF outboxClosed THEN outbox ELSE Append(outbox, line)

\* handleCommand: a line for the gateway.
Command(line) ==
  /\ At("main", "prompt")
  /\ entered < MaxLines
  /\ entered' = entered + 1
  /\ Goto("main", "push")
  /\ Push("main", line)
  /\ UNCHANGED <<goal, flags, outboxClosed, ioLock, frame, socket, joined, ended, peer,
                 history>>

PushReturns ==
  /\ At("main", "push")
  /\ outboxLock' = Nobody
  /\ Goto("main", "prompt")
  /\ UNCHANGED <<goal, flags, outbox, outboxClosed, ioLock, frame, socket, joined,
                 ended, peer, entered, history>>

\* "quit", "exit" or the end of the input.
Quit ==
  /\ At("main", "prompt")
  /\ pc' = [pc EXCEPT !["main"] = "graceful"]
  /\ goal' = [goal EXCEPT !["main"] = "return"]
  /\ UNCHANGED <<flags, shared, frame, socket, joined, ended, peer, entered,
                 history>>

\* "quit" with a space before or after it, which handleCommand trims.
QuitTrimmed ==
  /\ At("main", "prompt")
  /\ pc' = [pc EXCEPT !["main"] = "stop"]
  /\ goal' = [goal EXCEPT !["main"] = "graceful"]
  /\ UNCHANGED <<flags, shared, frame, socket, joined, ended, peer, entered,
                 history>>

\* The handler runs on main, wherever main is, and does nothing while an exit is
\* under way.  It waits for ever for a lock main itself holds.
Signal ==
  /\ ended = "no" /\ ~exiting /\ pc["main"] # "stuck"
  /\ exiting' = TRUE
  /\ caught' = (outboxLock = "main" \/ ioLock = "main")
  /\ pc' = [pc EXCEPT !["main"] = "disconnect"]
  /\ goal' = [goal EXCEPT !["main"] = "exit"]
  /\ UNCHANGED <<running, connected, loggedIn, shared, frame, socket, joined,
                 ended, peer, entered, unattended>>

\* The handler's own strings and output need the allocator; when main was inside
\* it, whose lock it then holds, the handler may never return.
SignalInAllocator ==
  /\ ended = "no" /\ ~exiting
  /\ pc["main"] \in Allocating
  /\ exiting' \in BOOLEAN
  /\ caught' = TRUE
  /\ Goto("main", "stuck")
  /\ UNCHANGED <<goal, running, connected, loggedIn, shared, frame, socket, joined,
                 ended, peer, entered, unattended>>

\* While main joins, in the stop() of a trimmed "quit", a second join throws.
SignalInJoin ==
  /\ ended = "no" /\ ~exiting
  /\ \/ pc["main"] = "joinReader" /\ pc["reader"] # "none" /\ "reader" \notin joined
     \/ pc["main"] = "joinWriter" /\ pc["writer"] # "none" /\ "writer" \notin joined
  /\ exiting' = TRUE
  /\ ended' = "abort"
  /\ UNCHANGED <<pc, goal, running, connected, loggedIn, shared, frame, socket,
                 joined, peer, entered, history>>

-----------------------------------------------------------------------------
(* gracefulExit and stop, on any thread.                                   *)

\* exiting_.compare_exchange_strong; who comes second returns: main to the end
\* of its loop and the destructor of the client, or to the next command.
Graceful(t) ==
  /\ At(t, "graceful")
  /\ IF ~exiting
     THEN /\ exiting' = TRUE
          /\ Goto(t, "disconnect")
          /\ goal' = [goal EXCEPT ![t] = "exit"]
     ELSE /\ Goto(t, IF t = "reader" THEN "ended"
                     ELSE IF goal[t] = "return" THEN "stop" ELSE "prompt")
          /\ UNCHANGED <<goal, exiting>>
  /\ UNCHANGED <<running, connected, loggedIn, shared, frame, socket, joined,
                 ended, peer, entered, history>>

\* onDisconnected: the flags, then the message, under the mutex of the terminal.
OnDisconnected(t) ==
  /\ At(t, "disconnect")
  /\ loggedIn' = FALSE /\ connected' = FALSE
  /\ Goto(t, "report")
  /\ UNCHANGED <<goal, running, exiting, shared, frame, socket, joined, ended,
                 peer, entered, history>>

Report(t) ==
  /\ At(t, "report")
  /\ ioLock = Nobody
  /\ Goto(t, "stop")
  /\ UNCHANGED <<goal, flags, shared, frame, socket, joined, ended, peer, entered,
                 history>>

\* A client that is logged in still sends its LOGOUT, and waits 100 ms for it.
Stop(t) ==
  /\ At(t, "stop")
  /\ IF loggedIn /\ fd # "none"
     THEN Push(t, "LOGOUT") /\ Goto(t, "logout") /\ UNCHANGED running
     ELSE running' = FALSE /\ Goto(t, "shut") /\ UNCHANGED <<outbox, outboxLock>>
  /\ UNCHANGED <<goal, connected, exiting, loggedIn, outboxClosed, ioLock, frame,
                 socket, joined, ended, peer, entered, history>>

LogoutPushed(t) ==
  /\ At(t, "logout")
  /\ outboxLock' = Nobody
  /\ Goto(t, "wait")
  /\ UNCHANGED <<goal, flags, outbox, outboxClosed, ioLock, frame, socket, joined,
                 ended, peer, entered, history>>

Waited(t) ==
  /\ At(t, "wait")
  /\ running' = FALSE
  /\ Goto(t, "shut")
  /\ UNCHANGED <<goal, connected, exiting, loggedIn, shared, frame, socket, joined,
                 ended, peer, entered, history>>

\* Close holds the mutex of the queue until it returns.
CloseQueue(t) ==
  /\ At(t, "shut")
  /\ outboxLock = Nobody
  /\ outboxLock' = t
  /\ outboxClosed' = TRUE
  /\ Goto(t, "closing")
  /\ UNCHANGED <<goal, flags, outbox, ioLock, frame, socket, joined, ended, peer,
                 entered, history>>

\* stop() without the shutdown.
ShutdownMissed(t) ==
  /\ At(t, "closing")
  /\ outboxLock' = Nobody
  /\ Goto(t, "joinReader")
  /\ UNCHANGED <<goal, flags, outbox, outboxClosed, ioLock, frame, socket, joined,
                 ended, peer, entered, history>>

Shutdown(t) ==
  /\ At(t, "closing")
  /\ outboxLock' = Nobody
  /\ shut' = (shut \/ fd = "open")
  /\ Goto(t, "joinReader")
  /\ UNCHANGED <<goal, flags, outbox, outboxClosed, ioLock, frame, fd, joined,
                 ended, peer, entered, history>>

\* A thread is joined unless it was never started, was joined before or is the
\* one that joins.
Join(t, other, next) ==
  /\ \/ /\ \/ other = t \/ pc[other] = "none" \/ other \in joined
        /\ UNCHANGED joined
     \/ /\ other # t /\ other \notin joined
        /\ pc[other] = "ended"
        /\ joined' = joined \cup {other}
  /\ Goto(t, next)
  /\ UNCHANGED <<goal, flags, shared, frame, socket, ended, peer, entered,
                 history>>

JoinReader(t) == At(t, "joinReader") /\ Join(t, "reader", "joinWriter")

\* The writer is not waited for.
JoinWriterSkipped(t) ==
  /\ At(t, "joinWriter")
  /\ Goto(t, "close")
  /\ UNCHANGED <<goal, flags, shared, frame, socket, joined, ended, peer, entered,
                 history>>

JoinWriter(t) == At(t, "joinWriter") /\ Join(t, "writer", "close")

\* stop() returns, and the process ends unless main has still to call
\* gracefulExit.
Stopped(t) ==
  IF goal[t] = "graceful" THEN Goto(t, "graceful") /\ UNCHANGED ended
                          ELSE ended' = "exit" /\ UNCHANGED pc

\* The descriptor is closed.  Who was still connected and does not exit is told
\* so, under the mutex of the terminal.
Close(t) ==
  /\ At(t, "close")
  /\ fd' = "none"
  /\ connected' = FALSE
  /\ IF connected /\ ~exiting
     THEN /\ ioLock = Nobody
          /\ ioLock' = t
          /\ Goto(t, "notice")
          /\ UNCHANGED ended
     ELSE Stopped(t) /\ UNCHANGED ioLock
  /\ UNCHANGED <<goal, running, exiting, loggedIn, outbox, outboxClosed, outboxLock,
                 frame, shut, joined, peer, entered, history>>

Notice(t) ==
  /\ At(t, "notice")
  /\ ioLock' = Nobody
  /\ Stopped(t)
  /\ UNCHANGED <<goal, flags, outbox, outboxClosed, outboxLock, frame, socket,
                 joined, peer, entered, history>>

-----------------------------------------------------------------------------
(* readTaskHandler.                                                        *)

ReaderChecks ==
  /\ At("reader", "check")
  /\ Goto("reader", IF running THEN "recv" ELSE "ended")
  /\ unattended' = (unattended \/ (~running /\ pc["main"] = "launched"))
  /\ UNCHANGED <<goal, flags, shared, frame, socket, joined, ended, peer, entered,
                 caught>>

\* recv gives a line, and prettyPrintLine handles it, under the mutex of the
\* terminal.
Handle ==
  /\ At("reader", "recv")
  /\ ioLock = Nobody
  /\ inbound # <<>>
  /\ inbound' = Tail(inbound)
  /\ loggedIn' = CASE Head(inbound) = "uid" -> TRUE
                   [] Head(inbound) = "logout" -> FALSE
                   [] OTHER -> loggedIn
  /\ Goto("reader", "check")
  /\ UNCHANGED <<goal, running, connected, exiting, shared, frame, socket, joined,
                 ended, peerUp, received, pushed, entered, history>>

\* The reader ends its loop and nothing else.
ConnectionEndsUnnoticed ==
  /\ At("reader", "recv")
  /\ inbound = <<>> /\ (shut \/ ~peerUp)
  /\ Goto("reader", "ended")
  /\ UNCHANGED <<goal, flags, shared, frame, socket, joined, ended, peer, entered,
                 history>>

\* recv gives 0 or an error: the flags are reset, the queue is closed, and the
\* reader goes into gracefulExit.
ConnectionEnds ==
  /\ At("reader", "recv")
  /\ inbound = <<>> /\ (shut \/ ~peerUp)
  /\ outboxLock = Nobody
  /\ running' = FALSE /\ connected' = FALSE
  /\ outboxClosed' = TRUE
  /\ Goto("reader", "graceful")
  /\ UNCHANGED <<goal, exiting, loggedIn, outbox, outboxLock, ioLock, frame,
                 socket, joined, ended, peer, entered, history>>

-----------------------------------------------------------------------------
(* sendLoop.                                                               *)

WriterChecks ==
  /\ At("writer", "check")
  /\ Goto("writer", IF running THEN "pop" ELSE "ended")
  /\ UNCHANGED <<goal, flags, shared, frame, socket, joined, ended, peer, entered,
                 history>>

\* Pop that sends what it has not taken from a closed queue.
PopUnchecked ==
  /\ At("writer", "pop") /\ outboxLock = Nobody
  /\ outbox # <<>> \/ outboxClosed
  /\ IF outbox # <<>>
     THEN frame' = Head(outbox) /\ outbox' = Tail(outbox)
     ELSE UNCHANGED <<frame, outbox>>
  /\ Goto("writer", "send")
  /\ UNCHANGED <<goal, flags, outboxClosed, outboxLock, ioLock, socket, joined,
                 ended, peer, entered, history>>

Pop ==
  /\ At("writer", "pop") /\ outboxLock = Nobody
  /\ \/ /\ outbox # <<>>
        /\ frame' = Head(outbox) /\ outbox' = Tail(outbox)
        /\ Goto("writer", "send")
     \/ /\ outbox = <<>> /\ outboxClosed
        /\ Goto("writer", "ended")
        /\ UNCHANGED <<frame, outbox>>
  /\ UNCHANGED <<goal, flags, outboxClosed, outboxLock, ioLock, socket, joined,
                 ended, peer, entered, history>>

\* sendAll: the gateway takes the line, in its own time.
Sent ==
  /\ At("writer", "send")
  /\ peerUp /\ ~shut
  /\ received' = Append(received, frame)
  /\ frame' = "none"
  /\ Goto("writer", "check")
  /\ UNCHANGED <<goal, flags, shared, socket, joined, ended, peerUp, inbound,
                 pushed, entered, history>>

SendFails ==
  /\ At("writer", "send")
  /\ shut \/ ~peerUp
  /\ frame' = "none"
  /\ Goto("writer", "ended")
  /\ UNCHANGED <<goal, flags, shared, socket, joined, ended, peer, entered,
                 history>>

-----------------------------------------------------------------------------
(* The gateway, as the client sees it: it answers the lines in their order, *)
(* pushes messages, and may close the connection.                           *)

Connected == fd = "open" /\ ~shut /\ peerUp /\ ended = "no"

AnswersTo(line) ==
  {"other"} \cup (IF line = "LOGIN" THEN {"uid"} ELSE {})
            \cup (IF line = "LOGOUT" THEN {"logout"} ELSE {})

GatewayAnswers ==
  /\ Connected
  /\ received # <<>>
  /\ \E reply \in AnswersTo(Head(received)) : inbound' = Append(inbound, reply)
  /\ received' = Tail(received)
  /\ UNCHANGED <<pc, goal, flags, shared, frame, socket, joined, ended, peerUp,
                 pushed, entered, history>>

GatewayPushes ==
  /\ Connected
  /\ pushed < MaxPushes
  /\ pushed' = pushed + 1
  /\ inbound' = Append(inbound, "other")
  /\ UNCHANGED <<pc, goal, flags, shared, frame, socket, joined, ended, peerUp,
                 received, entered, history>>

\* A connection that is reset also loses what was on its way.
GatewayCloses ==
  /\ Connected
  /\ peerUp' = FALSE
  /\ inbound' \in {inbound, <<>>}
  /\ UNCHANGED <<pc, goal, flags, shared, frame, socket, joined, ended, received,
                 pushed, entered, history>>

-----------------------------------------------------------------------------
User == (\E line \in Lines : Command(line)) \/ Quit \/ QuitTrimmed

Exits(t) ==
  \/ Graceful(t) \/ OnDisconnected(t) \/ Report(t)
  \/ Stop(t) \/ LogoutPushed(t) \/ Waited(t) \/ CloseQueue(t) \/ Shutdown(t)
  \/ JoinReader(t) \/ JoinWriter(t) \/ Close(t) \/ Notice(t)

Main == SetRunning \/ StartWriter \/ PushReturns \/ Exits("main")
Reader == ReaderChecks \/ Handle \/ ConnectionEnds \/ Exits("reader")
Writer == WriterChecks \/ Pop \/ SendFails

Peer == GatewayAnswers \/ GatewayPushes \/ GatewayCloses

Next ==
  \/ ConnectFails \/ StartReader \/ User
  \/ Signal \/ SignalInAllocator \/ SignalInJoin
  \/ Main \/ Reader \/ Writer \/ Sent \/ Peer

Spec == Init /\ [][Next]_vars

\* The three threads run.  The user may stop typing, no signal need come, and
\* the gateway may stop reading: a send() may wait for ever.
Fairness == WF_vars(Main) /\ WF_vars(Reader) /\ WF_vars(Writer)

LiveSpec == Spec /\ Fairness

-----------------------------------------------------------------------------
\* The order of stop() (client.cc:68-74): when the descriptor is closed, neither
\* the reader nor the writer is in a call on it.
ClosedUnused ==
  ended = "no" /\ fd # "open" => pc["reader"] # "recv" /\ pc["writer"] # "send"

\* readTaskHandler (client.cc:174): a connected client that does not exit has a
\* reader, unless that one found running_ not yet set when main started it.
ReaderAttends ==
  pc["reader"] = "ended" /\ ended = "no"
     => exiting \/ unattended \/ goal["main"] # "none"

\* gracefulExit and stop: the process ends once it was asked to, by the user, by
\* a signal or by the gateway that closed the connection, whatever its threads
\* wait in, unless the signal (main.cc:17) found main with a lock its handler
\* waits for: that of the queue, in Push or Close, that of the terminal, or the
\* allocator's.
EndsWhenAsked ==
  (exiting \/ goal["main"] # "none" \/ (pc["reader"] = "recv" /\ ~peerUp))
     ~> (ended # "no" \/ caught)
=============================================================================
