---------------------------- MODULE PushChannel ----------------------------
(***************************************************************************)
(* What the gateway promises of the messages pushed to clients, whatever   *)
(* threads and queues they pass: a message is written to at most one       *)
(* connection and at most once, only to a connection that was told it is   *)
(* the session of the recipient, and each connection gets its messages in  *)
(* the order in which they were published.  Messages may be lost.          *)
(***************************************************************************)
EXTENDS Naturals, Sequences

CONSTANTS
  Users, Conns, Msgs,
  To    \* the recipient of each message

VARIABLES
  published,  \* messages in the order they were published
  lines       \* the lines written to each connection

Elements(s) == {s[i] : i \in DOMAIN s}
Position(m) == CHOOSE i \in DOMAIN published : published[i] = m

UidLine(u) == [line |-> "uid", val |-> u]
MsgLine(m) == [line |-> "msg", val |-> m]

\* The users connection c was told it is, and the messages written to it.
Greeted(c) == {u \in Users : UidLine(u) \in Elements(lines[c])}
Pushed(c) == {m \in Msgs : MsgLine(m) \in Elements(lines[c])}

Write(c, line) == lines' = [lines EXCEPT ![c] = Append(@, line)]

Init ==
  /\ published = <<>>
  /\ lines = [c \in Conns |-> <<>>]

Publish(m) ==
  /\ m \notin Elements(published)
  /\ published' = Append(published, m)
  /\ UNCHANGED lines

Greet(c, u) ==
  /\ Write(c, UidLine(u))
  /\ UNCHANGED published

Push(c, m) ==
  /\ m \in Elements(published)
  /\ To[m] \in Greeted(c)
  /\ \A d \in Conns : m \notin Pushed(d)
  /\ \A n \in Pushed(c) : Position(n) < Position(m)
  /\ Write(c, MsgLine(m))
  /\ UNCHANGED published

Next ==
  \/ \E m \in Msgs : Publish(m)
  \/ \E c \in Conns, u \in Users : Greet(c, u)
  \/ \E c \in Conns, m \in Msgs : Push(c, m)

Spec == Init /\ [][Next]_<<published, lines>>
=============================================================================
