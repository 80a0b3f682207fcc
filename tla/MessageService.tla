--------------------------- MODULE MessageService ---------------------------
(***************************************************************************)
(* Messages between users and to groups (im-message/src/message_service.cc *)
(* over im-message/src/offline_model.cc): Send asks the presence service   *)
(* for the route of the recipient, hands the message over or stores it;    *)
(* PullOffline selects the stored rows, deletes them and answers.  Each    *)
(* statement takes a connection of the pool and gives it back, so calls    *)
(* interleave between any two statements; no transaction binds them.       *)
(*                                                                         *)
(* What the presence service answers is left open here: Delivery composes  *)
(* the two.                                                                *)
(***************************************************************************)
EXTENDS Naturals, FiniteSets

CONSTANTS
  Users,
  Msgs,         \* messages, each sent once
  To,           \* the recipient of a message, None: a group message
  Workers,      \* RPC worker threads of the service
  None,         \* no user, no message
  MaxFaults,    \* bound: statements the database fails
  MaxCrashes    \* bound: ends of the service process

ASSUME MessageServiceAssumption ==
  /\ None \notin Users \cup Msgs
  /\ To \in [Msgs -> Users \cup {None}]
  /\ MaxFaults \in Nat
  /\ MaxCrashes \in Nat

VARIABLES
  table,       \* rows of offlinemessage, of type c2c and group
  worker,      \* the call each worker thread executes
  faults,
  crashes,
  sent,        \* history: messages taken by Send or SendGroup
  answered,    \* history: the answer of their call
  given,       \* history: how often a PULL answered a message to each user
  exposed,     \* history: messages that met a way to be lost
  overlapped   \* history: users who had two PULLs under way at once

vars == <<table, worker, faults, crashes, sent, answered, given, exposed,
          overlapped>>

GroupMsgs == {m \in Msgs : To[m] = None}

SendSteps == {"query", "deliver", "store"}
PullSteps == {"select", "selectGroup", "remove", "removeGroup"}

\* res: the answer of a send.  rows: what a PULL has selected.
Busy ==
  [op : {"send"}, step : SendSteps \cup {"answer"}, user : {None}, msg : Msgs,
   res : {"none", "delivered", "queued"}, rows : {{}}]
  \cup
  [op : {"pull"}, step : PullSteps \cup {"answer"}, user : Users, msg : {None},
   res : {"none"}, rows : SUBSET Msgs]

Idle == [op |-> "none", step |-> "idle", user |-> None, msg |-> None,
         res |-> "none", rows |-> {}]

TypeOK ==
  /\ table \subseteq Msgs
  /\ worker \in [Workers -> Busy \cup {Idle}]
  /\ faults \in Nat
  /\ crashes \in Nat
  /\ sent \subseteq Msgs
  /\ answered \in [Msgs -> {"none", "delivered", "queued"}]
  /\ given \in [Users -> [Msgs -> Nat]]
  /\ exposed \subseteq Msgs
  /\ overlapped \subseteq Users

Init ==
  /\ table = {}
  /\ worker = [w \in Workers |-> Idle]
  /\ faults = 0
  /\ crashes = 0
  /\ sent = {}
  /\ answered = [m \in Msgs |-> "none"]
  /\ given = [u \in Users |-> [m \in Msgs |-> 0]]
  /\ exposed = {}
  /\ overlapped = {}

-----------------------------------------------------------------------------
(* Send and SendGroup.                                                     *)

Goto(w, step) == worker' = [worker EXCEPT ![w].step = step]

AnswerSend(w, res) ==
  worker' = [worker EXCEPT ![w].step = "answer", ![w].res = res]

CallSend(w, m) ==
  /\ worker[w] = Idle
  /\ m \notin sent
  /\ sent' = sent \cup {m}
  /\ worker' = [worker EXCEPT ![w] =
       [Idle EXCEPT !.op = "send", !.msg = m,
                    !.step = IF m \in GroupMsgs THEN "store" ELSE "query"]]
  /\ UNCHANGED <<table, faults, crashes, answered, given, exposed, overlapped>>

\* QueryRoute has answered Ok with a gateway, or not, or the call has failed.
QueryReturns(w, routed) ==
  /\ worker[w].step = "query"
  /\ Goto(w, IF routed THEN "deliver" ELSE "store")
  /\ UNCHANGED <<table, faults, crashes, sent, answered, given, exposed, overlapped>>

\* A send that stores the message after it was delivered, too.
DeliverReturnsStores(w, ok) ==
  /\ worker[w].step = "deliver"
  /\ ok \in BOOLEAN
  /\ Goto(w, "store")
  /\ UNCHANGED <<table, faults, crashes, sent, answered, given, exposed, overlapped>>

\* Deliver has answered Ok, or not, or the call has failed.
DeliverReturns(w, ok) ==
  /\ worker[w].step = "deliver"
  /\ IF ok THEN AnswerSend(w, "delivered") ELSE Goto(w, "store")
  /\ UNCHANGED <<table, faults, crashes, sent, answered, given, exposed, overlapped>>

\* The PULLs that delete message m in their next deletion without having
\* selected it.
InGap(m) ==
  \E v \in Workers :
     /\ worker[v].op = "pull"
     /\ m \notin worker[v].rows
     /\ \/ m \in GroupMsgs /\ worker[v].step \in {"remove", "removeGroup"}
        \/ To[m] = worker[v].user /\ worker[v].step \in {"selectGroup", "remove"}

\* OfflineModel::insert and insertGroupMessage; "queued" even when they fail.
Store(w) ==
  /\ worker[w].step = "store"
  /\ \/ /\ table' = table \cup {worker[w].msg}
        /\ exposed' = exposed \cup {m \in {worker[w].msg} : InGap(m)}
        /\ UNCHANGED faults
     \/ /\ faults < MaxFaults
        /\ faults' = faults + 1
        /\ exposed' = exposed \cup {worker[w].msg}
        /\ UNCHANGED table
  /\ AnswerSend(w, "queued")
  /\ UNCHANGED <<crashes, sent, answered, given, overlapped>>

-----------------------------------------------------------------------------
(* PullOffline: four statements.                                           *)

CallPull(w, u) ==
  /\ worker[w] = Idle
  /\ worker' = [worker EXCEPT ![w] =
       [Idle EXCEPT !.op = "pull", !.step = "select", !.user = u]]
  /\ overlapped' = IF \E v \in Workers : worker[v].user = u
                    THEN overlapped \cup {u} ELSE overlapped
  /\ UNCHANGED <<table, faults, crashes, sent, answered, given, exposed>>

Rows(u) == {m \in table : To[m] = u}

\* A statement selects the rows of user u (None: of all groups); a failed one
\* gives no rows.
Selects(w, u, next) ==
  \/ /\ worker' = [worker EXCEPT ![w].step = next, ![w].rows = @ \cup Rows(u)]
     /\ UNCHANGED <<faults, exposed>>
  \/ /\ faults < MaxFaults
     /\ faults' = faults + 1
     /\ Goto(w, next)
     /\ exposed' = exposed \cup Rows(u)

\* A statement deletes the rows of user u; that it failed is not looked at.
Deletes(w, u, next) ==
  /\ \/ /\ table' = table \ Rows(u)
        /\ UNCHANGED faults
     \/ /\ faults < MaxFaults
        /\ faults' = faults + 1
        /\ UNCHANGED table
  /\ Goto(w, next)

\* SELECT without the condition on the user.
SelectAll(w) ==
  /\ worker[w].step = "select"
  /\ worker' = [worker EXCEPT ![w].step = "selectGroup", ![w].rows = table]
  /\ UNCHANGED <<table, faults, crashes, sent, answered, given, exposed, overlapped>>

Select(w) ==
  /\ worker[w].step = "select"
  /\ Selects(w, worker[w].user, "selectGroup")
  /\ UNCHANGED <<table, crashes, sent, answered, given, overlapped>>

SelectGroup(w) ==
  /\ worker[w].step = "selectGroup"
  /\ Selects(w, None, "remove")
  /\ UNCHANGED <<table, crashes, sent, answered, given, overlapped>>

\* DELETE without the condition on the user.
RemoveAll(w) ==
  /\ worker[w].step = "remove"
  /\ table' = table \cap GroupMsgs
  /\ Goto(w, "removeGroup")
  /\ UNCHANGED <<faults, crashes, sent, answered, given, exposed, overlapped>>

\* No DELETE of the rows of the user.
RemoveNothing(w) ==
  /\ worker[w].step = "remove"
  /\ Goto(w, "removeGroup")
  /\ UNCHANGED <<table, faults, crashes, sent, answered, given, exposed, overlapped>>

Remove(w) ==
  /\ worker[w].step = "remove"
  /\ Deletes(w, worker[w].user, "removeGroup")
  /\ UNCHANGED <<crashes, sent, answered, given, exposed, overlapped>>

RemoveGroup(w) ==
  /\ worker[w].step = "removeGroup"
  /\ Deletes(w, None, "answer")
  /\ UNCHANGED <<crashes, sent, answered, given, exposed, overlapped>>

-----------------------------------------------------------------------------
\* An answer object the next call finds as it was left.
ReplyKept(w) ==
  /\ worker[w].step = "answer"
  /\ Goto(w, "idle")
  /\ UNCHANGED <<table, faults, crashes, sent, answered, given, exposed, overlapped>>

\* done->Run() sends the answer.
Reply(w) ==
  /\ worker[w].step = "answer"
  /\ worker' = [worker EXCEPT ![w] = Idle]
  /\ LET c == worker[w]
     IN  IF c.op = "send"
         THEN /\ answered' = [answered EXCEPT ![c.msg] = c.res]
              /\ UNCHANGED given
         ELSE /\ given' = [given EXCEPT ![c.user] =
                   [m \in Msgs |-> IF m \in c.rows THEN @[m] + 1 ELSE @[m]]]
              /\ UNCHANGED answered
  /\ UNCHANGED <<table, faults, crashes, sent, exposed, overlapped>>

\* The process ends in the middle of its calls, and starts again.
Crash ==
  /\ crashes < MaxCrashes
  /\ crashes' = crashes + 1
  /\ worker' = [w \in Workers |-> Idle]
  /\ exposed' = exposed \cup {m \in Msgs \ table : \E w \in Workers : m \in worker[w].rows}
  /\ UNCHANGED <<table, faults, sent, answered, given, overlapped>>

-----------------------------------------------------------------------------
Receive(w) ==
  \/ \E m \in Msgs : CallSend(w, m)
  \/ \E u \in Users : CallPull(w, u)

Pull(w) == Select(w) \/ SelectGroup(w) \/ Remove(w) \/ RemoveGroup(w)

Presence(w) ==
  \E b \in BOOLEAN : QueryReturns(w, b) \/ DeliverReturns(w, b)

Next ==
  \/ \E w \in Workers :
        Receive(w) \/ Presence(w) \/ Store(w) \/ Pull(w) \/ Reply(w)
  \/ Crash

Spec == Init /\ [][Next]_vars

-----------------------------------------------------------------------------
\* A PULL has read the message and will answer it, or one has answered it.
Taken(m) ==
  \/ \E w \in Workers : worker[w].op = "pull" /\ m \in worker[w].rows
  \/ \E u \in Users : given[u][m] > 0

\* Whatever fails, a message answered "queued" stays in the table until a PULL of
\* its recipient (of anyone, for a group message) has read it, but for the four
\* ways of losing one: its own INSERT failed; it was stored between the SELECT
\* and the DELETE of such a PULL; the SELECT of such a PULL failed while it was
\* there; the service ended when a PULL had deleted it and not yet answered.
LostOnlyIfExposed ==
  \A m \in Msgs :
     answered[m] = "queued" => m \in table \/ Taken(m) \/ m \in exposed

\* As long as the database does not fail, a message is given to a user twice only
\* if two PULLs of that user overlapped.
GivenOnce ==
  \A m \in Msgs \ GroupMsgs, u \in Users :
     faults = 0 => given[u][m] <= 1 \/ u \in overlapped

\* Whatever fails: a message handed over for a push is not stored as well, and
\* no PULL gives a message to anyone but its recipient.
PushedOrStored ==
  \A m \in Msgs \ GroupMsgs :
     /\ answered[m] = "delivered" => m \notin table /\ ~Taken(m)
     /\ \A u \in Users : given[u][m] > 0 => u = To[m]
=============================================================================
