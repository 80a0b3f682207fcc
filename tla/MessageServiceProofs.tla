------------------------ MODULE MessageServiceProofs ------------------------
(***************************************************************************)
(* What the message service promises, for any users, messages, recipients, *)
(* workers and failures: a message is pushed or stored, a stored one is    *)
(* lost in four ways only, and it is given once.  And what it promises     *)
(* together with the presence service: a message that is pushed is heard,  *)
(* one whose recipient is routed is pushed, and none is both heard and     *)
(* stored.                                                                 *)
(*                                                                         *)
(* Every action changes the call of one worker.  The lemmas on effects say *)
(* what it does to that call; the invariants are then kept action by       *)
(* action.  The second half does the same for Delivery: what a step of     *)
(* either service does, as the other sees it, comes first.                 *)
(***************************************************************************)
EXTENDS Delivery, TLAPS

-----------------------------------------------------------------------------
(* Calls, and what a step changes of them.                                 *)

SendCall ==
  [op : {"send"}, step : SendSteps \cup {"answer"}, user : {None}, msg : Msgs,
   res : {"none", "delivered", "queued"}, rows : {{}}]
PullCall ==
  [op : {"pull"}, step : PullSteps \cup {"answer"}, user : Users, msg : {None},
   res : {"none"}, rows : SUBSET Msgs]

\* A worker is idle, or executes a Send or a PULL.
LEMMA Calls ==
  ASSUME TypeOK, NEW w \in Workers
  PROVE  \/ worker[w] = Idle
         \/ worker[w] \in SendCall
         \/ worker[w] \in PullCall
BY DEF TypeOK, Busy, SendCall, PullCall

\* What the step of a call says of the call.
LEMMA StepOfSend ==
  ASSUME TypeOK, NEW w \in Workers, worker[w].step \in SendSteps
  PROVE  worker[w] \in SendCall
BY Calls DEF SendCall, PullCall, SendSteps, PullSteps, Idle

LEMMA StepOfPull ==
  ASSUME TypeOK, NEW w \in Workers, worker[w].step \in PullSteps
  PROVE  worker[w] \in PullCall
BY Calls DEF SendCall, PullCall, SendSteps, PullSteps, Idle

\* One worker has another call, the others keep theirs.
Becomes(w, r) ==
  /\ r \in SendCall \cup PullCall \cup {Idle}
  /\ worker' = [worker EXCEPT ![w] = r]

\* A worker that takes a call, moves on or ends it keeps its type ...
LEMMA BecomesTyped ==
  ASSUME TypeOK, NEW w \in Workers, NEW r, Becomes(w, r)
  PROVE  worker' \in [Workers -> Busy \cup {Idle}]
BY DEF TypeOK, Busy, SendCall, PullCall, Becomes

\* ... and leaves the others alone.
LEMMA BecomesAlone ==
  ASSUME TypeOK, NEW w \in Workers, NEW r, Becomes(w, r)
  PROVE  worker'[w] = r /\ \A v \in Workers \ {w} : worker'[v] = worker[v]
BY DEF TypeOK, Becomes

\* The ways in which a call moves on are of that form.
LEMMA GotoSend ==
  ASSUME TypeOK, NEW w \in Workers, worker[w] \in SendCall,
         NEW step \in SendSteps, Goto(w, step)
  PROVE  Becomes(w, [worker[w] EXCEPT !.step = step])
BY DEF TypeOK, Goto, Becomes, SendCall

LEMMA AnswerOfSend ==
  ASSUME TypeOK, NEW w \in Workers, worker[w] \in SendCall,
         NEW res \in {"delivered", "queued"}, AnswerSend(w, res)
  PROVE  Becomes(w, [worker[w] EXCEPT !.step = "answer", !.res = res])
BY DEF TypeOK, AnswerSend, Becomes, SendCall

LEMMA GotoPull ==
  ASSUME TypeOK, NEW w \in Workers, worker[w] \in PullCall,
         NEW step \in PullSteps \cup {"answer"}, Goto(w, step)
  PROVE  Becomes(w, [worker[w] EXCEPT !.step = step])
BY DEF TypeOK, Goto, Becomes, PullCall

\* What a statement selects are messages.
LEMMA RowsTyped ==
  ASSUME TypeOK, NEW u
  PROVE  Rows(u) \subseteq Msgs
BY DEF Rows, TypeOK

LEMMA SelectsPull ==
  ASSUME TypeOK, NEW w \in Workers, worker[w] \in PullCall, NEW u,
         NEW step \in PullSteps,
         worker' = [worker EXCEPT ![w].step = step, ![w].rows = @ \cup Rows(u)]
  PROVE  Becomes(w, [worker[w] EXCEPT !.step = step, !.rows = worker[w].rows \cup Rows(u)])
BY RowsTyped DEF TypeOK, Becomes, PullCall

-----------------------------------------------------------------------------
(* Types.                                                                  *)

\* The initial state, and each action, are typed.
LEMMA TypeInit == Init => TypeOK
BY DEF Init, TypeOK, Busy, Idle

LEMMA TypeReceive ==
  ASSUME TypeOK, NEW w \in Workers, Receive(w)
  PROVE  TypeOK'
<1>1. ASSUME NEW m \in Msgs, CallSend(w, m) PROVE TypeOK'
  <2> DEFINE r == [Idle EXCEPT !.op = "send", !.msg = m,
                               !.step = IF m \in GroupMsgs THEN "store" ELSE "query"]
  <2>1. Becomes(w, r)
    BY <1>1 DEF CallSend, Becomes, SendCall, SendSteps, Idle
  <2> HIDE DEF r
  <2>2. worker' \in [Workers -> Busy \cup {Idle}]
    BY <2>1, BecomesTyped
  <2> QED
    BY <1>1, <2>2 DEF TypeOK, CallSend
<1>2. ASSUME NEW u \in Users, CallPull(w, u) PROVE TypeOK'
  <2> DEFINE r == [Idle EXCEPT !.op = "pull", !.step = "select", !.user = u]
  <2>1. Becomes(w, r)
    BY <1>2 DEF CallPull, Becomes, PullCall, PullSteps, Idle
  <2> HIDE DEF r
  <2>2. worker' \in [Workers -> Busy \cup {Idle}]
    BY <2>1, BecomesTyped
  <2> QED
    BY <1>2, <2>2 DEF TypeOK, CallPull
<1> QED
  BY <1>1, <1>2 DEF Receive

LEMMA TypeSend ==
  ASSUME TypeOK, NEW w \in Workers, Presence(w) \/ Store(w)
  PROVE  TypeOK'
<1>1. worker[w] \in SendCall
  BY StepOfSend DEF SendSteps, Presence, QueryReturns, DeliverReturns, Store
<1>2. worker' \in [Workers -> Busy \cup {Idle}]
  <2>1. \/ \E step \in SendSteps : Goto(w, step)
        \/ \E res \in {"delivered", "queued"} : AnswerSend(w, res)
    BY DEF Presence, QueryReturns, DeliverReturns, Store, SendSteps
  <2> QED
    BY <1>1, <2>1, GotoSend, AnswerOfSend, BecomesTyped
<1>3. worker[w].msg \in Msgs
  BY <1>1 DEF SendCall
<1>4. CASE Presence(w)
  BY <1>2, <1>4 DEF TypeOK, Presence, QueryReturns, DeliverReturns
<1>5. CASE Store(w)
  BY <1>2, <1>3, <1>5 DEF TypeOK, Store
<1> QED
  BY <1>4, <1>5

LEMMA TypePull ==
  ASSUME TypeOK, NEW w \in Workers, Pull(w)
  PROVE  TypeOK'
<1>1. worker[w] \in PullCall
  BY StepOfPull DEF PullSteps, Pull, Select, SelectGroup, Remove, RemoveGroup
<1>2. worker' \in [Workers -> Busy \cup {Idle}]
  <2>1. \/ \E step \in PullSteps \cup {"answer"} : Goto(w, step)
        \/ \E step \in PullSteps, u \in Users \cup {None} :
             worker' = [worker EXCEPT ![w].step = step, ![w].rows = @ \cup Rows(u)]
    <3>1. worker[w].user \in Users
      BY <1>1 DEF PullCall
    <3> QED
      BY <3>1 DEF Pull, Select, SelectGroup, Remove, RemoveGroup, Selects, Deletes, PullSteps
  <2> QED
    BY <1>1, <2>1, GotoPull, SelectsPull, BecomesTyped
<1>3. CASE Select(w) \/ SelectGroup(w)
  BY <1>2, <1>3, RowsTyped DEF TypeOK, Select, SelectGroup, Selects
<1>4. CASE Remove(w) \/ RemoveGroup(w)
  BY <1>2, <1>4 DEF TypeOK, Remove, RemoveGroup, Deletes
<1> QED
  BY <1>3, <1>4 DEF Pull

LEMMA TypeReply ==
  ASSUME TypeOK, NEW w \in Workers, Reply(w)
  PROVE  TypeOK'
<1>1. worker' \in [Workers -> Busy \cup {Idle}]
  BY DEF Reply, TypeOK
<1>2. worker[w] # Idle
  BY DEF Reply, Idle
<1>3. CASE worker[w] \in SendCall
  BY <1>1, <1>3 DEF Reply, TypeOK, SendCall
<1>4. CASE worker[w] \in PullCall
  <2>1. worker[w].user \in Users
    BY <1>4 DEF PullCall
  <2>2. [m \in Msgs |-> IF m \in worker[w].rows THEN given[worker[w].user][m] + 1
                                              ELSE given[worker[w].user][m]]
          \in [Msgs -> Nat]
    BY <2>1 DEF TypeOK
  <2> QED
    BY <1>1, <1>4, <2>1, <2>2 DEF Reply, TypeOK, PullCall
<1> QED
  BY <1>2, <1>3, <1>4, Calls

LEMMA TypeCrash ==
  ASSUME TypeOK, Crash
  PROVE  TypeOK'
BY DEF TypeOK, Crash

-----------------------------------------------------------------------------
(* The invariants.                                                         *)

Sends(w, m) == worker[w].op = "send" /\ worker[w].msg = m
Pulls(w, u) == worker[w].op = "pull" /\ worker[w].user = u
Queues(w, m) == Sends(w, m) /\ worker[w].step = "answer" /\ worker[w].res = "queued"

\* Each message has one call, which has not answered yet while it runs.
OneSend ==
  /\ \A w \in Workers, m \in Msgs :
        Sends(w, m) => m \in sent /\ answered[m] = "none"
  /\ \A v, w \in Workers, m \in Msgs : Sends(v, m) /\ Sends(w, m) => v = w
  /\ \A m \in Msgs : answered[m] # "none" => m \in sent

\* What is stored, or was, has been queued: its call, if it still runs, says so.
StoredIsQueued ==
  \A m \in Msgs :
     m \in table \/ Taken(m) =>
        /\ m \in sent
        /\ answered[m] # "delivered"
        /\ \A w \in Workers : Sends(w, m) => Queues(w, m)

\* A PULL selects the messages of its user, and of groups.
OwnRows ==
  /\ \A w \in Workers : \A m \in worker[w].rows : To[m] \in {worker[w].user, None}
  /\ \A u \in Users, m \in Msgs : given[u][m] > 0 => To[m] \in {u, None}

PushInv == OneSend /\ StoredIsQueued /\ OwnRows

\* A message that met no way to be lost is where a PULL will find it, or has been
\* read; a PULL that is about to delete it has read it.
QueuedIsKept ==
  \A m \in Msgs :
     (answered[m] = "queued" \/ \E w \in Workers : Queues(w, m))
        => m \in table \/ Taken(m) \/ m \in exposed

DeletedIsRead ==
  \A m \in table \ exposed : ~InGap(m)

KeptInv == QueuedIsKept /\ DeletedIsRead

\* While the database does not fail and PULLs of a user do not overlap: a PULL
\* has the messages to itself; when it has deleted its rows they are out of the
\* table, and they were never given before.
OnePull ==
  \A v, w \in Workers, u \in Users \ overlapped :
     Pulls(v, u) /\ Pulls(w, u) => v = w

ReadOnce ==
  \A m \in Msgs \ GroupMsgs :
     (faults = 0 /\ To[m] \notin overlapped) =>
        /\ \A w \in Workers :
              m \in worker[w].rows =>
                 /\ given[To[m]][m] = 0
                 /\ worker[w].step \in {"removeGroup", "answer"} => m \notin table
        /\ m \in table => given[To[m]][m] = 0
        /\ given[To[m]][m] <= 1

GivenInv == OnePull /\ ReadOnce
-----------------------------------------------------------------------------
(* What each action does to the calls.                                     *)

\* All other workers and what they execute stay as they are.
OthersStay(w) == \A v \in Workers \ {w} : worker'[v] = worker[v]

\* A Send that begins, on a worker that was idle.
LEMMA CallSendEffect ==
  ASSUME TypeOK, NEW w \in Workers, NEW m \in Msgs, CallSend(w, m)
  PROVE  /\ OthersStay(w)
         /\ worker[w].op = "none" /\ worker[w].rows = {}
         /\ worker'[w].op = "send" /\ worker'[w].msg = m /\ worker'[w].rows = {}
         /\ worker'[w].step \in {"query", "store"} /\ worker'[w].user = None
<1> DEFINE r == [Idle EXCEPT !.op = "send", !.msg = m,
                             !.step = IF m \in GroupMsgs THEN "store" ELSE "query"]
<1>1. Becomes(w, r)
  BY DEF CallSend, Becomes, SendCall, SendSteps, Idle
<1>2. /\ r.op = "send" /\ r.msg = m /\ r.rows = {}
      /\ r.step \in {"query", "store"} /\ r.user = None
  BY DEF Idle
<1>3. worker[w].op = "none" /\ worker[w].rows = {}
  BY DEF CallSend, CallPull, Idle
<1> HIDE DEF r
<1> QED
  BY <1>1, <1>2, <1>3, BecomesAlone DEF OthersStay

\* A PULL that begins, on a worker that was idle.
LEMMA CallPullEffect ==
  ASSUME TypeOK, NEW w \in Workers, NEW u \in Users, CallPull(w, u)
  PROVE  /\ OthersStay(w)
         /\ worker[w].op = "none" /\ worker[w].rows = {}
         /\ worker'[w].op = "pull" /\ worker'[w].user = u /\ worker'[w].rows = {}
         /\ worker'[w].step = "select"
<1> DEFINE r == [Idle EXCEPT !.op = "pull", !.step = "select", !.user = u]
<1>1. Becomes(w, r)
  BY DEF CallPull, Becomes, PullCall, PullSteps, Idle
<1>2. r.op = "pull" /\ r.user = u /\ r.rows = {} /\ r.step = "select"
  BY DEF Idle
<1>3. worker[w].op = "none" /\ worker[w].rows = {}
  BY DEF CallSend, CallPull, Idle
<1> HIDE DEF r
<1> QED
  BY <1>1, <1>2, <1>3, BecomesAlone DEF OthersStay

\* An answer of the presence service: the call is not queued by it.
LEMMA PresenceEffect ==
  ASSUME TypeOK, NEW w \in Workers, Presence(w)
  PROVE  /\ OthersStay(w)
         /\ worker[w].op = "send" /\ worker'[w].op = "send"
         /\ worker'[w].msg = worker[w].msg
         /\ worker[w].rows = {} /\ worker'[w].rows = {}
         /\ worker[w].step # "answer"
         /\ worker'[w].step = "answer" => worker'[w].res = "delivered"
         /\ UNCHANGED <<table, faults, crashes, sent, answered, given, exposed, overlapped>>
<1>1. worker[w] \in SendCall /\ worker[w].step \in SendSteps
  BY StepOfSend DEF SendSteps, Presence, QueryReturns, DeliverReturns
<1>2. CASE \E step \in SendSteps : Goto(w, step)
  <2>1. PICK step \in SendSteps : Goto(w, step)
    BY <1>2
  <2> DEFINE r == [worker[w] EXCEPT !.step = step]
  <2>2. Becomes(w, r)
    BY <1>1, <2>1, GotoSend
  <2>3. r.op = "send" /\ r.msg = worker[w].msg /\ r.rows = {} /\ r.step # "answer"
    BY <1>1 DEF SendCall, SendSteps
  <2> HIDE DEF r
  <2> QED
    BY <1>1, <2>2, <2>3, BecomesAlone
       DEF OthersStay, Presence, QueryReturns, DeliverReturns, SendCall, SendSteps
<1>3. CASE AnswerSend(w, "delivered")
  <2> DEFINE r == [worker[w] EXCEPT !.step = "answer", !.res = "delivered"]
  <2>1. Becomes(w, r)
    BY <1>1, <1>3, AnswerOfSend
  <2>2. r.op = "send" /\ r.msg = worker[w].msg /\ r.rows = {} /\ r.res = "delivered"
    BY <1>1 DEF SendCall
  <2> HIDE DEF r
  <2> QED
    BY <1>1, <2>1, <2>2, BecomesAlone
       DEF OthersStay, Presence, QueryReturns, DeliverReturns, SendCall, SendSteps
<1> QED
  BY <1>2, <1>3 DEF Presence, QueryReturns, DeliverReturns, SendSteps

\* The INSERT of a Send, which is then answered "queued".
LEMMA StoreEffect ==
  ASSUME TypeOK, NEW w \in Workers, Store(w)
  PROVE  /\ OthersStay(w)
         /\ worker[w].op = "send" /\ worker'[w].op = "send"
         /\ worker[w].msg \in Msgs /\ worker'[w].msg = worker[w].msg
         /\ worker[w].rows = {} /\ worker'[w].rows = {}
         /\ worker[w].step # "answer"
         /\ worker'[w].step = "answer" /\ worker'[w].res = "queued"
<1>1. worker[w] \in SendCall
  BY StepOfSend DEF SendSteps, Store
<1> DEFINE r == [worker[w] EXCEPT !.step = "answer", !.res = "queued"]
<1>2. Becomes(w, r)
  BY <1>1, AnswerOfSend DEF Store
<1>3. /\ r.op = "send" /\ r.msg = worker[w].msg /\ r.rows = {}
      /\ r.step = "answer" /\ r.res = "queued"
  BY <1>1 DEF SendCall
<1> HIDE DEF r
<1> QED
  BY <1>1, <1>2, <1>3, BecomesAlone DEF OthersStay, Store, SendCall

\* A statement of a PULL, and what it leaves of the call.
LEMMA GotoEffect ==
  ASSUME TypeOK, NEW w \in Workers, worker[w].step \in PullSteps,
         NEW next \in PullSteps \cup {"answer"}, Goto(w, next)
  PROVE  /\ OthersStay(w)
         /\ worker[w].op = "pull" /\ worker'[w].op = "pull"
         /\ worker[w].user \in Users /\ worker'[w].user = worker[w].user
         /\ worker'[w].step = next
         /\ worker'[w].rows = worker[w].rows
<1>1. worker[w] \in PullCall
  BY StepOfPull
<1> DEFINE r == [worker[w] EXCEPT !.step = next]
<1>2. Becomes(w, r)
  BY <1>1, GotoPull
<1>3. /\ r.op = "pull" /\ r.user = worker[w].user /\ r.step = next
      /\ r.rows = worker[w].rows
  BY <1>1 DEF PullCall
<1>4. worker[w].op = "pull" /\ worker[w].user \in Users
  BY <1>1 DEF PullCall
<1> HIDE DEF r
<1> QED
  BY <1>2, <1>3, <1>4, BecomesAlone DEF OthersStay

\* A SELECT that did not fail.
LEMMA SelectsEffect ==
  ASSUME TypeOK, NEW w \in Workers, worker[w].step \in PullSteps,
         NEW next \in PullSteps, NEW u,
         worker' = [worker EXCEPT ![w].step = next, ![w].rows = @ \cup Rows(u)]
  PROVE  /\ OthersStay(w)
         /\ worker[w].op = "pull" /\ worker'[w].op = "pull"
         /\ worker[w].user \in Users /\ worker'[w].user = worker[w].user
         /\ worker'[w].step = next
         /\ worker'[w].rows = worker[w].rows \cup Rows(u)
<1>1. worker[w] \in PullCall
  BY StepOfPull
<1> DEFINE r == [worker[w] EXCEPT !.step = next, !.rows = worker[w].rows \cup Rows(u)]
<1>2. Becomes(w, r)
  BY <1>1, SelectsPull
<1>3. /\ r.op = "pull" /\ r.user = worker[w].user /\ r.step = next
      /\ r.rows = worker[w].rows \cup Rows(u)
  BY <1>1 DEF PullCall
<1>4. worker[w].op = "pull" /\ worker[w].user \in Users
  BY <1>1 DEF PullCall
<1> HIDE DEF r
<1> QED
  BY <1>2, <1>3, <1>4, BecomesAlone DEF OthersStay

\* The two SELECTs and the two DELETEs of a PULL: the rows they are about, and
\* the step that follows.
SelectOf(w, u) ==
  \/ worker[w].step = "select" /\ u = worker[w].user /\ worker'[w].step = "selectGroup"
  \/ worker[w].step = "selectGroup" /\ u = None /\ worker'[w].step = "remove"

DeleteOf(w, u) ==
  \/ worker[w].step = "remove" /\ u = worker[w].user /\ worker'[w].step = "removeGroup"
  \/ worker[w].step = "removeGroup" /\ u = None /\ worker'[w].step = "answer"

\* A statement of a PULL selects or deletes the rows of its user, or of groups.
LEMMA PullCases ==
  ASSUME TypeOK, NEW w \in Workers, Pull(w)
  PROVE  /\ OthersStay(w)
         /\ worker[w].op = "pull" /\ worker'[w].op = "pull"
         /\ worker[w].user \in Users /\ worker'[w].user = worker[w].user
         /\ worker[w].step # "answer"
         /\ UNCHANGED <<crashes, sent, answered, given, overlapped>>
         /\ \E u \in Users \cup {None} :
              \/ /\ SelectOf(w, u)
                 /\ UNCHANGED table
                 /\ \/ /\ worker'[w].rows = worker[w].rows \cup Rows(u)
                       /\ UNCHANGED <<faults, exposed>>
                    \/ /\ worker'[w].rows = worker[w].rows
                       /\ faults' = faults + 1
                       /\ exposed' = exposed \cup Rows(u)
              \/ /\ DeleteOf(w, u)
                 /\ worker'[w].rows = worker[w].rows
                 /\ UNCHANGED exposed
                 /\ \/ table' = table \ Rows(u) /\ UNCHANGED faults
                    \/ UNCHANGED table /\ faults' = faults + 1
<1>1. worker[w] \in PullCall
  BY StepOfPull DEF PullSteps, Pull, Select, SelectGroup, Remove, RemoveGroup
<1>2. worker[w].user \in Users
  BY <1>1 DEF PullCall
<1>3. ASSUME NEW u \in Users \cup {None}, NEW next \in {"selectGroup", "remove"},
             worker[w].step \in PullSteps, Selects(w, u, next)
      PROVE  /\ OthersStay(w)
             /\ worker[w].op = "pull" /\ worker'[w].op = "pull"
             /\ worker'[w].user = worker[w].user
             /\ worker'[w].step = next
             /\ \/ /\ worker'[w].rows = worker[w].rows \cup Rows(u)
                   /\ UNCHANGED <<faults, exposed>>
                \/ /\ worker'[w].rows = worker[w].rows
                   /\ faults' = faults + 1
                   /\ exposed' = exposed \cup Rows(u)
  <2>1. CASE /\ worker' = [worker EXCEPT ![w].step = next, ![w].rows = @ \cup Rows(u)]
             /\ UNCHANGED <<faults, exposed>>
    BY <1>3, <2>1, SelectsEffect DEF PullSteps
  <2>2. CASE Goto(w, next) /\ faults' = faults + 1 /\ exposed' = exposed \cup Rows(u)
    BY <1>3, <2>2, GotoEffect DEF PullSteps
  <2> QED
    BY <1>3, <2>1, <2>2 DEF Selects
<1>4. ASSUME NEW u \in Users \cup {None}, NEW next \in {"removeGroup", "answer"},
             worker[w].step \in PullSteps, Deletes(w, u, next)
      PROVE  /\ OthersStay(w)
             /\ worker[w].op = "pull" /\ worker'[w].op = "pull"
             /\ worker'[w].user = worker[w].user
             /\ worker'[w].step = next
             /\ worker'[w].rows = worker[w].rows
             /\ \/ table' = table \ Rows(u) /\ UNCHANGED faults
                \/ UNCHANGED table /\ faults' = faults + 1
  BY <1>4, GotoEffect DEF Deletes, PullSteps
<1>5. CASE Select(w)
  BY <1>2, <1>3, <1>5 DEF Select, SelectOf, PullSteps
<1>6. CASE SelectGroup(w)
  BY <1>2, <1>3, <1>6 DEF SelectGroup, SelectOf, PullSteps
<1>7. CASE Remove(w)
  BY <1>2, <1>4, <1>7 DEF Remove, DeleteOf, PullSteps
<1>8. CASE RemoveGroup(w)
  BY <1>2, <1>4, <1>8 DEF RemoveGroup, DeleteOf, PullSteps
<1> QED
  BY <1>5, <1>6, <1>7, <1>8 DEF Pull

\* An answer ends the call; a Send is recorded as answered, a PULL as given.
LEMMA ReplyEffect ==
  ASSUME TypeOK, NEW w \in Workers, Reply(w)
  PROVE  /\ OthersStay(w)
         /\ worker'[w].op = "none" /\ worker'[w].rows = {}
         /\ worker[w].step = "answer"
         /\ UNCHANGED <<table, faults, crashes, sent, exposed, overlapped>>
         /\ \/ /\ worker[w].op = "send"
               /\ worker[w].msg \in Msgs
               /\ answered' = [answered EXCEPT ![worker[w].msg] = worker[w].res]
               /\ UNCHANGED given
            \/ /\ worker[w].op = "pull"
               /\ worker[w].user \in Users
               /\ given' = [given EXCEPT ![worker[w].user] =
                    [m \in Msgs |-> IF m \in worker[w].rows THEN @[m] + 1 ELSE @[m]]]
               /\ UNCHANGED answered
<1>1. worker[w] # Idle
  BY DEF Reply, Idle
<1>2. \/ worker[w].op = "send" /\ worker[w].msg \in Msgs
      \/ worker[w].op = "pull" /\ worker[w].user \in Users
  BY <1>1, Calls DEF SendCall, PullCall
<1>3. OthersStay(w) /\ worker'[w].op = "none" /\ worker'[w].rows = {}
  BY DEF Reply, OthersStay, TypeOK, Idle
<1> QED
  BY <1>2, <1>3 DEF Reply

\* An answer gives the rows of its call to its user, and nothing else.
LEMMA ReplyGives ==
  ASSUME TypeOK, NEW w \in Workers, Reply(w)
  PROVE  \A u \in Users, m \in Msgs :
           IF worker[w].op = "pull" /\ u = worker[w].user /\ m \in worker[w].rows
           THEN given'[u][m] = given[u][m] + 1
           ELSE given'[u][m] = given[u][m]
<1>1. CASE worker[w].op = "send"
  BY <1>1, ReplyEffect
<1>2. CASE worker[w].op = "pull"
  <2> DEFINE row == [m \in Msgs |-> IF m \in worker[w].rows
                                    THEN given[worker[w].user][m] + 1
                                    ELSE given[worker[w].user][m]]
  <2>1. given' = [given EXCEPT ![worker[w].user] = row]
    BY <1>2, ReplyEffect
  <2>2. \A u \in Users : given'[u] = IF u = worker[w].user THEN row ELSE given[u]
    BY <2>1 DEF TypeOK
  <2>3. \A m \in Msgs : row[m] = IF m \in worker[w].rows
                                  THEN given[worker[w].user][m] + 1
                                  ELSE given[worker[w].user][m]
    OBVIOUS
  <2> HIDE DEF row
  <2> QED
    BY <1>2, <2>2, <2>3
<1> QED
  BY <1>1, <1>2, ReplyEffect

-----------------------------------------------------------------------------
(* PushInv.                                                                *)

\* PushInv holds at first, and each action keeps its conjuncts.
LEMMA PushInit == Init => PushInv
<1> SUFFICES ASSUME Init PROVE PushInv
  OBVIOUS
<1>1. \A w \in Workers : worker[w] = Idle
  BY DEF Init
<1>2. \A m \in Msgs : answered[m] = "none" /\ m \notin table
  BY DEF Init
<1>3. \A u \in Users, m \in Msgs : given[u][m] = 0
  BY DEF Init
<1> QED
  BY <1>1, <1>2, <1>3 DEF PushInv, OneSend, StoredIsQueued, OwnRows, Sends, Taken, Idle

\* A message is taken once, and answered when its call is over.
LEMMA OneSendKept ==
  ASSUME TypeOK, OneSend, [Next]_vars
  PROVE  OneSend'
<1>1. ASSUME NEW w \in Workers, NEW m \in Msgs, CallSend(w, m) PROVE OneSend'
  <2>1. \A v \in Workers : ~Sends(v, m) /\ answered[m] = "none"
    BY <1>1 DEF CallSend, OneSend, TypeOK
  <2>2. m \in sent' /\ sent \subseteq sent' /\ answered' = answered
    BY <1>1 DEF CallSend
  <2> QED
    BY <1>1, <2>1, <2>2, CallSendEffect DEF OneSend, Sends, OthersStay
<1>2. ASSUME NEW w \in Workers, NEW u \in Users, CallPull(w, u) PROVE OneSend'
  <2>1. sent' = sent /\ answered' = answered
    BY <1>2 DEF CallPull
  <2> QED
    BY <1>2, <2>1, CallPullEffect DEF OneSend, Sends, OthersStay
<1>3. ASSUME NEW w \in Workers, Presence(w) PROVE OneSend'
  BY <1>3, PresenceEffect DEF OneSend, Sends, OthersStay
<1>4. ASSUME NEW w \in Workers, Store(w) PROVE OneSend'
  <2>1. sent' = sent /\ answered' = answered
    BY <1>4 DEF Store
  <2> QED
    BY <1>4, <2>1, StoreEffect DEF OneSend, Sends, OthersStay
<1>5. ASSUME NEW w \in Workers, Pull(w) PROVE OneSend'
  BY <1>5, PullCases DEF OneSend, Sends, OthersStay
<1>6. ASSUME NEW w \in Workers, Reply(w) PROVE OneSend'
  <2>1. CASE worker[w].op = "send"
    <3>1. /\ worker[w].msg \in Msgs
          /\ answered' = [answered EXCEPT ![worker[w].msg] = worker[w].res]
          /\ sent' = sent
      BY <1>6, <2>1, ReplyEffect
    <3>2. Sends(w, worker[w].msg) /\ worker[w].msg \in sent
      BY <2>1, <3>1 DEF Sends, OneSend
    <3>3. \A v \in Workers, m \in Msgs :
             Sends(v, m)' => v # w /\ Sends(v, m) /\ m # worker[w].msg
      <4>1. worker'[w].op = "none" /\ \A v \in Workers \ {w} : worker'[v] = worker[v]
        BY <1>6, ReplyEffect DEF OthersStay
      <4>2. \A v \in Workers, m \in Msgs : Sends(v, m)' => v # w /\ Sends(v, m)
        BY <4>1 DEF Sends
      <4>3. \A v \in Workers : v # w => ~Sends(v, worker[w].msg)
        BY <3>1, <3>2 DEF OneSend
      <4> QED
        BY <4>2, <4>3
    <3>4. \A m \in Msgs : m # worker[w].msg => answered'[m] = answered[m]
      BY <3>1 DEF TypeOK
    <3> QED
      BY <3>1, <3>2, <3>3, <3>4 DEF OneSend
  <2>2. CASE worker[w].op # "send"
    <3>1. sent' = sent /\ answered' = answered
      BY <1>6, <2>2, ReplyEffect
    <3>2. worker'[w].op = "none" /\ \A v \in Workers \ {w} : worker'[v] = worker[v]
      BY <1>6, ReplyEffect DEF OthersStay
    <3>3. \A v \in Workers, m \in Msgs : Sends(v, m)' => Sends(v, m)
      BY <3>2 DEF Sends
    <3> QED
      BY <3>1, <3>3 DEF OneSend
  <2> QED
    BY <2>1, <2>2
<1>7. CASE Crash
  <2>1. \A w \in Workers : worker'[w] = Idle
    BY <1>7 DEF Crash
  <2> QED
    BY <1>7, <2>1 DEF Crash, OneSend, Sends, Idle
<1>8. CASE UNCHANGED vars
  BY <1>8 DEF vars, OneSend, Sends
<1> QED
  BY <1>1, <1>2, <1>3, <1>4, <1>5, <1>6, <1>7, <1>8 DEF Next, Receive

\* A PULL never gets, and never gives, rows of another user.
LEMMA OwnRowsKept ==
  ASSUME TypeOK, OwnRows, [Next]_vars
  PROVE  OwnRows'
<1>1. ASSUME NEW w \in Workers, NEW m \in Msgs, CallSend(w, m) PROVE OwnRows'
  <2>1. given' = given
    BY <1>1 DEF CallSend
  <2> QED
    BY <1>1, <2>1, CallSendEffect DEF OwnRows, OthersStay
<1>2. ASSUME NEW w \in Workers, NEW u \in Users, CallPull(w, u) PROVE OwnRows'
  <2>1. given' = given
    BY <1>2 DEF CallPull
  <2> QED
    BY <1>2, <2>1, CallPullEffect DEF OwnRows, OthersStay
<1>3. ASSUME NEW w \in Workers, Presence(w) PROVE OwnRows'
  BY <1>3, PresenceEffect DEF OwnRows, OthersStay
<1>4. ASSUME NEW w \in Workers, Store(w) PROVE OwnRows'
  <2>1. given' = given
    BY <1>4 DEF Store
  <2> QED
    BY <1>4, <2>1, StoreEffect DEF OwnRows, OthersStay
<1>5. ASSUME NEW w \in Workers, Pull(w) PROVE OwnRows'
  <2>1. \A m \in worker'[w].rows :
           m \in worker[w].rows \/ To[m] \in {worker[w].user, None}
    BY <1>5, PullCases DEF SelectOf, Rows
  <2> QED
    BY <1>5, <2>1, PullCases DEF OwnRows, OthersStay
<1>6. ASSUME NEW w \in Workers, Reply(w) PROVE OwnRows'
  <2>1. \A v \in Workers : worker'[v].rows = {} \/ worker'[v] = worker[v]
    BY <1>6, ReplyEffect DEF OthersStay
  <2>2. \A u \in Users, m \in Msgs :
           given'[u][m] > 0 =>
              (given[u][m] > 0 \/ (u = worker[w].user /\ m \in worker[w].rows))
    BY <1>6, ReplyGives
  <2> QED
    BY <2>1, <2>2 DEF OwnRows, Idle
<1>7. CASE Crash
  <2>1. \A w \in Workers : worker'[w] = Idle
    BY <1>7 DEF Crash
  <2> QED
    BY <1>7, <2>1 DEF Crash, OwnRows, Idle
<1>8. CASE UNCHANGED vars
  BY <1>8 DEF vars, OwnRows
<1> QED
  BY <1>1, <1>2, <1>3, <1>4, <1>5, <1>6, <1>7, <1>8 DEF Next, Receive

\* Only the INSERT puts a message into the table, and its call is then "queued".
LEMMA StoredIsQueuedKept ==
  ASSUME TypeOK, OneSend, StoredIsQueued, [Next]_vars
  PROVE  StoredIsQueued'
<1>1. ASSUME NEW w \in Workers, NEW n \in Msgs, CallSend(w, n) PROVE StoredIsQueued'
  <2>1. /\ sent' = sent \cup {n} /\ n \notin sent
        /\ UNCHANGED <<table, answered, given>>
    BY <1>1 DEF CallSend
  <2>2. \A m \in Msgs : Taken(m)' => Taken(m)
    BY <1>1, <2>1, CallSendEffect DEF Taken, OthersStay
  <2>3. ASSUME NEW v \in Workers, NEW m \in Msgs
        PROVE  (Sends(v, m)' => m = n \/ Sends(v, m)) /\ (Queues(v, m) => Queues(v, m)')
    <3>1. CASE v = w
      BY <1>1, <3>1, CallSendEffect DEF Sends, Queues
    <3>2. CASE v # w
      <4>1. worker'[v] = worker[v]
        BY <1>1, <3>2, CallSendEffect DEF OthersStay
      <4> QED
        BY <4>1 DEF Sends, Queues
    <3> QED
      BY <3>1, <3>2
  <2> QED
    BY <2>1, <2>2, <2>3 DEF StoredIsQueued
<1>2. ASSUME NEW w \in Workers, NEW u \in Users, CallPull(w, u) PROVE StoredIsQueued'
  <2>1. UNCHANGED <<table, sent, answered, given>>
    BY <1>2 DEF CallPull
  <2>2. \A m \in Msgs : Taken(m)' => Taken(m)
    BY <1>2, <2>1, CallPullEffect DEF Taken, OthersStay
  <2>3. \A v \in Workers, m \in Msgs :
           (Sends(v, m)' => Sends(v, m)) /\ (Queues(v, m) /\ Sends(v, m)' => Queues(v, m)')
    BY <1>2, CallPullEffect DEF Sends, Queues, OthersStay
  <2> QED
    BY <2>1, <2>2, <2>3 DEF StoredIsQueued
<1>3. ASSUME NEW w \in Workers, Presence(w) PROVE StoredIsQueued'
  <2>1. UNCHANGED <<table, sent, answered, given>>
    BY <1>3, PresenceEffect
  <2>2. \A m \in Msgs : Taken(m)' => Taken(m)
    BY <1>3, <2>1, PresenceEffect DEF Taken, OthersStay
  <2>3. \A v \in Workers, m \in Msgs :
           (Sends(v, m)' => Sends(v, m)) /\ (Queues(v, m) => Queues(v, m)')
    BY <1>3, PresenceEffect DEF Sends, Queues, OthersStay
  <2> QED
    BY <2>1, <2>2, <2>3 DEF StoredIsQueued
<1>4. ASSUME NEW w \in Workers, Store(w) PROVE StoredIsQueued'
  <2>1. /\ UNCHANGED <<sent, answered, given>>
        /\ table' \subseteq table \cup {worker[w].msg}
    BY <1>4 DEF Store
  <2>2. \A m \in Msgs : Taken(m)' => Taken(m)
    BY <1>4, <2>1, StoreEffect DEF Taken, OthersStay
  <2>3. Sends(w, worker[w].msg) /\ worker[w].msg \in Msgs
    BY <1>4, StoreEffect DEF Sends
  <2>4. \A m \in Msgs : m = worker[w].msg => Queues(w, m)'
    BY <1>4, StoreEffect DEF Sends, Queues
  <2>5. \A v \in Workers, m \in Msgs :
           (Sends(v, m)' => Sends(v, m)) /\ (Queues(v, m) => Queues(v, m)')
    BY <1>4, StoreEffect DEF Sends, Queues, OthersStay
  <2>6. ASSUME NEW m \in Msgs, m \in table' \/ Taken(m)'
        PROVE  /\ m \in sent'
               /\ answered'[m] # "delivered"
               /\ \A v \in Workers : Sends(v, m)' => Queues(v, m)'
    <3>1. CASE m = worker[w].msg
      <4>1. m \in sent /\ answered[m] = "none" /\ \A v \in Workers : Sends(v, m) => v = w
        BY <2>3, <3>1 DEF OneSend
      <4> QED
        BY <2>1, <2>4, <2>5, <3>1, <4>1
    <3>2. CASE m # worker[w].msg
      BY <2>1, <2>2, <2>5, <2>6, <3>2 DEF StoredIsQueued
    <3> QED
      BY <3>1, <3>2
  <2> QED
    BY <2>6 DEF StoredIsQueued
<1>5. ASSUME NEW w \in Workers, Pull(w) PROVE StoredIsQueued'
  <2>1. UNCHANGED <<sent, answered, given>> /\ table' \subseteq table
    BY <1>5, PullCases
  <2>2. worker'[w].rows \subseteq worker[w].rows \cup table
    BY <1>5, PullCases DEF Rows
  <2>3. \A m \in Msgs : Taken(m)' => Taken(m) \/ m \in table
    BY <1>5, <2>1, <2>2, PullCases DEF Taken, OthersStay
  <2>4. \A v \in Workers, m \in Msgs :
           (Sends(v, m)' => Sends(v, m)) /\ (Queues(v, m) => Queues(v, m)')
    BY <1>5, PullCases DEF Sends, Queues, OthersStay
  <2> QED
    BY <2>1, <2>3, <2>4 DEF StoredIsQueued
<1>6. ASSUME NEW w \in Workers, Reply(w) PROVE StoredIsQueued'
  <2>1. UNCHANGED <<table, sent>>
    BY <1>6, ReplyEffect
  <2>2. \A m \in Msgs : Taken(m)' => Taken(m)
    <3>1. \A v \in Workers, m \in Msgs : m \in worker'[v].rows => worker'[v] = worker[v]
      BY <1>6, ReplyEffect DEF OthersStay, Idle
    <3>2. ASSUME NEW u \in Users, NEW m \in Msgs, given'[u][m] > 0
          PROVE  Taken(m)
      BY <1>6, <3>2, ReplyGives DEF Taken
    <3> QED
      BY <3>1, <3>2 DEF Taken
  <2>3. \A v \in Workers, m \in Msgs :
           (Sends(v, m)' => Sends(v, m)) /\ (Queues(v, m) /\ Sends(v, m)' => Queues(v, m)')
    BY <1>6, ReplyEffect DEF Sends, Queues, OthersStay, Idle
  <2>4. \A m \in Msgs : m \in table \/ Taken(m) => answered'[m] # "delivered"
    <3>1. CASE worker[w].op = "send"
      <4>1. \A m \in Msgs \ {worker[w].msg} : answered'[m] = answered[m]
        BY <1>6, <3>1, ReplyEffect DEF TypeOK
      <4>2. /\ worker[w].msg \in Msgs /\ Sends(w, worker[w].msg)
            /\ answered'[worker[w].msg] = worker[w].res
        BY <1>6, <3>1, ReplyEffect DEF TypeOK, Sends
      <4> QED
        BY <4>1, <4>2 DEF StoredIsQueued, Queues
    <3>2. CASE worker[w].op # "send"
      BY <1>6, <3>2, ReplyEffect DEF StoredIsQueued
    <3> QED
      BY <3>1, <3>2
  <2> QED
    BY <2>1, <2>2, <2>3, <2>4 DEF StoredIsQueued
<1>7. CASE Crash
  <2>1. \A w \in Workers : worker'[w] = Idle
    BY <1>7 DEF Crash
  <2>2. \A m \in Msgs : Taken(m)' => Taken(m)
    BY <1>7, <2>1 DEF Crash, Taken, Idle
  <2> QED
    BY <1>7, <2>1, <2>2 DEF Crash, StoredIsQueued, Sends, Idle
<1>8. CASE UNCHANGED vars
  BY <1>8 DEF vars, StoredIsQueued, Sends, Queues, Taken
<1> QED
  BY <1>1, <1>2, <1>3, <1>4, <1>5, <1>6, <1>7, <1>8 DEF Next, Receive

-----------------------------------------------------------------------------
(* KeptInv.                                                                *)

\* KeptInv holds at first.
LEMMA KeptInit == Init => KeptInv
<1> SUFFICES ASSUME Init PROVE KeptInv
  OBVIOUS
<1>1. \A w \in Workers : worker[w] = Idle
  BY DEF Init
<1>2. \A m \in Msgs : answered[m] = "none" /\ m \notin table
  BY DEF Init
<1>3. table = {}
  BY DEF Init
<1> QED
  BY <1>1, <1>2, <1>3 DEF KeptInv, QueuedIsKept, DeletedIsRead, Queues, Sends, Idle

\* A worker whose step is no statement of a PULL opens no gap.
LEMMA GapKept ==
  ASSUME NEW w \in Workers, OthersStay(w), NEW m \in Msgs, InGap(m)',
         \/ worker'[w].op # "pull"
         \/ worker'[w].step = "select"
  PROVE  InGap(m)
<1>1. PICK v \in Workers :
        /\ worker'[v].op = "pull"
        /\ m \notin worker'[v].rows
        /\ \/ m \in GroupMsgs /\ worker'[v].step \in {"remove", "removeGroup"}
           \/ To[m] = worker'[v].user /\ worker'[v].step \in {"selectGroup", "remove"}
  BY DEF InGap, GroupMsgs
<1>2. v # w
  BY <1>1
<1>3. worker'[v] = worker[v]
  BY <1>2 DEF OthersStay
<1> QED
  BY <1>1, <1>3 DEF InGap

\* Every action keeps queued messages where a PULL finds them, or says how they were lost.
LEMMA KeptInvKept ==
  ASSUME TypeOK, KeptInv, [Next]_vars
  PROVE  KeptInv'
<1>1. ASSUME NEW w \in Workers, NEW n \in Msgs, CallSend(w, n) PROVE KeptInv'
  <2>1. UNCHANGED <<table, answered, given, exposed>>
    BY <1>1 DEF CallSend
  <2>2. /\ \A v \in Workers \ {w} : worker'[v] = worker[v]
        /\ worker[w].op = "none" /\ worker'[w].op = "send" /\ worker'[w].step # "answer"
    BY <1>1, CallSendEffect DEF OthersStay
  <2>3. \A m \in Msgs : Taken(m) => Taken(m)'
    BY <2>1, <2>2 DEF Taken
  <2>4. \A v \in Workers, m \in Msgs : Queues(v, m)' => Queues(v, m)
    BY <2>2 DEF Queues, Sends
  <2>5. \A m \in Msgs : InGap(m)' => InGap(m)
    BY <2>2, GapKept DEF OthersStay
  <2> QED
    BY <2>1, <2>3, <2>4, <2>5 DEF KeptInv, QueuedIsKept, DeletedIsRead, TypeOK
<1>2. ASSUME NEW w \in Workers, NEW u \in Users, CallPull(w, u) PROVE KeptInv'
  <2>1. UNCHANGED <<table, answered, given, exposed>>
    BY <1>2 DEF CallPull
  <2>2. /\ \A v \in Workers \ {w} : worker'[v] = worker[v]
        /\ worker[w].op = "none" /\ worker'[w].op = "pull" /\ worker'[w].step = "select"
    BY <1>2, CallPullEffect DEF OthersStay
  <2>3. \A m \in Msgs : Taken(m) => Taken(m)'
    BY <2>1, <2>2 DEF Taken
  <2>4. \A v \in Workers, m \in Msgs : Queues(v, m)' => Queues(v, m)
    BY <2>2 DEF Queues, Sends
  <2>5. \A m \in Msgs : InGap(m)' => InGap(m)
    BY <2>2, GapKept DEF OthersStay
  <2> QED
    BY <2>1, <2>3, <2>4, <2>5 DEF KeptInv, QueuedIsKept, DeletedIsRead, TypeOK
<1>3. ASSUME NEW w \in Workers, Presence(w) PROVE KeptInv'
  <2>1. UNCHANGED <<table, answered, given, exposed>>
    BY <1>3, PresenceEffect
  <2>2. /\ \A v \in Workers \ {w} : worker'[v] = worker[v]
        /\ worker[w].op = "send" /\ worker'[w].op = "send"
        /\ worker'[w].step = "answer" => worker'[w].res = "delivered"
    BY <1>3, PresenceEffect DEF OthersStay
  <2>3. \A m \in Msgs : Taken(m) => Taken(m)'
    BY <2>1, <2>2 DEF Taken
  <2>4. \A v \in Workers, m \in Msgs : Queues(v, m)' => Queues(v, m)
    BY <2>2 DEF Queues, Sends
  <2>5. \A m \in Msgs : InGap(m)' => InGap(m)
    BY <2>2, GapKept DEF OthersStay
  <2> QED
    BY <2>1, <2>3, <2>4, <2>5 DEF KeptInv, QueuedIsKept, DeletedIsRead, TypeOK
<1>4. ASSUME NEW w \in Workers, Store(w) PROVE KeptInv'
  <2>1. UNCHANGED <<answered, given>>
    BY <1>4 DEF Store
  <2>2. /\ \A v \in Workers \ {w} : worker'[v] = worker[v]
        /\ worker[w].op = "send" /\ worker'[w].op = "send"
        /\ worker'[w].msg = worker[w].msg
    BY <1>4, StoreEffect DEF OthersStay
  <2>3. \A m \in Msgs : Taken(m) => Taken(m)'
    BY <2>1, <2>2 DEF Taken
  <2>4. \A v \in Workers, m \in Msgs :
           Queues(v, m)' => Queues(v, m) \/ m = worker[w].msg
    BY <2>2 DEF Queues, Sends
  <2>5. \A m \in Msgs : InGap(m)' => InGap(m)
    BY <2>2, GapKept DEF OthersStay
  <2>6. /\ table \subseteq table' /\ table' \subseteq table \cup {worker[w].msg}
        /\ exposed \subseteq exposed'
        /\ worker[w].msg \in table' \/ worker[w].msg \in exposed'
        /\ worker[w].msg \in exposed' \/ ~InGap(worker[w].msg)
    BY <1>4 DEF Store
  <2>7. ASSUME NEW m \in table' \ exposed', InGap(m)'
        PROVE  FALSE
    <3>1. m \in Msgs
      BY <1>4, <2>6, StoreEffect DEF TypeOK
    <3>2. InGap(m) /\ m \notin exposed
      BY <2>5, <2>6, <2>7, <3>1
    <3>3. m = worker[w].msg
      BY <2>6, <2>7, <3>2 DEF KeptInv, DeletedIsRead
    <3> QED
      BY <2>6, <2>7, <3>2, <3>3
  <2>8. QueuedIsKept'
    BY <2>1, <2>3, <2>4, <2>6 DEF KeptInv, QueuedIsKept
  <2> QED
    BY <2>7, <2>8 DEF KeptInv, DeletedIsRead
<1>5. ASSUME NEW w \in Workers, Pull(w) PROVE KeptInv'
  <2>1. /\ UNCHANGED <<answered, given>>
        /\ \A v \in Workers \ {w} : worker'[v] = worker[v]
        /\ worker[w].op = "pull" /\ worker'[w].op = "pull"
        /\ worker'[w].user = worker[w].user /\ worker[w].user \in Users
    BY <1>5, PullCases DEF OthersStay
  <2>2. \A v \in Workers, m \in Msgs : Queues(v, m)' => Queues(v, m)
    BY <2>1 DEF Queues, Sends
  <2>3. PICK u \in Users \cup {None} :
          \/ /\ SelectOf(w, u)
             /\ UNCHANGED table
             /\ \/ /\ worker'[w].rows = worker[w].rows \cup Rows(u)
                   /\ exposed' = exposed
                \/ /\ worker'[w].rows = worker[w].rows
                   /\ exposed' = exposed \cup Rows(u)
          \/ /\ DeleteOf(w, u)
             /\ worker'[w].rows = worker[w].rows
             /\ UNCHANGED exposed
             /\ table' = table \ Rows(u) \/ UNCHANGED table
    BY <1>5, PullCases
  <2>4. \A m \in Msgs : Taken(m) => Taken(m)'
    <3>1. worker[w].rows \subseteq worker'[w].rows
      BY <2>3
    <3> QED
      BY <2>1, <3>1 DEF Taken
  <2>5. ASSUME NEW m \in table, m \notin table' PROVE m \in exposed' \/ Taken(m)'
    <3>1. DeleteOf(w, u) /\ m \in Rows(u) /\ exposed' = exposed
          /\ worker'[w].rows = worker[w].rows
      BY <2>3, <2>5
    <3>2. m \in Msgs /\ To[m] = u
      BY <3>1 DEF Rows, TypeOK
    <3>3. CASE m \notin exposed
      <4>1. ~InGap(m)
        BY <3>3 DEF KeptInv, DeletedIsRead
      <4>2. m \in worker[w].rows
        BY <2>1, <3>1, <3>2, <4>1 DEF InGap, DeleteOf, GroupMsgs
      <4> QED
        BY <2>1, <3>1, <4>2 DEF Taken
    <3> QED
      BY <3>1, <3>3
  <2>6. QueuedIsKept'
    <3>1. exposed \subseteq exposed'
      BY <2>3
    <3> QED
      BY <2>1, <2>2, <2>4, <2>5, <3>1 DEF KeptInv, QueuedIsKept
  <2>7. ASSUME NEW m \in table' \ exposed', InGap(m)'
        PROVE  FALSE
    <3>1. m \in table /\ m \notin exposed /\ m \in Msgs
      BY <2>3, <2>7 DEF TypeOK
    <3>2. ~InGap(m)
      BY <3>1 DEF KeptInv, DeletedIsRead
    <3>3. PICK v \in Workers :
            /\ worker'[v].op = "pull"
            /\ m \notin worker'[v].rows
            /\ \/ m \in GroupMsgs /\ worker'[v].step \in {"remove", "removeGroup"}
               \/ To[m] = worker'[v].user /\ worker'[v].step \in {"selectGroup", "remove"}
      BY <2>7 DEF InGap, GroupMsgs
    <3>4. v = w
      BY <2>1, <3>2, <3>3 DEF InGap
    <3>5. m \notin worker[w].rows
      BY <2>3, <3>3, <3>4
    <3>6. CASE SelectOf(w, u)
      <4>1. m \notin Rows(u)
        BY <2>3, <2>7, <3>3, <3>4, <3>6 DEF SelectOf, DeleteOf
      <4>2. To[m] # u
        BY <3>1, <4>1 DEF Rows
      <4> QED
        BY <2>1, <3>2, <3>3, <3>4, <3>5, <3>6, <4>2 DEF InGap, SelectOf, GroupMsgs
    <3>7. CASE DeleteOf(w, u)
      BY <2>1, <3>2, <3>3, <3>4, <3>5, <3>7 DEF InGap, DeleteOf
    <3> QED
      BY <2>3, <3>6, <3>7
  <2> QED
    BY <2>6, <2>7 DEF KeptInv, DeletedIsRead
<1>6. ASSUME NEW w \in Workers, Reply(w) PROVE KeptInv'
  <2>1. /\ UNCHANGED <<table, exposed>>
        /\ \A v \in Workers \ {w} : worker'[v] = worker[v]
        /\ worker'[w].op = "none" /\ worker[w].step = "answer"
    BY <1>6, ReplyEffect DEF OthersStay
  <2>2. \A v \in Workers, m \in Msgs : Queues(v, m)' => Queues(v, m)
    BY <2>1 DEF Queues, Sends
  <2>3. \A m \in Msgs : InGap(m)' => InGap(m)
    BY <2>1, GapKept DEF OthersStay
  <2>4. \A m \in Msgs : answered'[m] = "queued" =>
                             answered[m] = "queued" \/ Queues(w, m)
    <3>1. CASE worker[w].op = "send"
      <4>1. /\ worker[w].msg \in Msgs
            /\ answered' = [answered EXCEPT ![worker[w].msg] = worker[w].res]
        BY <1>6, <3>1, ReplyEffect
      <4> QED
        BY <2>1, <3>1, <4>1 DEF TypeOK, Queues, Sends
    <3>2. CASE worker[w].op # "send"
      BY <1>6, <3>2, ReplyEffect
    <3> QED
      BY <3>1, <3>2
  <2>5. ASSUME NEW m \in Msgs, Taken(m) PROVE Taken(m)'
    <3>1. CASE \E u \in Users : given[u][m] > 0
      <4>1. PICK u \in Users : given[u][m] > 0
        BY <3>1
      <4>2. given'[u][m] = given[u][m] \/ given'[u][m] = given[u][m] + 1
        BY <1>6, ReplyGives
      <4>3. given[u][m] \in Nat
        BY DEF TypeOK
      <4>4. given'[u][m] > 0
        BY <4>1, <4>2, <4>3
      <4> QED
        BY <4>4 DEF Taken
    <3>2. CASE \E v \in Workers : worker[v].op = "pull" /\ m \in worker[v].rows
      <4>1. PICK v \in Workers : worker[v].op = "pull" /\ m \in worker[v].rows
        BY <3>2
      <4>2. CASE v # w
        BY <2>1, <4>1, <4>2 DEF Taken
      <4>3. CASE v = w
        <5>1. worker[w].user \in Users
          BY <1>6, <4>1, <4>3, ReplyEffect
        <5>2. given'[worker[w].user][m] = given[worker[w].user][m] + 1
          BY <1>6, <4>1, <4>3, <5>1, ReplyGives
        <5>3. given[worker[w].user][m] \in Nat
          BY <5>1 DEF TypeOK
        <5>4. \E u \in Users : given'[u][m] > 0
          BY <5>1, <5>2, <5>3
        <5> QED
          BY <5>4 DEF Taken
      <4> QED
        BY <4>2, <4>3
    <3> QED
      BY <2>5, <3>1, <3>2 DEF Taken
  <2> QED
    BY <2>1, <2>2, <2>3, <2>4, <2>5, <1>6 DEF KeptInv, QueuedIsKept, DeletedIsRead, TypeOK
<1>7. CASE Crash
  <2>1. \A w \in Workers : worker'[w] = Idle
    BY <1>7 DEF Crash
  <2>2. UNCHANGED <<table, answered, given>> /\ exposed \subseteq exposed'
    BY <1>7 DEF Crash
  <2>3. \A m \in Msgs : Taken(m) => m \in table \/ Taken(m)' \/ m \in exposed'
    <3>1. \A w \in Workers, m \in Msgs :
             m \in worker[w].rows => m \in table \/ m \in exposed'
      BY <1>7 DEF Crash
    <3> QED
      BY <2>2, <3>1 DEF Taken
  <2>4. \A m : ~InGap(m)'
    BY <2>1 DEF InGap, Idle
  <2>5. \A w \in Workers, m \in Msgs : ~Queues(w, m)'
    BY <2>1 DEF Queues, Sends, Idle
  <2> QED
    BY <2>2, <2>3, <2>4, <2>5 DEF KeptInv, QueuedIsKept, DeletedIsRead
<1>8. CASE UNCHANGED vars
  BY <1>8 DEF vars, KeptInv, QueuedIsKept, DeletedIsRead, Queues, Sends, Taken, InGap
<1> QED
  BY <1>1, <1>2, <1>3, <1>4, <1>5, <1>6, <1>7, <1>8 DEF Next, Receive

-----------------------------------------------------------------------------
(* GivenInv.                                                               *)

\* GivenInv holds at first.
LEMMA GivenInit == Init => GivenInv
<1> SUFFICES ASSUME Init PROVE GivenInv
  OBVIOUS
<1>1. \A w \in Workers : worker[w] = Idle
  BY DEF Init
<1>2. table = {}
  BY DEF Init
<1>3. \A m \in Msgs \ GroupMsgs : To[m] \in Users
  BY MessageServiceAssumption DEF GroupMsgs
<1>4. \A u \in Users, m \in Msgs : given[u][m] = 0
  BY DEF Init
<1> QED
  BY <1>1, <1>2, <1>3, <1>4 DEF GivenInv, OnePull, ReadOnce, Pulls, Idle

\* A second PULL of a user is recorded.
LEMMA OnePullKept ==
  ASSUME TypeOK, OnePull, [Next]_vars
  PROVE  OnePull'
<1>1. ASSUME NEW w \in Workers, NEW m \in Msgs, CallSend(w, m) PROVE OnePull'
  <2>1. overlapped' = overlapped
    BY <1>1 DEF CallSend
  <2>2. worker'[w].op = "send" /\ \A v \in Workers \ {w} : worker'[v] = worker[v]
    BY <1>1, CallSendEffect DEF OthersStay
  <2> QED
    BY <2>1, <2>2 DEF OnePull, Pulls
<1>2. ASSUME NEW w \in Workers, NEW u \in Users, CallPull(w, u) PROVE OnePull'
  <2>1. /\ overlapped \subseteq overlapped'
        /\ (\E v \in Workers : worker[v].user = u) => u \in overlapped'
    BY <1>2 DEF CallPull
  <2>2. /\ \A v \in Workers \ {w} : worker'[v] = worker[v]
        /\ worker'[w].user = u
    BY <1>2, CallPullEffect DEF OthersStay
  <2> QED
    BY <2>1, <2>2 DEF OnePull, Pulls
<1>3. ASSUME NEW w \in Workers, Presence(w) PROVE OnePull'
  BY <1>3, PresenceEffect DEF OnePull, Pulls, OthersStay
<1>4. ASSUME NEW w \in Workers, Store(w) PROVE OnePull'
  <2>1. overlapped' = overlapped
    BY <1>4 DEF Store
  <2> QED
    BY <1>4, <2>1, StoreEffect DEF OnePull, Pulls, OthersStay
<1>5. ASSUME NEW w \in Workers, Pull(w) PROVE OnePull'
  <2>1. /\ \A v \in Workers \ {w} : worker'[v] = worker[v]
        /\ worker'[w].op = worker[w].op /\ worker'[w].user = worker[w].user
        /\ overlapped' = overlapped
    BY <1>5, PullCases DEF OthersStay
  <2>2. \A v \in Workers, u \in Users : Pulls(v, u)' => Pulls(v, u)
    BY <2>1 DEF Pulls
  <2> QED
    BY <2>1, <2>2 DEF OnePull
<1>6. ASSUME NEW w \in Workers, Reply(w) PROVE OnePull'
  <2>1. /\ \A v \in Workers \ {w} : worker'[v] = worker[v]
        /\ worker'[w].op = "none"
        /\ overlapped' = overlapped
    BY <1>6, ReplyEffect DEF OthersStay
  <2> QED
    BY <2>1 DEF OnePull, Pulls
<1>7. CASE Crash
  <2>1. \A w \in Workers : worker'[w] = Idle
    BY <1>7 DEF Crash
  <2> QED
    BY <2>1 DEF OnePull, Pulls, Idle
<1>8. CASE UNCHANGED vars
  BY <1>8 DEF vars, OnePull, Pulls
<1> QED
  BY <1>1, <1>2, <1>3, <1>4, <1>5, <1>6, <1>7, <1>8 DEF Next, Receive

\* ReadOnce for one message.
ReadOnceOf(m) ==
  /\ \A w \in Workers :
        m \in worker[w].rows =>
           /\ given[To[m]][m] = 0
           /\ worker[w].step \in {"removeGroup", "answer"} => m \notin table
  /\ m \in table => given[To[m]][m] = 0
  /\ given[To[m]][m] <= 1

\* A step that neither gives nor stores anything, and by which only rows are lost
\* or rows of the table are read.
LEMMA ReadOnceQuiet ==
  ASSUME NEW m \in Msgs, ReadOnceOf(m), UNCHANGED given, table' \subseteq table,
         \A v \in Workers :
            m \in worker'[v].rows =>
               \/ m \in worker[v].rows /\ worker'[v].step = worker[v].step
               \/ m \in table /\ worker'[v].step \notin {"removeGroup", "answer"}
  PROVE  ReadOnceOf(m)'
BY DEF ReadOnceOf

\* Every action keeps a message from being given again.
LEMMA ReadOnceKept ==
  ASSUME TypeOK, PushInv, OnePull, ReadOnce, [Next]_vars
  PROVE  ReadOnce'
<1> SUFFICES ASSUME NEW m \in Msgs \ GroupMsgs, faults' = 0, To[m] \notin overlapped'
             PROVE  ReadOnceOf(m)'
  BY DEF ReadOnce, ReadOnceOf
<1> USE DEF OthersStay
<1>0. To[m] \in Users /\ To[m] # None
  BY MessageServiceAssumption DEF GroupMsgs
<1>1. faults \in Nat /\ given[To[m]][m] \in Nat
  BY <1>0 DEF TypeOK
<1>2. ASSUME faults = 0, To[m] \notin overlapped PROVE ReadOnceOf(m)
  BY <1>2 DEF ReadOnce, ReadOnceOf
<1>3. \A v \in Workers : m \in worker[v].rows => worker[v].op = "pull" /\ To[m] = worker[v].user
  BY <1>0, Calls DEF SendCall, PullCall, Idle, PushInv, OwnRows
<1>4. ASSUME NEW w \in Workers, NEW n \in Msgs, CallSend(w, n) PROVE ReadOnceOf(m)'
  <2>1. UNCHANGED <<table, given, faults, overlapped>>
    BY <1>4 DEF CallSend
  <2> QED
    BY <1>2, <1>4, <2>1, CallSendEffect, ReadOnceQuiet
<1>5. ASSUME NEW w \in Workers, NEW u \in Users, CallPull(w, u) PROVE ReadOnceOf(m)'
  <2>1. UNCHANGED <<table, given, faults>> /\ overlapped \subseteq overlapped'
    BY <1>5 DEF CallPull
  <2> QED
    BY <1>2, <1>5, <2>1, CallPullEffect, ReadOnceQuiet
<1>6. ASSUME NEW w \in Workers, Presence(w) PROVE ReadOnceOf(m)'
  BY <1>2, <1>6, PresenceEffect, ReadOnceQuiet
<1>7. ASSUME NEW w \in Workers, Store(w) PROVE ReadOnceOf(m)'
  <2>1. /\ table' \subseteq table \cup {worker[w].msg}
        /\ UNCHANGED <<given, overlapped>>
        /\ faults' = faults \/ faults' = faults + 1
    BY <1>7 DEF Store
  <2>2. ReadOnceOf(m)
    BY <1>1, <1>2, <2>1
  <2>3. CASE m # worker[w].msg
    <3>1. m \in table' => m \in table
      BY <2>1, <2>3
    <3>2. \A v \in Workers : m \in worker'[v].rows => worker'[v] = worker[v]
      BY <1>7, StoreEffect
    <3> QED
      BY <2>1, <2>2, <3>1, <3>2 DEF ReadOnceOf
  <2>4. CASE m = worker[w].msg
    <3>1. Sends(w, m) /\ ~Queues(w, m)
      BY <1>7, <2>4, StoreEffect DEF Sends, Queues
    <3>2. ~Taken(m)
      BY <3>1 DEF PushInv, StoredIsQueued
    <3>3. given[To[m]][m] = 0 /\ \A v \in Workers : m \notin worker[v].rows
      BY <1>0, <1>1, <1>3, <3>2 DEF Taken
    <3>4. \A v \in Workers : m \notin worker'[v].rows
      BY <1>7, <3>3, StoreEffect
    <3> QED
      BY <2>1, <3>3, <3>4 DEF ReadOnceOf
  <2> QED
    BY <2>3, <2>4
<1>8. ASSUME NEW w \in Workers, Pull(w) PROVE ReadOnceOf(m)'
  <2>1. /\ UNCHANGED <<given, overlapped>>
        /\ \A v \in Workers \ {w} : worker'[v] = worker[v]
        /\ worker[w].op = "pull"
    BY <1>8, PullCases
  <2>2. PICK u \in Users \cup {None} :
          \/ /\ SelectOf(w, u)
             /\ UNCHANGED table
             /\ worker'[w].rows \subseteq worker[w].rows \cup Rows(u)
             /\ faults' = faults \/ faults' = faults + 1
          \/ /\ DeleteOf(w, u)
             /\ worker'[w].rows = worker[w].rows
             /\ \/ table' = table \ Rows(u) /\ faults' = faults
                \/ faults' = faults + 1
    BY <1>8, PullCases
  <2>3. ReadOnceOf(m)
    BY <1>1, <1>2, <2>1, <2>2
  <2>4. CASE SelectOf(w, u)
    <3>1. UNCHANGED table /\ worker'[w].rows \subseteq worker[w].rows \cup table
      BY <2>2, <2>4 DEF SelectOf, DeleteOf, Rows
    <3>2. m \in worker'[w].rows => given[To[m]][m] = 0
      BY <2>3, <3>1 DEF ReadOnceOf
    <3>3. worker'[w].step \notin {"removeGroup", "answer"}
      BY <2>4 DEF SelectOf
    <3> QED
      BY <2>1, <2>3, <3>1, <3>2, <3>3 DEF ReadOnceOf
  <2>5. CASE DeleteOf(w, u)
    <3>1. table' = table \ Rows(u) /\ worker'[w].rows = worker[w].rows
      BY <1>1, <2>2, <2>5 DEF SelectOf, DeleteOf
    <3>2. m \in worker[w].rows => m \notin table'
      BY <1>3, <2>3, <2>5, <3>1 DEF DeleteOf, ReadOnceOf, Rows
    <3> QED
      BY <2>1, <2>3, <3>1, <3>2 DEF ReadOnceOf
  <2> QED
    BY <2>2, <2>4, <2>5
<1>9. ASSUME NEW w \in Workers, Reply(w) PROVE ReadOnceOf(m)'
  <2>1. /\ UNCHANGED <<table, faults, overlapped>>
        /\ \A v \in Workers \ {w} : worker'[v] = worker[v]
        /\ worker'[w].rows = {} /\ worker[w].step = "answer"
    BY <1>9, ReplyEffect
  <2>2. ReadOnceOf(m)
    BY <1>2, <2>1
  <2>3. CASE m \in worker[w].rows
    <3>1. worker[w].op = "pull" /\ To[m] = worker[w].user
      BY <1>3, <2>3
    <3>2. given'[To[m]][m] = 1
      <4>1. given'[To[m]][m] = given[To[m]][m] + 1
        BY <1>0, <1>9, <2>3, <3>1, ReplyGives
      <4> QED
        BY <2>2, <2>3, <4>1 DEF ReadOnceOf
    <3>3. \A v \in Workers : m \notin worker'[v].rows
      BY <1>0, <1>3, <2>1, <3>1 DEF OnePull, Pulls
    <3>4. m \notin table'
      BY <2>1, <2>2, <2>3 DEF ReadOnceOf
    <3> QED
      BY <3>2, <3>3, <3>4 DEF ReadOnceOf
  <2>4. CASE m \notin worker[w].rows
    <3>1. given'[To[m]][m] = given[To[m]][m]
      BY <1>0, <1>9, <2>4, ReplyGives
    <3> QED
      BY <2>1, <2>2, <3>1 DEF ReadOnceOf
  <2> QED
    BY <2>3, <2>4
<1>10. CASE Crash
  <2>1. \A w \in Workers : worker'[w].rows = {}
    BY <1>10 DEF Crash, Idle
  <2>2. UNCHANGED <<table, given, faults, overlapped>>
    BY <1>10 DEF Crash
  <2> QED
    BY <1>2, <2>1, <2>2 DEF ReadOnceOf
<1>11. CASE UNCHANGED vars
  BY <1>2, <1>11 DEF vars, ReadOnceOf
<1> QED
  BY <1>4, <1>5, <1>6, <1>7, <1>8, <1>9, <1>10, <1>11 DEF Next, Receive

-----------------------------------------------------------------------------
(* The theorems.                                                           *)

\* Every value of the state stays in its type (the locals of Send, SendGroup and
\* PullOffline in message_service.cc, the rows of offlinemessage).
THEOREM MessageTypeCorrect == Spec => []TypeOK
<1>1. TypeOK /\ [Next]_vars => TypeOK'
  <2> SUFFICES ASSUME TypeOK, [Next]_vars PROVE TypeOK'
    OBVIOUS
  <2>1. CASE UNCHANGED vars
    BY <2>1 DEF vars, TypeOK
  <2> QED
    BY <2>1, TypeReceive, TypeSend, TypePull, TypeReply, TypeCrash DEF Next
<1> QED
  BY <1>1, TypeInit, PTL DEF Spec

\* A message handed over for a push (message_service.cc, Send) is never stored, and
\* PullOffline gives a message to nobody but its recipient, whatever fails.
THEOREM PushedNotStored == Spec => []PushedOrStored
<1>1. TypeOK /\ PushInv /\ [Next]_vars => PushInv'
  BY OneSendKept, StoredIsQueuedKept, OwnRowsKept DEF PushInv
<1>2. TypeOK /\ PushInv => PushedOrStored
  <2> SUFFICES ASSUME TypeOK, PushInv, NEW m \in Msgs \ GroupMsgs
               PROVE  /\ answered[m] = "delivered" => m \notin table /\ ~Taken(m)
                      /\ \A u \in Users : given[u][m] > 0 => u = To[m]
    BY DEF PushedOrStored
  <2>1. To[m] # None
    BY DEF GroupMsgs
  <2> QED
    BY <2>1 DEF PushInv, StoredIsQueued, OwnRows
<1> QED
  BY <1>1, <1>2, MessageTypeCorrect, PushInit, PTL DEF Spec

\* A message answered "queued" is in the table or read, but for the four ways the
\* statements of PullOffline and of the INSERT let one be lost.
THEOREM QueuedLostOnlyIfExposed == Spec => []LostOnlyIfExposed
<1>1. TypeOK /\ KeptInv /\ [Next]_vars => KeptInv'
  BY KeptInvKept
<1>2. KeptInv => LostOnlyIfExposed
  BY DEF KeptInv, QueuedIsKept, LostOnlyIfExposed
<1> QED
  BY <1>1, <1>2, MessageTypeCorrect, KeptInit, PTL DEF Spec

\* PullOffline gives a message once, as long as the database does not fail and the
\* PULLs of its user do not overlap, though no transaction binds their statements.
THEOREM GivenToUserOnce == Spec => []GivenOnce
<1>1. TypeOK /\ PushInv /\ [Next]_vars => PushInv'
  BY OneSendKept, StoredIsQueuedKept, OwnRowsKept DEF PushInv
<1>2. TypeOK /\ PushInv /\ GivenInv /\ [Next]_vars => GivenInv'
  BY OnePullKept, ReadOnceKept DEF GivenInv
<1>3. TypeOK /\ PushInv /\ GivenInv => GivenOnce
  <2> SUFFICES ASSUME TypeOK, PushInv, GivenInv, NEW m \in Msgs \ GroupMsgs,
                      NEW u \in Users, faults = 0, u \notin overlapped
               PROVE  given[u][m] <= 1
    BY DEF GivenOnce
  <2>1. CASE u = To[m]
    BY <2>1 DEF GivenInv, ReadOnce
  <2>2. CASE u # To[m]
    <3>1. ~(given[u][m] > 0)
      BY <2>2 DEF PushInv, OwnRows, GroupMsgs
    <3>2. given[u][m] \in Nat
      BY DEF TypeOK
    <3> QED
      BY <3>1, <3>2
  <2> QED
    BY <2>1, <2>2
<1> QED
  BY <1>1, <1>2, <1>3, MessageTypeCorrect, PushInit, GivenInit, PTL DEF Spec

-----------------------------------------------------------------------------
(* The presence service, as Delivery composes it: the lemmas of            *)
(* PresenceProofs, for the instance P and messages that all have one       *)
(* recipient.                                                              *)

\* Every message has one recipient.
LEMMA PresenceAssumed ==
  /\ ChannelOf \in [Gateways -> Channels]
  /\ To \in [Msgs -> Users]
  /\ None \notin Users \cup Gateways \cup Msgs
  /\ MaxOutages \in Nat
BY MessageServiceAssumption, DeliveryAssumption

USE DEF P!publishing

\* A worker that is not idle executes a call.
LEMMA PBusyProc ==
  ASSUME P!TypeOK, NEW p \in Procs, proc[p].step # "idle"
  PROVE  proc[p] \in P!Busy
BY DEF P!TypeOK, P!Idle

\* Only a Deliver publishes.
LEMMA PDeliveringProc ==
  ASSUME P!TypeOK, NEW p \in Procs, proc[p].step \in {"publish", "sent"}
  PROVE  proc[p] \in P!Delivering
<1>1. proc[p] \in P!Busy
  BY PBusyProc
<1>2. proc[p] \notin P!Routing
  BY DEF P!Routing
<1> QED
  BY <1>1, <1>2 DEF P!Busy

\* The moves of a call keep it a call.
LEMMA PGotoTyped ==
  ASSUME P!TypeOK, NEW p \in Procs, proc[p].step # "idle",
         NEW step, P!Goto(p, step),
         \/ step \in {"connect", "key", "answer"}
         \/ step \in {"publish", "sent"} /\ proc[p] \in P!Delivering
  PROVE  proc' \in [Procs -> P!Busy \cup {P!Idle}]
<1>1. [proc[p] EXCEPT !.step = step] \in P!Busy
  BY PBusyProc DEF P!Busy, P!Routing, P!Delivering
<1> QED
  BY <1>1 DEF P!TypeOK, P!Goto

LEMMA PAnswerTyped ==
  ASSUME P!TypeOK, NEW p \in Procs, proc[p].step # "idle",
         NEW code \in P!Codes, P!Answer(p, code)
  PROVE  proc' \in [Procs -> P!Busy \cup {P!Idle}]
<1>1. [proc[p] EXCEPT !.step = "answer", !.code = code] \in P!Busy
  BY PBusyProc DEF P!Busy, P!Routing, P!Delivering
<1> QED
  BY <1>1 DEF P!TypeOK, P!Answer

\* A lookup leaves a call that has a gateway, or an answer.
LEMMA PFoundTyped ==
  ASSUME P!TypeOK, NEW p \in Procs, proc[p].step # "idle",
         NEW g \in Gateways \cup {None}, P!Found(p, g)
  PROVE  proc' \in [Procs -> P!Busy \cup {P!Idle}]
<1>1. CASE P!Answer(p, "NOT_FOUND")
  BY <1>1, PAnswerTyped DEF P!Codes
<1>2. CASE proc' = [proc EXCEPT
             ![p].gw = g,
             ![p].step = IF proc[p].op = "Deliver" THEN "publish" ELSE "answer",
             ![p].code = IF proc[p].op = "Deliver" THEN "none" ELSE "Ok"]
  <2> DEFINE c == [proc[p] EXCEPT
               !.gw = g,
               !.step = IF proc[p].op = "Deliver" THEN "publish" ELSE "answer",
               !.code = IF proc[p].op = "Deliver" THEN "none" ELSE "Ok"]
  <2>1. c \in P!Busy
    <3>1. CASE proc[p].op = "Deliver"
      <4>1. proc[p] \in P!Delivering
        BY <3>1, PBusyProc DEF P!Busy, P!Routing
      <4>2. c = [proc[p] EXCEPT !.gw = g, !.step = "publish", !.code = "none"]
        BY <3>1
      <4> QED
        BY <4>1, <4>2 DEF P!Busy, P!Delivering
    <3>2. CASE proc[p].op # "Deliver"
      <4>1. proc[p] \in P!Routing
        BY <3>2, PBusyProc DEF P!Busy, P!Delivering
      <4>2. c = [proc[p] EXCEPT !.gw = g, !.step = "answer", !.code = "Ok"]
        BY <3>2
      <4> QED
        BY <4>1, <4>2 DEF P!Busy, P!Routing, P!Codes
    <3> QED
      BY <3>1, <3>2
  <2>2. proc' = [proc EXCEPT ![p] = c]
    BY <1>2
  <2> QED
    BY <2>1, <2>2 DEF P!TypeOK
<1> QED
  BY <1>1, <1>2 DEF P!Found

\* The command of a call in redisCommand is one, and commands reach gateways.
PCommands == Msgs \X (Gateways \cup {None})

LEMMA PCommandTyped ==
  ASSUME P!TypeOK, NEW p \in Procs, proc[p].step = "sent"
  PROVE  P!PublishCommand(p) \in PCommands
BY PDeliveringProc DEF P!PublishCommand, PCommands, P!Delivering

LEMMA PReachedTyped ==
  ASSUME P!TypeOK, NEW cmds \in SUBSET PCommands
  PROVE  heard \cup P!Reached(cmds) \subseteq Msgs \X Gateways
<1>1. \A c \in cmds : {c[1]} \X P!Listeners(c[2]) \subseteq Msgs \X Gateways
  BY DEF PCommands, P!Listeners, P!TypeOK
<1> QED
  BY <1>1 DEF P!Reached, P!TypeOK

-----------------------------------------------------------------------------
\* Every value of the state of the presence service stays in its type.
LEMMA PresenceTyped ==
  /\ P!Init => P!TypeOK
  /\ P!TypeOK /\ [P!Next]_presenceVars => P!TypeOK'
<1>1. P!Init => P!TypeOK
  <2> SUFFICES ASSUME P!Init PROVE P!TypeOK
    OBVIOUS
  <2>1. outages \in Nat
    BY PresenceAssumed DEF P!Init
  <2> QED
    BY <2>1 DEF P!Init, P!TypeOK
<1>2. P!TypeOK /\ [P!Next]_presenceVars => P!TypeOK'
  <2> SUFFICES ASSUME P!TypeOK, [P!Next]_presenceVars PROVE P!TypeOK'
    OBVIOUS
  <2>1. ASSUME NEW p \in Procs, P!Receive(p) PROVE P!TypeOK'
    <3>1. ASSUME NEW op, NEW u \in Users, NEW g, NEW m, P!Call(p, op, u, g, m),
                 [P!Idle EXCEPT !.op = op, !.step = "connect", !.user = u,
                              !.gw = g, !.msg = m] \in P!Busy
          PROVE  P!TypeOK'
      <4>2. proc' \in [Procs -> P!Busy \cup {P!Idle}]
        BY <3>1 DEF P!Call, P!TypeOK
      <4>3. routesSeen' \in [Procs -> SUBSET (Gateways \cup {None})]
        BY <3>1 DEF P!Call, P!TypeOK
      <4> QED
        BY <3>1, <4>2, <4>3 DEF P!Call, P!TypeOK
    <3>2. ASSUME NEW u \in Users, NEW g \in Gateways, P!CallBindRoute(p, u, g)
          PROVE  P!TypeOK'
      BY <3>1, <3>2 DEF P!CallBindRoute, P!Idle, P!Busy, P!Routing
    <3>3. ASSUME NEW u \in Users, P!CallQueryRoute(p, u) PROVE P!TypeOK'
      BY <3>1, <3>3 DEF P!CallQueryRoute, P!Idle, P!Busy, P!Routing
    <3>4. ASSUME NEW m \in Msgs, P!CallDeliver(p, m) PROVE P!TypeOK'
      <4>1. To[m] \in Users
        BY PresenceAssumed
      <4> QED
        BY <3>1, <3>4, <4>1 DEF P!CallDeliver, P!Idle, P!Busy, P!Delivering
    <3> QED
      BY <2>1, <3>2, <3>3, <3>4 DEF P!Receive
  <2>2. ASSUME NEW p \in Procs, P!EnsureConnected(p) PROVE P!TypeOK'
    <3>1. proc[p].step # "idle"
      BY <2>2 DEF P!EnsureConnected
    <3>2. proc' \in [Procs -> P!Busy \cup {P!Idle}]
      <4>1. CASE P!Goto(p, "key")
        BY <3>1, <4>1, PGotoTyped
      <4>2. CASE P!Answer(p, "INTERNAL")
        BY <3>1, <4>2, PAnswerTyped DEF P!Codes
      <4> QED
        BY <2>2, <4>1, <4>2 DEF P!EnsureConnected
    <3>3. cache' \in P!Link /\ connected' \in BOOLEAN
      BY <2>2 DEF P!EnsureConnected, P!TypeOK, P!Link
    <3> QED
      BY <2>2, <3>2, <3>3 DEF P!EnsureConnected, P!TypeOK
  <2>3. ASSUME NEW p \in Procs, P!Setex(p) PROVE P!TypeOK'
    <3>1. proc[p].step # "idle"
      BY <2>3 DEF P!Setex
    <3>2. proc[p].user \in Users /\ proc[p].gw \in Gateways \cup {None}
      BY <3>1, PBusyProc DEF P!Busy, P!Routing, P!Delivering
    <3>3. proc' \in [Procs -> P!Busy \cup {P!Idle}]
      BY <2>3, <3>1, PAnswerTyped DEF P!Setex, P!Codes
    <3>4. route' \in [Users -> Gateways \cup {None}]
      BY <2>3, <3>2 DEF P!Setex, P!TypeOK
    <3>5. routesSeen' \in [Procs -> SUBSET (Gateways \cup {None})]
      BY <2>3, <3>2 DEF P!Setex, P!TypeOK
    <3> QED
      BY <2>3, <3>3, <3>4, <3>5 DEF P!Setex, P!TypeOK
  <2>4. ASSUME NEW p \in Procs, P!Get(p) PROVE P!TypeOK'
    <3>1. proc[p].step # "idle"
      BY <2>4 DEF P!Get
    <3>2. proc[p].user \in Users
      BY <3>1, PBusyProc DEF P!Busy, P!Routing, P!Delivering
    <3>3. (IF cache = "open" THEN route[proc[p].user] ELSE None)
             \in Gateways \cup {None}
      BY <3>2 DEF P!TypeOK
    <3>4. proc' \in [Procs -> P!Busy \cup {P!Idle}]
      BY <2>4, <3>1, <3>3, PFoundTyped DEF P!Get
    <3> QED
      BY <2>4, <3>4 DEF P!Get, P!TypeOK
  <2>5. ASSUME NEW p \in Procs, P!Publish(p) PROVE P!TypeOK'
    <3>1. proc[p] \in P!Delivering /\ proc[p].step # "idle"
      BY <2>5, PDeliveringProc DEF P!Publish
    <3>2. proc' \in [Procs -> P!Busy \cup {P!Idle}]
      <4>1. CASE P!Goto(p, "sent")
        BY <3>1, <4>1, PGotoTyped
      <4>2. CASE P!Answer(p, "INTERNAL")
        BY <3>1, <4>2, PAnswerTyped DEF P!Codes
      <4> QED
        BY <2>5, <4>1, <4>2 DEF P!Publish
    <3>3. mixed' \in BOOLEAN
      BY <2>5 DEF P!Publish, P!TypeOK
    <3> QED
      BY <2>5, <3>2, <3>3 DEF P!Publish, P!TypeOK
  <2>6. ASSUME NEW p \in Procs, P!PublishReturns(p) PROVE P!TypeOK'
    <3>1. proc[p].step # "idle" /\ P!PublishCommand(p) \in PCommands
      BY <2>6, PCommandTyped DEF P!PublishReturns
    <3>2. proc' \in [Procs -> P!Busy \cup {P!Idle}]
      BY <2>6, <3>1, PAnswerTyped DEF P!PublishReturns, P!Codes
    <3>3. buffered \cup {P!PublishCommand(p)} \subseteq PCommands
      BY <3>1 DEF P!TypeOK, PCommands
    <3>4. buffered' \subseteq PCommands
      BY <2>6, <3>3 DEF P!PublishReturns, P!TypeOK, PCommands
    <3>5. heard' \subseteq Msgs \X Gateways
      <4>1. PICK gone \in SUBSET PCommands : heard' = heard \cup P!Reached(gone)
        BY <2>6, <3>1, <3>3 DEF P!PublishReturns
      <4> QED
        BY <4>1, PReachedTyped
    <3> QED
      BY <2>6, <3>2, <3>4, <3>5 DEF P!PublishReturns, P!TypeOK, PCommands
  <2>7. ASSUME NEW p \in Procs, P!Reply(p) PROVE P!TypeOK'
    <3>1. routesSeen' \in [Procs -> SUBSET (Gateways \cup {None})]
      BY <2>7 DEF P!Reply, P!TypeOK
    <3> QED
      BY <2>7, <3>1 DEF P!Reply, P!TypeOK
  <2>8. ASSUME NEW u \in Users, P!Expire(u) PROVE P!TypeOK'
    <3>1. route' \in [Users -> Gateways \cup {None}]
      BY <2>8 DEF P!Expire, P!TypeOK
    <3>2. routesSeen' \in [Procs -> SUBSET (Gateways \cup {None})]
      BY <2>8 DEF P!Expire, P!TypeOK
    <3> QED
      BY <2>8, <3>1, <3>2 DEF P!Expire, P!TypeOK
  <2>9. ASSUME NEW g \in Gateways, P!Subscribe(g) \/ P!Unsubscribe(g) PROVE P!TypeOK'
    BY <2>9 DEF P!Subscribe, P!Unsubscribe, P!TypeOK
  <2>10. CASE P!RedisDown
    <3>0. PICK executed \in SUBSET (buffered \cup {P!PublishCommand(p) : p \in P!Sent}),
               replied \in SUBSET P!Sent :
            /\ heard' = heard \cup (IF queue = "open" THEN P!Reached(executed) ELSE {})
            /\ proc' = [p \in Procs |->
                 IF p \in P!Sent
                 THEN [proc[p] EXCEPT !.step = "answer",
                         !.code = IF p \in replied THEN "Ok" ELSE "INTERNAL"]
                 ELSE proc[p]]
      BY <2>10 DEF P!RedisDown
    <3>1. proc' \in [Procs -> P!Busy \cup {P!Idle}]
      <4>1. ASSUME NEW p \in P!Sent, NEW code \in P!Codes
            PROVE  [proc[p] EXCEPT !.step = "answer", !.code = code] \in P!Busy
        BY PDeliveringProc DEF P!Busy, P!Delivering, P!Sent
      <4>2. \A p \in Procs : proc[p] \in P!Busy \cup {P!Idle}
        BY DEF P!TypeOK
      <4>3. \A p \in Procs : (IF p \in replied THEN "Ok" ELSE "INTERNAL") \in P!Codes
        BY DEF P!Codes
      <4>4. \A p \in P!Sent : [proc[p] EXCEPT !.step = "answer",
                         !.code = IF p \in replied THEN "Ok" ELSE "INTERNAL"] \in P!Busy
        BY <4>1, <4>3 DEF P!Sent
      <4> QED
        BY <3>0, <4>2, <4>4
    <3>2. heard' \subseteq Msgs \X Gateways
      <4>1. executed \in SUBSET PCommands
        BY PCommandTyped DEF P!TypeOK, PCommands, P!Sent
      <4>2. heard \subseteq Msgs \X Gateways
        BY DEF P!TypeOK
      <4> QED
        BY <3>0, <4>1, <4>2, PReachedTyped
    <3>a. /\ \/ UNCHANGED <<route, routesSeen>>
             \/ /\ route' = [u \in Users |-> None]
                /\ routesSeen' = [p \in Procs |-> routesSeen[p] \cup {None}]
          /\ cache' = P!Broken(cache) /\ queue' = P!Broken(queue)
          /\ outages' = outages + 1
      BY <2>10 DEF P!RedisDown
    <3>3. route' \in [Users -> Gateways \cup {None}]
      BY <3>a DEF P!TypeOK
    <3>4. routesSeen' \in [Procs -> SUBSET (Gateways \cup {None})]
      BY <3>a DEF P!TypeOK
    <3>5. cache' \in P!Link /\ queue' \in P!Link /\ outages' \in Nat
      BY <3>a DEF P!Broken, P!Link, P!TypeOK
    <3> QED
      BY <2>10, <3>1, <3>2, <3>3, <3>4, <3>5 DEF P!RedisDown, P!TypeOK
  <2>11. CASE P!RedisUp
    BY <2>11 DEF P!RedisUp, P!TypeOK
  <2>12. CASE UNCHANGED presenceVars
    BY <2>12 DEF presenceVars, P!TypeOK
  <2> QED
    BY <2>1, <2>2, <2>3, <2>4, <2>5, <2>6, <2>7, <2>8, <2>9, <2>10, <2>11,
       <2>12 DEF P!Next, P!Execute, P!Environment
<1> QED
  BY <1>1, <1>2

-----------------------------------------------------------------------------
\* A step of a call that changes neither routes nor histories and does not
\* publish disturbs nothing.
LEMMA PQuietStep ==
  ASSUME P!TypeOK, P!RouteInv, NEW p \in Procs, proc[p] # P!Idle,
         UNCHANGED <<route, routesSeen>>,
         NEW c, proc' = [proc EXCEPT ![p] = c], c.user = proc[p].user,
         c.step \in {"publish", "sent"} => c.gw \in routesSeen[p]
  PROVE  P!RouteInv'
<1>1. proc'[p] = c /\ \A q \in Procs \ {p} : proc'[q] = proc[q]
  BY DEF P!TypeOK
<1>2. ASSUME NEW q \in Procs, proc'[q] # P!Idle
      PROVE  route'[proc'[q].user] \in routesSeen'[q]
  BY <1>1, <1>2 DEF P!RouteInv
<1>3. ASSUME NEW q \in Procs, proc'[q].step \in {"publish", "sent"}
      PROVE  proc'[q].gw \in routesSeen'[q]
  BY <1>1, <1>3 DEF P!RouteInv, P!PublishedToRoute
<1> QED
  BY <1>2, <1>3 DEF P!RouteInv, P!PublishedToRoute

\* Every step keeps the history of each call up with the route of its user.
LEMMA PRouteInvKept ==
  ASSUME P!TypeOK, P!RouteInv, [P!Next]_presenceVars
  PROVE  P!RouteInv'
<1>1. ASSUME NEW p \in Procs, NEW op, NEW u, NEW g, NEW m, P!Call(p, op, u, g, m)
      PROVE  P!RouteInv'
  <2> DEFINE c == [P!Idle EXCEPT !.op = op, !.step = "connect", !.user = u,
                               !.gw = g, !.msg = m]
  <2>1. c.user = u /\ c.step = "connect"
    BY DEF P!Idle
  <2>2. proc'[p] = c /\ \A q \in Procs \ {p} : proc'[q] = proc[q]
    BY <1>1 DEF P!Call, P!TypeOK
  <2>3. routesSeen'[p] = {route[u]}
        /\ \A q \in Procs \ {p} : routesSeen'[q] = routesSeen[q]
    BY <1>1 DEF P!Call, P!TypeOK
  <2>4. route' = route
    BY <1>1 DEF P!Call
  <2> HIDE DEF c
  <2>5. ASSUME NEW q \in Procs, proc'[q] # P!Idle
        PROVE  route'[proc'[q].user] \in routesSeen'[q]
    BY <2>1, <2>2, <2>3, <2>4, <2>5 DEF P!RouteInv
  <2>6. ASSUME NEW q \in Procs, proc'[q].step \in {"publish", "sent"}
        PROVE  proc'[q].gw \in routesSeen'[q]
    BY <2>1, <2>2, <2>3, <2>6 DEF P!RouteInv, P!PublishedToRoute
  <2> QED
    BY <2>5, <2>6 DEF P!RouteInv, P!PublishedToRoute
<1>2. ASSUME NEW p \in Procs, P!EnsureConnected(p) PROVE P!RouteInv'
  <2>1. proc[p] \in P!Busy /\ proc[p] # P!Idle
    BY <1>2, PBusyProc DEF P!EnsureConnected, P!Idle
  <2>2. CASE P!Goto(p, "key")
    <3> DEFINE c == [proc[p] EXCEPT !.step = "key"]
    <3>1. c.user = proc[p].user /\ c.step = "key"
      BY <2>1 DEF P!Busy, P!Routing, P!Delivering
    <3>2. proc' = [proc EXCEPT ![p] = c]
      BY <2>2 DEF P!Goto
    <3> QED
      BY <1>2, <2>1, <3>1, <3>2, PQuietStep DEF P!EnsureConnected
  <2>3. CASE P!Answer(p, "INTERNAL")
    <3> DEFINE c == [proc[p] EXCEPT !.step = "answer", !.code = "INTERNAL"]
    <3>1. c.user = proc[p].user /\ c.step = "answer"
      BY <2>1 DEF P!Busy, P!Routing, P!Delivering
    <3>2. proc' = [proc EXCEPT ![p] = c]
      BY <2>3 DEF P!Answer
    <3> QED
      BY <1>2, <2>1, <3>1, <3>2, PQuietStep DEF P!EnsureConnected
  <2> QED
    BY <1>2, <2>2, <2>3 DEF P!EnsureConnected
<1>3. ASSUME NEW p \in Procs, P!Setex(p) PROVE P!RouteInv'
  <2>1. proc[p] \in P!Busy /\ proc[p] # P!Idle
    BY <1>3, PBusyProc DEF P!Setex, P!Idle
  <2>2. PICK code \in P!Codes : P!Answer(p, code)
    BY <1>3 DEF P!Setex, P!Codes
  <2> DEFINE c == [proc[p] EXCEPT !.step = "answer", !.code = code]
  <2>3. c.user = proc[p].user /\ c.step = "answer"
    BY <2>1 DEF P!Busy, P!Routing, P!Delivering
  <2>4. proc' = [proc EXCEPT ![p] = c]
    BY <2>2 DEF P!Answer
  <2> HIDE DEF c
  <2>5. CASE UNCHANGED <<route, routesSeen>>
    BY <2>1, <2>3, <2>4, <2>5, PQuietStep
  <2>6. CASE /\ route' = [route EXCEPT ![proc[p].user] = proc[p].gw]
             /\ routesSeen' = [q \in Procs |->
                  IF proc[q].user = proc[p].user
                  THEN routesSeen[q] \cup {proc[p].gw} ELSE routesSeen[q]]
    <3>1. proc'[p] = c /\ \A q \in Procs \ {p} : proc'[q] = proc[q]
      BY <2>4 DEF P!TypeOK
    <3>2. \A q \in Procs : proc'[q].user = proc[q].user
      BY <2>3, <3>1
    <3>3. \A q \in Procs : routesSeen[q] \subseteq routesSeen'[q]
      BY <2>6
    <3>4. ASSUME NEW q \in Procs, proc'[q] # P!Idle
          PROVE  route'[proc'[q].user] \in routesSeen'[q]
      <4>1. proc[q] # P!Idle /\ route[proc[q].user] \in routesSeen[q]
        BY <2>1, <3>1, <3>4 DEF P!RouteInv
      <4>2. proc[q].user \in Users
        BY <4>1 DEF P!TypeOK, P!Busy, P!Routing, P!Delivering
      <4>3. CASE proc[q].user = proc[p].user
        <5>1. route'[proc[q].user] = proc[p].gw
          BY <2>6, <4>2, <4>3 DEF P!TypeOK
        <5> QED
          BY <2>6, <3>2, <4>3, <5>1
      <4>4. CASE proc[q].user # proc[p].user
        <5>1. route'[proc[q].user] = route[proc[q].user]
          BY <2>6, <4>2, <4>4 DEF P!TypeOK
        <5> QED
          BY <3>2, <3>3, <4>1, <5>1
      <4> QED
        BY <4>3, <4>4
    <3>5. ASSUME NEW q \in Procs, proc'[q].step \in {"publish", "sent"}
          PROVE  proc'[q].gw \in routesSeen'[q]
      BY <2>3, <3>1, <3>3, <3>5 DEF P!RouteInv, P!PublishedToRoute
    <3> QED
      BY <3>4, <3>5 DEF P!RouteInv, P!PublishedToRoute
  <2> QED
    BY <1>3, <2>5, <2>6 DEF P!Setex
<1>4. ASSUME NEW p \in Procs, P!Get(p) PROVE P!RouteInv'
  <2>1. proc[p] \in P!Busy /\ proc[p] # P!Idle
    BY <1>4, PBusyProc DEF P!Get, P!Idle
  <2>2. PICK g : /\ P!Found(p, g)
                 /\ g = IF cache = "open" THEN route[proc[p].user] ELSE None
    BY <1>4 DEF P!Get
  <2>3. CASE P!Answer(p, "NOT_FOUND")
    <3> DEFINE c == [proc[p] EXCEPT !.step = "answer", !.code = "NOT_FOUND"]
    <3>1. c.user = proc[p].user /\ c.step = "answer"
      BY <2>1 DEF P!Busy, P!Routing, P!Delivering
    <3>2. proc' = [proc EXCEPT ![p] = c]
      BY <2>3 DEF P!Answer
    <3> QED
      BY <1>4, <2>1, <3>1, <3>2, PQuietStep DEF P!Get
  <2>4. CASE /\ g # None
             /\ proc' = [proc EXCEPT
                  ![p].gw = g,
                  ![p].step = IF proc[p].op = "Deliver" THEN "publish"
                              ELSE "answer",
                  ![p].code = IF proc[p].op = "Deliver" THEN "none" ELSE "Ok"]
    <3> DEFINE c == [proc[p] EXCEPT
               !.gw = g,
               !.step = IF proc[p].op = "Deliver" THEN "publish" ELSE "answer",
               !.code = IF proc[p].op = "Deliver" THEN "none" ELSE "Ok"]
    <3>1. c.user = proc[p].user /\ c.gw = g
      BY <2>1 DEF P!Busy, P!Routing, P!Delivering
    <3>2. proc' = [proc EXCEPT ![p] = c]
      BY <2>4
    <3>3. g \in routesSeen[p]
      BY <2>1, <2>2, <2>4 DEF P!RouteInv
    <3> HIDE DEF c
    <3> QED
      BY <1>4, <2>1, <3>1, <3>2, <3>3, PQuietStep DEF P!Get
  <2> QED
    BY <2>2, <2>3, <2>4 DEF P!Found
<1>5. ASSUME NEW p \in Procs, P!Publish(p) PROVE P!RouteInv'
  <2>1. proc[p] \in P!Delivering /\ proc[p] # P!Idle
    <3>1. proc[p].step \in {"publish", "sent"}
      BY <1>5 DEF P!Publish
    <3> QED
      BY <3>1, PDeliveringProc DEF P!Idle
  <2>2. CASE P!Goto(p, "sent")
    <3> DEFINE c == [proc[p] EXCEPT !.step = "sent"]
    <3>1. c.user = proc[p].user /\ c.gw = proc[p].gw
      BY <2>1 DEF P!Delivering
    <3>2. proc' = [proc EXCEPT ![p] = c]
      BY <2>2 DEF P!Goto
    <3>3. proc[p].gw \in routesSeen[p] /\ UNCHANGED <<route, routesSeen>>
      BY <1>5 DEF P!Publish, P!RouteInv, P!PublishedToRoute
    <3> HIDE DEF c
    <3> QED
      BY <2>1, <3>1, <3>2, <3>3, PQuietStep
  <2>3. CASE P!Answer(p, "INTERNAL")
    <3> DEFINE c == [proc[p] EXCEPT !.step = "answer", !.code = "INTERNAL"]
    <3>1. c.user = proc[p].user /\ c.step = "answer"
      BY <2>1 DEF P!Delivering
    <3>2. proc' = [proc EXCEPT ![p] = c]
      BY <2>3 DEF P!Answer
    <3> QED
      BY <1>5, <2>1, <3>1, <3>2, PQuietStep DEF P!Publish
  <2> QED
    BY <1>5, <2>2, <2>3 DEF P!Publish
<1>6. ASSUME NEW p \in Procs, P!PublishReturns(p) PROVE P!RouteInv'
  <2>1. proc[p] \in P!Delivering /\ proc[p] # P!Idle
    <3>1. proc[p].step \in {"publish", "sent"}
      BY <1>6 DEF P!PublishReturns
    <3> QED
      BY <3>1, PDeliveringProc DEF P!Idle
  <2>2. PICK code : P!Answer(p, code)
    BY <1>6 DEF P!PublishReturns
  <2> DEFINE c == [proc[p] EXCEPT !.step = "answer", !.code = code]
  <2>3. c.user = proc[p].user /\ c.step = "answer"
    BY <2>1 DEF P!Delivering
  <2>4. proc' = [proc EXCEPT ![p] = c]
    BY <2>2 DEF P!Answer
  <2> QED
    BY <1>6, <2>1, <2>3, <2>4, PQuietStep DEF P!PublishReturns
<1>7. ASSUME NEW p \in Procs, P!Reply(p) PROVE P!RouteInv'
  <2>1. proc'[p] = P!Idle /\ \A q \in Procs \ {p} : proc'[q] = proc[q]
    BY <1>7 DEF P!Reply, P!TypeOK
  <2>2. route' = route /\ \A q \in Procs \ {p} : routesSeen'[q] = routesSeen[q]
    BY <1>7 DEF P!Reply, P!TypeOK
  <2>3. P!Idle.step = "idle"
    BY DEF P!Idle
  <2> QED
    BY <2>1, <2>2, <2>3 DEF P!RouteInv, P!PublishedToRoute
<1>8. ASSUME NEW u \in Users, P!Expire(u) PROVE P!RouteInv'
  <2>1. proc' = proc /\ route' = [route EXCEPT ![u] = None]
    BY <1>8 DEF P!Expire
  <2>2. routesSeen' = [p \in Procs |->
          IF proc[p].user = u THEN routesSeen[p] \cup {None} ELSE routesSeen[p]]
    BY <1>8 DEF P!Expire
  <2>3. ASSUME NEW q \in Procs, proc[q] # P!Idle
        PROVE  route'[proc[q].user] \in routesSeen'[q]
    <3>1. proc[q].user \in Users
      BY <2>3 DEF P!TypeOK, P!Busy, P!Routing, P!Delivering
    <3>2. route[proc[q].user] \in routesSeen[q]
      BY <2>3 DEF P!RouteInv
    <3> QED
      BY <2>1, <2>2, <3>1, <3>2 DEF P!TypeOK
  <2>4. \A q \in Procs : routesSeen[q] \subseteq routesSeen'[q]
    BY <2>2
  <2> QED
    BY <2>1, <2>3, <2>4 DEF P!RouteInv, P!PublishedToRoute
<1>9. CASE UNCHANGED <<proc, route, routesSeen>>
  BY <1>9 DEF P!RouteInv, P!PublishedToRoute
<1>10. CASE P!RedisDown
  <2>1. \A q \in Procs : /\ proc'[q] # P!Idle => proc[q] # P!Idle
                         /\ proc'[q].user = proc[q].user
                         /\ proc'[q].step \in {"publish", "sent"}
                              => proc'[q] = proc[q]
    <3> SUFFICES ASSUME NEW q \in Procs
                 PROVE  /\ proc'[q] # P!Idle => proc[q] # P!Idle
                        /\ proc'[q].user = proc[q].user
                        /\ proc'[q].step \in {"publish", "sent"}
                             => proc'[q] = proc[q]
      OBVIOUS
    <3>1. CASE proc[q].step = "sent"
      <4>1. proc[q] \in P!Delivering /\ proc[q] # P!Idle
        BY <3>1, PDeliveringProc DEF P!Idle
      <4>2. PICK code : proc'[q] = [proc[q] EXCEPT !.step = "answer", !.code = code]
        BY <1>10, <3>1 DEF P!RedisDown, P!Sent
      <4> QED
        BY <4>1, <4>2 DEF P!Delivering
    <3>2. CASE proc[q].step # "sent"
      BY <1>10, <3>2 DEF P!RedisDown, P!Sent
    <3> QED
      BY <3>1, <3>2
  <2>2. CASE UNCHANGED <<route, routesSeen>>
    BY <2>1, <2>2 DEF P!RouteInv, P!PublishedToRoute
  <2>3. CASE /\ route' = [u \in Users |-> None]
             /\ routesSeen' = [p \in Procs |-> routesSeen[p] \cup {None}]
    <3>1. ASSUME NEW q \in Procs, proc'[q] # P!Idle
          PROVE  route'[proc'[q].user] \in routesSeen'[q]
      <4>1. proc[q].user \in Users
        BY <2>1, <3>1 DEF P!TypeOK, P!Busy, P!Routing, P!Delivering
      <4> QED
        BY <2>1, <2>3, <4>1
    <3>2. \A q \in Procs : routesSeen[q] \subseteq routesSeen'[q]
      BY <2>3
    <3> QED
      BY <2>1, <3>1, <3>2 DEF P!RouteInv, P!PublishedToRoute
  <2> QED
    BY <1>10, <2>2, <2>3 DEF P!RedisDown
<1>11. ASSUME NEW g \in Gateways, P!Subscribe(g) \/ P!Unsubscribe(g)
       PROVE  P!RouteInv'
  BY <1>9, <1>11 DEF P!Subscribe, P!Unsubscribe
<1>12. CASE P!RedisUp \/ UNCHANGED presenceVars
  BY <1>9, <1>12 DEF P!RedisUp, presenceVars
<1>13. ASSUME NEW p \in Procs, P!Receive(p) PROVE P!RouteInv'
  BY <1>1, <1>13 DEF P!Receive, P!CallBindRoute, P!CallQueryRoute, P!CallDeliver
<1> QED
  BY <1>2, <1>3, <1>4, <1>5, <1>6, <1>7, <1>8, <1>10, <1>11, <1>12, <1>13
     DEF P!Next, P!Execute, P!Environment

-----------------------------------------------------------------------------
(* The composition with the presence service.                              *)

\* Worker w executes the call that sends m, at this step.
At(w, m, step) == Sends(w, m) /\ worker[w].step = step

\* The message is stored, or was, or is about to be.
Stored(m) == m \in table \/ Taken(m) \/ \E w \in Workers : At(w, m, "store")

\* A gateway has heard the message, or may when a PUBLISH left behind goes out.
Released(m) == Heard(m) \/ \E c \in buffered : c[1] = m

\* What worker p of the presence service does for worker w.
Asks(p, w) ==
  \E m \in Msgs :
     \/ At(w, m, "query") /\ proc[p].op = "QueryRoute" /\ proc[p].user = To[m]
     \/ At(w, m, "deliver") /\ Delivers(p, m)

\* A presence worker serves the call of the message service it was asked for, and
\* each such call is served by one; a message that may still be delivered is
\* delivered by nobody else, and one that is only looked up by nobody.
ServedInv ==
  /\ \A p \in Procs, w \in Workers : client[p] = w => Asks(p, w)
  /\ \A p, q \in Procs : client[p] # None /\ client[p] = client[q] => p = q
  /\ \A p \in Procs, w \in Workers, m \in Msgs :
        Delivers(p, m) /\ At(w, m, "deliver") => client[p] = w
  /\ \A p, q \in Procs, m \in Msgs : Delivers(p, m) /\ Delivers(q, m) => p = q
  /\ \A w \in Workers, m \in Msgs : At(w, m, "query") =>
        ~Released(m) /\ \A p \in Procs : ~Delivers(p, m)
  /\ \A w \in Workers, m \in Msgs : At(w, m, "deliver") /\ ~Called(w) => ~Released(m)
  /\ \A m \in Msgs : Released(m) \/ (\E p \in Procs : Delivers(p, m)) => m \in sent

\* A delivery is for the recipient of its message, and publishes to a gateway;
\* before the first outage every connection is open.
DeliveryCalls ==
  /\ \A p \in Procs, m \in Msgs : Delivers(p, m) => proc[p].user = To[m]
  /\ \A p \in Procs : proc[p].step \in {"publish", "sent"} => proc[p].gw # None
  /\ outages = 0 => connected /\ cache = "open" /\ queue = "open"

\* The histories hold what Observe has seen.
Observed ==
  /\ \A m \in Msgs : Sending(m) /\ route[To[m]] = None => m \in unroutable
  /\ \A m \in Msgs, p \in Procs :
        Delivers(p, m) /\ ~(routesSeen[p] \ {None} \subseteq subscribed) => m \in unheard
  /\ \A m \in Msgs, p \in Procs :
        Delivers(p, m) /\ proc[p].step = "sent" /\ mixed => m \in collided

\* "Ok" from a delivery, and what the service makes of it.
OkIsHeard ==
  /\ \A p \in Procs, m \in Msgs :
        Delivers(p, m) /\ proc[p].step = "answer" /\ proc[p].code = "Ok"
           => Heard(m) \/ m \in unheard \cup collided
  /\ \A w \in Workers, m \in Msgs :
        At(w, m, "answer") /\ worker[w].res = "delivered"
           => Heard(m) \/ m \in unheard \cup collided
  /\ DeliveredIsHeard

\* A delivery that has not answered "Ok" was not heard, and a message that is
\* stored was not and will not be, if its PUBLISH met no outage and no mixed connection.
HeardIsOk ==
  \A m \in Msgs \ collided :
     /\ \A p \in Procs : Delivers(p, m) /\ Released(m)
           => proc[p].step = "answer" /\ proc[p].code = "Ok"
     /\ lostCalls = 0 /\ Stored(m)
           => ~Released(m) /\ \A p \in Procs : ~Delivers(p, m)

\* A call fails, and a message is stored, only for one of the exceptions.
FailsForCause ==
  (lostCalls = 0 /\ outages = 0) =>
     \A m \in Msgs \ (unroutable \cup collided) :
        /\ \A p \in Procs, w \in Workers :
              client[p] = w /\ Sends(w, m) /\ proc[p].step = "answer"
                 => proc[p].code = "Ok"
        /\ ~\E w \in Workers : At(w, m, "store") \/ Queues(w, m)
        /\ answered[m] # "queued"

DeliveryInv ==
  /\ DeliveryTypeOK
  /\ OneSend
  /\ StoredIsQueued
  /\ P!RouteInv
  /\ DeliveryCalls
  /\ ServedInv
  /\ Observed
  /\ OkIsHeard
  /\ HeardIsOk
  /\ FailsForCause

-----------------------------------------------------------------------------
(* What a step of either service does, as the other sees it.               *)

\* A step of the message service that is no answer of the presence service takes
\* up messages that were never sent, and stores and answers what was to be.
LEMMA MessageStepEffect ==
  ASSUME TypeOK, NEW w \in Workers, Receive(w) \/ Store(w) \/ Pull(w) \/ Reply(w)
  PROVE  /\ \A v \in Workers, m \in Msgs :
               /\ At(v, m, "query")' => At(v, m, "query") \/ m \notin sent
               /\ At(v, m, "query") => At(v, m, "query")'
               /\ At(v, m, "deliver")' <=> At(v, m, "deliver")
               /\ At(v, m, "store")' => At(v, m, "store")
               /\ At(v, m, "answer")' =>
                     \/ At(v, m, "answer") /\ worker'[v].res = worker[v].res
                     \/ At(v, m, "store") /\ worker'[v].res = "queued"
         /\ sent \subseteq sent'
         /\ \A m \in Msgs : \/ answered'[m] = answered[m]
                            \/ \E v \in Workers : At(v, m, "answer")
                                                  /\ answered'[m] = worker[v].res
         /\ \A m \in Msgs : Stored(m)' => Stored(m)
<1> DEFINE Quiet == /\ OthersStay(w)
                    /\ ~\E m \in Msgs : Sends(w, m)
                    /\ ~\E m \in Msgs : Sends(w, m)'
                    /\ sent' = sent /\ answered' = answered
                    /\ \A m \in Msgs : m \in table' \/ Taken(m)' => m \in table \/ Taken(m)
<1>1. CASE Quiet
  BY <1>1 DEF OthersStay, Sends, At, Stored
<1>2. ASSUME NEW n \in Msgs, CallSend(w, n)
      PROVE  /\ OthersStay(w)
             /\ n \notin sent
             /\ ~\E m \in Msgs : Sends(w, m)
             /\ worker'[w].op = "send" /\ worker'[w].msg = n
             /\ worker'[w].step = "query"
             /\ sent' = sent \cup {n} /\ answered' = answered
             /\ \A m \in Msgs : m \in table' \/ Taken(m)' => m \in table \/ Taken(m)
  <2>1. UNCHANGED <<table, answered, given>> /\ sent' = sent \cup {n} /\ n \notin sent
    BY <1>2 DEF CallSend
  <2>2. worker'[w].step = "query"
    <3>1. n \notin GroupMsgs
      BY PresenceAssumed DEF GroupMsgs
    <3>2. worker'[w] = [Idle EXCEPT !.op = "send", !.msg = n, !.step = "query"]
      BY <1>2, <3>1 DEF CallSend, TypeOK
    <3> QED
      BY <3>2 DEF Idle
  <2>3. \A m \in Msgs : Taken(m)' => Taken(m)
    BY <1>2, <2>1, CallSendEffect DEF Taken, OthersStay
  <2> QED
    BY <1>2, <2>1, <2>2, <2>3, CallSendEffect DEF Sends
<1>3. CASE \E n \in Msgs : CallSend(w, n)
  BY <1>2, <1>3 DEF OthersStay, Sends, At, Stored
<1>4. ASSUME NEW u \in Users, CallPull(w, u) PROVE Quiet
  <2>1. UNCHANGED <<table, sent, answered, given>>
    BY <1>4 DEF CallPull
  <2>2. \A m \in Msgs : Taken(m)' => Taken(m)
    BY <1>4, <2>1, CallPullEffect DEF Taken, OthersStay
  <2> QED
    BY <1>4, <2>1, <2>2, CallPullEffect DEF Sends
<1>5. ASSUME Pull(w) PROVE Quiet
  <2>1. UNCHANGED <<sent, answered, given>> /\ table' \subseteq table
    BY <1>5, PullCases
  <2>2. worker'[w].rows \subseteq worker[w].rows \cup table
    BY <1>5, PullCases DEF Rows
  <2>3. \A m \in Msgs : Taken(m)' => Taken(m) \/ m \in table
    BY <1>5, <2>1, <2>2, PullCases DEF Taken, OthersStay
  <2> QED
    BY <1>5, <2>1, <2>3, PullCases DEF Sends
<1>6. CASE Store(w)
  <2>1. /\ UNCHANGED <<sent, answered, given>>
        /\ table' \subseteq table \cup {worker[w].msg}
        /\ worker[w].step = "store"
    BY <1>6 DEF Store
  <2>2. \A m \in Msgs : Taken(m)' => Taken(m)
    BY <1>6, <2>1, StoreEffect DEF Taken, OthersStay
  <2>3. At(w, worker[w].msg, "store")
    BY <1>6, <2>1, StoreEffect DEF At, Sends
  <2>4. \A m \in Msgs : m \in table' => m \in table \/ At(w, m, "store")
    BY <2>1, <2>3
  <2>5. \A v \in Workers, m \in Msgs :
           /\ At(v, m, "query")' <=> At(v, m, "query")
           /\ At(v, m, "deliver")' <=> At(v, m, "deliver")
           /\ At(v, m, "store")' => At(v, m, "store")
           /\ At(v, m, "answer")' =>
                 \/ At(v, m, "answer") /\ worker'[v].res = worker[v].res
                 \/ At(v, m, "store") /\ worker'[v].res = "queued"
    BY <1>6, <2>1, StoreEffect DEF OthersStay, Sends, At
  <2> QED
    BY <2>1, <2>2, <2>4, <2>5 DEF Stored
<1>7. CASE Reply(w)
  <2>1. UNCHANGED <<table, sent>> /\ worker[w].step = "answer"
    BY <1>7, ReplyEffect
  <2>2. \A m \in Msgs : Taken(m)' => Taken(m)
    <3>1. \A v \in Workers, m \in Msgs : m \in worker'[v].rows => worker'[v] = worker[v]
      BY <1>7, ReplyEffect DEF OthersStay
    <3>2. ASSUME NEW u \in Users, NEW m \in Msgs, given'[u][m] > 0
          PROVE  Taken(m)
      BY <1>7, <3>2, ReplyGives DEF Taken
    <3> QED
      BY <3>1, <3>2 DEF Taken
  <2>3. \A m \in Msgs : answered'[m] = answered[m]
                        \/ (At(w, m, "answer") /\ answered'[m] = worker[w].res)
    <3>1. CASE worker[w].op = "send"
      <4>1. answered' = [answered EXCEPT ![worker[w].msg] = worker[w].res]
        BY <1>7, <3>1, ReplyEffect
      <4> QED
        BY <2>1, <3>1, <4>1 DEF TypeOK, At, Sends
    <3>2. CASE worker[w].op # "send"
      BY <1>7, <3>2, ReplyEffect
    <3> QED
      BY <3>1, <3>2
  <2>4. \A v \in Workers, m \in Msgs : \A step \in {"query", "deliver", "store", "answer"} :
           /\ At(v, m, step)' => At(v, m, step) /\ worker'[v].res = worker[v].res
           /\ At(v, m, step) /\ step # "answer" => At(v, m, step)'
    BY <1>7, <2>1, ReplyEffect DEF OthersStay, Sends, At
  <2> QED
    BY <2>1, <2>2, <2>3, <2>4 DEF Stored
<1> QED
  BY <1>1, <1>3, <1>4, <1>5, <1>6, <1>7 DEF Receive

\* Where an answer of the presence service, or its failure, takes a Send.
Resumed(w, ok) ==
  IF worker[w].step = "query" THEN IF ok THEN "deliver" ELSE "store"
                              ELSE IF ok THEN "answer" ELSE "store"

LEMMA ResumeEffect ==
  ASSUME TypeOK, NEW w \in Workers, NEW ok \in BOOLEAN, Resume(w, ok)
  PROVE  /\ OthersStay(w)
         /\ worker[w].step \in {"query", "deliver"}
         /\ worker[w].op = "send" /\ worker'[w].op = "send"
         /\ worker[w].msg \in Msgs /\ worker'[w].msg = worker[w].msg
         /\ worker'[w].step = Resumed(w, ok)
         /\ worker'[w].step = "answer" => worker'[w].res = "delivered"
         /\ UNCHANGED <<table, sent, answered, given>>
         /\ \A m \in Msgs : Taken(m)' => Taken(m)
<1>1. Presence(w) /\ worker[w].step \in {"query", "deliver"}
  BY DEF Resume, Presence, QueryReturns, DeliverReturns
<1>2. worker[w] \in SendCall
  BY <1>1, StepOfSend DEF SendSteps
<1>3. worker[w].msg \in Msgs
  BY <1>2 DEF SendCall
<1>4. worker'[w].step = Resumed(w, ok)
  <2>1. CASE Goto(w, Resumed(w, ok))
    BY <1>2, <2>1 DEF Goto, TypeOK, SendCall
  <2>2. CASE AnswerSend(w, "delivered") /\ Resumed(w, ok) = "answer"
    BY <1>2, <2>2 DEF AnswerSend, TypeOK, SendCall
  <2> QED
    BY <1>1, <2>1, <2>2 DEF Resume, QueryReturns, DeliverReturns, Resumed
<1>5. \A m \in Msgs : Taken(m)' => Taken(m)
  BY <1>1, PresenceEffect DEF Taken, OthersStay
<1> QED
  BY <1>1, <1>3, <1>4, <1>5, PresenceEffect

\* The end of the message service leaves no call.
LEMMA CrashEffect ==
  ASSUME Crash
  PROVE  /\ \A w \in Workers, m \in Msgs : ~Sends(w, m)'
         /\ UNCHANGED <<table, sent, answered>>
         /\ \A m \in Msgs : Taken(m)' => Taken(m)
<1>1. \A w \in Workers : worker'[w] = Idle
  BY DEF Crash
<1> QED
  BY <1>1 DEF Crash, Taken, Idle, Sends

\* A presence worker keeps its call, and where it is in it.
SameCall(q) ==
  /\ proc'[q].op = proc[q].op
  /\ proc'[q].user = proc[q].user
  /\ proc'[q].msg = proc[q].msg

Rests(q) ==
  /\ SameCall(q)
  /\ proc'[q].step = proc[q].step
  /\ proc'[q].gw = proc[q].gw
  /\ proc'[q].code = proc[q].code

LEMMA PGotoEffect ==
  ASSUME P!TypeOK, NEW p \in Procs, proc[p].step # "idle", NEW step, P!Goto(p, step)
  PROVE  /\ \A q \in Procs \ {p} : proc'[q] = proc[q]
         /\ SameCall(p) /\ proc'[p].gw = proc[p].gw /\ proc'[p].step = step
<1>1. proc[p] \in P!Busy
  BY PBusyProc
<1>2. proc' = [proc EXCEPT ![p] = [proc[p] EXCEPT !.step = step]]
  BY DEF P!Goto
<1> QED
  BY <1>1, <1>2 DEF P!TypeOK, P!Busy, P!Routing, P!Delivering, SameCall

LEMMA PAnswerEffect ==
  ASSUME P!TypeOK, NEW p \in Procs, proc[p].step # "idle", NEW code, P!Answer(p, code)
  PROVE  /\ \A q \in Procs \ {p} : proc'[q] = proc[q]
         /\ SameCall(p) /\ proc'[p].step = "answer" /\ proc'[p].code = code
<1>1. proc[p] \in P!Busy
  BY PBusyProc
<1>2. proc' = [proc EXCEPT ![p] = [proc[p] EXCEPT !.step = "answer", !.code = code]]
  BY DEF P!Answer
<1> QED
  BY <1>1, <1>2 DEF P!TypeOK, P!Busy, P!Routing, P!Delivering, SameCall

\* What a worker of the presence service does next: it moves on in its call, or
\* answers it.  A delivery is answered "Ok" when the gateway has heard it, if it
\* listened; other answers have their reasons.
MovesOn(p) ==
  /\ proc'[p].step \in {"key", "publish", "sent"}
  /\ proc'[p].step = "publish" => proc'[p].gw # None
  /\ proc'[p].step = "sent" => proc[p].step = "publish" /\ proc'[p].gw = proc[p].gw

AnswersOk(p) ==
  /\ proc'[p].step = "answer"
  /\ proc'[p].code = "Ok"
  /\ proc[p].op = "Deliver" =>
        /\ proc[p].step = "sent"
        /\ \/ mixed
           \/ proc[p].gw \notin subscribed
           \/ <<proc[p].msg, proc[p].gw>> \in heard'

AnswersNot(p) ==
  /\ proc'[p].step = "answer"
  /\ proc'[p].code # "Ok"
  /\ \/ proc[p].op = "BindRoute"
     \/ ~(connected /\ cache = "open" /\ queue = "open")
     \/ route[proc[p].user] = None
     \/ proc[p].op = "Deliver" /\ proc[p].step = "sent" /\ mixed

LEMMA ExecuteEffect ==
  ASSUME P!TypeOK, NEW p \in Procs, P!Execute(p)
  PROVE  /\ proc[p].step \notin {"idle", "answer"}
         /\ SameCall(p)
         /\ \A q \in Procs \ {p} : Rests(q)
         /\ MovesOn(p) \/ AnswersOk(p) \/ AnswersNot(p)
         /\ UNCHANGED <<subscribed, queue, outages>>
         /\ connected => connected'
         /\ cache = "open" => cache' = "open"
<1>1. proc[p].step \notin {"idle", "answer"}
  BY DEF P!Execute, P!EnsureConnected, P!Setex, P!Get, P!Publish, P!PublishReturns
<1>2. CASE P!EnsureConnected(p)
  <2>1. UNCHANGED <<subscribed, queue, outages>> /\ (connected => connected')
        /\ (cache = "open" => cache' = "open")
    BY <1>2 DEF P!EnsureConnected
  <2>2. CASE P!Goto(p, "key")
    BY <1>1, <2>1, <2>2, PGotoEffect DEF Rests, SameCall, MovesOn
  <2>3. CASE P!Answer(p, "INTERNAL") /\ ~connected
    BY <1>1, <2>1, <2>3, PAnswerEffect DEF Rests, SameCall, AnswersNot
  <2> QED
    BY <1>2, <2>2, <2>3 DEF P!EnsureConnected
<1>3. CASE P!Setex(p)
  <2>1. UNCHANGED <<subscribed, queue, outages, connected, cache>>
        /\ proc[p].op = "BindRoute"
    BY <1>3 DEF P!Setex
  <2>2. PICK code \in {"Ok", "INTERNAL"} : P!Answer(p, code)
    BY <1>3 DEF P!Setex
  <2> QED
    BY <1>1, <2>1, <2>2, PAnswerEffect DEF Rests, SameCall, AnswersOk, AnswersNot
<1>4. CASE P!Get(p)
  <2>1. UNCHANGED <<subscribed, queue, outages, connected, cache>>
        /\ proc[p].op # "BindRoute"
    BY <1>4 DEF P!Get
  <2>2. PICK g : /\ P!Found(p, g)
                 /\ g = IF cache = "open" THEN route[proc[p].user] ELSE None
    BY <1>4 DEF P!Get
  <2>3. CASE g = None /\ P!Answer(p, "NOT_FOUND")
    BY <1>1, <2>1, <2>2, <2>3, PAnswerEffect DEF Rests, SameCall, AnswersNot
  <2>4. CASE /\ g # None
             /\ proc' = [proc EXCEPT
                  ![p].gw = g,
                  ![p].step = IF proc[p].op = "Deliver" THEN "publish"
                              ELSE "answer",
                  ![p].code = IF proc[p].op = "Deliver" THEN "none" ELSE "Ok"]
    <3> DEFINE c == [proc[p] EXCEPT
               !.gw = g,
               !.step = IF proc[p].op = "Deliver" THEN "publish" ELSE "answer",
               !.code = IF proc[p].op = "Deliver" THEN "none" ELSE "Ok"]
    <3>1. proc[p] \in P!Busy
      BY <1>1, PBusyProc
    <3>2. /\ c.user = proc[p].user /\ c.gw = g
          /\ c.op = proc[p].op /\ c.msg = proc[p].msg
          /\ c.step = IF proc[p].op = "Deliver" THEN "publish" ELSE "answer"
          /\ c.code = IF proc[p].op = "Deliver" THEN "none" ELSE "Ok"
      BY <3>1 DEF P!Busy, P!Routing, P!Delivering
    <3>3. proc' = [proc EXCEPT ![p] = c]
      BY <2>4
    <3>4. proc'[p] = c /\ \A q \in Procs \ {p} : proc'[q] = proc[q]
      BY <3>3 DEF P!TypeOK
    <3> HIDE DEF c
    <3> QED
      BY <1>1, <2>1, <2>4, <3>2, <3>4 DEF Rests, SameCall, MovesOn, AnswersOk
  <2> QED
    BY <2>2, <2>3, <2>4 DEF P!Found
<1>5. CASE P!Publish(p)
  <2>1. UNCHANGED <<subscribed, queue, outages, connected, cache>>
        /\ proc[p].step = "publish"
    BY <1>5 DEF P!Publish
  <2>2. CASE P!Goto(p, "sent")
    BY <1>1, <2>1, <2>2, PGotoEffect DEF Rests, SameCall, MovesOn
  <2>3. CASE queue # "open" /\ P!Answer(p, "INTERNAL")
    BY <1>1, <2>1, <2>3, PAnswerEffect DEF Rests, SameCall, AnswersNot
  <2> QED
    BY <1>5, <2>2, <2>3 DEF P!Publish
<1>6. CASE P!PublishReturns(p)
  <2>1. UNCHANGED <<subscribed, queue, outages, connected, cache>>
        /\ proc[p].step = "sent"
    BY <1>6 DEF P!PublishReturns
  <2>2. PICK code \in {"Ok", "INTERNAL"} : P!Answer(p, code)
    BY <1>6 DEF P!PublishReturns
  <2>3. proc[p].op = "Deliver"
    BY <2>1, PDeliveringProc DEF P!Delivering
  <2>4. /\ \A q \in Procs \ {p} : proc'[q] = proc[q]
        /\ SameCall(p) /\ proc'[p].step = "answer" /\ proc'[p].code = code
    BY <1>1, <2>2, PAnswerEffect
  <2>5. CASE mixed
    BY <1>1, <2>1, <2>2, <2>3, <2>4, <2>5 DEF Rests, SameCall, AnswersOk, AnswersNot
  <2>6. CASE ~mixed
    <3>1. P!Answer(p, "Ok") /\ heard' = heard \cup P!Reached({P!PublishCommand(p)})
      BY <1>6, <2>6 DEF P!PublishReturns
    <3>2. proc'[p].code = "Ok"
      BY <1>1, <3>1, PAnswerEffect
    <3>3. proc[p].gw \in P!Listeners(proc[p].gw)
             => <<proc[p].msg, proc[p].gw>> \in P!Reached({P!PublishCommand(p)})
      BY DEF P!Reached, P!PublishCommand
    <3>4. proc[p].gw \in subscribed => <<proc[p].msg, proc[p].gw>> \in heard'
      BY <3>1, <3>3 DEF P!Listeners
    <3> QED
      BY <1>1, <2>1, <2>3, <2>4, <3>2, <3>4 DEF Rests, SameCall, AnswersOk
  <2> QED
    BY <2>5, <2>6
<1> QED
  BY <1>2, <1>3, <1>4, <1>5, <1>6 DEF P!Execute

\* Only the end of a delivery releases its message, and what was released stays so
\* or is lost.
LEMMA ExecuteHeard ==
  ASSUME P!TypeOK, NEW p \in Procs, P!Execute(p), NEW m \in Msgs
  PROVE  /\ Heard(m) => Heard(m)'
         /\ Released(m)' => \/ Released(m)
                            \/ /\ Delivers(p, m)
                               /\ proc[p].step = "sent" /\ proc'[p].step = "answer"
                               /\ mixed \/ proc'[p].code = "Ok"
<1>1. CASE UNCHANGED <<heard, buffered>>
  BY <1>1 DEF Heard, Released
<1>2. CASE P!PublishReturns(p)
  <2>1. proc[p].step = "sent"
    BY <1>2 DEF P!PublishReturns
  <2>2. PICK gone \in SUBSET (buffered \cup {P!PublishCommand(p)}) :
          heard' = heard \cup P!Reached(gone)
    BY <1>2 DEF P!PublishReturns
  <2>3. buffered' \subseteq buffered \cup {P!PublishCommand(p)}
    BY <1>2 DEF P!PublishReturns
  <2>4. Delivers(p, proc[p].msg)
    BY <2>1, PDeliveringProc DEF Delivers, P!Delivering
  <2>5. proc'[p].step = "answer" /\ (mixed \/ proc'[p].code = "Ok")
    BY <1>2, <2>1, PAnswerEffect DEF P!PublishReturns
  <2>6. Heard(m) => Heard(m)'
    BY <2>2 DEF Heard
  <2>7. ASSUME Released(m)', ~Released(m) PROVE m = proc[p].msg
    <3>1. \A c \in buffered \cup {P!PublishCommand(p)} : c[1] = m => m = proc[p].msg
      BY <2>7 DEF Released, P!PublishCommand
    <3>2. CASE Heard(m)'
      <4>1. PICK g \in Gateways : <<m, g>> \in P!Reached(gone)
        BY <2>2, <2>7, <3>2 DEF Heard, Released
      <4>2. \E c \in gone : c[1] = m
        BY <4>1 DEF P!Reached
      <4> QED
        BY <2>2, <3>1, <4>2
    <3>3. CASE \E c \in buffered' : c[1] = m
      BY <2>3, <3>1, <3>3
    <3> QED
      BY <2>7, <3>2, <3>3 DEF Released
  <2> QED
    BY <2>1, <2>4, <2>5, <2>6, <2>7
<1> QED
  BY <1>1, <1>2 DEF P!Execute, P!EnsureConnected, P!Setex, P!Get, P!Publish

\* An outage ends a call that is in redisCommand.
Struck(q) ==
  /\ SameCall(q)
  /\ proc[q].op = "Deliver" /\ proc[q].step = "sent"
  /\ redis # redis'
  /\ proc'[q].step = "answer"

\* Redis and the gateways leave the calls where they are, but for the deliveries
\* that an outage meets; only those can release their message then.
LEMMA EnvironmentEffect ==
  ASSUME P!TypeOK, P!Environment
  PROVE  /\ \A q \in Procs : Rests(q) \/ Struck(q)
         /\ \A m \in Msgs : Heard(m) => Heard(m)'
         /\ \A m \in Msgs : Released(m)' =>
               Released(m) \/ \E q \in Procs : Delivers(q, m) /\ Struck(q)
         /\ outages' = 0 =>
               /\ outages = 0 /\ UNCHANGED <<connected, cache, queue>>
               /\ \A q \in Procs : Rests(q)
<1>1. CASE UNCHANGED <<connected, cache, queue, proc, heard, buffered, outages>>
  BY <1>1 DEF Rests, SameCall, Heard, Released
<1>2. CASE P!RedisDown
  <2>1. PICK executed \in SUBSET (buffered \cup {P!PublishCommand(p) : p \in P!Sent}),
             replied \in SUBSET P!Sent :
          /\ heard' = heard \cup (IF queue = "open" THEN P!Reached(executed) ELSE {})
          /\ proc' = [p \in Procs |->
               IF p \in P!Sent
               THEN [proc[p] EXCEPT !.step = "answer",
                       !.code = IF p \in replied THEN "Ok" ELSE "INTERNAL"]
               ELSE proc[p]]
    BY <1>2 DEF P!RedisDown
  <2>2. redis # redis' /\ buffered' = {} /\ outages' # 0
    <3>1. redis /\ ~redis' /\ buffered' = {} /\ outages' = outages + 1
      BY <1>2 DEF P!RedisDown
    <3>2. outages \in Nat
      BY DEF P!TypeOK
    <3>3. outages' # 0
      BY <3>1, <3>2
    <3>4. redis # redis'
      BY <3>1, Zenon
    <3> QED
      BY <3>1, <3>3, <3>4
  <2>3. ASSUME NEW q \in P!Sent PROVE q \in Procs /\ Struck(q)
    <3>1. q \in Procs /\ proc[q].step = "sent"
      BY <2>3 DEF P!Sent
    <3>2. proc[q] \in P!Delivering
      BY <3>1, PDeliveringProc
    <3>3. PICK code : proc'[q] = [proc[q] EXCEPT !.step = "answer", !.code = code]
      BY <2>1, <2>3, <3>1
    <3> QED
      BY <2>2, <3>1, <3>2, <3>3 DEF P!Delivering, Struck, SameCall
  <2>4. \A q \in Procs \ P!Sent : Rests(q)
    BY <2>1 DEF Rests, SameCall
  <2>5. \A m \in Msgs : Heard(m) => Heard(m)'
    BY <2>1 DEF Heard
  <2>6. ASSUME NEW m \in Msgs, Released(m)', ~Released(m)
        PROVE  \E q \in Procs : Delivers(q, m) /\ Struck(q)
    <3>1. Heard(m)' /\ ~Heard(m)
      BY <2>2, <2>6 DEF Released
    <3>2. PICK g \in Gateways : <<m, g>> \in P!Reached(executed)
      BY <2>1, <3>1 DEF Heard
    <3>3. PICK c \in executed : c[1] = m
      BY <3>2 DEF P!Reached
    <3>4. c \notin buffered
      BY <2>6, <3>3 DEF Released
    <3>5. PICK q \in P!Sent : c = P!PublishCommand(q)
      BY <2>1, <3>3, <3>4
    <3> QED
      BY <2>3, <3>3, <3>5 DEF P!PublishCommand, Delivers, Struck
  <2> QED
    BY <2>2, <2>3, <2>4, <2>5, <2>6
<1> QED
  BY <1>1, <1>2 DEF P!Environment, P!Expire, P!Subscribe, P!Unsubscribe, P!RedisUp

\* A call that begins, on a worker that was idle, and one that ends.
LEMMA PCallEffect ==
  ASSUME P!TypeOK, NEW p \in Procs, NEW op, NEW u, NEW g, NEW m, P!Call(p, op, u, g, m)
  PROVE  /\ proc[p] = P!Idle
         /\ proc'[p].op = op /\ proc'[p].user = u /\ proc'[p].msg = m
         /\ proc'[p].step = "connect"
         /\ \A q \in Procs \ {p} : Rests(q)
         /\ UNCHANGED <<cache, queue, connected, heard, buffered, outages>>
<1>1. proc'[p] = [P!Idle EXCEPT !.op = op, !.step = "connect", !.user = u,
                                !.gw = g, !.msg = m]
  BY DEF P!Call, P!TypeOK
<1>2. \A q \in Procs \ {p} : proc'[q] = proc[q]
  BY DEF P!Call, P!TypeOK
<1>3. /\ proc'[p].op = op /\ proc'[p].user = u /\ proc'[p].msg = m
      /\ proc'[p].step = "connect"
  BY <1>1 DEF P!Idle
<1>4. \A q \in Procs \ {p} : Rests(q)
  BY <1>2 DEF Rests, SameCall
<1> QED
  BY <1>3, <1>4 DEF P!Call

LEMMA PReplyEffect ==
  ASSUME P!TypeOK, NEW p \in Procs, P!Reply(p)
  PROVE  /\ proc[p].step = "answer"
         /\ proc'[p] = P!Idle
         /\ \A q \in Procs \ {p} : Rests(q)
         /\ UNCHANGED <<cache, queue, connected, heard, buffered, outages>>
BY DEF P!Reply, P!TypeOK, Rests, SameCall

-----------------------------------------------------------------------------
(* Every step of the composition is one of each service.                   *)

\* A Send that goes on is one the presence service has answered, or not.
LEMMA ResumeIsPresence ==
  ASSUME NEW w \in Workers, NEW ok \in BOOLEAN, Resume(w, ok)
  PROVE  Presence(w)
BY DEF Resume, Presence

LEMMA StepOfMessages ==
  ASSUME DeliveryTypeOK, [DeliveryNext]_deliveryVars
  PROVE  [Next]_vars
<1>1. ASSUME NEW p \in Procs, Answered(p) PROVE [Next]_vars
  <2>1. CASE client[p] = None
    BY <1>1, <2>1 DEF Answered, messageVars
  <2>2. CASE client[p] # None
    <3>1. client[p] \in Workers /\ Resume(client[p], proc[p].code = "Ok")
      BY <1>1, <2>2 DEF Answered, DeliveryTypeOK
    <3> QED
      BY <3>1, ResumeIsPresence DEF Next
  <2> QED
    BY <2>1, <2>2
<1>2. ASSUME NEW w \in Workers, CallLost(w) PROVE [Next]_vars
  BY <1>2, ResumeIsPresence DEF CallLost, Next
<1>3. CASE UNCHANGED messageVars
  BY <1>3 DEF messageVars
<1>4. CASE MessageStep \/ MessageServiceEnds
  BY <1>4 DEF MessageStep, MessageServiceEnds, Next
<1> QED
  BY <1>1, <1>2, <1>3, <1>4
     DEF DeliveryNext, deliveryVars, Request, Bind, PresenceStep

\* What the message service asks for is a call of the presence service.
LEMMA RequestCalls ==
  ASSUME TypeOK, NEW w \in Workers, NEW p \in Procs, Request(w, p)
  PROVE  \E n \in Msgs :
            \/ /\ At(w, n, "query")
               /\ P!Call(p, "QueryRoute", To[n], None, None)
            \/ /\ At(w, n, "deliver")
               /\ P!Call(p, "Deliver", To[n], None, n)
<1>1. worker[w].step \in SendSteps
  BY DEF Request, SendSteps
<1>2. worker[w].op = "send" /\ worker[w].msg \in Msgs
  BY <1>1, StepOfSend DEF SendCall
<1> QED
  BY <1>2 DEF Request, At, Sends, P!CallQueryRoute, P!CallDeliver

LEMMA StepOfPresence ==
  ASSUME DeliveryTypeOK, [DeliveryNext]_deliveryVars
  PROVE  [P!Next]_presenceVars
<1>1. ASSUME NEW w \in Workers, NEW p \in Procs, Request(w, p) PROVE P!Next
  <2>1. PICK n \in Msgs : \/ P!Call(p, "QueryRoute", To[n], None, None)
                          \/ P!Call(p, "Deliver", To[n], None, n)
    BY <1>1, RequestCalls DEF DeliveryTypeOK
  <2>2. To[n] \in Users
    BY PresenceAssumed
  <2>3. P!CallQueryRoute(p, To[n]) \/ P!CallDeliver(p, n)
    BY <2>1 DEF P!CallQueryRoute, P!CallDeliver
  <2> QED
    BY <2>2, <2>3 DEF P!Next, P!Receive
<1>2. ASSUME NEW p \in Procs, Answered(p) \/ Bind(p) PROVE P!Next
  BY <1>2 DEF Answered, Bind, P!Next, P!Receive
<1>3. CASE PresenceStep
  BY <1>3 DEF PresenceStep, P!Next
<1>4. CASE UNCHANGED presenceVars
  BY <1>4
<1> QED
  BY <1>1, <1>2, <1>3, <1>4
     DEF DeliveryNext, deliveryVars, CallLost, MessageStep, MessageServiceEnds

\* The links between the calls and the histories keep their types.
LEMMA DeliveryTyped ==
  /\ DeliveryInit => DeliveryTypeOK
  /\ DeliveryTypeOK /\ [DeliveryNext]_deliveryVars => DeliveryTypeOK'
<1>1. DeliveryInit => DeliveryTypeOK
  BY TypeInit, PresenceTyped DEF DeliveryInit, DeliveryTypeOK
<1>2. ASSUME DeliveryTypeOK, [DeliveryNext]_deliveryVars PROVE DeliveryTypeOK'
  <2>1. TypeOK'
    <3>1. [Next]_vars
      BY <1>2, StepOfMessages
    <3>2. CASE Next
      BY <1>2, <3>2, TypeReceive, TypeSend, TypePull, TypeReply, TypeCrash
         DEF Next, DeliveryTypeOK
    <3>3. CASE UNCHANGED vars
      BY <1>2, <3>3 DEF vars, TypeOK, DeliveryTypeOK
    <3> QED
      BY <3>1, <3>2, <3>3
  <2>2. P!TypeOK'
    BY <1>2, StepOfPresence, PresenceTyped DEF DeliveryTypeOK
  <2>3. client' \in [Procs -> Workers \cup {None}]
    <3>1. ASSUME NEW w \in Workers, NEW p \in Procs, Request(w, p)
          PROVE  client' \in [Procs -> Workers \cup {None}]
      BY <1>2, <3>1 DEF Request, DeliveryTypeOK
    <3>2. ASSUME NEW p \in Procs, Answered(p)
          PROVE  client' \in [Procs -> Workers \cup {None}]
      BY <1>2, <3>2 DEF Answered, DeliveryTypeOK
    <3>3. ASSUME NEW w \in Workers, CallLost(w)
          PROVE  client' \in [Procs -> Workers \cup {None}]
      BY <1>2, <3>3 DEF CallLost, DeliveryTypeOK
    <3>4. CASE MessageServiceEnds
      BY <3>4 DEF MessageServiceEnds
    <3>5. CASE UNCHANGED client
      BY <1>2, <3>5 DEF DeliveryTypeOK
    <3> QED
      BY <1>2, <3>1, <3>2, <3>3, <3>4, <3>5
         DEF DeliveryNext, deliveryVars, Bind, PresenceStep, MessageStep
  <2>4. lostCalls' \in Nat
    <3>1. lostCalls' \in {lostCalls, lostCalls + 1}
      BY <1>2 DEF DeliveryNext, deliveryVars, Request, Answered, CallLost, Bind,
                  PresenceStep, MessageStep, MessageServiceEnds
    <3> QED
      BY <1>2, <3>1 DEF DeliveryTypeOK
  <2>5. unroutable' \subseteq Msgs /\ unheard' \subseteq Msgs /\ collided' \subseteq Msgs
    BY <1>2 DEF DeliveryNext, deliveryVars, histories, Observe, DeliveryTypeOK
  <2> QED
    BY <2>1, <2>2, <2>3, <2>4, <2>5 DEF DeliveryTypeOK
<1> QED
  BY <1>1, <1>2

-----------------------------------------------------------------------------
(* What stays of a call while the other service moves.                     *)

\* No step of the message service.
LEMMA MessagesStay ==
  ASSUME UNCHANGED messageVars
  PROVE  /\ \A v \in Workers, m \in Msgs :
               /\ Sends(v, m)' <=> Sends(v, m)
               /\ Queues(v, m)' <=> Queues(v, m)
               /\ \A step : At(v, m, step)' <=> At(v, m, step)
         /\ \A m \in Msgs : Stored(m)' <=> Stored(m)
         /\ UNCHANGED <<worker, sent, answered>>
BY DEF messageVars, vars, Sends, Queues, At, Stored, Taken

\* No step of the presence service.
LEMMA PresenceStays ==
  ASSUME UNCHANGED presenceVars
  PROVE  /\ \A q \in Procs : Rests(q)
         /\ \A m \in Msgs : (Heard(m)' <=> Heard(m)) /\ (Released(m)' <=> Released(m))
         /\ UNCHANGED <<proc, outages, connected, cache, queue>>
BY DEF presenceVars, Rests, SameCall, Heard, Released

\* A call that is the same delivers, and was asked for, as before.
LEMMA SameDelivers ==
  ASSUME NEW q \in Procs, SameCall(q)
  PROVE  \A m \in Msgs : Delivers(q, m)' <=> Delivers(q, m)
BY DEF SameCall, Delivers

LEMMA SameAsks ==
  ASSUME NEW q \in Procs, SameCall(q), NEW w \in Workers, Asks(q, w),
         \A m \in Msgs, step \in {"query", "deliver"} : At(w, m, step) => At(w, m, step)'
  PROVE  Asks(q, w)'
<1>1. PICK m \in Msgs :
        \/ At(w, m, "query") /\ proc[q].op = "QueryRoute" /\ proc[q].user = To[m]
        \/ At(w, m, "deliver") /\ Delivers(q, m)
  BY DEF Asks
<1> QED
  BY <1>1, SameDelivers DEF Asks, SameCall

\* A worker sends one message, and is at one step of that.
LEMMA AtOnce ==
  ASSUME NEW w \in Workers, NEW m \in Msgs, NEW n \in Msgs, Sends(w, m)
  PROVE  /\ Sends(w, n) => m = n
         /\ \A step : At(w, n, step) => m = n /\ worker[w].step = step
BY DEF At, Sends

\* What the presence service does for nobody it does not ask for either.
LEMMA AskingProc ==
  ASSUME NEW q \in Procs, NEW w \in Workers, Asks(q, w)
  PROVE  proc[q].op \in {"QueryRoute", "Deliver"}
BY DEF Asks, Delivers

\* A call between the services begins: on an idle worker, for one Send.
LEMMA RequestEffect ==
  ASSUME DeliveryTypeOK, NEW w \in Workers, NEW p \in Procs, Request(w, p)
  PROVE  /\ ~Called(w)
         /\ UNCHANGED messageVars /\ UNCHANGED lostCalls
         /\ client'[p] = w /\ \A q \in Procs \ {p} : client'[q] = client[q]
         /\ proc[p].op = "none"
         /\ \A q \in Procs \ {p} : Rests(q)
         /\ proc'[p].step = "connect"
         /\ UNCHANGED <<cache, queue, connected, outages>>
         /\ \A m \in Msgs : (Heard(m)' <=> Heard(m)) /\ (Released(m)' <=> Released(m))
         /\ \E n \in Msgs :
              /\ proc'[p].user = To[n]
              /\ \/ At(w, n, "query") /\ proc'[p].op = "QueryRoute"
                 \/ /\ At(w, n, "deliver")
                    /\ proc'[p].op = "Deliver" /\ proc'[p].msg = n
<1>1. PICK n \in Msgs :
        \/ At(w, n, "query") /\ P!Call(p, "QueryRoute", To[n], None, None)
        \/ At(w, n, "deliver") /\ P!Call(p, "Deliver", To[n], None, n)
  BY RequestCalls DEF DeliveryTypeOK
<1>2. /\ proc[p] = P!Idle /\ proc'[p].step = "connect" /\ proc'[p].user = To[n]
      /\ \A q \in Procs \ {p} : Rests(q)
      /\ UNCHANGED <<cache, queue, connected, heard, buffered, outages>>
      /\ \/ At(w, n, "query") /\ proc'[p].op = "QueryRoute"
         \/ At(w, n, "deliver") /\ proc'[p].op = "Deliver" /\ proc'[p].msg = n
  <2>1. P!TypeOK
    BY DEF DeliveryTypeOK
  <2>2. CASE At(w, n, "query") /\ P!Call(p, "QueryRoute", To[n], None, None)
    BY <2>1, <2>2, PCallEffect
  <2>3. CASE At(w, n, "deliver") /\ P!Call(p, "Deliver", To[n], None, n)
    BY <2>1, <2>3, PCallEffect
  <2> QED
    BY <1>1, <2>2, <2>3
<1>3. /\ client'[p] = w /\ \A q \in Procs \ {p} : client'[q] = client[q]
      /\ ~Called(w) /\ UNCHANGED messageVars /\ UNCHANGED lostCalls
  BY DEF Request, DeliveryTypeOK
<1>4. proc[p].op = "none"
  BY <1>2 DEF P!Idle
<1>5. \A m \in Msgs : (Heard(m)' <=> Heard(m)) /\ (Released(m)' <=> Released(m))
  BY <1>2 DEF Heard, Released
<1> QED
  BY <1>2, <1>3, <1>4, <1>5

\* One ends: the presence worker is idle again.
LEMMA AnsweredEffect ==
  ASSUME DeliveryTypeOK, NEW p \in Procs, Answered(p)
  PROVE  /\ client' = [client EXCEPT ![p] = None] /\ UNCHANGED lostCalls
         /\ client'[p] = None /\ \A q \in Procs \ {p} : client'[q] = client[q]
         /\ proc[p].step = "answer"
         /\ proc'[p].op = "none" /\ proc'[p].step = "idle"
         /\ \A q \in Procs \ {p} : Rests(q)
         /\ UNCHANGED <<cache, queue, connected, outages>>
         /\ \A m \in Msgs : (Heard(m)' <=> Heard(m)) /\ (Released(m)' <=> Released(m))
         /\ client[p] = None => UNCHANGED messageVars
         /\ client[p] # None => /\ client[p] \in Workers
                                /\ Resume(client[p], proc[p].code = "Ok")
<1>1. P!Reply(p) /\ P!TypeOK
  BY DEF Answered, DeliveryTypeOK
<1>2. /\ proc[p].step = "answer" /\ proc'[p] = P!Idle
      /\ \A q \in Procs \ {p} : Rests(q)
      /\ UNCHANGED <<cache, queue, connected, heard, buffered, outages>>
  BY <1>1, PReplyEffect
<1>3. proc'[p].op = "none" /\ proc'[p].step = "idle"
  BY <1>2 DEF P!Idle
<1>4. \A m \in Msgs : (Heard(m)' <=> Heard(m)) /\ (Released(m)' <=> Released(m))
  BY <1>2 DEF Heard, Released
<1>5. /\ client' = [client EXCEPT ![p] = None] /\ UNCHANGED lostCalls
      /\ client'[p] = None /\ \A q \in Procs \ {p} : client'[q] = client[q]
      /\ client[p] = None => UNCHANGED messageVars
      /\ client[p] # None => /\ client[p] \in Workers
                             /\ Resume(client[p], proc[p].code = "Ok")
  BY DEF Answered, DeliveryTypeOK
<1> QED
  BY <1>2, <1>3, <1>4, <1>5

\* A gateway binds: the message service has no part in it.
LEMMA BindEffect ==
  ASSUME DeliveryTypeOK, NEW p \in Procs, Bind(p)
  PROVE  /\ UNCHANGED messageVars /\ UNCHANGED <<client, lostCalls>>
         /\ proc[p].op = "none"
         /\ proc'[p].op = "BindRoute" /\ proc'[p].step = "connect"
         /\ \A q \in Procs \ {p} : Rests(q)
         /\ UNCHANGED <<cache, queue, connected, outages>>
         /\ \A m \in Msgs : (Heard(m)' <=> Heard(m)) /\ (Released(m)' <=> Released(m))
<1>1. PICK u \in Users, g \in Gateways : P!Call(p, "BindRoute", u, g, None)
  BY DEF Bind, P!CallBindRoute
<1>2. /\ proc[p] = P!Idle
      /\ proc'[p].op = "BindRoute" /\ proc'[p].step = "connect"
      /\ \A q \in Procs \ {p} : Rests(q)
      /\ UNCHANGED <<cache, queue, connected, heard, buffered, outages>>
  BY <1>1, PCallEffect DEF DeliveryTypeOK
<1>3. proc[p].op = "none"
  BY <1>2 DEF P!Idle
<1>4. \A m \in Msgs : (Heard(m)' <=> Heard(m)) /\ (Released(m)' <=> Released(m))
  BY <1>2 DEF Heard, Released
<1> QED
  BY <1>2, <1>3, <1>4 DEF Bind

\* The send of worker v is where it was, if another has moved on.
LEMMA ResumeAt ==
  ASSUME DeliveryTypeOK, NEW w \in Workers, NEW ok \in BOOLEAN, Resume(w, ok)
  PROVE  \E n \in Msgs :
           /\ At(w, n, "query") \/ At(w, n, "deliver")
           /\ Sends(w, n)
           /\ \A v \in Workers, m \in Msgs, step \in {"query", "deliver", "store", "answer"} :
                 At(v, m, step)' <=> IF v = w THEN m = n /\ step = Resumed(w, ok)
                                              ELSE At(v, m, step)
           /\ \A v \in Workers, m \in Msgs : Sends(v, m)' <=> Sends(v, m)
           /\ \A v \in Workers, m \in Msgs : Queues(v, m)' <=> v # w /\ Queues(v, m)
           /\ Resumed(w, ok) = "answer" => worker'[w].res = "delivered"
           /\ \A v \in Workers \ {w} : worker'[v] = worker[v]
           /\ UNCHANGED <<table, sent, answered>>
           /\ \A m \in Msgs : Stored(m)' =>
                 Stored(m) \/ (m = n /\ Resumed(w, ok) = "store")
<1> DEFINE n == worker[w].msg
<1>1. /\ OthersStay(w)
      /\ worker[w].step \in {"query", "deliver"}
      /\ worker[w].op = "send" /\ worker'[w].op = "send"
      /\ n \in Msgs /\ worker'[w].msg = n
      /\ worker'[w].step = Resumed(w, ok)
      /\ worker'[w].step = "answer" => worker'[w].res = "delivered"
      /\ UNCHANGED <<table, sent, answered, given>>
      /\ \A m \in Msgs : Taken(m)' => Taken(m)
  BY ResumeEffect DEF DeliveryTypeOK
<1>2. \A v \in Workers \ {w} : worker'[v] = worker[v]
  BY <1>1 DEF OthersStay
<1>3. /\ At(w, n, "query") \/ At(w, n, "deliver")
      /\ Sends(w, n)
  BY <1>1 DEF At, Sends
<1>4. \A v \in Workers, m \in Msgs, step \in {"query", "deliver", "store", "answer"} :
         At(v, m, step)' <=> IF v = w THEN m = n /\ step = Resumed(w, ok)
                                      ELSE At(v, m, step)
  BY <1>1, <1>2 DEF At, Sends
<1>5. \A v \in Workers, m \in Msgs : Sends(v, m)' <=> Sends(v, m)
  BY <1>1, <1>2 DEF Sends
<1>6. \A v \in Workers, m \in Msgs : Queues(v, m)' <=> v # w /\ Queues(v, m)
  BY <1>1, <1>2 DEF Queues, Sends
<1>7. \A m \in Msgs : Stored(m)' => Stored(m) \/ (m = n /\ Resumed(w, ok) = "store")
  BY <1>1, <1>4 DEF Stored
<1> HIDE DEF n
<1> QED
  BY <1>1, <1>2, <1>3, <1>4, <1>5, <1>6, <1>7

-----------------------------------------------------------------------------
(* The invariants of the composition.                                      *)

\* A delivery keeps its recipient, finds a gateway before it publishes, and meets open
\* connections until Redis has been lost once.
LEMMA CallsKept ==
  ASSUME DeliveryTypeOK, DeliveryCalls, [DeliveryNext]_deliveryVars
  PROVE  DeliveryCalls'
<1> DEFINE Keeps(q) == /\ \A m \in Msgs : Delivers(q, m)' => proc'[q].user = To[m]
                       /\ proc'[q].step \in {"publish", "sent"} => proc'[q].gw # None
<1> DEFINE Links == outages' = 0 => connected' /\ cache' = "open" /\ queue' = "open"
<1>1. ASSUME NEW q \in Procs, Rests(q) PROVE Keeps(q)
  BY <1>1, SameDelivers DEF DeliveryCalls, Rests, SameCall
<1>2. ASSUME UNCHANGED <<cache, queue, connected, outages>> PROVE Links
  BY <1>2 DEF DeliveryCalls
<1>3. ASSUME NEW w \in Workers, NEW p \in Procs, Request(w, p)
      PROVE  Links /\ \A q \in Procs : Keeps(q)
  <2>1. Keeps(p)
    BY <1>3, RequestEffect DEF Delivers
  <2> QED
    BY <1>1, <1>2, <1>3, <2>1, RequestEffect
<1>4. ASSUME NEW p \in Procs, Answered(p)
      PROVE  Links /\ \A q \in Procs : Keeps(q)
  <2>1. Keeps(p)
    BY <1>4, AnsweredEffect DEF Delivers
  <2> QED
    BY <1>1, <1>2, <1>4, <2>1, AnsweredEffect
<1>5. ASSUME NEW p \in Procs, Bind(p)
      PROVE  Links /\ \A q \in Procs : Keeps(q)
  <2>1. Keeps(p)
    BY <1>5, BindEffect DEF Delivers
  <2> QED
    BY <1>1, <1>2, <1>5, <2>1, BindEffect
<1>6. ASSUME NEW p \in Procs, P!Execute(p)
      PROVE  Links /\ \A q \in Procs : Keeps(q)
  <2>1. /\ SameCall(p)
        /\ \A q \in Procs \ {p} : Rests(q)
        /\ MovesOn(p) \/ AnswersOk(p) \/ AnswersNot(p)
        /\ UNCHANGED <<queue, outages>>
        /\ connected => connected'
        /\ cache = "open" => cache' = "open"
    BY <1>6, ExecuteEffect DEF DeliveryTypeOK
  <2>2. Keeps(p)
    BY <2>1, SameDelivers DEF DeliveryCalls, SameCall, MovesOn, AnswersOk, AnswersNot
  <2>3. Links
    BY <2>1 DEF DeliveryCalls
  <2> QED
    BY <1>1, <2>1, <2>2, <2>3
<1>7. ASSUME P!Environment
      PROVE  Links /\ \A q \in Procs : Keeps(q)
  <2>1. /\ \A q \in Procs : Rests(q) \/ Struck(q)
        /\ outages' = 0 => outages = 0 /\ UNCHANGED <<connected, cache, queue>>
    BY <1>7, EnvironmentEffect DEF DeliveryTypeOK
  <2>2. \A q \in Procs : Struck(q) => Keeps(q)
    BY SameDelivers DEF DeliveryCalls, Struck, SameCall
  <2> QED
    BY <1>1, <2>1, <2>2 DEF DeliveryCalls
<1>8. ASSUME UNCHANGED presenceVars
      PROVE  Links /\ \A q \in Procs : Keeps(q)
  BY <1>1, <1>2, <1>8, PresenceStays
<1>9. Links /\ \A q \in Procs : Keeps(q)
  BY <1>3, <1>4, <1>5, <1>6, <1>7, <1>8
     DEF DeliveryNext, deliveryVars, CallLost, PresenceStep, MessageStep, MessageServiceEnds
<1> QED
  BY <1>9 DEF DeliveryCalls

\* Observe runs with every step.
LEMMA ObservedKept ==
  ASSUME Observed, [DeliveryNext]_deliveryVars
  PROVE  Observed'
<1>1. CASE Observe
  BY <1>1 DEF Observe, Observed
<1>2. CASE UNCHANGED deliveryVars
  BY <1>2 DEF deliveryVars, messageVars, vars, presenceVars, histories, Observed,
              Sending, Delivers
<1> QED
  BY <1>1, <1>2 DEF DeliveryNext

\* What history has recorded, stays.
LEMMA HistoriesGrow ==
  ASSUME [DeliveryNext]_deliveryVars
  PROVE  unroutable \subseteq unroutable' /\ unheard \subseteq unheard'
         /\ collided \subseteq collided'
BY DEF DeliveryNext, deliveryVars, histories, Observe

\* A delivery that an outage meets is in the histories.
LEMMA StruckCollides ==
  ASSUME [DeliveryNext]_deliveryVars, NEW q \in Procs, NEW m \in Msgs,
         Delivers(q, m), proc[q].step = "sent", redis # redis'
  PROVE  m \in collided'
BY DEF DeliveryNext, deliveryVars, presenceVars, Observe

\* Calls between the services begin, are answered and are lost one by one.
LEMMA ServedKept ==
  ASSUME DeliveryTypeOK, OneSend, ServedInv, [DeliveryNext]_deliveryVars
  PROVE  ServedInv'
<1> client \in [Procs -> Workers \cup {None}] /\ None \notin Workers
  BY DeliveryAssumption DEF DeliveryTypeOK
<1>1. ASSUME NEW w \in Workers, NEW p \in Procs, Request(w, p) PROVE ServedInv'
  <2>1. PICK n \in Msgs :
          /\ proc'[p].user = To[n]
          /\ \/ At(w, n, "query") /\ proc'[p].op = "QueryRoute"
             \/ At(w, n, "deliver") /\ proc'[p].op = "Deliver" /\ proc'[p].msg = n
    BY <1>1, RequestEffect
  <2>2. /\ ~Called(w)
        /\ client'[p] = w /\ \A q \in Procs \ {p} : client'[q] = client[q]
        /\ proc[p].op = "none"
        /\ \A q \in Procs \ {p} : Rests(q)
        /\ \A m \in Msgs : Released(m)' <=> Released(m)
        /\ UNCHANGED messageVars
    BY <1>1, RequestEffect
  <2>3. /\ \A v \in Workers, m \in Msgs : \A step : At(v, m, step)' <=> At(v, m, step)
        /\ UNCHANGED <<worker, sent, answered>>
    BY <2>2, MessagesStay
  <2>4. \A q \in Procs \ {p}, m \in Msgs : Delivers(q, m)' <=> Delivers(q, m)
    BY <2>2, SameDelivers DEF Rests
  <2>5. \A m \in Msgs : Delivers(p, m)' => m = n /\ At(w, n, "deliver")
    BY <2>1 DEF Delivers
  <2>6. client[p] = None /\ \A m \in Msgs : ~Delivers(p, m)
    BY <2>2, AskingProc DEF ServedInv, Delivers
  <2>7. \A v \in Workers, m \in Msgs, step \in {"query", "deliver"} :
           At(w, n, "deliver") /\ At(v, m, step) /\ m = n => v = w /\ step = "deliver"
    BY DEF OneSend, At
  <2>8. \A v \in Workers : ~Called(v)' => ~Called(v)
    BY <2>2, <2>6 DEF Called
  <2>9. ASSUME NEW q \in Procs, NEW v \in Workers, client'[q] = v PROVE Asks(q, v)'
    <3>1. CASE q = p
      <4>1. v = w
        BY <2>2, <2>9, <3>1
      <4>2. Asks(p, w)'
        BY <2>1, <2>3 DEF Asks, Delivers
      <4> QED
        BY <3>1, <4>1, <4>2
    <3>2. CASE q # p
      <4>1. Asks(q, v)
        BY <2>2, <2>9, <3>2 DEF ServedInv
      <4> QED
        BY <2>2, <2>3, <3>2, <4>1, SameAsks DEF Rests
    <3> QED
      BY <3>1, <3>2
  <2>10. \A q, r \in Procs : client'[q] # None /\ client'[q] = client'[r] => q = r
    BY <2>2 DEF ServedInv, Called
  <2>11. ASSUME NEW q \in Procs, NEW v \in Workers, NEW m \in Msgs,
                Delivers(q, m)', At(v, m, "deliver")'
         PROVE  client'[q] = v
    BY <2>2, <2>3, <2>4, <2>5, <2>7, <2>11 DEF ServedInv
  <2>12. ASSUME NEW q \in Procs, NEW r \in Procs, NEW m \in Msgs,
                Delivers(q, m)', Delivers(r, m)'
         PROVE  q = r
    <3>1. \A s \in Procs : At(w, n, "deliver") => ~Delivers(s, n)
      BY <2>2 DEF ServedInv, Called
    <3> QED
      BY <2>4, <2>5, <2>12, <3>1 DEF ServedInv
  <2>13. ASSUME NEW v \in Workers, NEW m \in Msgs, At(v, m, "query")'
         PROVE  ~Released(m)' /\ \A q \in Procs : ~Delivers(q, m)'
    BY <2>2, <2>3, <2>4, <2>5, <2>7, <2>13 DEF ServedInv
  <2>14. ASSUME NEW v \in Workers, NEW m \in Msgs, At(v, m, "deliver")', ~Called(v)'
         PROVE  ~Released(m)'
    BY <2>2, <2>3, <2>8, <2>14 DEF ServedInv
  <2>15. ASSUME NEW m \in Msgs, Released(m)' \/ \E q \in Procs : Delivers(q, m)'
         PROVE  m \in sent'
    <3>1. At(w, n, "deliver") => n \in sent
      BY DEF OneSend, At
    <3> QED
      BY <2>2, <2>3, <2>4, <2>5, <2>15, <3>1 DEF ServedInv
  <2> QED
    BY <2>9, <2>10, <2>11, <2>12, <2>13, <2>14, <2>15 DEF ServedInv
<1>2. ASSUME NEW p \in Procs, Answered(p), client[p] = None PROVE ServedInv'
  <2>1. /\ client' = client
        /\ proc'[p].op = "none"
        /\ \A q \in Procs \ {p} : Rests(q)
        /\ \A m \in Msgs : Released(m)' <=> Released(m)
        /\ UNCHANGED messageVars
    BY <1>2, AnsweredEffect
  <2>2. /\ \A v \in Workers, m \in Msgs : \A step : At(v, m, step)' <=> At(v, m, step)
        /\ UNCHANGED <<worker, sent, answered>>
    BY <2>1, MessagesStay
  <2>3. \A q \in Procs, m \in Msgs : Delivers(q, m)' <=> q # p /\ Delivers(q, m)
    <3>1. \A m \in Msgs : ~Delivers(p, m)'
      BY <2>1 DEF Delivers
    <3> QED
      BY <2>1, <3>1, SameDelivers DEF Rests
  <2>4. \A v \in Workers : Called(v)' <=> Called(v)
    BY <2>1 DEF Called
  <2>5. ASSUME NEW q \in Procs, NEW v \in Workers, client'[q] = v PROVE Asks(q, v)'
    <3>1. q # p
      BY <1>2, <2>1, <2>5
    <3>2. Asks(q, v)
      BY <2>1, <2>5 DEF ServedInv
    <3> QED
      BY <2>1, <2>2, <3>1, <3>2, SameAsks DEF Rests
  <2> QED
    BY <2>1, <2>2, <2>3, <2>4, <2>5 DEF ServedInv
<1>3. ASSUME NEW p \in Procs, Answered(p), client[p] # None PROVE ServedInv'
  <2>1. PICK w \in Workers : w = client[p]
    BY <1>3
  <2>2. PICK ok \in BOOLEAN : ok = (proc[p].code = "Ok")
    OBVIOUS
  <2>3. /\ client'[p] = None /\ \A q \in Procs \ {p} : client'[q] = client[q]
        /\ proc'[p].op = "none"
        /\ \A q \in Procs \ {p} : Rests(q)
        /\ \A m \in Msgs : Released(m)' <=> Released(m)
        /\ Resume(w, ok)
    BY <1>3, <2>1, <2>2, AnsweredEffect
  <2>4. PICK n \in Msgs :
           /\ At(w, n, "query") \/ At(w, n, "deliver")
           /\ \A v \in Workers, m \in Msgs, step \in {"query", "deliver", "store", "answer"} :
                 At(v, m, step)' <=> IF v = w THEN m = n /\ step = Resumed(w, ok)
                                              ELSE At(v, m, step)
           /\ UNCHANGED <<table, sent, answered>>
    BY <2>3, ResumeAt
  <2>5. \A q \in Procs \ {p} : client'[q] # w
    BY <1>3, <2>1, <2>3 DEF ServedInv
  <2>6. \A q \in Procs, m \in Msgs : Delivers(q, m)' <=> q # p /\ Delivers(q, m)
    <3>1. \A m \in Msgs : ~Delivers(p, m)'
      BY <2>3 DEF Delivers
    <3> QED
      BY <2>3, <3>1, SameDelivers DEF Rests
  <2>7. \A v \in Workers \ {w} : Called(v)' <=> Called(v)
    BY <2>1, <2>3 DEF Called
  <2>8. Resumed(w, ok) # "query" /\ (Resumed(w, ok) = "deliver" => At(w, n, "query"))
    BY <2>4 DEF Resumed, At
  <2>9. ASSUME NEW q \in Procs, NEW v \in Workers, client'[q] = v PROVE Asks(q, v)'
    <3>1. q # p /\ v # w
      BY <2>3, <2>5, <2>9
    <3>2. Asks(q, v)
      BY <2>3, <2>9, <3>1 DEF ServedInv
    <3>3. \A m \in Msgs, step \in {"query", "deliver"} : At(v, m, step) => At(v, m, step)'
      BY <2>4, <3>1
    <3> QED
      BY <2>3, <3>1, <3>2, <3>3, SameAsks DEF Rests
  <2>10. \A q, r \in Procs : client'[q] # None /\ client'[q] = client'[r] => q = r
    BY <2>3 DEF ServedInv
  <2>11. ASSUME NEW q \in Procs, NEW v \in Workers, NEW m \in Msgs,
                Delivers(q, m)', At(v, m, "deliver")'
         PROVE  client'[q] = v
    BY <2>3, <2>4, <2>6, <2>8, <2>11 DEF ServedInv
  <2>12. ASSUME NEW v \in Workers, NEW m \in Msgs, At(v, m, "query")'
         PROVE  ~Released(m)' /\ \A q \in Procs : ~Delivers(q, m)'
    BY <2>3, <2>4, <2>6, <2>8, <2>12 DEF ServedInv
  <2>13. ASSUME NEW v \in Workers, NEW m \in Msgs, At(v, m, "deliver")', ~Called(v)'
         PROVE  ~Released(m)'
    BY <2>3, <2>4, <2>7, <2>8, <2>13 DEF ServedInv
  <2>14. ASSUME NEW m \in Msgs, Released(m)' \/ \E q \in Procs : Delivers(q, m)'
         PROVE  m \in sent'
    BY <2>3, <2>4, <2>6, <2>14 DEF ServedInv
  <2>15. \A q, r \in Procs, m \in Msgs : Delivers(q, m)' /\ Delivers(r, m)' => q = r
    BY <2>6 DEF ServedInv
  <2> QED
    BY <2>9, <2>10, <2>11, <2>12, <2>13, <2>14, <2>15 DEF ServedInv
<1>4. ASSUME NEW w \in Workers, CallLost(w) PROVE ServedInv'
  <2>1. /\ client' = [q \in Procs |-> IF client[q] = w THEN None ELSE client[q]]
        /\ Resume(w, FALSE)
        /\ UNCHANGED presenceVars
    BY <1>4 DEF CallLost
  <2>2. PICK n \in Msgs :
           /\ \A v \in Workers, m \in Msgs, step \in {"query", "deliver", "store", "answer"} :
                 At(v, m, step)' <=> IF v = w THEN m = n /\ step = Resumed(w, FALSE)
                                              ELSE At(v, m, step)
           /\ UNCHANGED <<table, sent, answered>>
    BY <2>1, ResumeAt
  <2>3. Resumed(w, FALSE) = "store"
    BY DEF Resumed
  <2>4. /\ \A q \in Procs : Rests(q)
        /\ \A m \in Msgs : Released(m)' <=> Released(m)
    BY <2>1, PresenceStays
  <2>5. \A q \in Procs, m \in Msgs : Delivers(q, m)' <=> Delivers(q, m)
    BY <2>4, SameDelivers DEF Rests
  <2>6. \A v \in Workers \ {w} : Called(v)' <=> Called(v)
    BY <2>1 DEF Called
  <2>7. ASSUME NEW q \in Procs, NEW v \in Workers, client'[q] = v PROVE Asks(q, v)'
    <3>1. v # w /\ client[q] = v
      BY <2>1, <2>7
    <3>2. Asks(q, v)
      BY <3>1 DEF ServedInv
    <3>3. \A m \in Msgs, step \in {"query", "deliver"} : At(v, m, step) => At(v, m, step)'
      BY <2>2, <3>1
    <3> QED
      BY <2>4, <3>2, <3>3, SameAsks DEF Rests
  <2>8. \A q, r \in Procs : client'[q] # None /\ client'[q] = client'[r] => q = r
    BY <2>1 DEF ServedInv
  <2>9. \A q \in Procs, v \in Workers, m \in Msgs :
           Delivers(q, m)' /\ At(v, m, "deliver")' => client'[q] = v
    BY <2>1, <2>2, <2>3, <2>5 DEF ServedInv
  <2>10. \A v \in Workers, m \in Msgs : At(v, m, "query")' =>
            ~Released(m)' /\ \A q \in Procs : ~Delivers(q, m)'
    BY <2>2, <2>3, <2>4, <2>5 DEF ServedInv
  <2>11. \A v \in Workers, m \in Msgs : At(v, m, "deliver")' /\ ~Called(v)' => ~Released(m)'
    BY <2>2, <2>3, <2>4, <2>6 DEF ServedInv
  <2> QED
    BY <2>2, <2>4, <2>5, <2>7, <2>8, <2>9, <2>10, <2>11 DEF ServedInv
<1>5. ASSUME UNCHANGED messageVars, UNCHANGED client,
             NEW p \in Procs, \A q \in Procs \ {p} : Rests(q),
             \/ SameCall(p)
             \/ proc[p].op = "none" /\ proc'[p].op = "BindRoute",
             \A m \in Msgs : Released(m)' => Released(m) \/ Delivers(p, m)
      PROVE  ServedInv'
  <2>1. /\ \A v \in Workers, m \in Msgs : \A step : At(v, m, step)' <=> At(v, m, step)
        /\ UNCHANGED <<worker, sent, answered>>
    BY <1>5, MessagesStay
  <2>2. \A q \in Procs, m \in Msgs : Delivers(q, m)' <=> Delivers(q, m)
    BY <1>5, SameDelivers DEF Rests, Delivers
  <2>3. \A v \in Workers : Called(v)' <=> Called(v)
    BY <1>5 DEF Called
  <2>4. ASSUME NEW q \in Procs, NEW v \in Workers, client'[q] = v PROVE Asks(q, v)'
    <3>1. Asks(q, v)
      BY <1>5, <2>4 DEF ServedInv
    <3>2. SameCall(q)
      BY <1>5, <3>1, AskingProc DEF Rests
    <3> QED
      BY <2>1, <3>1, <3>2, SameAsks
  <2>5. \A v \in Workers, m \in Msgs : At(v, m, "deliver")' /\ ~Called(v)' => ~Released(m)'
    <3>1. \A v \in Workers, m \in Msgs : At(v, m, "deliver") /\ Delivers(p, m) => Called(v)
      BY DEF ServedInv, Called
    <3> QED
      BY <1>5, <2>1, <2>3, <3>1 DEF ServedInv
  <2>6. \A v \in Workers, m \in Msgs : At(v, m, "query")' =>
           ~Released(m)' /\ \A q \in Procs : ~Delivers(q, m)'
    BY <1>5, <2>1, <2>2 DEF ServedInv
  <2>7. \A m \in Msgs : Released(m)' \/ (\E q \in Procs : Delivers(q, m)') => m \in sent'
    BY <1>5, <2>1, <2>2 DEF ServedInv
  <2> QED
    BY <1>5, <2>1, <2>2, <2>4, <2>5, <2>6, <2>7 DEF ServedInv
<1>6. ASSUME NEW p \in Procs, Bind(p) PROVE ServedInv'
  BY <1>5, <1>6, BindEffect
<1>7. ASSUME NEW p \in Procs, P!Execute(p), UNCHANGED messageVars, UNCHANGED client
      PROVE  ServedInv'
  BY <1>5, <1>7, ExecuteEffect, ExecuteHeard DEF DeliveryTypeOK
<1>8. ASSUME P!Environment, UNCHANGED messageVars, UNCHANGED client
      PROVE  ServedInv'
  <2>1. /\ \A q \in Procs : SameCall(q)
        /\ \A m \in Msgs : Released(m)' => Released(m) \/ \E q \in Procs : Delivers(q, m)
    BY <1>8, EnvironmentEffect DEF DeliveryTypeOK, Rests, Struck
  <2>2. /\ \A v \in Workers, m \in Msgs : \A step : At(v, m, step)' <=> At(v, m, step)
        /\ UNCHANGED <<worker, sent, answered>>
    BY <1>8, MessagesStay
  <2>3. \A q \in Procs, m \in Msgs : Delivers(q, m)' <=> Delivers(q, m)
    BY <2>1, SameDelivers
  <2>4. \A v \in Workers : Called(v)' <=> Called(v)
    BY <1>8 DEF Called
  <2>5. ASSUME NEW q \in Procs, NEW v \in Workers, client'[q] = v PROVE Asks(q, v)'
    <3>1. Asks(q, v)
      BY <1>8, <2>5 DEF ServedInv
    <3> QED
      BY <2>1, <2>2, <3>1, SameAsks
  <2>6. \A v \in Workers, m \in Msgs : At(v, m, "deliver")' /\ ~Called(v)' => ~Released(m)'
    <3>1. \A v \in Workers, m \in Msgs, q \in Procs :
             At(v, m, "deliver") /\ Delivers(q, m) => Called(v)
      BY DEF ServedInv, Called
    <3> QED
      BY <2>1, <2>2, <2>4, <3>1 DEF ServedInv
  <2> QED
    BY <1>8, <2>1, <2>2, <2>3, <2>5, <2>6 DEF ServedInv
<1>9. ASSUME NEW w \in Workers, Receive(w) \/ Store(w) \/ Pull(w) \/ Reply(w),
             UNCHANGED presenceVars, UNCHANGED client
      PROVE  ServedInv'
  <2>1. /\ \A v \in Workers, m \in Msgs :
               /\ At(v, m, "query")' => At(v, m, "query") \/ m \notin sent
               /\ At(v, m, "query") => At(v, m, "query")'
               /\ At(v, m, "deliver")' <=> At(v, m, "deliver")
        /\ sent \subseteq sent'
    BY <1>9, MessageStepEffect DEF DeliveryTypeOK
  <2>2. /\ \A q \in Procs : Rests(q)
        /\ \A m \in Msgs : Released(m)' <=> Released(m)
    BY <1>9, PresenceStays
  <2>3. \A q \in Procs, m \in Msgs : Delivers(q, m)' <=> Delivers(q, m)
    BY <2>2, SameDelivers DEF Rests
  <2>4. \A v \in Workers : Called(v)' <=> Called(v)
    BY <1>9 DEF Called
  <2>5. ASSUME NEW q \in Procs, NEW v \in Workers, client'[q] = v PROVE Asks(q, v)'
    <3>1. Asks(q, v)
      BY <1>9, <2>5 DEF ServedInv
    <3> QED
      BY <2>2, <2>1, <3>1, SameAsks DEF Rests
  <2> QED
    BY <1>9, <2>1, <2>2, <2>3, <2>4, <2>5 DEF ServedInv
<1>10. CASE MessageServiceEnds
  <2>1. /\ client' = [q \in Procs |-> None]
        /\ Crash /\ UNCHANGED presenceVars
    BY <1>10 DEF MessageServiceEnds
  <2>2. /\ \A v \in Workers, m \in Msgs : \A step : ~At(v, m, step)'
        /\ sent' = sent
    BY <2>1, CrashEffect DEF At
  <2>3. /\ \A q \in Procs : Rests(q)
        /\ \A m \in Msgs : Released(m)' <=> Released(m)
    BY <2>1, PresenceStays
  <2>4. \A q \in Procs, m \in Msgs : Delivers(q, m)' <=> Delivers(q, m)
    BY <2>3, SameDelivers DEF Rests
  <2> QED
    BY <2>1, <2>2, <2>3, <2>4 DEF ServedInv
<1>11. CASE UNCHANGED deliveryVars
  <2>1. UNCHANGED messageVars /\ UNCHANGED presenceVars /\ UNCHANGED client
    BY <1>11 DEF deliveryVars
  <2> QED
    BY <2>1 DEF messageVars, vars, presenceVars, ServedInv, Asks, Delivers, Called,
                At, Sends, Heard, Released
<1> QED
  BY <1>1, <1>2, <1>3, <1>4, <1>6, <1>7, <1>8, <1>9, <1>10, <1>11
     DEF DeliveryNext, PresenceStep, MessageStep

\* What a delivery that answers "Ok" says: a gateway has heard the message, or the
\* histories know why not.
LEMMA OkHasReason ==
  ASSUME DeliveryTypeOK, P!RouteInv, DeliveryCalls, Observed,
         NEW p \in Procs, P!Execute(p), AnswersOk(p), NEW m \in Msgs, Delivers(p, m)
  PROVE  Heard(m)' \/ m \in unheard \cup collided
<1>1. /\ proc[p].step = "sent"
      /\ \/ mixed
         \/ proc[p].gw \notin subscribed
         \/ <<m, proc[p].gw>> \in heard'
  BY DEF AnswersOk, Delivers
<1>2. proc[p] \in P!Delivering
  BY <1>1, PDeliveringProc DEF DeliveryTypeOK
<1>3. proc[p].gw # None
  BY <1>1 DEF DeliveryCalls
<1>4. proc[p].gw \in Gateways
  BY <1>2, <1>3 DEF P!Delivering
<1>5. CASE mixed
  BY <1>1, <1>5 DEF Observed
<1>6. CASE proc[p].gw \notin subscribed
  <2>1. proc[p].gw \in routesSeen[p]
    BY <1>1 DEF P!RouteInv, P!PublishedToRoute
  <2> QED
    BY <1>3, <1>6, <2>1 DEF Observed
<1>7. CASE <<m, proc[p].gw>> \in heard'
  BY <1>4, <1>7 DEF Heard
<1> QED
  BY <1>1, <1>5, <1>6, <1>7

\* An "Ok" is one from a delivery whose message was heard, up to the answer of Send.
LEMMA OkIsHeardKept ==
  ASSUME DeliveryTypeOK, P!RouteInv, DeliveryCalls, Observed, ServedInv, OkIsHeard,
         [DeliveryNext]_deliveryVars
  PROVE  OkIsHeard'
<1> DEFINE Fine(m) == Heard(m) \/ m \in unheard \cup collided
<1> DEFINE Proc(q) == \A m \in Msgs :
       Delivers(q, m)' /\ proc'[q].step = "answer" /\ proc'[q].code = "Ok" => Fine(m)'
<1> DEFINE Send == /\ \A v \in Workers, m \in Msgs :
                         At(v, m, "answer")' /\ worker'[v].res = "delivered" => Fine(m)'
                   /\ \A m \in Msgs : answered'[m] = "delivered" => Fine(m)'
<1>1. ASSUME NEW m \in Msgs, Fine(m), Heard(m) => Heard(m)' PROVE Fine(m)'
  BY <1>1, HistoriesGrow
<1>2. ASSUME \A m \in Msgs : Heard(m) => Heard(m)', NEW q \in Procs, Rests(q)
      PROVE  Proc(q)
  BY <1>1, <1>2, SameDelivers DEF OkIsHeard, Rests
<1>3. ASSUME \A m \in Msgs : Heard(m) => Heard(m)', UNCHANGED messageVars PROVE Send
  <2>1. /\ \A v \in Workers, m \in Msgs : At(v, m, "answer")' <=> At(v, m, "answer")
        /\ UNCHANGED <<worker, sent, answered>>
    BY <1>3, MessagesStay
  <2> QED
    BY <1>1, <1>3, <2>1 DEF OkIsHeard, DeliveredIsHeard
<1>4. ASSUME NEW w \in Workers, NEW ok \in BOOLEAN, Resume(w, ok),
             \A m \in Msgs : Heard(m) => Heard(m)',
             \A m \in Msgs : At(w, m, "deliver") /\ ok => Fine(m)
      PROVE  Send
  <2>1. PICK n \in Msgs :
           /\ At(w, n, "query") \/ At(w, n, "deliver")
           /\ \A v \in Workers, m \in Msgs, step \in {"query", "deliver", "store", "answer"} :
                 At(v, m, step)' <=> IF v = w THEN m = n /\ step = Resumed(w, ok)
                                              ELSE At(v, m, step)
           /\ \A v \in Workers \ {w} : worker'[v] = worker[v]
           /\ UNCHANGED <<table, sent, answered>>
    BY <1>4, ResumeAt
  <2>2. Resumed(w, ok) = "answer" => ok /\ At(w, n, "deliver")
    BY <2>1 DEF Resumed, At
  <2>3. ASSUME NEW v \in Workers, NEW m \in Msgs,
               At(v, m, "answer")', worker'[v].res = "delivered"
        PROVE  Fine(m)'
    <3>1. CASE v = w
      BY <1>1, <1>4, <2>1, <2>2, <2>3, <3>1
    <3>2. CASE v # w
      BY <1>1, <1>4, <2>1, <2>3, <3>2 DEF OkIsHeard
    <3> QED
      BY <3>1, <3>2
  <2> QED
    BY <1>1, <1>4, <2>1, <2>3 DEF OkIsHeard, DeliveredIsHeard
<1>5. ASSUME NEW w \in Workers, NEW p \in Procs, Request(w, p)
      PROVE  Send /\ \A q \in Procs : Proc(q)
  BY <1>2, <1>3, <1>5, RequestEffect
<1>6. ASSUME NEW p \in Procs, Answered(p)
      PROVE  Send /\ \A q \in Procs : Proc(q)
  <2>1. /\ proc[p].step = "answer" /\ proc'[p].step = "idle"
        /\ \A q \in Procs \ {p} : Rests(q)
        /\ \A m \in Msgs : Heard(m)' <=> Heard(m)
        /\ client[p] = None => UNCHANGED messageVars
        /\ client[p] # None => /\ client[p] \in Workers
                               /\ Resume(client[p], proc[p].code = "Ok")
    BY <1>6, AnsweredEffect
  <2>2. CASE client[p] # None
    <3>1. PICK w \in Workers : w = client[p]
      BY <2>1, <2>2
    <3>2. PICK ok \in BOOLEAN : ok = (proc[p].code = "Ok")
      OBVIOUS
    <3>3. ASSUME NEW m \in Msgs, At(w, m, "deliver"), ok PROVE Fine(m)
      <4>1. PICK n \in Msgs :
              \/ At(w, n, "query")
              \/ At(w, n, "deliver") /\ Delivers(p, n)
        BY <3>1 DEF ServedInv, Asks
      <4>2. Delivers(p, m)
        BY <3>3, <4>1 DEF At, Sends
      <4> QED
        BY <2>1, <3>2, <3>3, <4>2 DEF OkIsHeard
    <3> QED
      BY <1>2, <1>4, <2>1, <2>2, <3>1, <3>2, <3>3
  <2> QED
    BY <1>2, <1>3, <2>1, <2>2
<1>7. ASSUME NEW w \in Workers, CallLost(w)
      PROVE  Send /\ \A q \in Procs : Proc(q)
  <2>1. UNCHANGED presenceVars /\ Resume(w, FALSE)
    BY <1>7 DEF CallLost
  <2>2. /\ \A q \in Procs : Rests(q)
        /\ \A m \in Msgs : Heard(m)' <=> Heard(m)
    BY <2>1, PresenceStays
  <2> QED
    BY <1>2, <1>4, <2>1, <2>2
<1>8. ASSUME NEW p \in Procs, Bind(p)
      PROVE  Send /\ \A q \in Procs : Proc(q)
  BY <1>2, <1>3, <1>8, BindEffect
<1>9. ASSUME NEW p \in Procs, P!Execute(p), UNCHANGED messageVars
      PROVE  Send /\ \A q \in Procs : Proc(q)
  <2>1. \A m \in Msgs : Heard(m) => Heard(m)'
    BY <1>9, ExecuteHeard DEF DeliveryTypeOK
  <2>2. /\ SameCall(p)
        /\ \A q \in Procs \ {p} : Rests(q)
        /\ MovesOn(p) \/ AnswersOk(p) \/ AnswersNot(p)
    BY <1>9, ExecuteEffect DEF DeliveryTypeOK
  <2>3. Proc(p)
    <3>1. CASE AnswersOk(p)
      <4>1. \A m \in Msgs : Delivers(p, m) => Heard(m)' \/ m \in unheard \cup collided
        BY <1>9, <3>1, OkHasReason
      <4> QED
        BY <2>2, <4>1, SameDelivers, HistoriesGrow
    <3>2. CASE MovesOn(p) \/ AnswersNot(p)
      BY <3>2 DEF MovesOn, AnswersNot
    <3> QED
      BY <2>2, <3>1, <3>2
  <2> QED
    BY <1>2, <1>3, <1>9, <2>1, <2>2, <2>3
<1>10. ASSUME P!Environment, UNCHANGED messageVars
       PROVE  Send /\ \A q \in Procs : Proc(q)
  <2>1. /\ \A m \in Msgs : Heard(m) => Heard(m)'
        /\ \A q \in Procs : Rests(q) \/ Struck(q)
    BY <1>10, EnvironmentEffect DEF DeliveryTypeOK
  <2>2. \A q \in Procs : Struck(q) => Proc(q)
    BY SameDelivers, StruckCollides DEF Struck
  <2> QED
    BY <1>2, <1>3, <1>10, <2>1, <2>2
<1>11. ASSUME NEW w \in Workers, Receive(w) \/ Store(w) \/ Pull(w) \/ Reply(w),
              UNCHANGED presenceVars
       PROVE  Send /\ \A q \in Procs : Proc(q)
  <2>1. /\ \A q \in Procs : Rests(q)
        /\ \A m \in Msgs : Heard(m)' <=> Heard(m)
    BY <1>11, PresenceStays
  <2>2. /\ \A v \in Workers, m \in Msgs :
              At(v, m, "answer")' =>
                 \/ At(v, m, "answer") /\ worker'[v].res = worker[v].res
                 \/ At(v, m, "store") /\ worker'[v].res = "queued"
        /\ \A m \in Msgs : \/ answered'[m] = answered[m]
                           \/ \E v \in Workers : At(v, m, "answer")
                                                 /\ answered'[m] = worker[v].res
    BY <1>11, MessageStepEffect DEF DeliveryTypeOK
  <2>3. Send
    BY <1>1, <2>1, <2>2 DEF OkIsHeard, DeliveredIsHeard
  <2> QED
    BY <1>2, <2>1, <2>3
<1>12. ASSUME MessageServiceEnds
       PROVE  Send /\ \A q \in Procs : Proc(q)
  <2>1. Crash /\ UNCHANGED presenceVars
    BY <1>12 DEF MessageServiceEnds
  <2>2. /\ \A q \in Procs : Rests(q)
        /\ \A m \in Msgs : Heard(m)' <=> Heard(m)
    BY <2>1, PresenceStays
  <2>3. answered' = answered /\ \A v \in Workers, m \in Msgs : ~At(v, m, "answer")'
    BY <2>1, CrashEffect DEF At
  <2> QED
    BY <1>1, <1>2, <2>2, <2>3 DEF OkIsHeard, DeliveredIsHeard
<1>13. ASSUME UNCHANGED deliveryVars
       PROVE  Send /\ \A q \in Procs : Proc(q)
  <2>1. UNCHANGED messageVars /\ UNCHANGED presenceVars
    BY <1>13 DEF deliveryVars
  <2>2. /\ \A q \in Procs : Rests(q)
        /\ \A m \in Msgs : Heard(m)' <=> Heard(m)
    BY <2>1, PresenceStays
  <2> QED
    BY <1>2, <1>3, <2>1, <2>2
<1>14. Send /\ \A q \in Procs : Proc(q)
  BY <1>5, <1>6, <1>7, <1>8, <1>9, <1>10, <1>11, <1>12, <1>13
     DEF DeliveryNext, PresenceStep, MessageStep
<1> QED
  BY <1>14 DEF OkIsHeard, DeliveredIsHeard

\* What is heard was answered "Ok", so that Send does not store it.
LEMMA HeardIsOkKept ==
  ASSUME DeliveryTypeOK, OneSend, StoredIsQueued, Observed, ServedInv, HeardIsOk,
         [DeliveryNext]_deliveryVars
  PROVE  HeardIsOk'
<1> DEFINE Proc(q) == \A m \in Msgs \ collided' :
       Delivers(q, m)' /\ Released(m)' => proc'[q].step = "answer" /\ proc'[q].code = "Ok"
<1> DEFINE Away == \A m \in Msgs \ collided' :
       lostCalls' = 0 /\ Stored(m)' => ~Released(m)' /\ \A q \in Procs : ~Delivers(q, m)'
<1>1. Msgs \ collided' \subseteq Msgs \ collided
  BY HistoriesGrow
<1>2. ASSUME \A m \in Msgs : Released(m)' => Released(m), NEW q \in Procs, Rests(q)
      PROVE  Proc(q)
  BY <1>1, <1>2, SameDelivers DEF HeardIsOk, Rests
<1>3. ASSUME \A m \in Msgs : Released(m)' => Released(m),
             \A q \in Procs, m \in Msgs : Delivers(q, m)' => Delivers(q, m),
             \A m \in Msgs : Stored(m)' => Stored(m),
             lostCalls' = lostCalls
      PROVE  Away
  BY <1>1, <1>3 DEF HeardIsOk
<1>4. ASSUME NEW w \in Workers, NEW p \in Procs, Request(w, p)
      PROVE  Away /\ \A q \in Procs : Proc(q)
  <2>1. PICK n \in Msgs :
          \/ At(w, n, "query") /\ proc'[p].op = "QueryRoute"
          \/ At(w, n, "deliver") /\ proc'[p].op = "Deliver" /\ proc'[p].msg = n
    BY <1>4, RequestEffect
  <2>2. /\ ~Called(w)
        /\ \A q \in Procs \ {p} : Rests(q)
        /\ \A m \in Msgs : Released(m)' <=> Released(m)
        /\ UNCHANGED messageVars /\ UNCHANGED lostCalls
    BY <1>4, RequestEffect
  <2>3. \A m \in Msgs : Stored(m)' <=> Stored(m)
    BY <2>2, MessagesStay
  <2>4. \A m \in Msgs : Delivers(p, m)' => m = n /\ At(w, n, "deliver")
    BY <2>1 DEF Delivers
  <2>5. At(w, n, "deliver") => ~Released(n)
    BY <2>2 DEF ServedInv
  <2>6. At(w, n, "deliver") => ~Stored(n)
    <3>1. ASSUME At(w, n, "deliver"), NEW v \in Workers, At(v, n, "store") PROVE FALSE
      BY <3>1 DEF OneSend, At
    <3>2. ASSUME At(w, n, "deliver") PROVE ~(n \in table \/ Taken(n))
      BY <3>2 DEF StoredIsQueued, Queues, At
    <3> QED
      BY <3>1, <3>2 DEF Stored
  <2>7. \A q \in Procs \ {p}, m \in Msgs : Delivers(q, m)' <=> Delivers(q, m)
    BY <2>2, SameDelivers DEF Rests
  <2>8. Away
    BY <1>1, <2>2, <2>3, <2>4, <2>6, <2>7 DEF HeardIsOk
  <2> QED
    BY <1>2, <2>2, <2>4, <2>5, <2>8
<1>5. ASSUME NEW p \in Procs, Answered(p)
      PROVE  Away /\ \A q \in Procs : Proc(q)
  <2>1. /\ proc[p].step = "answer" /\ proc'[p].op = "none"
        /\ \A q \in Procs \ {p} : Rests(q)
        /\ \A m \in Msgs : Released(m)' <=> Released(m)
        /\ UNCHANGED lostCalls
        /\ client[p] = None => UNCHANGED messageVars
        /\ client[p] # None => /\ client[p] \in Workers
                               /\ Resume(client[p], proc[p].code = "Ok")
    BY <1>5, AnsweredEffect
  <2>2. \A q \in Procs, m \in Msgs : Delivers(q, m)' <=> q # p /\ Delivers(q, m)
    <3>1. \A m \in Msgs : ~Delivers(p, m)'
      BY <2>1 DEF Delivers
    <3> QED
      BY <2>1, <3>1, SameDelivers DEF Rests
  <2>3. \A q \in Procs : Proc(q)
    BY <1>2, <2>1, <2>2
  <2>4. CASE client[p] = None
    BY <1>3, <2>1, <2>2, <2>3, <2>4, MessagesStay
  <2>5. CASE client[p] # None
    <3>1. PICK w \in Workers : w = client[p]
      BY <2>1, <2>5
    <3>2. PICK ok \in BOOLEAN : ok = (proc[p].code = "Ok")
      OBVIOUS
    <3>3. PICK n \in Msgs :
             /\ At(w, n, "query") \/ At(w, n, "deliver")
             /\ \A m \in Msgs : Stored(m)' =>
                   Stored(m) \/ (m = n /\ Resumed(w, ok) = "store")
      <4>1. Resume(w, ok)
        BY <2>1, <2>5, <3>1, <3>2
      <4> QED
        BY <4>1, ResumeAt
    <3>4. ASSUME n \notin collided, Resumed(w, ok) = "store"
          PROVE  ~Released(n) /\ \A q \in Procs : ~Delivers(q, n)'
      <4>1. CASE At(w, n, "query")
        BY <2>2, <4>1 DEF ServedInv
      <4>2. CASE At(w, n, "deliver")
        <5>1. ~ok
          BY <3>4, <4>2 DEF Resumed, At
        <5>2. Asks(p, w)
          BY <3>1 DEF ServedInv
        <5>3. Delivers(p, n)
          BY <4>2, <5>2 DEF Asks, At, Sends
        <5>4. ~Released(n)
          BY <2>1, <3>2, <3>4, <5>1, <5>3 DEF HeardIsOk
        <5>5. \A q \in Procs : Delivers(q, n) => q = p
          BY <5>3 DEF ServedInv
        <5> QED
          BY <2>2, <5>4, <5>5
      <4> QED
        BY <3>3, <4>1, <4>2
    <3>5. Away
      BY <1>1, <2>1, <2>2, <3>3, <3>4 DEF HeardIsOk
    <3> QED
      BY <2>3, <3>5
  <2> QED
    BY <2>4, <2>5
<1>6. ASSUME NEW w \in Workers, CallLost(w)
      PROVE  Away /\ \A q \in Procs : Proc(q)
  <2>1. UNCHANGED presenceVars /\ lostCalls' = lostCalls + 1
    BY <1>6 DEF CallLost
  <2>2. lostCalls' # 0
    BY <2>1 DEF DeliveryTypeOK
  <2>3. /\ \A q \in Procs : Rests(q)
        /\ \A m \in Msgs : Released(m)' <=> Released(m)
    BY <2>1, PresenceStays
  <2> QED
    BY <1>2, <2>2, <2>3
<1>7. ASSUME NEW p \in Procs, Bind(p)
      PROVE  Away /\ \A q \in Procs : Proc(q)
  <2>1. /\ UNCHANGED messageVars /\ UNCHANGED lostCalls
        /\ proc'[p].op = "BindRoute"
        /\ \A q \in Procs \ {p} : Rests(q)
        /\ \A m \in Msgs : Released(m)' <=> Released(m)
    BY <1>7, BindEffect
  <2>2. \A m \in Msgs : ~Delivers(p, m)'
    BY <2>1 DEF Delivers
  <2>3. \A q \in Procs, m \in Msgs : Delivers(q, m)' => Delivers(q, m)
    BY <2>1, <2>2, SameDelivers DEF Rests
  <2> QED
    BY <1>2, <1>3, <2>1, <2>2, <2>3, MessagesStay
<1>8. ASSUME NEW p \in Procs, P!Execute(p), UNCHANGED messageVars, UNCHANGED lostCalls
      PROVE  Away /\ \A q \in Procs : Proc(q)
  <2>1. \A m \in Msgs :
           Released(m)' => \/ Released(m)
                        \/ /\ Delivers(p, m)
                           /\ proc[p].step = "sent" /\ proc'[p].step = "answer"
                           /\ mixed \/ proc'[p].code = "Ok"
    BY <1>8, ExecuteHeard DEF DeliveryTypeOK
  <2>2. /\ proc[p].step # "answer"
        /\ SameCall(p)
        /\ \A q \in Procs \ {p} : Rests(q)
    BY <1>8, ExecuteEffect DEF DeliveryTypeOK
  <2>3. \A q \in Procs, m \in Msgs : Delivers(q, m)' <=> Delivers(q, m)
    BY <2>2, SameDelivers DEF Rests
  <2>4. ASSUME NEW m \in Msgs \ collided', Released(m)', ~Released(m)
        PROVE  /\ Delivers(p, m)
               /\ proc'[p].step = "answer" /\ proc'[p].code = "Ok"
    BY <1>1, <2>1, <2>4 DEF Observed
  <2>5. ASSUME NEW q \in Procs, NEW m \in Msgs \ collided', Delivers(q, m)', Released(m)'
        PROVE  proc'[q].step = "answer" /\ proc'[q].code = "Ok"
    <3>1. CASE Released(m)
      <4>1. proc[q].step = "answer" /\ proc[q].code = "Ok"
        BY <1>1, <2>3, <2>5, <3>1 DEF HeardIsOk
      <4> QED
        BY <2>2, <4>1 DEF Rests
    <3>2. CASE ~Released(m)
      <4>1. q = p
        BY <2>3, <2>4, <2>5, <3>2 DEF ServedInv
      <4> QED
        BY <2>4, <2>5, <3>2, <4>1
    <3> QED
      BY <3>1, <3>2
  <2>6. \A m \in Msgs : Stored(m)' <=> Stored(m)
    BY <1>8, MessagesStay
  <2>7. Away
    BY <1>1, <1>8, <2>3, <2>4, <2>6 DEF HeardIsOk
  <2> QED
    BY <2>5, <2>7
<1>9. ASSUME P!Environment, UNCHANGED messageVars, UNCHANGED lostCalls
      PROVE  Away /\ \A q \in Procs : Proc(q)
  <2>1. /\ \A q \in Procs : Rests(q) \/ Struck(q)
        /\ \A m \in Msgs : Released(m)' =>
              Released(m) \/ \E q \in Procs : Delivers(q, m) /\ Struck(q)
    BY <1>9, EnvironmentEffect DEF DeliveryTypeOK
  <2>2. \A q \in Procs, m \in Msgs : Delivers(q, m)' <=> Delivers(q, m)
    BY <2>1, SameDelivers DEF Rests, Struck
  <2>3. \A q \in Procs, m \in Msgs : Delivers(q, m) /\ Struck(q) => m \in collided'
    BY StruckCollides DEF Struck
  <2>4. \A m \in Msgs \ collided' : Released(m)' => Released(m)
    BY <2>1, <2>3
  <2>5. \A m \in Msgs : Stored(m)' <=> Stored(m)
    BY <1>9, MessagesStay
  <2>6. \A q \in Procs : Proc(q)
    BY <1>1, <2>1, <2>2, <2>3, <2>4 DEF HeardIsOk, Rests
  <2>7. Away
    BY <1>1, <1>9, <2>2, <2>4, <2>5 DEF HeardIsOk
  <2> QED
    BY <2>6, <2>7
<1>10. ASSUME NEW w \in Workers, Receive(w) \/ Store(w) \/ Pull(w) \/ Reply(w),
              UNCHANGED presenceVars, UNCHANGED lostCalls
       PROVE  Away /\ \A q \in Procs : Proc(q)
  <2>1. /\ \A q \in Procs : Rests(q)
        /\ \A m \in Msgs : Released(m)' <=> Released(m)
    BY <1>10, PresenceStays
  <2>2. \A m \in Msgs : Stored(m)' => Stored(m)
    BY <1>10, MessageStepEffect DEF DeliveryTypeOK
  <2>3. \A q \in Procs, m \in Msgs : Delivers(q, m)' <=> Delivers(q, m)
    BY <2>1, SameDelivers DEF Rests
  <2> QED
    BY <1>2, <1>3, <1>10, <2>1, <2>2, <2>3
<1>11. ASSUME MessageServiceEnds
       PROVE  Away /\ \A q \in Procs : Proc(q)
  <2>1. Crash /\ UNCHANGED presenceVars /\ UNCHANGED lostCalls
    BY <1>11 DEF MessageServiceEnds
  <2>2. /\ \A q \in Procs : Rests(q)
        /\ \A m \in Msgs : Released(m)' <=> Released(m)
    BY <2>1, PresenceStays
  <2>3. \A m \in Msgs : Stored(m)' => Stored(m)
    BY <2>1, CrashEffect DEF Stored, At
  <2>4. \A q \in Procs, m \in Msgs : Delivers(q, m)' <=> Delivers(q, m)
    BY <2>2, SameDelivers DEF Rests
  <2> QED
    BY <1>2, <1>3, <2>1, <2>2, <2>3, <2>4
<1>12. ASSUME UNCHANGED deliveryVars
       PROVE  Away /\ \A q \in Procs : Proc(q)
  <2>1. UNCHANGED messageVars /\ UNCHANGED presenceVars /\ UNCHANGED lostCalls
    BY <1>12 DEF deliveryVars
  <2>2. /\ \A q \in Procs : Rests(q)
        /\ \A m \in Msgs : Released(m)' <=> Released(m)
    BY <2>1, PresenceStays
  <2>3. \A m \in Msgs : Stored(m)' <=> Stored(m)
    BY <2>1, MessagesStay
  <2>4. \A q \in Procs, m \in Msgs : Delivers(q, m)' <=> Delivers(q, m)
    BY <2>2, SameDelivers DEF Rests
  <2> QED
    BY <1>2, <1>3, <2>1, <2>2, <2>3, <2>4
<1>13. Away /\ \A q \in Procs : Proc(q)
  BY <1>4, <1>5, <1>6, <1>7, <1>8, <1>9, <1>10, <1>11, <1>12
     DEF DeliveryNext, PresenceStep, MessageStep
<1> QED
  BY <1>13 DEF HeardIsOk

\* A call that the presence service answers otherwise has a reason, too.
LEMMA NotOkHasReason ==
  ASSUME DeliveryTypeOK, DeliveryCalls, Observed, ServedInv, outages = 0,
         NEW p \in Procs, AnswersNot(p),
         NEW w \in Workers, client[p] = w, NEW m \in Msgs, Sends(w, m)
  PROVE  m \in unroutable \cup collided
<1>1. Asks(p, w)
  BY DEF ServedInv
<1>2. PICK n \in Msgs :
        \/ At(w, n, "query") /\ proc[p].op = "QueryRoute" /\ proc[p].user = To[n]
        \/ At(w, n, "deliver") /\ Delivers(p, n)
  BY <1>1 DEF Asks
<1>3. n = m
  BY <1>2 DEF At, Sends
<1>4. proc[p].user = To[m]
  BY <1>2, <1>3 DEF DeliveryCalls
<1>5. \/ route[To[m]] = None
      \/ proc[p].op = "Deliver" /\ proc[p].step = "sent" /\ mixed
  BY <1>1, <1>4, AskingProc DEF AnswersNot, DeliveryCalls
<1>6. CASE route[To[m]] = None
  <2>1. Sending(m)
    BY DEF Sending, Sends
  <2> QED
    BY <1>6, <2>1 DEF Observed
<1>7. CASE proc[p].op = "Deliver" /\ proc[p].step = "sent" /\ mixed
  <2>1. Delivers(p, m)
    BY <1>2, <1>3, <1>7
  <2> QED
    BY <1>7, <2>1 DEF Observed
<1> QED
  BY <1>5, <1>6, <1>7

\* Send stores a message only for a reason of NotOkHasReason, or a lost call.
LEMMA FailsForCauseKept ==
  ASSUME DeliveryTypeOK, DeliveryCalls, Observed, ServedInv, FailsForCause,
         [DeliveryNext]_deliveryVars, lostCalls' = 0, outages' = 0
  PROVE  FailsForCause'
<1> DEFINE Rest == Msgs \ (unroutable \cup collided)
<1> DEFINE Rest1 == Msgs \ (unroutable' \cup collided')
<1> DEFINE Proc(q) == \A m \in Rest1, v \in Workers :
       client'[q] = v /\ Sends(v, m)' /\ proc'[q].step = "answer" => proc'[q].code = "Ok"
<1> DEFINE Send == \A m \in Rest1 :
       /\ \A v \in Workers : ~At(v, m, "store")' /\ ~Queues(v, m)'
       /\ answered'[m] # "queued"
<1>1. Rest1 \subseteq Rest
  BY HistoriesGrow
<1>2. ASSUME lostCalls = 0, outages = 0
      PROVE  \A m \in Rest :
        /\ \A q \in Procs, v \in Workers :
              client[q] = v /\ Sends(v, m) /\ proc[q].step = "answer"
                 => proc[q].code = "Ok"
        /\ \A v \in Workers : ~At(v, m, "store") /\ ~Queues(v, m)
        /\ answered[m] # "queued"
  BY <1>2 DEF FailsForCause
<1> HIDE DEF Rest
<1>3. ASSUME lostCalls = 0, outages = 0, NEW q \in Procs, Rests(q),
             \A v \in Workers : client'[q] = v => client[q] = v,
             \A v \in Workers, m \in Msgs : client[q] = v /\ Sends(v, m)' => Sends(v, m)
      PROVE  Proc(q)
  BY <1>1, <1>2, <1>3 DEF Rests
<1>4. ASSUME lostCalls = 0, outages = 0, UNCHANGED messageVars PROVE Send
  <2>1. /\ \A v \in Workers, m \in Msgs : /\ Queues(v, m)' <=> Queues(v, m)
                                          /\ At(v, m, "store")' <=> At(v, m, "store")
        /\ answered' = answered
    BY <1>4, MessagesStay
  <2> QED
    BY <1>1, <1>2, <1>4, <2>1
<1>5. ASSUME NEW w \in Workers, NEW p \in Procs, Request(w, p)
      PROVE  Send /\ \A q \in Procs : Proc(q)
  <2>1. /\ UNCHANGED messageVars /\ UNCHANGED lostCalls
        /\ \A q \in Procs \ {p} : client'[q] = client[q] /\ Rests(q)
        /\ proc'[p].step = "connect"
        /\ UNCHANGED outages
    BY <1>5, RequestEffect
  <2>2. \A v \in Workers, m \in Msgs : Sends(v, m)' <=> Sends(v, m)
    BY <2>1, MessagesStay
  <2> QED
    BY <1>3, <1>4, <2>1, <2>2
<1>6. ASSUME NEW p \in Procs, Answered(p)
      PROVE  Send /\ \A q \in Procs : Proc(q)
  <2>1. /\ UNCHANGED lostCalls /\ UNCHANGED outages
        /\ client'[p] = None /\ \A q \in Procs \ {p} : client'[q] = client[q] /\ Rests(q)
        /\ proc[p].step = "answer" /\ proc'[p].step = "idle"
        /\ client[p] = None => UNCHANGED messageVars
        /\ client[p] # None => /\ client[p] \in Workers
                               /\ Resume(client[p], proc[p].code = "Ok")
    BY <1>6, AnsweredEffect
  <2>2. CASE client[p] = None
    <3>1. \A v \in Workers, m \in Msgs : Sends(v, m)' <=> Sends(v, m)
      BY <2>1, <2>2, MessagesStay
    <3> QED
      BY <1>3, <1>4, <2>1, <2>2, <3>1
  <2>3. CASE client[p] # None
    <3>1. PICK w \in Workers : w = client[p]
      BY <2>1, <2>3
    <3>2. PICK ok \in BOOLEAN : ok = (proc[p].code = "Ok")
      OBVIOUS
    <3>3. Resume(w, ok)
      BY <2>1, <2>3, <3>1, <3>2
    <3>4. PICK n \in Msgs :
             /\ Sends(w, n)
             /\ \A v \in Workers, m \in Msgs, step \in {"query", "deliver", "store", "answer"} :
                   At(v, m, step)' <=> IF v = w THEN m = n /\ step = Resumed(w, ok)
                                                ELSE At(v, m, step)
             /\ \A v \in Workers, m \in Msgs : Sends(v, m)' <=> Sends(v, m)
             /\ \A v \in Workers, m \in Msgs : Queues(v, m)' <=> v # w /\ Queues(v, m)
             /\ UNCHANGED <<table, sent, answered>>
      BY <3>3, ResumeAt
    <3>5. n \in Rest => ok
      BY <1>2, <2>1, <3>1, <3>2, <3>4
    <3>6. ok => Resumed(w, ok) # "store"
      BY DEF Resumed
    <3>7. Send
      BY <1>1, <1>2, <2>1, <3>4, <3>5, <3>6
    <3>8. \A q \in Procs : Proc(q)
      BY <1>3, <2>1, <3>4
    <3> QED
      BY <3>7, <3>8
  <2> QED
    BY <2>2, <2>3
<1>7. ASSUME NEW w \in Workers, CallLost(w) PROVE FALSE
  BY <1>7 DEF CallLost, DeliveryTypeOK
<1>8. ASSUME NEW p \in Procs, Bind(p)
      PROVE  Send /\ \A q \in Procs : Proc(q)
  <2>1. /\ UNCHANGED messageVars /\ UNCHANGED <<client, lostCalls, outages>>
        /\ \A q \in Procs \ {p} : Rests(q)
        /\ proc'[p].step = "connect"
    BY <1>8, BindEffect
  <2>2. \A v \in Workers, m \in Msgs : Sends(v, m)' <=> Sends(v, m)
    BY <2>1, MessagesStay
  <2> QED
    BY <1>3, <1>4, <2>1, <2>2
<1>9. ASSUME NEW p \in Procs, P!Execute(p), UNCHANGED messageVars,
             UNCHANGED <<client, lostCalls>>
      PROVE  Send /\ \A q \in Procs : Proc(q)
  <2>1. /\ proc[p].step # "answer"
        /\ \A q \in Procs \ {p} : Rests(q)
        /\ MovesOn(p) \/ AnswersOk(p) \/ AnswersNot(p)
        /\ UNCHANGED outages
    BY <1>9, ExecuteEffect DEF DeliveryTypeOK
  <2>2. \A v \in Workers, m \in Msgs : Sends(v, m)' <=> Sends(v, m)
    BY <1>9, MessagesStay
  <2>3. Proc(p)
    <3>1. CASE AnswersNot(p)
      <4>1. \A v \in Workers, m \in Msgs :
               client[p] = v /\ Sends(v, m) => m \in unroutable \cup collided
        BY <2>1, <3>1, NotOkHasReason
      <4> QED
        BY <1>1, <1>9, <2>2, <4>1 DEF Rest
    <3>2. CASE MovesOn(p) \/ AnswersOk(p)
      BY <3>2 DEF MovesOn, AnswersOk
    <3> QED
      BY <2>1, <3>1, <3>2
  <2> QED
    BY <1>3, <1>4, <1>9, <2>1, <2>2, <2>3
<1>10. ASSUME P!Environment, UNCHANGED messageVars, UNCHANGED <<client, lostCalls>>
       PROVE  Send /\ \A q \in Procs : Proc(q)
  <2>1. (\A q \in Procs : Rests(q)) /\ outages = 0
    BY <1>10, EnvironmentEffect DEF DeliveryTypeOK
  <2>2. \A v \in Workers, m \in Msgs : Sends(v, m)' <=> Sends(v, m)
    BY <1>10, MessagesStay
  <2> QED
    BY <1>3, <1>4, <1>10, <2>1, <2>2
<1>11. ASSUME NEW w \in Workers, Receive(w) \/ Store(w) \/ Pull(w) \/ Reply(w),
              UNCHANGED presenceVars, UNCHANGED <<client, lostCalls>>
       PROVE  Send /\ \A q \in Procs : Proc(q)
  <2>1. (\A q \in Procs : Rests(q)) /\ UNCHANGED outages
    BY <1>11, PresenceStays
  <2>2. /\ \A v \in Workers, m \in Msgs :
              /\ At(v, m, "query") => At(v, m, "query")'
              /\ At(v, m, "deliver")' <=> At(v, m, "deliver")
              /\ At(v, m, "store")' => At(v, m, "store")
              /\ At(v, m, "answer")' =>
                    \/ At(v, m, "answer") /\ worker'[v].res = worker[v].res
                    \/ At(v, m, "store") /\ worker'[v].res = "queued"
        /\ \A m \in Msgs : \/ answered'[m] = answered[m]
                           \/ \E v \in Workers : At(v, m, "answer")
                                                 /\ answered'[m] = worker[v].res
    BY <1>11, MessageStepEffect DEF DeliveryTypeOK
  <2>3. \A v \in Workers, m \in Msgs :
           /\ Queues(v, m)' <=> At(v, m, "answer")' /\ worker'[v].res = "queued"
           /\ Queues(v, m) <=> At(v, m, "answer") /\ worker[v].res = "queued"
    BY DEF Queues, At
  <2>4. Send
    BY <1>1, <1>2, <1>11, <2>1, <2>2, <2>3
  <2>5. ASSUME NEW q \in Procs, NEW v \in Workers, NEW m \in Msgs,
               client[q] = v, Sends(v, m)'
        PROVE  Sends(v, m)
    <3>1. PICK n \in Msgs : At(v, n, "query") \/ At(v, n, "deliver")
      BY <2>5 DEF ServedInv, Asks
    <3>2. Sends(v, n) /\ Sends(v, n)'
      BY <2>2, <3>1 DEF At
    <3>3. m = n
      BY <2>5, <3>2 DEF Sends
    <3> QED
      BY <3>2, <3>3
  <2> QED
    BY <1>3, <1>11, <2>1, <2>4, <2>5
<1>12. ASSUME MessageServiceEnds
       PROVE  Send /\ \A q \in Procs : Proc(q)
  <2>1. /\ Crash /\ UNCHANGED presenceVars /\ UNCHANGED lostCalls
        /\ client' = [q \in Procs |-> None]
    BY <1>12 DEF MessageServiceEnds
  <2>2. (\A q \in Procs : Rests(q)) /\ UNCHANGED outages
    BY <2>1, PresenceStays
  <2>3. /\ \A v \in Workers, m \in Msgs : ~Sends(v, m)'
        /\ answered' = answered
    BY <2>1, CrashEffect
  <2>4. Send
    BY <1>1, <1>2, <2>1, <2>2, <2>3 DEF At, Queues
  <2> QED
    BY <2>3, <2>4
<1>13. ASSUME UNCHANGED deliveryVars
       PROVE  Send /\ \A q \in Procs : Proc(q)
  <2>1. /\ UNCHANGED messageVars /\ UNCHANGED presenceVars
        /\ UNCHANGED <<client, lostCalls>>
    BY <1>13 DEF deliveryVars
  <2>2. (\A q \in Procs : Rests(q)) /\ UNCHANGED outages
    BY <2>1, PresenceStays
  <2>3. \A v \in Workers, m \in Msgs : Sends(v, m)' <=> Sends(v, m)
    BY <2>1, MessagesStay
  <2> QED
    BY <1>3, <1>4, <2>1, <2>2, <2>3
<1>14. Send /\ \A q \in Procs : Proc(q)
  BY <1>5, <1>6, <1>7, <1>8, <1>9, <1>10, <1>11, <1>12, <1>13
     DEF DeliveryNext, PresenceStep, MessageStep
<1> QED
  BY <1>14 DEF FailsForCause

-----------------------------------------------------------------------------
(* The theorems of the composition.                                        *)

\* At first nothing is sent, asked or heard.
LEMMA DeliveryInvInit == DeliveryInit => DeliveryInv
<1> SUFFICES ASSUME DeliveryInit PROVE DeliveryInv
  OBVIOUS
<1>1. Init /\ P!Init
  BY DEF DeliveryInit
<1>2. DeliveryTypeOK /\ OneSend /\ StoredIsQueued
  BY <1>1, DeliveryTyped, PushInit DEF PushInv
<1>3. \A p \in Procs : proc[p].op = "none" /\ proc[p].step = "idle"
  BY <1>1 DEF P!Init, P!Idle
<1>4. \A w \in Workers, m \in Msgs : ~Sends(w, m)
  BY <1>1 DEF Init, Sends, Idle
<1>5. \A m \in Msgs : ~Released(m) /\ answered[m] = "none" /\ ~Stored(m)
  <2>1. \A m \in Msgs : ~Released(m) /\ answered[m] = "none"
    BY <1>1 DEF Init, P!Init, Heard, Released
  <2>2. \A m \in Msgs : ~(m \in table \/ Taken(m))
    BY <1>1 DEF Init, Taken, Idle
  <2> QED
    BY <1>4, <2>1, <2>2 DEF Stored, At
<1>6. P!RouteInv
  BY <1>1, <1>3 DEF P!Init, P!RouteInv, P!PublishedToRoute
<1>7. DeliveryCalls
  <2>1. outages = 0 => connected /\ cache = "open" /\ queue = "open"
    BY <1>1 DEF P!Init, P!Constructed
  <2> QED
    BY <1>3, <2>1 DEF DeliveryCalls, Delivers
<1>8. ServedInv
  <2>1. \A p \in Procs : client[p] = None
    BY DEF DeliveryInit
  <2>2. None \notin Workers
    BY DeliveryAssumption
  <2> QED
    BY <1>3, <1>4, <1>5, <2>1, <2>2 DEF ServedInv, Delivers, At
<1>9. Observed
  BY <1>3, <1>4 DEF Observed, Delivers, Sending, Sends
<1>10. OkIsHeard
  BY <1>3, <1>4, <1>5 DEF OkIsHeard, DeliveredIsHeard, Delivers, At
<1>11. HeardIsOk
  BY <1>5 DEF HeardIsOk
<1>12. FailsForCause
  BY <1>4, <1>5 DEF FailsForCause, Queues, At
<1> QED
  BY <1>2, <1>6, <1>7, <1>8, <1>9, <1>10, <1>11, <1>12 DEF DeliveryInv

\* Each step of the message service or of the presence service, each call between
\* the two that is made, answered or lost (presence_service stub calls of Send in
\* message_service.cc), leaves every message where the invariant says it is.
THEOREM DeliveryInvariant == DeliverySpec => []DeliveryInv
<1>1. DeliveryInv /\ [DeliveryNext]_deliveryVars => DeliveryInv'
  <2> SUFFICES ASSUME DeliveryInv, [DeliveryNext]_deliveryVars PROVE DeliveryInv'
    OBVIOUS
  <2>1. /\ DeliveryTypeOK /\ OneSend /\ StoredIsQueued /\ P!RouteInv /\ DeliveryCalls
        /\ ServedInv /\ Observed /\ OkIsHeard /\ HeardIsOk /\ FailsForCause
    BY DEF DeliveryInv
  <2>2. TypeOK /\ P!TypeOK
    BY <2>1 DEF DeliveryTypeOK
  <2>3. DeliveryTypeOK'
    BY <2>1, DeliveryTyped
  <2>4. OneSend' /\ StoredIsQueued'
    BY <2>1, <2>2, StepOfMessages, OneSendKept, StoredIsQueuedKept
  <2>5. P!RouteInv'
    BY <2>1, <2>2, StepOfPresence, PRouteInvKept
  <2>6. DeliveryCalls' /\ ServedInv' /\ Observed'
    BY <2>1, CallsKept, ServedKept, ObservedKept
  <2>7. OkIsHeard' /\ HeardIsOk'
    BY <2>1, OkIsHeardKept, HeardIsOkKept
  <2>8. FailsForCause'
    <3>1. CASE lostCalls' = 0 /\ outages' = 0
      BY <2>1, <3>1, FailsForCauseKept
    <3>2. CASE ~(lostCalls' = 0 /\ outages' = 0)
      BY <3>2 DEF FailsForCause
    <3> QED
      BY <3>1, <3>2
  <2> QED
    BY <2>3, <2>4, <2>5, <2>6, <2>7, <2>8 DEF DeliveryInv
<1> QED
  BY <1>1, DeliveryInvInit, PTL DEF DeliverySpec

\* Every value of the composition stays in its type.
THEOREM DeliveryTypeCorrect == DeliverySpec => []DeliveryTypeOK
<1>1. DeliveryInv => DeliveryTypeOK
  BY DEF DeliveryInv
<1> QED
  BY <1>1, DeliveryInvariant, PTL

\* The message service of the composition is the one of MessageService: all that is
\* proved of it, with presence answers left open, holds with the real ones.
THEOREM ComposedMessages == DeliverySpec => Spec
<1>1. DeliveryInit => Init
  BY DEF DeliveryInit
<1>2. DeliveryInv /\ [DeliveryNext]_deliveryVars => [Next]_vars
  BY StepOfMessages DEF DeliveryInv
<1> QED
  BY <1>1, <1>2, DeliveryInvariant, PTL DEF DeliverySpec, Spec

\* The presence service of the composition is the one of Presence, called by Send and
\* by gateways only.
THEOREM ComposedPresence == DeliverySpec => P!Spec
<1>1. DeliveryInit => P!Init
  BY DEF DeliveryInit
<1>2. DeliveryInv /\ [DeliveryNext]_deliveryVars => [P!Next]_presenceVars
  BY StepOfPresence DEF DeliveryInv
<1>3. [P!Next]_presenceVars => [P!Next]_(P!vars)
  BY DEF presenceVars, P!vars, P!publishing
<1> QED
  BY <1>1, <1>2, <1>3, DeliveryInvariant, PTL DEF DeliverySpec, P!Spec

\* Send in message_service.cc stores a message whose recipient is routed all along
\* only if Redis or a call between the services failed, or its PUBLISH came when two
\* of them had met on the connection, at that time or earlier.
THEOREM RoutedPushed == DeliverySpec => []RoutedIsPushed
<1>1. DeliveryInv => RoutedIsPushed
  BY DEF DeliveryInv, FailsForCause, RoutedIsPushed
<1> QED
  BY <1>1, DeliveryInvariant, PTL

\* What Send answers as delivered, a gateway has heard from the channel that Deliver
\* in presence_service.cc publishes to, but for the two exceptions of the property.
THEOREM DeliveredHeard == DeliverySpec => []DeliveredIsHeard
<1>1. DeliveryInv => DeliveredIsHeard
  BY DEF DeliveryInv, OkIsHeard
<1> QED
  BY <1>1, DeliveryInvariant, PTL

\* Send does not both push a message and store it, unless a call between the services
\* was lost when it was already executed, or its PUBLISH met an outage, or a
\* connection on which two of them had met.
THEOREM PushedOrPulled == DeliverySpec => []NotPushedAndPulled
<1>1. DeliveryInv => NotPushedAndPulled
  BY DEF DeliveryInv, HeardIsOk, NotPushedAndPulled, Stored, Released
<1> QED
  BY <1>1, DeliveryInvariant, PTL
=============================================================================
