------------------------- MODULE UserServiceProofs -------------------------
(***************************************************************************)
(* What the user service promises, for any users, workers and sizes of the *)
(* pool: when the pool was opened with three connections for each worker   *)
(* thread, no statement waits for one in vain, and, as long as statements  *)
(* succeed, no login misses the check of the online state; and a call is   *)
(* answered with the id of its own user, except where db_ was shared.      *)
(*                                                                         *)
(* The second half is about the user service together with the gateway     *)
(* that calls it (Sessions): a blocked IO thread and the worker that       *)
(* executes its call agree; entries of the gateway's table name sessions   *)
(* of their user; and nobody is locked out.                                *)
(***************************************************************************)
EXTENDS Sessions, SequenceTheorems, FiniteSetTheorems, TLAPS

\* Every statement on a pooled connection has a variable for it.
LEMMA SlotTyped == \A step \in PoolSteps : Slot(step) \in Slots
BY DEF PoolSteps, Slot, Slots

\* A worker that is not idle and has not answered executes a call.
LEMMA BusyWorker ==
  ASSUME TypeOK, NEW w \in Workers, worker[w].step \notin {"idle", "return"}
  PROVE  worker[w] \in Busy
<1>1. worker[w] \in Busy \cup Returning \cup {Idle}
  BY DEF TypeOK
<1>2. worker[w] # Idle
  BY DEF Idle
<1>3. worker[w] \notin Returning
  BY DEF Returning
<1> QED
  BY <1>1, <1>2, <1>3

\* The moves a call makes: each keeps the call a call, and its operation and
\* user.
LEMMA GotoTyped ==
  ASSUME TypeOK, NEW w \in Workers, worker[w].step \notin {"idle", "return"},
         NEW step \in Steps, Goto(w, step)
  PROVE  worker' \in [Workers -> Busy \cup Returning \cup {Idle}]
<1>1. [worker[w] EXCEPT !.step = step] \in Busy
  BY BusyWorker DEF Busy
<1> QED
  BY <1>1 DEF TypeOK, Goto

LEMMA AcceptTyped ==
  ASSUME TypeOK, NEW w \in Workers, worker[w].step \notin {"idle", "return"},
         AcceptLogin(w) \/ AcceptLogout(w)
  PROVE  worker' \in [Workers -> Busy \cup Returning \cup {Idle}]
<1>1. worker[w] \in Busy /\ "accept" \in Steps
  BY BusyWorker DEF Steps
<1>2. CASE AcceptLogin(w)
  BY <1>1, <1>2, GotoTyped DEF AcceptLogin
<1>3. CASE AcceptLogout(w)
  <2>1. [worker[w] EXCEPT !.step = "accept", !.held = {}] \in Busy
    BY <1>1 DEF Busy
  <2> QED
    BY <1>3, <2>1 DEF TypeOK, AcceptLogout
<1> QED
  BY <1>2, <1>3

LEMMA WithoutTyped ==
  ASSUME TypeOK, NEW w \in Workers, Without(w), worker[w].step \in PoolSteps
  PROVE  /\ worker' \in [Workers -> Busy \cup Returning \cup {Idle}]
         /\ offlineSeen' \subseteq Workers
<1>1. worker[w].step \notin {"idle", "return"} /\ worker[w] \in Busy
  BY BusyWorker DEF PoolSteps
<1>2. CASE worker[w].step = "cached"
  <2>0. worker[w].user \in Users /\ "auth" \in Steps
    BY <1>1 DEF Busy, Steps, PoolSteps
  <2>1. [worker[w] EXCEPT !.step = "auth", !.held = {}, !.id = worker[w].user]
          \in Busy
    BY <1>1, <2>0 DEF Busy
  <2> QED
    BY <1>2, <2>1 DEF Without, WorksWith, TypeOK
<1>3. CASE worker[w].step = "auth"
  BY <1>1, <1>3, GotoTyped DEF Without, TypeOK, Steps
<1>4. CASE worker[w].step = "check"
  BY <1>1, <1>4, GotoTyped DEF Without, TypeOK, Steps, PoolSteps
<1>5. CASE worker[w].step = "update"
  BY <1>1, <1>5, AcceptTyped DEF Without, TypeOK
<1>6. CASE worker[w].step = "offline"
  BY <1>1, <1>6, AcceptTyped DEF Without, TypeOK
<1> QED
  BY <1>2, <1>3, <1>4, <1>5, <1>6 DEF PoolSteps

LEMMA TypeStarts == Init => TypeOK
BY UserServiceAssumption DEF Init, TypeOK

LEMMA TypeKept ==
  ASSUME TypeOK, [Next]_vars
  PROVE  TypeOK'
<1> USE UserServiceAssumption
<1> USE DEF logins, registrations, process
<1> DEFINE Typed == worker' \in [Workers -> Busy \cup Returning \cup {Idle}]
<1>1. ASSUME NEW w \in Workers, Acquire(w) PROVE TypeOK'
  <2>1. Slot(worker[w].step) \in Slots
    BY <1>1, SlotTyped DEF Acquire, Waiting
  <2>2. worker[w] \in Busy
    BY <1>1, BusyWorker DEF Acquire, Waiting, PoolSteps
  <2>3. [worker[w] EXCEPT !.held = @ \cup {Slot(worker[w].step)}] \in Busy
    BY <2>1, <2>2 DEF Busy
  <2> QED
    BY <1>1, <2>3 DEF Acquire, TypeOK
<1>2. ASSUME NEW w \in Workers, TimedOut(w) \/ QueryFails(w) PROVE TypeOK'
  <2>1. Typed /\ offlineSeen' \subseteq Workers
    BY <1>2, WithoutTyped DEF TimedOut, QueryFails, Waiting
  <2> QED
    BY <1>2, <2>1 DEF TimedOut, QueryFails, Fault, TypeOK
<1>3. ASSUME NEW w \in Workers, Receive(w) PROVE TypeOK'
  <2>1. PICK op \in Ops, step \in Steps, u \in Users,
             cred \in BOOLEAN, id \in Users \cup {None} :
           Call(w, op, step, u, cred, id)
    <3>1. PICK u \in Users :
            \/ \E cred \in BOOLEAN : CallLogin(w, u, cred)
            \/ CallLogout(w, u)
            \/ CallRegister(w, u)
            \/ CallFriends(w, u)
      BY <1>3 DEF Receive
    <3>2. cached[u] \in Users \cup {None}
      BY DEF TypeOK
    <3> QED
      BY <3>1, <3>2 DEF CallLogin, CallLogout, CallRegister, CallFriends, Ops,
                  Steps, PoolSteps, DbSteps
  <2>2. [op |-> op, step |-> step, user |-> u, cred |-> cred, held |-> {},
         id |-> id] \in Busy
    BY DEF Busy
  <2>3. offlineSeen' \subseteq Workers
    BY <1>3 DEF Receive, CallLogin, CallLogout, CallRegister, CallFriends,
                WorksWith, TypeOK
  <2> QED
    BY <2>1, <2>2, <2>3 DEF Call, TypeOK
<1>4. ASSUME NEW w \in Workers, Authenticate(w) PROVE TypeOK'
  <2>1. worker[w].step \in PoolSteps /\ worker[w].step \notin {"idle", "return"}
    BY <1>4 DEF Authenticate, Ready, PoolSteps
  <2>2. Typed /\ offlineSeen' \subseteq Workers
    BY <1>4, <2>1, WithoutTyped, GotoTyped DEF Authenticate, Steps, PoolSteps,
       TypeOK
  <2>3. cached' \in [Users -> Users \cup {None}]
    BY <1>4 DEF Authenticate, TypeOK
  <2> QED
    BY <1>4, <2>2, <2>3 DEF Authenticate, TypeOK
<1>5. ASSUME NEW w \in Workers, CheckState(w) PROVE TypeOK'
  <2>1. Typed
    BY <1>5, GotoTyped DEF CheckState, Ready, Steps, PoolSteps
  <2> QED
    BY <1>5, <2>1 DEF CheckState, TypeOK
<1>6. ASSUME NEW w \in Workers, Reply(w) PROVE TypeOK'
  <2>1. worker[w].held \in SUBSET Slots
    BY <1>6, BusyWorker DEF Reply, Busy
  <2>2. [Idle EXCEPT !.step = "return", !.held = worker[w].held] \in Returning
    BY <2>1 DEF Idle, Returning
  <2> QED
    BY <1>6, <2>2 DEF Reply, TypeOK
<1>7. ASSUME NEW w \in Workers, SetOnline(w) \/ SetOffline(w) PROVE TypeOK'
  <2>1. Typed
    BY <1>7, AcceptTyped DEF SetOnline, SetOffline, Ready
  <2> QED
    BY <1>7, <2>1 DEF SetOnline, SetOffline, TypeOK
<1>8. ASSUME NEW w \in Workers,
             UserExists(w) \/ InsertUser(w) \/ FriendsStatement(w)
      PROVE  TypeOK'
  <2>1. Typed
    BY <1>8, GotoTyped DEF UserExists, InsertUser, FriendsStatement, Steps,
       DbSteps
  <2>2. Passed(w) \subseteq Workers
    BY DEF Passed, TypeOK
  <2>3. shared' \subseteq Workers /\ faults' \in Nat
    BY <1>8, <2>2 DEF UserExists, InsertUser, FriendsStatement, Fault, TypeOK
  <2>4. known' \subseteq Users /\ lastId' \in Users \cup {None}
    <3>1. worker[w].user \in Users
      BY <1>8, BusyWorker DEF UserExists, InsertUser, FriendsStatement, Busy
    <3> QED
      BY <1>8, <3>1 DEF UserExists, InsertUser, FriendsStatement, TypeOK
  <2> QED
    BY <1>8, <2>1, <2>3, <2>4 DEF UserExists, InsertUser, FriendsStatement, TypeOK
<1>9. ASSUME NEW w \in Workers, NewId(w) PROVE TypeOK'
  <2>1. worker[w] \in Busy /\ "accept" \in Steps
    BY <1>9, BusyWorker DEF NewId, Steps
  <2>2. [worker[w] EXCEPT !.step = "accept", !.id = lastId] \in Busy
    BY <2>1 DEF Busy, TypeOK
  <2>3. mistaken' \subseteq Users
    <3>1. worker[w].user \in Users
      BY <2>1 DEF Busy
    <3> QED
      BY <1>9, <3>1 DEF NewId, TypeOK
  <2> QED
    BY <1>9, <2>2, <2>3 DEF NewId, TypeOK
<1>10. ASSUME NEW w \in Workers, Return(w) PROVE TypeOK'
  BY <1>10 DEF Return, TypeOK
<1>11. ASSUME NEW u \in Users, CacheForgets(u) PROVE TypeOK'
  BY <1>11 DEF CacheForgets, TypeOK
<1>12. CASE Crash
  <2>1. Typed
    BY <1>12 DEF Crash
  <2>2. crashes' \in Nat /\ lastId' \in Users \cup {None}
    BY <1>12 DEF Crash, TypeOK
  <2> QED
    BY <1>12, <2>1, <2>2 DEF Crash, TypeOK
<1>13. CASE Start
  BY <1>13 DEF Start, TypeOK
<1>14. CASE UNCHANGED vars
  BY <1>14 DEF vars, TypeOK
<1> QED
  BY <1>1, <1>2, <1>3, <1>4, <1>5, <1>6, <1>7, <1>8, <1>9, <1>10, <1>11,
     <1>12, <1>13, <1>14 DEF Next, Execute

\* Every value of the state stays in its type, and an idle worker holds no
\* connection (the locals of Login, Logout and Register in user_service.cc).
THEOREM UserServiceTypeCorrect == Spec => []TypeOK
BY TypeStarts, TypeKept, PTL DEF Spec

-----------------------------------------------------------------------------
(* The pool.                                                               *)

\* A worker waits only for a variable it does not hold, so the connections in
\* use are fewer than three a worker.
LEMMA RoomWhileWaiting ==
  ASSUME TypeOK, NEW w \in Workers, Waiting(w)
  PROVE  /\ Cardinality(Used) \in Nat
         /\ Cardinality(Used) < 3 * Cardinality(Workers)
<1> USE UserServiceAssumption
<1> DEFINE All == Workers \X Slots
           mine == <<w, Slot(worker[w].step)>>
<1>1. IsFiniteSet(Slots) /\ Cardinality(Slots) = 3
  <2>1. IsFiniteSet({"auth"}) /\ Cardinality({"auth"}) = 1
    BY FS_Singleton
  <2>2. IsFiniteSet({"auth", "check"}) /\ Cardinality({"auth", "check"}) = 2
    <3>1. {"auth", "check"} = {"auth"} \cup {"check"}
      OBVIOUS
    <3> QED
      BY <2>1, <3>1, FS_AddElement
  <2>3. Slots = {"auth", "check"} \cup {"update"}
        /\ "update" \notin {"auth", "check"}
    BY DEF Slots
  <2>4. \A S, x : IsFiniteSet(S) => IsFiniteSet(S \cup {x})
    BY FS_AddElement
  <2>5. \A S, x : (IsFiniteSet(S) /\ x \notin S)
                   => Cardinality(S \cup {x}) = Cardinality(S) + 1
    BY FS_AddElement
  <2>6. Cardinality({"auth", "check"} \cup {"update"})
          = Cardinality({"auth", "check"}) + 1
    BY <2>2, <2>3, <2>5
  <2>7. IsFiniteSet({"auth", "check"} \cup {"update"})
    BY <2>2, <2>4
  <2> QED
    BY <2>2, <2>3, <2>6, <2>7
<1>2. IsFiniteSet(All) /\ Cardinality(All) = Cardinality(Workers) * 3
  BY <1>1, FS_Product
<1>3. Used \subseteq All
  BY DEF Used
<1>4. mine \in All /\ mine \notin Used
  BY SlotTyped DEF Used, Waiting
<1>5. Cardinality(Used) <= Cardinality(All) /\ Used # All
  BY <1>2, <1>3, <1>4, FS_Subset
<1>6. Cardinality(Used) # Cardinality(All) /\ IsFiniteSet(Used)
  BY <1>2, <1>3, <1>5, FS_Subset
<1>7. Cardinality(Used) \in Nat /\ Cardinality(All) \in Nat
      /\ Cardinality(Workers) \in Nat
  BY <1>2, <1>6, FS_CardinalityType
<1> QED
  BY <1>2, <1>5, <1>6, <1>7

\* By counting: with three connections a worker, the most a login holds, no
\* statement is skipped for want of one.
NeverWaitsInVain ==
  size >= 3 * Cardinality(Workers) => \A w \in Workers : Waiting(w) => Free > 0

LEMMA PoolNeverEmpty == TypeOK => NeverWaitsInVain
<1> SUFFICES ASSUME TypeOK, size >= 3 * Cardinality(Workers),
                    NEW w \in Workers, Waiting(w)
             PROVE  Free > 0
  BY DEF NeverWaitsInVain
<1>1. Cardinality(Workers) \in Nat /\ size \in Nat
  BY UserServiceAssumption, FS_CardinalityType DEF TypeOK
<1> QED
  BY <1>1, RoomWhileWaiting DEF Free

-----------------------------------------------------------------------------
(* The check of the online state, when no statement is skipped.            *)

\* Only the start of the process changes the size of the pool, and failures are
\* not taken back: a pool that is ample after a step of a call was so before.
LEMMA AmpleBefore ==
  ASSUME TypeOK, size' = size, faults' = faults \/ faults' = faults + 1, Ample'
  PROVE  Ample /\ faults' = faults
BY DEF Ample, TypeOK

\* What leaves a login alone leaves it sound.
LEMMA OthersSound ==
  ASSUME TypeOK, NEW v \in Workers, LoginSound(v), worker'[v] = worker[v],
         v \in offlineSeen => v \in offlineSeen',
         worker[v].op = "login"
           => \A u \in Users : (u = worker[v].id /\ state'[u] = "offline")
                => state[u] = "offline" \/ v \in offlineSeen',
         Ample' => Ample
  PROVE  LoginSound(v)'
BY DEF LoginSound

\* What worker w does to its own login keeps it sound.
LEMMA OwnSound ==
  ASSUME TypeOK, NEW w \in Workers, LoginSound(w), NeverWaitsInVain,
         Execute(w) \/ Receive(w) \/ Reply(w) \/ Return(w)
  PROVE  LoginSound(w)'
<1> USE DEF LoginSound, LoginSteps, TypeOK, logins, registrations, process
<1>1. CASE Acquire(w)
  <2>1. worker[w] \in Busy
    BY <1>1, BusyWorker DEF Acquire, Waiting, PoolSteps
  <2>2. /\ worker'[w].op = worker[w].op /\ worker'[w].step = worker[w].step
        /\ worker'[w].id = worker[w].id /\ worker'[w].user = worker[w].user
    BY <1>1, <2>1 DEF Acquire, Busy
  <2> QED
    BY <1>1, <2>2 DEF Acquire, Ample
<1>2. CASE TimedOut(w) \/ QueryFails(w)
  <2>1. worker[w] \in Busy /\ worker[w].step \in PoolSteps
    BY <1>2, BusyWorker DEF TimedOut, QueryFails, Waiting, PoolSteps
  <2>2. ~Ample'
    <3>1. CASE TimedOut(w)
      <4>1. ~(size >= 3 * Cardinality(Workers))
        BY <3>1 DEF TimedOut, NeverWaitsInVain
      <4> QED
        BY <3>1, <4>1 DEF TimedOut, Ample
    <3>2. CASE QueryFails(w)
      BY <3>2 DEF QueryFails, Fault, Ample
    <3> QED
      BY <1>2, <3>1, <3>2
  <2>3. state' = state /\ Without(w)
    BY <1>2 DEF TimedOut, QueryFails
  <2>4. CASE worker[w].step = "cached"
    <3>1. /\ worker'[w].op = worker[w].op /\ worker'[w].step = "auth"
          /\ worker'[w].id = worker[w].user /\ worker'[w].user = worker[w].user
      BY <2>1, <2>3, <2>4 DEF Without, Busy
    <3>2. state[worker[w].user] = "offline" => w \in offlineSeen'
      BY <2>3, <2>4 DEF Without, WorksWith
    <3>3. worker[w].user \in Users
      BY <2>1 DEF Busy
    <3> QED
      BY <2>2, <2>3, <3>1, <3>2, <3>3
  <2>5. CASE worker[w].step # "cached" /\ worker[w].op = "login"
    <3>1. offlineSeen' = offlineSeen
      BY <2>3, <2>5 DEF Without
    <3>2. PICK next \in {"refuse", "update", "accept"} : Goto(w, next)
      BY <2>1, <2>3, <2>5 DEF Without, AcceptLogin, PoolSteps
    <3>3. /\ worker'[w].op = worker[w].op /\ worker'[w].step = next
          /\ worker'[w].id = worker[w].id
      BY <2>1, <3>2 DEF Goto, Busy
    <3> QED
      BY <2>2, <2>3, <2>5, <3>1, <3>2, <3>3
  <2>6. CASE worker[w].step # "cached" /\ worker[w].op # "login"
    <3>1. (\E step \in Steps : Goto(w, step)) \/ AcceptLogout(w)
      BY <2>1, <2>3, <2>6 DEF Without, AcceptLogin, PoolSteps, Steps
    <3>2. worker'[w].op = worker[w].op
      BY <2>1, <3>1 DEF Goto, AcceptLogout, Busy
    <3> QED
      BY <2>6, <3>2
  <2> QED
    BY <2>4, <2>5, <2>6
<1>3. CASE Receive(w)
  <2>1. CASE \E u \in Users, cred \in BOOLEAN : CallLogin(w, u, cred)
    <3>1. PICK u \in Users, cred \in BOOLEAN : CallLogin(w, u, cred)
      BY <2>1
    <3> DEFINE id == IF cached[u] = None THEN u ELSE cached[u]
    <3>2. id \in Users /\ cached[u] \in Users \cup {None}
      OBVIOUS
    <3>3. /\ worker'[w].step \in {"auth", "cached"}
          /\ worker'[w].user = u /\ worker'[w].id = id /\ state' = state
      BY <3>1, <3>2 DEF CallLogin, Call
    <3>4. state[id] = "offline" => w \in offlineSeen'
      BY <3>1 DEF CallLogin, WorksWith
    <3> QED
      BY <3>2, <3>3, <3>4
  <2>2. CASE \E u \in Users :
               CallLogout(w, u) \/ CallRegister(w, u) \/ CallFriends(w, u)
    BY <2>2 DEF CallLogout, CallRegister, CallFriends, Call
  <2> QED
    BY <1>3, <2>1, <2>2 DEF Receive
<1>4. CASE Authenticate(w)
  <2>1. worker[w] \in Busy /\ worker[w].step \in {"cached", "auth"}
    BY <1>4, BusyWorker DEF Authenticate, Ready
  <2>2. CASE Goto(w, "check") \/ Goto(w, "refuse")
    <3>1. /\ worker'[w].op = worker[w].op
          /\ worker'[w].step \in {"check", "refuse"}
          /\ worker'[w].id = worker[w].id /\ worker'[w].user = worker[w].user
      BY <2>1, <2>2 DEF Goto, Busy
    <3>2. offlineSeen' = offlineSeen /\ state' = state
      <4>1. state' = state
        BY <1>4 DEF Authenticate
      <4>2. CASE worker[w].cred /\ worker[w].user \in known
        BY <1>4, <4>2 DEF Authenticate
      <4>3. CASE ~(worker[w].cred /\ worker[w].user \in known)
        <5>1. Without(w)
          BY <1>4, <4>3 DEF Authenticate
        <5>2. worker[w].step # "cached"
          <6>1. SUFFICES ASSUME worker[w].step = "cached" PROVE FALSE
            OBVIOUS
          <6>2. worker'[w].step = "auth"
            BY <2>1, <5>1, <6>1 DEF Without, Busy
          <6>3. worker'[w].step \in {"check", "refuse"}
            BY <2>1, <2>2 DEF Goto, Busy
          <6> QED
            BY <6>2, <6>3
        <5> QED
          BY <4>1, <5>1, <5>2 DEF Without
      <4> QED
        BY <4>1, <4>2, <4>3
    <3> QED
      BY <3>1, <3>2
  <2>3. CASE Without(w) /\ worker[w].step = "cached"
    <3>1. /\ worker'[w].op = worker[w].op /\ worker'[w].step = "auth"
          /\ worker'[w].id = worker[w].user /\ worker'[w].user = worker[w].user
      BY <2>1, <2>3 DEF Without, Busy
    <3>2. state[worker[w].user] = "offline" => w \in offlineSeen'
      BY <2>3 DEF Without, WorksWith
    <3>3. worker[w].user \in Users /\ state' = state
      BY <1>4, <2>1 DEF Authenticate, Busy
    <3> QED
      BY <3>1, <3>2, <3>3
  <2> QED
    BY <1>4, <2>1, <2>2, <2>3 DEF Authenticate, Without
<1>5. CASE CheckState(w)
  <2>1. worker[w] \in Busy
    BY <1>5, BusyWorker DEF CheckState, Ready
  <2>2. /\ worker'[w].op = worker[w].op
        /\ worker'[w].step = IF state[worker[w].id] = "online"
                             THEN "refuse" ELSE "update"
        /\ worker'[w].id = worker[w].id /\ worker'[w].user = worker[w].user
    BY <1>5, <2>1 DEF CheckState, Goto, Busy
  <2>3. state' = state /\ offlineSeen' = offlineSeen
    BY <1>5 DEF CheckState
  <2> QED
    BY <2>2, <2>3
<1>6. CASE SetOnline(w)
  <2>1. worker[w] \in Busy /\ worker[w].step = "update"
    BY <1>6, BusyWorker DEF SetOnline, Ready
  <2>2. /\ worker'[w].op = worker[w].op /\ worker'[w].step = "accept"
        /\ worker'[w].id = worker[w].id /\ worker'[w].user = worker[w].user
    BY <1>6, <2>1 DEF SetOnline, AcceptLogin, Goto, Busy
  <2>3. /\ worker[w].id \in Users => state'[worker[w].id] = "online"
        /\ offlineSeen' = offlineSeen /\ size' = size /\ faults' = faults
    BY <1>6 DEF SetOnline
  <2> QED
    BY <2>1, <2>2, <2>3 DEF Ample
<1>7. CASE SetOffline(w)
  <2>1. worker[w] \in Busy /\ worker[w].op # "login"
    BY <1>7, BusyWorker DEF SetOffline, Ready
  <2>2. worker'[w].op = worker[w].op
    BY <1>7, <2>1 DEF SetOffline, AcceptLogout, Busy
  <2> QED
    BY <2>1, <2>2
<1>8. CASE UserExists(w) \/ InsertUser(w) \/ FriendsStatement(w)
  <2>1. worker[w] \in Busy /\ worker[w].op # "login"
    BY <1>8, BusyWorker DEF UserExists, InsertUser, FriendsStatement
  <2>2. worker'[w].op = worker[w].op
    BY <1>8, <2>1 DEF UserExists, InsertUser, FriendsStatement, Goto, Busy
  <2> QED
    BY <2>1, <2>2
<1>9. CASE NewId(w)
  <2>1. worker[w] \in Busy /\ worker[w].op # "login"
    BY <1>9, BusyWorker DEF NewId
  <2>2. worker'[w].op = worker[w].op
    BY <1>9, <2>1 DEF NewId, Busy
  <2> QED
    BY <2>1, <2>2
<1>10. CASE Reply(w) \/ Return(w)
  <2>1. worker'[w].op = "none"
    <3>1. \A held : [Idle EXCEPT !.step = "return", !.held = held].op = "none"
      BY DEF Idle
    <3>2. Idle.op = "none"
      BY DEF Idle
    <3>3. worker \in [Workers -> Busy \cup Returning \cup {Idle}]
      OBVIOUS
    <3> HIDE DEF TypeOK, LoginSound
    <3>4. worker'[w] = Idle
            \/ worker'[w] = [Idle EXCEPT !.step = "return", !.held = worker[w].held]
      BY <1>10, <3>3 DEF Reply, Return
    <3> QED
      BY <3>1, <3>2, <3>4
  <2> QED
    BY <2>1
<1> QED
  BY <1>1, <1>2, <1>3, <1>4, <1>5, <1>6, <1>7, <1>8, <1>9, <1>10 DEF Execute

\* A step of worker w changes nothing another login rests on, but for a logout,
\* which the login then has seen.
LEMMA StepOfAnother ==
  ASSUME TypeOK, NEW w \in Workers, NEW v \in Workers \ {w}, LoginSound(v),
         Execute(w) \/ Receive(w) \/ Reply(w) \/ Return(w)
  PROVE  LoginSound(v)'
<1> USE DEF TypeOK, logins, registrations, process
<1> DEFINE Same == worker'[v] = worker[v]
           Keeps == v \in offlineSeen => v \in offlineSeen'
           Counts == size' = size /\ (faults' = faults \/ faults' = faults + 1)
           Sees == worker[v].op = "login"
                     => \A u \in Users : (u = worker[v].id /\ state'[u] = "offline")
                          => state[u] = "offline" \/ v \in offlineSeen'
<1> SUFFICES Same /\ Keeps /\ Counts /\ Sees
  BY OthersSound, AmpleBefore
<1>1. CASE Acquire(w)
  BY <1>1 DEF Acquire
<1>2. CASE TimedOut(w) \/ QueryFails(w) \/ Authenticate(w)
  <2>1. ASSUME Without(w), worker[w].step \in PoolSteps PROVE Same /\ Keeps
    <3>1. CASE worker[w].step = "cached"
      BY <2>1, <3>1 DEF Without, WorksWith
    <3>2. CASE worker[w].step # "cached"
      <4>1. offlineSeen' = offlineSeen
        BY <2>1, <3>2 DEF Without
      <4>2. (\E step \in Steps : Goto(w, step)) \/ AcceptLogout(w)
        BY <2>1, <3>2 DEF Without, AcceptLogin, PoolSteps, Steps
      <4> QED
        BY <4>1, <4>2 DEF Goto, AcceptLogout
    <3> QED
      BY <3>1, <3>2
  <2>2. CASE TimedOut(w) \/ QueryFails(w)
    BY <2>1, <2>2 DEF TimedOut, QueryFails, Fault, Waiting
  <2>3. CASE Authenticate(w)
    BY <2>1, <2>3 DEF Authenticate, Ready, PoolSteps, Goto
  <2> QED
    BY <1>2, <2>2, <2>3
<1>3. CASE Receive(w)
  BY <1>3 DEF Receive, CallLogin, CallLogout, CallRegister, CallFriends, Call,
     WorksWith
<1>4. CASE CheckState(w) \/ SetOnline(w)
  BY <1>4 DEF CheckState, SetOnline, AcceptLogin, Goto
<1>5. CASE SetOffline(w)
  BY <1>5 DEF SetOffline, AcceptLogout
<1>6. CASE UserExists(w) \/ InsertUser(w) \/ FriendsStatement(w)
  BY <1>6 DEF UserExists, InsertUser, FriendsStatement, Fault, Goto
<1>7. CASE NewId(w) \/ Reply(w) \/ Return(w)
  BY <1>7 DEF NewId, Reply, Return
<1> QED
  BY <1>1, <1>2, <1>3, <1>4, <1>5, <1>6, <1>7 DEF Execute

LEMMA RefusalInvStarts == Init => RefusalInv
BY DEF Init, RefusalInv, LoginSound, Idle

\* Every step keeps the logins sound: the only ways on for a login that is
\* neither skipped nor refused.
LEMMA RefusalInvKept ==
  ASSUME TypeOK, RefusalInv, NeverWaitsInVain, [Next]_vars
  PROVE  RefusalInv'
<1> USE DEF logins, registrations, process
<1>1. ASSUME NEW w \in Workers, Receive(w) \/ Execute(w) \/ Reply(w) \/ Return(w)
      PROVE  RefusalInv'
  <2>1. up' = up
    BY <1>1 DEF Receive, CallLogin, CallLogout, CallRegister, CallFriends, Call,
       Execute, Acquire, TimedOut, QueryFails, Authenticate, CheckState,
       SetOnline, SetOffline, UserExists, InsertUser, NewId, FriendsStatement,
       Reply, Return
  <2>2. up
    <3>1. CASE Receive(w)
      BY <3>1 DEF Receive, CallLogin, CallLogout, CallRegister, CallFriends, Call
    <3>2. CASE Execute(w) \/ Reply(w) \/ Return(w)
      <4>1. worker[w] # Idle
        BY <3>2 DEF Execute, Acquire, TimedOut, QueryFails, Waiting, PoolSteps,
           Authenticate, CheckState, SetOnline, SetOffline, Ready, UserExists,
           InsertUser, NewId, FriendsStatement, Reply, Return, Idle
      <4> QED
        BY <4>1 DEF RefusalInv, TypeOK
    <3> QED
      BY <1>1, <3>1, <3>2
  <2>3. \A v \in Workers : LoginSound(v)'
    BY <1>1, OwnSound, StepOfAnother DEF RefusalInv
  <2> QED
    BY <2>1, <2>2, <2>3 DEF RefusalInv
<1>2. ASSUME NEW u \in Users, CacheForgets(u) PROVE RefusalInv'
  BY <1>2 DEF CacheForgets, RefusalInv, LoginSound, Ample
<1>3. CASE Crash
  BY <1>3 DEF Crash, RefusalInv, LoginSound, Idle
<1>4. CASE Start
  BY <1>4 DEF Start, RefusalInv, LoginSound, Idle
<1>5. CASE UNCHANGED vars
  BY <1>5 DEF vars, RefusalInv, LoginSound, Ample
<1> QED
  BY <1>1, <1>2, <1>3, <1>4, <1>5 DEF Next

\* A user who stays online is refused, for any number of workers and users, if
\* the pool has three connections a worker and no statement has failed (the two
\* state checks of UserServiceImpl::Login).
THEOREM OnlineUserRefused == Spec => []AlreadyOnlineRefused
<1>1. RefusalInv => AlreadyOnlineRefused
  BY DEF RefusalInv, LoginSound, AlreadyOnlineRefused
<1> QED
  BY <1>1, RefusalInvStarts, RefusalInvKept, PoolNeverEmpty, UserServiceTypeCorrect, PTL DEF Spec
-----------------------------------------------------------------------------
(* The id a login or a registration is answered with.                      *)

\* A cached id is the user's own, unless the name was registered by a call that
\* was passed on db_.
CacheSound == \A u \in Users : cached[u] \in {None, u} \/ u \in mistaken

\* The id a call works with; and between the INSERT and the reading of the insert
\* id the last id is the call's own, unless another call has passed it.
IdSound(w) ==
  /\ worker[w].op = "login" => /\ worker[w].step \in LoginSteps
                               /\ worker[w].id = worker[w].user \/ worker[w].user \in mistaken
  /\ worker[w].step \in PoolSteps => worker[w].op \in {"login", "logout"}
  /\ worker[w].step = "statement" => worker[w].op = "friends"
  /\ worker[w].step \in {"exists", "insert", "newid"} => worker[w].op = "register"
  /\ worker[w].step = "newid" => lastId = worker[w].user \/ w \in shared
  /\ worker[w].op = "register" /\ worker[w].step = "accept" =>
        worker[w].id = worker[w].user \/ worker[w].user \in mistaken

IdInv == CacheSound /\ \A w \in Workers : IdSound(w)

\* What leaves a call alone, and does not pass it on db_, leaves its id sound.
LEMMA OthersIds ==
  ASSUME NEW v \in Workers, IdSound(v), worker'[v] = worker[v], mistaken \subseteq mistaken',
         worker[v].step = "newid" =>
            (v \in shared') \/ (lastId' = lastId /\ (v \in shared => v \in shared'))
  PROVE  IdSound(v)'
BY DEF IdSound

\* A step that touches neither db_ nor the registered names, and where only
\* worker w moves.
LEMMA PoolStepIds ==
  ASSUME IdInv, NEW w \in Workers, UNCHANGED <<lastId, shared, mistaken>>,
         \A v \in Workers \ {w} : worker'[v] = worker[v],
         IdSound(w)', CacheSound'
  PROVE  IdInv'
BY OthersIds DEF IdInv

\* A step of worker w on db_.
LEMMA DbStepIds ==
  ASSUME IdInv, NEW w \in Workers, mistaken \subseteq mistaken',
         \A v \in Workers \ {w} : worker'[v] = worker[v],
         \A v \in Workers \ {w} : worker[v].step = "newid" =>
            (v \in shared') \/ (lastId' = lastId /\ (v \in shared => v \in shared')),
         IdSound(w)', CacheSound'
  PROVE  IdInv'
BY OthersIds DEF IdInv

LEMMA GotoEffect ==
  ASSUME TypeOK, NEW w \in Workers, worker[w] \in Busy, NEW step, Goto(w, step)
  PROVE  /\ worker'[w].step = step /\ worker'[w].op = worker[w].op
         /\ worker'[w].user = worker[w].user /\ worker'[w].id = worker[w].id
         /\ \A v \in Workers \ {w} : worker'[v] = worker[v]
BY DEF TypeOK, Busy, Goto

LEMMA WithoutIds ==
  ASSUME TypeOK, NEW w \in Workers, worker[w].step \in PoolSteps, IdSound(w), Without(w),
         UNCHANGED <<lastId, shared, mistaken>>
  PROVE  IdSound(w)' /\ \A v \in Workers \ {w} : worker'[v] = worker[v]
<1>1. worker[w] \in Busy /\ worker[w].op \in {"login", "logout"}
  BY BusyWorker DEF PoolSteps, IdSound
<1>2. CASE worker[w].step = "cached"
  <2>1. /\ worker'[w].step = "auth" /\ worker'[w].op = worker[w].op
        /\ worker'[w].user = worker[w].user /\ worker'[w].id = worker[w].user
        /\ \A v \in Workers \ {w} : worker'[v] = worker[v]
    BY <1>1, <1>2 DEF Without, TypeOK, Busy
  <2> QED
    BY <1>1, <2>1 DEF IdSound, LoginSteps
<1>3. CASE \/ worker[w].step = "auth" /\ Goto(w, "refuse")
           \/ worker[w].step = "check" /\ Goto(w, "update")
           \/ worker[w].step = "update" /\ Goto(w, "accept")
  <2>1. PICK step \in {"refuse", "update", "accept"} : Goto(w, step)
    BY <1>3
  <2>2. /\ worker'[w].step = step /\ worker'[w].op = worker[w].op
        /\ worker'[w].user = worker[w].user /\ worker'[w].id = worker[w].id
        /\ \A v \in Workers \ {w} : worker'[v] = worker[v]
    BY <1>1, <2>1, GotoEffect
  <2> QED
    BY <1>1, <2>2 DEF IdSound, LoginSteps
<1>4. CASE worker[w].step = "offline" /\ AcceptLogout(w)
  <2>1. worker[w].op = "logout"
    BY <1>1, <1>4 DEF IdSound, LoginSteps
  <2>2. /\ worker'[w].step = "accept" /\ worker'[w].op = worker[w].op
        /\ \A v \in Workers \ {w} : worker'[v] = worker[v]
    BY <1>1, <1>4 DEF AcceptLogout, TypeOK, Busy
  <2> QED
    BY <2>1, <2>2 DEF IdSound, PoolSteps
<1> QED
  BY <1>2, <1>3, <1>4 DEF Without, PoolSteps, AcceptLogin

LEMMA IdInvStarts == Init => IdInv
BY DEF Init, Idle, IdInv, CacheSound, IdSound, PoolSteps

\* A new call.
LEMMA CallEffect ==
  ASSUME TypeOK, NEW w \in Workers, NEW op, NEW step, NEW u, NEW cred, NEW id,
         Call(w, op, step, u, cred, id)
  PROVE  /\ worker'[w].op = op /\ worker'[w].step = step
         /\ worker'[w].user = u /\ worker'[w].id = id
         /\ \A v \in Workers \ {w} : worker'[v] = worker[v]
         /\ UNCHANGED <<cached, lastId, shared, mistaken>>
BY DEF TypeOK, Call, registrations

LEMMA IdInvKept ==
  ASSUME TypeOK, IdInv, [Next]_vars
  PROVE  IdInv'
<1> USE DEF logins, registrations, process
<1>0. CacheSound /\ \A w \in Workers : IdSound(w)
  BY DEF IdInv
<1>1. UNCHANGED <<cached, mistaken>> => CacheSound'
  BY <1>0 DEF CacheSound
<1>2. ASSUME NEW w \in Workers, NEW u \in Users, NEW cred \in BOOLEAN, CallLogin(w, u, cred)
      PROVE  IdInv'
  <2> DEFINE id == IF cached[u] = None THEN u ELSE cached[u]
             step == IF cached[u] = None THEN "auth" ELSE "cached"
  <2>1. Call(w, "login", step, u, cred, id)
    BY <1>2 DEF CallLogin
  <2>2. (id = u \/ u \in mistaken) /\ step \in {"auth", "cached"}
    BY <1>0 DEF CacheSound
  <2> HIDE DEF id, step
  <2>3. /\ worker'[w].op = "login" /\ worker'[w].step = step
        /\ worker'[w].user = u /\ worker'[w].id = id
        /\ \A v \in Workers \ {w} : worker'[v] = worker[v]
        /\ UNCHANGED <<cached, lastId, shared, mistaken>>
    BY <2>1, CallEffect
  <2>4. IdSound(w)'
    BY <2>2, <2>3 DEF IdSound, LoginSteps
  <2> QED
    BY <1>1, <2>3, <2>4, PoolStepIds
<1>3. ASSUME NEW w \in Workers, NEW u \in Users,
             CallLogout(w, u) \/ CallRegister(w, u) \/ CallFriends(w, u)
      PROVE  IdInv'
  <2>1. PICK op, step, id :
          /\ Call(w, op, step, u, TRUE, id)
          /\ \/ op = "logout" /\ step = "offline"
             \/ op = "register" /\ step \in {"refuse", "exists"}
             \/ op = "friends" /\ step = "statement"
    BY <1>3, Zenon DEF CallLogout, CallRegister, CallFriends
  <2>2. /\ worker'[w].op = op /\ worker'[w].step = step
        /\ \A v \in Workers \ {w} : worker'[v] = worker[v]
        /\ UNCHANGED <<cached, lastId, shared, mistaken>>
    BY <2>1, CallEffect
  <2>3. IdSound(w)'
    BY <2>1, <2>2 DEF IdSound, PoolSteps
  <2> QED
    BY <1>1, <2>2, <2>3, PoolStepIds
<1>4. ASSUME NEW w \in Workers, Acquire(w) PROVE IdInv'
  <2>1. worker[w] \in Busy
    BY <1>4, BusyWorker DEF Acquire, Waiting, PoolSteps
  <2>2. /\ worker'[w].op = worker[w].op /\ worker'[w].step = worker[w].step
        /\ worker'[w].id = worker[w].id /\ worker'[w].user = worker[w].user
        /\ \A v \in Workers \ {w} : worker'[v] = worker[v]
        /\ UNCHANGED <<cached, lastId, shared, mistaken>>
    BY <1>4, <2>1 DEF Acquire, Busy, TypeOK
  <2>3. IdSound(w)'
    BY <1>0, <2>2 DEF IdSound
  <2> QED
    BY <1>1, <2>2, <2>3, PoolStepIds
<1>5. ASSUME NEW w \in Workers, TimedOut(w) \/ QueryFails(w) PROVE IdInv'
  <2>1. /\ worker[w].step \in PoolSteps /\ Without(w)
        /\ UNCHANGED <<cached, lastId, shared, mistaken>>
    BY <1>5 DEF TimedOut, QueryFails, Waiting
  <2>2. IdSound(w)' /\ \A v \in Workers \ {w} : worker'[v] = worker[v]
    BY <1>0, <2>1, WithoutIds
  <2> QED
    BY <1>1, <2>1, <2>2, PoolStepIds
\* A call on the pool goes on with the id it has.
<1>6. ASSUME NEW w \in Workers, NEW step \in {"check", "refuse", "update", "accept"},
             worker[w].step \in PoolSteps, worker[w].op = "login", Goto(w, step),
             UNCHANGED <<lastId, shared, mistaken>>, CacheSound'
      PROVE  IdInv'
  <2>1. worker[w] \in Busy
    BY <1>6, BusyWorker DEF PoolSteps
  <2>2. /\ worker'[w].step = step /\ worker'[w].op = worker[w].op
        /\ worker'[w].user = worker[w].user /\ worker'[w].id = worker[w].id
        /\ \A v \in Workers \ {w} : worker'[v] = worker[v]
    BY <1>6, <2>1, GotoEffect
  <2>3. IdSound(w)'
    BY <1>0, <1>6, <2>2 DEF IdSound, LoginSteps
  <2> QED
    BY <1>6, <2>2, <2>3, PoolStepIds
<1>7. ASSUME NEW w \in Workers, Authenticate(w) PROVE IdInv'
  <2>1. /\ worker[w].step \in {"cached", "auth"} /\ UNCHANGED <<lastId, shared, mistaken>>
    BY <1>7 DEF Authenticate, Ready
  <2>2. worker[w].step \in PoolSteps /\ worker[w].op \in {"login", "logout"}
    BY <1>0, <2>1 DEF IdSound, PoolSteps
  <2>3. CASE Without(w) /\ UNCHANGED cached
    BY <1>0, <1>1, <2>1, <2>2, <2>3, WithoutIds, PoolStepIds
  <2>4. CASE /\ Goto(w, "check")
             /\ \/ UNCHANGED cached
                \/ cached' = [cached EXCEPT ![worker[w].user] = worker[w].user]
    <3>1. CacheSound'
      BY <1>0, <2>1, <2>4 DEF CacheSound, TypeOK
    <3>2. worker[w] \in Busy
      BY <2>2, BusyWorker DEF PoolSteps
    <3>3. /\ worker'[w].step = "check" /\ worker'[w].op = worker[w].op
          /\ worker'[w].user = worker[w].user /\ worker'[w].id = worker[w].id
          /\ \A v \in Workers \ {w} : worker'[v] = worker[v]
      BY <2>4, <3>2, GotoEffect
    <3>4. IdSound(w)'
      BY <1>0, <2>1, <2>2, <3>3 DEF IdSound, LoginSteps, PoolSteps
    <3> QED
      BY <2>1, <3>1, <3>3, <3>4, PoolStepIds
  <2> QED
    BY <1>7, <2>3, <2>4 DEF Authenticate
<1>8. ASSUME NEW w \in Workers, CheckState(w) \/ SetOnline(w) PROVE IdInv'
  <2>1. PICK step \in {"refuse", "update", "accept"} : Goto(w, step)
    BY <1>8 DEF CheckState, SetOnline, AcceptLogin
  <2>2. /\ worker[w].step \in {"check", "update"}
        /\ UNCHANGED <<cached, lastId, shared, mistaken>>
    BY <1>8 DEF CheckState, SetOnline, Ready
  <2>3. worker[w] \in Busy
    BY <2>2, BusyWorker
  <2>4. /\ worker'[w].step = step /\ worker'[w].op = worker[w].op
        /\ worker'[w].user = worker[w].user /\ worker'[w].id = worker[w].id
        /\ \A v \in Workers \ {w} : worker'[v] = worker[v]
    BY <2>1, <2>3, GotoEffect
  <2>5. IdSound(w)'
    BY <1>0, <2>2, <2>4 DEF IdSound, LoginSteps, PoolSteps
  <2> QED
    BY <1>1, <2>2, <2>4, <2>5, PoolStepIds
<1>9. ASSUME NEW w \in Workers, SetOffline(w) PROVE IdInv'
  <2>1. /\ worker[w].step = "offline" /\ AcceptLogout(w)
        /\ UNCHANGED <<cached, lastId, shared, mistaken>>
    BY <1>9 DEF SetOffline, Ready
  <2>2. worker[w] \in Busy /\ worker[w].op = "logout"
    BY <1>0, <2>1, BusyWorker DEF IdSound, LoginSteps, PoolSteps
  <2>3. /\ worker'[w].step = "accept" /\ worker'[w].op = "logout"
        /\ \A v \in Workers \ {w} : worker'[v] = worker[v]
    BY <2>1, <2>2 DEF AcceptLogout, TypeOK, Busy
  <2>4. IdSound(w)'
    BY <2>3 DEF IdSound, PoolSteps
  <2> QED
    BY <1>1, <2>1, <2>3, <2>4, PoolStepIds
\* A statement that resets the insert id passes every other registration.
<1>10. ASSUME NEW w \in Workers, UserExists(w) \/ FriendsStatement(w) PROVE IdInv'
  <2>1. PICK step \in {"refuse", "insert", "accept"} :
          Goto(w, step) /\ (step \in {"refuse", "insert"} <=> UserExists(w))
    BY <1>10 DEF UserExists, FriendsStatement, Goto
  <2>2. /\ worker[w].step \in {"exists", "statement"}
        /\ shared' = Passed(w) /\ UNCHANGED <<cached, mistaken>>
        /\ UserExists(w) => worker[w].step = "exists"
        /\ FriendsStatement(w) => worker[w].step = "statement"
    BY <1>10 DEF UserExists, FriendsStatement
  <2>3. worker[w] \in Busy
    BY <2>2, BusyWorker
  <2>4. /\ worker'[w].step = step /\ worker'[w].op = worker[w].op
        /\ \A v \in Workers \ {w} : worker'[v] = worker[v]
    BY <2>1, <2>3, GotoEffect
  <2>5. IdSound(w)'
    BY <1>0, <1>10, <2>1, <2>2, <2>4 DEF IdSound, LoginSteps, PoolSteps
  <2>6. \A v \in Workers \ {w} : worker[v].step = "newid" => v \in shared'
    BY <2>2 DEF Passed
  <2> QED
    BY <1>1, <2>2, <2>4, <2>5, <2>6, DbStepIds
<1>11. ASSUME NEW w \in Workers, InsertUser(w) PROVE IdInv'
  <2>1. worker[w].step = "insert" /\ UNCHANGED <<cached, mistaken>>
    BY <1>11 DEF InsertUser
  <2>2. worker[w] \in Busy /\ worker[w].op = "register"
    BY <1>0, <2>1, BusyWorker DEF IdSound
  <2>3. CASE /\ lastId' = worker[w].user /\ shared' = Passed(w) \ {w} /\ Goto(w, "newid")
    <3>1. /\ worker'[w].step = "newid" /\ worker'[w].op = worker[w].op
          /\ worker'[w].user = worker[w].user
          /\ \A v \in Workers \ {w} : worker'[v] = worker[v]
      BY <2>2, <2>3, GotoEffect
    <3>2. IdSound(w)'
      BY <2>2, <2>3, <3>1 DEF IdSound, PoolSteps
    <3>3. \A v \in Workers \ {w} : worker[v].step = "newid" => v \in shared'
      BY <2>3 DEF Passed
    <3> QED
      BY <1>1, <2>1, <3>1, <3>2, <3>3, DbStepIds
  <2>4. CASE UNCHANGED <<lastId, shared>> /\ Goto(w, "refuse")
    <3>1. /\ worker'[w].step = "refuse" /\ worker'[w].op = worker[w].op
          /\ \A v \in Workers \ {w} : worker'[v] = worker[v]
      BY <2>2, <2>4, GotoEffect
    <3>2. IdSound(w)'
      BY <2>2, <3>1 DEF IdSound, PoolSteps
    <3> QED
      BY <1>1, <2>1, <2>4, <3>1, <3>2, PoolStepIds
  <2> QED
    BY <1>11, <2>3, <2>4 DEF InsertUser
<1>12. ASSUME NEW w \in Workers, NewId(w) PROVE IdInv'
  <2>1. /\ worker[w].step = "newid"
        /\ cached' = [cached EXCEPT ![worker[w].user] = lastId]
        /\ mistaken' = IF w \in shared THEN mistaken \cup {worker[w].user} ELSE mistaken
        /\ shared' = shared \ {w} /\ lastId' = lastId
    BY <1>12 DEF NewId
  <2>2. /\ worker[w] \in Busy /\ worker[w].op = "register"
        /\ lastId = worker[w].user \/ w \in shared
    BY <1>0, <2>1, BusyWorker DEF IdSound
  <2>3. /\ worker'[w].step = "accept" /\ worker'[w].op = "register"
        /\ worker'[w].user = worker[w].user /\ worker'[w].id = lastId
        /\ \A v \in Workers \ {w} : worker'[v] = worker[v]
    BY <1>12, <2>2 DEF NewId, TypeOK, Busy
  <2>4. mistaken \subseteq mistaken' /\ (lastId = worker[w].user \/ worker[w].user \in mistaken')
    BY <2>1, <2>2
  <2>5. IdSound(w)'
    BY <2>3, <2>4 DEF IdSound, PoolSteps
  <2>6. CacheSound'
    BY <1>0, <2>1, <2>4 DEF CacheSound, TypeOK
  <2> QED
    BY <2>1, <2>3, <2>4, <2>5, <2>6, DbStepIds
<1>13. ASSUME NEW w \in Workers, Reply(w) \/ Return(w) PROVE IdInv'
  <2>1. /\ worker'[w].step \in {"idle", "return"} /\ worker'[w].op = "none"
        /\ \A v \in Workers \ {w} : worker'[v] = worker[v]
        /\ UNCHANGED <<cached, lastId, shared, mistaken>>
    <3> DEFINE answered == [Idle EXCEPT !.step = "return", !.held = worker[w].held]
    <3>1. /\ answered.step = "return" /\ answered.op = "none"
          /\ Idle.step = "idle" /\ Idle.op = "none"
      BY DEF Idle
    <3>2. /\ worker' = [worker EXCEPT ![w] = answered] \/ worker' = [worker EXCEPT ![w] = Idle]
          /\ UNCHANGED <<cached, lastId, shared, mistaken>>
      BY <1>13 DEF Reply, Return
    <3> HIDE DEF answered
    <3> QED
      BY <3>1, <3>2 DEF TypeOK
  <2>2. IdSound(w)'
    BY <2>1 DEF IdSound, PoolSteps
  <2> QED
    BY <1>1, <2>1, <2>2, PoolStepIds
<1>14. ASSUME NEW u \in Users, CacheForgets(u) PROVE IdInv'
  <2>1. CacheSound'
    BY <1>0, <1>14 DEF CacheForgets, CacheSound, TypeOK
  <2>2. UNCHANGED <<worker, lastId, shared, mistaken>>
    BY <1>14 DEF CacheForgets
  <2> QED
    BY <1>0, <2>1, <2>2 DEF IdInv, IdSound
<1>15. CASE Crash
  <2>1. /\ \A w \in Workers : worker'[w].op = "none" /\ worker'[w].step = "idle"
        /\ UNCHANGED <<cached, mistaken>>
    BY <1>15 DEF Crash, Idle
  <2> QED
    BY <1>1, <2>1 DEF IdInv, IdSound, PoolSteps
<1>16. CASE Start
  BY <1>0, <1>1, <1>16 DEF Start, IdInv, IdSound
<1>17. CASE UNCHANGED vars
  BY <1>0, <1>1, <1>17 DEF vars, IdInv, IdSound
<1> QED
  BY <1>2, <1>3, <1>4, <1>5, <1>7, <1>8, <1>9, <1>10, <1>11, <1>12, <1>13, <1>14, <1>15, <1>16,
     <1>17 DEF Next, Receive, Execute

\* A login or registration is answered with the id of its own user, unless its name
\* was registered by a call that was passed on db_ (user_service.cc:230).
THEOREM AnsweredWithOwnId == Spec => []AnsweredOwnId
<1>1. IdInv => AnsweredOwnId
  BY DEF IdInv, IdSound, AnsweredOwnId
<1> QED
  BY <1>1, IdInvStarts, IdInvKept, UserServiceTypeCorrect, PTL DEF Spec

-----------------------------------------------------------------------------
(* Sessions: the threads of the gateway and the calls executed for them.    *)

\* The operation a blocked handler has called.
Op == [register |-> "register", login |-> "login", logout |-> "logout",
       close |-> "logout"]

InCall(w) == worker[w].step \notin {"idle", "return"}

\* A worker with a caller executes the call in which the handler of that thread is
\* blocked, and no other does; a thread whose call is lost has no worker.
CallerMatches ==
  \A w \in Workers : caller[w] # None =>
     /\ handler[caller[w]].step \in DOMAIN Method
     /\ InCall(w)
     /\ worker[w].op = Op[handler[caller[w]].step]
     /\ worker[w].user = handler[caller[w]].arg
CallersApart ==
  \A v, w \in Workers : caller[v] = caller[w] /\ caller[v] # None => v = w
LostWaits ==
  \A l \in lost : /\ handler[l].step \in DOMAIN Method
                  /\ \A w \in Workers : caller[w] # l

\* Without ends of the processes no call is lost, and none goes on without its caller.
NothingLost ==
  /\ crashes = 0 => up /\ lost = {} /\ \A m \in Methods : sockets[m].dead = 0
  /\ (crashes = 0 /\ restarts = 0) => \A w \in Workers : InCall(w) => caller[w] # None

CallerInv == CallerMatches /\ CallersApart /\ LostWaits /\ NothingLost

\* There is one socket at most for each thread and method, since a new one is only
\* opened when none is idle.
Served(m) == {l \in Loops : \E w \in Workers : caller[w] = l /\ MethodOf(l) = m}
SocketInv ==
  \A m \in Methods :
     sockets[m].live + sockets[m].dead + Cardinality(Served(m)) <= Cardinality(Loops)

\* Handlers run on the thread of their connection, which is up until its close
\* callback; a LOGOUT is for the user of the session.
HandlerInv ==
  /\ G!OwnThread
  /\ G!ServedUp
  /\ \A l \in Loops :
        handler[l].step = "logout" => sess[handler[l].conn] = handler[l].arg

\* One registration at a time is on db_, so none is passed by another call.
DbInv ==
  /\ \A v, w \in Workers :
        worker[v].step \in DbSteps /\ worker[w].step \in DbSteps => v = w
  /\ shared = {} /\ mistaken = {}
  /\ \A w \in Workers : worker[w].op = "logout" =>
        worker[w].step \in {"offline", "accept"} /\ worker[w].id = worker[w].user

EntryInv ==
  /\ EntriesNameSessions
  /\ \A u \in Users, c \in Conns : uid2conn[u] = c => conn[c] # "fresh"

\* The logout thread l waits for has been executed.
LoggedOut(l) ==
  \E w \in Workers : /\ caller[w] = l
                     /\ worker[w].op = "logout" /\ worker[w].step = "accept"

\* Who accounts for a user being online: a session that no executed logout is about
\* to end, an accepted login, or a logout that is still to be executed.
Present(u) ==
  \E c \in Conns : /\ LoggedIn(c, u)
                   /\ ~ (handler[LoopOf[c]].conn = c /\ LoggedOut(LoopOf[c]))
Arriving(u) ==
  \E w \in Workers : /\ caller[w] # None /\ worker[w].step = "accept"
                     /\ worker[w].op = "login" /\ worker[w].user = u
Departing(u) ==
  \E l \in Loops : /\ handler[l].step \in {"logout", "close"} /\ handler[l].arg = u
                   /\ ~ LoggedOut(l)

Undisturbed == Ample /\ crashes = 0 /\ restarts = 0

OnlineInv ==
  \A u \in Users \ replaced :
     Undisturbed /\ state[u] = "online" => Present(u) \/ Arriving(u) \/ Departing(u)

-----------------------------------------------------------------------------
(* What the steps of a call do to it.                                       *)

\* Worker w goes on with its call, and the others stay where they are.
GoesOn(w) ==
  /\ InCall(w) /\ worker[w] \in Busy
  /\ worker'[w].step \notin {"idle", "return"}
  /\ worker'[w].op = worker[w].op /\ worker'[w].user = worker[w].user
  /\ \A v \in Workers \ {w} : worker'[v] = worker[v]

LEMMA GotoGoesOn ==
  ASSUME TypeOK, NEW w \in Workers, InCall(w), NEW step, step \notin {"idle", "return"},
         Goto(w, step)
  PROVE  GoesOn(w) /\ worker'[w].step = step /\ worker'[w].id = worker[w].id
<1>1. worker[w] \in Busy
  BY BusyWorker DEF InCall
<1> QED
  BY <1>1, GotoEffect DEF GoesOn

LEMMA AcceptLogoutGoesOn ==
  ASSUME TypeOK, NEW w \in Workers, InCall(w), AcceptLogout(w)
  PROVE  GoesOn(w) /\ worker'[w].step = "accept" /\ worker'[w].id = worker[w].id
<1>1. worker[w] \in Busy
  BY BusyWorker DEF InCall
<1> QED
  BY <1>1 DEF GoesOn, AcceptLogout, TypeOK, Busy

LEMMA WithoutGoesOn ==
  ASSUME TypeOK, NEW w \in Workers, worker[w].step \in PoolSteps, Without(w)
  PROVE  GoesOn(w)
<1>1. InCall(w)
  BY DEF InCall, PoolSteps
<1>2. worker[w] \in Busy
  BY <1>1, BusyWorker DEF InCall
<1>3. CASE worker[w].step = "cached"
  BY <1>1, <1>2, <1>3 DEF Without, GoesOn, TypeOK, Busy
<1>4. CASE worker[w].step # "cached"
  <2>1. (\E step \in {"refuse", "update", "accept"} : Goto(w, step)) \/ AcceptLogout(w)
    BY <1>4 DEF Without, AcceptLogin, PoolSteps
  <2> QED
    BY <1>1, <2>1, GotoGoesOn, AcceptLogoutGoesOn
<1> QED
  BY <1>3, <1>4

LEMMA ExecuteGoesOn ==
  ASSUME TypeOK, NEW w \in Workers, Execute(w)
  PROVE  GoesOn(w) /\ UNCHANGED process
<1> USE DEF process
<1>1. CASE Acquire(w)
  <2>1. InCall(w)
    BY <1>1 DEF Acquire, Waiting, InCall, PoolSteps
  <2>2. worker[w] \in Busy
    BY <2>1, BusyWorker DEF InCall
  <2> QED
    BY <1>1, <2>1, <2>2 DEF Acquire, GoesOn, TypeOK, Busy, InCall
<1>2. CASE TimedOut(w) \/ QueryFails(w)
  BY <1>2, WithoutGoesOn DEF TimedOut, QueryFails, Waiting
<1>3. CASE Authenticate(w)
  <2>1. worker[w].step \in PoolSteps /\ InCall(w)
    BY <1>3 DEF Authenticate, Ready, PoolSteps, InCall
  <2>2. Goto(w, "check") \/ Without(w)
    BY <1>3 DEF Authenticate
  <2> QED
    BY <1>3, <2>1, <2>2, GotoGoesOn, WithoutGoesOn DEF Authenticate
<1>4. CASE CheckState(w) \/ SetOnline(w)
  <2>1. InCall(w) /\ \E step \in {"refuse", "update", "accept"} : Goto(w, step)
    BY <1>4 DEF CheckState, SetOnline, AcceptLogin, Ready, InCall
  <2> QED
    BY <1>4, <2>1, GotoGoesOn DEF CheckState, SetOnline
<1>5. CASE SetOffline(w)
  <2>1. InCall(w)
    BY <1>5 DEF SetOffline, Ready, InCall
  <2> QED
    BY <1>5, <2>1, AcceptLogoutGoesOn DEF SetOffline
<1>6. CASE UserExists(w) \/ InsertUser(w) \/ FriendsStatement(w)
  <2>1. InCall(w) /\ \E step \in {"refuse", "insert", "newid", "accept"} : Goto(w, step)
    BY <1>6 DEF UserExists, InsertUser, FriendsStatement, InCall
  <2> QED
    BY <1>6, <2>1, GotoGoesOn DEF UserExists, InsertUser, FriendsStatement
<1>7. CASE NewId(w)
  <2>1. InCall(w)
    BY <1>7 DEF NewId, InCall
  <2>2. worker[w] \in Busy
    BY <2>1, BusyWorker DEF InCall
  <2> QED
    BY <1>7, <2>1, <2>2 DEF NewId, GoesOn, TypeOK, Busy
<1> QED
  BY <1>1, <1>2, <1>3, <1>4, <1>5, <1>6, <1>7 DEF Execute

\* An answer ends a call.
LEMMA ReplyEffect ==
  ASSUME TypeOK, NEW w \in Workers, Reply(w)
  PROVE  /\ InCall(w) /\ worker[w] \in Busy /\ worker[w].step \in {"accept", "refuse"}
         /\ worker'[w].step = "return" /\ worker'[w].op = "none"
         /\ \A v \in Workers \ {w} : worker'[v] = worker[v]
         /\ UNCHANGED <<state, registrations, process, faults>>
<1> DEFINE answered == [Idle EXCEPT !.step = "return", !.held = worker[w].held]
<1>1. /\ worker[w].step \in {"accept", "refuse"} /\ worker' = [worker EXCEPT ![w] = answered]
      /\ UNCHANGED <<state, registrations, process, faults>>
  BY DEF Reply
<1>2. answered.step = "return" /\ answered.op = "none"
  BY DEF Idle
<1>3. InCall(w) /\ worker[w] \in Busy
  BY <1>1, BusyWorker DEF InCall
<1> HIDE DEF answered
<1> QED
  BY <1>1, <1>2, <1>3 DEF TypeOK

LEMMA ReturnEffect ==
  ASSUME TypeOK, NEW w \in Workers, Return(w)
  PROVE  /\ worker[w].step = "return" /\ worker'[w] = Idle
         /\ \A v \in Workers \ {w} : worker'[v] = worker[v]
         /\ UNCHANGED <<state, registrations, process, faults>>
BY DEF Return, TypeOK, logins

-----------------------------------------------------------------------------
(* What the steps of the gateway do to sessions, table and handlers.        *)

Handling(c, step, u) == [conn |-> c, step |-> step, arg |-> u]
Handles(l, h) == handler' = [handler EXCEPT ![l] = h]
OtherwiseSame ==
  UNCHANGED <<functors, channel, observer, out, published, restarts, garbled>>

LEMMA HandlerTyped ==
  ASSUME G!TypeOK, NEW l \in Loops, handler[l] # G!Idle
  PROVE  handler[l] \in [conn : Conns, step : G!UserStep, arg : Users]
BY DEF G!TypeOK, G!Handler

\* A thread blocked in a call of the user service handles a connection of its own.
LEMMA BlockedServes ==
  ASSUME G!TypeOK, HandlerInv, NEW l \in Loops, handler[l].step \in DOMAIN Method
  PROVE  /\ handler[l] # G!Idle
         /\ handler[l].conn \in Conns /\ LoopOf[handler[l].conn] = l
         /\ handler[l].arg \in Users
         /\ handler[l].step # "close" => conn[handler[l].conn] = "up"
         /\ handler[l].step \in {"register", "login", "logout", "close"}
<1>1. handler[l].step \in {"register", "login", "logout", "close"}
  BY DEF Method
<1>2. handler[l] # G!Idle
  BY <1>1 DEF G!Idle
<1>3. handler[l] \in [conn : Conns, step : G!UserStep, arg : Users]
  BY <1>2, HandlerTyped
<1> QED
  BY <1>1, <1>2, <1>3 DEF HandlerInv, G!OwnThread, G!ServedUp

\* A handler that goes on enters the user, ends the session, or changes nothing.
Enters(l, u) ==
  /\ handler[l].step \in {"register", "login"}
  /\ sess' = [sess EXCEPT ![handler[l].conn] = u]
  /\ uid2conn' = [uid2conn EXCEPT ![u] = handler[l].conn]
  /\ Handles(l, Handling(handler[l].conn, "bind", u))
Leaves(l) ==
  /\ handler[l].step = "logout"
  /\ uid2conn' = [uid2conn EXCEPT ![sess[handler[l].conn]] = None]
  /\ sess' = [sess EXCEPT ![handler[l].conn] = None]
  /\ Handles(l, G!Idle)
Stays(l) ==
  /\ UNCHANGED <<sess, uid2conn>>
  /\ Handles(l, G!Idle)

LEMMA ResumeEffect ==
  ASSUME G!TypeOK, HandlerInv, NEW l \in Loops, handler[l].step \in DOMAIN Method,
         NEW ok, NEW u, Resume(l, ok, u)
  PROVE  /\ \/ ok /\ Enters(l, u)
            \/ ok /\ Leaves(l)
            \/ (~ok \/ handler[l].step = "close") /\ Stays(l)
         /\ UNCHANGED <<conn, commands>> /\ OtherwiseSame
<1>1. LoopOf[handler[l].conn] = l
  BY BlockedServes
<1>2. handler[l].step \in {"register", "login", "logout", "close"}
  BY BlockedServes
<1>3. CASE handler[l].step = "register"
  <2>1. G!REGISTERReturns(l, ok, u)
    BY <1>3 DEF Resume
  <2> QED
    BY <1>1, <1>3, <2>1 DEF G!REGISTERReturns, G!Enter, G!Refuse, G!Map, G!Block, G!Unblock,
       Enters, Stays, Handles, Handling, OtherwiseSame
<1>4. CASE handler[l].step = "login"
  <2>1. G!LOGINReturns(l, ok, u)
    BY <1>4 DEF Resume
  <2> QED
    BY <1>1, <1>4, <2>1 DEF G!LOGINReturns, G!Enter, G!Refuse, G!Map, G!Block, G!Unblock,
       Enters, Stays, Handles, Handling, OtherwiseSame
<1>5. CASE handler[l].step = "logout"
  <2>1. G!LOGOUTReturns(l, ok)
    BY <1>5 DEF Resume
  <2> QED
    BY <1>5, <2>1 DEF G!LOGOUTReturns, G!Map, G!Unblock, Leaves, Stays, Handles, OtherwiseSame
<1>6. CASE handler[l].step = "close"
  <2>1. G!CloseReturns(l)
    BY <1>6 DEF Resume
  <2> QED
    BY <1>6, <2>1 DEF G!CloseReturns, G!AnswerReturns, G!Unblock, Stays, Handles, OtherwiseSame
<1> QED
  BY <1>2, <1>3, <1>4, <1>5, <1>6

\* A connection that comes, one that closes, and a command.
Comes(c) ==
  /\ conn[c] = "fresh" /\ conn' = [conn EXCEPT ![c] = "up"]
  /\ sess' = [sess EXCEPT ![c] = None]
  /\ UNCHANGED <<uid2conn, handler, commands>>
Closes(c) ==
  /\ conn[c] = "up" /\ conn' = [conn EXCEPT ![c] = "down"]
  /\ \/ sess[c] = None /\ UNCHANGED <<uid2conn, handler>>
     \/ /\ sess[c] # None
        /\ uid2conn' = [uid2conn EXCEPT ![sess[c]] = None]
        /\ Handles(LoopOf[c], Handling(c, "close", sess[c]))
  /\ UNCHANGED <<sess, commands>>
Commands(c) ==
  /\ conn[c] = "up" /\ UNCHANGED <<conn, sess, uid2conn>> /\ commands' = commands + 1
  /\ \/ UNCHANGED handler
     \/ \E step \in {"register", "login"}, u \in Users :
           Handles(LoopOf[c], Handling(c, step, u))
     \/ sess[c] # None /\ Handles(LoopOf[c], Handling(c, "logout", sess[c]))

LEMMA ClientEffect ==
  ASSUME NEW c \in Conns, Client(c)
  PROVE  /\ handler[LoopOf[c]] = G!Idle
         /\ Comes(c) \/ Closes(c) \/ Commands(c)
         /\ OtherwiseSame
<1>1. CASE G!ConnUp(c)
  BY <1>1 DEF G!ConnUp, G!LoopIdle, Comes, OtherwiseSame
<1>2. CASE G!ConnDown(c)
  BY <1>2 DEF G!ConnDown, G!LoopIdle, G!Map, G!Block, Closes, OtherwiseSame, Handles, Handling
<1>3. CASE \E u \in Users : G!RecvREGISTER(c, u) \/ G!RecvLOGIN(c, u)
  <2>1. PICK u \in Users, step \in {"register", "login"} : G!Command(c, step, u)
    BY <1>3 DEF G!RecvREGISTER, G!RecvLOGIN
  <2> QED
    BY <2>1 DEF G!Command, G!LoopIdle, G!Block, Commands, OtherwiseSame, Handles, Handling
<1>4. CASE G!RecvLOGOUT(c)
  BY <1>4 DEF G!RecvLOGOUT, G!Command, G!LoopIdle, G!Block, Commands, OtherwiseSame, Handles,
     Handling
<1> QED
  BY <1>1, <1>2, <1>3, <1>4 DEF Client

\* The gateway's own steps.
Vanishes(c) ==
  /\ conn[c] = "down" /\ conn' = [conn EXCEPT ![c] = "gone"]
  /\ handler[LoopOf[c]].conn # c
  /\ sess' = [sess EXCEPT ![c] = None]
  /\ UNCHANGED <<uid2conn, handler, functors, channel, observer, out, published, commands,
                 restarts, garbled>>
Greets(l) ==
  /\ handler[l].step = "bind"
  /\ Handles(l, G!Idle)
  /\ out' = [out EXCEPT ![handler[l].conn] = Append(@, G!UidLine(handler[l].arg))]
  /\ UNCHANGED <<conn, sess, uid2conn, functors, channel, observer, published, commands,
                 restarts, garbled>>

LEMMA GatewayEffect ==
  ASSUME Gateway
  PROVE  (\E c \in Conns : Vanishes(c)) \/ (\E l \in Loops : Greets(l))
<1>1. ASSUME NEW c \in Conns, G!ConnDestroyed(c) PROVE Vanishes(c)
  BY <1>1 DEF G!ConnDestroyed, Vanishes
<1>2. ASSUME NEW l \in Loops, G!BINDReturns(l) PROVE Greets(l)
  BY <1>2 DEF G!BINDReturns, G!BlockedIn, G!Unblock, G!Write, Greets, Handles
<1> QED
  BY <1>1, <1>2 DEF Gateway

\* Nothing of the gateway changes but its handlers' sessions and entries.
LEMMA RestartEffect ==
  ASSUME GatewayRestarts
  PROVE  /\ restarts' = restarts + 1
         /\ conn' = [c \in Conns |-> IF conn[c] = "fresh" THEN "fresh" ELSE "gone"]
         /\ sess' = [c \in Conns |-> None] /\ uid2conn' = [u \in Users |-> None]
         /\ handler' = [l \in Loops |-> G!Idle] /\ functors' = [l \in Loops |-> <<>>]
         /\ channel' = <<>> /\ observer' = G!Dead /\ UNCHANGED <<out, published, commands, garbled>>
BY DEF GatewayRestarts, G!Restart

-----------------------------------------------------------------------------
(* Requests and answers.                                                    *)

\* A request starts a call for the thread.
LEMMA RequestEffect ==
  ASSUME TypeOK, G!TypeOK, HandlerInv, NEW w \in Workers, NEW l \in Loops, Request(w, l)
  PROVE  /\ Receive(w) /\ up /\ worker[w] = Idle
         /\ worker'[w].step \notin {"idle", "return", "accept", "insert", "newid", "statement"}
         /\ worker'[w].step = "exists" => \A v \in Workers : worker[v].step \notin DbSteps
         /\ worker'[w].op = Op[handler[l].step] /\ worker'[w].user = handler[l].arg
         /\ worker'[w].op = "logout" =>
               worker'[w].step = "offline" /\ worker'[w].id = worker'[w].user
         /\ \A v \in Workers \ {w} : worker'[v] = worker[v]
         /\ UNCHANGED <<state, registrations, process, faults>>
         /\ UNCHANGED <<gatewayVars, lost, replaced>>
         /\ caller' = [caller EXCEPT ![w] = l]
         /\ Pool(l).dead = 0
         /\ sockets' = [sockets EXCEPT ![MethodOf(l)].live = IF @ > 0 THEN @ - 1 ELSE 0]
<1>0. PICK u : u = handler[l].arg
  OBVIOUS
<1>1. handler[l].step \in DOMAIN Method
  BY DEF Request, Calling
<1>2. u \in Users /\ handler[l].step \in {"register", "login", "logout", "close"}
  BY <1>0, <1>1, BlockedServes
<1>3. /\ handler[l].step = "register" => Op[handler[l].step] = "register"
      /\ handler[l].step = "login" => Op[handler[l].step] = "login"
      /\ handler[l].step \in {"logout", "close"} => Op[handler[l].step] = "logout"
  BY DEF Op
<1> DEFINE Begun(op, step, id) ==
             /\ worker'[w].op = op /\ worker'[w].step = step /\ worker'[w].user = u
             /\ worker'[w].id = id
             /\ \A v \in Workers \ {w} : worker'[v] = worker[v]
             /\ up /\ worker[w] = Idle
             /\ UNCHANGED <<state, registrations, process, faults>>
<1>4. ASSUME NEW op, NEW step, NEW id, Call(w, op, step, u, TRUE, id)
      PROVE  Begun(op, step, id)
  <2>1. up /\ worker[w] = Idle /\ UNCHANGED <<state, registrations, process, faults>>
    BY <1>4 DEF Call
  <2> QED
    BY <1>4, <2>1, CallEffect
<1>5. CASE handler[l].step = "register"
  <2>1. CallRegister(w, u) /\ \A v \in Workers : worker[v].step \notin DbSteps
    BY <1>0, <1>5 DEF Request
  <2>2. PICK step \in {"refuse", "exists"} : Call(w, "register", step, u, TRUE, None)
    BY <2>1 DEF CallRegister
  <2>3. Begun("register", step, None)
    BY <1>4, <2>2
  <2> QED
    BY <1>0, <1>2, <1>3, <1>5, <2>1, <2>2, <2>3 DEF Request, Receive
<1>6. CASE handler[l].step = "login"
  <2>1. CallLogin(w, u, TRUE)
    BY <1>0, <1>6 DEF Request
  <2>2. PICK step, id : /\ step = IF cached[u] = None THEN "auth" ELSE "cached"
                        /\ id = IF cached[u] = None THEN u ELSE cached[u]
    OBVIOUS
  <2>3. Call(w, "login", step, u, TRUE, id)
    BY <2>1, <2>2 DEF CallLogin
  <2>4. Begun("login", step, id)
    BY <1>4, <2>3
  <2>5. step \in {"auth", "cached"}
    BY <2>2
  <2> QED
    BY <1>0, <1>2, <1>3, <1>6, <2>1, <2>4, <2>5 DEF Request, Receive
<1>7. CASE handler[l].step \in {"logout", "close"}
  <2>1. CallLogout(w, u)
    BY <1>0, <1>7 DEF Request
  <2>2. Call(w, "logout", "offline", u, TRUE, u)
    BY <2>1 DEF CallLogout
  <2>3. Begun("logout", "offline", u)
    BY <1>4, <2>2
  <2> QED
    BY <1>0, <1>2, <1>3, <1>7, <2>1, <2>3 DEF Request, Receive
<1> QED
  BY <1>2, <1>5, <1>6, <1>7

\* To the user service, every step of the composition is one of its own, or none.
LEMMA ServiceStep ==
  ASSUME TypeOK, G!TypeOK, HandlerInv, [SessionsNext]_sessionsVars
  PROVE  [Next]_vars
<1>1. ASSUME NEW l \in Loops, Answer(l) PROVE [Next]_vars
  <2>1. ASSUME NEW w \in Workers, Request(w, l) PROVE Next
    BY <2>1, RequestEffect DEF Next
  <2>2. CASE DeadSocket(l) \/ NoConnection(l) \/ Failed(l)
    BY <2>2 DEF DeadSocket, NoConnection, Failed, serviceVars
  <2> QED
    BY <1>1, <2>1, <2>2 DEF Answer
<1>2. ASSUME NEW w \in Workers, Answered(w) \/ Serve(w) PROVE Next
  BY <1>2 DEF Answered, Serve, Next
<1>3. CASE (\E c \in Conns : Client(c)) \/ Gateway \/ GatewayRestarts
  BY <1>3 DEF Client, Gateway, GatewayRestarts, serviceVars
<1>4. CASE ServiceEnds \/ ServiceStarts
  BY <1>4 DEF ServiceEnds, ServiceStarts, Next
<1>5. CASE UNCHANGED sessionsVars
  BY <1>5 DEF sessionsVars, serviceVars
<1> QED
  BY <1>1, <1>2, <1>3, <1>4, <1>5 DEF SessionsNext

\* An answer goes to the thread that waits for it.
LEMMA AnsweredEffect ==
  ASSUME TypeOK, G!TypeOK, HandlerInv, CallerMatches, caller \in [Workers -> Loops \cup {None}],
         NEW w \in Workers, Answered(w)
  PROVE  /\ Reply(w) /\ caller' = [caller EXCEPT ![w] = None] /\ UNCHANGED lost
         /\ \/ caller[w] = None /\ UNCHANGED <<gatewayVars, sockets, replaced>>
            \/ /\ caller[w] \in Loops /\ handler[caller[w]].step \in DOMAIN Method
               /\ Resume(caller[w], worker[w].step = "accept", worker[w].id)
               /\ sockets' = [sockets EXCEPT ![MethodOf(caller[w])].live = @ + 1]
               /\ replaced' = replaced \cup Overwritten
BY DEF Answered, CallerMatches

-----------------------------------------------------------------------------
(* The invariant on which the types of the composition rest.                *)

ChannelTyped ==
  /\ caller \in [Workers -> Loops \cup {None}]
  /\ lost \subseteq Loops
  /\ sockets \in [Methods -> [live : Nat, dead : Nat]]
  /\ replaced \subseteq Users

ServiceInv == TypeOK /\ RefusalInv /\ IdInv /\ DbInv
ThreadInv == G!TypeOK /\ HandlerInv /\ ChannelTyped /\ CallerInv
CompositionInv == ServiceInv /\ ThreadInv /\ SocketInv

LEMMA AcceptedId ==
  ASSUME ServiceInv, NEW w \in Workers, worker[w].step = "accept",
         worker[w].op \in {"login", "register"}
  PROVE  worker[w].id = worker[w].user /\ worker[w].user \in Users
<1>1. worker[w] \in Busy
  BY BusyWorker DEF ServiceInv
<1> QED
  BY <1>1 DEF ServiceInv, DbInv, IdInv, IdSound, Busy

\* What an answer makes of the thread that waits for it.
LEMMA AnswerMatches ==
  ASSUME ServiceInv, ThreadInv, NEW w \in Workers, NEW l \in Loops, caller[w] = l, Answered(w)
  PROVE  /\ handler[l].step \in DOMAIN Method
         /\ worker[w].op = Op[handler[l].step] /\ worker[w].user = handler[l].arg
         /\ UNCHANGED <<conn, commands, lost>> /\ OtherwiseSame
         /\ sockets' = [sockets EXCEPT ![MethodOf(l)].live = @ + 1]
         /\ replaced' = replaced \cup Overwritten
         /\ \/ worker[w].step = "accept" /\ worker[w].user \in Users /\ Enters(l, worker[w].user)
            \/ worker[w].step = "accept" /\ Leaves(l)
            \/ (worker[w].step = "refuse" \/ handler[l].step = "close") /\ Stays(l)
<1>0. None \notin Loops
  BY SessionsAssumption
<1>1. /\ Reply(w) /\ UNCHANGED lost /\ handler[l].step \in DOMAIN Method
      /\ Resume(l, worker[w].step = "accept", worker[w].id)
      /\ sockets' = [sockets EXCEPT ![MethodOf(l)].live = @ + 1]
      /\ replaced' = replaced \cup Overwritten
  BY <1>0, AnsweredEffect DEF ThreadInv, ServiceInv, ChannelTyped, CallerInv
<1>2. worker[w].op = Op[handler[l].step] /\ worker[w].user = handler[l].arg
  BY <1>0 DEF ThreadInv, CallerInv, CallerMatches
<1>3. worker[w].step \in {"accept", "refuse"}
  BY <1>1 DEF Reply
<1>4. PICK ok, u : ok = (worker[w].step = "accept") /\ u = worker[w].id
  OBVIOUS
<1>5. /\ UNCHANGED <<conn, commands>> /\ OtherwiseSame
      /\ \/ ok /\ Enters(l, u)
         \/ ok /\ Leaves(l)
         \/ (~ok \/ handler[l].step = "close") /\ Stays(l)
  BY <1>1, <1>4, ResumeEffect DEF ThreadInv
<1>6. CASE ok /\ Enters(l, u)
  <2>1. worker[w].op \in {"login", "register"}
    BY <1>2, <1>6 DEF Enters, Op
  <2>2. u = worker[w].user /\ worker[w].user \in Users
    BY <1>4, <1>6, <2>1, AcceptedId
  <2> QED
    BY <1>1, <1>2, <1>4, <1>5, <1>6, <2>2
<1> QED
  BY <1>1, <1>2, <1>3, <1>4, <1>5, <1>6

\* A step changes the state of the gateway, if at all, in one of these ways.
GatewayStep ==
  \/ \E c \in Conns : /\ handler[LoopOf[c]] = G!Idle
                      /\ Comes(c) \/ Closes(c) \/ Commands(c)
                      /\ OtherwiseSame
  \/ \E l \in Loops, u \in Users : Enters(l, u) /\ UNCHANGED <<conn, commands>> /\ OtherwiseSame
  \/ \E l \in Loops : /\ handler[l].step \in DOMAIN Method /\ (Leaves(l) \/ Stays(l))
                      /\ UNCHANGED <<conn, commands>> /\ OtherwiseSame
  \/ \E c \in Conns : Vanishes(c)
  \/ \E l \in Loops : Greets(l)
  \/ GatewayRestarts
  \/ UNCHANGED gatewayVars

LEMMA EveryGatewayStep ==
  ASSUME ServiceInv, ThreadInv, [SessionsNext]_sessionsVars
  PROVE  GatewayStep
<1>1. ASSUME NEW c \in Conns, Client(c) PROVE GatewayStep
  BY <1>1, ClientEffect DEF GatewayStep
<1>2. ASSUME NEW l \in Loops, Answer(l) PROVE GatewayStep
  <2>1. CASE (\E w \in Workers : Request(w, l)) \/ DeadSocket(l) \/ NoConnection(l)
    BY <2>1 DEF Request, DeadSocket, NoConnection, GatewayStep
  <2>2. CASE Failed(l)
    <3>1. handler[l].step \in DOMAIN Method /\ Resume(l, FALSE, None)
      BY <2>2 DEF Failed, ThreadInv, CallerInv, LostWaits
    <3>2. Stays(l) /\ UNCHANGED <<conn, commands>> /\ OtherwiseSame
      BY <3>1, ResumeEffect DEF ThreadInv
    <3> QED
      BY <3>1, <3>2 DEF GatewayStep
  <2> QED
    BY <1>2, <2>1, <2>2 DEF Answer
<1>3. ASSUME NEW w \in Workers, Answered(w) PROVE GatewayStep
  <2>1. CASE caller[w] = None
    BY <1>3, <2>1 DEF Answered, GatewayStep
  <2>2. CASE caller[w] # None
    <3>1. PICK l \in Loops : caller[w] = l
      BY <2>2 DEF ThreadInv, ChannelTyped
    <3>2. PICK u : u = worker[w].user
      OBVIOUS
    <3>3. /\ UNCHANGED <<conn, commands>> /\ OtherwiseSame
          /\ handler[l].step \in DOMAIN Method
          /\ (u \in Users /\ Enters(l, u)) \/ Leaves(l) \/ Stays(l)
      BY <1>3, <3>1, <3>2, AnswerMatches
    <3> QED
      BY <3>3 DEF GatewayStep
  <2> QED
    BY <2>1, <2>2
<1>4. CASE Gateway
  BY <1>4, GatewayEffect DEF GatewayStep
<1>5. CASE (\E w \in Workers : Serve(w)) \/ ServiceEnds \/ ServiceStarts
  BY <1>5 DEF Serve, ServiceEnds, ServiceStarts, GatewayStep
<1>6. CASE UNCHANGED sessionsVars
  BY <1>6 DEF sessionsVars, GatewayStep
<1> QED
  BY <1>1, <1>2, <1>3, <1>4, <1>5, <1>6 DEF SessionsNext, GatewayStep

\* The gateway keeps its types and its handlers their threads.
LEMMA HandlesTyped ==
  ASSUME G!TypeOK, NEW l \in Loops, NEW h, Handles(l, h),
         h = G!Idle \/ h \in [conn : Conns, step : G!UserStep, arg : Users]
  PROVE  handler' \in [Loops -> G!Handler]
BY DEF G!TypeOK, G!Handler, Handles

LEMMA GatewayTypesKept ==
  ASSUME G!TypeOK, HandlerInv, GatewayStep
  PROVE  G!TypeOK'
<1> USE SessionsAssumption DEF OtherwiseSame
<1>0. {"register", "login", "logout", "close", "bind"} \subseteq G!UserStep
  BY DEF G!UserStep
<1>1. \A c \in Conns : sess[c] # None => sess[c] \in Users
  BY DEF G!TypeOK
<1>2. ASSUME NEW c \in Conns, Comes(c) \/ Closes(c) \/ Commands(c), OtherwiseSame
      PROVE  G!TypeOK'
  <2>1. conn' \in [Conns -> G!ConnState] /\ sess' \in [Conns -> Users \cup {None}]
    BY <1>2 DEF Comes, Closes, Commands, G!TypeOK, G!ConnState
  <2>2. uid2conn' \in [Users -> Conns \cup {None}] /\ commands' \in Nat
    <3>1. commands' \in Nat
      BY <1>2 DEF Comes, Closes, Commands, G!TypeOK
    <3>2. uid2conn' = uid2conn \/ uid2conn' = [uid2conn EXCEPT ![sess[c]] = None]
      BY <1>2 DEF Comes, Closes, Commands
    <3>3. uid2conn \in [Users -> Conns \cup {None}]
      BY DEF G!TypeOK
    <3> QED
      BY <3>1, <3>2, <3>3
  <2>3. handler' \in [Loops -> G!Handler]
    <3>1. CASE UNCHANGED handler
      BY <3>1 DEF G!TypeOK
    <3>2. ASSUME NEW step \in {"register", "login", "logout", "close"}, NEW u \in Users,
                 Handles(LoopOf[c], Handling(c, step, u))
          PROVE  handler' \in [Loops -> G!Handler]
      <4>1. Handling(c, step, u) \in [conn : Conns, step : G!UserStep, arg : Users]
        BY <1>0 DEF Handling
      <4> QED
        BY <3>2, <4>1, HandlesTyped
    <3> QED
      BY <1>1, <1>2, <3>1, <3>2 DEF Comes, Closes, Commands
  <2> QED
    BY <1>2, <2>1, <2>2, <2>3 DEF G!TypeOK
<1>3. ASSUME NEW l \in Loops, NEW u \in Users, Enters(l, u), UNCHANGED <<conn, commands>>,
             OtherwiseSame
      PROVE  G!TypeOK'
  <2>1. handler[l].step \in DOMAIN Method
    BY <1>3 DEF Enters, Method
  <2>2. handler[l].conn \in Conns
    BY <2>1, BlockedServes
  <2>3. Handling(handler[l].conn, "bind", u) \in [conn : Conns, step : G!UserStep, arg : Users]
    BY <1>0, <2>2 DEF Handling
  <2>4. handler' \in [Loops -> G!Handler]
    BY <1>3, <2>3, HandlesTyped DEF Enters
  <2> QED
    BY <1>3, <2>2, <2>4 DEF Enters, G!TypeOK
<1>4. ASSUME NEW l \in Loops, handler[l].step \in DOMAIN Method, Leaves(l) \/ Stays(l),
             UNCHANGED <<conn, commands>>, OtherwiseSame
      PROVE  G!TypeOK'
  <2>1. handler' \in [Loops -> G!Handler]
    BY <1>4, HandlesTyped DEF Leaves, Stays
  <2> QED
    BY <1>4, <2>1 DEF Leaves, Stays, G!TypeOK
<1>5. ASSUME NEW c \in Conns, Vanishes(c) PROVE G!TypeOK'
  BY <1>5 DEF Vanishes, G!TypeOK, G!ConnState
<1>6. ASSUME NEW l \in Loops, Greets(l) PROVE G!TypeOK'
  <2>1. handler' \in [Loops -> G!Handler]
    BY <1>6, HandlesTyped DEF Greets
  <2>2. handler[l] \in [conn : Conns, step : G!UserStep, arg : Users]
    <3>1. handler[l] # G!Idle
      BY <1>6 DEF Greets, G!Idle
    <3> QED
      BY <3>1, HandlerTyped
  <2>3. G!UidLine(handler[l].arg) \in G!Line
    BY <2>2 DEF G!UidLine, G!Line
  <2>4. out' \in [Conns -> Seq(G!Line)]
    <3>1. out \in [Conns -> Seq(G!Line)]
      BY DEF G!TypeOK
    <3>2. Append(out[handler[l].conn], G!UidLine(handler[l].arg)) \in Seq(G!Line)
      BY <2>2, <2>3, <3>1
    <3> QED
      BY <1>6, <3>1, <3>2 DEF Greets
  <2> QED
    BY <1>6, <2>1, <2>4 DEF Greets, G!TypeOK
<1>7. CASE GatewayRestarts
  <2>1. handler' \in [Loops -> G!Handler]
    BY <1>7, RestartEffect DEF G!Handler
  <2>2. observer' \in G!Observer
    BY <1>7, RestartEffect DEF G!Observer
  <2>3. functors' \in [Loops -> Seq(G!Functor)] /\ channel' \in Seq({})
    <3>1. \A S : <<>> \in Seq(S)
      BY EmptySeq
    <3>2. functors' = [l \in Loops |-> <<>>] /\ channel' = <<>>
      BY <1>7, RestartEffect
    <3>3. [l \in Loops |-> <<>>] \in [Loops -> Seq(G!Functor)]
      BY <3>1
    <3> QED
      BY <3>1, <3>2, <3>3
  <2>4. conn' \in [Conns -> G!ConnState] /\ sess' \in [Conns -> Users \cup {None}]
        /\ uid2conn' \in [Users -> Conns \cup {None}]
    BY <1>7, RestartEffect DEF G!ConnState
  <2> QED
    BY <1>7, <2>1, <2>2, <2>3, <2>4, RestartEffect DEF G!TypeOK
<1>8. CASE UNCHANGED gatewayVars
  BY <1>8 DEF gatewayVars, G!TypeOK
<1> QED
  BY <1>2, <1>3, <1>4, <1>5, <1>6, <1>7, <1>8 DEF GatewayStep

\* A thread that handles a connection.
HandlerSound(l) ==
  handler[l] # G!Idle =>
     /\ LoopOf[handler[l].conn] = l
     /\ handler[l].step # "close" => conn[handler[l].conn] = "up"
     /\ handler[l].step = "logout" => sess[handler[l].conn] = handler[l].arg

LEMMA HandlersSound == HandlerInv <=> \A l \in Loops : HandlerSound(l)
<1>1. \A l \in Loops : handler[l].step = "logout" => handler[l] # G!Idle
  BY DEF G!Idle
<1> QED
  BY <1>1 DEF HandlerInv, HandlerSound, G!OwnThread, G!ServedUp

LEMMA HandlerInvKept ==
  ASSUME G!TypeOK, HandlerInv, GatewayStep
  PROVE  HandlerInv'
<1> USE SessionsAssumption
<1>0. \A l \in Loops : HandlerSound(l)
  BY HandlersSound
<1>a. (\A l \in Loops : HandlerSound(l)') => HandlerInv'
  <2>1. \A l \in Loops : handler'[l].step = "logout" => handler'[l] # G!Idle
    BY DEF G!Idle
  <2> QED
    BY <2>1 DEF HandlerInv, HandlerSound, G!OwnThread, G!ServedUp
<1>b. \A l \in Loops : handler[l] # G!Idle =>
         handler[l].conn \in Conns /\ handler[l].arg \in Users
  BY HandlerTyped
\* Who is handled on another thread is another connection.
<1>c. \A k, l \in Loops : handler[k] # G!Idle /\ handler[l] # G!Idle /\ k # l
                             => handler[k].conn # handler[l].conn
  BY <1>0 DEF HandlerSound
<1>2. ASSUME NEW c \in Conns, handler[LoopOf[c]] = G!Idle, Comes(c) \/ Closes(c) \/ Commands(c)
      PROVE  HandlerInv'
  <2>1. \A l \in Loops : handler[l] # G!Idle => handler[l].conn # c
    BY <1>0, <1>2 DEF HandlerSound
  <2>2. ASSUME NEW l \in Loops, handler'[l] = handler[l] PROVE HandlerSound(l)'
    BY <1>0, <1>2, <1>b, <2>1, <2>2 DEF HandlerSound, Comes, Closes, Commands, G!TypeOK
  <2>3. ASSUME NEW step, NEW u, Handles(LoopOf[c], Handling(c, step, u)),
               step = "close" \/ (conn'[c] = "up" /\ (step = "logout" => sess'[c] = u))
        PROVE  HandlerInv'
    <3>1. HandlerSound(LoopOf[c])'
      BY <2>3 DEF HandlerSound, Handling, Handles, G!TypeOK
    <3>2. \A l \in Loops \ {LoopOf[c]} : handler'[l] = handler[l]
      BY <2>3 DEF Handles, G!TypeOK
    <3> QED
      BY <1>a, <2>2, <3>1, <3>2
  <2>4. CASE UNCHANGED handler
    BY <1>a, <2>2, <2>4
  <2>5. CASE Closes(c) /\ ~ UNCHANGED handler
    BY <2>3, <2>5 DEF Closes
  <2>6. CASE Commands(c)
    <3>1. conn'[c] = "up" /\ sess' = sess
      BY <2>6 DEF Commands
    <3> QED
      BY <2>3, <2>4, <2>6, <3>1 DEF Commands
  <2> QED
    BY <1>2, <2>4, <2>5, <2>6 DEF Comes
<1>3. ASSUME NEW l \in Loops, NEW u \in Users, Enters(l, u), UNCHANGED conn
      PROVE  HandlerInv'
  <2>1. handler[l] # G!Idle /\ handler[l].step # "close"
    BY <1>3 DEF Enters, G!Idle
  <2>2. HandlerSound(l)'
    BY <1>0, <1>3, <2>1 DEF Enters, HandlerSound, Handles, Handling, G!TypeOK
  <2>3. ASSUME NEW k \in Loops \ {l} PROVE HandlerSound(k)'
    <3>1. handler'[k] = handler[k]
      BY <1>3 DEF Enters, Handles, G!TypeOK
    <3>2. handler[k] # G!Idle => sess'[handler[k].conn] = sess[handler[k].conn]
      BY <1>3, <1>b, <1>c, <2>1 DEF Enters, G!TypeOK
    <3> QED
      BY <1>0, <1>3, <3>1, <3>2 DEF HandlerSound
  <2> QED
    BY <1>a, <2>2, <2>3
<1>4. ASSUME NEW l \in Loops, handler[l].step \in DOMAIN Method, Leaves(l) \/ Stays(l),
             UNCHANGED conn
      PROVE  HandlerInv'
  <2>1. handler[l] # G!Idle
    BY <1>4, BlockedServes
  <2>2. HandlerSound(l)'
    BY <1>4 DEF Leaves, Stays, HandlerSound, Handles, G!TypeOK
  <2>3. ASSUME NEW k \in Loops \ {l} PROVE HandlerSound(k)'
    <3>1. handler'[k] = handler[k]
      BY <1>4 DEF Leaves, Stays, Handles, G!TypeOK
    <3>2. handler[k] # G!Idle => sess'[handler[k].conn] = sess[handler[k].conn]
      BY <1>4, <1>b, <1>c, <2>1 DEF Leaves, Stays, G!TypeOK
    <3> QED
      BY <1>0, <1>4, <3>1, <3>2 DEF HandlerSound
  <2> QED
    BY <1>a, <2>2, <2>3
<1>5. ASSUME NEW c \in Conns, Vanishes(c) PROVE HandlerInv'
  <2>1. \A l \in Loops : handler[l] # G!Idle => handler[l].conn # c
    BY <1>0, <1>5 DEF HandlerSound, Vanishes
  <2> QED
    BY <1>0, <1>5, <1>a, <1>b, <2>1 DEF HandlerSound, Vanishes, G!TypeOK
<1>6. ASSUME NEW l \in Loops, Greets(l) PROVE HandlerInv'
  BY <1>0, <1>6, <1>a DEF HandlerSound, Greets, Handles, G!TypeOK
<1>7. CASE GatewayRestarts
  BY <1>7, <1>a, RestartEffect DEF HandlerSound
<1>8. CASE UNCHANGED gatewayVars
  BY <1>0, <1>8, <1>a DEF gatewayVars, HandlerSound
<1> QED
  BY <1>2, <1>3, <1>4, <1>5, <1>6, <1>7, <1>8 DEF GatewayStep

-----------------------------------------------------------------------------
(* The calls in execution.                                                  *)

\* A logout is one statement, for its own user.
LEMMA LogoutGoesOn ==
  ASSUME TypeOK, DbInv, NEW w \in Workers, worker[w].op = "logout", Execute(w)
  PROVE  /\ worker[w].step = "offline"
         /\ worker'[w].step \in {"offline", "accept"} /\ worker'[w].id = worker[w].id
         /\ worker'[w].step = "accept" => SetOffline(w) \/ TimedOut(w) \/ QueryFails(w)
<1>1. GoesOn(w)
  BY ExecuteGoesOn
<1>2. worker[w].step \in {"offline", "accept"} /\ worker[w] \in Busy
  BY <1>1 DEF DbInv, GoesOn
<1>3. CASE Acquire(w)
  BY <1>2, <1>3 DEF Acquire, Waiting, PoolSteps, TypeOK, Busy
<1>4. CASE TimedOut(w) \/ QueryFails(w)
  <2>1. worker[w].step = "offline" /\ Without(w)
    BY <1>2, <1>4 DEF TimedOut, QueryFails, Waiting, PoolSteps
  <2>2. AcceptLogout(w)
    BY <2>1 DEF Without
  <2> QED
    BY <1>2, <1>4, <2>1, <2>2 DEF AcceptLogout, TypeOK, Busy
<1>5. CASE SetOffline(w)
  BY <1>2, <1>5 DEF SetOffline, Ready, AcceptLogout, TypeOK, Busy
<1>6. CASE ~ (Acquire(w) \/ TimedOut(w) \/ QueryFails(w) \/ SetOffline(w))
  BY <1>2, <1>6 DEF Execute, Authenticate, CheckState, SetOnline, Ready, UserExists, InsertUser,
     NewId, FriendsStatement
<1> QED
  BY <1>3, <1>4, <1>5, <1>6

\* Only a registration is on db_, and it has begun there.
LEMMA DbGoesOn ==
  ASSUME TypeOK, DbInv, NEW w \in Workers, Execute(w)
  PROVE  /\ worker'[w].step \in DbSteps => worker[w].step \in DbSteps
         /\ shared' = {} /\ mistaken' = {}
<1> USE DEF registrations
<1>1. worker[w].step \in DbSteps => Passed(w) = {}
  BY DEF DbInv, Passed, DbSteps
<1>2. ASSUME worker[w].step \in PoolSteps, UNCHANGED <<shared, mistaken>>,
             worker'[w].step \in PoolSteps \cup {"accept", "refuse"}
      PROVE  worker'[w].step \notin DbSteps /\ shared' = {} /\ mistaken' = {}
  BY <1>2 DEF DbInv, PoolSteps, DbSteps
<1>3. ASSUME NEW step, Goto(w, step) PROVE worker'[w].step = step
  <2>1. worker[w] \in Busy
    BY ExecuteGoesOn DEF GoesOn
  <2> QED
    BY <1>3, <2>1, GotoEffect
<1>4. ASSUME worker[w].step \in PoolSteps, Without(w)
      PROVE  worker'[w].step \in PoolSteps \cup {"accept", "refuse"}
  <2>1. CASE worker[w].step = "cached"
    <3>1. worker[w] \in Busy
      BY ExecuteGoesOn DEF GoesOn
    <3> QED
      BY <1>4, <2>1, <3>1 DEF Without, TypeOK, Busy, PoolSteps
  <2>2. CASE AcceptLogout(w)
    <3>1. worker[w] \in Busy
      BY ExecuteGoesOn DEF GoesOn
    <3> QED
      BY <2>2, <3>1 DEF AcceptLogout, TypeOK, Busy
  <2>3. CASE worker[w].step # "cached" /\ ~ AcceptLogout(w)
    <3>1. \E step \in {"refuse", "update", "accept"} : Goto(w, step)
      BY <1>4, <2>3 DEF Without, AcceptLogin, PoolSteps
    <3> QED
      BY <1>3, <3>1 DEF PoolSteps
  <2> QED
    BY <2>1, <2>2, <2>3
<1>5. CASE Acquire(w)
  <2>1. worker[w] \in Busy
    BY ExecuteGoesOn DEF GoesOn
  <2>2. worker'[w].step = worker[w].step /\ worker[w].step \in PoolSteps
    BY <1>5, <2>1 DEF Acquire, Waiting, TypeOK, Busy
  <2> QED
    BY <1>2, <1>5, <2>2 DEF Acquire
<1>6. CASE TimedOut(w) \/ QueryFails(w)
  BY <1>2, <1>4, <1>6 DEF TimedOut, QueryFails, Waiting
<1>7. CASE Authenticate(w)
  <2>1. worker[w].step \in PoolSteps /\ UNCHANGED <<shared, mistaken>>
        /\ (Without(w) \/ Goto(w, "check"))
    BY <1>7 DEF Authenticate, Ready, PoolSteps
  <2> QED
    BY <1>2, <1>3, <1>4, <2>1 DEF PoolSteps
<1>8. CASE CheckState(w) \/ SetOnline(w)
  <2>1. worker[w].step \in PoolSteps /\ UNCHANGED <<shared, mistaken>>
        /\ \E step \in {"refuse", "update", "accept"} : Goto(w, step)
    BY <1>8 DEF CheckState, SetOnline, AcceptLogin, Ready, PoolSteps
  <2> QED
    BY <1>2, <1>3, <2>1 DEF PoolSteps
<1>9. CASE SetOffline(w)
  <2>1. worker[w].step \in PoolSteps /\ UNCHANGED <<shared, mistaken>> /\ AcceptLogout(w)
    BY <1>9 DEF SetOffline, Ready, PoolSteps
  <2>2. worker[w] \in Busy
    BY ExecuteGoesOn DEF GoesOn
  <2>3. worker'[w].step = "accept"
    BY <2>1, <2>2 DEF AcceptLogout, TypeOK, Busy
  <2> QED
    BY <1>2, <2>1, <2>3
<1>10. CASE UserExists(w) \/ FriendsStatement(w) \/ InsertUser(w)
  <2>1. worker[w].step \in DbSteps
    BY <1>10 DEF UserExists, FriendsStatement, InsertUser, DbSteps
  <2>2. shared' = {} /\ mistaken' = {}
    BY <1>1, <1>10, <2>1 DEF UserExists, FriendsStatement, InsertUser, DbInv
  <2> QED
    BY <2>1, <2>2
<1>11. CASE NewId(w)
  <2>1. worker[w].step \in DbSteps
    BY <1>11 DEF NewId, DbSteps
  <2>2. shared' = {} /\ mistaken' = {}
    BY <1>11 DEF NewId, DbInv
  <2> QED
    BY <2>1, <2>2
<1> QED
  BY <1>5, <1>6, <1>7, <1>8, <1>9, <1>10, <1>11 DEF Execute

LEMMA DbInvKept ==
  ASSUME TypeOK, G!TypeOK, HandlerInv, DbInv, [SessionsNext]_sessionsVars
  PROVE  DbInv'
<1> USE DEF registrations
<1>1. ASSUME NEW w \in Workers, \A v \in Workers \ {w} : worker'[v] = worker[v],
             worker'[w].step \in DbSteps =>
               worker[w].step \in DbSteps \/ \A v \in Workers : worker[v].step \notin DbSteps,
             worker'[w].op = "logout" =>
               worker'[w].step \in {"offline", "accept"} /\ worker'[w].id = worker'[w].user,
             shared' = {}, mistaken' = {}
      PROVE  DbInv'
  BY <1>1 DEF DbInv
<1>2. ASSUME NEW w \in Workers, NEW l \in Loops, Request(w, l) PROVE DbInv'
  <2>1. /\ worker'[w].step \notin {"idle", "return", "accept", "insert", "newid", "statement"}
        /\ worker'[w].step = "exists" => \A v \in Workers : worker[v].step \notin DbSteps
        /\ worker'[w].op = "logout" =>
              worker'[w].step = "offline" /\ worker'[w].id = worker'[w].user
        /\ \A v \in Workers \ {w} : worker'[v] = worker[v]
        /\ UNCHANGED registrations
    BY <1>2, RequestEffect
  <2> QED
    BY <1>1, <2>1 DEF DbSteps, DbInv
<1>3. ASSUME NEW w \in Workers, Execute(w) PROVE DbInv'
  <2>1. GoesOn(w)
    BY <1>3, ExecuteGoesOn
  <2>2. /\ worker'[w].step \in DbSteps => worker[w].step \in DbSteps
        /\ shared' = {} /\ mistaken' = {}
    BY <1>3, DbGoesOn
  <2>3. worker'[w].op = "logout" =>
          worker'[w].step \in {"offline", "accept"} /\ worker'[w].id = worker'[w].user
    BY <1>3, <2>1, LogoutGoesOn DEF GoesOn, DbInv
  <2> QED
    BY <1>1, <2>1, <2>2, <2>3 DEF GoesOn
<1>4. ASSUME NEW w \in Workers, Reply(w) PROVE DbInv'
  <2>1. /\ worker'[w].step = "return" /\ worker'[w].op = "none"
        /\ \A v \in Workers \ {w} : worker'[v] = worker[v]
        /\ UNCHANGED registrations
    BY <1>4, ReplyEffect
  <2> QED
    BY <1>1, <2>1 DEF DbSteps, DbInv
<1>5. ASSUME NEW w \in Workers, Return(w) PROVE DbInv'
  <2>1. /\ worker'[w] = Idle
        /\ \A v \in Workers \ {w} : worker'[v] = worker[v]
        /\ UNCHANGED registrations
    BY <1>5, ReturnEffect
  <2>2. worker'[w].step = "idle" /\ worker'[w].op = "none"
    BY <2>1 DEF Idle
  <2> QED
    BY <1>1, <2>1, <2>2 DEF DbSteps, DbInv
<1>6. CASE Crash
  BY <1>6 DEF Crash, DbInv, Idle, DbSteps
<1>7. CASE UNCHANGED <<worker, shared, mistaken>>
  BY <1>7 DEF DbInv
<1>8. CASE Start
  BY <1>7, <1>8 DEF Start
<1>9. CASE UNCHANGED serviceVars
  BY <1>7, <1>9 DEF serviceVars, vars
<1> QED
  BY <1>2, <1>3, <1>4, <1>5, <1>6, <1>8, <1>9
     DEF SessionsNext, sessionsVars, Client, Answer, DeadSocket, NoConnection, Failed, Answered,
         Serve, Gateway, GatewayRestarts, ServiceEnds, ServiceStarts

-----------------------------------------------------------------------------
(* Callers.                                                                 *)

LEMMA SocketsTyped ==
  ASSUME ThreadInv, NEW m \in Methods, NEW n \in Nat,
         sockets' = [sockets EXCEPT ![m].live = n] \/ sockets' = [sockets EXCEPT ![m].dead = n]
  PROVE  sockets' \in [Methods -> [live : Nat, dead : Nat]]
<1>1. sockets \in [Methods -> [live : Nat, dead : Nat]]
  BY DEF ThreadInv, ChannelTyped
<1> QED
  BY <1>1

LEMMA MethodTyped ==
  ASSUME NEW l \in Loops, handler[l].step \in DOMAIN Method
  PROVE  MethodOf(l) \in Methods
BY DEF MethodOf, Method, Methods

LEMMA ChannelTypesKept ==
  ASSUME ServiceInv, ThreadInv, [SessionsNext]_sessionsVars
  PROVE  ChannelTyped'
<1> USE DEF ChannelTyped
<1>0. ChannelTyped
  BY DEF ThreadInv
<1>1. UNCHANGED <<channelVars, replaced>> => ChannelTyped'
  BY <1>0 DEF channelVars
<1>2. ASSUME NEW l \in Loops, Answer(l) PROVE ChannelTyped'
  <2>1. ASSUME NEW w \in Workers, Request(w, l) PROVE ChannelTyped'
    <3>1. /\ caller' = [caller EXCEPT ![w] = l] /\ UNCHANGED <<lost, replaced>>
          /\ sockets' = [sockets EXCEPT ![MethodOf(l)].live = IF @ > 0 THEN @ - 1 ELSE 0]
      BY <2>1 DEF Request
    <3>2. PICK m \in Methods : m = MethodOf(l)
      BY <2>1, MethodTyped DEF Request, Calling
    <3>3. PICK n \in Nat : n = IF sockets[m].live > 0 THEN sockets[m].live - 1 ELSE 0
      BY <1>0
    <3>4. sockets' \in [Methods -> [live : Nat, dead : Nat]]
      BY <3>1, <3>2, <3>3, SocketsTyped
    <3> QED
      BY <1>0, <3>1, <3>4
  <2>2. CASE DeadSocket(l)
    <3>1. PICK m \in Methods : m = MethodOf(l)
      BY <2>2, MethodTyped DEF DeadSocket, Calling
    <3>2. sockets[m].dead > 0
      BY <2>2, <3>1 DEF DeadSocket, Pool, MethodOf
    <3>3. PICK n \in Nat : n = sockets[m].dead - 1
      BY <1>0, <3>2
    <3>4. sockets' \in [Methods -> [live : Nat, dead : Nat]]
      BY <2>2, <3>1, <3>3, SocketsTyped DEF DeadSocket
    <3> QED
      BY <1>0, <2>2, <3>4 DEF DeadSocket
  <2>3. CASE NoConnection(l)
    BY <1>0, <2>3 DEF NoConnection
  <2>4. CASE Failed(l)
    BY <1>0, <2>4 DEF Failed
  <2> QED
    BY <1>2, <2>1, <2>2, <2>3, <2>4 DEF Answer
<1>3. ASSUME NEW w \in Workers, Answered(w) PROVE ChannelTyped'
  <2>1. CASE caller[w] = None
    BY <1>0, <1>3, <2>1 DEF Answered
  <2>2. ASSUME NEW l \in Loops, caller[w] = l PROVE ChannelTyped'
    <3>1. /\ sockets' = [sockets EXCEPT ![MethodOf(l)].live = @ + 1]
          /\ replaced' = replaced \cup Overwritten /\ UNCHANGED lost
      BY <1>3, <2>2, AnswerMatches
    <3>2. caller' = [caller EXCEPT ![w] = None]
      BY <1>3 DEF Answered
    <3>3. sockets' \in [Methods -> [live : Nat, dead : Nat]]
      <4>1. PICK m \in Methods : m = MethodOf(l)
        BY <1>3, <2>2, AnswerMatches, MethodTyped
      <4>2. PICK n \in Nat : n = sockets[m].live + 1
        BY <1>0
      <4> QED
        BY <3>1, <4>1, <4>2, SocketsTyped
    <3>4. replaced' \subseteq Users
      BY <1>0, <3>1 DEF Overwritten
    <3> QED
      BY <1>0, <3>1, <3>2, <3>3, <3>4
  <2> QED
    BY <1>0, <2>1, <2>2
<1>4. ASSUME NEW c \in Conns, Client(c) PROVE ChannelTyped'
  BY <1>1, <1>4 DEF Client
<1>5. ASSUME NEW w \in Workers, Serve(w) PROVE ChannelTyped'
  BY <1>1, <1>5 DEF Serve
<1>6. CASE Gateway \/ ServiceStarts
  BY <1>1, <1>6 DEF Gateway, ServiceStarts
<1>7. CASE GatewayRestarts
  BY <1>0, <1>7 DEF GatewayRestarts
<1>8. CASE ServiceEnds
  <2>1. sockets' \in [Methods -> [live : Nat, dead : Nat]]
    BY <1>0, <1>8 DEF ServiceEnds
  <2>2. lost' \subseteq Loops
    BY <1>0, <1>8 DEF ServiceEnds
  <2> QED
    BY <1>0, <1>8, <2>1, <2>2 DEF ServiceEnds
<1>9. CASE UNCHANGED sessionsVars
  BY <1>1, <1>9 DEF sessionsVars
<1> QED
  BY <1>2, <1>3, <1>4, <1>5, <1>6, <1>7, <1>8, <1>9 DEF SessionsNext

\* A thread that is in no call of the service is neither served nor lost.
Unserved(l) == l \notin lost /\ \A w \in Workers : caller[w] # l

LEMMA NotBlockedUnserved ==
  ASSUME CallerInv, NEW l \in Loops, handler[l].step \notin DOMAIN Method
  PROVE  Unserved(l)
<1>1. None \notin Loops
  BY SessionsAssumption
<1> QED
  BY <1>1 DEF CallerInv, CallerMatches, LostWaits, Unserved

\* Such a thread may do as it likes.
LEMMA ThreadMoves ==
  ASSUME CallerInv, NEW l \in Loops, \A w \in Workers : caller[w] # l, l \notin lost',
         \A k \in Loops \ {l} : handler'[k] = handler[k], lost' \subseteq lost, lost \subseteq Loops,
         caller \in [Workers -> Loops \cup {None}],
         UNCHANGED <<worker, caller, crashes, restarts, up, sockets>>
  PROVE  CallerInv'
<1> USE DEF InCall
<1>1. CallerMatches'
  BY DEF CallerInv, CallerMatches
<1>2. CallersApart' /\ LostWaits'
  BY DEF CallerInv, CallersApart, LostWaits
<1>3. NothingLost'
  BY DEF CallerInv, NothingLost
<1> QED
  BY <1>1, <1>2, <1>3 DEF CallerInv

\* A worker that goes on goes on for the same thread.
LEMMA WorkerMoves ==
  ASSUME CallerInv, NEW w \in Workers,
         (InCall(w) /\ worker'[w].step \notin {"idle", "return"}
            /\ worker'[w].op = worker[w].op /\ worker'[w].user = worker[w].user)
         \/ (~ InCall(w) /\ worker'[w].step \in {"idle", "return"}),
         \A v \in Workers \ {w} : worker'[v] = worker[v],
         UNCHANGED <<handler, caller, lost, crashes, restarts, up, sockets>>
  PROVE  CallerInv'
<1> USE DEF InCall
<1>1. CallerMatches'
  BY DEF CallerInv, CallerMatches
<1>2. CallersApart' /\ LostWaits'
  BY DEF CallerInv, CallersApart, LostWaits
<1>3. NothingLost'
  BY DEF CallerInv, NothingLost
<1> QED
  BY <1>1, <1>2, <1>3 DEF CallerInv

LEMMA CallerInvKept ==
  ASSUME ServiceInv, ThreadInv, [SessionsNext]_sessionsVars
  PROVE  CallerInv'
<1> USE DEF process, registrations
<1>0. /\ TypeOK /\ G!TypeOK /\ HandlerInv /\ CallerInv
      /\ caller \in [Workers -> Loops \cup {None}] /\ lost \subseteq Loops
      /\ sockets \in [Methods -> [live : Nat, dead : Nat]]
      /\ None \notin Loops /\ crashes \in Nat /\ restarts \in Nat
  BY SessionsAssumption DEF ServiceInv, ThreadInv, ChannelTyped, TypeOK, G!TypeOK
<1>1. G!Idle.step \notin DOMAIN Method /\ "bind" \notin DOMAIN Method
  BY DEF G!Idle, Method
<1>2. CallerMatches /\ CallersApart /\ LostWaits /\ NothingLost
  BY <1>0 DEF CallerInv
<1>3. ASSUME NEW c \in Conns, Client(c) PROVE CallerInv'
  <2>1. LoopOf[c] \in Loops
    BY SessionsAssumption
  <2>2. /\ handler[LoopOf[c]] = G!Idle /\ UNCHANGED restarts
        /\ UNCHANGED handler \/ \E h : Handles(LoopOf[c], h)
    BY <1>3, ClientEffect DEF Comes, Closes, Commands, OtherwiseSame
  <2>3. Unserved(LoopOf[c])
    BY <1>0, <1>1, <2>1, <2>2, NotBlockedUnserved
  <2>4. \A k \in Loops \ {LoopOf[c]} : handler'[k] = handler[k]
    BY <1>0, <2>2 DEF Handles, G!TypeOK
  <2>5. UNCHANGED <<serviceVars, channelVars>>
    BY <1>3 DEF Client
  <2> QED
    BY <1>0, <2>1, <2>2, <2>3, <2>4, <2>5, ThreadMoves
       DEF Unserved, channelVars, serviceVars, vars
<1>4. ASSUME NEW w \in Workers, NEW l \in Loops, Request(w, l) PROVE CallerInv'
  <2>1. /\ worker[w].step = "idle"
        /\ worker'[w].step \notin {"idle", "return"}
        /\ worker'[w].op = Op[handler[l].step] /\ worker'[w].user = handler[l].arg
        /\ \A v \in Workers \ {w} : worker'[v] = worker[v]
        /\ UNCHANGED <<up, crashes, restarts, lost, handler>>
        /\ caller' = [caller EXCEPT ![w] = l]
        /\ \A m \in Methods : sockets'[m].dead = sockets[m].dead
    <3>1. UNCHANGED <<up, crashes, restarts, lost, handler>>
      BY <1>0, <1>4, RequestEffect DEF gatewayVars
    <3>2. \A m \in Methods : sockets'[m].dead = sockets[m].dead
      <4>1. sockets' = [sockets EXCEPT ![MethodOf(l)].live = IF @ > 0 THEN @ - 1 ELSE 0]
        BY <1>4 DEF Request
      <4> QED
        BY <1>0, <4>1
    <3>3. worker[w].step = "idle"
      BY <1>0, <1>4, RequestEffect DEF Idle
    <3> QED
      BY <1>0, <1>4, <3>1, <3>2, <3>3, RequestEffect
  <2>2. handler[l].step \in DOMAIN Method /\ l \notin lost /\ \A v \in Workers : caller[v] # l
    BY <1>4 DEF Request, Calling
  <2>3. CallerMatches'
    BY <1>0, <1>2, <2>1, <2>2 DEF CallerMatches, InCall
  <2>4. CallersApart' /\ LostWaits'
    BY <1>0, <1>2, <2>1, <2>2 DEF CallersApart, LostWaits
  <2>5. NothingLost'
    BY <1>0, <1>2, <2>1, <2>2 DEF NothingLost, InCall
  <2> QED
    BY <2>3, <2>4, <2>5 DEF CallerInv
<1>5. ASSUME NEW l \in Loops, DeadSocket(l) \/ NoConnection(l) PROVE CallerInv'
  <2>1. /\ handler[l].step \in DOMAIN Method /\ \A w \in Workers : caller[w] # l
        /\ lost' = lost \cup {l} /\ UNCHANGED <<handler, restarts, worker, up, crashes, caller>>
    BY <1>5 DEF DeadSocket, NoConnection, Calling, gatewayVars, serviceVars, vars
  <2>2. MethodOf(l) \in Methods
    BY <2>1 DEF MethodOf, Method, Methods
  <2>3. crashes # 0
    BY <1>2, <1>5, <2>2 DEF DeadSocket, NoConnection, NothingLost, Pool, MethodOf
  <2>4. CallerMatches' /\ CallersApart' /\ LostWaits'
    BY <1>2, <2>1 DEF CallerMatches, CallersApart, LostWaits, InCall
  <2>5. NothingLost'
    BY <2>1, <2>3 DEF NothingLost
  <2> QED
    BY <2>4, <2>5 DEF CallerInv
<1>6. ASSUME NEW l \in Loops, Failed(l) PROVE CallerInv'
  <2>1. l \in lost /\ lost' = lost \ {l} /\ UNCHANGED <<worker, caller, crashes, up, sockets>>
        /\ Resume(l, FALSE, None)
    BY <1>6 DEF Failed, serviceVars, vars
  <2>2. handler[l].step \in DOMAIN Method /\ \A w \in Workers : caller[w] # l
    BY <1>2, <2>1 DEF LostWaits
  <2>3. Handles(l, G!Idle) /\ UNCHANGED restarts
    BY <1>0, <2>1, <2>2, ResumeEffect DEF Stays, OtherwiseSame
  <2>4. \A k \in Loops \ {l} : handler'[k] = handler[k]
    BY <1>0, <2>3 DEF Handles, G!TypeOK
  <2> QED
    BY <1>0, <2>1, <2>2, <2>3, <2>4, ThreadMoves
<1>7. ASSUME NEW w \in Workers, Answered(w) PROVE CallerInv'
  <2>1. /\ InCall(w) /\ worker'[w].step = "return"
        /\ \A v \in Workers \ {w} : worker'[v] = worker[v]
        /\ UNCHANGED <<up, crashes, lost>>
        /\ caller' = [caller EXCEPT ![w] = None]
    BY <1>0, <1>7, ReplyEffect DEF Answered
  <2>2. CASE caller[w] = None
    <3>1. UNCHANGED <<handler, restarts, sockets>>
      BY <1>7, <2>2 DEF Answered, gatewayVars
    <3>2. caller' = caller
      BY <1>0, <2>1, <2>2
    <3>3. CallerMatches' /\ CallersApart' /\ LostWaits'
      BY <1>2, <2>1, <2>2, <3>1, <3>2 DEF CallerMatches, CallersApart, LostWaits, InCall
    <3>4. NothingLost'
      BY <1>2, <2>1, <2>2, <3>1, <3>2 DEF NothingLost, InCall
    <3> QED
      BY <3>3, <3>4 DEF CallerInv
  <2>3. ASSUME NEW l \in Loops, caller[w] = l PROVE CallerInv'
    <3>1. /\ \E h : Handles(l, h)
          /\ UNCHANGED restarts
          /\ sockets' = [sockets EXCEPT ![MethodOf(l)].live = @ + 1]
      BY <1>7, <2>3, AnswerMatches DEF Enters, Leaves, Stays, OtherwiseSame
    <3>2. \A k \in Loops \ {l} : handler'[k] = handler[k]
      BY <1>0, <3>1 DEF Handles, G!TypeOK
    <3>3. \A m \in Methods : sockets'[m].dead = sockets[m].dead
      BY <1>0, <3>1
    <3>4. l \notin lost /\ \A v \in Workers \ {w} : caller[v] # l
      BY <1>0, <1>2, <2>3 DEF CallersApart, LostWaits
    <3>5. CallerMatches'
      BY <1>0, <1>2, <2>1, <3>2, <3>4 DEF CallerMatches, InCall
    <3>6. CallersApart' /\ LostWaits'
      BY <1>0, <1>2, <2>1, <3>2, <3>4 DEF CallersApart, LostWaits
    <3>7. NothingLost'
      BY <1>0, <1>2, <2>1, <3>1, <3>3 DEF NothingLost, InCall
    <3> QED
      BY <3>5, <3>6, <3>7 DEF CallerInv
  <2> QED
    BY <1>0, <2>2, <2>3
<1>8. ASSUME NEW w \in Workers, Serve(w) PROVE CallerInv'
  <2>1. UNCHANGED <<handler, restarts, caller, lost, sockets>>
    BY <1>8 DEF Serve, gatewayVars, channelVars
  <2>2. CASE Execute(w)
    BY <1>0, <2>1, <2>2, ExecuteGoesOn, WorkerMoves DEF GoesOn
  <2>3. CASE Return(w)
    <3>1. ~ InCall(w) /\ worker'[w].step = "idle"
      BY <1>0, <2>3, ReturnEffect DEF InCall, Idle
    <3> QED
      BY <1>0, <2>1, <2>3, <3>1, ReturnEffect, WorkerMoves
  <2> QED
    BY <1>8, <2>2, <2>3 DEF Serve
<1>9. CASE Gateway
  <2>1. UNCHANGED <<worker, caller, lost, crashes, up, sockets>>
    BY <1>9 DEF Gateway, serviceVars, channelVars, vars
  <2>2. ASSUME NEW c \in Conns, Vanishes(c) PROVE CallerInv'
    BY <1>2, <2>1, <2>2 DEF Vanishes, CallerInv, CallerMatches, CallersApart, LostWaits,
       NothingLost, InCall
  <2>3. ASSUME NEW l \in Loops, Greets(l) PROVE CallerInv'
    <3>1. Unserved(l)
      BY <1>0, <1>1, <2>3, NotBlockedUnserved DEF Greets
    <3>2. UNCHANGED restarts /\ \A k \in Loops \ {l} : handler'[k] = handler[k]
      BY <1>0, <2>3 DEF Greets, Handles, G!TypeOK
    <3> QED
      BY <1>0, <2>1, <3>1, <3>2, ThreadMoves DEF Unserved
  <2> QED
    BY <1>9, <2>2, <2>3, GatewayEffect
<1>10. CASE GatewayRestarts
  <2>1. /\ \A w \in Workers : caller'[w] = None
        /\ lost' = {} /\ restarts' = restarts + 1 /\ UNCHANGED <<worker, up, crashes>>
        /\ \A m \in Methods : sockets'[m].dead = 0
    BY <1>10, RestartEffect DEF GatewayRestarts, serviceVars, vars
  <2> QED
    BY <1>0, <1>2, <2>1 DEF CallerInv, CallerMatches, CallersApart, LostWaits, NothingLost
<1>11. CASE ServiceEnds
  <2>1. /\ \A w \in Workers : caller'[w] = None
        /\ crashes' = crashes + 1 /\ UNCHANGED <<handler, restarts>>
        /\ \A l \in lost' : l \in lost \/ Calling(l) \/ \E w \in Workers : caller[w] = l
    BY <1>11 DEF ServiceEnds, Crash, gatewayVars
  <2>2. \A l \in lost' : handler[l].step \in DOMAIN Method
    BY <1>0, <1>2, <1>11, <2>1 DEF LostWaits, Calling, CallerMatches, ServiceEnds
  <2>3. lost' \subseteq Loops
    BY <1>0, <1>11 DEF ServiceEnds
  <2>4. CallerMatches' /\ CallersApart' /\ LostWaits'
    BY <1>0, <2>1, <2>2, <2>3 DEF CallerMatches, CallersApart, LostWaits
  <2>5. NothingLost'
    BY <1>0, <2>1 DEF NothingLost
  <2> QED
    BY <2>4, <2>5 DEF CallerInv
<1>12. CASE ServiceStarts
  <2>1. UNCHANGED <<handler, restarts, worker, caller, lost, sockets, crashes>> /\ ~up
    BY <1>12 DEF ServiceStarts, Start, gatewayVars, channelVars
  <2>2. crashes # 0
    BY <1>2, <2>1 DEF NothingLost
  <2> QED
    BY <1>2, <2>1, <2>2 DEF CallerInv, CallerMatches, CallersApart, LostWaits, NothingLost, InCall
<1>13. CASE UNCHANGED sessionsVars
  <2>1. UNCHANGED <<handler, restarts, worker, caller, lost, sockets, crashes, up>>
    BY <1>13 DEF sessionsVars, gatewayVars, channelVars, serviceVars, vars
  <2> QED
    BY <1>2, <2>1 DEF CallerInv, CallerMatches, CallersApart, LostWaits, NothingLost, InCall
<1> QED
  BY <1>3, <1>4, <1>5, <1>6, <1>7, <1>8, <1>9, <1>10, <1>11, <1>12, <1>13
     DEF SessionsNext, Answer

-----------------------------------------------------------------------------
(* Sockets.                                                                 *)

LEMMA ServedFinite ==
  /\ Cardinality(Loops) \in Nat
  /\ \A m \in Methods :
        /\ IsFiniteSet(Served(m)) /\ Cardinality(Served(m)) \in Nat
        /\ Cardinality(Served(m)) <= Cardinality(Loops)
<1>1. \A m \in Methods : Served(m) \subseteq Loops
  BY DEF Served
<1> QED
  BY <1>1, SessionsAssumption, FS_Subset, FS_CardinalityType

\* The same for what is served after a step.
LEMMA ServedFiniteNext ==
  \A m \in Methods :
     /\ IsFiniteSet(Served(m)') /\ Cardinality(Served(m)') \in Nat
     /\ Cardinality(Served(m)') <= Cardinality(Loops)
<1>1. \A m \in Methods : Served(m)' \subseteq Loops
  BY DEF Served
<1> QED
  BY <1>1, SessionsAssumption, FS_Subset, FS_CardinalityType

\* No thread comes to a call or leaves one, and no socket is added.
LEMMA SocketsStay ==
  ASSUME SocketInv, ThreadInv, UNCHANGED caller,
         \A w \in Workers : caller[w] # None => handler'[caller[w]] = handler[caller[w]],
         sockets' \in [Methods -> [live : Nat, dead : Nat]],
         \A m \in Methods : sockets'[m].live = sockets[m].live /\ sockets'[m].dead <= sockets[m].dead
  PROVE  SocketInv'
<1>0. None \notin Loops /\ sockets \in [Methods -> [live : Nat, dead : Nat]]
  BY SessionsAssumption DEF ThreadInv, ChannelTyped
<1>1. ASSUME NEW m \in Methods PROVE Served(m)' = Served(m)
  BY <1>0 DEF Served, MethodOf
<1>2. ASSUME NEW m \in Methods
      PROVE sockets'[m].live + sockets'[m].dead + Cardinality(Served(m)') <= Cardinality(Loops)
  <2>1. sockets[m].live + sockets[m].dead + Cardinality(Served(m)) <= Cardinality(Loops)
    BY DEF SocketInv
  <2>2. sockets[m] \in [live : Nat, dead : Nat] /\ sockets'[m] \in [live : Nat, dead : Nat]
    BY <1>0
  <2>3. Cardinality(Served(m)') = Cardinality(Served(m))
    BY <1>1
  <2> QED
    BY <2>1, <2>2, <2>3, ServedFinite
<1> QED
  BY <1>2 DEF SocketInv

LEMMA SocketInvKept ==
  ASSUME ServiceInv, ThreadInv, SocketInv, [SessionsNext]_sessionsVars
  PROVE  SocketInv'
<1>0. /\ TypeOK /\ G!TypeOK /\ HandlerInv /\ CallerMatches /\ CallersApart /\ LostWaits
      /\ caller \in [Workers -> Loops \cup {None}] /\ lost \subseteq Loops
      /\ sockets \in [Methods -> [live : Nat, dead : Nat]] /\ None \notin Loops
  BY SessionsAssumption DEF ServiceInv, ThreadInv, ChannelTyped, CallerInv
<1>a. sockets' \in [Methods -> [live : Nat, dead : Nat]]
  BY ChannelTypesKept DEF ChannelTyped
<1>b. \A m \in Methods : sockets[m] \in [live : Nat, dead : Nat]
                         /\ sockets'[m] \in [live : Nat, dead : Nat]
  BY <1>0, <1>a
<1>c. ASSUME UNCHANGED <<caller, handler, sockets>> PROVE SocketInv'
  BY <1>c DEF SocketInv, Served, MethodOf
\* What a thread does that is in no call.
<1>d. ASSUME NEW l \in Loops, \A w \in Workers : caller[w] # l,
             \A k \in Loops \ {l} : handler'[k] = handler[k], UNCHANGED <<caller, sockets>>
      PROVE  SocketInv'
  <2>1. \A w \in Workers : caller[w] # None => handler'[caller[w]] = handler[caller[w]]
    BY <1>0, <1>d
  <2> QED
    BY <1>b, <1>a, <1>d, <2>1, SocketsStay
<1>1. ASSUME NEW c \in Conns, Client(c) PROVE SocketInv'
  <2>1. LoopOf[c] \in Loops
    BY SessionsAssumption
  <2>2. /\ handler[LoopOf[c]] = G!Idle
        /\ UNCHANGED handler \/ \E h : Handles(LoopOf[c], h)
    BY <1>1, ClientEffect DEF Comes, Closes, Commands
  <2>3. \A w \in Workers : caller[w] # LoopOf[c]
    BY <2>1, <2>2, NotBlockedUnserved DEF Unserved, G!Idle, Method, ThreadInv
  <2>4. \A k \in Loops \ {LoopOf[c]} : handler'[k] = handler[k]
    BY <1>0, <2>2 DEF Handles, G!TypeOK
  <2>5. UNCHANGED <<caller, sockets>>
    BY <1>1 DEF Client, channelVars
  <2> QED
    BY <1>d, <2>1, <2>3, <2>4, <2>5
<1>2. ASSUME NEW w \in Workers, NEW l \in Loops, Request(w, l) PROVE SocketInv'
  <2>1. PICK k \in Methods : k = MethodOf(l)
    BY <1>2, MethodTyped DEF Request, Calling
  <2>2. /\ \A v \in Workers : caller[v] # l
        /\ caller' = [caller EXCEPT ![w] = l] /\ UNCHANGED handler
        /\ sockets[k].dead = 0
        /\ sockets' = [sockets EXCEPT ![k].live = IF @ > 0 THEN @ - 1 ELSE 0]
    BY <1>2, <2>1 DEF Request, Calling, gatewayVars, Pool, MethodOf
  <2>3. caller[w] = None
    <3>1. worker[w].step = "idle"
      BY <1>0, <1>2, RequestEffect DEF Idle
    <3> QED
      BY <1>0, <3>1 DEF CallerMatches, InCall
  <2>4. ASSUME NEW m \in Methods PROVE Served(m)' = IF m = k THEN Served(m) \cup {l} ELSE Served(m)
    BY <1>0, <2>1, <2>2, <2>3 DEF Served, MethodOf
  <2>5. l \notin Served(k)
    BY <2>2 DEF Served
  <2>6. ASSUME NEW m \in Methods
        PROVE sockets'[m].live + sockets'[m].dead + Cardinality(Served(m)') <= Cardinality(Loops)
    <3>1. sockets[m].live + sockets[m].dead + Cardinality(Served(m)) <= Cardinality(Loops)
      BY DEF SocketInv
    <3>2. CASE m # k
      <4>1. sockets'[m] = sockets[m] /\ Cardinality(Served(m)') = Cardinality(Served(m))
        BY <1>0, <2>2, <2>4, <3>2
      <4> QED
        BY <3>1, <4>1
    <3>3. CASE m = k
      <4>1. Cardinality(Served(m)') = Cardinality(Served(m)) + 1
        BY <2>4, <2>5, <3>3, ServedFinite, FS_AddElement
      <4>2. /\ sockets'[m].live = IF sockets[m].live > 0 THEN sockets[m].live - 1 ELSE 0
            /\ sockets'[m].dead = 0
        BY <1>0, <2>2, <3>3
      <4> QED
        BY <1>b, <2>2, <3>1, <3>3, <4>1, <4>2, ServedFinite, ServedFiniteNext
    <3> QED
      BY <3>2, <3>3
  <2> QED
    BY <2>6 DEF SocketInv
<1>3. ASSUME NEW l \in Loops, DeadSocket(l) PROVE SocketInv'
  <2>1. PICK k \in Methods : k = MethodOf(l)
    BY <1>3, MethodTyped DEF DeadSocket, Calling
  <2>2. UNCHANGED <<caller, handler>> /\ sockets' = [sockets EXCEPT ![k].dead = @ - 1]
    BY <1>3, <2>1 DEF DeadSocket, gatewayVars
  <2>3. sockets[k].dead > 0
    BY <1>3, <2>1 DEF DeadSocket, Pool, MethodOf
  <2>4. \A m \in Methods : sockets'[m].live = sockets[m].live
                           /\ sockets'[m].dead <= sockets[m].dead
    BY <1>0, <1>b, <2>2, <2>3
  <2> QED
    BY <1>a, <2>2, <2>4, SocketsStay
<1>4. ASSUME NEW l \in Loops, Failed(l) PROVE SocketInv'
  <2>1. l \in lost /\ UNCHANGED <<caller, sockets>> /\ Resume(l, FALSE, None)
    BY <1>4 DEF Failed
  <2>2. handler[l].step \in DOMAIN Method /\ \A w \in Workers : caller[w] # l
    BY <1>0, <2>1 DEF LostWaits
  <2>3. Handles(l, G!Idle)
    BY <1>0, <2>1, <2>2, ResumeEffect DEF Stays
  <2>4. \A k \in Loops \ {l} : handler'[k] = handler[k]
    BY <1>0, <2>3 DEF Handles, G!TypeOK
  <2> QED
    BY <1>d, <2>1, <2>2, <2>4
<1>5. ASSUME NEW w \in Workers, Answered(w) PROVE SocketInv'
  <2>1. caller' = [caller EXCEPT ![w] = None]
    BY <1>5 DEF Answered
  <2>2. CASE caller[w] = None
    <3>1. UNCHANGED <<handler, sockets>>
      BY <1>5, <2>2 DEF Answered, gatewayVars
    <3>2. caller' = caller
      BY <1>0, <2>1, <2>2
    <3> QED
      BY <1>c, <3>1, <3>2
  <2>3. ASSUME NEW l \in Loops, caller[w] = l PROVE SocketInv'
    <3>1. /\ handler[l].step \in DOMAIN Method /\ \E h : Handles(l, h)
          /\ sockets' = [sockets EXCEPT ![MethodOf(l)].live = @ + 1]
      BY <1>5, <2>3, AnswerMatches DEF Enters, Leaves, Stays
    <3>2. PICK k \in Methods : k = MethodOf(l)
      BY <3>1, MethodTyped
    <3>3. \A i \in Loops \ {l} : handler'[i] = handler[i]
      BY <1>0, <3>1 DEF Handles, G!TypeOK
    <3>4. \A v \in Workers \ {w} : caller[v] # l
      BY <1>0, <2>3 DEF CallersApart
    <3>5. ASSUME NEW m \in Methods
          PROVE  Served(m)' = IF m = k THEN Served(m) \ {l} ELSE Served(m)
      BY <1>0, <2>1, <2>3, <3>2, <3>3, <3>4 DEF Served, MethodOf
    <3>6. l \in Served(k)
      BY <2>3, <3>2 DEF Served
    <3>7. ASSUME NEW m \in Methods
          PROVE sockets'[m].live + sockets'[m].dead + Cardinality(Served(m)') <= Cardinality(Loops)
      <4>1. sockets[m].live + sockets[m].dead + Cardinality(Served(m)) <= Cardinality(Loops)
        BY DEF SocketInv
      <4>2. CASE m # k
        <5>1. sockets'[m] = sockets[m] /\ Cardinality(Served(m)') = Cardinality(Served(m))
          BY <1>0, <3>1, <3>2, <3>5, <4>2
        <5> QED
          BY <4>1, <5>1
      <4>3. CASE m = k
        <5>1. Cardinality(Served(m)') = Cardinality(Served(m)) - 1
          BY <3>5, <3>6, <4>3, ServedFinite, FS_RemoveElement
        <5>2. sockets'[m].live = sockets[m].live + 1 /\ sockets'[m].dead = sockets[m].dead
          BY <1>0, <3>1, <3>2, <4>3
        <5> QED
          BY <1>b, <4>1, <5>1, <5>2, ServedFinite
      <4> QED
        BY <4>2, <4>3
    <3> QED
      BY <3>7 DEF SocketInv
  <2> QED
    BY <1>0, <2>2, <2>3
<1>6. ASSUME NEW w \in Workers, Serve(w) PROVE SocketInv'
  BY <1>6, <1>c DEF Serve, gatewayVars, channelVars
<1>7. CASE Gateway
  <2>1. UNCHANGED <<caller, sockets>>
    BY <1>7 DEF Gateway, channelVars
  <2>2. ASSUME NEW c \in Conns, Vanishes(c) PROVE SocketInv'
    BY <1>c, <2>1, <2>2 DEF Vanishes
  <2>3. ASSUME NEW l \in Loops, Greets(l) PROVE SocketInv'
    <3>1. \A w \in Workers : caller[w] # l
      BY <2>3, NotBlockedUnserved DEF Unserved, Greets, Method, ThreadInv
    <3>2. \A k \in Loops \ {l} : handler'[k] = handler[k]
      BY <1>0, <2>3 DEF Greets, Handles, G!TypeOK
    <3> QED
      BY <1>d, <2>1, <3>1, <3>2
  <2> QED
    BY <1>7, <2>2, <2>3, GatewayEffect
\* Nobody is served after the end of a process.
<1>e. ASSUME \A w \in Workers : caller'[w] = None,
             \A m \in Methods : sockets'[m].live + sockets'[m].dead <= Cardinality(Loops)
      PROVE  SocketInv'
  <2>1. ASSUME NEW m \in Methods PROVE Served(m)' = {}
    BY <1>0, <1>e DEF Served
  <2>2. Cardinality({}) = 0
    BY FS_EmptySet
  <2>3. ASSUME NEW m \in Methods
        PROVE sockets'[m].live + sockets'[m].dead + Cardinality(Served(m)') <= Cardinality(Loops)
    <3>1. Cardinality(Served(m)') = 0
      BY <2>1, <2>2
    <3> QED
      BY <1>b, <1>e, <3>1
  <2> QED
    BY <2>3 DEF SocketInv
<1>8. CASE GatewayRestarts
  BY <1>8, <1>e, ServedFinite DEF GatewayRestarts
<1>9. CASE ServiceEnds
  <2>1. ASSUME NEW m \in Methods
        PROVE  sockets'[m].live + sockets'[m].dead <= Cardinality(Loops)
    <3>1. sockets'[m].live = 0 /\ sockets'[m].dead = sockets[m].dead + sockets[m].live
      BY <1>9 DEF ServiceEnds
    <3>2. sockets[m].live + sockets[m].dead + Cardinality(Served(m)) <= Cardinality(Loops)
      BY DEF SocketInv
    <3> QED
      BY <1>b, <3>1, <3>2, ServedFinite
  <2> QED
    BY <1>9, <1>e, <2>1 DEF ServiceEnds
<1>10. CASE ServiceStarts
  BY <1>10, <1>c DEF ServiceStarts, gatewayVars, channelVars
<1>11. CASE UNCHANGED sessionsVars
  BY <1>11, <1>c DEF sessionsVars, gatewayVars, channelVars
<1>12. ASSUME NEW l \in Loops, NoConnection(l) PROVE SocketInv'
  BY <1>12, <1>c DEF NoConnection, gatewayVars
<1> QED
  BY <1>1, <1>2, <1>3, <1>4, <1>5, <1>6, <1>7, <1>8, <1>9, <1>10, <1>11, <1>12
     DEF SessionsNext, Answer

\* The invariant at first.
LEMMA CompositionStarts == SessionsInit => CompositionInv
<1> SUFFICES ASSUME SessionsInit PROVE CompositionInv
  OBVIOUS
<1> USE SessionsAssumption DEF SessionsInit
<1>1. ServiceInv
  <2>1. TypeOK /\ RefusalInv /\ IdInv
    BY TypeStarts, RefusalInvStarts, IdInvStarts
  <2>2. DbInv
    BY DEF Init, DbInv, Idle, DbSteps
  <2> QED
    BY <2>1, <2>2 DEF ServiceInv
<1>2. G!TypeOK
  <2>1. \A S : <<>> \in Seq(S)
    BY EmptySeq
  <2>2. handler \in [Loops -> G!Handler] /\ observer \in G!Observer
    BY DEF G!Init, G!Handler, G!Observer
  <2>3. functors \in [Loops -> Seq(G!Functor)] /\ out \in [Conns -> Seq(G!Line)]
    BY <2>1 DEF G!Init
  <2>4. channel \in Seq({}) /\ published \in Seq({})
    BY <2>1 DEF G!Init
  <2> QED
    BY <2>2, <2>3, <2>4 DEF G!Init, G!TypeOK, G!ConnState
<1>3. ChannelTyped
  BY DEF ChannelTyped
<1>4. HandlerInv
  BY DEF G!Init, HandlerInv, G!OwnThread, G!ServedUp, G!Idle
<1>5. CallerInv
  BY DEF Init, G!Init, CallerInv, CallerMatches, CallersApart, LostWaits, NothingLost, InCall,
     Idle
<1>6. SocketInv
  <2>1. \A m \in Methods : Served(m) = {}
    BY DEF Served
  <2>2. Cardinality({}) = 0
    BY FS_EmptySet
  <2> QED
    BY <2>1, <2>2, ServedFinite DEF SocketInv
<1> QED
  BY <1>1, <1>2, <1>3, <1>4, <1>5, <1>6 DEF CompositionInv, ThreadInv

LEMMA CompositionKept ==
  ASSUME CompositionInv, [SessionsNext]_sessionsVars
  PROVE  CompositionInv'
<1>1. ServiceInv /\ ThreadInv /\ SocketInv
  BY DEF CompositionInv
<1>2. [Next]_vars
  BY <1>1, ServiceStep DEF ServiceInv, ThreadInv
<1>3. TypeOK' /\ RefusalInv' /\ IdInv' /\ DbInv'
  BY <1>1, <1>2, TypeKept, PoolNeverEmpty, RefusalInvKept, IdInvKept, DbInvKept
     DEF ServiceInv, ThreadInv
<1>4. GatewayStep
  BY <1>1, EveryGatewayStep
<1>5. G!TypeOK' /\ HandlerInv'
  BY <1>1, <1>4, GatewayTypesKept, HandlerInvKept DEF ThreadInv
<1>6. ChannelTyped' /\ CallerInv' /\ SocketInv'
  BY <1>1, ChannelTypesKept, CallerInvKept, SocketInvKept
<1> QED
  BY <1>3, <1>5, <1>6 DEF CompositionInv, ServiceInv, ThreadInv

\* The inductive invariant of the composition: a thread of the gateway that is blocked
\* in a call of the user service has at most one worker, which executes this call
\* (CallMethod in mprpcchannel.cc), and what both processes keep of it agrees.
THEOREM CompositionInvariant == SessionsSpec => []CompositionInv
BY CompositionStarts, CompositionKept, PTL DEF SessionsSpec

\* The state of both processes and of the channel between them is well typed; the
\* channel keeps at most one socket for each IO thread and method.
THEOREM SessionsTypeCorrect == SessionsSpec => []SessionsTypeOK
<1>1. CompositionInv => SessionsTypeOK
  <2> SUFFICES ASSUME CompositionInv PROVE SessionsTypeOK
    OBVIOUS
  <2>1. sockets \in [Methods -> [live : Nat, dead : Nat]]
    BY DEF CompositionInv, ThreadInv, ChannelTyped
  <2>2. ASSUME NEW m \in Methods
        PROVE  sockets[m] \in [live : 0..Cardinality(Loops), dead : 0..Cardinality(Loops)]
    <3>1. sockets[m].live + sockets[m].dead + Cardinality(Served(m)) <= Cardinality(Loops)
      BY DEF CompositionInv, SocketInv
    <3>2. sockets[m] \in [live : Nat, dead : Nat]
      BY <2>1
    <3>3. sockets[m].live \in 0..Cardinality(Loops) /\ sockets[m].dead \in 0..Cardinality(Loops)
      BY <3>1, <3>2, ServedFinite
    <3> QED
      BY <3>2, <3>3
  <2>3. sockets \in [Methods -> [live : 0..Cardinality(Loops), dead : 0..Cardinality(Loops)]]
    BY <2>1, <2>2
  <2> QED
    BY <2>3 DEF CompositionInv, ServiceInv, ThreadInv, ChannelTyped, SessionsTypeOK
<1> QED
  BY <1>1, CompositionInvariant, PTL

-----------------------------------------------------------------------------
(* The table of entries and the sessions.                                   *)

\* The table may name a session of the user, one that has ended, or one that
\* another user has taken over.
EntrySound(u, c) ==
  uid2conn[u] = c =>
     /\ conn[c] # "fresh"
     /\ conn[c] = "up" /\ u \notin replaced => sess[c] = u

LEMMA EntriesSound == EntryInv <=> \A u \in Users, c \in Conns : EntrySound(u, c)
BY DEF EntryInv, EntriesNameSessions, EntrySound

LEMMA EntryInvStarts == SessionsInit => EntryInv
BY SessionsAssumption DEF SessionsInit, G!Init, EntryInv, EntriesNameSessions

\* A LOGIN or REGISTER that is answered puts its user in the place of another, who is
\* recorded as replaced.
LEMMA EnteringKeepsEntries ==
  ASSUME ThreadInv, EntryInv, NEW l \in Loops, handler[l].step \in DOMAIN Method,
         NEW v \in Users, Enters(l, v), UNCHANGED conn, replaced' = replaced \cup Overwritten
  PROVE  EntryInv'
<1> USE SessionsAssumption
<1>0. PICK d \in Conns : d = handler[l].conn /\ conn[d] = "up"
  <2>1. handler[l].step # "close"
    BY DEF Enters
  <2> QED
    BY <2>1, BlockedServes DEF ThreadInv
<1>1. /\ sess' = [sess EXCEPT ![d] = v] /\ uid2conn' = [uid2conn EXCEPT ![v] = d]
      /\ sess \in [Conns -> Users \cup {None}] /\ uid2conn \in [Users -> Conns \cup {None}]
  BY <1>0 DEF Enters, ThreadInv, G!TypeOK
<1>2. ASSUME NEW u \in Users, NEW c \in Conns PROVE EntrySound(u, c)'
  <2>0. EntrySound(u, c)
    BY EntriesSound
  <2>1. CASE c # d
    BY <1>1, <2>0, <2>1 DEF EntrySound
  <2>2. CASE c = d /\ u = v
    BY <1>0, <1>1, <2>2 DEF EntrySound
  <2>3. CASE c = d /\ u # v
    <3>0. sess'[d] = v /\ v \notin {u, None}
      BY <1>1, <2>3, UserServiceAssumption
    <3>1. sess[d] = u => u \in Overwritten
      BY <3>0 DEF Overwritten
    <3> QED
      BY <1>0, <1>1, <2>0, <2>3, <3>1 DEF EntrySound
  <2> QED
    BY <2>1, <2>2, <2>3
<1> QED
  BY <1>2 DEF EntrySound, EntryInv, EntriesNameSessions

LEMMA EntryInvKept ==
  ASSUME ServiceInv, ThreadInv, EntryInv, [SessionsNext]_sessionsVars
  PROVE  EntryInv'
<1> USE SessionsAssumption
<1>0. \A u \in Users, c \in Conns : EntrySound(u, c)
  BY EntriesSound
<1>a. (\A u \in Users, c \in Conns : EntrySound(u, c)') => EntryInv'
  BY DEF EntrySound, EntryInv, EntriesNameSessions
<1>b. /\ conn \in [Conns -> G!ConnState] /\ sess \in [Conns -> Users \cup {None}]
      /\ uid2conn \in [Users -> Conns \cup {None}]
  BY DEF ThreadInv, G!TypeOK
<1>c. ASSUME UNCHANGED <<conn, sess, uid2conn>>, replaced \subseteq replaced' PROVE EntryInv'
  BY <1>0, <1>a, <1>c DEF EntrySound
<1>1. ASSUME NEW c \in Conns, Client(c) PROVE EntryInv'
  <2>0. replaced' = replaced /\ (Comes(c) \/ Closes(c) \/ Commands(c))
    BY <1>1, ClientEffect DEF Client
  <2>1. CASE Comes(c)
    BY <1>0, <1>a, <1>b, <2>0, <2>1 DEF EntrySound, Comes
  <2>2. CASE Closes(c)
    BY <1>0, <1>a, <1>b, <2>0, <2>2 DEF EntrySound, Closes
  <2>3. CASE Commands(c)
    BY <1>c, <2>0, <2>3 DEF Commands
  <2> QED
    BY <2>0, <2>1, <2>2, <2>3
<1>2. ASSUME NEW l \in Loops, Answer(l) PROVE EntryInv'
  <2>1. CASE (\E w \in Workers : Request(w, l)) \/ DeadSocket(l) \/ NoConnection(l)
    BY <1>c, <2>1 DEF Request, DeadSocket, NoConnection, gatewayVars
  <2>2. CASE Failed(l)
    <3>1. handler[l].step \in DOMAIN Method /\ Resume(l, FALSE, None) /\ replaced' = replaced
      BY <2>2 DEF Failed, ThreadInv, CallerInv, LostWaits
    <3>2. Stays(l) /\ UNCHANGED conn
      BY <3>1, ResumeEffect DEF ThreadInv
    <3> QED
      BY <1>c, <3>1, <3>2 DEF Stays
  <2> QED
    BY <1>2, <2>1, <2>2 DEF Answer
<1>3. ASSUME NEW w \in Workers, Answered(w) PROVE EntryInv'
  <2>1. CASE caller[w] = None
    BY <1>3, <1>c, <2>1 DEF Answered, gatewayVars
  <2>2. CASE caller[w] # None
    <3>1. PICK l \in Loops : caller[w] = l
      BY <2>2 DEF ThreadInv, ChannelTyped
    <3>2. PICK u : u = worker[w].user
      OBVIOUS
    <3>3. /\ UNCHANGED conn /\ handler[l].step \in DOMAIN Method
          /\ replaced' = replaced \cup Overwritten
          /\ (u \in Users /\ Enters(l, u)) \/ Leaves(l) \/ Stays(l)
      BY <1>3, <3>1, <3>2, AnswerMatches
    <3>4. CASE u \in Users /\ Enters(l, u)
      BY <3>3, <3>4, EnteringKeepsEntries
    <3>5. CASE Leaves(l)
      <4>1. PICK d \in Conns : d = handler[l].conn
        BY <3>3, BlockedServes DEF ThreadInv
      <4>2. /\ uid2conn' = [uid2conn EXCEPT ![sess[d]] = None]
            /\ sess' = [sess EXCEPT ![d] = None]
        BY <3>5, <4>1 DEF Leaves
      <4>3. ASSUME NEW v \in Users, NEW c \in Conns PROVE EntrySound(v, c)'
        BY <1>0, <1>b, <3>3, <4>2 DEF EntrySound
      <4> QED
        BY <1>a, <4>3
    <3> QED
      BY <1>c, <3>3, <3>4, <3>5 DEF Stays
  <2> QED
    BY <2>1, <2>2
<1>4. CASE Gateway
  <2>1. replaced' = replaced
    BY <1>4 DEF Gateway
  <2>2. ASSUME NEW c \in Conns, Vanishes(c) PROVE EntryInv'
    BY <1>0, <1>a, <1>b, <2>1, <2>2 DEF EntrySound, Vanishes
  <2>3. ASSUME NEW l \in Loops, Greets(l) PROVE EntryInv'
    BY <1>c, <2>1, <2>3 DEF Greets
  <2> QED
    BY <1>4, <2>2, <2>3, GatewayEffect
<1>5. CASE GatewayRestarts
  BY <1>5, <1>a, RestartEffect DEF EntrySound
<1>6. CASE (\E w \in Workers : Serve(w)) \/ ServiceEnds \/ ServiceStarts \/ UNCHANGED sessionsVars
  BY <1>6, <1>c DEF Serve, ServiceEnds, ServiceStarts, sessionsVars, gatewayVars
<1> QED
  BY <1>1, <1>2, <1>3, <1>4, <1>5, <1>6 DEF SessionsNext

\* Messages for a user are never written into the session of somebody else, except
\* after a second LOGIN or REGISTER on a connection (gatewayServer.cc:405).
THEOREM EntriesInvariant == SessionsSpec => []EntriesNameSessions
<1>1. CompositionInv /\ EntryInv /\ [SessionsNext]_sessionsVars => EntryInv'
  BY EntryInvKept DEF CompositionInv
<1>2. EntryInv => EntriesNameSessions
  BY DEF EntryInv
<1> QED
  BY <1>1, <1>2, EntryInvStarts, CompositionInvariant, PTL DEF SessionsSpec

-----------------------------------------------------------------------------
(* Users who are online, and why.                                           *)

\* A close callback runs for a connection that is down.
ClosingInv ==
  \A l \in Loops : handler[l].step = "close" => conn[handler[l].conn] \notin {"fresh", "up"}

LEMMA ClosingInvKept ==
  ASSUME G!TypeOK, ClosingInv, GatewayStep
  PROVE  ClosingInv'
<1> USE DEF ClosingInv
<1>a. conn \in [Conns -> G!ConnState] /\ handler \in [Loops -> G!Handler]
      /\ LoopOf \in [Conns -> Loops]
  BY SessionsAssumption DEF G!TypeOK
<1>b. \A l \in Loops : handler[l].step = "close" => handler[l].conn \in Conns
  <2>1. \A l \in Loops : handler[l].step = "close" => handler[l] # G!Idle
    BY DEF G!Idle
  <2> QED
    BY <2>1, HandlerTyped
<1>1. ASSUME NEW l \in Loops, NEW h, Handles(l, h), UNCHANGED conn, h.step # "close"
      PROVE  ClosingInv'
  BY <1>1, <1>a DEF Handles
<1>2. ASSUME NEW c \in Conns, Comes(c) \/ Closes(c) \/ Commands(c) PROVE ClosingInv'
  <2>1. CASE Comes(c)
    BY <1>a, <1>b, <2>1 DEF Comes
  <2>2. CASE Closes(c)
    BY <1>a, <1>b, <2>2 DEF Closes, Handles, Handling
  <2>3. CASE Commands(c)
    <3>1. CASE UNCHANGED handler
      BY <2>3, <3>1 DEF Commands
    <3>2. ASSUME NEW step \in {"register", "login", "logout"}, NEW u,
                 Handles(LoopOf[c], Handling(c, step, u))
          PROVE  ClosingInv'
      <4>1. Handling(c, step, u).step # "close"
        BY DEF Handling
      <4> QED
        BY <1>1, <1>a, <2>3, <3>2, <4>1 DEF Commands
    <3> QED
      BY <2>3, <3>1, <3>2 DEF Commands
  <2> QED
    BY <1>2, <2>1, <2>2, <2>3
<1>3. ASSUME NEW l \in Loops, NEW u, Enters(l, u), UNCHANGED conn PROVE ClosingInv'
  <2>1. Handling(handler[l].conn, "bind", u).step # "close"
    BY DEF Handling
  <2> QED
    BY <1>1, <1>3, <2>1 DEF Enters
<1>4. ASSUME NEW l \in Loops, Handles(l, G!Idle), UNCHANGED conn PROVE ClosingInv'
  <2>1. G!Idle.step # "close"
    BY DEF G!Idle
  <2> QED
    BY <1>1, <1>4, <2>1
<1>5. ASSUME NEW c \in Conns, Vanishes(c) PROVE ClosingInv'
  BY <1>5, <1>a, <1>b DEF Vanishes
<1>6. CASE GatewayRestarts
  BY <1>6, RestartEffect DEF G!Idle
<1>7. CASE UNCHANGED gatewayVars
  BY <1>7 DEF gatewayVars
<1> QED
  BY <1>2, <1>3, <1>4, <1>5, <1>6, <1>7 DEF GatewayStep, Leaves, Stays, Greets

-----------------------------------------------------------------------------
\* What an executed step does to the database.
LEMMA ExecuteEffect ==
  ASSUME TypeOK, NEW w \in Workers, Execute(w)
  PROVE  /\ faults' = faults \/ faults' = faults + 1
         /\ worker[w].step \notin {"accept", "refuse"}
         /\ UNCHANGED state \/ SetOnline(w) \/ SetOffline(w)
<1> USE DEF logins, registrations, process
<1>1. CASE Acquire(w) \/ TimedOut(w) \/ QueryFails(w)
  BY <1>1 DEF Acquire, TimedOut, QueryFails, Waiting, PoolSteps, Fault
<1>2. CASE Authenticate(w) \/ CheckState(w) \/ SetOnline(w) \/ SetOffline(w)
  BY <1>2 DEF Authenticate, CheckState, SetOnline, SetOffline, Ready
<1>3. CASE UserExists(w) \/ InsertUser(w) \/ NewId(w) \/ FriendsStatement(w)
  BY <1>3 DEF UserExists, InsertUser, NewId, FriendsStatement, Fault
<1> QED
  BY <1>1, <1>2, <1>3 DEF Execute

\* What is undisturbed after a step was so before, and the step is no end or start
\* of a process.
LEMMA StaysUndisturbed ==
  ASSUME CompositionInv, [SessionsNext]_sessionsVars, Undisturbed'
  PROVE  /\ Undisturbed /\ up /\ lost = {}
         /\ \A w \in Workers : InCall(w) => caller[w] # None
         /\ ~ GatewayRestarts /\ ~ ServiceEnds /\ ~ ServiceStarts
<1>a. TypeOK /\ G!TypeOK /\ HandlerInv /\ crashes \in Nat /\ restarts \in Nat /\ NothingLost
  BY DEF CompositionInv, ServiceInv, ThreadInv, TypeOK, G!TypeOK, CallerInv
<1>b. ASSUME size' = size, faults' = faults \/ faults' = faults + 1,
             crashes' = crashes, restarts' = restarts
      PROVE  Undisturbed
  BY <1>a, <1>b, AmpleBefore DEF Undisturbed
<1>1. ~ GatewayRestarts
  BY <1>a, RestartEffect DEF Undisturbed
<1>2. ~ ServiceEnds
  BY <1>a DEF ServiceEnds, Crash, Undisturbed
<1>3. ~ ServiceStarts
  BY <1>a DEF ServiceStarts, Start, gatewayVars, Undisturbed, NothingLost
<1>4. ASSUME NEW c \in Conns, Client(c) PROVE Undisturbed
  <2>1. UNCHANGED restarts
    BY <1>4, ClientEffect DEF OtherwiseSame
  <2> QED
    BY <1>4, <1>b, <2>1 DEF Client, serviceVars, vars, process
<1>5. ASSUME NEW l \in Loops, Answer(l) PROVE Undisturbed
  <2>1. ASSUME NEW w \in Workers, Request(w, l) PROVE Undisturbed
    <3>1. UNCHANGED process /\ UNCHANGED faults /\ UNCHANGED gatewayVars
      BY <1>a, <2>1, RequestEffect
    <3> QED
      BY <1>b, <3>1 DEF process, gatewayVars
  <2>2. CASE DeadSocket(l) \/ NoConnection(l)
    BY <1>b, <2>2 DEF DeadSocket, NoConnection, gatewayVars, serviceVars, vars, process
  <2>3. CASE Failed(l)
    <3>1. handler[l].step \in DOMAIN Method /\ Resume(l, FALSE, None)
      BY <2>3 DEF Failed, CompositionInv, ThreadInv, CallerInv, LostWaits
    <3>2. UNCHANGED restarts
      BY <1>a, <3>1, ResumeEffect DEF OtherwiseSame
    <3> QED
      BY <1>b, <2>3, <3>2 DEF Failed, serviceVars, vars, process
  <2> QED
    BY <1>5, <2>1, <2>2, <2>3 DEF Answer
<1>6. ASSUME NEW w \in Workers, Answered(w) PROVE Undisturbed
  <2>1. UNCHANGED process /\ UNCHANGED faults
    BY <1>6 DEF Answered, Reply
  <2>2. UNCHANGED restarts
    <3>1. CASE caller[w] = None
      BY <1>6, <3>1 DEF Answered, gatewayVars
    <3>2. CASE caller[w] # None
      <4>1. PICK l \in Loops : caller[w] = l
        BY <3>2 DEF CompositionInv, ThreadInv, ChannelTyped
      <4> QED
        BY <1>6, <4>1, AnswerMatches DEF CompositionInv, OtherwiseSame
    <3> QED
      BY <3>1, <3>2
  <2> QED
    BY <1>b, <2>1, <2>2 DEF process
<1>7. ASSUME NEW w \in Workers, Serve(w) PROVE Undisturbed
  <2>1. UNCHANGED process /\ (faults' = faults \/ faults' = faults + 1)
    <3>1. CASE Execute(w)
      BY <1>a, <3>1, ExecuteGoesOn, ExecuteEffect
    <3>2. CASE Return(w)
      BY <3>2 DEF Return
    <3> QED
      BY <1>7, <3>1, <3>2 DEF Serve
  <2> QED
    BY <1>7, <1>b, <2>1 DEF Serve, gatewayVars, process
<1>8. ASSUME Gateway PROVE Undisturbed
  <2>1. UNCHANGED restarts
    BY <1>8, GatewayEffect DEF Vanishes, Greets
  <2>2. size' = size /\ crashes' = crashes /\ faults' = faults
    BY <1>8 DEF Gateway, serviceVars, vars, process
  <2> QED
    BY <1>b, <2>1, <2>2
<1>9. ASSUME UNCHANGED sessionsVars PROVE Undisturbed
  <2>1. size' = size /\ crashes' = crashes /\ faults' = faults /\ restarts' = restarts
    BY <1>9 DEF sessionsVars, gatewayVars, serviceVars, vars, process
  <2> QED
    BY <1>b, <2>1
<1>10. Undisturbed
  BY <1>1, <1>2, <1>3, <1>4, <1>5, <1>6, <1>7, <1>8, <1>9 DEF SessionsNext
<1> QED
  BY <1>1, <1>2, <1>3, <1>10, <1>a DEF NothingLost, Undisturbed

\* Connection d is a session of u that no executed logout is about to end, and
\* thread l will still log u out.
Staying(d, u) ==
  LoggedIn(d, u) /\ ~ (handler[LoopOf[d]].conn = d /\ LoggedOut(LoopOf[d]))
WillLogOut(l, u) ==
  handler[l].step \in {"logout", "close"} /\ handler[l].arg = u /\ ~ LoggedOut(l)

OnlineSound(u) == Present(u) \/ Arriving(u) \/ Departing(u)

LEMMA PresentDeparting ==
  ASSUME NEW u
  PROVE  /\ Present(u) <=> \E d \in Conns : Staying(d, u)
         /\ Departing(u) <=> \E l \in Loops : WillLogOut(l, u)
BY DEF Present, Departing, Staying, WillLogOut

LEMMA NotLoggedOut ==
  ASSUME CallerInv, NEW l \in Loops, handler[l].step \notin DOMAIN Method
  PROVE  ~ LoggedOut(l)
BY NotBlockedUnserved DEF LoggedOut, Unserved

\* No logout is executed: then who stays or leaves is up to the gateway.
LEMMA LogoutsStay ==
  ASSUME NEW w \in Workers,
         \A v \in Workers \ {w} : worker'[v] = worker[v] /\ caller'[v] = caller[v],
         ~ (worker'[w].op = "logout" /\ worker'[w].step = "accept")
  PROVE  \A l \in Loops : LoggedOut(l)' => LoggedOut(l)
BY DEF LoggedOut

LEMMA ArrivalsStay ==
  ASSUME NEW u, NEW w \in Workers, worker[w].step # "accept" \/ caller[w] = None,
         \A v \in Workers \ {w} : worker'[v] = worker[v] /\ caller'[v] = caller[v],
         Arriving(u)
  PROVE  Arriving(u)'
BY DEF Arriving

\* The steps of the user service.
LEMMA OnlineStays ==
  ASSUME NEW u, UNCHANGED <<conn, sess, handler>>,
         \A l \in Loops : LoggedOut(l)' => LoggedOut(l),
         Arriving(u) => Arriving(u)', OnlineSound(u), LoopOf \in [Conns -> Loops]
  PROVE  OnlineSound(u)'
<1>1. ASSUME NEW d \in Conns, Staying(d, u) PROVE Present(u)'
  <2>1. LoopOf[d] \in Loops
    OBVIOUS
  <2> QED
    BY <1>1, <2>1 DEF Staying, Present, LoggedIn
<1>2. ASSUME NEW l \in Loops, WillLogOut(l, u) PROVE Departing(u)'
  BY <1>2 DEF WillLogOut, Departing
<1> QED
  BY <1>1, <1>2, PresentDeparting DEF OnlineSound

\* The steps of the thread l of the gateway.
LEMMA ThreadKeepsOthers ==
  ASSUME NEW u, NEW l \in Loops, ~ LoggedOut(l)', \A k \in Loops \ {l} : handler'[k] = handler[k],
         \A k \in Loops : LoggedOut(k)' => LoggedOut(k), LoopOf \in [Conns -> Loops]
  PROVE  /\ \A d \in Conns : Staying(d, u) /\ LoggedIn(d, u)' => Present(u)'
         /\ \A d \in Conns : LoopOf[d] = l /\ LoggedIn(d, u)' => Present(u)'
         /\ \A k \in Loops \ {l} : WillLogOut(k, u) => Departing(u)'
<1>1. ASSUME NEW d \in Conns, Staying(d, u) \/ LoopOf[d] = l, LoggedIn(d, u)' PROVE Present(u)'
  <2>1. LoopOf[d] \in Loops
    OBVIOUS
  <2>2. CASE LoopOf[d] = l
    BY <1>1, <2>2 DEF Present
  <2>3. CASE LoopOf[d] # l
    <3>1. handler'[LoopOf[d]] = handler[LoopOf[d]]
      BY <2>1, <2>3
    <3>2. ~ (handler[LoopOf[d]].conn = d /\ LoggedOut(LoopOf[d]))
      BY <1>1, <2>3 DEF Staying
    <3> QED
      BY <1>1, <2>1, <3>1, <3>2 DEF Present
  <2> QED
    BY <2>2, <2>3
<1>2. ASSUME NEW k \in Loops \ {l}, WillLogOut(k, u) PROVE Departing(u)'
  BY <1>2 DEF WillLogOut, Departing
<1> QED
  BY <1>1, <1>2

LEMMA ClientKeepsOnline ==
  ASSUME CompositionInv, NEW c \in Conns, Client(c), NEW u \in Users, OnlineSound(u)
  PROVE  OnlineSound(u)'
<1> USE SessionsAssumption
<1>a. CallerInv /\ G!TypeOK /\ HandlerInv
  BY DEF CompositionInv, ThreadInv
<1>b. PICK l \in Loops : l = LoopOf[c]
  OBVIOUS
<1>0. /\ handler[l] = G!Idle /\ (Comes(c) \/ Closes(c) \/ Commands(c))
      /\ UNCHANGED <<worker, caller>>
  BY <1>b, ClientEffect DEF Client, serviceVars, vars, channelVars
<1>1. ~ LoggedOut(l) /\ ~ LoggedOut(l)'
  <2>1. ~ LoggedOut(l)
    BY <1>0, <1>a, NotLoggedOut DEF G!Idle, Method
  <2> QED
    BY <1>0, <2>1 DEF LoggedOut
<1>2. \A k \in Loops : LoggedOut(k)' => LoggedOut(k)
  BY <1>0 DEF LoggedOut
<1>3. Arriving(u) => Arriving(u)'
  BY <1>0 DEF Arriving
<1>4. \A k \in Loops \ {l} : handler'[k] = handler[k]
  BY <1>0, <1>a, <1>b DEF Comes, Closes, Commands, Handles, G!TypeOK
<1>5. /\ \A d \in Conns : Staying(d, u) /\ LoggedIn(d, u)' => Present(u)'
      /\ \A d \in Conns : LoopOf[d] = l /\ LoggedIn(d, u)' => Present(u)'
      /\ \A k \in Loops \ {l} : WillLogOut(k, u) => Departing(u)'
  BY <1>1, <1>2, <1>4, ThreadKeepsOthers
<1>6. ASSUME Departing(u) PROVE Departing(u)'
  <2>1. PICK k \in Loops : WillLogOut(k, u)
    BY <1>6, PresentDeparting
  <2>2. k # l
    BY <1>0, <2>1 DEF WillLogOut, G!Idle
  <2> QED
    BY <1>5, <2>1, <2>2
<1>7. ASSUME NEW d \in Conns, Staying(d, u) PROVE Present(u)' \/ Departing(u)'
  <2>1. conn[d] = "up" /\ sess[d] = u
    BY <1>7 DEF Staying, LoggedIn
  <2>2. CASE LoggedIn(d, u)'
    BY <1>5, <1>7, <2>2
  <2>3. CASE ~ LoggedIn(d, u)'
    <3>1. d = c /\ Closes(c)
      BY <1>0, <1>a, <2>1, <2>3 DEF Comes, Closes, Commands, LoggedIn, G!TypeOK
    <3>2. u # None
      BY UserServiceAssumption
    <3>3. Handles(l, Handling(c, "close", u))
      BY <1>b, <2>1, <3>1, <3>2 DEF Closes
    <3>4. handler'[l].step = "close" /\ handler'[l].arg = u
      BY <1>a, <3>3 DEF Handles, Handling, G!TypeOK
    <3> QED
      BY <1>1, <3>4 DEF Departing
  <2> QED
    BY <2>2, <2>3
<1> QED
  BY <1>3, <1>6, <1>7, PresentDeparting DEF OnlineSound

LEMMA GatewayKeepsOnline ==
  ASSUME CompositionInv, Gateway, NEW u \in Users, OnlineSound(u)
  PROVE  OnlineSound(u)'
<1> USE SessionsAssumption
<1>a. CallerInv /\ G!TypeOK /\ HandlerInv
  BY DEF CompositionInv, ThreadInv
<1>0. UNCHANGED <<worker, caller>>
  BY DEF Gateway, serviceVars, vars, channelVars
<1>2. \A k \in Loops : LoggedOut(k)' => LoggedOut(k)
  BY <1>0 DEF LoggedOut
<1>3. Arriving(u) => Arriving(u)'
  BY <1>0 DEF Arriving
<1>4. ASSUME NEW l \in Loops, ~ LoggedOut(l), handler[l].step \notin {"logout", "close"},
             \A k \in Loops \ {l} : handler'[k] = handler[k],
             \A d \in Conns : LoggedIn(d, u) => LoggedIn(d, u)'
      PROVE  OnlineSound(u)'
  <2>1. /\ \A d \in Conns : Staying(d, u) /\ LoggedIn(d, u)' => Present(u)'
        /\ \A k \in Loops \ {l} : WillLogOut(k, u) => Departing(u)'
    BY <1>2, <1>4, ThreadKeepsOthers
  <2>2. ASSUME NEW d \in Conns, Staying(d, u) PROVE Present(u)'
    BY <1>4, <2>1, <2>2 DEF Staying
  <2>3. ASSUME NEW k \in Loops, WillLogOut(k, u) PROVE Departing(u)'
    BY <1>4, <2>1, <2>3 DEF WillLogOut
  <2> QED
    BY <1>3, <2>2, <2>3, PresentDeparting DEF OnlineSound
<1>5. ASSUME NEW l \in Loops, Greets(l) PROVE OnlineSound(u)'
  <2>1. handler[l].step \notin DOMAIN Method
    BY <1>5 DEF Greets, Method
  <2>2. ~ LoggedOut(l) /\ handler[l].step \notin {"logout", "close"}
    BY <1>a, <2>1, NotLoggedOut DEF Method
  <2>3. \A k \in Loops \ {l} : handler'[k] = handler[k]
    BY <1>5, <1>a DEF Greets, Handles, G!TypeOK
  <2>4. \A d \in Conns : LoggedIn(d, u) => LoggedIn(d, u)'
    BY <1>5 DEF Greets, LoggedIn
  <2> QED
    BY <1>4, <2>2, <2>3, <2>4
<1>6. ASSUME NEW c \in Conns, Vanishes(c) PROVE OnlineSound(u)'
  <2>1. \A d \in Conns : LoggedIn(d, u) => LoggedIn(d, u)'
    BY <1>6, <1>a DEF Vanishes, LoggedIn, G!TypeOK
  <2>2. UNCHANGED handler
    BY <1>6 DEF Vanishes
  <2>3. ASSUME NEW d \in Conns, Staying(d, u) PROVE Present(u)'
    BY <1>2, <2>1, <2>2, <2>3 DEF Staying, Present
  <2>4. ASSUME NEW k \in Loops, WillLogOut(k, u) PROVE Departing(u)'
    BY <1>2, <2>2, <2>4 DEF WillLogOut, Departing
  <2> QED
    BY <1>3, <2>3, <2>4, PresentDeparting DEF OnlineSound
<1> QED
  BY <1>5, <1>6, GatewayEffect

\* The user who is entered arrives, and the one who was there before is replaced.
LEMMA AnsweredKeepsOnline ==
  ASSUME CompositionInv, NEW w \in Workers, caller[w] # None, Answered(w), NEW u \in Users,
         u \notin replaced', OnlineSound(u)
  PROVE  OnlineSound(u)'
<1> USE SessionsAssumption
<1>a. ServiceInv /\ ThreadInv /\ CallerInv /\ G!TypeOK /\ HandlerInv /\ DbInv /\ u # None
  BY UserServiceAssumption DEF CompositionInv, ServiceInv, ThreadInv
<1>b. PICK l \in Loops : caller[w] = l
  BY DEF CompositionInv, ThreadInv, ChannelTyped
<1>c. PICK v : v = worker[w].user
  OBVIOUS
<1>d. PICK d0 \in Conns : d0 = handler[l].conn /\ LoopOf[d0] = l
  BY <1>a, <1>b, AnswerMatches, BlockedServes
<1>0. /\ handler[l].step \in DOMAIN Method
      /\ worker[w].op = Op[handler[l].step] /\ v = handler[l].arg
      /\ UNCHANGED conn /\ replaced' = replaced \cup Overwritten
      /\ \/ worker[w].step = "accept" /\ v \in Users /\ Enters(l, v)
         \/ worker[w].step = "accept" /\ Leaves(l)
         \/ (worker[w].step = "refuse" \/ handler[l].step = "close") /\ Stays(l)
  BY <1>a, <1>b, <1>c, AnswerMatches
<1>1. /\ worker[w].step \in {"accept", "refuse"} /\ worker'[w].op = "none"
      /\ \A x \in Workers \ {w} : worker'[x] = worker[x] /\ caller'[x] = caller[x]
      /\ caller'[w] = None
  <2>1. Reply(w) /\ caller' = [caller EXCEPT ![w] = None]
    BY DEF Answered
  <2>2. caller \in [Workers -> Loops \cup {None}]
    BY DEF CompositionInv, ThreadInv, ChannelTyped
  <2> QED
    BY <1>a, <2>1, <2>2, ReplyEffect DEF ServiceInv
<1>2. \A k \in Loops : LoggedOut(k)' => LoggedOut(k)
  BY <1>1, LogoutsStay
<1>3. ~ LoggedOut(l)'
  <2>1. \A x \in Workers : caller'[x] # l
    BY <1>1, <1>b, <1>a DEF CallerInv, CallersApart
  <2> QED
    BY <2>1 DEF LoggedOut
<1>4. \A k \in Loops \ {l} : handler'[k] = handler[k]
  BY <1>0, <1>a DEF Enters, Leaves, Stays, Handles, G!TypeOK
<1>5. /\ \A d \in Conns : Staying(d, u) /\ LoggedIn(d, u)' => Present(u)'
      /\ \A d \in Conns : LoopOf[d] = l /\ LoggedIn(d, u)' => Present(u)'
      /\ \A k \in Loops \ {l} : WillLogOut(k, u) => Departing(u)'
  BY <1>2, <1>3, <1>4, ThreadKeepsOthers
\* An accepted logout has been executed.
<1>6. handler[l].step \in {"logout", "close"} => /\ worker[w].op = "logout"
                                                 /\ worker[w].step = "accept" /\ LoggedOut(l)
  <2>1. handler[l].step \in {"logout", "close"} => worker[w].op = "logout"
    BY <1>0 DEF Op
  <2>2. worker[w].op = "logout" => worker[w].step = "accept"
    BY <1>1, <1>a DEF DbInv
  <2> QED
    BY <1>b, <2>1, <2>2 DEF LoggedOut
<1>7. handler[l].step \in {"login", "register"} => worker[w].op \in {"login", "register"}
  BY <1>0 DEF Op
<1>8. handler[l].step \in {"register", "login", "logout", "close"}
  BY <1>0, <1>a, BlockedServes
<1>9. ASSUME Arriving(u) PROVE Present(u)' \/ Arriving(u)'
  <2>1. PICK x \in Workers : /\ caller[x] # None /\ worker[x].step = "accept"
                             /\ worker[x].op = "login" /\ worker[x].user = u
    BY <1>9 DEF Arriving
  <2>2. CASE x # w
    BY <1>1, <2>1, <2>2 DEF Arriving
  <2>3. CASE x = w
    <3>1. handler[l].step \in {"login", "register"}
      BY <1>6, <1>8, <2>1, <2>3
    <3>2. Enters(l, u)
      BY <1>0, <1>c, <2>1, <2>3, <3>1 DEF Leaves
    <3>3. conn[d0] = "up"
      BY <1>0, <1>a, <1>d, <3>1, BlockedServes
    <3>4. sess'[d0] = u
      BY <1>a, <1>d, <3>2 DEF Enters, G!TypeOK
    <3>5. LoggedIn(d0, u)'
      BY <1>0, <3>3, <3>4 DEF LoggedIn
    <3> QED
      BY <1>5, <1>d, <3>5
  <2> QED
    BY <2>2, <2>3
<1>10. ASSUME Departing(u) PROVE Departing(u)'
  <2>1. PICK k \in Loops : WillLogOut(k, u)
    BY <1>10, PresentDeparting
  <2>2. k # l
    BY <1>6, <2>1 DEF WillLogOut
  <2> QED
    BY <1>5, <2>1, <2>2
<1>11. ASSUME NEW d \in Conns, Staying(d, u) PROVE Present(u)'
  <2>1. conn'[d] = "up" /\ sess[d] = u
    BY <1>0, <1>11 DEF Staying, LoggedIn
  <2>2. CASE v \in Users /\ Enters(l, v)
    <3>1. sess' = [sess EXCEPT ![d0] = v] /\ sess \in [Conns -> Users \cup {None}]
      BY <1>a, <1>d, <2>2 DEF Enters, G!TypeOK
    <3>2. u \notin Overwritten /\ v # None
      BY <1>0, <2>2, UserServiceAssumption
    <3>3. sess'[d] = u
      BY <2>1, <3>1, <3>2 DEF Overwritten
    <3> QED
      BY <1>5, <1>11, <2>1, <3>3 DEF LoggedIn
  <2>3. CASE Leaves(l)
    <3>1. LoggedOut(l)
      BY <1>6, <2>3 DEF Leaves
    <3>2. d # d0
      BY <1>11, <1>d, <3>1 DEF Staying
    <3>3. sess'[d] = u
      BY <1>a, <1>d, <2>1, <2>3, <3>2 DEF Leaves, G!TypeOK
    <3> QED
      BY <1>5, <1>11, <2>1, <3>3 DEF LoggedIn
  <2>4. CASE Stays(l)
    BY <1>5, <1>11, <2>1, <2>4 DEF LoggedIn, Stays
  <2> QED
    BY <1>0, <2>2, <2>3, <2>4
<1> QED
  BY <1>9, <1>10, <1>11, PresentDeparting DEF OnlineSound

\* The statement that sets a user online is that of an accepted login, and the one that
\* sets a user offline that of a logout: for the user of the session it ends.
LEMMA ExecuteKeepsOnline ==
  ASSUME CompositionInv, ClosingInv, NEW w \in Workers, caller[w] # None, Execute(w),
         UNCHANGED <<gatewayVars, channelVars>>, Ample, faults' = 0,
         NEW u \in Users, state'[u] = "online", state[u] = "online" => OnlineSound(u)
  PROVE  OnlineSound(u)'
<1> USE SessionsAssumption
<1>a. /\ ServiceInv /\ ThreadInv /\ CallerInv /\ TypeOK /\ G!TypeOK /\ HandlerInv
      /\ DbInv /\ IdInv
  BY DEF CompositionInv, ServiceInv, ThreadInv
<1>b. PICK l \in Loops : caller[w] = l
  BY DEF CompositionInv, ThreadInv, ChannelTyped
<1>c. PICK x : x = worker[w].user
  OBVIOUS
<1>0. /\ handler[l].step \in DOMAIN Method /\ worker[w].op = Op[handler[l].step]
      /\ x = handler[l].arg
  BY <1>a, <1>b, <1>c DEF CallerInv, CallerMatches
<1>1. /\ worker'[w].op = worker[w].op /\ worker'[w].user = x /\ worker[w] \in Busy
      /\ worker[w].step # "accept"
      /\ \A k \in Workers \ {w} : worker'[k] = worker[k] /\ caller'[k] = caller[k]
      /\ caller'[w] = l
  BY <1>a, <1>b, <1>c, ExecuteGoesOn, ExecuteEffect DEF GoesOn, channelVars
<1>2. UNCHANGED <<conn, sess, handler>>
  BY DEF gatewayVars
<1>3. Arriving(u) => Arriving(u)'
  BY <1>1, ArrivalsStay
<1>4. CASE SetOnline(w)
  <2>1. worker[w].step = "update" /\ state' = [state EXCEPT ![worker[w].id] = "online"]
        /\ Goto(w, "accept")
    BY <1>4 DEF SetOnline, Ready, AcceptLogin
  <2>2. worker[w].op = "login" /\ worker[w].id = x
    BY <1>a, <1>c, <2>1 DEF IdInv, IdSound, DbInv, PoolSteps
  <2>3. worker'[w].step = "accept"
    BY <1>1, <1>a, <2>1 DEF Goto, TypeOK, Busy
  <2>4. CASE u = x
    <3>1. Arriving(u)'
      BY <1>1, <2>2, <2>3, <2>4 DEF Arriving
    <3> QED
      BY <3>1 DEF OnlineSound
  <2>5. CASE u # x
    <3>1. state[u] = "online"
      BY <1>a, <2>1, <2>2, <2>5 DEF TypeOK
    <3>2. \A k \in Loops : LoggedOut(k)' => LoggedOut(k)
      BY <1>1, <2>2, LogoutsStay
    <3> QED
      BY <1>2, <1>3, <3>1, <3>2, OnlineStays
  <2> QED
    BY <2>4, <2>5
<1>5. CASE SetOffline(w)
  <2>1. worker[w].step = "offline" /\ state' = [state EXCEPT ![worker[w].id] = "offline"]
    BY <1>5 DEF SetOffline, Ready
  <2>2. worker[w].op = "logout" /\ worker[w].id = x
    BY <1>a, <1>c, <2>1, <1>1 DEF IdInv, IdSound, DbInv, LoginSteps, PoolSteps
  <2>3. u # x /\ state[u] = "online"
    BY <1>a, <2>1, <2>2 DEF TypeOK
  <2>4. \A k \in Loops \ {l} : LoggedOut(k)' => LoggedOut(k)
    BY <1>1 DEF LoggedOut
  <2>5. handler[l].step \in {"logout", "close"}
    BY <1>0, <1>a, <2>2, BlockedServes DEF Op
  <2>6. ASSUME NEW d \in Conns, Staying(d, u) PROVE Present(u)'
    <3>1. conn[d] = "up" /\ sess[d] = u
      BY <2>6 DEF Staying, LoggedIn
    <3>2. handler[l].conn # d
      BY <1>0, <1>a, <2>3, <2>5, <3>1 DEF HandlerInv, ClosingInv
    <3>3. LoopOf[d] \in Loops
      OBVIOUS
    <3>4. ~ (handler'[LoopOf[d]].conn = d /\ LoggedOut(LoopOf[d])')
      BY <1>2, <2>4, <2>6, <3>2, <3>3 DEF Staying
    <3> QED
      BY <1>2, <3>1, <3>4 DEF Present, LoggedIn
  <2>7. ASSUME NEW k \in Loops, WillLogOut(k, u) PROVE Departing(u)'
    <3>1. k # l
      BY <1>0, <2>3, <2>7 DEF WillLogOut
    <3> QED
      BY <1>2, <2>4, <2>7, <3>1 DEF WillLogOut, Departing
  <2> QED
    BY <1>3, <2>3, <2>6, <2>7, PresentDeparting DEF OnlineSound
<1>6. CASE UNCHANGED state /\ ~ SetOffline(w)
  <2>1. ~ (worker'[w].op = "logout" /\ worker'[w].step = "accept")
    <3>1. ~ TimedOut(w)
      <4>1. TimedOut(w) => Waiting(w) /\ ~ Free > 0
        BY DEF TimedOut
      <4> QED
        BY <1>a, <4>1, PoolNeverEmpty DEF NeverWaitsInVain, Ample
    <3>2. ~ QueryFails(w)
      BY DEF QueryFails, Fault, Ample
    <3> QED
      BY <1>1, <1>6, <1>a, <3>1, <3>2, LogoutGoesOn
  <2>2. \A k \in Loops : LoggedOut(k)' => LoggedOut(k)
    BY <1>1, <2>1, LogoutsStay
  <2> QED
    BY <1>2, <1>3, <1>6, <2>2, OnlineStays
<1> QED
  BY <1>4, <1>5, <1>6, <1>a, ExecuteEffect

LEMMA OnlineInvKept ==
  ASSUME CompositionInv, ClosingInv, OnlineInv, [SessionsNext]_sessionsVars
  PROVE  OnlineInv'
<1> SUFFICES ASSUME NEW u \in Users, u \notin replaced', Undisturbed', state'[u] = "online"
             PROVE  OnlineSound(u)'
  BY DEF OnlineInv, OnlineSound
<1> USE SessionsAssumption
<1>a. /\ TypeOK /\ G!TypeOK /\ HandlerInv /\ CallerInv
      /\ LoopOf \in [Conns -> Loops] /\ None \notin Loops
  BY DEF CompositionInv, ServiceInv, ThreadInv
<1>b. /\ Undisturbed /\ up /\ lost = {}
      /\ \A w \in Workers : InCall(w) => caller[w] # None
      /\ ~ GatewayRestarts /\ ~ ServiceEnds /\ ~ ServiceStarts
  BY StaysUndisturbed
<1>c. u \notin replaced /\ state[u] = "online" => OnlineSound(u)
  BY <1>b DEF OnlineInv, OnlineSound
<1>d. ASSUME UNCHANGED <<conn, sess, handler, worker, caller>>, OnlineSound(u)
      PROVE  OnlineSound(u)'
  BY <1>d DEF OnlineSound, Present, Arriving, Departing, LoggedIn, LoggedOut
<1>1. ASSUME NEW c \in Conns, Client(c) PROVE OnlineSound(u)'
  <2>1. UNCHANGED <<state, replaced>>
    BY <1>1 DEF Client, serviceVars, vars, logins
  <2> QED
    BY <1>1, <1>c, <2>1, ClientKeepsOnline
<1>2. ASSUME NEW l \in Loops, Answer(l) PROVE OnlineSound(u)'
  <2>1. ASSUME NEW w \in Workers, Request(w, l) PROVE OnlineSound(u)'
    <3>1. /\ worker[w] = Idle /\ worker'[w].step # "accept"
          /\ \A v \in Workers \ {w} : worker'[v] = worker[v]
          /\ UNCHANGED <<state, replaced>> /\ UNCHANGED gatewayVars
          /\ caller' = [caller EXCEPT ![w] = l]
      BY <1>a, <2>1, RequestEffect
    <3>2. \A v \in Workers \ {w} : worker'[v] = worker[v] /\ caller'[v] = caller[v]
      BY <3>1 DEF CompositionInv, ThreadInv, ChannelTyped
    <3>3. worker[w].step # "accept"
      BY <3>1 DEF Idle
    <3>4. /\ \A k \in Loops : LoggedOut(k)' => LoggedOut(k)
          /\ Arriving(u) => Arriving(u)'
      BY <3>1, <3>2, <3>3, LogoutsStay, ArrivalsStay
    <3>5. UNCHANGED <<conn, sess, handler>>
      BY <3>1 DEF gatewayVars
    <3> QED
      BY <1>a, <1>c, <3>1, <3>4, <3>5, OnlineStays
  <2>2. CASE DeadSocket(l) \/ NoConnection(l)
    BY <1>c, <1>d, <2>2 DEF DeadSocket, NoConnection, gatewayVars, serviceVars, vars, logins
  <2>3. ~ Failed(l)
    BY <1>b DEF Failed
  <2> QED
    BY <1>2, <2>1, <2>2, <2>3 DEF Answer
<1>3. ASSUME NEW w \in Workers, Answered(w) PROVE OnlineSound(u)'
  <2>1. InCall(w) /\ UNCHANGED state
    BY <1>3, <1>a, ReplyEffect DEF Answered
  <2>2. replaced \subseteq replaced'
    BY <1>3 DEF Answered
  <2> QED
    BY <1>3, <1>b, <1>c, <2>1, <2>2, AnsweredKeepsOnline
<1>4. ASSUME NEW w \in Workers, Serve(w) PROVE OnlineSound(u)'
  <2>1. UNCHANGED <<gatewayVars, channelVars, replaced>>
    BY <1>4 DEF Serve
  <2>2. CASE Execute(w)
    <3>1. InCall(w)
      BY <1>a, <2>2, ExecuteGoesOn DEF GoesOn
    <3>2. Ample /\ faults' = 0
      BY <1>b DEF Undisturbed, Ample
    <3> QED
      BY <1>b, <1>c, <2>1, <2>2, <3>1, <3>2, ExecuteKeepsOnline
  <2>3. CASE Return(w)
    <3>1. /\ worker[w].step = "return" /\ worker'[w] = Idle /\ UNCHANGED state
          /\ \A v \in Workers \ {w} : worker'[v] = worker[v]
      BY <1>a, <2>3, ReturnEffect
    <3>2. /\ \A v \in Workers \ {w} : worker'[v] = worker[v] /\ caller'[v] = caller[v]
          /\ worker[w].step # "accept" /\ worker'[w].step # "accept"
      BY <2>1, <3>1 DEF channelVars, Idle
    <3>3. /\ \A k \in Loops : LoggedOut(k)' => LoggedOut(k)
          /\ Arriving(u) => Arriving(u)'
      BY <3>2, LogoutsStay, ArrivalsStay
    <3>4. UNCHANGED <<conn, sess, handler>>
      BY <2>1 DEF gatewayVars
    <3> QED
      BY <1>a, <1>c, <2>1, <3>1, <3>3, <3>4, OnlineStays
  <2> QED
    BY <1>4, <2>2, <2>3 DEF Serve
<1>5. CASE Gateway
  <2>1. UNCHANGED <<state, replaced>>
    BY <1>5 DEF Gateway, serviceVars, vars, logins
  <2> QED
    BY <1>5, <1>c, <2>1, GatewayKeepsOnline
<1>6. CASE UNCHANGED sessionsVars
  BY <1>6, <1>c, <1>d DEF sessionsVars, gatewayVars, serviceVars, channelVars, vars, logins
<1> QED
  BY <1>1, <1>2, <1>3, <1>4, <1>5, <1>6, <1>b DEF SessionsNext

LEMMA OnlineStarts == SessionsInit => OnlineInv /\ ClosingInv
BY DEF SessionsInit, Init, G!Init, G!Idle, OnlineInv, ClosingInv

\* Nobody is refused as "already online" (user_service.cc:54) who has no session, as
\* long as both processes run, no statement fails and the pool is large: each user
\* who is online is in a session, about to enter one, or about to be logged out
\* (gatewayServer.cc:192).
THEOREM NobodyLockedOut == SessionsSpec => []NoLockout
<1>1. CompositionInv /\ ClosingInv /\ OnlineInv /\ [SessionsNext]_sessionsVars
         => ClosingInv' /\ OnlineInv'
  <2>1. CompositionInv /\ ClosingInv /\ [SessionsNext]_sessionsVars => ClosingInv'
    BY EveryGatewayStep, ClosingInvKept DEF CompositionInv, ThreadInv
  <2> QED
    BY <2>1, OnlineInvKept
<1>2. CompositionInv /\ OnlineInv => NoLockout
  <2> SUFFICES ASSUME CompositionInv, OnlineInv, NEW u \in Users,
                      Undisturbed, u \notin replaced, state[u] = "online"
               PROVE  (\E c \in Conns : LoggedIn(c, u)) \/ Entering(u) \/ Leaving(u)
    BY DEF NoLockout, Undisturbed
  <2> QED
    BY DEF OnlineInv, Present, Arriving, Departing, Entering, Leaving
<1> QED
  BY <1>1, <1>2, OnlineStarts, CompositionInvariant, PTL DEF SessionsSpec
=============================================================================
