---------------------------- MODULE UserService ----------------------------
(***************************************************************************)
(* Accounts and the online state of users (im-user/src/user_service.cc):   *)
(* Login, Logout and Register as executed by the RPC worker threads, one   *)
(* database call at a time, over the pool of MySQL connections they share  *)
(* (thirdparty/mysqldb/db_pool.cpp) and, for Register, over the single     *)
(* connection db_ that has no lock.                                        *)
(*                                                                         *)
(* The column user.state is the only record of who is logged in, and it is *)
(* read and written by different statements.  A Login keeps the connection *)
(* of each of its statements until it returns, and a statement that gets   *)
(* no connection in time, or fails, is skipped.                            *)
(***************************************************************************)
EXTENDS Naturals, FiniteSets

CONSTANTS
  Users,       \* names; the id of a user is its name
  Workers,     \* RPC worker threads (server.setThreadNum(4))
  Opened,      \* how many connections ensureInitialized may open (8, or fewer)
  None,        \* no user; id 0
  MaxFailures  \* bound: statements that fail and ends of the process, together

ASSUME UserServiceAssumption ==
  /\ IsFiniteSet(Workers)
  /\ Opened \subseteq Nat
  /\ None \notin Users
  /\ MaxFailures \in Nat

VARIABLES
  state,       \* column state of table user
  known,       \* names with a row in table user
  cached,      \* the id the Redis cache has for a name
  size,        \* connections the pool was opened with
  worker,      \* the call each worker thread executes
  lastId,      \* mysql_insert_id of db_
  up,          \* the process runs
  faults,
  crashes,
  offlineSeen, \* history: logins during which their user was offline once
  shared,      \* history: registrations whose insert id another call has passed
  mistaken     \* history: names registered by such a call

logins == <<state, cached, offlineSeen>>
registrations == <<known, lastId, shared, mistaken>>
process == <<size, up, crashes>>
vars == <<logins, registrations, process, worker, faults>>

Ops == {"login", "register", "logout", "friends"}

\* Where the execution of a call is: the next statement on a pooled connection
\* or on db_, the answer to be sent, or the return that follows it.
PoolSteps == {"cached", "auth", "check", "update", "offline"}
DbSteps == {"exists", "insert", "newid", "statement"}
Steps == PoolSteps \cup DbSteps \cup {"accept", "refuse"}

\* The local variables that hold a connection: dbc or dbc_main, dbc_chk, dbc_up.
Slots == {"auth", "check", "update"}
Slot(step) == CASE step = "cached" -> "auth"
                [] step = "offline" -> "update"
                [] OTHER -> step

\* user: the name in the request; id: the id the call works with.
Busy == [op : Ops, step : Steps, user : Users, cred : BOOLEAN,
         held : SUBSET Slots, id : Users \cup {None}]

\* A call that has been answered: only its connections matter.
Returning == [op : {"none"}, step : {"return"}, user : {None}, cred : {FALSE},
              held : SUBSET Slots, id : {None}]

Idle == [op |-> "none", step |-> "idle", user |-> None, cred |-> FALSE,
         held |-> {}, id |-> None]

TypeOK ==
  /\ state \in [Users -> {"offline", "online"}]
  /\ known \subseteq Users
  /\ cached \in [Users -> Users \cup {None}]
  /\ size \in Opened
  /\ worker \in [Workers -> Busy \cup Returning \cup {Idle}]
  /\ lastId \in Users \cup {None}
  /\ up \in BOOLEAN
  /\ faults \in Nat
  /\ crashes \in Nat
  /\ offlineSeen \subseteq Workers
  /\ shared \subseteq Workers
  /\ mistaken \subseteq Users

Init ==
  /\ state = [u \in Users |-> "offline"]
  /\ known \in SUBSET Users
  /\ cached = [u \in Users |-> None]
  /\ size \in Opened
  /\ worker = [w \in Workers |-> Idle]
  /\ lastId = None
  /\ up = TRUE
  /\ faults = 0
  /\ crashes = 0
  /\ offlineSeen = {}
  /\ shared = {}
  /\ mistaken = {}

-----------------------------------------------------------------------------
(* The connection pool.                                                    *)

Used == {p \in Workers \X Slots : p[2] \in worker[p[1]].held}

Free == size - Cardinality(Used)

Waiting(w) ==
  worker[w].step \in PoolSteps /\ Slot(worker[w].step) \notin worker[w].held

Ready(w, step) ==
  worker[w].step = step /\ Slot(step) \in worker[w].held

\* The database fails one more statement.
Fault == faults + crashes < MaxFailures /\ faults' = faults + 1

Goto(w, step) == worker' = [worker EXCEPT ![w].step = step]

AcceptLogin(w) == Goto(w, "accept")

\* Logout releases its connection before it answers.
AcceptLogout(w) ==
  worker' = [worker EXCEPT ![w].step = "accept", ![w].held = {}]

\* acquire_for finds a free connection.
Acquire(w) ==
  /\ Waiting(w)
  /\ Free > 0
  /\ worker' = [worker EXCEPT ![w].held = @ \cup {Slot(worker[w].step)}]
  /\ UNCHANGED <<logins, registrations, process, faults>>

\* From here on login w works with this id.
WorksWith(w, id) ==
  offlineSeen' = IF state[id] = "offline" THEN offlineSeen \cup {w}
                 ELSE offlineSeen \ {w}

\* How a call goes on when a pooled statement gave no result: a cached login
\* starts again without the cache, the password query refuses, and the check
\* of the state and the update of the state are skipped.
Without(w) ==
  IF worker[w].step = "cached"
  THEN /\ worker' = [worker EXCEPT ![w].step = "auth", ![w].held = {},
                                   ![w].id = worker[w].user]
       /\ WorksWith(w, worker[w].user)
  ELSE /\ CASE worker[w].step = "auth" -> Goto(w, "refuse")
             [] worker[w].step = "check" -> Goto(w, "update")
             [] worker[w].step = "update" -> AcceptLogin(w)
             [] worker[w].step = "offline" -> AcceptLogout(w)
       /\ UNCHANGED offlineSeen

\* acquire_for gives up: only when no connection is free.
TimedOut(w) ==
  /\ Waiting(w)
  /\ Free = 0
  /\ Without(w)
  /\ UNCHANGED <<state, cached, registrations, process, faults>>

\* The statement fails on a connection of the pool.
QueryFails(w) ==
  /\ worker[w].step \in PoolSteps /\ ~Waiting(w)
  /\ Fault
  /\ Without(w)
  /\ UNCHANGED <<state, cached, registrations, process>>

-----------------------------------------------------------------------------
(* Login and Logout.                                                       *)

Call(w, op, step, u, cred, id) ==
  /\ up
  /\ worker[w] = Idle
  /\ worker' = [worker EXCEPT ![w] =
                  [op |-> op, step |-> step, user |-> u, cred |-> cred,
                   held |-> {}, id |-> id]]
  /\ UNCHANGED <<state, cached, registrations, process, faults>>

\* The id of a name is taken from the cache when it is there.  cred: the
\* password is the right one.
CallLogin(w, u, cred) ==
  LET id == IF cached[u] = None THEN u ELSE cached[u] IN
  /\ Call(w, "login", IF cached[u] = None THEN "auth" ELSE "cached", u, cred, id)
  /\ WorksWith(w, id)

CallLogout(w, u) ==
  /\ Call(w, "logout", "offline", u, TRUE, u)
  /\ UNCHANGED offlineSeen

\* The password query, by name; a cached id is taken on trust, and one that was
\* not in the cache is put there.
Authenticate(w) ==
  LET u == worker[w].user IN
  /\ Ready(w, "cached") \/ Ready(w, "auth")
  /\ IF worker[w].cred /\ u \in known
     THEN /\ Goto(w, "check")
          /\ cached' = IF worker[w].step = "cached" THEN cached
                       ELSE [cached EXCEPT ![u] = u]
          /\ UNCHANGED offlineSeen
     ELSE Without(w) /\ UNCHANGED cached
  /\ UNCHANGED <<state, registrations, process, faults>>

\* SELECT state, with a result nobody looks at.
CheckStateUnread(w) ==
  /\ Ready(w, "check")
  /\ Goto(w, "update")
  /\ UNCHANGED <<logins, registrations, process, faults>>

\* SELECT state: an online user is refused.
CheckState(w) ==
  /\ Ready(w, "check")
  /\ Goto(w, IF state[worker[w].id] = "online" THEN "refuse" ELSE "update")
  /\ UNCHANGED <<logins, registrations, process, faults>>

\* UPDATE state='online', and the answer is prepared.
SetOnline(w) ==
  /\ Ready(w, "update")
  /\ state' = [state EXCEPT ![worker[w].id] = "online"]
  /\ AcceptLogin(w)
  /\ UNCHANGED <<cached, offlineSeen, registrations, process, faults>>

\* UPDATE state='offline': whoever calls, whichever session the user has.
SetOffline(w) ==
  /\ Ready(w, "offline")
  /\ state' = [state EXCEPT ![worker[w].id] = "offline"]
  /\ AcceptLogout(w)
  /\ offlineSeen' =
       offlineSeen \cup
         {v \in Workers : worker[v].op = "login" /\ worker[v].id = worker[w].id}
  /\ UNCHANGED <<cached, registrations, process, faults>>

\* An entry expires after an hour, or Redis cannot be reached.
CacheForgets(u) ==
  /\ cached[u] # None
  /\ cached' = [cached EXCEPT ![u] = None]
  /\ UNCHANGED <<state, offlineSeen, registrations, process, worker, faults>>

-----------------------------------------------------------------------------
(* Register, on the connection db_ that every thread uses without a lock.  *)

Racing(w) == \E v \in Workers \ {w} : worker[v].step \in DbSteps

\* The registrations that have inserted and not yet read their insert id.
Passed(w) == shared \cup {v \in Workers \ {w} : worker[v].step = "newid"}

\* The cache may know the name already.
CallRegister(w, u) ==
  /\ \E step \in IF u \in known THEN {"refuse", "exists"} ELSE {"exists"} :
        Call(w, "register", step, u, TRUE, None)
  /\ UNCHANGED offlineSeen

\* AddFriend, GetFriends and RemoveFriend, as far as db_ is concerned.
CallFriends(w, u) ==
  /\ Call(w, "friends", "statement", u, TRUE, None)
  /\ UNCHANGED offlineSeen

\* A statement that gives no insert id resets it.
FriendsStatement(w) ==
  /\ worker[w].step = "statement"
  /\ Goto(w, "accept")
  /\ lastId' = None
  /\ shared' = Passed(w)
  /\ UNCHANGED <<logins, known, mistaken, process, faults>>

\* userExists: also a failed query says no.  A SELECT resets the insert id, and
\* the outcome is anything when another thread is using the connection.
UserExists(w) ==
  /\ worker[w].step = "exists"
  /\ \/ /\ worker[w].user \in known \/ Racing(w)
        /\ Goto(w, "refuse")
        /\ UNCHANGED faults
     \/ /\ worker[w].user \notin known \/ Racing(w)
        /\ Goto(w, "insert")
        /\ UNCHANGED faults
     \/ /\ Fault
        /\ Goto(w, "insert")
  /\ lastId' = None
  /\ shared' = Passed(w)
  /\ UNCHANGED <<logins, known, mistaken, process>>

\* INSERT: refused when the name has a row (UNIQUE), or when it fails.
InsertUser(w) ==
  /\ worker[w].step = "insert"
  /\ \/ /\ worker[w].user \notin known
        /\ known' = known \cup {worker[w].user}
        /\ lastId' = worker[w].user
        /\ shared' = Passed(w) \ {w}
        /\ Goto(w, "newid")
        /\ UNCHANGED faults
     \/ /\ worker[w].user \in known \/ Racing(w)
        /\ Goto(w, "refuse")
        /\ UNCHANGED <<known, lastId, shared, faults>>
     \/ /\ Fault
        /\ Goto(w, "refuse")
        /\ UNCHANGED <<known, lastId, shared>>
  /\ UNCHANGED <<logins, mistaken, process>>

\* mysql_insert_id after one more query on the connection.
NewIdLate(w) ==
  /\ worker[w].step = "newid"
  /\ worker' = [worker EXCEPT ![w].step = "accept", ![w].id = None]
  /\ UNCHANGED <<logins, registrations, process, faults>>

\* mysql_insert_id: of the last statement on db_, whoever issued it.  The id
\* goes into the cache as well, where 0 counts as no entry.
NewId(w) ==
  /\ worker[w].step = "newid"
  /\ worker' = [worker EXCEPT ![w].step = "accept", ![w].id = lastId]
  /\ cached' = [cached EXCEPT ![worker[w].user] = lastId]
  /\ mistaken' = IF w \in shared THEN mistaken \cup {worker[w].user} ELSE mistaken
  /\ shared' = shared \ {w}
  /\ UNCHANGED <<state, offlineSeen, known, lastId, process, faults>>

-----------------------------------------------------------------------------
(* Answers, and the process.                                               *)

\* done->Run() sends the answer from within the call.
Reply(w) ==
  /\ worker[w].step \in {"accept", "refuse"}
  /\ worker' = [worker EXCEPT ![w] =
                  [Idle EXCEPT !.step = "return", !.held = worker[w].held]]
  /\ offlineSeen' = offlineSeen \ {w}
  /\ UNCHANGED <<state, cached, registrations, process, faults>>

\* The call returns without its connections.
ReturnLeaky(w) ==
  /\ worker[w].step = "return"
  /\ worker' = [worker EXCEPT ![w] = [Idle EXCEPT !.held = worker[w].held]]
  /\ UNCHANGED <<logins, registrations, process, faults>>

\* The call returns, and with it go the connections it holds.
Return(w) ==
  /\ worker[w].step = "return"
  /\ worker' = [worker EXCEPT ![w] = Idle]
  /\ UNCHANGED <<logins, registrations, process, faults>>

Crash ==
  /\ up
  /\ faults + crashes < MaxFailures
  /\ crashes' = crashes + 1
  /\ up' = FALSE
  /\ worker' = [w \in Workers |-> Idle]
  /\ lastId' = None
  /\ shared' = {}
  /\ offlineSeen' = {}
  /\ UNCHANGED <<state, cached, known, mistaken, size, faults>>

\* main: resetAllUsersToOffline, whose failure is logged, then the service is
\* offered.  The first acquire opens the pool, with the connections it can get.
Start ==
  /\ ~up
  /\ up' = TRUE
  /\ size' \in Opened
  /\ \/ /\ state' = [u \in Users |-> "offline"]
        /\ UNCHANGED faults
     \/ /\ faults' = faults + 1
        /\ UNCHANGED state
  /\ UNCHANGED <<cached, offlineSeen, registrations, crashes, worker>>

-----------------------------------------------------------------------------
Receive(w) ==
  \E u \in Users :
     \/ \E cred \in BOOLEAN : CallLogin(w, u, cred)
     \/ CallLogout(w, u)
     \/ CallRegister(w, u)
     \/ CallFriends(w, u)

Execute(w) ==
  \/ Acquire(w) \/ TimedOut(w) \/ QueryFails(w)
  \/ Authenticate(w) \/ CheckState(w) \/ SetOnline(w) \/ SetOffline(w)
  \/ UserExists(w) \/ InsertUser(w) \/ NewId(w) \/ FriendsStatement(w)

Next ==
  \/ \E w \in Workers : Receive(w) \/ Execute(w) \/ Reply(w) \/ Return(w)
  \/ \E u \in Users : CacheForgets(u)
  \/ Crash
  \/ Start

Spec == Init /\ [][Next]_vars

-----------------------------------------------------------------------------
\* The pool has three connections a worker, and no statement has failed.
Ample == size >= 3 * Cardinality(Workers) /\ faults = 0

\* With an ample pool a login is accepted only if its user was offline at some
\* moment of the call ("an online user is refused", user_service.cc:54 and :141).
\* So two logins of a user who does not log out in between are both accepted
\* only if they overlap.
AlreadyOnlineRefused ==
  \A w \in Workers :
     (Ample /\ worker[w].op = "login" /\ worker[w].step = "accept")
        => w \in offlineSeen

LoginSteps ==
  {"cached", "auth", "check", "update", "accept", "refuse"}

LoginSound(w) ==
  worker[w].op = "login" =>
     /\ worker[w].step \in LoginSteps
     /\ worker[w].id \in Users
     /\ state[worker[w].id] = "offline" => w \in offlineSeen
     /\ (Ample /\ worker[w].step \in {"update", "accept"}) => w \in offlineSeen

\* What AlreadyOnlineRefused rests on: a login that reached its update passed
\* the check, and restarts find no call in execution.
RefusalInv ==
  /\ ~up => \A w \in Workers : worker[w] = Idle
  /\ \A w \in Workers : LoginSound(w)

\* A login or registration is answered with the id of its own user, unless the
\* name was registered while another call used db_ between the INSERT and the
\* reading of its id (user_service.cc:230): that id stays in the cache, and
\* later logins with the right password go on as the other user.
AnsweredOwnId ==
  \A w \in Workers :
     (worker[w].op \in {"login", "register"} /\ worker[w].step = "accept")
        => worker[w].id = worker[w].user \/ worker[w].user \in mistaken
=============================================================================
