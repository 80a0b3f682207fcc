--------------------------- MODULE FriendService ---------------------------
(***************************************************************************)
(* Friendships (im-user/src/user_service.cc: AddFriend, GetFriends,        *)
(* RemoveFriend) and the lists of friends in Redis (user_cache.cc), one    *)
(* statement or cache command at a time.                                   *)
(*                                                                         *)
(* A friendship is two rows, inserted and deleted by two statements without*)
(* a transaction, on the connection db_ that all workers share without a   *)
(* lock.  GetFriends fills a list into the cache after it has read the     *)
(* rows; AddFriend and RemoveFriend delete the lists after they have       *)
(* changed the rows.                                                       *)
(***************************************************************************)
EXTENDS Naturals, FiniteSets

CONSTANTS
  Users,       \* ids with a row in table user
  Workers,     \* RPC worker threads (server.setThreadNum(4))
  None,        \* an id without a row
  MaxChanges,  \* bound: calls of AddFriend and RemoveFriend
  MaxFailures  \* bound: failing statements, losses of Redis and ends of the
               \* process, together

ASSUME FriendServiceAssumption ==
  /\ None \notin Users
  /\ {MaxChanges, MaxFailures} \subseteq Nat

VARIABLES
  rows,       \* pairs <<user, friend>> with a row in table friend
  cache,      \* what Redis has under friends:<id>, for who can ask for it
  redis,      \* the connection of user_cache_: "open", "broken", "none"
  worker,     \* the call each worker thread executes
  changes,
  failures,
  disturbed,  \* history: pairs a change of which failed half-way or overlapped
  left        \* history: users whose cached list a change did not delete, or
              \* a GetFriends wrote after it

vars == <<rows, cache, redis, worker, changes, failures, disturbed, left>>

Ids == Users \cup {None}

Pair(u, f) == {u, f}
Pairs == {Pair(u, f) : u, f \in Ids}

Friends(u) == {f \in Ids : <<u, f>> \in rows}

NoKey == [kind |-> "none", of |-> {}]
Entries == [kind : {"list", "set"}, of : SUBSET Ids] \cup {NoKey}

DbSteps == {"check", "target", "first", "second", "select"}
CacheSteps == {"get", "touch1", "touch2", "del1", "del2", "fill"}
Steps == DbSteps \cup CacheSteps

\* res: the rows a GetFriends read.  late: they have changed since, or were
\* another user's; of a change: it was not alone.
Busy == [op : {"add", "remove", "list"}, step : Steps, user : Users,
         friend : Ids, res : SUBSET Ids, late : BOOLEAN]

Idle == [op |-> "none", step |-> "idle", user |-> None, friend |-> None,
         res |-> {}, late |-> FALSE]

TypeOK ==
  /\ rows \subseteq Ids \X Ids
  /\ cache \in [Users -> Entries]
  /\ redis \in {"open", "broken", "none"}
  /\ worker \in [Workers -> Busy \cup {Idle}]
  /\ {changes, failures} \subseteq Nat
  /\ disturbed \subseteq Pairs
  /\ left \subseteq Users

Init ==
  /\ rows = {}
  /\ cache = [u \in Users |-> NoKey]
  /\ redis \in {"open", "none"}
  /\ worker = [w \in Workers |-> Idle]
  /\ changes = 0 /\ failures = 0
  /\ disturbed = {}
  /\ left = {}

-----------------------------------------------------------------------------
(* Calls, and the connection db_.                                          *)

At(w, step) == worker[w].step = step

\* A call that keeps its worker when it has answered.
MovedHeld(w, step) == [worker[w] EXCEPT !.step = step]

\* "end": the call answers and returns.
Moved(w, step) == IF step = "end" THEN Idle ELSE [worker[w] EXCEPT !.step = step]

Goto(w, step) == worker' = [worker EXCEPT ![w] = Moved(w, step)]

IsChange(w) == worker[w].op \in {"add", "remove"}
MyPair(w) == Pair(worker[w].user, worker[w].friend)

\* Another thread may be using db_ at the same time: a result may be the other's.
Racing(w) == \E v \in Workers \ {w} : worker[v].step \in DbSteps

Fails ==
  /\ failures < MaxFailures
  /\ failures' = failures + 1

NewCall(op, step, u, f, late) ==
  [op |-> op, step |-> step, user |-> u, friend |-> f, res |-> {}, late |-> late]

CallChange(w, op, step, u, f) ==
  LET rivals == {v \in Workers : IsChange(v) /\ MyPair(v) = Pair(u, f)} IN
  /\ worker[w] = Idle
  /\ changes < MaxChanges
  /\ changes' = changes + 1
  /\ worker' = [v \in Workers |->
       CASE v = w -> NewCall(op, step, u, f, rivals # {})
         [] v \in rivals -> [worker[v] EXCEPT !.late = TRUE]
         [] OTHER -> worker[v]]
  /\ disturbed' = IF rivals # {} THEN disturbed \cup {Pair(u, f)} ELSE disturbed
  /\ UNCHANGED <<rows, cache, redis, failures, left>>

CallAddFriend(w, u, f) == CallChange(w, "add", "check", u, f)
CallRemoveFriend(w, u, f) == CallChange(w, "remove", "first", u, f)

\* UserCache::IsConnected says whether the connection was made once.
CallGetFriends(w, u) ==
  /\ worker[w] = Idle
  /\ worker' = [worker EXCEPT ![w] =
       NewCall("list", IF redis = "none" THEN "select" ELSE "get", u, None, FALSE)]
  /\ UNCHANGED <<rows, cache, redis, changes, failures, disturbed, left>>

-----------------------------------------------------------------------------
(* The rows.                                                               *)

\* isFriend: a query that fails says no.
IsFriend(w) ==
  /\ At(w, "check")
  /\ \/ /\ Goto(w, IF worker[w].friend \in Friends(worker[w].user) THEN "end" ELSE "target")
        /\ UNCHANGED <<failures, disturbed>>
     \/ /\ Fails
        /\ Goto(w, "target")
        /\ disturbed' = disturbed \cup {MyPair(w)}
     \/ /\ Racing(w)
        /\ \E step \in {"end", "target"} : Goto(w, step)
        /\ disturbed' = disturbed \cup {MyPair(w)}
        /\ UNCHANGED failures
  /\ UNCHANGED <<rows, cache, redis, changes, left>>

\* The target must have a row in table user: table friend has no foreign key, and
\* takes an id without one that a race lets pass.
CheckTarget(w) ==
  /\ At(w, "target")
  /\ \/ Goto(w, IF worker[w].friend \in Users THEN "first" ELSE "end") /\ UNCHANGED failures
     \/ Goto(w, "end") /\ Fails
     \/ /\ Racing(w)
        /\ \E step \in {"end", "first"} : Goto(w, step)
        /\ UNCHANGED failures
  /\ UNCHANGED <<rows, cache, redis, changes, disturbed, left>>

\* Both statements name the row of the caller.
RowOnce(w) == <<worker[w].user, worker[w].friend>>

\* The row of the first or the second statement: <<user, friend>>, or reversed.
Row(w) == IF At(w, "first") THEN <<worker[w].user, worker[w].friend>>
                            ELSE <<worker[w].friend, worker[w].user>>

\* The workers when one has changed a row of u: what a GetFriends has read is late.
Outdating(u) ==
  [v \in Workers |->
     IF At(v, "fill") /\ worker[v].user = u THEN [worker[v] EXCEPT !.late = TRUE]
                                            ELSE worker[v]]

\* INSERT or DELETE.
ChangeRow(w) ==
  rows' = IF worker[w].op = "add" THEN rows \cup {Row(w)} ELSE rows \ {Row(w)}

\* The unique key (userid, friendid): an INSERT of a row that is there fails.
Duplicate(w) == worker[w].op = "add" /\ Row(w) \in rows

\* The lists there are of these users are left as they are.
Leave(users) == left \cup {u \in users \cap Users : cache[u].kind = "list"}

\* What follows the statements: the cache, if it was ever connected.
AfterRows(w) == IF At(w, "first") THEN "second"
                ELSE IF redis = "none" THEN "end" ELSE "touch1"

\* Users whose rows the call has changed and whose list it has yet to delete.
Unsettled(w) ==
  {u \in Users : \/ u = worker[w].user /\ worker[w].step \in {"second", "touch1", "touch2", "del1"}
                 \/ u = worker[w].friend /\ worker[w].step \in {"touch1", "touch2", "del1", "del2"}}

Executed(w) ==
  /\ ~Duplicate(w)
  /\ ChangeRow(w)
  /\ worker' = [Outdating(Row(w)[1]) EXCEPT ![w] = Moved(w, AfterRows(w))]
  /\ left' = IF At(w, "second") /\ redis = "none" THEN Leave(MyPair(w)) ELSE left
  /\ disturbed' = IF At(w, "second") /\ worker[w].op = "remove" /\ ~worker[w].late
                  THEN disturbed \ {MyPair(w)} ELSE disturbed
  /\ UNCHANGED failures

\* The call ends: when the second statement fails the first is not taken back,
\* and the list of its user not deleted.
StatementFails(w) ==
  /\ Fails \/ (Duplicate(w) /\ UNCHANGED failures)
  /\ Goto(w, "end")
  /\ disturbed' = IF At(w, "second") THEN disturbed \cup {MyPair(w)} ELSE disturbed
  /\ left' = Leave(Unsettled(w))
  /\ UNCHANGED rows

\* The result is the other thread's: a statement that was executed is taken for
\* failed, or one that failed for executed.
Crossed(w) ==
  /\ Racing(w)
  /\ disturbed' = disturbed \cup {MyPair(w)}
  /\ \/ /\ ~Duplicate(w)
        /\ ChangeRow(w)
        /\ worker' = [Outdating(Row(w)[1]) EXCEPT ![w] = Idle]
        /\ left' = Leave(Unsettled(w) \cup {Row(w)[1]})
     \/ /\ IF AfterRows(w) = "end" THEN Goto(w, "end")
           ELSE worker' = [worker EXCEPT ![w].step = AfterRows(w), ![w].late = TRUE]
        /\ left' = IF At(w, "second") /\ redis = "none" THEN Leave(MyPair(w)) ELSE left
        /\ UNCHANGED rows
  /\ UNCHANGED failures

\* One of the two statements of AddFriend or RemoveFriend.
Statement(w) ==
  /\ At(w, "first") \/ At(w, "second")
  /\ Executed(w) \/ StatementFails(w) \/ Crossed(w)
  /\ UNCHANGED <<cache, redis, changes>>

-----------------------------------------------------------------------------
(* The cache.                                                              *)

\* SADD and SREM work on a set, which SADD makes; on a list, a string in Redis,
\* they fail.
Touched(w, owner, member) ==
  LET set == cache[owner].of IN
  CASE cache[owner].kind = "list" -> cache[owner]
    [] worker[w].op = "add" -> [kind |-> "set", of |-> set \cup {member}]
    [] OTHER -> IF set \ {member} = {} THEN NoKey ELSE [kind |-> "set", of |-> set \ {member}]

\* UserCache::AddFriend or RemoveFriend, for the user and for the friend.
TouchSet(w) ==
  LET owner == IF At(w, "touch1") THEN worker[w].user ELSE worker[w].friend
      member == IF At(w, "touch1") THEN worker[w].friend ELSE worker[w].user IN
  /\ At(w, "touch1") \/ At(w, "touch2")
  /\ cache' = IF redis = "open" /\ owner \in Users
              THEN [cache EXCEPT ![owner] = Touched(w, owner, member)] ELSE cache
  /\ Goto(w, IF At(w, "touch1") THEN "touch2" ELSE "del1")
  /\ UNCHANGED <<rows, redis, changes, failures, disturbed, left>>

\* Only the list of the caller is deleted.
DelFriendsOnce(w) ==
  /\ At(w, "del1")
  /\ IF redis = "open"
     THEN /\ cache' = [cache EXCEPT ![worker[w].user] = NoKey]
          /\ left' = left \ {worker[w].user}
     ELSE left' = Leave(MyPair(w)) /\ UNCHANGED cache
  /\ Goto(w, "end")
  /\ UNCHANGED <<rows, redis, changes, failures, disturbed>>

\* UserCache::DelFriends, for the user and for the friend.
DelFriends(w) ==
  LET owner == IF At(w, "del1") THEN worker[w].user ELSE worker[w].friend IN
  /\ At(w, "del1") \/ At(w, "del2")
  /\ IF redis = "open"
     THEN /\ cache' = [u \in Users |-> IF u = owner THEN NoKey ELSE cache[u]]
          /\ left' = left \ {owner}
     ELSE left' = Leave({owner}) /\ UNCHANGED cache
  /\ Goto(w, IF At(w, "del1") THEN "del2" ELSE "end")
  /\ UNCHANGED <<rows, redis, changes, failures, disturbed>>

\* UserCache::GetFriends: a missing key, a set and a broken connection all give "".
GetCached(w) ==
  LET key == cache[worker[w].user] IN
  /\ At(w, "get")
  /\ Goto(w, IF redis = "open" /\ key.kind = "list" THEN "end" ELSE "select")
  /\ UNCHANGED <<rows, cache, redis, changes, failures, disturbed, left>>

\* What a query may read for user u: while another thread uses db_, also the
\* friends of another, the one id that other queries ask for, or nothing.
Results(w, u) ==
  {Friends(u)} \cup (IF Racing(w) THEN {Friends(v) : v \in Users} \cup {{f} : f \in Ids} \cup {{}}
                                 ELSE {})

\* SELECT friendid: an empty list is not cached.
SelectFriends(w) ==
  /\ At(w, "select")
  /\ \/ \E res \in Results(w, worker[w].user) :
          /\ IF redis = "none" \/ res = {} THEN Goto(w, "end")
             ELSE worker' = [worker EXCEPT ![w].step = "fill", ![w].res = res,
                               ![w].late = (res # Friends(worker[w].user))]
          /\ UNCHANGED failures
     \/ Fails /\ Goto(w, "end")
  /\ UNCHANGED <<rows, cache, redis, changes, disturbed, left>>

\* UserCache::SetFriends, for half an hour.
SetFriends(w) ==
  LET u == worker[w].user IN
  /\ At(w, "fill")
  /\ IF redis = "open"
     THEN /\ cache' = [cache EXCEPT ![u] = [kind |-> "list", of |-> worker[w].res]]
          /\ left' = IF worker[w].late THEN left \cup {u} ELSE left \ {u}
     ELSE UNCHANGED <<cache, left>>
  /\ Goto(w, "end")
  /\ UNCHANGED <<rows, redis, changes, failures, disturbed>>

-----------------------------------------------------------------------------
(* The environment.                                                        *)

\* A list expires; a set that SADD made has no time to live.
Expire(u) ==
  /\ cache[u].kind = "list"
  /\ cache' = [cache EXCEPT ![u] = NoKey]
  /\ left' = left \ {u}
  /\ UNCHANGED <<rows, redis, worker, changes, failures, disturbed>>

\* The connection breaks and stays so: only Connect, at the start, makes one.
Outage ==
  /\ redis = "open"
  /\ Fails
  /\ redis' = "broken"
  /\ UNCHANGED <<rows, cache, worker, changes, disturbed, left>>

\* The process ends, in the middle of calls, and starts again.
Restart ==
  /\ Fails
  /\ redis' \in {"open", "none"}
  /\ worker' = [w \in Workers |-> Idle]
  /\ disturbed' = disturbed \cup {MyPair(w) : w \in {v \in Workers : At(v, "second")}}
  /\ left' = Leave(UNION {Unsettled(w) : w \in Workers})
  /\ UNCHANGED <<rows, cache, changes>>

-----------------------------------------------------------------------------
Receive(w) ==
  \E u \in Users :
     \/ \E f \in Ids : CallAddFriend(w, u, f) \/ CallRemoveFriend(w, u, f)
     \/ CallGetFriends(w, u)

Execute(w) ==
  \/ IsFriend(w) \/ CheckTarget(w) \/ Statement(w)
  \/ TouchSet(w) \/ DelFriends(w)
  \/ GetCached(w) \/ SelectFriends(w) \/ SetFriends(w)

Next ==
  \/ \E w \in Workers : Receive(w) \/ Execute(w)
  \/ \E u \in Users : Expire(u)
  \/ Outage
  \/ Restart

Spec == Init /\ [][Next]_vars

-----------------------------------------------------------------------------
\* A cached list names the friends in the database, unless a change of them is
\* being executed or has left it: a call that ended between its statements and
\* its DelFriends, or could not reach Redis, or was overtaken by a GetFriends
\* that had read the rows before it.  (The cache-aside of GetFriends, with the
\* deletes of AddFriend and RemoveFriend "so that the next query reloads",
\* user_service.cc:340 and :449.)
CachedListCurrent ==
  \A u \in Users :
     (/\ cache[u].kind = "list"
      /\ u \notin left
      /\ \A w \in Workers : u \notin Unsettled(w)) => cache[u].of = Friends(u)

\* A friendship has its row in both directions, or in none, unless two changes of
\* it overlapped or one failed half-way (user_service.cc:318, "both ways").  A
\* RemoveFriend that is executed alone repairs it.
FriendshipMutual ==
  \A u, f \in Ids :
     (/\ u # f
      /\ Pair(u, f) \notin disturbed
      /\ \A w \in Workers : At(w, "second") => MyPair(w) # Pair(u, f))
     => (<<u, f>> \in rows <=> <<f, u>> \in rows)
=============================================================================
