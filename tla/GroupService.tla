---------------------------- MODULE GroupService ---------------------------
(***************************************************************************)
(* Groups (im-group/src/group_service.cc), on the pool of MySQL            *)
(* connections.  CreateGroup uses three connections one after another, the *)
(* second of which it keeps until it returns: it inserts the group on the  *)
(* first, reads the insert id of the second, and inserts the creator as a  *)
(* member of the group with that id on the third.  All of them wait for a  *)
(* connection without a timeout.  The tables are those of                  *)
(* docs/architecture/data-storage.md:205-229: the ids of both count up, and *)
(* only the pair of group and user is unique.                              *)
(***************************************************************************)
EXTENDS MySQLPool, Naturals

CONSTANTS
  Users,      \* creators
  Workers,    \* RPC worker threads (server.setThreadNum(4))
  None,       \* no user or connection
  MaxGroups,  \* bound: groups, with those that are to be inserted
  MaxFaults,  \* bound: statements that fail
  MaxEnds     \* bound: ends of the process

ASSUME GroupServiceAssumption ==
  /\ IsFiniteSet(Workers) /\ IsFiniteSet(Conns)
  /\ None \notin Users \cup Conns
  /\ {MaxGroups, MaxFaults, MaxEnds} \subseteq Nat

VARIABLES
  groups,    \* table allgroup: the creator of each group, its id is the position
  members,   \* table groupuser: <<group id, user>>, with ids of their own
  insertId,  \* mysql_insert_id of each connection
  worker,    \* the call each worker thread executes
  up,        \* the process runs
  faults,
  ends

vars == <<PoolVars, groups, members, insertId, worker, up, faults, ends>>

Ids == Nat \ {0}
Steps == {"insert", "newid", "member", "query", "accept", "refuse"}

\* conn: the connection of the statement; forId: db_for_id.  own: the id the
\* group got; id: the id the call takes for it.
Busy == [step : Steps, user : Users \cup {None}, conn : Conns \cup {None},
         forId : Conns \cup {None}, own : Ids \cup {0}, id : Ids \cup {0}]

Idle == [step |-> "idle", user |-> None, conn |-> None, forId |-> None,
         own |-> 0, id |-> 0]

TypeOK ==
  /\ PoolTypeOK
  /\ groups \in Seq(Users)
  /\ members \subseteq (Ids \cup {0}) \X Users /\ IsFiniteSet(members)
  /\ insertId \in [Conns -> Ids \cup {0}]
  /\ worker \in [Workers -> Busy \cup {Idle}]
  /\ up \in BOOLEAN
  /\ {faults, ends} \subseteq Nat

Init ==
  /\ PoolInit
  /\ groups = <<>>
  /\ members = {}
  /\ insertId = [c \in Conns |-> 0]
  /\ worker = [w \in Workers |-> Idle]
  /\ up = TRUE
  /\ faults = 0
  /\ ends = 0

-----------------------------------------------------------------------------
(* Calls, and the connections.                                             *)

At(w, step) == worker[w].step = step

\* The statements that need a connection of their own, and do not have it.
Waiting(w) ==
  worker[w].step \in {"insert", "newid", "member", "query"} /\ worker[w].conn = None

Ready(w, step) == At(w, step) /\ worker[w].conn # None

\* A deleter that runs for an empty pointer as well.
HeldEmpty(conn) == <<conn>>

\* The connection a pointer holds, if it holds one.
Held(conn) == IF conn = None THEN <<>> ELSE <<conn>>

CallCreateGroup(w, u) ==
  /\ up
  /\ worker[w] = Idle
  /\ Len(groups) + Cardinality({v \in Workers : At(v, "insert")}) < MaxGroups
  /\ worker' = [worker EXCEPT ![w] = [Idle EXCEPT !.step = "insert", !.user = u]]
  /\ UNCHANGED <<PoolVars, groups, members, insertId, up, faults, ends>>

\* GetGroupMembers, GetUserGroups, GetGroupInfo.
CallQuery(w) ==
  /\ up
  /\ worker[w] = Idle
  /\ worker' = [worker EXCEPT ![w] = [Idle EXCEPT !.step = "query"]]
  /\ UNCHANGED <<PoolVars, groups, members, insertId, up, faults, ends>>

\* The first of all acquires fills the pool, under the pool's mutex.
FillPool(w) ==
  /\ Waiting(w)
  /\ EnsureInitialized
  /\ UNCHANGED <<groups, members, insertId, worker, up, faults, ends>>

\* acquire() returns; without a free connection it waits, however long.
Acquire(w) ==
  /\ Waiting(w)
  /\ \E c \in Conns :
        /\ Take(c)
        /\ worker' = [worker EXCEPT ![w].conn = c]
  /\ UNCHANGED <<groups, members, insertId, up, faults, ends>>

-----------------------------------------------------------------------------
(* Statements.                                                             *)

Fails ==
  /\ faults < MaxFaults
  /\ faults' = faults + 1

\* After a statement that made no id the library says 0, or still the id before.
NoNewId(c) ==
  \E id \in {0, insertId[c]} : insertId' = [insertId EXCEPT ![c] = id]

\* A first block of CreateGroup that forgets its connection.
InsertGroupLeaky(w) ==
  LET c == worker[w].conn
      id == Len(groups) + 1 IN
  /\ Ready(w, "insert")
  /\ groups' = Append(groups, worker[w].user)
  /\ insertId' = [insertId EXCEPT ![c] = id]
  /\ worker' = [worker EXCEPT ![w].step = "newid", ![w].conn = None, ![w].own = id]
  /\ UNCHANGED <<PoolVars, members, up, faults, ends>>

\* INSERT INTO allgroup; its connection goes back before the next is taken.  A
\* failure ends the call, which answers first.
InsertGroup(w) ==
  LET c == worker[w].conn
      id == Len(groups) + 1 IN
  /\ Ready(w, "insert")
  /\ \/ /\ groups' = Append(groups, worker[w].user)
        /\ insertId' = [insertId EXCEPT ![c] = id]
        /\ Put(<<c>>)
        /\ worker' = [worker EXCEPT ![w].step = "newid", ![w].conn = None, ![w].own = id]
        /\ UNCHANGED faults
     \/ /\ Fails
        /\ NoNewId(c)
        /\ worker' = [worker EXCEPT ![w].step = "refuse"]
        /\ UNCHANGED <<PoolVars, groups>>
  /\ UNCHANGED <<members, up, ends>>

\* mysql_insert_id of whatever connection came next.
NewId(w) ==
  LET c == worker[w].conn IN
  /\ Ready(w, "newid")
  /\ worker' = [worker EXCEPT ![w].step = "member", ![w].conn = None, ![w].forId = c,
                              ![w].id = insertId[c]]
  /\ UNCHANGED <<PoolVars, groups, members, insertId, up, faults, ends>>

\* INSERT INTO groupuser, whatever the group id is; a row that is there already,
\* or a failure, ends the call, which answers before it gives the connection back.
InsertMember(w) ==
  LET c == worker[w].conn
      row == <<worker[w].id, worker[w].user>> IN
  /\ Ready(w, "member")
  /\ \/ /\ row \notin members
        /\ members' = members \cup {row}
        /\ insertId' = [insertId EXCEPT ![c] = Cardinality(members) + 1]
        /\ Put(<<c>>)
        /\ worker' = [worker EXCEPT ![w].step = "accept", ![w].conn = None]
        /\ UNCHANGED faults
     \/ /\ IF row \in members THEN UNCHANGED faults ELSE Fails
        /\ NoNewId(c)
        /\ worker' = [worker EXCEPT ![w].step = "refuse"]
        /\ UNCHANGED <<PoolVars, members>>
  /\ UNCHANGED <<groups, up, ends>>

\* The SELECT of a query, after which the call answers and then returns.
Query(w) ==
  /\ Ready(w, "query")
  /\ NoNewId(worker[w].conn)
  /\ worker' = [worker EXCEPT ![w].step = "accept"]
  /\ UNCHANGED <<PoolVars, groups, members, up, faults, ends>>

\* A return that gives back the connection of the last statement only.
ReturnLeaky(w) ==
  /\ worker[w].step \in {"accept", "refuse"}
  /\ Put(Held(worker[w].conn))
  /\ worker' = [worker EXCEPT ![w] = Idle]
  /\ UNCHANGED <<groups, members, insertId, up, faults, ends>>

\* The call returns: the inner connection is released before db_for_id.
Return(w) ==
  /\ worker[w].step \in {"accept", "refuse"}
  /\ Put(Held(worker[w].conn) \o Held(worker[w].forId))
  /\ worker' = [worker EXCEPT ![w] = Idle]
  /\ UNCHANGED <<groups, members, insertId, up, faults, ends>>

-----------------------------------------------------------------------------
(* The process.                                                            *)

End ==
  /\ up
  /\ ends < MaxEnds
  /\ ends' = ends + 1
  /\ up' = FALSE
  /\ worker' = [w \in Workers |-> Idle]
  /\ insertId' = [c \in Conns |-> 0]
  /\ initialized' = FALSE /\ all' = {} /\ free' = <<>>
  /\ UNCHANGED <<groups, members, faults>>

\* JoinGroup and LeaveGroup begin with a query on db_, which is never set.
CallJoinOrLeave(w) == worker[w] = Idle /\ End

Start ==
  /\ ~up
  /\ up' = TRUE
  /\ UNCHANGED <<PoolVars, groups, members, insertId, worker, faults, ends>>

-----------------------------------------------------------------------------
Receive(w) ==
  \/ \E u \in Users : CallCreateGroup(w, u)
  \/ CallQuery(w)
  \/ CallJoinOrLeave(w)

Execute(w) ==
  \/ FillPool(w) \/ Acquire(w)
  \/ InsertGroup(w) \/ NewId(w) \/ InsertMember(w) \/ Query(w)
  \/ Return(w)

Next ==
  \/ \E w \in Workers : Receive(w) \/ Execute(w)
  \/ End
  \/ Start

Spec == Init /\ [][Next]_vars

\* Worker threads go on, unless they wait for a connection.
Fairness == \A w \in Workers : WF_vars(Execute(w))

LiveSpec == Spec /\ Fairness

-----------------------------------------------------------------------------
Holdings(w) == {worker[w].conn, worker[w].forId} \ {None}

\* No connection is lost and none is used by two calls at once: each opened one
\* is free once, or one call's (the deleter of db_pool.cpp:57 on every way out
\* of a call, group_service.cc:45, :58, :78).
PoolIntact ==
  /\ IsInjective(free)
  /\ all = Range(free) \cup UNION {Holdings(w) : w \in Workers}
  /\ \A w \in Workers : Holdings(w) \cap Range(free) = {}
  /\ \A w \in Workers : worker[w].conn # None => worker[w].conn # worker[w].forId
  /\ \A v, w \in Workers : v # w => Holdings(v) \cap Holdings(w) = {}

\* With more connections than workers the calls cannot all wait for each other,
\* though a CreateGroup waits for its third connection, with no timeout, while it
\* keeps its second (group_service.cc:58 and :78): as long as there are calls, one
\* or another returns.  Which one is left to the condition variable of the pool: a
\* call may be passed over again and again.
CallsReturn ==
  \/ []<>(\/ \A w \in Workers : At(w, "idle")
          \/ Cardinality(all) <= Cardinality(Workers))
  \/ []<><<\E w \in Workers : Return(w)>>_vars

\* A CreateGroup that inserted its group has made the creator a member of it
\* ("the creator is put into the group", group_service.cc:69): the id is read
\* from another connection than the one that inserted.
CreatorInOwnGroup ==
  \A w \in Workers :
     (worker[w].step \in {"accept", "refuse"} /\ worker[w].own # 0)
       => <<worker[w].own, worker[w].user>> \in members
=============================================================================
