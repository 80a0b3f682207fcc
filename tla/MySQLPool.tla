----------------------------- MODULE MySQLPool -----------------------------
(***************************************************************************)
(* The pool of MySQL connections (thirdparty/mysqldb/db_pool.cpp): a queue *)
(* of free connections under a mutex, filled by whoever acquires first.  A *)
(* connection that cannot be opened then is never tried again.  The module *)
(* has the pool's operations; who waits and who holds what is the caller's.*)
(***************************************************************************)
EXTENDS Sequences, FiniteSets, SequencesExt

CONSTANT Conns   \* the connections ensureInitialized tries to open (8)

VARIABLES
  initialized,   \* initialized_
  all,           \* all_: the connections that were opened
  free           \* free_: first in, first out

PoolVars == <<initialized, all, free>>

PoolTypeOK ==
  /\ initialized \in BOOLEAN
  /\ all \subseteq Conns
  /\ free \in Seq(Conns)

PoolInit ==
  /\ initialized = FALSE
  /\ all = {}
  /\ free = <<>>

\* The first acquire opens the connections; those it cannot open are left out.
EnsureInitialized ==
  /\ ~initialized
  /\ initialized' = TRUE
  /\ \E opened \in SUBSET Conns :
        /\ all' = opened
        /\ free' = SetToSeq(opened)

\* acquire: the oldest free connection, once there is one.
Take(conn) ==
  /\ initialized
  /\ free # <<>>
  /\ conn = Head(free)
  /\ free' = Tail(free)
  /\ UNCHANGED <<initialized, all>>

\* release, of one connection after another.
Put(conns) ==
  /\ free' = free \o conns
  /\ UNCHANGED <<initialized, all>>
=============================================================================
