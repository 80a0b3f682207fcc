------------------------- MODULE GroupServiceProofs -------------------------
(***************************************************************************)
(* The pool under the group service, for any users, names, connections,    *)
(* workers and failures: no connection is lost, or used by two calls.      *)
(***************************************************************************)
EXTENDS GroupService, SequenceTheorems, FiniteSetTheorems, TLAPS

-----------------------------------------------------------------------------
(* Queues without repetition.                                              *)

\* The pool fills its queue with each connection once.
LEMMA FilledOnce ==
  ASSUME NEW S, IsFiniteSet(S)
  PROVE  /\ SetToSeq(S) \in Seq(S)
         /\ IsInjective(SetToSeq(S))
         /\ Range(SetToSeq(S)) = S
<1> DEFINE n == Cardinality(S)
<1>1. n \in Nat /\ ExistsBijection(1..n, S)
  BY FS_CardinalityType
<1>2. \E f \in [1..n -> S] : IsInjective(f)
  BY <1>1 DEF ExistsBijection, Bijection, Injection
<1>3. SetToSeq(S) \in [1..n -> S] /\ IsInjective(SetToSeq(S))
  BY <1>2 DEF SetToSeq
<1>4. SetToSeq(S) \in Injection(1..n, S)
  BY <1>3 DEF Injection
<1>5. IsFiniteSet(1..n) /\ Cardinality(1..n) = n
  BY <1>1, FS_Interval
<1>6. SetToSeq(S) \in Surjection(1..n, S)
  BY <1>4, <1>5, FS_Injection
<1>7. Range(SetToSeq(S)) = S
  BY <1>3, <1>6 DEF Surjection, Range
<1>8. SetToSeq(S) \in Seq(S)
  BY <1>1, <1>3
<1> QED
  BY <1>3, <1>7, <1>8

\* A connection that is not in the queue is put at its end.
LEMMA PutOne ==
  ASSUME NEW S, NEW q \in Seq(S), IsInjective(q), NEW c \in S, c \notin Range(q)
  PROVE  /\ q \o <<c>> \in Seq(S)
         /\ IsInjective(q \o <<c>>)
         /\ Range(q \o <<c>>) = Range(q) \cup {c}
<1> DEFINE r == q \o <<c>>
<1>1. /\ r \in Seq(S) /\ Len(r) = Len(q) + 1
      /\ \A i \in 1..(Len(q) + 1) : r[i] = IF i <= Len(q) THEN q[i] ELSE c
  <2>1. <<c>> \in Seq(S) /\ Len(<<c>>) = 1 /\ <<c>>[1] = c
    OBVIOUS
  <2> QED
    BY <2>1, ConcatProperties
<1>2. DOMAIN q = 1..Len(q) /\ Len(q) \in Nat /\ DOMAIN r = 1..(Len(q) + 1)
  BY <1>1, LenProperties
<1>3. \A i \in 1..Len(q) : q[i] # c
  BY <1>2 DEF Range
<1>4. IsInjective(r)
  <2> SUFFICES ASSUME NEW i \in DOMAIN r, NEW j \in DOMAIN r, r[i] = r[j]
               PROVE  i = j
    BY DEF IsInjective
  <2> HIDE DEF r
  <2>1. CASE i <= Len(q) /\ j <= Len(q)
    BY <1>1, <1>2, <2>1 DEF IsInjective
  <2>2. CASE ~(i <= Len(q) /\ j <= Len(q))
    BY <1>1, <1>2, <1>3, <2>2
  <2> QED
    BY <2>1, <2>2
<1>5. Range(r) = Range(q) \cup {c}
  <2> HIDE DEF r
  <2>1. \A x \in Range(r) : x \in Range(q) \cup {c}
    BY <1>1, <1>2 DEF Range
  <2>2. \A x \in Range(q) : x \in Range(r)
    BY <1>1, <1>2 DEF Range
  <2>3. c \in Range(r)
    <3>1. Len(q) + 1 \in DOMAIN r /\ r[Len(q) + 1] = c
      BY <1>1, <1>2
    <3> QED
      BY <3>1 DEF Range
  <2> QED
    BY <2>1, <2>2, <2>3
<1> QED
  BY <1>1, <1>4, <1>5

\* The first of the queue is taken out of it.
LEMMA TakeOne ==
  ASSUME NEW S, NEW q \in Seq(S), IsInjective(q), q # <<>>
  PROVE  /\ Tail(q) \in Seq(S)
         /\ IsInjective(Tail(q))
         /\ Head(q) \in S
         /\ Head(q) \in Range(q)
         /\ Range(Tail(q)) = Range(q) \ {Head(q)}
<1>1. /\ Head(q) \in S /\ Tail(q) \in Seq(S) /\ Len(Tail(q)) = Len(q) - 1
      /\ \A i \in 1..(Len(q) - 1) : Tail(q)[i] = q[i + 1]
  BY HeadTailProperties
<1>2. /\ DOMAIN q = 1..Len(q) /\ Len(q) \in Nat \ {0}
      /\ DOMAIN Tail(q) = 1..(Len(q) - 1) /\ Head(q) = q[1]
  BY <1>1, LenProperties, EmptySeq
<1> DEFINE t == Tail(q)
           h == Head(q)
<1>3. /\ \A i \in 1..(Len(q) - 1) : t[i] = q[i + 1]
      /\ DOMAIN t = 1..(Len(q) - 1) /\ h = q[1]
  BY <1>1, <1>2
<1> HIDE DEF t, h
<1>4. IsInjective(t)
  BY <1>2, <1>3 DEF IsInjective
<1>5. h \in Range(q)
  BY <1>2, <1>3 DEF Range
<1>6. Range(t) = Range(q) \ {h}
  <2>1. ASSUME NEW x \in Range(t) PROVE x \in Range(q) /\ x # h
    <3>1. PICK i \in 1..(Len(q) - 1) : x = q[i + 1]
      BY <1>3, <2>1 DEF Range
    <3> QED
      BY <1>2, <1>3, <3>1 DEF Range, IsInjective
  <2>2. ASSUME NEW x \in Range(q), x # h PROVE x \in Range(t)
    <3>1. PICK i \in 1..Len(q) : x = q[i]
      BY <1>2, <2>2 DEF Range
    <3>2. i # 1
      BY <1>3, <2>2, <3>1
    <3>3. i - 1 \in 1..(Len(q) - 1) /\ t[i - 1] = x
      BY <1>2, <1>3, <3>1, <3>2
    <3> QED
      BY <1>3, <3>3 DEF Range
  <2> QED
    BY <2>1, <2>2
<1> QED
  BY <1>1, <1>4, <1>5, <1>6 DEF t, h

-----------------------------------------------------------------------------
(* Types.                                                                  *)

\* A CreateGroup that has not come to its answer is of a user.
CreatorKnown ==
  \A w \in Workers :
     worker[w].step \in {"insert", "newid", "member"} =>
        worker[w].user \in Users

TypeInv == TypeOK /\ CreatorKnown

\* One worker has another call, the others keep theirs.
Becomes(w, r) ==
  /\ worker' = [worker EXCEPT ![w] = r]
  /\ r \in Busy \cup {Idle}
  /\ r.step \in {"insert", "newid", "member"} => r.user \in Users

LEMMA BecomesTyped ==
  ASSUME TypeInv, NEW w \in Workers, NEW r, Becomes(w, r)
  PROVE  worker' \in [Workers -> Busy \cup {Idle}] /\ CreatorKnown'
BY DEF TypeInv, TypeOK, CreatorKnown, Becomes

LEMMA BusyWorker ==
  ASSUME TypeOK, NEW w \in Workers, worker[w].step # "idle"
  PROVE  worker[w] \in Busy
BY DEF TypeOK, Idle

LEMMA NoNewIdTyped ==
  ASSUME TypeOK, NEW c \in Conns, NoNewId(c)
  PROVE  insertId' \in [Conns -> Ids \cup {0}]
BY DEF TypeOK, NoNewId

LEMMA TypeInit == Init => TypeInv
<1> SUFFICES ASSUME Init PROVE TypeInv
  OBVIOUS
<1>1. {faults, ends} \subseteq Nat
  BY GroupServiceAssumption DEF Init
<1>2. groups \in Seq(Users)
  BY EmptySeq DEF Init
<1>3. PoolTypeOK
  <2>1. free \in Seq(Conns)
    BY EmptySeq DEF Init, PoolInit
  <2> QED
    BY <2>1 DEF Init, PoolInit, PoolTypeOK
<1>4. worker \in [Workers -> Busy \cup {Idle}] /\ CreatorKnown
  BY DEF Init, CreatorKnown, Idle
<1>5. insertId \in [Conns -> Ids \cup {0}] /\ up \in BOOLEAN
      /\ members \subseteq (Ids \cup {0}) \X Users /\ IsFiniteSet(members)
  BY FS_EmptySet DEF Init
<1> QED
  BY <1>1, <1>2, <1>3, <1>4, <1>5 DEF TypeInv, TypeOK

LEMMA TypeKept ==
  ASSUME TypeInv, [Next]_vars
  PROVE  TypeInv'
<1> USE DEF PoolVars
<1>0. TypeOK /\ IsFiniteSet(Conns)
  BY GroupServiceAssumption DEF TypeInv
<1>1. ASSUME NEW w \in Workers, NEW u \in Users, CallCreateGroup(w, u)
      PROVE  TypeInv'
  <2> DEFINE r == [Idle EXCEPT !.step = "insert", !.user = u]
  <2>1. Becomes(w, r)
    BY <1>1 DEF CallCreateGroup, Becomes, Busy, Idle, Steps
  <2> HIDE DEF r
  <2> QED
    BY <1>0, <1>1, <2>1, BecomesTyped DEF CallCreateGroup, TypeInv, TypeOK, PoolTypeOK
<1>2. ASSUME NEW w \in Workers, CallQuery(w) PROVE TypeInv'
  <2> DEFINE r == [Idle EXCEPT !.step = "query"]
  <2>1. Becomes(w, r)
    BY <1>2 DEF CallQuery, Becomes, Busy, Idle, Steps
  <2> HIDE DEF r
  <2> QED
    BY <1>0, <1>2, <2>1, BecomesTyped DEF CallQuery, TypeInv, TypeOK, PoolTypeOK
<1>3. ASSUME NEW w \in Workers, FillPool(w) PROVE TypeInv'
  <2>1. PICK opened \in SUBSET Conns :
          initialized' = TRUE /\ all' = opened /\ free' = SetToSeq(opened)
    BY <1>3 DEF FillPool, EnsureInitialized
  <2>2. free' \in Seq(Conns)
    <3>1. free' \in Seq(opened)
      BY <1>0, <2>1, FilledOnce, FS_Subset
    <3> QED
      BY <3>1, SeqMonotonic
  <2> QED
    BY <1>3, <2>1, <2>2 DEF FillPool, TypeInv, TypeOK, PoolTypeOK, CreatorKnown
<1>4. ASSUME NEW w \in Workers, Acquire(w) PROVE TypeInv'
  <2>1. PICK c \in Conns : Take(c) /\ worker' = [worker EXCEPT ![w].conn = c]
    BY <1>4 DEF Acquire
  <2>2. free' \in Seq(Conns)
    BY <2>1, HeadTailProperties DEF Take, TypeInv, TypeOK, PoolTypeOK
  <2>3. worker[w] \in Busy
    BY <1>0, <1>4, BusyWorker DEF Acquire, Waiting
  <2>4. Becomes(w, [worker[w] EXCEPT !.conn = c])
    BY <2>1, <2>3 DEF Becomes, Busy, TypeInv, CreatorKnown
  <2> QED
    BY <1>0, <1>4, <2>1, <2>2, <2>4, BecomesTyped
       DEF Acquire, Take, TypeInv, TypeOK, PoolTypeOK
<1>5. ASSUME NEW w \in Workers, InsertGroup(w) PROVE TypeInv'
  <2>1. worker[w] \in Busy /\ worker[w].conn \in Conns
    <3>1. worker[w] \in Busy
      BY <1>0, <1>5, BusyWorker DEF InsertGroup, Ready, At
    <3> QED
      BY <1>5, <3>1 DEF InsertGroup, Ready, Busy
  <2>2. worker[w].user \in Users
    BY <1>5 DEF InsertGroup, Ready, At, TypeInv, CreatorKnown
  <2>3. Len(groups) + 1 \in Ids
    BY <1>0, LenProperties DEF TypeOK, Ids
  <2>4. CASE /\ groups' = Append(groups, worker[w].user)
             /\ insertId' = [insertId EXCEPT ![worker[w].conn] = Len(groups) + 1]
             /\ Put(<<worker[w].conn>>)
             /\ worker' = [worker EXCEPT ![w].step = "newid", ![w].conn = None,
                                         ![w].own = Len(groups) + 1]
             /\ UNCHANGED faults
    <3>1. free' \in Seq(Conns) /\ UNCHANGED <<initialized, all>>
      BY <1>0, <2>1, <2>4, ConcatProperties DEF Put, TypeOK, PoolTypeOK
    <3>2. groups' \in Seq(Users)
      BY <1>0, <2>2, <2>4, AppendProperties DEF TypeOK
    <3>3. Becomes(w, [worker[w] EXCEPT !.step = "newid", !.conn = None,
                                       !.own = Len(groups) + 1])
      BY <2>1, <2>2, <2>3, <2>4 DEF Becomes, Busy, Steps
    <3>4. insertId' \in [Conns -> Ids \cup {0}]
      BY <1>0, <2>3, <2>4 DEF TypeOK
    <3> QED
      BY <1>0, <1>5, <2>4, <3>1, <3>2, <3>3, <3>4, BecomesTyped
         DEF InsertGroup, TypeInv, TypeOK, PoolTypeOK
  <2>5. CASE /\ faults' = faults + 1
             /\ NoNewId(worker[w].conn)
             /\ worker' = [worker EXCEPT ![w].step = "refuse"]
             /\ UNCHANGED <<PoolVars, groups>>
    <3>1. Becomes(w, [worker[w] EXCEPT !.step = "refuse"])
      BY <2>1, <2>5 DEF Becomes, Busy, Steps
    <3>2. insertId' \in [Conns -> Ids \cup {0}]
      BY <1>0, <2>1, <2>5, NoNewIdTyped
    <3>3. faults' \in Nat
      BY <1>0, <2>5 DEF TypeOK
    <3> QED
      BY <1>0, <1>5, <2>5, <3>1, <3>2, <3>3, BecomesTyped
         DEF InsertGroup, TypeInv, TypeOK, PoolTypeOK
  <2> QED
    BY <1>5, <2>4, <2>5 DEF InsertGroup, Fails
<1>6. ASSUME NEW w \in Workers, NewId(w) PROVE TypeInv'
  <2>1. worker[w] \in Busy /\ worker[w].conn \in Conns
    <3>1. worker[w] \in Busy
      BY <1>0, <1>6, BusyWorker DEF NewId, Ready, At
    <3> QED
      BY <1>6, <3>1 DEF NewId, Ready, Busy
  <2> DEFINE r == [worker[w] EXCEPT !.step = "member", !.conn = None,
                     !.forId = worker[w].conn, !.id = insertId[worker[w].conn]]
  <2>2. insertId[worker[w].conn] \in Ids \cup {0}
    BY <1>0, <2>1 DEF TypeOK
  <2>3. worker[w].user \in Users
    BY <1>6 DEF NewId, Ready, At, TypeInv, CreatorKnown
  <2>4. Becomes(w, r)
    BY <1>6, <2>1, <2>2, <2>3 DEF NewId, Becomes, Busy, Steps
  <2> HIDE DEF r
  <2> QED
    BY <1>0, <1>6, <2>4, BecomesTyped DEF NewId, TypeInv, TypeOK, PoolTypeOK
<1>7. ASSUME NEW w \in Workers, InsertMember(w) PROVE TypeInv'
  <2>1. worker[w] \in Busy /\ worker[w].conn \in Conns
    <3>1. worker[w] \in Busy
      BY <1>0, <1>7, BusyWorker DEF InsertMember, Ready, At
    <3> QED
      BY <1>7, <3>1 DEF InsertMember, Ready, Busy
  <2>2. UNCHANGED <<groups, up, ends>>
    BY <1>7 DEF InsertMember
  <2>3. CASE /\ members' = members \cup {<<worker[w].id, worker[w].user>>}
             /\ insertId' = [insertId EXCEPT ![worker[w].conn] = Cardinality(members) + 1]
             /\ Put(<<worker[w].conn>>)
             /\ worker' = [worker EXCEPT ![w].step = "accept", ![w].conn = None]
             /\ UNCHANGED faults
    <3>1. free' \in Seq(Conns) /\ UNCHANGED <<initialized, all>>
      BY <1>0, <2>1, <2>3, ConcatProperties DEF Put, TypeOK, PoolTypeOK
    <3>2. Becomes(w, [worker[w] EXCEPT !.step = "accept", !.conn = None])
      BY <2>1, <2>3 DEF Becomes, Busy, Steps
    <3>3. members' \subseteq (Ids \cup {0}) \X Users
      <4>1. worker[w].user \in Users
        BY <1>7 DEF InsertMember, Ready, At, TypeInv, CreatorKnown
      <4>2. worker[w].id \in Ids \cup {0}
        BY <2>1 DEF Busy
      <4> QED
        BY <1>0, <2>3, <4>1, <4>2 DEF TypeOK
    <3>4. IsFiniteSet(members')
      BY <1>0, <2>3, FS_AddElement DEF TypeOK
    <3>5. insertId' \in [Conns -> Ids \cup {0}]
      <4>1. Cardinality(members) \in Nat
        BY <1>0, FS_CardinalityType DEF TypeOK
      <4>2. Cardinality(members) + 1 \in Ids
        BY <4>1 DEF Ids
      <4> QED
        BY <1>0, <2>3, <4>2 DEF TypeOK
    <3> QED
      BY <1>0, <2>2, <2>3, <3>1, <3>2, <3>3, <3>4, <3>5, BecomesTyped
         DEF TypeInv, TypeOK, PoolTypeOK
  <2>4. CASE /\ faults' = faults \/ faults' = faults + 1
             /\ NoNewId(worker[w].conn)
             /\ worker' = [worker EXCEPT ![w].step = "refuse"]
             /\ UNCHANGED <<PoolVars, members>>
    <3>1. Becomes(w, [worker[w] EXCEPT !.step = "refuse"])
      BY <2>1, <2>4 DEF Becomes, Busy, Steps
    <3>2. faults' \in Nat
      BY <1>0, <2>4 DEF TypeOK
    <3>3. insertId' \in [Conns -> Ids \cup {0}]
      BY <1>0, <2>1, <2>4, NoNewIdTyped
    <3> QED
      BY <1>0, <2>2, <2>4, <3>1, <3>2, <3>3, BecomesTyped DEF TypeInv, TypeOK, PoolTypeOK
  <2> QED
    BY <1>7, <2>3, <2>4 DEF InsertMember, Fails
<1>8. ASSUME NEW w \in Workers, Query(w) PROVE TypeInv'
  <2>1. worker[w] \in Busy /\ worker[w].conn \in Conns
    <3>1. worker[w] \in Busy
      BY <1>0, <1>8, BusyWorker DEF Query, Ready, At
    <3> QED
      BY <1>8, <3>1 DEF Query, Ready, Busy
  <2>2. Becomes(w, [worker[w] EXCEPT !.step = "accept"])
    BY <1>8, <2>1 DEF Query, Becomes, Busy, Steps
  <2>3. insertId' \in [Conns -> Ids \cup {0}]
    BY <1>0, <1>8, <2>1, NoNewIdTyped DEF Query
  <2> QED
    BY <1>0, <1>8, <2>2, <2>3, BecomesTyped DEF Query, TypeInv, TypeOK, PoolTypeOK
<1>9. ASSUME NEW w \in Workers, Return(w) PROVE TypeInv'
  <2>1. worker[w] \in Busy
    BY <1>0, <1>9, BusyWorker DEF Return
  <2>2. Held(worker[w].conn) \in Seq(Conns) /\ Held(worker[w].forId) \in Seq(Conns)
    BY <2>1 DEF Held, Busy
  <2>3. free' \in Seq(Conns)
    BY <1>0, <1>9, <2>2, ConcatProperties DEF Return, Put, TypeOK, PoolTypeOK
  <2>4. Becomes(w, Idle)
    BY <1>9 DEF Return, Becomes, Idle
  <2> QED
    BY <1>0, <1>9, <2>3, <2>4, BecomesTyped DEF Return, Put, TypeInv, TypeOK, PoolTypeOK
<1>10. CASE End
  <2>1. free' \in Seq(Conns) /\ initialized' = FALSE /\ all' = {}
    BY <1>10, EmptySeq DEF End
  <2>2. worker' \in [Workers -> Busy \cup {Idle}] /\ CreatorKnown'
    BY <1>10 DEF End, CreatorKnown, Idle
  <2>3. PoolTypeOK'
    BY <2>1 DEF PoolTypeOK
  <2>4. insertId' \in [Conns -> Ids \cup {0}] /\ up' \in BOOLEAN
    BY <1>10 DEF End
  <2>5. {faults, ends}' \subseteq Nat /\ UNCHANGED <<groups, members>>
    BY <1>0, <1>10 DEF End, TypeOK
  <2> QED
    BY <1>0, <2>2, <2>3, <2>4, <2>5 DEF TypeInv, TypeOK
<1>11. CASE Start
  BY <1>11 DEF Start, TypeInv, TypeOK, PoolTypeOK, CreatorKnown
<1>12. CASE UNCHANGED vars
  BY <1>12 DEF vars, TypeInv, TypeOK, PoolTypeOK, CreatorKnown
<1> QED
  BY <1>1, <1>2, <1>3, <1>4, <1>5, <1>6, <1>7, <1>8, <1>9, <1>10, <1>11, <1>12
     DEF Next, Receive, Execute, CallJoinOrLeave

\* The state of the group service is typed, always.
THEOREM GroupTypeCorrect == Spec => []TypeOK
<1>1. TypeInv => TypeOK
  BY DEF TypeInv
<1> QED
  BY <1>1, TypeInit, TypeKept, PTL DEF Spec

-----------------------------------------------------------------------------
(* The connections.                                                        *)

\* A pool that was not filled has opened nothing, and db_for_id is taken by
\* NewId only.
PoolInv ==
  /\ PoolIntact
  /\ ~initialized => all = {}
  /\ \A w \in Workers :
        worker[w].step \in {"idle", "insert", "newid", "query"} => worker[w].forId = None

\* The connections of a call.
HeldIn(r) == {r.conn, r.forId} \ {None}

\* One worker exchanges connections with the pool: what both have together
\* stays the same, and is the pool's or the worker's.
LEMMA OneExchanges ==
  ASSUME TypeOK, PoolIntact, NEW w \in Workers, NEW r,
         worker' = [worker EXCEPT ![w] = r],
         all' = all,
         IsInjective(free'),
         Range(free') \cap HeldIn(r) = {},
         Range(free') \cup HeldIn(r) = Range(free) \cup HeldIn(worker[w]),
         r.conn # None => r.conn # r.forId
  PROVE  PoolIntact'
<1>1. worker'[w] = r /\ \A v \in Workers \ {w} : worker'[v] = worker[v]
  BY DEF TypeOK
<1>2. Holdings(w)' = HeldIn(r) /\ \A v \in Workers \ {w} : Holdings(v)' = Holdings(v)
  BY <1>1 DEF Holdings, HeldIn
<1>3. Holdings(w) = HeldIn(worker[w])
  BY DEF Holdings, HeldIn
<1>4. \A v \in Workers : Holdings(v)' \cap Range(free') = {}
  BY <1>2, <1>3 DEF PoolIntact
<1>5. \A v \in Workers : worker'[v].conn # None => worker'[v].conn # worker'[v].forId
  BY <1>1 DEF PoolIntact
<1>6. \A u, v \in Workers : u # v => Holdings(u)' \cap Holdings(v)' = {}
  BY <1>2, <1>3 DEF PoolIntact
<1>7. all' = Range(free') \cup UNION {Holdings(v)' : v \in Workers}
  <2>1. \A c : c \in all <=> c \in Range(free) \/ \E v \in Workers : c \in Holdings(v)
    BY DEF PoolIntact
  <2>2. \A c : c \in all' <=> c \in Range(free') \/ \E v \in Workers : c \in Holdings(v)'
    BY <1>2, <1>3, <2>1
  <2> QED
    BY <2>2
<1> QED
  BY <1>4, <1>5, <1>6, <1>7 DEF PoolIntact

LEMMA PoolInvInit == Init => PoolInv
<1> SUFFICES ASSUME Init PROVE PoolInv
  OBVIOUS
<1>1. free = <<>> /\ all = {}
  BY DEF Init, PoolInit
<1>2. \A w \in Workers : worker[w] = Idle
  BY DEF Init
<1>3. \A w \in Workers : Holdings(w) = {}
  BY <1>2 DEF Holdings, Idle
<1>4. IsInjective(free) /\ Range(free) = {}
  BY <1>1 DEF IsInjective, Range
<1> QED
  BY <1>1, <1>2, <1>3, <1>4 DEF PoolInv, PoolIntact, Idle

\* A worker's call goes on, with the pool as it is and the same connections.
LEMMA SameHeld ==
  ASSUME TypeOK, PoolInv, NEW w \in Workers, NEW r, Becomes(w, r),
         UNCHANGED PoolVars, r.conn = worker[w].conn, r.forId = worker[w].forId,
         r.step \in {"idle", "insert", "newid", "query"} => r.forId = None
  PROVE  PoolInv'
<1>1. worker'[w] = r /\ \A v \in Workers \ {w} : worker'[v] = worker[v]
  BY DEF TypeOK, Becomes
<1>2. PoolIntact'
  <2>1. HeldIn(r) = HeldIn(worker[w]) /\ HeldIn(r) = Holdings(w)
    BY DEF HeldIn, Holdings
  <2> QED
    BY <2>1, OneExchanges DEF PoolInv, PoolIntact, Becomes, PoolVars
<1> QED
  BY <1>1, <1>2 DEF PoolInv, PoolVars

\* The connection of a statement goes back to the pool, the other is kept.
LEMMA ConnReturned ==
  ASSUME TypeOK, PoolInv, NEW w \in Workers, NEW r, Becomes(w, r),
         worker[w].conn \in Conns, Put(<<worker[w].conn>>),
         r.conn = None, r.forId = worker[w].forId,
         r.step \in {"idle", "insert", "newid", "query"} => r.forId = None
  PROVE  PoolInv'
<1> DEFINE c == worker[w].conn
<1>1. worker'[w] = r /\ \A v \in Workers \ {w} : worker'[v] = worker[v]
  BY DEF TypeOK, Becomes
<1>2. c # None /\ c # r.forId /\ c \notin Range(free)
  BY GroupServiceAssumption DEF PoolInv, PoolIntact, Holdings
<1>3. IsInjective(free') /\ Range(free') = Range(free) \cup {c}
  BY <1>2, PutOne DEF Put, TypeOK, PoolTypeOK, PoolInv, PoolIntact
<1>4. HeldIn(worker[w]) = HeldIn(r) \cup {c} /\ c \notin HeldIn(r)
  BY <1>2 DEF HeldIn
<1>5. Range(free) \cap HeldIn(worker[w]) = {}
  BY DEF PoolInv, PoolIntact, Holdings, HeldIn
<1>6. PoolIntact'
  <2> HIDE DEF c
  <2> QED
    BY <1>3, <1>4, <1>5, OneExchanges DEF PoolInv, Becomes, Put
<1> QED
  BY <1>1, <1>6 DEF PoolInv, Put

LEMMA PoolKept ==
  ASSUME TypeInv, PoolInv, [Next]_vars
  PROVE  PoolInv'
<1>0. TypeOK
  BY DEF TypeInv
<1> USE DEF PoolVars
<1>1. ASSUME NEW w \in Workers, NEW u \in Users, CallCreateGroup(w, u)
      PROVE  PoolInv'
  <2> DEFINE r == [Idle EXCEPT !.step = "insert", !.user = u]
  <2>1. Becomes(w, r) /\ r.conn = None /\ r.forId = None
    BY <1>1 DEF CallCreateGroup, Becomes, Busy, Idle, Steps
  <2>2. worker[w].conn = None /\ worker[w].forId = None /\ UNCHANGED PoolVars
    BY <1>1 DEF CallCreateGroup, Idle
  <2> HIDE DEF r
  <2> QED
    BY <1>0, <2>1, <2>2, SameHeld
<1>2. ASSUME NEW w \in Workers, CallQuery(w) PROVE PoolInv'
  <2> DEFINE r == [Idle EXCEPT !.step = "query"]
  <2>1. Becomes(w, r) /\ r.conn = None /\ r.forId = None
    BY <1>2 DEF CallQuery, Becomes, Busy, Idle, Steps
  <2>2. worker[w].conn = None /\ worker[w].forId = None /\ UNCHANGED PoolVars
    BY <1>2 DEF CallQuery, Idle
  <2> HIDE DEF r
  <2> QED
    BY <1>0, <2>1, <2>2, SameHeld
<1>3. ASSUME NEW w \in Workers, FillPool(w) PROVE PoolInv'
  <2>1. PICK opened \in SUBSET Conns :
          initialized' = TRUE /\ all' = opened /\ free' = SetToSeq(opened)
    BY <1>3 DEF FillPool, EnsureInitialized
  <2>2. IsInjective(free') /\ Range(free') = opened
    BY <2>1, FilledOnce, FS_Subset, GroupServiceAssumption
  <2>3. \A v \in Workers : Holdings(v) = {}
    <3>1. all = {}
      BY <1>3 DEF FillPool, EnsureInitialized, PoolInv
    <3> QED
      BY <3>1 DEF PoolInv, PoolIntact
  <2>4. UNCHANGED worker
    BY <1>3 DEF FillPool
  <2>5. \A v \in Workers : Holdings(v)' = {}
    BY <2>3, <2>4 DEF Holdings
  <2>6. all' = Range(free') \cup UNION {Holdings(v)' : v \in Workers}
    BY <2>1, <2>2, <2>5
  <2> QED
    BY <2>1, <2>2, <2>4, <2>5, <2>6 DEF PoolInv, PoolIntact
<1>4. ASSUME NEW w \in Workers, Acquire(w) PROVE PoolInv'
  <2>1. PICK c \in Conns : Take(c) /\ worker' = [worker EXCEPT ![w].conn = c]
    BY <1>4 DEF Acquire
  <2> DEFINE r == [worker[w] EXCEPT !.conn = c]
  <2>2. worker[w] \in Busy /\ worker[w].conn = None
    BY <1>0, <1>4, BusyWorker DEF Acquire, Waiting
  <2>3. worker' = [worker EXCEPT ![w] = r] /\ worker'[w] = r
    BY <1>0, <2>1 DEF TypeOK
  <2>4. r.conn = c /\ r.forId = worker[w].forId /\ r.step = worker[w].step
    BY <2>2 DEF Busy
  <2> HIDE DEF r
  <2>5. /\ c \in Range(free) /\ IsInjective(free') /\ Range(free') = Range(free) \ {c}
    BY <1>0, <2>1, TakeOne DEF Take, TypeOK, PoolTypeOK, PoolInv, PoolIntact
  <2>6. c # None
    BY GroupServiceAssumption
  <2>7. HeldIn(r) = HeldIn(worker[w]) \cup {c}
    BY <2>2, <2>4, <2>6 DEF HeldIn
  <2>8. Range(free) \cap HeldIn(worker[w]) = {}
    BY DEF PoolInv, PoolIntact, Holdings, HeldIn
  <2>9. c # r.forId
    BY <2>4, <2>5, <2>6, <2>8 DEF HeldIn
  <2>10. PoolIntact'
    <3>1. /\ Range(free') \cap HeldIn(r) = {}
          /\ Range(free') \cup HeldIn(r) = Range(free) \cup HeldIn(worker[w])
      BY <2>5, <2>7, <2>8
    <3>2. all' = all
      BY <2>1 DEF Take
    <3> QED
      BY <1>0, <2>3, <2>4, <2>5, <2>9, <3>1, <3>2, OneExchanges DEF PoolInv
  <2>11. \A v \in Workers \ {w} : worker'[v] = worker[v]
    BY <1>0, <2>3 DEF TypeOK
  <2> QED
    BY <2>1, <2>3, <2>4, <2>10, <2>11 DEF Take, PoolInv
<1>5. ASSUME NEW w \in Workers, InsertGroup(w) PROVE PoolInv'
  <2>1. worker[w] \in Busy /\ worker[w].conn \in Conns /\ worker[w].forId = None
    <3>1. worker[w] \in Busy
      BY <1>0, <1>5, BusyWorker DEF InsertGroup, Ready, At
    <3> QED
      BY <1>5, <3>1 DEF InsertGroup, Ready, At, Busy, PoolInv
  <2>2. worker[w].user \in Users /\ Len(groups) + 1 \in Ids
    BY <1>5, LenProperties DEF InsertGroup, Ready, At, TypeInv, TypeOK, CreatorKnown, Ids
  <2>3. CASE /\ Put(<<worker[w].conn>>)
             /\ worker' = [worker EXCEPT ![w].step = "newid", ![w].conn = None,
                                         ![w].own = Len(groups) + 1]
    <3> DEFINE r == [worker[w] EXCEPT !.step = "newid", !.conn = None, !.own = Len(groups) + 1]
    <3>1. Becomes(w, r) /\ r.conn = None /\ r.forId = worker[w].forId
      BY <2>1, <2>2, <2>3 DEF Becomes, Busy, Steps
    <3> HIDE DEF r
    <3> QED
      BY <1>0, <2>1, <2>3, <3>1, ConnReturned
  <2>4. CASE worker' = [worker EXCEPT ![w].step = "refuse"] /\ UNCHANGED PoolVars
    <3> DEFINE r == [worker[w] EXCEPT !.step = "refuse"]
    <3>1. Becomes(w, r) /\ r.conn = worker[w].conn /\ r.forId = worker[w].forId
      BY <2>1, <2>4 DEF Becomes, Busy, Steps
    <3> HIDE DEF r
    <3> QED
      BY <1>0, <2>1, <2>4, <3>1, SameHeld
  <2> QED
    BY <1>5, <2>3, <2>4 DEF InsertGroup
<1>6. ASSUME NEW w \in Workers, NewId(w) PROVE PoolInv'
  <2>1. worker[w] \in Busy /\ worker[w].conn \in Conns /\ worker[w].forId = None
    <3>1. worker[w] \in Busy
      BY <1>0, <1>6, BusyWorker DEF NewId, Ready, At
    <3> QED
      BY <1>6, <3>1 DEF NewId, Ready, At, Busy, PoolInv
  <2> DEFINE r == [worker[w] EXCEPT !.step = "member", !.conn = None,
                     !.forId = worker[w].conn, !.id = insertId[worker[w].conn]]
  <2>2. r.conn = None /\ r.forId = worker[w].conn /\ r.step = "member"
    BY <2>1 DEF Busy
  <2>3. worker' = [worker EXCEPT ![w] = r] /\ UNCHANGED PoolVars
    BY <1>0, <1>6 DEF NewId, TypeOK
  <2> HIDE DEF r
  <2>4. HeldIn(r) = HeldIn(worker[w]) /\ HeldIn(r) = Holdings(w)
    BY <2>1, <2>2 DEF HeldIn, Holdings
  <2>5. PoolIntact'
    BY <1>0, <2>2, <2>3, <2>4, OneExchanges DEF PoolInv, PoolIntact
  <2>6. worker'[w] = r /\ \A v \in Workers \ {w} : worker'[v] = worker[v]
    BY <1>0, <2>3 DEF TypeOK
  <2> QED
    BY <2>2, <2>3, <2>5, <2>6 DEF PoolInv
<1>7. ASSUME NEW w \in Workers, InsertMember(w) PROVE PoolInv'
  <2>1. worker[w] \in Busy /\ worker[w].conn \in Conns
    <3>1. worker[w] \in Busy
      BY <1>0, <1>7, BusyWorker DEF InsertMember, Ready, At
    <3> QED
      BY <1>7, <3>1 DEF InsertMember, Ready, Busy
  <2>2. CASE /\ Put(<<worker[w].conn>>)
             /\ worker' = [worker EXCEPT ![w].step = "accept", ![w].conn = None]
    <3> DEFINE r == [worker[w] EXCEPT !.step = "accept", !.conn = None]
    <3>1. Becomes(w, r) /\ r.conn = None /\ r.forId = worker[w].forId /\ r.step = "accept"
      BY <2>1, <2>2 DEF Becomes, Busy, Steps
    <3> HIDE DEF r
    <3> QED
      BY <1>0, <2>1, <2>2, <3>1, ConnReturned
  <2>3. CASE worker' = [worker EXCEPT ![w].step = "refuse"] /\ UNCHANGED PoolVars
    <3> DEFINE r == [worker[w] EXCEPT !.step = "refuse"]
    <3>1. /\ Becomes(w, r) /\ r.conn = worker[w].conn /\ r.forId = worker[w].forId
          /\ r.step = "refuse"
      BY <2>1, <2>3 DEF Becomes, Busy, Steps
    <3> HIDE DEF r
    <3> QED
      BY <1>0, <2>3, <3>1, SameHeld
  <2> QED
    BY <1>7, <2>2, <2>3 DEF InsertMember
<1>8. ASSUME NEW w \in Workers, Query(w) PROVE PoolInv'
  <2> DEFINE r == [worker[w] EXCEPT !.step = "accept"]
  <2>1. worker[w] \in Busy
    BY <1>0, <1>8, BusyWorker DEF Query, Ready, At
  <2>2. Becomes(w, r) /\ r.conn = worker[w].conn /\ r.forId = worker[w].forId /\ r.step = "accept"
    BY <1>8, <2>1 DEF Query, Becomes, Busy, Steps
  <2> HIDE DEF r
  <2> QED
    BY <1>0, <1>8, <2>2, SameHeld DEF Query
<1>9. ASSUME NEW w \in Workers, Return(w) PROVE PoolInv'
  <2> DEFINE c == worker[w].conn
             d == worker[w].forId
  <2>1. c \in Conns \cup {None} /\ d \in Conns \cup {None} /\ free \in Seq(Conns)
    BY <1>0, <1>9, BusyWorker DEF Return, Busy, TypeOK, PoolTypeOK
  <2>2. /\ IsInjective(free)
        /\ c # None => c # d /\ c \notin Range(free)
        /\ d # None => d \notin Range(free)
    BY DEF PoolInv, PoolIntact, Holdings
  <2>3. /\ free' = free \o (Held(c) \o Held(d))
        /\ worker' = [worker EXCEPT ![w] = Idle]
        /\ UNCHANGED <<initialized, all>>
    BY <1>9 DEF Return, Put
  <2>4. Held(c) \in Seq(Conns) /\ Held(d) \in Seq(Conns)
    BY <2>1 DEF Held
  <2>5. HeldIn(worker[w]) = {c, d} \ {None}
    BY DEF HeldIn
  <2> HIDE DEF c, d
  <2> DEFINE q == free \o Held(c)
  <2>6. free' = q \o Held(d)
    <3>1. (free \o Held(c)) \o Held(d) = free \o (Held(c) \o Held(d))
      <4> DEFINE x == Held(c)
                 y == Held(d)
      <4>1. x \in Seq(Conns) /\ y \in Seq(Conns) /\ free \in Seq(Conns)
        BY <2>1, <2>4
      <4> HIDE DEF x, y
      <4>2. (free \o x) \o y = free \o (x \o y)
        BY <4>1, ConcatAssociative
      <4> QED
        BY <4>2 DEF x, y
    <3> QED
      BY <2>3, <3>1
  <2>7. q \in Seq(Conns) /\ IsInjective(q) /\ Range(q) = Range(free) \cup ({c} \ {None})
    <3>1. CASE c = None
      BY <2>1, <2>2, <3>1, ConcatEmptySeq DEF Held
    <3>2. CASE c # None
      BY <2>1, <2>2, <3>2, PutOne DEF Held
    <3> QED
      BY <3>1, <3>2
  <2> HIDE DEF q
  <2>8. IsInjective(free') /\ Range(free') = Range(q) \cup ({d} \ {None})
    <3>1. CASE d = None
      BY <2>6, <2>7, <3>1, ConcatEmptySeq DEF Held
    <3>2. CASE d # None
      <4>1. d \notin Range(q)
        BY <2>2, <2>7, <3>2
      <4> QED
        BY <2>1, <2>6, <2>7, <3>2, <4>1, PutOne DEF Held
    <3> QED
      BY <3>1, <3>2
  <2>9. HeldIn(Idle) = {} /\ Idle.conn = None /\ Idle.forId = None
    BY DEF HeldIn, Idle
  <2>10. PoolIntact'
    BY <1>0, <2>3, <2>5, <2>7, <2>8, <2>9, OneExchanges DEF PoolInv
  <2>11. worker'[w] = Idle /\ \A v \in Workers \ {w} : worker'[v] = worker[v]
    BY <1>0, <2>3 DEF TypeOK
  <2> QED
    BY <2>3, <2>9, <2>10, <2>11 DEF PoolInv
<1>10. CASE End
  <2>1. free' = <<>> /\ all' = {} /\ worker' = [w \in Workers |-> Idle]
    BY <1>10 DEF End
  <2>2. \A w \in Workers : Holdings(w)' = {}
    BY <2>1 DEF Holdings, Idle
  <2>3. IsInjective(free') /\ Range(free') = {}
    BY <2>1 DEF IsInjective, Range
  <2> QED
    BY <2>1, <2>2, <2>3 DEF PoolInv, PoolIntact, Idle
<1>11. CASE UNCHANGED <<PoolVars, worker>>
  <2>1. \A w \in Workers : Holdings(w)' = Holdings(w)
    BY <1>11 DEF Holdings
  <2>2. all' = Range(free') \cup UNION {Holdings(w)' : w \in Workers}
    <3>1. {Holdings(w)' : w \in Workers} = {Holdings(w) : w \in Workers}
      BY <2>1
    <3>2. all = Range(free) \cup UNION {Holdings(w) : w \in Workers}
      BY DEF PoolInv, PoolIntact
    <3>3. free' = free /\ all' = all
      BY <1>11
    <3> QED
      BY <3>1, <3>2, <3>3
  <2>3. PoolIntact'
    <3>1. \A v, w \in Workers : v # w => Holdings(v)' \cap Holdings(w)' = {}
      BY <2>1 DEF PoolInv, PoolIntact
    <3>2. /\ IsInjective(free')
          /\ \A w \in Workers : Holdings(w)' \cap Range(free') = {}
          /\ \A w \in Workers : worker'[w].conn # None => worker'[w].conn # worker'[w].forId
      BY <1>11, <2>1 DEF PoolInv, PoolIntact
    <3> QED
      BY <2>2, <3>1, <3>2 DEF PoolIntact
  <2> QED
    BY <1>11, <2>3 DEF PoolInv
<1> QED
  BY <1>1, <1>2, <1>3, <1>4, <1>5, <1>6, <1>7, <1>8, <1>9, <1>10, <1>11
     DEF Next, Receive, Execute, CallJoinOrLeave, Start, vars

\* No connection is lost and none is used by two calls at once.
THEOREM PoolKeptIntact == Spec => []PoolIntact
<1>1. PoolInv => PoolIntact
  BY DEF PoolInv
<1> QED
  BY <1>1, TypeInit, TypeKept, PoolInvInit, PoolKept, PTL DEF Spec
=============================================================================
