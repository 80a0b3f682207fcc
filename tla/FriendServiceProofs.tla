------------------------ MODULE FriendServiceProofs ------------------------
(***************************************************************************)
(* Friendships and their cached lists, for any users, workers and failures:*)
(* what an undisturbed friendship looks like in the table, and when a list *)
(* in Redis is what the table says.                                        *)
(***************************************************************************)
EXTENDS FriendService, TLAPS

USE DEF Ids

-----------------------------------------------------------------------------
(* Types.                                                                  *)

\* Which calls have which steps, and who is known to have a row by then.
WellFormed(r) ==
  /\ r \in Busy \cup {Idle}
  /\ r.step \in {"check", "target"} => r.op = "add"
  /\ r.step \in {"first", "second", "touch1", "touch2", "del1", "del2"} =>
        r.op \in {"add", "remove"} /\ r.friend \in Ids
  /\ r.step \in {"get", "select", "fill"} => r.op = "list"

TypeInv == TypeOK /\ \A w \in Workers : WellFormed(worker[w])

\* What a call is at each of its steps.
LEMMA StepFields ==
  ASSUME TypeInv, NEW w \in Workers
  PROVE  /\ worker[w] \in Busy \cup {Idle}
         /\ worker[w].step # "idle" => worker[w] \in Busy /\ worker[w].user \in Users
         /\ worker[w].step = "idle" <=> worker[w] = Idle
         /\ worker[w].step \in {"check", "target"} => worker[w].op = "add"
         /\ worker[w].step \in {"first", "second", "touch1", "touch2", "del1", "del2"} =>
               worker[w].op \in {"add", "remove"} /\ worker[w].friend \in Ids
         /\ worker[w].step \in {"get", "select", "fill"} => worker[w].op = "list"
<1>1. worker[w] \in Busy \cup {Idle}
  BY DEF TypeInv, TypeOK
<1>2. worker[w] \in Busy => worker[w].step # "idle"
  BY DEF Busy, Steps, DbSteps, CacheSteps
<1>3. worker[w] \in Busy => worker[w].user \in Users
  BY DEF Busy
<1>4. Idle.step = "idle"
  BY DEF Idle
<1>5. WellFormed(worker[w])
  BY DEF TypeInv
<1> QED
  BY <1>1, <1>2, <1>3, <1>4, <1>5 DEF WellFormed

\* A call that goes on is the same call.
LEMMA MovedFields ==
  ASSUME TypeInv, NEW w \in Workers, NEW step \in Steps \cup {"end"},
         worker[w].step # "idle"
  PROVE  /\ step = "end" => Moved(w, step) = Idle
         /\ step # "end" =>
              /\ Moved(w, step) \in Busy
              /\ Moved(w, step).step = step
              /\ Moved(w, step).op = worker[w].op
              /\ Moved(w, step).user = worker[w].user
              /\ Moved(w, step).friend = worker[w].friend
              /\ Moved(w, step).late = worker[w].late
<1>1. worker[w] \in Busy
  BY StepFields
<1> QED
  BY <1>1 DEF Moved, Busy

\* The first state is typed.
LEMMA TypeInit == Init => TypeInv
<1> SUFFICES ASSUME Init PROVE TypeInv
  OBVIOUS
<1>1. \A w \in Workers : WellFormed(worker[w]) /\ worker[w] \in Busy \cup {Idle}
  BY DEF Init, WellFormed, Idle
<1>2. /\ rows \subseteq Ids \X Ids /\ cache \in [Users -> Entries]
      /\ worker \in [Workers -> Busy \cup {Idle}]
  BY <1>1 DEF Init, Entries
<1>3. /\ redis \in {"open", "broken", "none"} /\ {changes, failures} \subseteq Nat
      /\ disturbed \subseteq Pairs /\ left \subseteq Users
  BY DEF Init
<1> QED
  BY <1>1, <1>2, <1>3 DEF TypeInv, TypeOK

-----------------------------------------------------------------------------
(* What the steps do to the workers.                                       *)

OthersStay(w) == \A v \in Workers \ {w} : worker'[v] = worker[v]

\* The same call, which may now be late.
Same(r, s) ==
  /\ r.op = s.op /\ r.step = s.step /\ r.user = s.user
  /\ r.friend = s.friend /\ r.res = s.res

\* A step that moves one worker, and leaves the others.
LEMMA GotoEffect ==
  ASSUME TypeInv, NEW w \in Workers, NEW step, Goto(w, step)
  PROVE  worker'[w] = Moved(w, step) /\ OthersStay(w) /\ DOMAIN worker' = Workers
         /\ worker' = [worker EXCEPT ![w] = Moved(w, step)]
BY DEF Goto, TypeInv, TypeOK, OthersStay

\* A new AddFriend or RemoveFriend, and the changes of the same pair it meets.
LEMMA CallChangeEffect ==
  ASSUME TypeInv, NEW w \in Workers, NEW op \in {"add", "remove"},
         NEW step \in {"check", "first"}, NEW u \in Users, NEW f \in Ids,
         CallChange(w, op, step, u, f)
  PROVE  /\ worker[w] = Idle
         /\ worker'[w] \in Busy
         /\ worker'[w].op = op /\ worker'[w].step = step
         /\ worker'[w].user = u /\ worker'[w].friend = f
         /\ worker'[w].late <=> \E v \in Workers : IsChange(v) /\ MyPair(v) = Pair(u, f)
         /\ \A v \in Workers \ {w} :
               IF IsChange(v) /\ MyPair(v) = Pair(u, f)
               THEN worker'[v] \in Busy /\ Same(worker'[v], worker[v]) /\ worker'[v].late
               ELSE worker'[v] = worker[v]
         /\ DOMAIN worker' = Workers /\ worker' \in [Workers -> Busy \cup {Idle}]
<1> DEFINE rivals == {v \in Workers : IsChange(v) /\ MyPair(v) = Pair(u, f)}
           r == NewCall(op, step, u, f, rivals # {})
<1>1. worker[w] = Idle /\ w \notin rivals
  BY DEF CallChange, IsChange, Idle
<1>2. /\ worker' = [v \in Workers |->
           CASE v = w -> r
             [] v \in rivals -> [worker[v] EXCEPT !.late = TRUE]
             [] OTHER -> worker[v]]
  BY DEF CallChange
<1>3. /\ r \in Busy /\ r.op = op /\ r.step = step /\ r.user = u /\ r.friend = f
      /\ r.late <=> rivals # {}
  BY DEF NewCall, Busy, Steps, DbSteps
<1> HIDE DEF r
<1>4. \A v \in rivals : worker[v] \in Busy
  BY StepFields DEF IsChange, Idle
<1>5. \A v \in rivals : /\ [worker[v] EXCEPT !.late = TRUE] \in Busy
                        /\ Same([worker[v] EXCEPT !.late = TRUE], worker[v])
                        /\ [worker[v] EXCEPT !.late = TRUE].late
  BY <1>4 DEF Busy, Same
<1>6. rivals # {} <=> \E v \in Workers : IsChange(v) /\ MyPair(v) = Pair(u, f)
  OBVIOUS
<1>7. worker'[w] = r /\ DOMAIN worker' = Workers
  BY <1>1, <1>2
<1>8. \A v \in Workers \ {w} :
        worker'[v] = IF v \in rivals THEN [worker[v] EXCEPT !.late = TRUE] ELSE worker[v]
  BY <1>2
<1>9. worker' \in [Workers -> Busy \cup {Idle}]
  <2>1. \A v \in Workers : worker'[v] \in Busy \cup {Idle}
    BY <1>3, <1>5, <1>7, <1>8, StepFields
  <2> HIDE DEF rivals
  <2> QED
    BY <1>2, <2>1
<1>10. \A v \in Workers \ {w} :
         IF IsChange(v) /\ MyPair(v) = Pair(u, f)
         THEN worker'[v] \in Busy /\ Same(worker'[v], worker[v]) /\ worker'[v].late
         ELSE worker'[v] = worker[v]
  BY <1>5, <1>8
<1> HIDE DEF rivals
<1> QED
  BY <1>1, <1>3, <1>6, <1>7, <1>9, <1>10

\* A statement that changes a row of x makes what was read for x late.
Outdates(w, x, r) == worker' = [Outdating(x) EXCEPT ![w] = r]

LEMMA OutdatingEffect ==
  ASSUME TypeInv, NEW w \in Workers, NEW x, NEW r, Outdates(w, x, r)
  PROVE  /\ worker'[w] = r
         /\ DOMAIN worker' = Workers
         /\ \A v \in Workers \ {w} :
               IF At(v, "fill") /\ worker[v].user = x
               THEN worker'[v] \in Busy /\ Same(worker'[v], worker[v]) /\ worker'[v].late
               ELSE worker'[v] = worker[v]
<1>1. \A v \in Workers : At(v, "fill") => worker[v] \in Busy
  BY StepFields DEF At
<1>2. \A v \in Workers : At(v, "fill") =>
         /\ [worker[v] EXCEPT !.late = TRUE] \in Busy
         /\ Same([worker[v] EXCEPT !.late = TRUE], worker[v])
         /\ [worker[v] EXCEPT !.late = TRUE].late
  BY <1>1 DEF Busy, Same
<1>3. DOMAIN worker' = Workers /\ worker'[w] = r
  BY DEF Outdating, Outdates
<1>4. \A v \in Workers \ {w} : worker'[v] = Outdating(x)[v]
  BY DEF Outdating, Outdates
<1>5. \A v \in Workers : Outdating(x)[v] =
        IF At(v, "fill") /\ worker[v].user = x THEN [worker[v] EXCEPT !.late = TRUE]
                                               ELSE worker[v]
  BY DEF Outdating
<1>6. \A v \in Workers \ {w} :
        worker'[v] = IF At(v, "fill") /\ worker[v].user = x
                     THEN [worker[v] EXCEPT !.late = TRUE] ELSE worker[v]
  BY <1>4, <1>5
<1> QED
  BY <1>2, <1>3, <1>6

-----------------------------------------------------------------------------
(* Every step keeps the types.                                             *)

WorkersTyped ==
  /\ worker \in [Workers -> Busy \cup {Idle}]
  /\ \A w \in Workers : WellFormed(worker[w])

\* A call moves to a step that calls of its kind have.
LEMMA GotoTyped ==
  ASSUME TypeInv, NEW w \in Workers, NEW step \in Steps \cup {"end"}, Goto(w, step),
         worker[w].step # "idle",
         step \in {"check", "target"} => worker[w].op = "add",
         step \in {"first", "second", "touch1", "touch2", "del1", "del2"} =>
            worker[w].op \in {"add", "remove"} /\ worker[w].friend \in Ids,
         step \in {"get", "select", "fill"} => worker[w].op = "list"
  PROVE  WorkersTyped'
<1>1. WellFormed(Moved(w, step))
  <2>1. CASE step = "end"
    BY <2>1, MovedFields DEF WellFormed, Idle
  <2>2. CASE step # "end"
    BY <2>2, MovedFields DEF WellFormed
  <2> QED
    BY <2>1, <2>2
<1>2. worker' = [worker EXCEPT ![w] = Moved(w, step)]
  BY DEF Goto
<1> HIDE DEF Moved
<1>3. worker' \in [Workers -> Busy \cup {Idle}]
  BY <1>1, <1>2 DEF TypeInv, TypeOK, WellFormed
<1>4. \A v \in Workers : WellFormed(worker'[v])
  BY <1>1, <1>2 DEF TypeInv, TypeOK
<1> QED
  BY <1>3, <1>4 DEF WorkersTyped

\* The statements of a change are about two users.
LEMMA RowTyped ==
  ASSUME TypeInv, NEW w \in Workers, At(w, "first") \/ At(w, "second")
  PROVE  /\ worker[w] \in Busy
         /\ worker[w].user \in Users /\ worker[w].friend \in Ids
         /\ worker[w].op \in {"add", "remove"}
         /\ Row(w) \in Ids \X Ids /\ Row(w)[1] \in MyPair(w)
         /\ MyPair(w) \in Pairs /\ MyPair(w) \subseteq Ids
<1>1. /\ worker[w] \in Busy /\ worker[w].user \in Users /\ worker[w].friend \in Ids
      /\ worker[w].op \in {"add", "remove"}
  BY StepFields DEF At
<1>2. MyPair(w) \in Pairs /\ MyPair(w) \subseteq Ids
  BY <1>1 DEF MyPair, Pair, Pairs
<1> QED
  BY <1>1, <1>2 DEF Row, MyPair, Pair

\* A row is about two ids.
LEMMA ChangeRowTyped ==
  ASSUME TypeInv, NEW w \in Workers, At(w, "first") \/ At(w, "second"), ChangeRow(w)
  PROVE  rows' \subseteq Ids \X Ids
<1>1. Row(w) \in Ids \X Ids /\ rows \subseteq Ids \X Ids
  BY RowTyped DEF TypeInv, TypeOK
<1> QED
  BY <1>1 DEF ChangeRow

\* What the history names are users.
LEMMA LeaveTyped ==
  ASSUME TypeInv, NEW S
  PROVE  Leave(S) \subseteq Users
BY DEF TypeInv, TypeOK, Leave

LEMMA UnsettledTyped == \A w \in Workers : Unsettled(w) \subseteq Users
BY DEF Unsettled

\* Where a statement leads.
LEMMA AfterRowsTyped ==
  ASSUME NEW w \in Workers
  PROVE  AfterRows(w) \in {"second", "touch1", "end"}
BY DEF AfterRows

\* The statement of a change moves its call on, or ends it.
LEMMA OutdatingTyped ==
  ASSUME TypeInv, NEW w \in Workers, NEW x, NEW r, Outdates(w, x, r), WellFormed(r)
  PROVE  WorkersTyped'
<1>1. /\ worker'[w] = r /\ DOMAIN worker' = Workers
      /\ \A v \in Workers \ {w} :
               IF At(v, "fill") /\ worker[v].user = x
               THEN worker'[v] \in Busy /\ Same(worker'[v], worker[v]) /\ worker'[v].late
               ELSE worker'[v] = worker[v]
  BY OutdatingEffect
<1>2. \A v \in Workers : WellFormed(worker'[v])
  <2> SUFFICES ASSUME NEW v \in Workers PROVE WellFormed(worker'[v])
    OBVIOUS
  <2>1. CASE v = w
    BY <1>1, <2>1
  <2>2. CASE v # w /\ worker'[v] = worker[v]
    BY <2>2 DEF TypeInv
  <2>3. CASE v # w /\ worker'[v] \in Busy /\ Same(worker'[v], worker[v])
    BY <2>3 DEF Same, TypeInv, WellFormed
  <2> QED
    BY <1>1, <2>1, <2>2, <2>3
<1>3. worker' \in [Workers -> Busy \cup {Idle}]
  <2>1. \A v \in Workers : worker'[v] \in Busy \cup {Idle}
    BY <1>2 DEF WellFormed
  <2>2. worker' = [v \in Workers |-> worker'[v]]
    BY DEF Outdating, Outdates
  <2> QED
    BY <2>1, <2>2
<1> QED
  BY <1>2, <1>3 DEF WorkersTyped

\* The statements of a change keep the types.
LEMMA StatementTyped ==
  ASSUME TypeInv, NEW w \in Workers, Statement(w)
  PROVE  TypeInv'
<1>1. At(w, "first") \/ At(w, "second")
  BY DEF Statement
<1>2. /\ worker[w] \in Busy /\ worker[w].step # "idle"
      /\ worker[w].user \in Users /\ worker[w].friend \in Ids
      /\ worker[w].op \in {"add", "remove"} /\ Row(w)[1] \in Ids
      /\ MyPair(w) \in Pairs /\ MyPair(w) \subseteq Ids
  BY <1>1, RowTyped DEF At
<1>3. AfterRows(w) \in Steps \cup {"end"} /\ AfterRows(w) \in {"second", "touch1", "end"}
  BY AfterRowsTyped DEF Steps, DbSteps, CacheSteps
<1>4. WellFormed(Moved(w, AfterRows(w)))
  <2>1. CASE AfterRows(w) = "end"
    BY <1>2, <2>1, MovedFields DEF WellFormed, Idle, Steps
  <2>2. CASE AfterRows(w) # "end"
    BY <1>2, <1>3, <2>2, MovedFields DEF WellFormed
  <2> QED
    BY <2>1, <2>2
<1>5. disturbed \subseteq Pairs /\ left \subseteq Users /\ failures \in Nat
  BY DEF TypeInv, TypeOK
<1>6. /\ Leave(MyPair(w)) \subseteq Users /\ Leave(Unsettled(w)) \subseteq Users
      /\ Leave(Unsettled(w) \cup {Row(w)[1]}) \subseteq Users
  BY <1>2, LeaveTyped, UnsettledTyped
<1> DEFINE Rest == /\ rows' \subseteq Ids \X Ids /\ disturbed' \subseteq Pairs
                   /\ left' \subseteq Users /\ failures' \in Nat /\ WorkersTyped'
<1> SUFFICES Rest
  BY DEF Statement, WorkersTyped, TypeInv, TypeOK
<1>7. CASE Executed(w)
  <2>1. rows' \subseteq Ids \X Ids
    BY <1>1, <1>7, ChangeRowTyped DEF Executed
  <2>2. WorkersTyped'
    BY <1>4, <1>7, OutdatingTyped DEF Executed, Outdates
  <2> QED
    BY <1>2, <1>5, <1>6, <1>7, <2>1, <2>2 DEF Executed
<1>8. CASE StatementFails(w)
  <2>1. WorkersTyped'
    BY <1>2, <1>8, GotoTyped DEF StatementFails
  <2>2. rows' \subseteq Ids \X Ids
    BY <1>8 DEF StatementFails, TypeInv, TypeOK
  <2> QED
    BY <1>2, <1>5, <1>6, <1>8, <2>1, <2>2 DEF StatementFails, Fails
<1>9. CASE Crossed(w)
  <2>1. disturbed' \subseteq Pairs /\ failures' \in Nat
    BY <1>2, <1>5, <1>9 DEF Crossed
  <2>2. CASE /\ ChangeRow(w)
             /\ worker' = [Outdating(Row(w)[1]) EXCEPT ![w] = Idle]
             /\ left' = Leave(Unsettled(w) \cup {Row(w)[1]})
    <3>1. rows' \subseteq Ids \X Ids
      BY <1>1, <2>2, ChangeRowTyped
    <3>2. WorkersTyped'
      BY <2>2, OutdatingTyped DEF WellFormed, Idle, Outdates
    <3> QED
      BY <1>6, <2>1, <2>2, <3>1, <3>2
  <2>3. CASE /\ IF AfterRows(w) = "end" THEN Goto(w, "end")
                ELSE worker' = [worker EXCEPT ![w].step = AfterRows(w), ![w].late = TRUE]
             /\ left' = IF At(w, "second") /\ redis = "none" THEN Leave(MyPair(w)) ELSE left
             /\ UNCHANGED rows
    <3>1. WorkersTyped'
      <4>1. CASE AfterRows(w) = "end"
        BY <1>2, <2>3, <4>1, GotoTyped
      <4>2. CASE AfterRows(w) # "end"
        <5> DEFINE r == [worker[w] EXCEPT !.step = AfterRows(w), !.late = TRUE]
        <5>1. r \in Busy /\ r.step = AfterRows(w) /\ r.op = worker[w].op /\ r.friend = worker[w].friend
          BY <1>2, <1>3, <4>2 DEF Busy
        <5>2. worker' = [worker EXCEPT ![w] = r]
          BY <2>3, <4>2 DEF TypeInv, TypeOK
        <5> HIDE DEF r
        <5>3. WellFormed(r)
          BY <1>2, <1>3, <4>2, <5>1 DEF WellFormed
        <5> QED
          BY <5>1, <5>2, <5>3 DEF WorkersTyped, TypeInv, TypeOK
      <4> QED
        BY <4>1, <4>2
    <3>2. rows' \subseteq Ids \X Ids
      BY <2>3 DEF TypeInv, TypeOK
    <3> QED
      BY <1>5, <1>6, <2>1, <2>3, <3>1, <3>2
  <2> QED
    BY <1>9, <2>2, <2>3 DEF Crossed
<1> HIDE DEF Rest
<1> QED
  BY <1>7, <1>8, <1>9 DEF Statement

\* Every step keeps the types.
LEMMA TypeKept ==
  ASSUME TypeInv, [Next]_vars
  PROVE  TypeInv'
<1> DEFINE Tables == UNCHANGED <<rows, cache, redis, changes, left>>
<1>0. /\ rows \subseteq Ids \X Ids /\ cache \in [Users -> Entries]
      /\ redis \in {"open", "broken", "none"} /\ {changes, failures} \subseteq Nat
      /\ disturbed \subseteq Pairs /\ left \subseteq Users
  BY DEF TypeInv, TypeOK
<1>1. ASSUME NEW w \in Workers, NEW op \in {"add", "remove"}, NEW u \in Users,
             NEW f \in Ids,
             CallChange(w, op, IF op = "add" THEN "check" ELSE "first", u, f)
      PROVE  TypeInv'
  <2> DEFINE step == IF op = "add" THEN "check" ELSE "first"
  <2>1. step \in {"check", "first"} /\ step = "first" => op = "remove"
    OBVIOUS
  <2>2. CallChange(w, op, step, u, f) /\ step \in {"check", "first"}
    BY <1>1
  <2>3. step = "check" => op = "add"
    BY <1>1
  <2> HIDE DEF step
  <2>4. /\ worker'[w] \in Busy /\ worker'[w].op = op /\ worker'[w].step = step
        /\ worker'[w].friend = f /\ worker' \in [Workers -> Busy \cup {Idle}]
        /\ \A v \in Workers \ {w} :
             \/ worker'[v] = worker[v]
             \/ worker'[v] \in Busy /\ Same(worker'[v], worker[v])
    <3>1. \A v \in Workers \ {w} :
            IF IsChange(v) /\ MyPair(v) = Pair(u, f)
            THEN worker'[v] \in Busy /\ Same(worker'[v], worker[v]) /\ worker'[v].late
            ELSE worker'[v] = worker[v]
      BY <2>2, CallChangeEffect
    <3>2. /\ worker'[w] \in Busy /\ worker'[w].op = op /\ worker'[w].step = step
          /\ worker'[w].friend = f /\ worker' \in [Workers -> Busy \cup {Idle}]
      BY <2>2, CallChangeEffect
    <3> QED
      BY <3>1, <3>2
  <2>5. \A v \in Workers : WellFormed(worker'[v])
    <3>1. WellFormed(worker'[w])
      BY <2>2, <2>3, <2>4 DEF WellFormed
    <3>2. ASSUME NEW v \in Workers \ {w} PROVE WellFormed(worker'[v])
      <4>1. WellFormed(worker[v])
        BY DEF TypeInv
      <4> QED
        BY <2>4, <4>1 DEF Same, WellFormed
    <3> QED
      BY <3>1, <3>2
  <2>6. disturbed' \subseteq Pairs /\ changes' \in Nat
    <3>1. Pair(u, f) \in Pairs
      BY DEF Pairs
    <3>2. disturbed' \in {disturbed, disturbed \cup {Pair(u, f)}} /\ changes' = changes + 1
      BY <2>2 DEF CallChange
    <3> QED
      BY <1>0, <3>1, <3>2
  <2>7. UNCHANGED <<rows, cache, redis, failures, left>>
    BY <2>2 DEF CallChange
  <2> QED
    BY <1>0, <2>4, <2>5, <2>6, <2>7 DEF TypeInv, TypeOK
<1>2. ASSUME NEW w \in Workers, NEW u \in Users, CallGetFriends(w, u) PROVE TypeInv'
  <2> DEFINE r == NewCall("list", IF redis = "none" THEN "select" ELSE "get", u, None, FALSE)
  <2>1. worker' = [worker EXCEPT ![w] = r]
    BY <1>2 DEF CallGetFriends
  <2>2. r \in Busy /\ WellFormed(r)
    BY DEF NewCall, Busy, WellFormed, Steps, DbSteps, CacheSteps
  <2> HIDE DEF r
  <2>3. WorkersTyped'
    BY <2>1, <2>2 DEF WorkersTyped, TypeInv, TypeOK
  <2> QED
    BY <1>0, <1>2, <2>3 DEF CallGetFriends, WorkersTyped, TypeInv, TypeOK
<1>3. ASSUME NEW w \in Workers, IsFriend(w) PROVE TypeInv'
  <2>1. /\ worker[w].op = "add" /\ worker[w].step # "idle"
        /\ worker[w].user \in Users /\ worker[w].friend \in Ids
    BY <1>3, StepFields DEF IsFriend, At, Busy
  <2>2. PICK step \in {"end", "target"} : Goto(w, step)
    BY <1>3 DEF IsFriend
  <2>3. WorkersTyped'
    BY <2>1, <2>2, GotoTyped DEF Steps, DbSteps
  <2>4. disturbed' \subseteq Pairs /\ failures' \in Nat
    <3>1. MyPair(w) \in Pairs
      BY <2>1 DEF MyPair, Pairs
    <3> QED
      BY <1>0, <1>3, <3>1 DEF IsFriend, Fails
  <2>5. Tables
    BY <1>3 DEF IsFriend
  <2> QED
    BY <1>0, <2>3, <2>4, <2>5 DEF WorkersTyped, TypeInv, TypeOK
<1>4. ASSUME NEW w \in Workers, CheckTarget(w) PROVE TypeInv'
  <2>1. worker[w].op = "add" /\ worker[w].step # "idle" /\ worker[w].friend \in Ids
    BY <1>4, StepFields DEF CheckTarget, At, Busy
  <2>2. PICK step \in {"end", "first"} : Goto(w, step)
    BY <1>4 DEF CheckTarget
  <2>3. WorkersTyped'
    BY <2>1, <2>2, GotoTyped DEF Steps, DbSteps
  <2>4. failures' \in Nat
    BY <1>0, <1>4 DEF CheckTarget, Fails
  <2>5. Tables /\ UNCHANGED disturbed
    BY <1>4 DEF CheckTarget
  <2> QED
    BY <1>0, <2>3, <2>4, <2>5 DEF WorkersTyped, TypeInv, TypeOK
<1>5. ASSUME NEW w \in Workers, Statement(w) PROVE TypeInv'
  BY <1>5, StatementTyped
<1>6. ASSUME NEW w \in Workers, TouchSet(w) PROVE TypeInv'
  <2>1. /\ worker[w].op \in {"add", "remove"} /\ worker[w].step # "idle"
        /\ worker[w].user \in Users /\ worker[w].friend \in Ids
    BY <1>6, StepFields DEF TouchSet, At
  <2>2. PICK step \in {"touch2", "del1"} : Goto(w, step)
    BY <1>6 DEF TouchSet
  <2>3. WorkersTyped'
    BY <2>1, <2>2, GotoTyped DEF Steps, CacheSteps
  <2>4. \A o \in Users : \A m \in Ids : Touched(w, o, m) \in Entries
    <3> SUFFICES ASSUME NEW o \in Users, NEW m \in Ids PROVE Touched(w, o, m) \in Entries
      OBVIOUS
    <3>1. cache[o] \in Entries /\ cache[o].of \subseteq Ids
      <4>1. cache[o] \in Entries
        BY <1>0
      <4> QED
        BY <4>1 DEF Entries, NoKey
    <3> QED
      BY <3>1 DEF Touched, Entries
  <2>5. cache' \in [Users -> Entries]
    BY <1>0, <1>6, <2>1, <2>4 DEF TouchSet
  <2>6. UNCHANGED <<rows, redis, changes, failures, disturbed, left>>
    BY <1>6 DEF TouchSet
  <2> QED
    BY <1>0, <2>3, <2>5, <2>6 DEF WorkersTyped, TypeInv, TypeOK
<1>7. ASSUME NEW w \in Workers, DelFriends(w) PROVE TypeInv'
  <2>1. /\ worker[w].op \in {"add", "remove"} /\ worker[w].step # "idle"
        /\ worker[w].user \in Users /\ worker[w].friend \in Ids
    BY <1>7, StepFields DEF DelFriends, At
  <2>2. PICK step \in {"del2", "end"} : Goto(w, step)
    BY <1>7 DEF DelFriends
  <2>3. WorkersTyped'
    BY <2>1, <2>2, GotoTyped DEF Steps, CacheSteps
  <2>4. cache' \in [Users -> Entries]
    BY <1>0, <1>7, <2>1 DEF DelFriends, Entries
  <2>5. left' \subseteq Users
    BY <1>0, <1>7, <2>1, LeaveTyped DEF DelFriends
  <2>6. UNCHANGED <<rows, redis, changes, failures, disturbed>>
    BY <1>7 DEF DelFriends
  <2> QED
    BY <1>0, <2>3, <2>4, <2>5, <2>6 DEF WorkersTyped, TypeInv, TypeOK
<1>8. ASSUME NEW w \in Workers, GetCached(w) PROVE TypeInv'
  <2>1. worker[w].op = "list" /\ worker[w].step # "idle"
    BY <1>8, StepFields DEF GetCached, At
  <2>2. PICK step \in {"end", "select"} : Goto(w, step)
    BY <1>8 DEF GetCached
  <2>3. WorkersTyped'
    BY <2>1, <2>2, GotoTyped DEF Steps, DbSteps
  <2> QED
    BY <1>0, <1>8, <2>3 DEF GetCached, WorkersTyped, TypeInv, TypeOK
<1>9. ASSUME NEW w \in Workers, SelectFriends(w) PROVE TypeInv'
  <2>1. worker[w].op = "list" /\ worker[w].step # "idle" /\ worker[w] \in Busy
    BY <1>9, StepFields DEF SelectFriends, At
  <2>2. WorkersTyped'
    <3>1. CASE Goto(w, "end")
      BY <2>1, <3>1, GotoTyped
    <3>2. ASSUME NEW res \in SUBSET Ids,
                 worker' = [worker EXCEPT ![w].step = "fill", ![w].res = res,
                               ![w].late = (res # Friends(worker[w].user))]
          PROVE  WorkersTyped'
      <4> DEFINE r == [worker[w] EXCEPT !.step = "fill", !.res = res,
                         !.late = (res # Friends(worker[w].user))]
      <4>1. r \in Busy /\ WellFormed(r)
        BY <2>1 DEF Busy, WellFormed, Steps, CacheSteps
      <4>2. worker' = [worker EXCEPT ![w] = r]
        BY <3>2 DEF TypeInv, TypeOK
      <4> HIDE DEF r
      <4> QED
        BY <4>1, <4>2 DEF WorkersTyped, TypeInv, TypeOK
    <3>3. Results(w, worker[w].user) \subseteq SUBSET Ids
      BY DEF Results, Friends
    <3>4. \/ \E res \in SUBSET Ids :
                IF redis = "none" \/ res = {} THEN Goto(w, "end")
                ELSE worker' = [worker EXCEPT ![w].step = "fill", ![w].res = res,
                                  ![w].late = (res # Friends(worker[w].user))]
          \/ Goto(w, "end")
      BY <1>9, <3>3 DEF SelectFriends
    <3> QED
      BY <3>1, <3>2, <3>4
  <2>3. failures' \in Nat
    <3>1. failures' = failures \/ failures' = failures + 1
      BY <1>9, Zenon DEF SelectFriends, Fails
    <3> QED
      BY <1>0, <3>1
  <2> QED
    BY <1>0, <1>9, <2>2, <2>3 DEF SelectFriends, WorkersTyped, TypeInv, TypeOK
<1>10. ASSUME NEW w \in Workers, SetFriends(w) PROVE TypeInv'
  <2>1. /\ worker[w].op = "list" /\ worker[w].step # "idle" /\ worker[w] \in Busy
        /\ worker[w].user \in Users
    BY <1>10, StepFields DEF SetFriends, At
  <2>2. WorkersTyped'
    BY <1>10, <2>1, GotoTyped DEF SetFriends
  <2>3. cache' \in [Users -> Entries] /\ left' \subseteq Users
    <3>1. [kind |-> "list", of |-> worker[w].res] \in Entries
      BY <2>1 DEF Busy, Entries
    <3> QED
      BY <1>0, <1>10, <2>1, <3>1 DEF SetFriends
  <2> QED
    BY <1>0, <1>10, <2>2, <2>3 DEF SetFriends, WorkersTyped, TypeInv, TypeOK
<1>11. ASSUME NEW u \in Users, Expire(u) PROVE TypeInv'
  <2>1. cache' \in [Users -> Entries] /\ left' \subseteq Users
    BY <1>0, <1>11 DEF Expire, Entries
  <2> QED
    BY <1>0, <1>11, <2>1 DEF Expire, TypeInv, TypeOK
<1>12. CASE Outage
  BY <1>0, <1>12 DEF Outage, Fails, TypeInv, TypeOK
<1>13. CASE Restart
  <2>1. WorkersTyped'
    BY <1>13 DEF Restart, WorkersTyped, WellFormed, Idle
  <2>2. disturbed' \subseteq Pairs
    BY <1>0, <1>13, RowTyped DEF Restart
  <2>3. left' \subseteq Users
    <3>1. UNION {Unsettled(w) : w \in Workers} \subseteq Users
      BY UnsettledTyped
    <3> QED
      BY <1>13, <3>1, LeaveTyped DEF Restart
  <2>4. failures' \in Nat /\ redis' \in {"open", "broken", "none"}
    BY <1>0, <1>13 DEF Restart, Fails
  <2> QED
    BY <1>0, <1>13, <2>1, <2>2, <2>3, <2>4 DEF Restart, WorkersTyped, TypeInv, TypeOK
<1>14. CASE UNCHANGED vars
  BY <1>14 DEF vars, TypeInv, TypeOK
<1>15. ASSUME NEW w \in Workers, NEW u \in Users, NEW f \in Ids,
              CallAddFriend(w, u, f)
       PROVE  TypeInv'
  BY <1>1, <1>15 DEF CallAddFriend
<1>16. ASSUME NEW w \in Workers, NEW u \in Users, NEW f \in Ids, CallRemoveFriend(w, u, f)
       PROVE  TypeInv'
  BY <1>1, <1>16 DEF CallRemoveFriend
<1> QED
  BY <1>2, <1>3, <1>4, <1>5, <1>6, <1>7, <1>8, <1>9, <1>10, <1>11, <1>12, <1>13, <1>14,
     <1>15, <1>16 DEF Next, Receive, Execute

\* The state of the friends' part of the user service is typed, always.
THEOREM FriendTypeCorrect == Spec => []TypeOK
<1>1. TypeInv => TypeOK
  BY DEF TypeInv
<1> QED
  BY <1>1, TypeInit, TypeKept, PTL DEF Spec

-----------------------------------------------------------------------------
(* Friendships.                                                            *)

\* The row the first statement of a call is about, and that of the second.
Own(w) == <<worker[w].user, worker[w].friend>>
Other(w) == <<worker[w].friend, worker[w].user>>

\* Two changes of one pair know that they are not alone.
RivalsLate ==
  \A v, w \in Workers :
     (v # w /\ IsChange(v) /\ IsChange(w) /\ MyPair(v) = MyPair(w)) => worker[v].late

\* The pair of a change that is not alone is disturbed, and remains so.
LateDisturbed ==
  \A w \in Workers :
     (IsChange(w) /\ worker[w].late /\ worker[w].friend \in Ids) => MyPair(w) \in disturbed

\* A RemoveFriend that is alone has deleted its first row, whatever went before.
HalfRemoved ==
  \A w \in Workers :
     (At(w, "second") /\ worker[w].op = "remove" /\ ~worker[w].late) => Own(w) \notin rows

\* An undisturbed AddFriend starts from no row, and has then inserted one.
AddChecked ==
  \A w \in Workers :
     (/\ worker[w].op = "add" /\ worker[w].step \in {"target", "first"}
      /\ worker[w].friend \in Ids /\ MyPair(w) \notin disturbed) => Own(w) \notin rows

HalfAdded ==
  \A w \in Workers :
     (/\ At(w, "second") /\ worker[w].op = "add"
      /\ worker[w].user # worker[w].friend /\ MyPair(w) \notin disturbed)
     => Own(w) \in rows /\ Other(w) \notin rows

PairInv ==
  RivalsLate /\ LateDisturbed /\ HalfRemoved /\ AddChecked /\ HalfAdded /\ FriendshipMutual

\* A worker whose record is the same is in the same place of the same call.
LEMMA SameCall ==
  ASSUME NEW v, worker'[v] = worker[v]
  PROVE  /\ IsChange(v)' <=> IsChange(v)
         /\ MyPair(v)' = MyPair(v)
         /\ Own(v)' = Own(v) /\ Other(v)' = Other(v)
         /\ \A step : At(v, step)' <=> At(v, step)
BY DEF IsChange, MyPair, Pair, Own, Other, At

\* At first there is no friendship.
LEMMA PairInit == Init => PairInv
<1> SUFFICES ASSUME Init PROVE PairInv
  OBVIOUS
<1>1. \A w \in Workers : worker[w] = Idle
  BY DEF Init
<1>2. \A w \in Workers : ~IsChange(w) /\ worker[w].step = "idle" /\ worker[w].op = "none"
  BY <1>1 DEF IsChange, Idle
<1>3. FriendshipMutual
  BY DEF Init, FriendshipMutual
<1> QED
  BY <1>2, <1>3
     DEF PairInv, RivalsLate, LateDisturbed, HalfRemoved, AddChecked, HalfAdded, At

\* A step that changes no row, of one worker: it disturbs its pair if it leaves
\* a change between its statements.
Quiet(w, r) ==
  /\ rows' = rows
  /\ disturbed \subseteq disturbed'
  /\ worker'[w] = r
  /\ OthersStay(w)
  /\ At(w, "second") => MyPair(w) \in disturbed'
  /\ r.op \in {"add", "remove"} =>
        /\ r.op = worker[w].op /\ r.user = worker[w].user /\ r.friend = worker[w].friend
        /\ worker[w].late => r.late
        /\ r.late => worker[w].late \/ MyPair(w) \in disturbed'
        /\ r.step = "second" => r.late /\ MyPair(w) \in disturbed'
        /\ (/\ r.step \in {"target", "first"} /\ r.op = "add"
            /\ r.friend \in Ids /\ MyPair(w) \notin disturbed') => Own(w) \notin rows

\* Such a step keeps what is known of friendships.
LEMMA QuietKeeps ==
  ASSUME TypeInv, PairInv, NEW w \in Workers, NEW r, Quiet(w, r),
         r.step = "second" => r.op \in {"add", "remove"}
  PROVE  PairInv'
<1>1. \A v \in Workers \ {w} : worker'[v] = worker[v]
  BY DEF Quiet, OthersStay
<1>2. \A v \in Workers \ {w} :
        /\ IsChange(v)' <=> IsChange(v)
        /\ MyPair(v)' = MyPair(v)
        /\ Own(v)' = Own(v) /\ Other(v)' = Other(v)
        /\ \A step : At(v, step)' <=> At(v, step)
  BY <1>1, SameCall
<1>3. /\ IsChange(w)' => IsChange(w) /\ MyPair(w)' = MyPair(w) /\ Own(w)' = Own(w)
      /\ IsChange(w)' <=> r.op \in {"add", "remove"}
      /\ \A step : At(w, step)' <=> r.step = step
  BY DEF Quiet, IsChange, MyPair, Pair, Own, At
<1>4. rows' = rows /\ disturbed \subseteq disturbed' /\ worker'[w] = r
  BY DEF Quiet
<1>5. RivalsLate'
  <2> SUFFICES ASSUME NEW v \in Workers, NEW u \in Workers, v # u, IsChange(v)', IsChange(u)',
                      MyPair(v)' = MyPair(u)'
               PROVE  worker'[v].late
    BY DEF RivalsLate
  <2>1. IsChange(v) /\ IsChange(u) /\ MyPair(v) = MyPair(u)
    BY <1>2, <1>3
  <2>2. worker[v].late
    BY <2>1 DEF PairInv, RivalsLate
  <2> QED
    BY <1>1, <1>3, <1>4, <2>2 DEF Quiet
<1>6. LateDisturbed'
  <2> SUFFICES ASSUME NEW v \in Workers, IsChange(v)', worker'[v].late, worker'[v].friend \in Ids
               PROVE  MyPair(v)' \in disturbed'
    BY DEF LateDisturbed
  <2>1. CASE v = w
    BY <1>3, <1>4, <2>1 DEF Quiet, PairInv, LateDisturbed
  <2>2. CASE v # w
    BY <1>1, <1>2, <1>4, <2>2 DEF PairInv, LateDisturbed
  <2> QED
    BY <2>1, <2>2
<1>7. HalfRemoved'
  <2> SUFFICES ASSUME NEW v \in Workers, At(v, "second")', worker'[v].op = "remove",
                      ~worker'[v].late
               PROVE  Own(v)' \notin rows'
    BY DEF HalfRemoved
  <2>1. v # w
    BY <1>3, <1>4 DEF Quiet
  <2> QED
    BY <1>1, <1>2, <1>4, <2>1 DEF PairInv, HalfRemoved
<1>8. AddChecked'
  <2> SUFFICES ASSUME NEW v \in Workers, worker'[v].op = "add",
                      worker'[v].step \in {"target", "first"},
                      worker'[v].friend \in Ids, MyPair(v)' \notin disturbed'
               PROVE  Own(v)' \notin rows'
    BY DEF AddChecked
  <2>1. CASE v = w
    BY <1>3, <1>4, <2>1 DEF Quiet
  <2>2. CASE v # w
    BY <1>1, <1>2, <1>4, <2>2 DEF PairInv, AddChecked
  <2> QED
    BY <2>1, <2>2
<1>9. HalfAdded'
  <2> SUFFICES ASSUME NEW v \in Workers, At(v, "second")', worker'[v].op = "add",
                      worker'[v].user # worker'[v].friend, MyPair(v)' \notin disturbed'
               PROVE  Own(v)' \in rows' /\ Other(v)' \notin rows'
    BY DEF HalfAdded
  <2>1. v # w
    BY <1>3, <1>4 DEF Quiet
  <2> QED
    BY <1>1, <1>2, <1>4, <2>1 DEF PairInv, HalfAdded
<1>10. FriendshipMutual'
  <2> SUFFICES ASSUME NEW u \in Ids, NEW f \in Ids, u # f, Pair(u, f) \notin disturbed',
                      \A v \in Workers : At(v, "second")' => MyPair(v)' # Pair(u, f)
               PROVE  <<u, f>> \in rows' <=> <<f, u>> \in rows'
    BY DEF FriendshipMutual
  <2>1. \A v \in Workers : At(v, "second") => MyPair(v) # Pair(u, f)
    BY <1>2 DEF Quiet
  <2>2. Pair(u, f) \notin disturbed
    BY <1>4
  <2> QED
    BY <1>4, <2>1, <2>2 DEF PairInv, FriendshipMutual
<1> QED
  BY <1>5, <1>6, <1>7, <1>8, <1>9, <1>10 DEF PairInv

\* A step that changes one of the rows of a pair leaves the other pairs alone.
LEMMA PairsApart ==
  ASSUME NEW a, NEW b, NEW c, NEW d, Pair(a, b) # Pair(c, d)
  PROVE  <<a, b>> # <<c, d>> /\ <<a, b>> # <<d, c>>
BY DEF Pair

LEMMA PairSame ==
  ASSUME NEW a, NEW b, NEW c, NEW d, Pair(a, b) = Pair(c, d)
  PROVE  (a = c /\ b = d) \/ (a = d /\ b = c)
BY DEF Pair

\* A step of one change that executes its statement: what it does to the row,
\* and to what is known about its own pair.
Changes(w, r) ==
  /\ At(w, "first") \/ At(w, "second")
  /\ ChangeRow(w)
  /\ worker'[w] = r
  /\ \A v \in Workers \ {w} : worker'[v] = worker[v] \/ ~(IsChange(v) \/ IsChange(v)')
  /\ \A p : p # MyPair(w) => (p \in disturbed' <=> p \in disturbed)
  /\ MyPair(w) \notin disturbed' => ~worker[w].late
  /\ MyPair(w) \in disturbed /\ MyPair(w) \notin disturbed' =>
        At(w, "second") /\ worker[w].op = "remove"
  /\ r.op \in {"add", "remove"} =>
        /\ r.op = worker[w].op /\ r.user = worker[w].user /\ r.friend = worker[w].friend
        /\ r.late = worker[w].late
        /\ r.step = IF At(w, "first") THEN "second" ELSE "touch1"
  /\ MyPair(w) \notin disturbed' /\ At(w, "first") => r.op \in {"add", "remove"}

\* Such a step keeps it too: the others of the pair are late, and other pairs
\* have other rows.
LEMMA ChangesKeeps ==
  ASSUME TypeInv, PairInv, NEW w \in Workers, NEW r, Changes(w, r)
  PROVE  PairInv'
<1> DEFINE u == worker[w].user
           f == worker[w].friend
           p == MyPair(w)
<1>1. /\ u \in Ids /\ f \in Ids /\ p = Pair(u, f) /\ p \in Pairs
      /\ worker[w].op \in {"add", "remove"} /\ IsChange(w)
      /\ Row(w) = (IF At(w, "first") THEN <<u, f>> ELSE <<f, u>>)
      /\ Own(w) = <<u, f>> /\ Other(w) = <<f, u>>
  BY RowTyped DEF Changes, MyPair, Row, Own, Other, IsChange
<1>2. /\ rows \subseteq Ids \X Ids
      /\ \A a, b \in Ids :
           <<a, b>> \in rows' <=> IF <<a, b>> = Row(w) THEN worker[w].op = "add"
                                                     ELSE <<a, b>> \in rows
  BY <1>1 DEF Changes, ChangeRow, TypeInv, TypeOK
<1>3. \A v \in Workers \ {w} : IsChange(v)' =>
        /\ worker'[v] = worker[v] /\ IsChange(v)
        /\ MyPair(v)' = MyPair(v) /\ Own(v)' = Own(v) /\ Other(v)' = Other(v)
        /\ \A step : At(v, step)' <=> At(v, step)
  BY SameCall DEF Changes
<1>4. /\ worker'[w] = r
      /\ IsChange(w)' <=> r.op \in {"add", "remove"}
      /\ \A step : At(w, step)' <=> r.step = step
  BY DEF Changes, IsChange, At
<1>5. IsChange(w)' =>
        /\ MyPair(w)' = p /\ Own(w)' = <<u, f>> /\ Other(w)' = <<f, u>>
        /\ r.op = worker[w].op /\ r.late = worker[w].late
        /\ r.step = IF At(w, "first") THEN "second" ELSE "touch1"
  BY <1>4 DEF Changes, MyPair, Pair, Own, Other
\* The others of the pair are late, and the pair is then disturbed for good.
<1>6. ASSUME NEW v \in Workers \ {w}, IsChange(v)', MyPair(v)' = p
      PROVE  worker'[v].late /\ worker[w].late /\ p \in disturbed'
  <2>1. worker[v].late /\ worker[w].late
    BY <1>1, <1>3, <1>6 DEF PairInv, RivalsLate
  <2> QED
    BY <1>3, <1>6, <2>1 DEF Changes
\* The rows of other pairs, and what is disturbed of them, stay.
<1>7. ASSUME NEW v \in Workers \ {w}, IsChange(v)', MyPair(v)' # p, worker[v].friend \in Ids
      PROVE  /\ Own(v)' \in rows' <=> Own(v) \in rows
             /\ Other(v)' \in rows' <=> Other(v) \in rows
             /\ MyPair(v) \in disturbed' <=> MyPair(v) \in disturbed
  <2>1. worker[v].user \in Users
    BY <1>3, <1>7, StepFields DEF IsChange, Idle
  <2>2. Own(v) # Row(w) /\ Other(v) # Row(w)
    <3>1. Pair(worker[v].user, worker[v].friend) # Pair(u, f)
      BY <1>1, <1>3, <1>7 DEF MyPair
    <3> QED
      BY <1>1, <3>1, PairsApart DEF Own, Other
  <2>3. MyPair(v) \in disturbed' <=> MyPair(v) \in disturbed
    BY <1>3, <1>7 DEF Changes
  <2> QED
    BY <1>2, <1>3, <1>7, <2>1, <2>2, <2>3 DEF Own, Other
<1> HIDE DEF p, u, f
<1>8. RivalsLate'
  <2> SUFFICES ASSUME NEW v \in Workers, NEW x \in Workers, v # x, IsChange(v)', IsChange(x)',
                      MyPair(v)' = MyPair(x)'
               PROVE  worker'[v].late
    BY DEF RivalsLate
  <2>1. CASE v = w
    BY <1>4, <1>5, <1>6, <2>1
  <2>2. CASE x = w
    BY <1>5, <1>6, <2>2
  <2>3. CASE v # w /\ x # w
    BY <1>3, <2>3 DEF PairInv, RivalsLate
  <2> QED
    BY <2>1, <2>2, <2>3
<1>9. LateDisturbed'
  <2> SUFFICES ASSUME NEW v \in Workers, IsChange(v)', worker'[v].late, worker'[v].friend \in Ids
               PROVE  MyPair(v)' \in disturbed'
    BY DEF LateDisturbed
  <2>1. CASE v = w
    BY <1>4, <1>5, <2>1 DEF Changes, p
  <2>2. CASE v # w /\ MyPair(v)' = p
    BY <1>6, <2>2
  <2>3. CASE v # w /\ MyPair(v)' # p
    BY <1>3, <1>7, <2>3 DEF PairInv, LateDisturbed
  <2> QED
    BY <2>1, <2>2, <2>3
<1>10. HalfRemoved'
  <2> SUFFICES ASSUME NEW v \in Workers, At(v, "second")', worker'[v].op = "remove",
                      ~worker'[v].late
               PROVE  Own(v)' \notin rows'
    BY DEF HalfRemoved
  <2>0. IsChange(v)'
    BY DEF IsChange
  <2>1. CASE v = w
    <3>1. At(w, "first") /\ worker[w].op = "remove" /\ Own(w)' = <<u, f>>
      BY <1>4, <1>5, <2>0, <2>1
    <3> QED
      BY <1>1, <1>2, <2>1, <3>1
  <2>2. CASE v # w
    <3>1. MyPair(v)' # p
      BY <1>6, <2>0, <2>2
    <3>2. worker[v].friend \in Ids
      BY <1>3, <2>0, <2>2, StepFields DEF At
    <3> QED
      BY <1>3, <1>7, <2>0, <2>2, <3>1, <3>2 DEF PairInv, HalfRemoved
  <2> QED
    BY <2>1, <2>2
<1>11. AddChecked'
  <2> SUFFICES ASSUME NEW v \in Workers, worker'[v].op = "add",
                      worker'[v].step \in {"target", "first"},
                      worker'[v].friend \in Ids, MyPair(v)' \notin disturbed'
               PROVE  Own(v)' \notin rows'
    BY DEF AddChecked
  <2>0. IsChange(v)'
    BY DEF IsChange
  <2>1. v # w
    BY <1>4, <1>5, <2>0
  <2>2. MyPair(v)' # p
    BY <1>6, <2>0, <2>1
  <2> QED
    BY <1>3, <1>7, <2>0, <2>1, <2>2 DEF PairInv, AddChecked
<1>12. HalfAdded'
  <2> SUFFICES ASSUME NEW v \in Workers, At(v, "second")', worker'[v].op = "add",
                      worker'[v].user # worker'[v].friend, MyPair(v)' \notin disturbed'
               PROVE  Own(v)' \in rows' /\ Other(v)' \notin rows'
    BY DEF HalfAdded
  <2>0. IsChange(v)'
    BY DEF IsChange
  <2>1. CASE v = w
    <3>1. /\ At(w, "first") /\ worker[w].op = "add" /\ Own(w)' = <<u, f>> /\ Other(w)' = <<f, u>>
          /\ u # f /\ p \notin disturbed'
      BY <1>4, <1>5, <2>0, <2>1 DEF Changes, u, f
    <3>2. p \notin disturbed
      BY <3>1 DEF Changes, p, At
    <3>3. <<u, f>> \notin rows
      BY <1>1, <3>1, <3>2 DEF PairInv, AddChecked, At, p, f
    <3>4. \A x \in Workers : At(x, "second") => MyPair(x) # p
      <4> SUFFICES ASSUME NEW x \in Workers, At(x, "second"), MyPair(x) = p PROVE FALSE
        OBVIOUS
      <4>1. x # w /\ IsChange(x)
        BY <3>1, StepFields DEF At, IsChange
      <4>2. worker[w].late
        BY <1>1, <4>1 DEF PairInv, RivalsLate, p
      <4> QED
        BY <1>1, <3>2, <4>2 DEF PairInv, LateDisturbed, p, f
    <3>5. <<f, u>> \notin rows
      BY <1>1, <3>1, <3>2, <3>3, <3>4 DEF PairInv, FriendshipMutual
    <3>6. <<f, u>> # <<u, f>>
      BY <3>1
    <3> QED
      BY <1>1, <1>2, <2>1, <3>1, <3>3, <3>5, <3>6
  <2>2. CASE v # w
    <3>1. MyPair(v)' # p
      BY <1>6, <2>0, <2>2
    <3>2. worker[v].friend \in Ids
      BY <1>3, <2>0, <2>2, StepFields DEF At
    <3> QED
      BY <1>3, <1>7, <2>0, <2>2, <3>1, <3>2 DEF PairInv, HalfAdded
  <2> QED
    BY <2>1, <2>2
<1>13. FriendshipMutual'
  <2> SUFFICES ASSUME NEW a \in Ids, NEW b \in Ids, a # b, Pair(a, b) \notin disturbed',
                      \A v \in Workers : At(v, "second")' => MyPair(v)' # Pair(a, b)
               PROVE  <<a, b>> \in rows' <=> <<b, a>> \in rows'
    BY DEF FriendshipMutual
  <2>1. CASE Pair(a, b) = p
    <3>1. (a = u /\ b = f) \/ (a = f /\ b = u)
      BY <1>1, <2>1, PairSame
    <3>2. u # f /\ p \notin disturbed' /\ ~worker[w].late
      BY <2>1, <3>1 DEF Changes, p
    <3>3. At(w, "second")
      <4> SUFFICES ASSUME At(w, "first") PROVE FALSE
        BY DEF Changes
      <4>1. IsChange(w)'
        BY <1>4, <3>2 DEF Changes, p
      <4> QED
        BY <1>4, <1>5, <2>1, <4>1
    <3>4. Row(w) = <<f, u>> /\ <<u, f>> # <<f, u>>
      BY <1>1, <3>2, <3>3 DEF At
    <3>5. CASE worker[w].op = "remove"
      <4>1. <<u, f>> \notin rows
        BY <1>1, <3>2, <3>3, <3>5 DEF PairInv, HalfRemoved
      <4> QED
        BY <1>1, <1>2, <3>1, <3>4, <3>5, <4>1
    <3>6. CASE worker[w].op = "add"
      <4>1. p \notin disturbed
        BY <3>2, <3>6 DEF Changes, p
      <4>2. <<u, f>> \in rows /\ <<f, u>> \notin rows
        BY <1>1, <3>2, <3>3, <3>6, <4>1 DEF PairInv, HalfAdded, p, u, f
      <4> QED
        BY <1>1, <1>2, <3>1, <3>4, <3>6, <4>2
    <3> QED
      BY <1>1, <3>5, <3>6
  <2>2. CASE Pair(a, b) # p
    <3>1. Pair(a, b) \notin disturbed
      BY <2>2 DEF Changes, p
    <3>2. \A v \in Workers : At(v, "second") => MyPair(v) # Pair(a, b)
      <4> SUFFICES ASSUME NEW v \in Workers, At(v, "second"), MyPair(v) = Pair(a, b) PROVE FALSE
        OBVIOUS
      <4>1. v # w /\ IsChange(v)
        BY <2>2, StepFields DEF At, IsChange, p
      <4>2. worker'[v] = worker[v]
        BY <4>1 DEF Changes
      <4> QED
        BY <4>2, SameCall
    <3>3. Pair(a, b) # Pair(u, f)
      BY <1>1, <2>2
    <3>4. <<a, b>> # Row(w) /\ <<b, a>> # Row(w)
      BY <1>1, <3>3, PairsApart
    <3> QED
      BY <1>2, <3>1, <3>2, <3>4 DEF PairInv, FriendshipMutual
  <2> QED
    BY <2>1, <2>2
<1> QED
  BY <1>8, <1>9, <1>10, <1>11, <1>12, <1>13 DEF PairInv

\* The statement of a change, with each of its outcomes.
LEMMA StatementKeepsPairs ==
  ASSUME TypeInv, PairInv, NEW w \in Workers, Statement(w)
  PROVE  PairInv'
<1>1. At(w, "first") \/ At(w, "second")
  BY DEF Statement
<1>2. /\ worker[w] \in Busy /\ worker[w].step # "idle"
      /\ worker[w].op \in {"add", "remove"} /\ IsChange(w) /\ MyPair(w) \in Pairs
      /\ worker[w].friend \in Ids
  BY <1>1, RowTyped DEF At, IsChange
<1>3. /\ AfterRows(w) \in Steps \cup {"end"}
      /\ At(w, "first") => AfterRows(w) = "second"
      /\ At(w, "second") => AfterRows(w) \in {"touch1", "end"}
  BY <1>1, AfterRowsTyped DEF AfterRows, At, Steps, DbSteps, CacheSteps
<1>4. Idle.op = "none" /\ Idle.step = "idle"
  BY DEF Idle
<1>5. ASSUME NEW r, worker' = [Outdating(Row(w)[1]) EXCEPT ![w] = r]
      PROVE  /\ worker'[w] = r
             /\ \A v \in Workers \ {w} :
                  worker'[v] = worker[v] \/ ~(IsChange(v) \/ IsChange(v)')
  <2>1. /\ worker'[w] = r
        /\ \A v \in Workers \ {w} :
               IF At(v, "fill") /\ worker[v].user = Row(w)[1]
               THEN worker'[v] \in Busy /\ Same(worker'[v], worker[v]) /\ worker'[v].late
               ELSE worker'[v] = worker[v]
    BY <1>5, OutdatingEffect DEF Outdates
  <2>2. \A v \in Workers : At(v, "fill") => worker[v].op = "list"
    BY StepFields DEF At
  <2> QED
    BY <2>1, <2>2 DEF Same, IsChange
<1>6. CASE Executed(w)
  <2> DEFINE r == Moved(w, AfterRows(w))
  <2>1. /\ worker'[w] = r
        /\ \A v \in Workers \ {w} : worker'[v] = worker[v] \/ ~(IsChange(v) \/ IsChange(v)')
    BY <1>5, <1>6 DEF Executed
  <2>2. /\ AfterRows(w) = "end" => r = Idle
        /\ AfterRows(w) # "end" =>
              /\ r.step = AfterRows(w)
              /\ r.op = worker[w].op /\ r.user = worker[w].user /\ r.friend = worker[w].friend
              /\ r.late = worker[w].late
    BY <1>2, <1>3, MovedFields
  <2> HIDE DEF r
  <2>3. \A p : p # MyPair(w) => (p \in disturbed' <=> p \in disturbed)
    BY <1>6 DEF Executed
  <2>4. MyPair(w) \in disturbed => (MyPair(w) \notin disturbed' =>
           At(w, "second") /\ worker[w].op = "remove" /\ ~worker[w].late)
    BY <1>6 DEF Executed
  <2>5. worker[w].late => MyPair(w) \in disturbed
    BY <1>2 DEF PairInv, LateDisturbed
  <2>6. Changes(w, r)
    <3>1. /\ At(w, "first") \/ At(w, "second")
          /\ ChangeRow(w)
          /\ MyPair(w) \notin disturbed' => ~worker[w].late
      BY <1>1, <1>6, <2>4, <2>5 DEF Executed
    <3>2. r.op \in {"add", "remove"} =>
            /\ r.op = worker[w].op /\ r.user = worker[w].user /\ r.friend = worker[w].friend
            /\ r.late = worker[w].late
            /\ r.step = IF At(w, "first") THEN "second" ELSE "touch1"
      BY <1>1, <1>3, <1>4, <2>2
    <3>3. At(w, "first") => r.op \in {"add", "remove"}
      BY <1>2, <1>3, <2>2
    <3> QED
      BY <2>1, <2>3, <2>4, <3>1, <3>2, <3>3 DEF Changes
  <2> QED
    BY <2>6, ChangesKeeps
<1>7. CASE StatementFails(w)
  <2>1. worker'[w] = Idle /\ OthersStay(w)
    BY <1>2, <1>7, GotoEffect, MovedFields DEF StatementFails
  <2>2. Quiet(w, Idle)
    BY <1>4, <1>7, <2>1 DEF StatementFails, Quiet
  <2> QED
    BY <1>4, <2>2, QuietKeeps
<1>8. CASE Crossed(w)
  <2>1. disturbed' = disturbed \cup {MyPair(w)}
    BY <1>8 DEF Crossed
  <2>2. CASE /\ ChangeRow(w)
             /\ worker' = [Outdating(Row(w)[1]) EXCEPT ![w] = Idle]
    <3>1. /\ worker'[w] = Idle
          /\ \A v \in Workers \ {w} : worker'[v] = worker[v] \/ ~(IsChange(v) \/ IsChange(v)')
      BY <1>5, <2>2
    <3>2. Changes(w, Idle)
      BY <1>1, <1>4, <2>1, <2>2, <3>1 DEF Changes
    <3> QED
      BY <3>2, ChangesKeeps
  <2>3. CASE /\ IF AfterRows(w) = "end" THEN Goto(w, "end")
                ELSE worker' = [worker EXCEPT ![w].step = AfterRows(w), ![w].late = TRUE]
             /\ UNCHANGED rows
    <3>1. CASE AfterRows(w) = "end"
      <4>1. worker'[w] = Idle /\ OthersStay(w)
        BY <1>2, <2>3, <3>1, GotoEffect, MovedFields
      <4>2. Quiet(w, Idle)
        BY <1>4, <2>1, <2>3, <4>1 DEF Quiet
      <4> QED
        BY <1>4, <4>2, QuietKeeps
    <3>2. CASE AfterRows(w) # "end"
      <4> DEFINE r == [worker[w] EXCEPT !.step = AfterRows(w), !.late = TRUE]
      <4>1. /\ r.step = AfterRows(w) /\ r.op = worker[w].op /\ r.friend = worker[w].friend
            /\ r.user = worker[w].user /\ r.late
        BY <1>2, <1>3, <3>2 DEF Busy
      <4>2. worker'[w] = r /\ OthersStay(w)
        BY <2>3, <3>2 DEF TypeInv, TypeOK, OthersStay
      <4> HIDE DEF r
      <4>3. Quiet(w, r)
        BY <1>1, <1>2, <1>3, <2>1, <2>3, <3>2, <4>1, <4>2 DEF Quiet
      <4> QED
        BY <1>2, <4>1, <4>3, QuietKeeps
    <3> QED
      BY <3>1, <3>2
  <2> QED
    BY <1>8, <2>2, <2>3 DEF Crossed
<1> QED
  BY <1>6, <1>7, <1>8 DEF Statement

\* A new change of a pair: those there are of it, and itself, are then late.
LEMMA CallKeepsPairs ==
  ASSUME TypeInv, PairInv, NEW w \in Workers, NEW op \in {"add", "remove"},
         NEW step \in {"check", "first"}, NEW u \in Users, NEW f \in Ids,
         step = "first" => op = "remove",
         CallChange(w, op, step, u, f)
  PROVE  PairInv'
<1> DEFINE Rival(v) == IsChange(v) /\ MyPair(v) = Pair(u, f)
<1>1. /\ worker[w] = Idle
      /\ worker'[w].op = op /\ worker'[w].step = step
      /\ worker'[w].user = u /\ worker'[w].friend = f
      /\ worker'[w].late <=> \E v \in Workers : Rival(v)
  BY CallChangeEffect
<1>2. \A v \in Workers \ {w} :
        IF Rival(v)
        THEN worker'[v] \in Busy /\ Same(worker'[v], worker[v]) /\ worker'[v].late
        ELSE worker'[v] = worker[v]
  BY CallChangeEffect
<1>3. rows' = rows
  BY DEF CallChange
<1>4. disturbed' = IF \E v \in Workers : Rival(v)
                   THEN disturbed \cup {Pair(u, f)} ELSE disturbed
  BY DEF CallChange
<1>5. \A v \in Workers \ {w} :
        /\ IsChange(v)' <=> IsChange(v)
        /\ MyPair(v)' = MyPair(v)
        /\ Own(v)' = Own(v) /\ Other(v)' = Other(v)
        /\ \A s : At(v, s)' <=> At(v, s)
        /\ worker'[v].op = worker[v].op /\ worker'[v].friend = worker[v].friend
        /\ worker'[v].user = worker[v].user /\ worker'[v].step = worker[v].step
        /\ worker[v].late /\ IsChange(v) => worker'[v].late
        /\ ~Rival(v) => worker'[v].late = worker[v].late
        /\ Rival(v) => worker'[v].late
  <2> SUFFICES ASSUME NEW v \in Workers \ {w}, Same(worker'[v], worker[v])
               PROVE  /\ IsChange(v)' <=> IsChange(v)
                      /\ MyPair(v)' = MyPair(v)
                      /\ Own(v)' = Own(v) /\ Other(v)' = Other(v)
                      /\ \A s : At(v, s)' <=> At(v, s)
    BY <1>2 DEF Same
  <2> QED
    BY DEF Same, IsChange, MyPair, Pair, Own, Other, At
<1>6. /\ IsChange(w)' /\ MyPair(w)' = Pair(u, f) /\ ~IsChange(w) /\ ~Rival(w)
      /\ \A s : At(w, s)' <=> step = s
  BY <1>1 DEF IsChange, MyPair, Pair, At, Idle
<1>7. f \in Users => Pair(u, f) \in Pairs
  BY DEF Pairs
<1> HIDE DEF Rival
<1>8. RivalsLate'
  <2> SUFFICES ASSUME NEW v \in Workers, NEW x \in Workers, v # x, IsChange(v)', IsChange(x)',
                      MyPair(v)' = MyPair(x)'
               PROVE  worker'[v].late
    BY DEF RivalsLate
  <2>1. CASE v = w
    <3>1. Rival(x)
      BY <1>5, <1>6, <2>1 DEF Rival
    <3> QED
      BY <1>1, <2>1, <3>1
  <2>2. CASE x = w
    <3>1. Rival(v)
      BY <1>5, <1>6, <2>2 DEF Rival
    <3> QED
      BY <1>5, <2>2, <3>1
  <2>3. CASE v # w /\ x # w
    <3>1. worker[v].late
      BY <1>5, <2>3 DEF PairInv, RivalsLate
    <3> QED
      BY <1>5, <2>3, <3>1
  <2> QED
    BY <2>1, <2>2, <2>3
<1>9. LateDisturbed'
  <2> SUFFICES ASSUME NEW v \in Workers, IsChange(v)', worker'[v].late, worker'[v].friend \in Ids
               PROVE  MyPair(v)' \in disturbed'
    BY DEF LateDisturbed
  <2>1. CASE v = w
    BY <1>1, <1>4, <1>6, <1>7, <2>1
  <2>2. CASE v # w /\ Rival(v)
    <3>1. MyPair(v) \in Pairs
      <4>1. worker[v].user \in Users /\ worker[v].friend \in Ids
        BY <1>5, <2>2, StepFields DEF IsChange, Idle
      <4> QED
        BY <4>1 DEF MyPair, Pairs
    <3> QED
      BY <1>4, <1>5, <2>2, <3>1 DEF Rival
  <2>3. CASE v # w /\ ~Rival(v)
    BY <1>4, <1>5, <2>3 DEF PairInv, LateDisturbed
  <2> QED
    BY <2>1, <2>2, <2>3
<1>10. HalfRemoved'
  <2> SUFFICES ASSUME NEW v \in Workers, At(v, "second")', worker'[v].op = "remove",
                      ~worker'[v].late
               PROVE  Own(v)' \notin rows'
    BY DEF HalfRemoved
  <2>1. v # w
    BY <1>6
  <2> QED
    BY <1>3, <1>5, <2>1 DEF PairInv, HalfRemoved
<1>11. AddChecked'
  <2> SUFFICES ASSUME NEW v \in Workers, worker'[v].op = "add",
                      worker'[v].step \in {"target", "first"},
                      worker'[v].friend \in Ids, MyPair(v)' \notin disturbed'
               PROVE  Own(v)' \notin rows'
    BY DEF AddChecked
  <2>1. v # w
    BY <1>1
  <2> QED
    BY <1>3, <1>4, <1>5, <2>1 DEF PairInv, AddChecked
<1>12. HalfAdded'
  <2> SUFFICES ASSUME NEW v \in Workers, At(v, "second")', worker'[v].op = "add",
                      worker'[v].user # worker'[v].friend, MyPair(v)' \notin disturbed'
               PROVE  Own(v)' \in rows' /\ Other(v)' \notin rows'
    BY DEF HalfAdded
  <2>1. v # w
    BY <1>6
  <2> QED
    BY <1>3, <1>4, <1>5, <2>1 DEF PairInv, HalfAdded
<1>13. FriendshipMutual'
  <2> SUFFICES ASSUME NEW a \in Ids, NEW b \in Ids, a # b, Pair(a, b) \notin disturbed',
                      \A v \in Workers : At(v, "second")' => MyPair(v)' # Pair(a, b)
               PROVE  <<a, b>> \in rows' <=> <<b, a>> \in rows'
    BY DEF FriendshipMutual
  <2>1. \A v \in Workers : At(v, "second") => MyPair(v) # Pair(a, b)
    BY <1>1, <1>5 DEF At, Idle
  <2>2. Pair(a, b) \notin disturbed
    BY <1>4
  <2> QED
    BY <1>3, <2>1, <2>2 DEF PairInv, FriendshipMutual
<1> QED
  BY <1>8, <1>9, <1>10, <1>11, <1>12, <1>13 DEF PairInv

\* Every step keeps what is known of friendships.
LEMMA PairKept ==
  ASSUME TypeInv, PairInv, [Next]_vars
  PROVE  PairInv'
<1>0. Idle.op = "none" /\ Idle.step = "idle"
  BY DEF Idle
\* A step of a call that is not between its statements, and changes no row.
<1>1. ASSUME NEW w \in Workers, NEW step \in {"end", "first", "touch2", "del1", "del2", "select"},
             Goto(w, step), worker[w].step \notin {"idle", "second"},
             step = "first" => worker[w].step = "target",
             UNCHANGED <<rows, disturbed>>
      PROVE  PairInv'
  <2> DEFINE r == Moved(w, step)
  <2>1. worker'[w] = r /\ OthersStay(w)
    BY <1>1, GotoEffect
  <2>2. /\ step = "end" => r = Idle
        /\ step # "end" =>
              /\ r.step = step /\ r.op = worker[w].op /\ r.user = worker[w].user
              /\ r.friend = worker[w].friend /\ r.late = worker[w].late
    BY <1>1, MovedFields DEF Steps, DbSteps, CacheSteps
  <2> HIDE DEF r
  <2>3. step = "first" /\ worker[w].friend \in Ids /\ MyPair(w) \notin disturbed
           => Own(w) \notin rows
    BY <1>1, StepFields DEF PairInv, AddChecked
  <2>4. Quiet(w, r)
    BY <1>0, <1>1, <2>1, <2>2, <2>3 DEF Quiet, At
  <2>5. r.step # "second"
    BY <1>0, <2>2
  <2> QED
    BY <2>4, <2>5, QuietKeeps
\* A call that lists friends.
<1>2. ASSUME NEW w \in Workers, NEW r, worker' = [worker EXCEPT ![w] = r],
             r.op = "list", r.step # "second", worker[w].step # "second",
             UNCHANGED <<rows, disturbed>>
      PROVE  PairInv'
  <2>1. worker'[w] = r /\ OthersStay(w)
    BY <1>2 DEF TypeInv, TypeOK, OthersStay
  <2>2. Quiet(w, r)
    BY <1>2, <2>1 DEF Quiet, At
  <2> QED
    BY <1>2, <2>2, QuietKeeps
<1>3. ASSUME NEW w \in Workers, NEW u \in Users, NEW f \in Ids,
             CallAddFriend(w, u, f)
      PROVE  PairInv'
  BY <1>3, CallKeepsPairs DEF CallAddFriend
<1>4. ASSUME NEW w \in Workers, NEW u \in Users, NEW f \in Ids, CallRemoveFriend(w, u, f)
      PROVE  PairInv'
  BY <1>4, CallKeepsPairs DEF CallRemoveFriend
<1>5. ASSUME NEW w \in Workers, NEW u \in Users, CallGetFriends(w, u) PROVE PairInv'
  <2> DEFINE r == NewCall("list", IF redis = "none" THEN "select" ELSE "get", u, None, FALSE)
  <2>1. r.op = "list" /\ r.step # "second"
    BY DEF NewCall
  <2>2. worker' = [worker EXCEPT ![w] = r] /\ worker[w].step # "second"
    BY <1>0, <1>5 DEF CallGetFriends
  <2> HIDE DEF r
  <2> QED
    BY <1>2, <1>5, <2>1, <2>2 DEF CallGetFriends
<1>6. ASSUME NEW w \in Workers, IsFriend(w) PROVE PairInv'
  <2>1. /\ worker[w].op = "add" /\ worker[w].step = "check" /\ worker[w].user \in Users
        /\ rows \subseteq Ids \X Ids
    BY <1>6, StepFields DEF IsFriend, At, TypeInv, TypeOK
  <2>2. PICK step \in {"end", "target"} :
          /\ Goto(w, step)
          /\ \/ /\ step = "target" => worker[w].friend \notin Friends(worker[w].user)
                /\ UNCHANGED disturbed
             \/ disturbed' = disturbed \cup {MyPair(w)}
    BY <1>6, Zenon DEF IsFriend
  <2> DEFINE r == Moved(w, step)
  <2>3. worker'[w] = r /\ OthersStay(w)
    BY <2>2, GotoEffect
  <2>4. /\ step = "end" => r = Idle
        /\ step # "end" =>
              /\ r.step = step /\ r.op = worker[w].op /\ r.user = worker[w].user
              /\ r.friend = worker[w].friend /\ r.late = worker[w].late
    BY <2>1, MovedFields DEF Steps, DbSteps
  <2> HIDE DEF r
  <2>5. step = "target" /\ worker[w].friend \in Ids /\ MyPair(w) \notin disturbed'
           => Own(w) \notin rows
    <3> SUFFICES ASSUME step = "target", worker[w].friend \in Ids, MyPair(w) \notin disturbed'
                 PROVE  Own(w) \notin rows
      OBVIOUS
    <3>1. MyPair(w) \in Pairs
      BY <2>1 DEF MyPair, Pairs
    <3>2. worker[w].friend \notin Friends(worker[w].user)
      BY <2>2, <3>1
    <3>3. Own(w) \notin rows
      BY <2>1, <3>2 DEF Friends, Own
    <3> QED
      BY <3>3
  <2>6. UNCHANGED rows /\ disturbed \subseteq disturbed'
    BY <1>6, <2>2 DEF IsFriend
  <2>7. Quiet(w, r)
    BY <1>0, <2>1, <2>3, <2>4, <2>5, <2>6 DEF Quiet, At
  <2>8. r.step # "second"
    BY <1>0, <2>4
  <2> QED
    BY <2>7, <2>8, QuietKeeps
<1>7. ASSUME NEW w \in Workers, CheckTarget(w) PROVE PairInv'
  <2>1. PICK step \in {"end", "first"} : Goto(w, step)
    BY <1>7 DEF CheckTarget
  <2> QED
    BY <1>1, <1>7, <2>1 DEF CheckTarget, At
<1>8. ASSUME NEW w \in Workers, Statement(w) PROVE PairInv'
  BY <1>8, StatementKeepsPairs
<1>9. ASSUME NEW w \in Workers, TouchSet(w) PROVE PairInv'
  <2>1. PICK step \in {"touch2", "del1"} : Goto(w, step)
    BY <1>9 DEF TouchSet
  <2> QED
    BY <1>1, <1>9, <2>1 DEF TouchSet, At
<1>10. ASSUME NEW w \in Workers, DelFriends(w) PROVE PairInv'
  <2>1. PICK step \in {"del2", "end"} : Goto(w, step)
    BY <1>10 DEF DelFriends
  <2> QED
    BY <1>1, <1>10, <2>1 DEF DelFriends, At
<1>11. ASSUME NEW w \in Workers, GetCached(w) PROVE PairInv'
  <2>1. PICK step \in {"end", "select"} : Goto(w, step)
    BY <1>11 DEF GetCached
  <2> QED
    BY <1>1, <1>11, <2>1 DEF GetCached, At
<1>12. ASSUME NEW w \in Workers, SelectFriends(w) PROVE PairInv'
  <2>1. At(w, "select") /\ UNCHANGED <<rows, disturbed>>
    BY <1>12 DEF SelectFriends
  <2>2. worker[w] \in Busy /\ worker[w].op = "list"
    BY <2>1, StepFields DEF At
  <2>3. ASSUME NEW res, worker' = [worker EXCEPT ![w].step = "fill", ![w].res = res,
                                    ![w].late = (res # Friends(worker[w].user))]
        PROVE  PairInv'
    <3> DEFINE r == [worker[w] EXCEPT !.step = "fill", !.res = res,
                       !.late = (res # Friends(worker[w].user))]
    <3>1. r.op = "list" /\ r.step = "fill"
      BY <2>2 DEF Busy
    <3>2. worker' = [worker EXCEPT ![w] = r]
      BY <2>3 DEF TypeInv, TypeOK
    <3> HIDE DEF r
    <3> QED
      BY <1>2, <2>1, <3>1, <3>2 DEF At
  <2>4. CASE Goto(w, "end")
    BY <1>1, <2>1, <2>4 DEF At
  <2>5. \/ \E res : worker' = [worker EXCEPT ![w].step = "fill", ![w].res = res,
                                    ![w].late = (res # Friends(worker[w].user))]
        \/ Goto(w, "end")
    BY <1>12, Zenon DEF SelectFriends
  <2> QED
    BY <2>3, <2>4, <2>5
<1>13. ASSUME NEW w \in Workers, SetFriends(w) PROVE PairInv'
  BY <1>1, <1>13 DEF SetFriends, At
<1>14. CASE UNCHANGED <<rows, worker, disturbed>>
  BY <1>14 DEF PairInv, RivalsLate, LateDisturbed, HalfRemoved, AddChecked, HalfAdded,
               FriendshipMutual, IsChange, MyPair, Own, Other, At
<1>15. CASE Restart
  <2>1. \A v \in Workers : worker'[v] = Idle
    BY <1>15 DEF Restart
  <2>2. \A v \in Workers : /\ ~IsChange(v)' /\ \A s \in Steps : ~At(v, s)'
                           /\ worker'[v].op = "none"
    BY <1>0, <2>1 DEF IsChange, At, Steps, DbSteps, CacheSteps
  <2>3. rows' = rows /\ disturbed \subseteq disturbed'
    BY <1>15 DEF Restart
  <2>4. FriendshipMutual'
    <3> SUFFICES ASSUME NEW a \in Ids, NEW b \in Ids, a # b, Pair(a, b) \notin disturbed'
                 PROVE  <<a, b>> \in rows' <=> <<b, a>> \in rows'
      BY DEF FriendshipMutual
    <3>1. \A v \in Workers : At(v, "second") => MyPair(v) \in disturbed'
      BY <1>15 DEF Restart
    <3> QED
      BY <2>3, <3>1 DEF PairInv, FriendshipMutual
  <2> QED
    BY <2>2, <2>4
       DEF PairInv, RivalsLate, LateDisturbed, HalfRemoved, AddChecked, HalfAdded, Steps, DbSteps
<1> QED
  BY <1>3, <1>4, <1>5, <1>6, <1>7, <1>8, <1>9, <1>10, <1>11, <1>12, <1>13, <1>14, <1>15
     DEF Next, Receive, Execute, Expire, Outage, vars

\* A friendship has both rows or none, unless changes of it overlapped or one
\* failed half-way.
THEOREM FriendshipKeptMutual == Spec => []FriendshipMutual
<1>1. PairInv => FriendshipMutual
  BY DEF PairInv
<1> QED
  BY <1>1, TypeInit, TypeKept, PairInit, PairKept, PTL DEF Spec

-----------------------------------------------------------------------------
(* Cached lists.                                                           *)

\* What a GetFriends has read and is not late is what the table still says.
FillCurrent ==
  \A w \in Workers :
     (At(w, "fill") /\ ~worker[w].late) => worker[w].res = Friends(worker[w].user)

CacheInv == CachedListCurrent /\ FillCurrent

\* At first no list is cached.
LEMMA CacheInit == Init => CacheInv
<1> SUFFICES ASSUME Init PROVE CacheInv
  OBVIOUS
<1>1. \A u \in Users : cache[u].kind = "none"
  BY DEF Init, NoKey
<1>2. \A w \in Workers : ~At(w, "fill")
  BY DEF Init, At, Idle
<1> QED
  BY <1>1, <1>2 DEF CacheInv, CachedListCurrent, FillCurrent

\* What a call has unsettled depends on its step and on its two users.
LEMMA UnsettledSame ==
  ASSUME NEW v, worker'[v].step = worker[v].step, worker'[v].user = worker[v].user,
         worker'[v].friend = worker[v].friend
  PROVE  Unsettled(v)' = Unsettled(v)
BY DEF Unsettled

LEMMA NothingUnsettled ==
  ASSUME NEW v, worker[v].step \notin {"second", "touch1", "touch2", "del1", "del2"}
  PROVE  Unsettled(v) = {}
BY DEF Unsettled

\* The rows of other users than x are the same, and so are the other calls,
\* but for what they have read for x, which is late now.  A list that may still
\* be relied upon is current now, or could be relied upon before, and is not x's.
Relied(w, x) ==
  /\ \A u \in Users : u # x => Friends(u)' = Friends(u)
  /\ \A v \in Workers \ {w} :
        \/ worker'[v] = worker[v] /\ (At(v, "fill") => worker[v].user # x)
        \/ Same(worker'[v], worker[v]) /\ (At(v, "fill") => worker'[v].late)
  /\ \A u \in Users :
        (cache'[u].kind = "list" /\ u \notin left' /\ u \notin Unsettled(w)') =>
           \/ cache'[u].of = Friends(u)'
           \/ cache'[u] = cache[u] /\ u # x /\ u \notin left /\ u \notin Unsettled(w)
  /\ worker'[w].step = "fill" /\ ~worker'[w].late =>
        worker'[w].res = Friends(worker[w].user)'

\* Such a step keeps the lists current.
LEMMA ReliedKeeps ==
  ASSUME TypeInv, CacheInv, NEW w \in Workers, NEW x, Relied(w, x)
  PROVE  CacheInv'
<1>1. CachedListCurrent'
  <2> SUFFICES ASSUME NEW u \in Users, cache'[u].kind = "list", u \notin left',
                      \A v \in Workers : u \notin Unsettled(v)'
               PROVE  cache'[u].of = Friends(u)'
    BY DEF CachedListCurrent
  <2>1. \A v \in Workers \ {w} : Unsettled(v)' = Unsettled(v)
    BY UnsettledSame DEF Relied, Same
  <2>2. CASE cache'[u].of = Friends(u)'
    BY <2>2
  <2>3. CASE cache'[u] = cache[u] /\ u # x /\ u \notin left /\ u \notin Unsettled(w)
    <3>1. \A v \in Workers : u \notin Unsettled(v)
      BY <2>1, <2>3
    <3>2. cache[u].of = Friends(u)
      BY <2>3, <3>1 DEF CacheInv, CachedListCurrent
    <3> QED
      BY <2>3, <3>2 DEF Relied
  <2> QED
    BY <2>2, <2>3 DEF Relied
<1>2. FillCurrent'
  <2> SUFFICES ASSUME NEW v \in Workers, worker'[v].step = "fill", ~worker'[v].late
               PROVE  worker'[v].res = Friends(worker[v].user)'
    BY DEF FillCurrent, At
  <2>1. CASE v = w
    BY <2>1 DEF Relied
  <2>2. CASE v # w
    <3>1. worker'[v] = worker[v] /\ At(v, "fill") /\ worker[v].user # x
      BY <2>2 DEF Relied, Same, At
    <3>2. worker[v].user \in Users /\ worker[v].res = Friends(worker[v].user)
      BY <3>1, StepFields DEF CacheInv, FillCurrent, At
    <3> QED
      BY <3>1, <3>2 DEF Relied
  <2> QED
    BY <2>1, <2>2
<1> QED
  BY <1>1, <1>2 DEF CacheInv

\* Friends change with the rows only.
LEMMA UnchangedRows ==
  ASSUME rows' = rows
  PROVE  \A u : Friends(u)' = Friends(u)
BY DEF Friends

\* A step that has nothing unsettled and touches no list.
LEMMA Harmless ==
  ASSUME TypeInv, CacheInv, NEW w \in Workers, OthersStay(w),
         UNCHANGED <<rows, cache, left>>, Unsettled(w) = {},
         worker'[w].step = "fill" /\ ~worker'[w].late =>
            worker'[w].res = Friends(worker[w].user)'
  PROVE  CacheInv'
<1>1. Relied(w, None)
  <2>1. \A u : Friends(u)' = Friends(u)
    BY UnchangedRows
  <2>2. \A v \in Workers \ {w} : worker'[v] = worker[v] /\ (At(v, "fill") => worker[v].user # None)
    BY StepFields, FriendServiceAssumption DEF OthersStay, At
  <2>3. \A u \in Users : u # None
    BY FriendServiceAssumption
  <2> QED
    BY <2>1, <2>2, <2>3 DEF Relied
<1> QED
  BY <1>1, ReliedKeeps

\* The statement of a change: its lists are unsettled then, or left.
LEMMA StatementKeepsCache ==
  ASSUME TypeInv, CacheInv, NEW w \in Workers, Statement(w)
  PROVE  CacheInv'
<1> DEFINE x == Row(w)[1]
<1>1. /\ At(w, "first") \/ At(w, "second")
      /\ UNCHANGED cache
  BY DEF Statement
<1>2. /\ worker[w] \in Busy /\ worker[w].step # "idle"
      /\ worker[w].user \in Users /\ worker[w].friend \in Ids
      /\ Row(w) \in Ids \X Ids /\ rows \subseteq Ids \X Ids
      /\ x = (IF At(w, "first") THEN worker[w].user ELSE worker[w].friend)
  BY <1>1, RowTyped DEF At, Row, TypeInv, TypeOK
<1>3. /\ AfterRows(w) \in Steps \cup {"end"}
      /\ At(w, "first") => AfterRows(w) = "second"
      /\ At(w, "second") => AfterRows(w) = IF redis = "none" THEN "end" ELSE "touch1"
  BY <1>1, AfterRowsTyped DEF AfterRows, At, Steps, DbSteps, CacheSteps
<1>4. /\ At(w, "first") => Unsettled(w) = {}
      /\ At(w, "second") => Unsettled(w) = {worker[w].user}
      /\ MyPair(w) = {worker[w].user, worker[w].friend}
  BY <1>1, <1>2 DEF Unsettled, At, MyPair, Pair
<1>5. Idle.step = "idle"
  BY DEF Idle
\* What the call has unsettled next.
<1>6. ASSUME worker'[w].step = AfterRows(w), AfterRows(w) # "end",
             worker'[w].user = worker[w].user, worker'[w].friend = worker[w].friend
      PROVE  /\ At(w, "first") => Unsettled(w)' = {worker[w].user}
             /\ At(w, "second") => Unsettled(w)' = MyPair(w) \cap Users
  BY <1>1, <1>2, <1>3, <1>4, <1>6 DEF Unsettled
<1>7. \A u, S : cache[u].kind = "list" /\ u \notin Leave(S) /\ u \in Users => u \notin left /\ u \notin S
  BY DEF Leave
<1>8. ASSUME ChangeRow(w)
      PROVE  \A u \in Users : u # x => Friends(u)' = Friends(u)
  <2>1. \A u, f \in Ids : u # x => (<<u, f>> \in rows' <=> <<u, f>> \in rows)
    BY <1>2, <1>8 DEF ChangeRow
  <2> QED
    BY <2>1 DEF Friends
<1>9. ASSUME NEW r, worker' = [Outdating(x) EXCEPT ![w] = r]
      PROVE  /\ worker'[w] = r
             /\ \A v \in Workers \ {w} :
                  \/ worker'[v] = worker[v] /\ (At(v, "fill") => worker[v].user # x)
                  \/ Same(worker'[v], worker[v]) /\ (At(v, "fill") => worker'[v].late)
  <2>1. /\ worker'[w] = r
        /\ \A v \in Workers \ {w} :
               IF At(v, "fill") /\ worker[v].user = x
               THEN worker'[v] \in Busy /\ Same(worker'[v], worker[v]) /\ worker'[v].late
               ELSE worker'[v] = worker[v]
    BY <1>9, OutdatingEffect DEF Outdates
  <2> QED
    BY <2>1
<1>10. CASE Executed(w)
  <2> DEFINE r == Moved(w, AfterRows(w))
  <2>1. /\ worker'[w] = r
        /\ \A v \in Workers \ {w} :
             \/ worker'[v] = worker[v] /\ (At(v, "fill") => worker[v].user # x)
             \/ Same(worker'[v], worker[v]) /\ (At(v, "fill") => worker'[v].late)
    BY <1>9, <1>10 DEF Executed
  <2>2. /\ AfterRows(w) = "end" => r = Idle
        /\ AfterRows(w) # "end" =>
              /\ r.step = AfterRows(w) /\ r.user = worker[w].user /\ r.friend = worker[w].friend
    BY <1>2, <1>3, MovedFields
  <2> HIDE DEF r
  <2>3. \A u \in Users : u # x => Friends(u)' = Friends(u)
    BY <1>8, <1>10 DEF Executed
  <2>4. ASSUME NEW u \in Users, cache[u].kind = "list", u \notin left', u \notin Unsettled(w)'
        PROVE  u # x /\ u \notin left /\ u \notin Unsettled(w)
    <3>1. CASE AfterRows(w) = "end"
      <4>1. At(w, "second") /\ left' = Leave(MyPair(w))
        BY <1>1, <1>3, <1>10, <3>1 DEF Executed
      <4>2. u \notin left /\ u \notin MyPair(w)
        BY <1>7, <2>4, <4>1
      <4> QED
        BY <1>2, <1>4, <4>1, <4>2 DEF At
    <3>2. CASE AfterRows(w) # "end"
      <4>1. left' = left
        BY <1>1, <1>3, <1>10, <3>2 DEF Executed
      <4> QED
        BY <1>1, <1>2, <1>4, <1>6, <2>1, <2>2, <2>4, <3>2, <4>1
    <3> QED
      BY <3>1, <3>2
  <2>5. worker'[w].step # "fill"
    BY <1>1, <1>3, <1>5, <2>1, <2>2
  <2>6. Relied(w, x)
    BY <1>1, <2>1, <2>3, <2>4, <2>5 DEF Relied
  <2> QED
    BY <2>6, ReliedKeeps
<1>11. CASE StatementFails(w)
  <2>1. worker'[w] = Idle /\ OthersStay(w) /\ rows' = rows /\ left' = Leave(Unsettled(w))
    BY <1>2, <1>11, GotoEffect, MovedFields DEF StatementFails
  <2>2. \A u : Friends(u)' = Friends(u)
    BY <2>1, UnchangedRows
  <2>3. \A v \in Workers \ {w} : At(v, "fill") => worker[v].user # None
    BY StepFields, FriendServiceAssumption DEF At
  <2>4. Relied(w, None)
    BY <1>1, <1>5, <1>7, <2>1, <2>2, <2>3, FriendServiceAssumption DEF Relied, OthersStay
  <2> QED
    BY <2>4, ReliedKeeps
<1>12. CASE Crossed(w)
  <2>1. CASE /\ ChangeRow(w)
             /\ worker' = [Outdating(Row(w)[1]) EXCEPT ![w] = Idle]
             /\ left' = Leave(Unsettled(w) \cup {Row(w)[1]})
    <3>1. /\ worker'[w] = Idle
          /\ \A v \in Workers \ {w} :
               \/ worker'[v] = worker[v] /\ (At(v, "fill") => worker[v].user # x)
               \/ Same(worker'[v], worker[v]) /\ (At(v, "fill") => worker'[v].late)
      BY <1>9, <2>1
    <3>2. \A u \in Users : u # x => Friends(u)' = Friends(u)
      BY <1>8, <2>1
    <3>3. ASSUME NEW u \in Users, cache[u].kind = "list", u \notin left'
          PROVE  u # x /\ u \notin left /\ u \notin Unsettled(w)
      BY <1>7, <2>1, <3>3
    <3>4. Relied(w, x)
      BY <1>1, <1>5, <3>1, <3>2, <3>3 DEF Relied
    <3> QED
      BY <3>4, ReliedKeeps
  <2>2. CASE /\ IF AfterRows(w) = "end" THEN Goto(w, "end")
                ELSE worker' = [worker EXCEPT ![w].step = AfterRows(w), ![w].late = TRUE]
             /\ left' = IF At(w, "second") /\ redis = "none" THEN Leave(MyPair(w)) ELSE left
             /\ UNCHANGED rows
    <3>1. /\ OthersStay(w)
          /\ AfterRows(w) = "end" => worker'[w] = Idle
          /\ AfterRows(w) # "end" =>
               /\ worker'[w].step = AfterRows(w) /\ worker'[w].user = worker[w].user
               /\ worker'[w].friend = worker[w].friend
      <4>1. CASE AfterRows(w) = "end"
        BY <1>2, <2>2, <4>1, GotoEffect, MovedFields
      <4>2. CASE AfterRows(w) # "end"
        BY <1>2, <1>3, <2>2, <4>2 DEF TypeInv, TypeOK, OthersStay, Busy
      <4> QED
        BY <4>1, <4>2
    <3>2. \A u : Friends(u)' = Friends(u)
      BY <2>2, UnchangedRows
    <3>3. ASSUME NEW u \in Users, cache[u].kind = "list", u \notin left', u \notin Unsettled(w)'
          PROVE  u \notin left /\ u \notin Unsettled(w)
      <4>1. CASE AfterRows(w) = "end"
        <5>1. At(w, "second") /\ left' = Leave(MyPair(w))
          BY <1>1, <1>3, <2>2, <4>1
        <5>2. u \notin left /\ u \notin MyPair(w)
          BY <1>7, <3>3, <5>1
        <5> QED
          BY <1>4, <5>1, <5>2
      <4>2. CASE AfterRows(w) # "end"
        <5>1. left' = left
          BY <1>1, <1>3, <2>2, <4>2
        <5> QED
          BY <1>1, <1>4, <1>6, <3>1, <3>3, <4>2, <5>1
      <4> QED
        BY <4>1, <4>2
    <3>4. \A v \in Workers \ {w} : At(v, "fill") => worker[v].user # None
      BY StepFields, FriendServiceAssumption DEF At
    <3>5. worker'[w].step # "fill"
      BY <1>1, <1>3, <1>5, <3>1
    <3>6. Relied(w, None)
      BY <1>1, <3>1, <3>2, <3>3, <3>4, <3>5, FriendServiceAssumption DEF Relied, OthersStay
    <3> QED
      BY <3>6, ReliedKeeps
  <2> QED
    BY <1>12, <2>1, <2>2 DEF Crossed
<1> QED
  BY <1>10, <1>11, <1>12 DEF Statement

\* The cache commands of a change.
LEMMA CommandKeepsCache ==
  ASSUME TypeInv, CacheInv, NEW w \in Workers, TouchSet(w) \/ DelFriends(w)
  PROVE  CacheInv'
<1>1. /\ worker[w] \in Busy /\ worker[w].step # "idle"
      /\ worker[w].user \in Users /\ worker[w].friend \in Ids
      /\ cache \in [Users -> Entries]
  BY StepFields DEF TouchSet, DelFriends, At, TypeInv, TypeOK
<1>2. rows' = rows
  BY DEF TouchSet, DelFriends
<1>3. \A u : Friends(u)' = Friends(u)
  BY <1>2, UnchangedRows
<1>4. \A v \in Workers \ {w} : At(v, "fill") => worker[v].user # None
  BY StepFields, FriendServiceAssumption DEF At
<1>5. \A u \in Users : u # None
  BY FriendServiceAssumption
<1>6. ASSUME NEW step \in {"touch2", "del1", "del2", "end"}, Goto(w, step)
      PROVE  /\ OthersStay(w)
             /\ step = "end" => worker'[w].step = "idle"
             /\ step # "end" => /\ worker'[w].step = step /\ worker'[w].user = worker[w].user
                                /\ worker'[w].friend = worker[w].friend
             /\ worker'[w].step # "fill"
  BY <1>1, <1>6, GotoEffect, MovedFields DEF Steps, CacheSteps, Idle
<1>7. ASSUME OthersStay(w), worker'[w].step # "fill",
             \A u \in Users :
               (cache'[u].kind = "list" /\ u \notin left' /\ u \notin Unsettled(w)') =>
                  cache'[u] = cache[u] /\ u \notin left /\ u \notin Unsettled(w)
      PROVE  CacheInv'
  <2>1. Relied(w, None)
    BY <1>3, <1>4, <1>5, <1>7 DEF Relied, OthersStay
  <2> QED
    BY <2>1, ReliedKeeps
<1>8. CASE TouchSet(w)
  <2> DEFINE owner == IF At(w, "touch1") THEN worker[w].user ELSE worker[w].friend
             member == IF At(w, "touch1") THEN worker[w].friend ELSE worker[w].user
  <2>1. /\ At(w, "touch1") \/ At(w, "touch2")
        /\ cache' = IF redis = "open" /\ owner \in Users
                    THEN [cache EXCEPT ![owner] = Touched(w, owner, member)] ELSE cache
        /\ Goto(w, IF At(w, "touch1") THEN "touch2" ELSE "del1")
        /\ left' = left
    BY <1>8 DEF TouchSet
  <2>2. Unsettled(w) = MyPair(w) \cap Users
    BY <1>1, <2>1 DEF Unsettled, MyPair, Pair, At
  <2>3. /\ OthersStay(w) /\ worker'[w].step \in {"touch2", "del1"}
        /\ worker'[w].user = worker[w].user /\ worker'[w].friend = worker[w].friend
    BY <1>6, <2>1
  <2>4. Unsettled(w)' = MyPair(w) \cap Users
    BY <1>1, <2>3 DEF Unsettled, MyPair, Pair
  <2>5. \A u \in Users : u \notin MyPair(w) => cache'[u] = cache[u]
    <3>1. owner \in MyPair(w)
      BY DEF MyPair, Pair
    <3> HIDE DEF owner
    <3> QED
      BY <1>1, <2>1, <3>1
  <2> QED
    BY <1>7, <2>1, <2>2, <2>3, <2>4, <2>5
<1>9. CASE DelFriends(w)
  <2> DEFINE owner == IF At(w, "del1") THEN worker[w].user ELSE worker[w].friend
  <2>1. /\ At(w, "del1") \/ At(w, "del2")
        /\ IF redis = "open"
           THEN /\ cache' = [u \in Users |-> IF u = owner THEN NoKey ELSE cache[u]]
                /\ left' = left \ {owner}
           ELSE left' = Leave({owner}) /\ UNCHANGED cache
        /\ Goto(w, IF At(w, "del1") THEN "del2" ELSE "end")
    BY <1>9 DEF DelFriends
  <2>2. /\ OthersStay(w) /\ worker'[w].step # "fill"
        /\ At(w, "del1") => /\ worker'[w].step = "del2" /\ worker'[w].user = worker[w].user
                            /\ worker'[w].friend = worker[w].friend
        /\ ~At(w, "del1") => worker'[w].step = "idle"
    BY <1>6, <2>1
  <2>3. \A u \in Users : u # owner /\ u \notin Unsettled(w)' => u \notin Unsettled(w)
    BY <1>1, <2>1, <2>2 DEF Unsettled, At
  <2> HIDE DEF owner
  <2>4. NoKey.kind = "none"
    BY DEF NoKey
  <2>5. ASSUME NEW u \in Users, cache'[u].kind = "list", u \notin left'
        PROVE  u # owner /\ cache'[u] = cache[u] /\ u \notin left
    <3>1. CASE redis = "open"
      <4>1. cache'[u] = IF u = owner THEN NoKey ELSE cache[u]
        BY <2>1, <3>1
      <4> QED
        BY <2>1, <2>4, <2>5, <3>1, <4>1
    <3>2. CASE redis # "open"
      BY <2>1, <2>5, <3>2 DEF Leave
    <3> QED
      BY <3>1, <3>2
  <2> QED
    BY <1>7, <2>2, <2>3, <2>5
<1> QED
  BY <1>8, <1>9

\* Every step keeps the lists current.
LEMMA CacheKept ==
  ASSUME TypeInv, CacheInv, [Next]_vars
  PROVE  CacheInv'
<1>0. Idle.step = "idle" /\ Idle.op = "none"
  BY DEF Idle
\* A step of a call that has changed nothing.
<1>1. ASSUME NEW w \in Workers, NEW step \in {"end", "target", "first", "select"}, Goto(w, step),
             worker[w].step \in {"check", "target", "get", "select"},
             UNCHANGED <<rows, cache, left>>
      PROVE  CacheInv'
  <2>1. OthersStay(w) /\ worker'[w].step # "fill"
    BY <1>0, <1>1, GotoEffect, MovedFields DEF Steps, DbSteps
  <2>2. Unsettled(w) = {}
    BY <1>1, NothingUnsettled
  <2>3. worker'[w].step = "fill" /\ ~worker'[w].late =>
           worker'[w].res = Friends(worker[w].user)'
    BY <2>1
  <2> QED
    BY <1>1, <2>1, <2>2, <2>3, Harmless
<1>2. ASSUME NEW w \in Workers, NEW op \in {"add", "remove"}, NEW step \in {"check", "first"},
             NEW u \in Users, NEW f \in Ids, CallChange(w, op, step, u, f)
      PROVE  CacheInv'
  <2>1. worker[w] = Idle /\ worker'[w].step = step /\ UNCHANGED <<rows, cache, left>>
    <3>1. worker[w] = Idle /\ worker'[w].step = step
      BY <1>2, CallChangeEffect
    <3> QED
      BY <1>2, <3>1 DEF CallChange
  <2>2. \A v \in Workers \ {w} :
          \/ worker'[v] = worker[v]
          \/ Same(worker'[v], worker[v]) /\ IsChange(v)
    <3>1. \A v \in Workers \ {w} :
            IF IsChange(v) /\ MyPair(v) = Pair(u, f)
            THEN worker'[v] \in Busy /\ Same(worker'[v], worker[v]) /\ worker'[v].late
            ELSE worker'[v] = worker[v]
      BY <1>2, CallChangeEffect
    <3> QED
      BY <3>1
  <2>3. \A v \in Workers : At(v, "fill") => ~IsChange(v) /\ worker[v].user # None
    BY StepFields, FriendServiceAssumption DEF At, IsChange
  <2>4. Unsettled(w) = {}
    BY <1>0, <2>1, NothingUnsettled
  <2>5. \A x : Friends(x)' = Friends(x)
    BY <2>1, UnchangedRows
  <2>6. Relied(w, None)
    BY <2>1, <2>2, <2>3, <2>4, <2>5, FriendServiceAssumption DEF Relied
  <2> QED
    BY <2>6, ReliedKeeps
<1>3. ASSUME NEW w \in Workers, NEW u \in Users, CallGetFriends(w, u) PROVE CacheInv'
  <2>1. worker'[w].step # "fill" /\ OthersStay(w)
    BY <1>3 DEF CallGetFriends, NewCall, TypeInv, TypeOK, OthersStay
  <2>2. Unsettled(w) = {}
    BY <1>0, <1>3, NothingUnsettled DEF CallGetFriends
  <2> QED
    BY <1>3, <2>1, <2>2, Harmless DEF CallGetFriends
<1>4. ASSUME NEW w \in Workers, IsFriend(w) PROVE CacheInv'
  <2>1. PICK step \in {"end", "target"} : Goto(w, step)
    BY <1>4 DEF IsFriend
  <2> QED
    BY <1>1, <1>4, <2>1 DEF IsFriend, At
<1>5. ASSUME NEW w \in Workers, CheckTarget(w) PROVE CacheInv'
  <2>1. PICK step \in {"end", "first"} : Goto(w, step)
    BY <1>5 DEF CheckTarget
  <2> QED
    BY <1>1, <1>5, <2>1 DEF CheckTarget, At
<1>6. ASSUME NEW w \in Workers, GetCached(w) PROVE CacheInv'
  <2>1. PICK step \in {"end", "select"} : Goto(w, step)
    BY <1>6 DEF GetCached
  <2> QED
    BY <1>1, <1>6, <2>1 DEF GetCached, At
<1>7. ASSUME NEW w \in Workers, SelectFriends(w) PROVE CacheInv'
  <2>1. At(w, "select") /\ UNCHANGED <<rows, cache, left>>
    BY <1>7 DEF SelectFriends
  <2>2. worker[w] \in Busy
    BY <2>1, StepFields DEF At
  <2>3. ASSUME NEW res, worker' = [worker EXCEPT ![w].step = "fill", ![w].res = res,
                                    ![w].late = (res # Friends(worker[w].user))]
        PROVE  CacheInv'
    <3> DEFINE r == [worker[w] EXCEPT !.step = "fill", !.res = res,
                       !.late = (res # Friends(worker[w].user))]
    <3>1. r.res = res /\ r.user = worker[w].user /\ (r.late <=> res # Friends(worker[w].user))
      BY <2>2 DEF Busy
    <3>2. worker'[w] = r /\ OthersStay(w)
      BY <2>3 DEF TypeInv, TypeOK, OthersStay
    <3> HIDE DEF r
    <3>3. \A u : Friends(u)' = Friends(u)
      BY <2>1, UnchangedRows
    <3>4. ~worker'[w].late => worker'[w].res = Friends(worker[w].user)'
      BY <3>1, <3>2, <3>3
    <3>5. Unsettled(w) = {}
      BY <2>1, NothingUnsettled DEF At
    <3> QED
      BY <2>1, <3>2, <3>4, <3>5, Harmless
  <2>4. CASE Goto(w, "end")
    BY <1>1, <2>1, <2>4 DEF At
  <2>5. \/ \E res : worker' = [worker EXCEPT ![w].step = "fill", ![w].res = res,
                                    ![w].late = (res # Friends(worker[w].user))]
        \/ Goto(w, "end")
    BY <1>7, Zenon DEF SelectFriends
  <2> QED
    BY <2>3, <2>4, <2>5
<1>8. ASSUME NEW w \in Workers, SetFriends(w) PROVE CacheInv'
  <2> DEFINE x == worker[w].user
  <2>1. /\ At(w, "fill") /\ rows' = rows
        /\ IF redis = "open"
           THEN /\ cache' = [cache EXCEPT ![x] = [kind |-> "list", of |-> worker[w].res]]
                /\ left' = IF worker[w].late THEN left \cup {x} ELSE left \ {x}
           ELSE UNCHANGED <<cache, left>>
    BY <1>8 DEF SetFriends
  <2>2. x \in Users /\ cache \in [Users -> Entries]
    BY <2>1, StepFields DEF At, TypeInv, TypeOK
  <2>3. worker'[w] = Idle /\ OthersStay(w)
    BY <1>8, GotoEffect, MovedFields DEF SetFriends, At
  <2>4. ~worker[w].late => worker[w].res = Friends(x)
    BY <2>1 DEF CacheInv, FillCurrent
  <2>5. \A u : Friends(u)' = Friends(u)
    BY <2>1, UnchangedRows
  <2>6. Unsettled(w) = {}
    BY <2>1, NothingUnsettled DEF At
  <2> HIDE DEF x
  <2>7. ASSUME NEW u \in Users, cache'[u].kind = "list", u \notin left'
        PROVE  cache'[u].of = Friends(u)' \/ (cache'[u] = cache[u] /\ u \notin left)
    <3>1. CASE u = x /\ redis = "open"
      <4>1. ~worker[w].late /\ cache'[u].of = worker[w].res
        BY <2>1, <2>2, <2>7, <3>1
      <4> QED
        BY <2>4, <2>5, <3>1, <4>1
    <3>2. CASE ~(u = x /\ redis = "open")
      BY <2>1, <2>2, <2>7, <3>2
    <3> QED
      BY <3>1, <3>2
  <2>8. \A v \in Workers \ {w} : At(v, "fill") => worker[v].user # None
    BY StepFields, FriendServiceAssumption DEF At
  <2>9. Relied(w, None)
    BY <1>0, <2>3, <2>5, <2>6, <2>7, <2>8, FriendServiceAssumption DEF Relied, OthersStay
  <2> QED
    BY <2>9, ReliedKeeps
<1>9. ASSUME NEW x \in Users, Expire(x) PROVE CacheInv'
  <2>1. /\ rows' = rows /\ worker' = worker
        /\ cache' = [cache EXCEPT ![x] = NoKey] /\ left' = left \ {x}
        /\ cache \in [Users -> Entries]
    BY <1>9 DEF Expire, TypeInv, TypeOK
  <2>2. \A u : Friends(u)' = Friends(u)
    BY <2>1, UnchangedRows
  <2>3. \A v \in Workers : Unsettled(v)' = Unsettled(v)
    BY <2>1, UnsettledSame
  <2>4. \A u \in Users : cache'[u].kind = "list" => u # x /\ cache'[u] = cache[u]
    BY <2>1 DEF NoKey
  <2>5. CachedListCurrent'
    <3> SUFFICES ASSUME NEW u \in Users, cache'[u].kind = "list", u \notin left',
                        \A v \in Workers : u \notin Unsettled(v)'
                 PROVE  cache'[u].of = Friends(u)'
      BY DEF CachedListCurrent
    <3>1. u # x /\ cache'[u] = cache[u] /\ u \notin left
      BY <2>1, <2>4
    <3>2. \A v \in Workers : u \notin Unsettled(v)
      BY <2>3
    <3>3. cache[u].of = Friends(u)
      BY <3>1, <3>2 DEF CacheInv, CachedListCurrent
    <3> QED
      BY <2>2, <3>1, <3>3
  <2>6. FillCurrent'
    BY <2>1, <2>2 DEF CacheInv, FillCurrent, At
  <2> QED
    BY <2>5, <2>6 DEF CacheInv
<1>10. CASE Restart
  <2>1. /\ rows' = rows /\ cache' = cache /\ \A v \in Workers : worker'[v] = Idle
        /\ left' = Leave(UNION {Unsettled(v) : v \in Workers})
    BY <1>10 DEF Restart
  <2>2. \A u : Friends(u)' = Friends(u)
    BY <2>1, UnchangedRows
  <2>3. \A u \in Users : cache[u].kind = "list" /\ u \notin left' =>
           u \notin left /\ \A v \in Workers : u \notin Unsettled(v)
    BY <2>1 DEF Leave
  <2> QED
    BY <1>0, <2>1, <2>2, <2>3 DEF CacheInv, CachedListCurrent, FillCurrent, At
<1>11. CASE UNCHANGED <<rows, cache, worker, left>>
  <2>1. \A u : Friends(u)' = Friends(u)
    BY <1>11, UnchangedRows
  <2>2. \A v \in Workers : Unsettled(v)' = Unsettled(v)
    BY <1>11, UnsettledSame
  <2> QED
    BY <1>11, <2>1, <2>2 DEF CacheInv, CachedListCurrent, FillCurrent, At
<1>12. ASSUME NEW w \in Workers, Statement(w) PROVE CacheInv'
  BY <1>12, StatementKeepsCache
<1>13. ASSUME NEW w \in Workers, TouchSet(w) \/ DelFriends(w) PROVE CacheInv'
  BY <1>13, CommandKeepsCache
<1>14. ASSUME NEW w \in Workers, NEW u \in Users, NEW f \in Ids,
              CallAddFriend(w, u, f) \/ CallRemoveFriend(w, u, f)
       PROVE  CacheInv'
  BY <1>2, <1>14 DEF CallAddFriend, CallRemoveFriend
<1> QED
  BY <1>3, <1>4, <1>5, <1>6, <1>7, <1>8, <1>9, <1>10, <1>11, <1>12, <1>13, <1>14
     DEF Next, Receive, Execute, Outage, vars

\* A cached list is what the table says, unless a change is on its way, or has
\* left it.
THEOREM CachedListKeptCurrent == Spec => []CachedListCurrent
<1>1. CacheInv => CachedListCurrent
  BY DEF CacheInv
<1> QED
  BY <1>1, TypeInit, TypeKept, CacheInit, CacheKept, PTL DEF Spec
=============================================================================
