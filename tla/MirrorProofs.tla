----------------------------- MODULE MirrorProofs -----------------------------
(***************************************************************************)
(* The safety properties of Mirror, for any size of the pool, any timeout  *)
(* and any number of lines.                                                *)
(***************************************************************************)
EXTENDS Mirror, FiniteSetTheorems, TLAPS

\* queries are started in order, one for each line that was counted
Started == \A q \in Query : query[q] # "none" <=> q <= count

\* a line that is taken to the pool is within the bound
Admitted == loop = "acquire" => count < MaxLines

\* While the loop is at the pool no query starts, so every query that runs has
\* run for as long as the loop has been there: all of it in its dial, or the
\* most a dial takes and then the time it has waited for its answer.
Waited ==
  \A q \in Query :
    /\ query[q] = "dial" => blocked <= age[q]
    /\ query[q] = "answer" => blocked <= dnsTimeout + age[q]

IInv ==
  /\ TypeOK /\ Started /\ Admitted /\ Waited
  /\ pool = Cardinality(Outstanding)
  /\ reported = lastCount
  /\ BlockedBounded

\* What the assumption says of the constants.
LEMMA Constants ==
  /\ PoolCap \in Nat /\ PoolCap > 0 /\ dnsTimeout \in Nat /\ dnsTimeout > 0
  /\ MaxLines \in Nat /\ MaxGap \in Nat /\ MaxGap > 2 * dnsTimeout
  /\ Query = 1 .. MaxLines
BY MirrorAssumption DEF Query

\* The queries that hold a slot are finitely many.
LEMMA OutstandingFinite ==
  /\ IsFiniteSet(Outstanding) /\ Cardinality(Outstanding) \in Nat
<1>1. IsFiniteSet(Query)
  BY FS_Interval, Constants
<1>2. Outstanding \subseteq Query
  BY DEF Outstanding
<1>3. IsFiniteSet(Outstanding)
  BY <1>1, <1>2, FS_Subset
<1> QED
  BY <1>3, FS_CardinalityType

\* The invariant holds at the start.
LEMMA InitInv == Init => IInv
<1> SUFFICES ASSUME Init PROVE IInv
  OBVIOUS
<1>1. Outstanding = {}
  BY DEF Init, Outstanding
<1>2. tick \in BOOLEAN
  BY Zenon DEF Init
<1>3. TypeOK
  BY <1>2, Constants DEF Init, TypeOK, Stamp
<1>4. pool = Cardinality(Outstanding)
  BY <1>1, FS_EmptySet DEF Init
<1> QED
  BY <1>3, <1>4, Constants
  DEF Init, IInv, Started, Admitted, Waited, BlockedBounded

\* ticker.C is empty or holds a tick
LEMMA TickType ==
  ASSUME tick \in BOOLEAN, [Next]_vars
  PROVE  tick' \in BOOLEAN
BY Zenon
DEF Next, vars, Line, NoLine, TailStops, Acquire, Report, Second, QueryStep,
    Dialed, Answered, Timeout, Release

\* a step of one query that leaves its slot with it
LEMMA QueryStepInv ==
  ASSUME IInv, [Next]_vars, NEW q \in Query,
         NEW here \in SUBSET {"dial", "answer"}, NEW there \in {"answer", "done"},
         there = "answer" => here = {"dial"}, QueryStep(q, here, there)
  PROVE  IInv'
<1>1. /\ query[q] \in here /\ query' = [query EXCEPT ![q] = there]
      /\ age' = [age EXCEPT ![q] = 0]
      /\ UNCHANGED <<lines, loop, stamp, position, count, lastCount, tick,
                     reported, blocked, pool>>
  BY DEF QueryStep, loopVars, ghosts
<1>2. Outstanding' = Outstanding
  BY <1>1 DEF Outstanding, IInv, TypeOK
<1>3. TypeOK'
  BY <1>1, TickType, Constants DEF IInv, TypeOK
<1>4. Started'
  BY <1>1 DEF IInv, TypeOK, Started
<1>5. Waited'
  BY <1>1, Constants DEF IInv, TypeOK, Waited
<1> QED
  BY <1>1, <1>2, <1>3, <1>4, <1>5 DEF IInv, Admitted, BlockedBounded

\* pool <- struct{}{}: the slot and the query start together
LEMMA AcquireInv ==
  ASSUME IInv, [Next]_vars, Acquire
  PROVE  IInv'
<1>1. /\ loop = "acquire" /\ pool < PoolCap /\ pool' = pool + 1
      /\ query' = [query EXCEPT ![count + 1] = "dial"]
      /\ count' = count + 1 /\ position' = stamp
      /\ loop' = "select" /\ blocked' = 0
      /\ UNCHANGED <<lines, stamp, lastCount, age, tick, reported>>
  BY DEF Acquire
<1>2. count + 1 \in Query /\ query[count + 1] = "none"
  BY <1>1, Constants DEF IInv, TypeOK, Admitted, Started
<1>3. Outstanding' = Outstanding \cup {count + 1} /\ count + 1 \notin Outstanding
  BY <1>1, <1>2 DEF Outstanding, IInv, TypeOK
<1>4. Cardinality(Outstanding') = pool + 1
  BY <1>3, OutstandingFinite, FS_AddElement DEF IInv
<1>5. TypeOK'
  BY <1>1, <1>2, TickType, Constants DEF IInv, TypeOK, Admitted
<1>6. Started'
  BY <1>1, <1>2, Constants DEF IInv, TypeOK, Started
<1>7. Waited'
  BY <1>1, <1>2, Constants DEF IInv, TypeOK, Waited
<1> QED
  BY <1>1, <1>4, <1>5, <1>6, <1>7, Constants
  DEF IInv, Admitted, BlockedBounded

\* <-pool
LEMMA ReleaseInv ==
  ASSUME IInv, [Next]_vars, NEW q \in Query, Release(q)
  PROVE  IInv'
<1>1. /\ query[q] = "done" /\ query' = [query EXCEPT ![q] = "gone"]
      /\ pool' = pool - 1
      /\ UNCHANGED <<lines, loop, stamp, position, count, lastCount, age, tick,
                     reported, blocked>>
  BY DEF Release, loopVars, ghosts
<1>2. Outstanding' = Outstanding \ {q} /\ q \in Outstanding
  BY <1>1 DEF Outstanding, IInv, TypeOK
<1>3. Cardinality(Outstanding') = pool - 1
  BY <1>2, OutstandingFinite, FS_RemoveElement DEF IInv
<1>4. pool - 1 \in Nat
  <2>1. IsFiniteSet(Outstanding \ {q})
    BY OutstandingFinite, FS_RemoveElement
  <2> QED
    BY <1>2, <1>3, <2>1, FS_CardinalityType
<1>5. TypeOK'
  BY <1>1, <1>4, TickType, Constants DEF IInv, TypeOK
<1>6. Started' /\ Waited'
  BY <1>1 DEF IInv, TypeOK, Started, Waited
<1> QED
  BY <1>1, <1>3, <1>5, <1>6 DEF IInv, Admitted, BlockedBounded

\* A second passes at a full pool only while every query of it still runs and
\* has time left, which bounds the seconds spent there.
LEMMA SecondInv ==
  ASSUME IInv, [Next]_vars, Second
  PROVE  IInv'
<1>1. /\ \A q \in Query : query[q] # "done" /\ ~expired(q)
      /\ loop = "acquire" => pool >= PoolCap
      /\ age' = [q \in Query |->
           IF running(q) /\ age[q] < dnsTimeout THEN age[q] + 1 ELSE age[q]]
      /\ blocked' = IF loop = "acquire" THEN bump(blocked) ELSE 0
      /\ UNCHANGED <<lines, loop, stamp, position, count, lastCount, pool, query,
                     reported>>
  BY DEF Second, loopVars
<1>2. blocked' \in Nat /\ blocked' <= blocked + 1 /\ blocked' <= MaxGap
  BY <1>1, Constants DEF bump, IInv, TypeOK
<1>3. \A q \in Query : running(q) => age[q] < dnsTimeout /\ age'[q] = age[q] + 1
  BY <1>1, Constants DEF expired, IInv, TypeOK
<1>4. Waited'
  BY <1>1, <1>2, <1>3, Constants DEF IInv, TypeOK, Waited, running
<1>5. BlockedBounded'
  <2>1. CASE loop # "acquire"
    BY <1>1, <2>1, Constants DEF BlockedBounded
  <2>2. CASE loop = "acquire"
    <3>1. Outstanding # {}
      BY <1>1, <2>2, Constants, FS_EmptySet DEF IInv
    <3>2. PICK q \in Query : running(q)
      BY <1>1, <3>1 DEF Outstanding, running
    <3> QED
      BY <1>2, <1>3, <3>2, Constants
      DEF IInv, TypeOK, Waited, running, BlockedBounded
  <2> QED
    BY <2>1, <2>2
<1>6. TypeOK'
  BY <1>1, <1>2, TickType, Constants DEF IInv, TypeOK
<1>7. Outstanding' = Outstanding
  BY <1>1 DEF Outstanding
<1> QED
  BY <1>1, <1>4, <1>5, <1>6, <1>7 DEF IInv, Started, Admitted

\* the other steps of the loop start and end no query
LEMMA LoopInv ==
  ASSUME IInv, [Next]_vars,
         \/ \E s \in Stamp : Line(s)
         \/ NoLine \/ TailStops \/ Report \/ UNCHANGED vars
  PROVE  IInv'
<1>1. /\ UNCHANGED <<pool, query, age, count, blocked>>
      /\ position' = position /\ (stamp' \in Stamp)
      /\ lines' \in {"open", "closed"} /\ loop' \in {"select", "acquire", "crashed"}
  BY DEF Line, NoLine, TailStops, Report, vars, loopVars, queryVars, ghosts,
         IInv, TypeOK
<1>2. lastCount' \in 0 .. count /\ reported' = lastCount'
  BY DEF Line, NoLine, TailStops, Report, vars, loopVars, queryVars, ghosts,
         IInv, TypeOK
<1>3. Admitted'
  BY DEF Line, NoLine, TailStops, Report, vars, loopVars, IInv, Admitted
<1>4. Outstanding' = Outstanding
  BY <1>1 DEF Outstanding
<1>5. TypeOK'
  BY <1>1, <1>2, TickType, Constants DEF IInv, TypeOK
<1> QED
  BY <1>1, <1>2, <1>3, <1>4, <1>5 DEF IInv, Started, Waited, BlockedBounded

\* Every step preserves the invariant.
LEMMA NextInv == IInv /\ [Next]_vars => IInv'
<1> SUFFICES ASSUME IInv, [Next]_vars PROVE IInv'
  OBVIOUS
<1>1. ASSUME NEW q \in Query, Dialed(q) \/ Answered(q) \/ Timeout(q)
      PROVE  IInv'
  <2>1. CASE QueryStep(q, {"dial"}, "answer")
    BY <2>1, QueryStepInv
  <2>2. CASE QueryStep(q, {"dial", "answer"}, "done")
    BY <2>2, QueryStepInv
  <2> QED
    BY <1>1, <2>1, <2>2 DEF Dialed, Answered, Timeout
<1> QED
  BY <1>1, AcquireInv, ReleaseInv, SecondInv, LoopInv DEF Next

\* The invariant holds in every reachable state.
LEMMA Invariance == Spec => []IInv
BY InitInv, NextInv, PTL DEF Spec

\* The variables have their types; in particular a position is one of the last
\* line, and no more lines are reported than were counted.
THEOREM TypeCorrect == Spec => []TypeOK
<1>1. IInv => TypeOK
  BY DEF IInv
<1> QED
  BY <1>1, Invariance, PTL

\* For any pool, the slots in use are those of the queries that have not
\* ended, whether a query was answered, failed or ran into its deadline.
THEOREM SlotsBelongToQueries == Spec => []PoolHoldsQueries
<1>1. IInv => PoolHoldsQueries
  BY Constants DEF IInv, TypeOK, PoolHoldsQueries
<1> QED
  BY <1>1, Invariance, PTL

\* Every mirrored line is in one report or still to be reported, whatever the
\* ticker drops while the loop is at the pool.
THEOREM LinesReportedOnce == Spec => []ReportsAddUp
<1>1. IInv => ReportsAddUp
  <2> SUFFICES ASSUME IInv PROVE ReportsAddUp
    OBVIOUS
  <2>1. {q \in Query : query[q] # "none"} = 1 .. count
    BY Constants DEF IInv, TypeOK, Started
  <2>2. Cardinality(1 .. count) = count
    BY FS_Interval DEF IInv, TypeOK
  <2>3. reported + (count - lastCount) = count
    BY Constants DEF IInv, TypeOK
  <2> QED
    BY <2>1, <2>2, <2>3, Zenon DEF ReportsAddUp
<1> QED
  BY <1>1, Invariance, PTL

\* A server that does not answer keeps the loop from its ticker and from the
\* log for two timeouts at most, whatever the pool and the timeout are.
THEOREM LoopReturns == Spec => []BlockedBounded
<1>1. IInv => BlockedBounded
  BY DEF IInv
<1> QED
  BY <1>1, Invariance, PTL
=============================================================================
