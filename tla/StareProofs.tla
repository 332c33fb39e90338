----------------------------- MODULE StareProofs -----------------------------
(***************************************************************************)
(* CountersAgree, the invariant of Stare, for any number of queries.       *)
(***************************************************************************)
EXTENDS Stare, FiniteSetTheorems, TLAPS

TypeInv ==
  /\ started \in 0 .. MaxQueries
  /\ query \in [Query -> {"none", "running", "failed", "counted", "gone"}]
  /\ requests \in Nat /\ errors \in Nat
  /\ r \in Nat /\ lastr \in Nat /\ laste \in Nat
  /\ pc \in {"tick", "errors"}

Counted == {q \in Query : query[q] = "counted"}

\* the loop counts a request after it has started it
OneBehind ==
  started = IF counting THEN requests + 1 ELSE requests

\* a query that has failed was started
InOrder == \A q \in Query : query[q] # "none" => q <= started

Ordered == lastr <= r /\ r <= requests /\ laste <= errors

IInv ==
  TypeInv /\ OneBehind /\ InOrder /\ Ordered /\ errors = Cardinality(Counted)

\* The failures that were counted are finitely many.
LEMMA QueriesFinite ==
  /\ IsFiniteSet(Counted) /\ Cardinality(Counted) \in Nat
  /\ Counted \subseteq Query
<1>1. IsFiniteSet(Query)
  BY FS_Interval, StareAssumption DEF Query
<1>2. Counted \subseteq Query
  BY DEF Counted
<1>3. IsFiniteSet(Counted)
  BY <1>1, <1>2, FS_Subset
<1> QED
  BY <1>2, <1>3, FS_CardinalityType

\* the failures that are counted are among the queries that were started
LEMMA CountedStarted ==
  ASSUME TypeInv, InOrder
  PROVE  Cardinality(Counted) <= started
<1>1. Counted \in SUBSET (1 .. started)
  BY StareAssumption DEF Counted, TypeInv, InOrder, Query
<1>2. IsFiniteSet(1 .. started) /\ Cardinality(1 .. started) = started
  BY FS_Interval DEF TypeInv
<1> QED
  BY <1>1, <1>2, FS_Subset

\* a step that counts no failure leaves the set alone
LEMMA SameCounted ==
  ASSUME NEW q \in Query, query[q] # "counted", NEW v, v # "counted", TypeInv,
         query' = [query EXCEPT ![q] = v]
  PROVE  Counted' = Counted
BY DEF Counted, TypeInv

\* Every step preserves the invariant.
LEMMA StepInv == IInv /\ [Next]_vars => IInv'
<1> SUFFICES ASSUME IInv, [Next]_vars PROVE IInv'
  OBVIOUS
<1> USE DEF IInv, TypeInv, OneBehind, InOrder, Ordered
<1>q. Query = 1 .. MaxQueries /\ MaxQueries \in Nat
  BY StareAssumption DEF Query
<1>1. CASE Start
  <2>1. started + 1 \in Query /\ query[started + 1] # "counted"
    BY <1>1, <1>q DEF Start
  <2>2. Counted' = Counted
    BY <1>1, <2>1, SameCounted DEF Start
  <2> QED
    BY <1>1, <1>q, <2>1, <2>2 DEF Start, mainVars
<1>2. CASE CountRequest
  <2>1. Counted' = Counted
    BY <1>2 DEF CountRequest, Counted
  <2>2. OneBehind'
    <3>1. started = requests + 1
      BY <1>2 DEF CountRequest
    <3>2. ~counting' /\ requests' = requests + 1 /\ started' = started
      BY <1>2 DEF CountRequest
    <3> QED
      BY <3>1, <3>2
  <2>3. TypeInv'
    BY <1>2 DEF CountRequest, mainVars
  <2> QED
    BY <1>2, <2>1, <2>2, <2>3 DEF CountRequest, mainVars
<1>3. ASSUME NEW q \in Query, Returned(q)
      PROVE  IInv'
  <2>1. PICK end \in {"gone", "failed"} : query' = [query EXCEPT ![q] = end]
    BY <1>3 DEF Returned
  <2>2. Counted' = Counted
    BY <1>3, <2>1, SameCounted DEF Returned
  <2> QED
    BY <1>3, <2>1, <2>2 DEF Returned, sendVars, mainVars
<1>4. ASSUME NEW q \in Query, CountError(q)
      PROVE  IInv'
  <2>1. Counted' = Counted \cup {q} /\ q \notin Counted
    BY <1>4 DEF CountError, Counted
  <2>2. Cardinality(Counted') = Cardinality(Counted) + 1
    BY <2>1, QueriesFinite, FS_AddElement
  <2> QED
    BY <1>4, <2>2 DEF CountError, sendVars, mainVars
<1>5. CASE LoadRequests
  <2>1. Counted' = Counted
    BY <1>5 DEF LoadRequests, Counted
  <2> QED
    BY <1>5, <2>1 DEF LoadRequests, sendVars
<1>6. CASE LoadErrors
  <2>1. Counted' = Counted
    BY <1>6 DEF LoadErrors, Counted
  <2> QED
    BY <1>6, <2>1 DEF LoadErrors, sendVars
<1>7. CASE UNCHANGED vars
  <2>1. Counted' = Counted
    BY <1>7 DEF vars, Counted
  <2> QED
    BY <1>7, <2>1 DEF vars, sendVars, mainVars
<1> QED
  BY <1>1, <1>2, <1>3, <1>4, <1>5, <1>6, <1>7 DEF Next

\* The invariant holds at the start.
LEMMA InitInv == Init => IInv
<1> SUFFICES ASSUME Init PROVE IInv
  OBVIOUS
<1>1. Counted = {}
  BY DEF Init, Counted
<1>2. errors = Cardinality(Counted)
  BY <1>1, FS_EmptySet DEF Init
<1>3. TypeInv
  BY StareAssumption DEF Init, TypeInv
<1>4. OneBehind
  BY DEF Init, OneBehind
<1>5. InOrder /\ Ordered
  BY DEF Init, InOrder, Ordered
<1> QED
  BY <1>2, <1>3, <1>4, <1>5 DEF IInv

\* The unsigned differences that stare prints never wrap, and its errors are
\* at most the requests and the one whose counting is pending, however the
\* loads of the two counters fall between the additions of the goroutines.
THEOREM Counters == Spec => []CountersAgree
<1>1. IInv => CountersAgree
  <2> SUFFICES ASSUME IInv PROVE CountersAgree
    OBVIOUS
  <2>1. Cardinality(Counted) <= started
    BY CountedStarted DEF IInv
  <2> QED
    BY <2>1, QueriesFinite DEF IInv, TypeInv, OneBehind, Ordered, CountersAgree
<1> QED
  BY <1>1, InitInv, StepInv, PTL DEF Spec
=============================================================================
