-------------------------------- MODULE Stare --------------------------------
(***************************************************************************)
(* utils/stare: sends one question again and again, qps times a second,    *)
(* and prints the rates of requests and of errors every second.  The loop  *)
(* that starts the queries counts a request after it has started its       *)
(* goroutine; the goroutine counts the error; the main loop reads the two  *)
(* counters one after the other.                                           *)
(***************************************************************************)
EXTENDS Naturals, FiniteSets

CONSTANT MaxQueries   \* bound: queries that are started
ASSUME StareAssumption == MaxQueries \in Nat \ {0}

Query == 1 .. MaxQueries

VARIABLES
  started,          \* goroutines started
  counting,         \* the last one is not yet in requests
  query,            \* by query: none, running, failed, counted, gone
  requests, errors,
  pc, r,            \* the main loop: at its ticker, or r is loaded and e is not
  lastr, laste,
  print             \* the line it printed last

sendVars == <<started, counting, requests>>
mainVars == <<pc, r, lastr, laste, print>>
vars == <<sendVars, query, errors, mainVars>>

Init ==
  /\ started = 0 /\ counting = FALSE /\ query = [q \in Query |-> "none"]
  /\ requests = 0 /\ errors = 0
  /\ pc = "tick" /\ r = 0 /\ lastr = 0 /\ laste = 0
  /\ print = [requests |-> 0, errors |-> 0]

\* the sending loop: go func(q string)
Start ==
  /\ started < MaxQueries /\ ~counting
  /\ started' = started + 1 /\ counting' = TRUE
  /\ query' = [query EXCEPT ![started + 1] = "running"]
  /\ UNCHANGED <<requests, errors, mainVars>>

\* atomic.AddUint64(&requests, 1)
CountRequest ==
  /\ counting /\ counting' = FALSE /\ requests' = requests + 1
  /\ UNCHANGED <<started, query, errors, mainVars>>

\* client.query returns, with an error or without
Returned(q) ==
  /\ query[q] = "running"
  /\ \E end \in {"gone", "failed"} : query' = [query EXCEPT ![q] = end]
  /\ UNCHANGED <<sendVars, errors, mainVars>>

\* mutant: errors++ instead of an atomic addition
CountError_Lost(q) ==
  /\ query[q] = "failed" /\ query' = [query EXCEPT ![q] = "counted"]
  /\ errors' \in {errors, errors + 1}
  /\ UNCHANGED <<sendVars, mainVars>>

\* atomic.AddUint64(&errors, 1)
CountError(q) ==
  /\ query[q] = "failed" /\ query' = [query EXCEPT ![q] = "counted"]
  /\ errors' = errors + 1
  /\ UNCHANGED <<sendVars, mainVars>>

\* the main loop's tick: it loads requests ...
LoadRequests ==
  /\ pc = "tick" /\ pc' = "errors" /\ r' = requests
  /\ UNCHANGED <<sendVars, query, errors, lastr, laste, print>>

\* mutant: the two are remembered the wrong way round
LoadErrors_Swapped ==
  /\ pc = "errors" /\ pc' = "tick"
  /\ print' = [requests |-> r - lastr, errors |-> errors - laste]
  /\ lastr' = errors /\ laste' = r
  /\ UNCHANGED <<sendVars, query, errors, r>>

\* ... and then errors, prints the differences and remembers the two
LoadErrors ==
  /\ pc = "errors" /\ pc' = "tick"
  /\ print' = [requests |-> r - lastr, errors |-> errors - laste]
  /\ lastr' = r /\ laste' = errors
  /\ UNCHANGED <<sendVars, query, errors, r>>

Next ==
  \/ Start \/ CountRequest \/ LoadRequests \/ LoadErrors
  \/ \E q \in Query : Returned(q) \/ CountError(q)

Spec == Init /\ [][Next]_vars

\* the loops and the goroutines run; every query ends by a deadline
Fairness ==
  /\ WF_vars(Start) /\ WF_vars(CountRequest)
  /\ WF_vars(LoadRequests) /\ WF_vars(LoadErrors)
  /\ \A q \in Query : WF_vars(Returned(q)) /\ WF_vars(CountError(q))
FairSpec == Spec /\ Fairness

-----------------------------------------------------------------------------
(* Properties.                                                             *)

Failed == {q \in Query : query[q] \in {"failed", "counted"}}

\* The unsigned differences that are printed never wrap, and a query can fail
\* before its request is counted, but only the one that was started last: there
\* are never more errors than requests and that one.
CountersAgree ==
  /\ lastr <= r /\ r <= requests /\ laste <= errors
  /\ errors <= requests + 1

\* What is printed adds up to what happened: every request and every failure
\* ends up in one line.
AllPrinted == <>[](lastr = MaxQueries /\ laste = Cardinality(Failed))
=============================================================================
