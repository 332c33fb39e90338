------------------------------- MODULE Mirror -------------------------------
(***************************************************************************)
(* utils/mirror: follows the log of a resolver, repeats the questions of   *)
(* one domain at another server, at most PoolCap at a time, and reports    *)
(* its rate every second.  The main loop selects between the lines of the  *)
(* log and a ticker; it stops at the pool when all slots are taken.  The   *)
(* package tail, which follows the file, is not in the repository.         *)
(***************************************************************************)
EXTENDS Naturals, FiniteSets

CONSTANTS
  PoolCap,      \* slots of pool, 50 in the code
  dnsTimeout,   \* seconds; of the dial, and again of the write and the read
  MaxLines,     \* bound: mirrored lines
  MaxGap        \* bound: seconds the ghost counter tells apart

ASSUME MirrorAssumption ==
  /\ {PoolCap, dnsTimeout, MaxLines} \subseteq Nat \ {0}
  /\ MaxGap \in Nat /\ MaxGap > 2 * dnsTimeout

Query == 1 .. MaxLines

\* what the first field of a line is: shorter than 12 bytes, "[" number "]",
\* or 12 bytes and more of something else
Stamp == {"short", "number", "junk"}

VARIABLES
  lines,      \* t.Lines: open or closed
  loop,       \* select, acquire (at pool <- struct{}{}) or crashed
  stamp,      \* fields[0] of the line at the pool
  position,   \* fields[0] of the last mirrored line, "short" before there is one
  pool,       \* used slots
  count, lastCount,
  tick,       \* ticker.C, which holds one tick
  query,      \* by query: none, dial, answer (written, waiting), done, gone
  age,        \* seconds a query has been in its phase
  reported,   \* ghost: the sum of the reports
  blocked     \* ghost: seconds the loop has been at the pool

loopVars == <<lines, loop, stamp, position, count, lastCount>>
queryVars == <<pool, query, age>>
ghosts == <<reported, blocked>>
vars == <<loopVars, queryVars, tick, ghosts>>

Init ==
  /\ lines = "open" /\ loop = "select" /\ stamp = "short" /\ position = "short"
  /\ pool = 0 /\ count = 0 /\ lastCount = 0 /\ tick = FALSE
  /\ query = [q \in Query |-> "none"] /\ age = [q \in Query |-> 0]
  /\ reported = 0 /\ blocked = 0

Outstanding == {q \in Query : query[q] \in {"dial", "answer", "done"}}

\* a line with an error, of another kind or of another domain is skipped; a
\* question of srcDomain is taken to the pool
Line(s) ==
  /\ loop = "select" /\ lines = "open" /\ count < MaxLines
  /\ loop' = "acquire" /\ stamp' = s
  /\ UNCHANGED <<lines, position, count, lastCount, queryVars, tick, ghosts>>

\* the receive from a closed t.Lines gives a nil line, which is dereferenced
NoLine ==
  /\ loop = "select" /\ lines = "closed"
  /\ loop' = "crashed"
  /\ UNCHANGED <<lines, stamp, position, count, lastCount, queryVars, tick,
                 ghosts>>

TailStops ==
  /\ lines = "open" /\ lines' = "closed"
  /\ UNCHANGED <<loop, stamp, position, count, lastCount, queryVars, tick,
                 ghosts>>

\* mutant: the slot is taken by the goroutine, not before it
Acquire_InGoroutine ==
  /\ loop = "acquire" /\ pool' = pool + 1
  /\ query' = [query EXCEPT ![count + 1] = "dial"]
  /\ count' = count + 1 /\ position' = stamp
  /\ loop' = "select" /\ blocked' = 0
  /\ UNCHANGED <<lines, stamp, lastCount, age, tick, reported>>

\* pool <- struct{}{}; the query starts; the line is counted
Acquire ==
  /\ loop = "acquire" /\ pool < PoolCap /\ pool' = pool + 1
  /\ query' = [query EXCEPT ![count + 1] = "dial"]
  /\ count' = count + 1 /\ position' = stamp
  /\ loop' = "select" /\ blocked' = 0
  /\ UNCHANGED <<lines, stamp, lastCount, age, tick, reported>>

\* mutant: the count of a report is forgotten while its time is unknown
Report_KnownOnly ==
  /\ loop = "select" /\ tick /\ tick' = FALSE
  /\ \/ /\ position = "junk" /\ loop' = "crashed"
        /\ UNCHANGED <<lastCount, reported>>
     \/ /\ position # "junk" /\ UNCHANGED loop
        /\ reported' = reported + (count - lastCount)
        /\ lastCount' = IF position = "number" THEN count ELSE lastCount
  /\ UNCHANGED <<lines, stamp, position, count, queryVars, blocked>>

\* the ticker's case: a position that is long enough must be a number
Report ==
  /\ loop = "select" /\ tick /\ tick' = FALSE
  /\ \/ /\ position = "junk" /\ loop' = "crashed"
        /\ UNCHANGED <<lastCount, reported>>
     \/ /\ position # "junk" /\ UNCHANGED loop
        /\ reported' = reported + (count - lastCount)
        /\ lastCount' = count
  /\ UNCHANGED <<lines, stamp, position, count, queryVars, blocked>>

\* client.query -> Client.exchange: dial, write and read, any of which may
\* fail; every failure is dropped
QueryStep(q, here, there) ==
  /\ loop # "crashed" /\ query[q] \in here
  /\ query' = [query EXCEPT ![q] = there] /\ age' = [age EXCEPT ![q] = 0]
  /\ UNCHANGED <<loopVars, tick, ghosts, pool>>

Dialed(q) == QueryStep(q, {"dial"}, "answer")

\* the server answers, or the network reports an error
Answered(q) == QueryStep(q, {"dial", "answer"}, "done")

\* mutant: the connection has no read deadline
Timeout_DialOnly(q) == age[q] = dnsTimeout /\ QueryStep(q, {"dial"}, "done")

\* the deadline of the phase
Timeout(q) == age[q] = dnsTimeout /\ QueryStep(q, {"dial", "answer"}, "done")

\* mutant: the slot is given back only by a query that has been answered
Release_Answered(q) ==
  /\ loop # "crashed" /\ query[q] = "done"
  /\ query' = [query EXCEPT ![q] = "gone"]
  /\ pool' \in {pool, pool - 1}
  /\ UNCHANGED <<loopVars, age, tick, ghosts>>

\* <-pool
Release(q) ==
  /\ loop # "crashed" /\ query[q] = "done"
  /\ query' = [query EXCEPT ![q] = "gone"] /\ pool' = pool - 1
  /\ UNCHANGED <<loopVars, age, tick, ghosts>>

running(q) == query[q] \in {"dial", "answer"}

\* mutant: only dialling has a deadline
expired_DialOnly(q) == query[q] = "dial" /\ age[q] = dnsTimeout

\* when the deadline of a phase is over its query ends before more time passes
expired(q) == running(q) /\ age[q] = dnsTimeout

bump(n) == IF n < MaxGap THEN n + 1 ELSE n

\* A second passes, in which the steps that are possible at once are over:
\* a finished query has given back its slot, a free slot has been taken, an
\* idle loop has reported.  The ticker drops a tick its channel has no room for.
Second ==
  /\ loop # "crashed" /\ \A q \in Query : query[q] # "done" /\ ~expired(q)
  /\ loop = "acquire" => pool >= PoolCap
  /\ loop = "select" => ~tick
  /\ tick' = TRUE
  /\ age' = [q \in Query |->
               IF running(q) /\ age[q] < dnsTimeout THEN age[q] + 1 ELSE age[q]]
  /\ blocked' = IF loop = "acquire" THEN bump(blocked) ELSE 0
  /\ UNCHANGED <<loopVars, pool, query, reported>>

Next ==
  \/ \E s \in Stamp : Line(s)
  \/ NoLine \/ TailStops \/ Acquire \/ Report \/ Second
  \/ \E q \in Query : Dialed(q) \/ Answered(q) \/ Timeout(q) \/ Release(q)

Spec == Init /\ [][Next]_vars

\* The goroutines and the clock go on.  select chooses at random among the
\* cases that are ready, so a case that is ready again and again is taken.
Fairness ==
  /\ WF_vars(Acquire) /\ WF_vars(Second) /\ SF_vars(Report)
  /\ \A q \in Query : WF_vars(Release(q)) /\ WF_vars(Timeout(q))
FairSpec == Spec /\ Fairness

-----------------------------------------------------------------------------
(* Properties.                                                             *)

TypeOK ==
  /\ lines \in {"open", "closed"}
  /\ loop \in {"select", "acquire", "crashed"}
  /\ stamp \in Stamp /\ position \in Stamp
  /\ pool \in 0 .. PoolCap
  /\ count \in 0 .. MaxLines /\ lastCount \in 0 .. count
  /\ query \in [Query -> {"none", "dial", "answer", "done", "gone"}]
  /\ age \in [Query -> 0 .. dnsTimeout]
  /\ tick \in BOOLEAN
  /\ reported \in Nat /\ blocked \in 0 .. MaxGap

\* A slot belongs to a query that has not ended: the pool never leaks one,
\* however the query ends, and no more than PoolCap run.
PoolHoldsQueries == pool = Cardinality(Outstanding) /\ pool <= PoolCap

\* Every mirrored line is counted by exactly one report, or is still to be.
ReportsAddUp == reported + (count - lastCount) = Cardinality(
  {q \in Query : query[q] # "none"})

\* A server that does not answer stops the loop for a dial and a read at most.
BlockedBounded == blocked <= 2 * dnsTimeout

\* The loop comes back from a full pool: every tick is reported in the end,
\* until the program crashes.
RateReported == tick ~> (~tick \/ loop = "crashed")
=============================================================================
