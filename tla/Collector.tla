------------------------------ MODULE Collector ------------------------------
(***************************************************************************)
(* The statistics of "consul info" on the metrics page: consulCollector    *)
(* (agent/instrumentation.go), its registration (agent/main.go) and the    *)
(* registry that calls it (prometheus/registry.go).                        *)
(*                                                                         *)
(*   registrar  Register: start Describe in a goroutine, lock the          *)
(*              registry, read descriptors until the channel is closed,    *)
(*              unlock; after an error wait a second and start over        *)
(*   scrapes    writePB: start Collect in a goroutine under the read lock, *)
(*              gather metrics until the channel is closed                 *)
(*   callbacks  Describe and Collect: run the command, update the map of   *)
(*              gauges that all of them share without a lock, send         *)
(*                                                                         *)
(* A statistic is known by its metric name; the value of a gauge is the    *)
(* time of the command run that it comes from.                             *)
(***************************************************************************)
EXTENDS Integers, FiniteSets

CONSTANTS
  Stat,         \* the statistics of Consul
  Outputs,      \* the sets of them that "consul info" can print
  Rejected,     \* those with an invalid metric name, or one already in use
  Scrape,       \* goroutines serving /metrics
  Describer,    \* goroutines of Register (bound: how many at a time)
  MaxTime,      \* bound: changes of Consul's state
  capDescChan, capMetricChan,
  None

Callback == Describer \cup Scrape

ASSUME CollectorAssumption ==
  /\ Outputs \subseteq SUBSET Stat
  /\ Rejected \subseteq Stat /\ Scrape \cap Describer = {}
  /\ None \notin Callback /\ None \notin Nat /\ MaxTime \in Nat
  /\ capDescChan \in Nat \ {0} /\ capMetricChan \in Nat \ {0}

VARIABLES
  time, info,   \* Consul: its statistics now; None if the command fails
  mtx,          \* whether the registry is locked for writing
  registered,   \* the descriptors registered for the collector
  rpc,          \* the registrar
  attempt,      \* the Describe of its present or last attempt
  newDescIDs,
  spc,          \* by scrape
  cpc,          \* by callback: Describe of an attempt, Collect of a scrape
  output,       \* by callback: whether its command worked, the statistics it
                \* printed, and when
  visited,      \* by callback: the gauges sent
  pending,      \* by callback: the keys its iteration still owes
  chan,         \* by callback: sent and not yet received
  metrics,      \* the shared map: a value by statistic, None if no gauge
  shown,        \* by scrape: what it shows, None if not on the page
  crashed       \* the runtime ended the process

env == <<time, info>>
registrarVars == <<registered, rpc, attempt, newDescIDs>>
scrapeVars == <<spc, shown>>
callVars == <<cpc, output, visited, pending>>
vars == <<env, mtx, registrarVars, scrapeVars, callVars, chan, metrics, crashed>>

Init ==
  /\ time = 0 /\ info \in Outputs \cup {None}
  /\ mtx = FALSE
  /\ registered = {} /\ rpc = "idle" /\ attempt = None /\ newDescIDs = {}
  /\ spc = [s \in Scrape |-> "idle"]
  /\ shown = [s \in Scrape |-> [k \in Stat |-> None]]
  /\ cpc = [c \in Callback |-> "off"]
  /\ output = [c \in Callback |-> [err |-> "none", stats |-> {}, time |-> 0]]
  /\ visited = [c \in Callback |-> {}] /\ pending = [c \in Callback |-> {}]
  /\ chan = [c \in Callback |-> {}]
  /\ metrics = [k \in Stat |-> None]
  /\ crashed = FALSE

\* what the command prints, if it works
printed == IF info = None THEN {} ELSE info

keys == {k \in Stat : metrics[k] # None}

\* the statistics change, or the command starts or stops failing
ConsulChanges ==
  /\ ~crashed /\ time < MaxTime /\ time' = time + 1
  /\ info' \in Outputs \cup {None}
  /\ UNCHANGED <<mtx, registrarVars, scrapeVars, callVars, chan, metrics,
                 crashed>>

-----------------------------------------------------------------------------
(* Describe and Collect.                                                   *)

Call(c, here, there) ==
  ~crashed /\ cpc[c] = here /\ cpc' = [cpc EXCEPT ![c] = there]

\* the goroutine of c, to be started by its caller
Start(c) ==
  /\ cpc' = [cpc EXCEPT ![c] = "command"]
  /\ visited' = [visited EXCEPT ![c] = {}]
  /\ UNCHANGED <<output, pending>>

\* getConsulStats: the command, which has no timeout, ends; after an error the
\* callback returns without sending
RunCommand(c) ==
  /\ Call(c, "command", IF info = None THEN "returned" ELSE "update")
  /\ output' = [output EXCEPT ![c] =
                  [err |-> IF info = None THEN "failed" ELSE "none",
                   stats |-> printed, time |-> time]]
  /\ UNCHANGED <<env, mtx, registrarVars, scrapeVars, visited, pending, chan,
                 metrics, crashed>>

\* updateMetrics; a gauge is never taken out of the map
UpdateMetrics(c) ==
  /\ Call(c, "update", "range")
  /\ metrics' = [k \in Stat |-> IF k \in output[c].stats THEN output[c].time
                                ELSE metrics[k]]
  /\ pending' = [pending EXCEPT ![c] = {k \in Stat : metrics'[k] # None}]
  /\ UNCHANGED <<env, mtx, registrarVars, scrapeVars, output, visited, chan,
                 crashed>>

hasRoom(c) ==
  Cardinality(chan[c]) < IF c \in Describer THEN capDescChan ELSE capMetricChan

\* the range over the map is in any order; of keys inserted meanwhile it may
\* visit some and skip others
Send(c) ==
  /\ Call(c, "range", "range") /\ hasRoom(c)
  /\ \E k \in keys \ visited[c] :
       /\ visited' = [visited EXCEPT ![c] = @ \cup {k}]
       /\ pending' = [pending EXCEPT ![c] = @ \ {k}]
       /\ chan' = [chan EXCEPT ![c] = @ \cup {k}]
  /\ UNCHANGED <<env, mtx, registrarVars, scrapeVars, output, metrics, crashed>>

Return(c) ==
  /\ Call(c, "range", "returned") /\ pending[c] = {}
  /\ UNCHANGED <<env, mtx, registrarVars, scrapeVars, output, visited, pending,
                 chan, metrics, crashed>>

\* c is going to insert into the map while d is about to use it
Race(c, d) ==
  /\ c # d /\ cpc[c] = "update" /\ ~(output[c].stats \subseteq keys)
  /\ cpc[d] = "update" \/ (cpc[d] = "range" /\ hasRoom(d))

\* what a data race on a map may do, besides nothing
RaceCrash ==
  /\ ~crashed /\ \E c, d \in Callback : Race(c, d)
  /\ crashed' = TRUE
  /\ UNCHANGED <<env, mtx, registrarVars, scrapeVars, callVars, chan, metrics>>

-----------------------------------------------------------------------------
(* registerConsulCollector and registry.Register.                          *)

Registrar(here, there) == ~crashed /\ rpc = here /\ rpc' = there

Free == {d \in Describer : cpc[d] \in {"off", "returned"}}

\* a new goroutine and channel: any that is not in use stands for them
RegisterBegin ==
  /\ Registrar("idle", "lock") /\ Free # {}
  /\ LET d == CHOOSE d \in Free : TRUE
     IN attempt' = d /\ Start(d) /\ chan' = [chan EXCEPT ![d] = {}]
  /\ newDescIDs' = {}
  /\ UNCHANGED <<env, mtx, registered, scrapeVars, metrics, crashed>>

\* mutant: Describe is called without "go"
RegisterLock_NoGo ==
  /\ Registrar("lock", "range") /\ cpc[attempt] = "returned"
  /\ ~mtx /\ mtx' = TRUE
  /\ UNCHANGED <<env, registered, attempt, newDescIDs, scrapeVars, callVars,
                 chan, metrics, crashed>>

RegisterLock ==
  /\ Registrar("lock", "range")
  /\ ~mtx /\ mtx' = TRUE
  /\ UNCHANGED <<env, registered, attempt, newDescIDs, scrapeVars, callVars,
                 chan, metrics, crashed>>

\* mutant: the early return leaves the registry locked
unlock_NotOnError(ok) == mtx' = ~ok

\* the deferred Unlock
unlock(ok) == mtx' = FALSE

afterError == "wait"

\* mutant: descriptors are not checked
RegisterReceive_Unchecked ==
  /\ ~crashed /\ rpc = "range"
  /\ \E k \in chan[attempt] :
       /\ chan' = [chan EXCEPT ![attempt] = @ \ {k}]
       /\ newDescIDs' = newDescIDs \cup {k}
  /\ UNCHANGED <<env, mtx, rpc, registered, attempt, scrapeVars, callVars,
                 metrics, crashed>>

\* mutant: registers what it has when a descriptor is rejected
RegisterReceive_Partial ==
  /\ ~crashed /\ rpc = "range"
  /\ \E k \in chan[attempt] :
       /\ chan' = [chan EXCEPT ![attempt] = @ \ {k}]
       /\ IF k \in Rejected
          THEN rpc' = "done" /\ unlock(FALSE) /\ UNCHANGED newDescIDs
               /\ registered' = newDescIDs
          ELSE newDescIDs' = newDescIDs \cup {k}
               /\ UNCHANGED <<rpc, mtx, registered>>
  /\ UNCHANGED <<env, attempt, scrapeVars, callVars, metrics, crashed>>

\* one descriptor of the channel; an early return leaves the rest in it
RegisterReceive ==
  /\ ~crashed /\ rpc = "range"
  /\ \E k \in chan[attempt] :
       /\ chan' = [chan EXCEPT ![attempt] = @ \ {k}]
       /\ IF k \in Rejected
          THEN rpc' = afterError /\ unlock(FALSE) /\ UNCHANGED newDescIDs
          ELSE newDescIDs' = newDescIDs \cup {k} /\ UNCHANGED <<rpc, mtx>>
  /\ UNCHANGED <<env, registered, attempt, scrapeVars, callVars, metrics,
                 crashed>>

\* the channel is closed
RegisterEnd ==
  /\ ~crashed /\ rpc = "range"
  /\ cpc[attempt] = "returned" /\ chan[attempt] = {}
  /\ \/ newDescIDs = {} /\ rpc' = afterError /\ unlock(FALSE)
        /\ UNCHANGED registered
     \/ newDescIDs # {} /\ rpc' = "done" /\ unlock(TRUE)
        /\ registered' = newDescIDs
  /\ UNCHANGED <<env, attempt, newDescIDs, scrapeVars, callVars, chan, metrics,
                 crashed>>

\* time.After
RegisterRetry ==
  /\ Registrar("wait", "idle")
  /\ UNCHANGED <<env, mtx, registered, attempt, newDescIDs, scrapeVars,
                 callVars, chan, metrics, crashed>>

-----------------------------------------------------------------------------
(* registry.ServeHTTP and writePB; the other collectors of the registry    *)
(* answer at once.                                                         *)

ScrapeBegin(s) ==
  /\ ~crashed /\ spc[s] = "idle" /\ ~mtx
  /\ spc' = [spc EXCEPT ![s] = "gather"]
  /\ shown' = [shown EXCEPT ![s] = [k \in Stat |-> None]]
  /\ IF registered # {}
     THEN Start(s)
     ELSE /\ cpc' = [cpc EXCEPT ![s] = "off"]
          /\ UNCHANGED <<output, visited, pending>>
  /\ UNCHANGED <<env, mtx, registrarVars, chan, metrics, crashed>>

\* a metric is read when it is received, not when it is sent
Gather(s) ==
  /\ ~crashed /\ spc[s] = "gather"
  /\ \E k \in chan[s] :
       /\ chan' = [chan EXCEPT ![s] = @ \ {k}]
       /\ shown' = [shown EXCEPT ![s][k] = metrics[k]]
  /\ UNCHANGED <<env, mtx, registrarVars, spc, callVars, metrics,
                 crashed>>

\* mutant: the channel is closed before the collectors have returned
allReturned_NoWait(s) == TRUE

\* wg.Wait, then close(metricChan)
allReturned(s) == cpc[s] \in {"off", "returned"}

ScrapeEnd(s) ==
  /\ ~crashed /\ spc[s] = "gather" /\ chan[s] = {} /\ allReturned(s)
  /\ spc' = [spc EXCEPT ![s] = "idle"]
  /\ UNCHANGED <<env, mtx, registrarVars, shown, callVars, chan,
                 metrics, crashed>>

-----------------------------------------------------------------------------
CallbackNext(c) == RunCommand(c) \/ UpdateMetrics(c) \/ Send(c) \/ Return(c)
RegistrarNext ==
  RegisterBegin \/ RegisterLock \/ RegisterReceive \/ RegisterEnd
    \/ RegisterRetry

Next ==
  \/ ConsulChanges \/ RegistrarNext \/ RaceCrash
  \/ \E c \in Callback : CallbackNext(c)
  \/ \E s \in Scrape : ScrapeBegin(s) \/ Gather(s) \/ ScrapeEnd(s)

Spec == Init /\ [][Next]_vars

\* goroutines that can run do; the write lock waits for readers that hold
\* theirs only to start goroutines.  Nothing is assumed of the command, which
\* may hang
Fairness ==
  /\ WF_vars(RegistrarNext)
  /\ \A c \in Callback : WF_vars(UpdateMetrics(c) \/ Send(c) \/ Return(c))
  /\ \A s \in Scrape : WF_vars(Gather(s) \/ ScrapeEnd(s))
FairSpec == Spec /\ Fairness

-----------------------------------------------------------------------------
(* Properties.                                                             *)

TypeOK ==
  /\ time \in Nat /\ info \in (SUBSET Stat) \cup {None} /\ mtx \in BOOLEAN
  /\ registered \subseteq Stat \ Rejected /\ newDescIDs \subseteq Stat \ Rejected
  /\ rpc \in {"idle", "lock", "range", "wait", "done"}
  /\ attempt \in Describer \cup {None}
  /\ spc \in [Scrape -> {"idle", "gather"}]
  /\ cpc \in [Callback -> {"off", "command", "update", "range", "returned"}]
  /\ output \in [Callback ->
                   [err : {"none", "failed"}, stats : SUBSET Stat, time : Nat]]
  /\ visited \in [Callback -> SUBSET Stat]
  /\ pending \in [Callback -> SUBSET Stat]
  /\ chan \in [Callback -> SUBSET Stat]
  /\ metrics \in [Stat -> Nat \cup {None}]
  /\ shown \in [Scrape -> [Stat -> Nat \cup {None}]]
  /\ crashed \in BOOLEAN

\* A scrape is on the page with all that its own run of the command printed,
\* or with nothing if the command failed: goroutines, the wait group and the
\* closing of the channel lose no metric (registry.go:412-435).
ScrapeComplete ==
  \A s \in Scrape : spc[s] = "idle" =>
    /\ cpc[s] = "returned" =>
         \A k \in output[s].stats : shown[s][k] # None
    /\ cpc[s] = "returned" /\ output[s].err # "none" =>
         \A k \in Stat : shown[s][k] = None

\* The collector is registered with every descriptor that its Describe sent,
\* or not at all: a rejected descriptor leaves nothing behind
\* (registry.go:295, "Only after all tests have passed, actually register").
RegisteredWhole ==
  registered # {} => registered = visited[attempt] /\ registered \cap Rejected = {}

\* Only a command that hangs takes the page away, and only one that is still
\* needed: its own for a scrape that has begun, and for one to begin that of
\* Register's present attempt, which has the registry locked meanwhile.  All
\* other waits end, whatever the other commands do, those that earlier
\* attempts and other scrapes wait for included: no scrape is left in its
\* channel, and the lock is not held across the wait for the next attempt.
PageAvailable ==
  /\ \A s \in Scrape :
       (spc[s] = "gather" /\ cpc[s] # "command") ~> (spc[s] = "idle" \/ crashed)
  /\ (mtx /\ cpc[attempt] # "command") ~> (~mtx \/ crashed)

\* As long as no statistic has a name that is rejected and no command hangs:
\* once the command works the collector gets registered, failed attempts
\* leaving nothing behind that a later one stumbles over, and no Describe is
\* left hanging in the channel that Register reads, although it holds fewer
\* descriptors than there are.
CommandsEnd == \A d \in Describer : []<>(cpc[d] # "command")
RegisteredInTheEnd ==
  [](printed \cap Rejected = {}) /\ CommandsEnd =>
    /\ <>[](printed # {}) => <>(registered # {} \/ crashed)
    /\ \A d \in Describer :
         cpc[d] = "command" ~> cpc[d] = "returned" \/ crashed

\* The metrics map is used by one goroutine at a time while it grows, as
\* collector.go:45 wants it: "This method may be called concurrently and must
\* therefore be implemented in a concurrency safe way".
ConcurrencySafe == \A c, d \in Callback : ~Race(c, d)
=============================================================================
