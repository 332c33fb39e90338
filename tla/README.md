# A TLA+ model of Glimpse

Glimpse is service discovery over DNS. On every host a `glimpse-agent` answers
A, SRV and NS questions by querying the local Consul agent's HTTP API. This
directory models the agent, the parts of its vendored libraries that carry its
behaviour (the DNS server and wire format, the Prometheus summaries and
registry) and the two load tools, checks them with TLC on small instances and
proves the main properties with TLAPS for instances of any size. Paths are
relative to the repository; `dns/` and `prometheus/` stand for the vendored
`miekg/dns` and `prometheus/client_golang/prometheus`.

## 1. Inventory

| Part | Where | State | Operations | Meets |
|---|---|---|---|---|
| DNS handler | `agent/dns.go` | none of its own; a request's response while it is built | `ServeDNS`, `serviceResponse`, `serverResponse`, truncation | calls the store; called by the DNS library |
| Addresses, errors | `agent/types.go` | none | `infoFromAddr`, `addr`, error labels | handler, store, middleware |
| Store | `agent/consul.go` | none | `getInstances`, `getServers` | HTTP calls to Consul, without a timeout |
| Logging | `agent/logging.go` | the log | `loggingWriter`, `loggingStore` | wraps writer and store |
| Metrics | `agent/instrumentation.go` | four metric vectors, shared by all goroutines | `dnsMetricsHandler`, `metricsStore`, `trackStore` | wraps handler and store |
| Consul collector | `agent/instrumentation.go` | a map of gauges without a lock | `Describe`, `Collect`, `parseConsulStats` | called by the registry, runs `consul info` |
| Lifecycle | `agent/main.go` | `errc` | start-up, servers, signal, collector registration | ends the process on the first error |
| Summaries | `prometheus/summary.go` | two buffers, two locks, age buckets | `Observe`, `Write`, flush in the background | observed by requests, read by scrapes |
| Registry | `prometheus/registry.go` | descriptors, one lock | `Register`, `writePB` | callbacks run in goroutines of their own |
| DNS server | `dns/server.go` | connections, a counter for each | accept loop, `serve`, timeouts | one goroutine per connection |
| Wire format | `dns/msg.go` | compression map of a message | `PackBuffer`, `Unpack` | every message in and out |
| mirror | `utils/mirror` | pool of 50, counters | tail a log, repeat its questions | a DNS server |
| stare | `utils/stare` | two counters | ask at a rate, print rates | a DNS server |
| Consul | external | catalogue, followers, WAN pool | health query, member list | answers stale reads |

Hard about this code, and why a model helps:

* the catalogue changes while a request is being served, and the agent reads it
  through followers that lag (`AllowStale`): what may an answer contain, and what
  must it?
* every failure has to be told apart from "no instances", because a name error
  is proof of absence to a resolver, and one of Consul's failures
  ("No path to datacenter") deliberately is not;
* name-server names are positions in a list that each request fetches and sorts
  for itself;
* a panic in one goroutine ends the process: the DNS library does not recover;
* the store call has no timeout, and neither has a write on a connection;
* three layers of middleware report on one request, in metrics and in the log;
* a summary locks in one goroutine and unlocks in another, and compares two
  times for equality to end a loop;
* the collector is called by concurrent scrapes, and by attempts to register
  that overlap with them, over a map without a lock;
* the accept loop reads the first message of every client itself.

The full list, line by line and with the property that covers each item, is
`hazards` in `PROJECT.json`.

## 2. Modules

| Module | Models | Composition |
|---|---|---|
| `Address` | names, zone suffix, question formats, `infoFromAddr` | operators, with a reference definition |
| `Consul` | Consul (external) | extends `Address` |
| `Store` | `consulStore` | extends `Consul` |
| `Agent` | handlers and middleware | extends `Store`: the agent and Consul together |
| `ConsulStats` | `parseConsulStats` | operators, with a reference definition |
| `Collector` | `consulCollector`, `registerConsulCollector`, `Register`, `writePB` | callbacks, registrar and scrapes together |
| `Summary` | a summary | implements `Recorder` |
| `Recorder` | what a summary promises | abstract |
| `Server` | TCP connections | the handler, which is `Agent`, is one step: quick, or waiting for Consul |
| `Wire` | packing and unpacking | |
| `Lifecycle` | `main` | |
| `Mirror`, `Stare` | the two tools | with the deadlines of the library's client |
| `AgentProofs`, `CollectorProofs`, `FormatsProofs`, `MirrorProofs`, `ServerProofs`, `StareProofs`, `SummaryProofs`, `WireProofs` | | theorems; each extends the module it is about, `FormatsProofs` those of `MCFormats` |
| `MCFormats`, `MCAgent`, `MCCollector`, `MCSummary`, `MCServer`, `MCWire` | | instances for TLC |

A definition named `<operation>_<Change>` is the operation with a plausible bug.
It takes no part in a specification; `mutants` in `PROJECT.json` says which
property fails when it stands in for the original.

### Names (`Address`)

A name is the sequence of its labels, without the root. The regular expressions
only ask which class a label belongs to, so the classes (`Field`, `ZoneLabel`,
`NSLabel`) are constants with the inclusions that the expressions imply.
`strings.HasSuffix` compares text and not labels; `Glued` holds the labels whose
text ends in that of the zone's first label, so that this difference is kept.
Left out: labels with an escaped dot, and letter case.

### Requests (`Agent`, `Store`, `Consul`)

| State `pc` | The goroutine is | Leaves it by |
|---|---|---|
| `idle` | not started | `Receive` |
| `serving` | in `ServeDNS`, before any outside call | `ServeFailed`, `ServeMulti`, `ServeForeign`, `ServeInvalid`, `ServeUnsupported` (writes at once), `CallInstances`, `CallServers` |
| `consul` | waiting for the HTTP reply | `InstancesReturned`, `ServersReturned`: the store's result, then metrics, then the log |
| `returned` | back in the responder | `serviceResponse`, `serverResponse`: builds the response and writes it |
| `written` | back in `dnsMetricsHandler` | `Observe` |
| `done` | finished | |

The steps are the places where another party can see or influence something:
Consul reads its catalogue in one step, within the two `*Returned` actions, and
any number of changes of Consul's (`Environment`) and steps of other goroutines
fit between two steps of a goroutine. `WriteMsg` is the whole writer chain:
truncation, the write, which may fail, the log line. The metrics of one store
call are updated in one step; that the library makes each of them atomic is
checked in `Summary`.

`resp` is the message, with the SOA record reduced to its section and times;
records carry what `newRR` takes from the instance, or are `panicRR`, for a type
`newRR` does not know and for `servers[index]` beyond the list; writing such a
message, or cutting one to a negative length, is the crash of the process
(`panics`). `window` and `steady` are
history variables, read by properties only: the instances a stale read could
show at some moment of the request, and those that every read shows throughout.

The order of Consul's lists is not promised by anyone; a store result is a set
and the responders list it in every order (`Listings`). Host names are numbers,
ranks in the order of strings, because only `sort.Sort` looks at them. Instances
and servers are model constants with attributes; a node address that does not
parse is `None`; a port is a natural number that is converted `% 2^16`.

In `Consul`, `health` is what the leader knows to be passing, `replica` what the
followers know; a stale read answers from either. `recent` holds the entries
that were passing since their zone's followers last caught up, the most that a
stale read may show. `path` is the set of zones with a known server. Every call
can fail. Nothing limits how often instances, paths and members change.

### The collector and the registry (`Collector`, `ConsulStats`)

Three kinds of goroutines. The registrar (`rpc`) starts a `Describe`, takes the
registry's lock, reads descriptors until one is rejected or the channel is
closed, gives the lock back and, after an error, waits and starts over with a
new goroutine and a new channel: the old `Describe` may still be at work, hence
several `Describer`s. A scrape (`spc`) starts a `Collect` and gathers until its
channel is closed. The callbacks themselves (`cpc`) run the command, which has no timeout and need not
end, write their statistics into the shared map and send one gauge after the
other, waiting for room in the channel. A command that fails (`info` is `None`)
ends its callback before the map; one that prints no statistics does not. A
statistic is its metric name; the value of a gauge is the
time of the run it comes from, so that stale values can be seen. A gauge is read
when it is received.

Go leaves a data race on a map undefined. `Race` says when one is possible:
one goroutine is going to insert while another inserts or ranges. `RaceCrash`
ends the process in such a state, as the runtime may; otherwise the
operations happen one after the other, and a range visits any of the keys that
are inserted while it runs.

`parseConsulStats` is a fold over the lines of an output. A line is what the
parser asks of it: whether it has a colon or an equals sign, its parts, and
whether it fits the scanner's buffer. The reference definition speaks of the
header above a line and of the last line for a name, and has no loop. A field
whose value has a colon is a header as well, to the parser and to the reference.

### A summary (`Summary`, `Recorder`)

Observers append to `hotBuf` under `bufMtx`. When it is full or expired they
take `mtx`, swap it with `coldBuf` and leave `mtx` locked for the goroutine they
start (`flusher`), which inserts the observations into every age bucket, rotates
the buckets until `headStreamExpTime` has caught up with `hotBufExpTime`, and
unlocks. A scrape does the same itself and then reports. Each waiting for a lock
and each turn of the rotation loop is a step, so everything can happen between
them. One `flusher` is enough because `mtx` admits one at a time. An observation
is the time of its call; streams are sets of them, in place of the quantile
estimator.

`Recorder` is an atomic counter: `Observe` adds one, a scrape takes the number
at one moment (`Take`) and reports it (`Report`). The mapping counts what is in
the counter and in both buffers; a scrape takes its number when it swaps.

### Connections (`Server`)

`listener` is the goroutine of `serveTCP`: it accepts a connection, waits for
its first message itself and starts `serve`. After an error of that first read
the connection stays open with nobody to serve it (`abandoned`). `serve` takes
messages one after the other: unpack, handler, write, wait for the next. A
message is its kind: a query that needs Consul (`slow`) or not (`fast`), bytes
that do not unpack (answered with a format error), a response (ignored), one
whose two length bytes arrive separately, which `readTCP` takes for an error, or
a query whose reply does not pack or is larger than `MaxMsgSize` (`lost`):
`WriteMsg` returns an error, nothing is sent, and `serve` goes on with the next
message (`fails`). Which of the agent's replies do not pack is `Refuse` in
`Wire`. A write waits for room in the socket, without a deadline. Timeouts may
fire whenever a read would wait. `Sends` says which kinds the client of a
connection sends.

### The wire format (`Wire`)

Cells with the radix `B` in place of 256, so that the offset where pointers stop
fitting (`B / 4 * B`) is within reach of a message TLC can enumerate; `Header`
stands for what comes before the question and places it just below that
offset. Names are packed as in `packDomainName`, compression map included. The
map's keys are slices of the buffer that the removal of escapes rewrites while
it runs, and `key` says what they hold at that time. `UnpackDomainName` is one
step per label or pointer, over the agent's own packed replies and over
arbitrary cells. An A record has one address cell in place of four, the last of
the four: an address of IPv6 is sent as its last four bytes, and is one of IPv4
to whoever reads it. Of the other fields of a record only the length of its data
is kept, in two cells. A message that ends before a field leaves that field
empty, which is no error by itself (`UnpackNothing`); the data must end where
their length says (`misfit`, `UnpackA`). With TC set, `Unpack` returns after the
question (`lastField`). A name with a label that is too long, and data too long for those cells, refuse
the whole message (`unpackable`). `Replies` is any set of replies whose owner is
the question, as all of the agent's are, and whose name servers are called by
one label and then the question (`serverResponse`) or the zone the question ends
in (`newSOA`).

### The process and the tools (`Lifecycle`, `Mirror`, `Stare`)

`Lifecycle`: flags are checked, three servers and the signal goroutine are
started, each may send to `errc`, main exits with the first value. A signal
before `signal.Notify` kills the process; later it is dropped unless the
goroutine is at its receive.

`Mirror`: the select loop over lines and ticks, which stops at the pool when it
is full; queries with a deadline for the dial and another for write and read. A
second passes (`Second`) only when what can happen at once has happened.
`blocked` and `reported` are ghosts. `Stare`: the loop that starts queries, the
queries, and the loop that loads two counters one after the other.

## 3. Runs

| Run | Checks | Instance | Distinct states |
|---|---|---|---|
| `formats` | `ZoneNamesTrimmed`, `QuestionsParsed`, `StatsParsed` | names of up to 6 labels over 7; outputs of up to 4 lines of 13 kinds | 168 000 |
| `services` | `FreshAnswers`, `SteadyInstancesFound`, `TruncatedOnlyWhenFull` | 1 goroutine; 3 instances (two of the address, one with a port of 17 bits; one of another env); a zone whose path breaks; UDP limit 1 | 348 000 |
| `requests` | `NameserverCoherence`, `NoPanic`, `ErrorsAccounted`, `FailuresLogged`, `OnlyConsulWaits` | 2 goroutines, 9 kinds of requests, 2 servers, UDP limit 1; `ns9` beyond `MaxInt` | 77 000 |
| `collector` | `ScrapeComplete`, `RegisteredWhole`, `PageAvailable`, `RegisteredInTheEnd` | 2 scrapes, 2 `Describe`s, 3 statistics of which one is rejected, channels of 1, one change of Consul's output | 47 000 |
| `summary` | `ColdBufNeverTwice`, `HotBufHasRoom`, `BusySummaryRelevant`, `CountsLikeAtomic`, `EveryCallReturns` | 2 observers, 1 scrape, buffers of 2, 2 age buckets, 4 clock ticks, 3 observations | 85 000 |
| `server` | `AnswersInOrder`, `FirstAnswered`, `ConnectionsReleased` | 2 connections: 3 messages of 6 kinds, and 1 of 3 kinds; limit 1, socket buffer 1 | 489 000 |
| `wire` | `RoundTrip`, `BufferSuffices`, `UnpackEnds` | `B` = 16, questions of up to 3 labels, one with an escaped dot, two answers with addresses of both families, truncated replies; messages of up to 5 arbitrary cells | 113 000 |
| `mirror` | `PoolHoldsQueries`, `ReportsAddUp`, `BlockedBounded`, `RateReported` | pool 2, timeout 2, 4 lines | 47 000 |
| `lifecycle` | `FailureEndsProcess`, `SignalsHeard` | 3 servers, `errc` of 1, any number of signals | 732 |
| `stare` | `CountersAgree`, `AllPrinted` | 4 queries | 68 000 |
| `invalid_address` | `NotFailedByOthers` is violated | 2 instances | |
| `collector_race` | `ConcurrencySafe` is violated | 2 scrapes, 1 `Describe` | |

`services`, `collector`, `summary`, `server`, `wire` and `mirror` also check the
`TypeOK` of their module.

Why the bounds are enough.

* `formats`: a service address has 5 labels and the zone 2, so 6 has the zone's
  labels inside a name, behind it and overlapping with it. Four lines have a
  header, a field, the next header and a field with the same joined name.
* `services`: a service answer depends on one goroutine and on Consul, since
  goroutines share only counters. Three instances have every relation to a
  request (matching or not, before or after the read, seen by leader or
  follower), and are one more than the limit. The theorems remove the bounds.
* `requests`: the properties relate two goroutines. Without instances and with
  servers; the two kinds of lookups share no state. `MaxInt` stands for the
  largest `int` and only has to lie between the name servers' numbers.
* `collector`: channels of one are smaller than what is sent, so every callback
  waits in the middle of its range; two `Describe`s are one left over and one of
  the present attempt. One change of the output has statistics appear, disappear
  or become bad between any two steps.
* `summary`: three observations fill a buffer and start the next; four ticks are
  two full turns of the age buckets, and `MaxAge` is 2.
* `server`: three messages are one more than the limit lets through; one more
  connection is all that head-of-line blocking needs, and what its client sends
  matters to the first only by whether it comes, waits or is an error.
* `wire`: names are on both sides of the last offset a pointer can hold, and the
  names before a name can leave every part of it in the map. Five cells hold a
  pointer loop of two pointers.
* `mirror`: a full pool, the line waiting for it and the one behind it.

There are no state constraints: bounds are guards (`MaxTime`, `MaxObs`,
`MaxMsgs`, `MaxLines`, `MaxQueries` of `Stare`), or goroutines that serve one
request. Deadlock is checked in `services`, `requests`, `stare` and the run
`invalid_address`; the other systems do stop: messages are all packed, clients
have left, the process has exited or a bound is reached.

Fairness, and why the code justifies it.

* `requests`: weak fairness of `Serve` and `Respond` of each goroutine, since
  Go's scheduler runs what can run. Nothing of Consul: the client has no
  timeout, a call may hang.
* `collector`: registrar, callbacks and gathering go on. Nothing of the command:
  the agent puts no limit on it (`agent/instrumentation.go:230`), it may hang.
  New scrapes and changes of Consul are never obliged to come. Go's write lock does not
  starve, and readers hold theirs only to start goroutines, so they are not a
  state of the model.
* `summary`: calls that have begun go on; weak fairness is enough because only
  the holder of `bufMtx` ever waits for `mtx`. No call needs to begin.
* `server`: the server's goroutines run, timeouts fire when nothing arrives,
  handlers of `fast` queries end. Nothing of clients, nor of Consul.
* `wire`: the loop of `UnpackDomainName` goes on.
* `mirror`: goroutines and clock go on; strong fairness of `Report`, because
  `select` chooses at random among the ready cases, and one that is ready again
  and again is taken with probability one.
* `lifecycle`, `stare`: goroutines run. Whether servers fail or signals come is
  not assumed; `stare`'s queries end by the client's deadlines.

What the runs show beyond the plain statement of the properties:

* `PageAvailable` says what a command that hangs does. While a `Describe` waits
  for it, Register has the registry locked and no scrape begins, for ever if
  need be; a scrape whose own command hangs does not end. Nothing else takes the
  page away: not the commands of earlier attempts, nor those of other scrapes.
* `RegisteredInTheEnd` has two premises. Every command ends: otherwise one
  attempt lasts for ever. And no rejected name is printed: otherwise a `Describe`
  with more descriptors than the channel holds never returns once Register has
  given up reading, and every retry leaves one more goroutine behind.
* `BusySummaryRelevant` is about scrapes that bring new observations. A summary
  that is not observed does not age: `Write` swaps only a buffer that is not
  empty, and without a swap nothing rotates (`summary.go:260`).
* `ConnectionsReleased` names the two things that keep a connection for ever.
* `AnswersInOrder` bounds the answers by the limit plus one: 129 where the code
  has 128. A reply that cannot be sent is passed over without a word, and the
  next answer follows the one before it.
* `RoundTrip` holds of names and of IPv4 addresses as one would wish. Of an IPv6
  address the reader gets an IPv4 address nobody has, and of a truncated reply
  the library's own client shows no record, although the agent sent those that
  fit.
* `BlockedBounded`: an unresponsive server stops mirror's loop, its ticker
  included, for two timeouts; the next report then covers several seconds and
  calls it the rate of one.

### What the repository says and the code does not do

Two disagreements are runs that TLC ends with a counterexample; `findings` in
`PROJECT.json` quotes the lines.

| Run | Counterexample |
|---|---|
| `invalid_address` | an entry of another env of the job has an address that does not parse: SERVFAIL, although every instance of the address asked for is in order |
| `collector_race` | one scrape inserts into the collector's map while another one ranges over it, where the interface asks for a concurrency-safe method |

Others that were met while reading and modelling, without a run of their own:

* `xsrv.net.` is answered with authority by an agent for `srv.net.`: the suffix
  test is on text (`agent/dns.go:55`).
* The SOA record of an invalid question sits in the additional section with a
  minimum TTL of 5 s, so it is not cached for `defaultInvalidTTL`.
* A job of which only another env has instances gets NOERROR without records,
  where a service without instances gets a name error.
* The "responses" gauge is not set by a call that succeeds
  (`agent/instrumentation.go:206`).
* Host names can repeat across zones, in which case the order of the name
  servers is not determined; `NameserverCoherence` excludes this.
* Collect may send gauges that Describe never announced, and those of
  statistics that are gone, with their last value.
* Label values are hashed without a separator between them
  (`prometheus/vec.go:209`), so two combinations can share a metric.
* `dns/server.go:370` speaks of a goroutine per message where a connection is
  served by one.
* A host name that cannot be packed loses the whole reply; the error of
  `WriteMsg` is logged but the client hears nothing (`agent/dns.go:79`).
* An IPv6 node address (`agent/consul.go:65` accepts one) is sent in an A record
  as its last four bytes; `dns/msg.go:654` says "we encode only the first 4".

## 4. Proofs

`tlapm <module>.tla` checks every step of a `*Proofs` module. Every safety
property that a run checks is a theorem, for every value of the constants.

| Theorem | States | Module |
|---|---|---|
| `ZoneTrimmed`, `ServiceFormats` | names, of any length | `FormatsProofs` |
| `NamesTrimmed`, `FormatsParsed`, `OutputsParsed` | `ZoneNamesTrimmed`, `QuestionsParsed`, `StatsParsed` | `FormatsProofs` |
| `TypeCorrect`, `Freshness`, `Completeness`, `PanicFreedom` | `TypeOK`, `FreshAnswers`, `SteadyInstancesFound`, `NoPanic` (for `MaxAnswers >= 0`) | `AgentProofs` |
| `TruncationHonest`, `FailuresExplained`, `ServersCoherent`, `BooksBalance` | `TruncatedOnlyWhenFull`, `FailuresLogged`, `NameserverCoherence`, `ErrorsAccounted` | `AgentProofs` |
| `TypeCorrect`, `NoSwapPanic`, `HotBufBounded`, `BusyScrapesRelevant`, `Refinement` | `TypeOK`, `ColdBufNeverTwice`, `HotBufHasRoom`, `BusySummaryRelevant`, `CountsLikeAtomic` | `SummaryProofs` |
| `TypeCorrect`, `PagesWhole`, `RegistrationWhole` | `TypeOK`, `ScrapeComplete`, `RegisteredWhole` | `CollectorProofs` |
| `TypeCorrect`, `OrderKept` | `TypeOK`, `AnswersInOrder` | `ServerProofs` |
| `TypeCorrect`, `SlotsBelongToQueries`, `LinesReportedOnce`, `LoopReturns` | `TypeOK`, `PoolHoldsQueries`, `ReportsAddUp`, `BlockedBounded` | `MirrorProofs` |
| `Counters` | `CountersAgree` | `StareProofs` |
| `Types`, `BufferSufficient`, `ReadBack` | `TypeOK`, `BufferSuffices`, `RoundTrip` | `WireProofs` |

**Names.** The last occurrence of the zone's labels in a name that ends in them
is the end (`LastPosition`), so `strings.LastIndex` finds the zone and nothing
else. `serviceQuestionRE` and `infoFromAddr` accept the same names and `addr`
inverts `infoFromAddr`: the error branch in `serviceResponse` is dead.

**Induction.** The library's induction theorems take an operator, which no
installed prover can instantiate. The proofs state induction with sets
instead: `LeastNat` (from the library's well-foundedness of `<`), `GreatestNat`
and `NatInSet` (a set that has 0 and is closed under successors has all natural
numbers). The two folds of the model are unfolded with it. A fold is a `CHOOSE`
of a recursive function over the subsets of a finite set; that there is one is
proved by induction over the size of the subsets (`SumExists`, `RunExists`).

**`consul info`.** On the subsets `1..n` the solution of the fold is the state of
the loop after `n` lines (`LoopStates`). `LoopInv` holds there: the key is the
section of line `n`, an error was returned exactly if one of the `n` lines cannot
be read, and the statistics are the last values among those lines. A line that
does not count changes nothing (`StatsKept`), one that counts replaces the value
of its name (`StatsReplaced`).

**Answers.** `FreshAnswers` and `SteadyInstancesFound` are not inductive: they
speak of the written message, which comes from the result, which came from a
read of Consul. `IInv` says what holds at each stage:

* `Lagging`: leader and followers only show entries that are `recent`;
* `Alive`: a crash needs a negative limit;
* for each goroutine, `Recorded` (while it may still read, `window` has all of
  `recent` and `steady` only what is visible now), `Asked` (in which stage
  there is a request, and that only looked-up types pass `serving`), `Returned`
  (the result, against `window` and `steady`) and `Wrote` (the message, against
  the same).

A read turns `Recorded` into `Returned`, the responder turns `Returned` into
`Wrote`; Consul's steps only touch `Recorded`, because `Environment` leaves the
history of a goroutine alone once it has read. A step of another goroutine
leaves everything alone (`Frame`).

**Message, log and result.** `Agreed` adds `JInv` for each goroutine: `Called`
(nothing is logged before the store call; after it, the line of its error) and,
once a message is written, `Told`: its flag, its log lines and its code follow
from the result, and it is the truncation of what the responder put together
from a sorted listing of the result (`Composed`). `TruncatedOnlyWhenFull` and
`FailuresLogged` are read off. For `NameserverCoherence` two goroutines with the
same servers must have listed them in the same order. `OneSorted` shows it
without induction: at the least index where two sorted listings of the same
distinct hosts differ, each would have to come before the other.

**Metrics.** `Balanced`: what the store layer counted as failures is what the
handler layer observed as SERVFAIL plus the number of requests that have failed
and are not observed yet (`Owed`, finite although requests need not be). The
counters are sums over a function; the sum lemmas say that adding one to one
counter adds one to the sum (`SumCountsUp`).

**Summaries.** `ColdBufNeverTwice` alone is not inductive: it needs that the cold
buffer is empty whenever `mtx` is free, which takes

* `ColdBufOwned`: a cold buffer with content belongs to the holder of `mtx`, and
  that one has yet to flush it;
* `LocksHeld`: the stage a thread is in says which locks it holds, with `mtx`
  passing from the observer to `flusher` in one step;
* `PcRange`: which stages each kind of thread can be in.

With these, `HotBufHasRoom` is inductive too: a full buffer is in the hands of an
observer that holds `bufMtx`. For the refinement, appending is `Observe`; a swap
moves the hot buffer into a cold one that is empty (`Swap`), so the sum stays,
and for a scrape it is `Take`; flushing moves the cold buffer into the counter,
so neither the sum nor what a waiting scrape is going to report changes; the
report is `Report`; every other step is a stutter.

`BusySummaryRelevant` needs `Ages`. Whenever `mtx` is free the two expiry times
are equal (`ExpiriesMeet`), though the rotation loop reads one of them without
its lock; what is in the hot buffer, or about to be, was observed in the period
that ends at `hotBufExpTime` (`HotYoung`, `CallsYoung`), so what is flushed is of
the head stream's period (`ColdYoung`); a stream that is `n` turns behind the
head holds nothing older than `AgeBuckets - n` periods before the head's expiry
(`StreamsYoung`), a bound that a rotation leaves as it is; and the expiry time is
not before the time of a scrape that swapped (`SwapsYoung`). The last one is
false for a scrape that found the buffer empty.

**Collector and registry.** A statistic a callback has visited is in its channel
or has been received. For a scrape (`SInv`) received means on the page, for the
registrar (`RInv`) read into `newDescIDs`; `CInv` says that what the command
printed is visited or still pending, and that no key leaves the shared map. At
the end the channel is empty, so the page and the registration are whole. A race
on the map ends the process and does nothing else in the model.

**Connections.** `CInv` ties the answers of a connection to its counter by the
stage it is in: `Unserved`, `Working` on the last message read (`q` is one less
than the messages read), or `Waiting` with that message settled: answered, or
one of those that are passed over (`Silent`).

**Tools.** Mirror: `Waited` says that a query still running has run for as long
as the loop has been at the pool, all of it in its dial, or at most one timeout
in the dial and the rest waiting for its answer; so when the loop has waited for
two timeouts, no slot can still be taken. Slots and failures are counted as
cardinalities of sets of queries. Stare: the errors that were counted are among
the queries that were started, of which one at most is not in `requests`.

**Buffer.** The length a name takes is counted in its text, what is written is
cells. By induction over the labels the cells of the first `i` are no longer
than their text, since an escape is two characters there and one cell; the zero
at the end is the one that `nameLen` adds. A pointer is two cells in place of a
label and a zero at least, and what was written before it was taken back is no
longer than the whole name. The sum over the answers is a recursive function: a
`CHOOSE`, for which `SumExists` builds a solution, and `SumGrows` and `SumLast`
put what is written so far below its last entry.

**Round trip.** Three invariants, one for each stage of a reply, and a lemma about
the keys of the compression map.

* `PackedSoFar`: what is packed is in its place (`Laid`), and the compression
  map is good (`mapOK`). `At` says what it is for a name to be in a message:
  label after label up to a zero, or to a pointer to the other labels, which are
  in a set of names and their offsets. Those that are read without a pointer are
  `near`, along one at most `near2`. `mapOK` has to be more than
  "every entry leads to its labels", which is not inductive, because a pointer
  may lead to a name that ends in a pointer: an entry leads there along one
  pointer at most (`placed`), one for the zone directly (`zoned`), and the
  question is in the map unless nothing can be (`questioned`). So no name that
  is read back takes more than two pointers, and the limit of ten
  (`PtrLimit >= 2` is assumed) is never met.
* That a hit in the map is the right one is `Faithful`: two names of a reply
  with the same key at two labels go on with the same labels there. It is false
  of names in general. `key` is a slice of a buffer from which escapes are being
  removed, so that it ends in extra dots, and an escaped dot and the end of a
  label look alike. It holds for the question and its name servers, as the label
  in front has no escapes, nor has a zone that is shorter than the question; the
  proof compares the keys from their ends (`TailKey`, `SameKeys`, `KeyOnce`,
  `NsKeys`).
* `Reading`: the fields read so far are the ones that were packed (`Right`), and
  UnpackDomainName has the first labels of the name of its field while the
  others are where it stands (`Cursor`), or an address is there. `CursorStep`
  shows that it then meets the end of the name, its next label or a pointer
  that brings it nearer, so it never fails; at the end of a name it goes on
  where the record does (`ReadsNext`).
* `Complete`: all fields up to `lastField`, which is the first one if the reply is
  truncated, and all of them right (`item`, with `asIPv4` of an address). The
  fields are a fold (`AnswerFields`).

Assumptions: `LabelAssumption`, `DomainAssumption` (main accepts no zone of one
label), `ConsulStatsAssumption`, `ConsulAssumption`, `AgentAssumption`,
`SummaryAssumption`, `CollectorAssumption`, `ServerAssumption`,
`MirrorAssumption`, `StareAssumption` and `WireAssumption`, which TLC evaluates
in the runs. They give types, that the sets of threads are disjoint, that `None` is none of the
values it stands beside, that sizes and periods are not 0, and that the sets of
instances and members are finite. `MirrorAssumption` also asks that the ghost
counter of seconds reach further than two timeouts. Goroutines and connections
need not be finitely many. The theorems of `FormatsProofs` are about any name
and any sequence of lines, not only those that the behaviours of `MCFormats`
grow. `WireAssumption` gives the radix as a multiple of 4, the shape of replies
described in section 2, and that a message has its header. TLC finds the
inductive invariants true on the instances of the runs, all but those it cannot
enumerate: the conjunct of `Told` that speaks of some message, and the
invariants of the round trip, which speak of all names.

Only model-checked, because fairness and ENABLED are out of this prover's reach,
are the liveness properties: `OnlyConsulWaits`, `PageAvailable`,
`RegisteredInTheEnd`, `EveryCallReturns`, `FirstAnswered`, `ConnectionsReleased`,
`UnpackEnds`, `RateReported`, `FailureEndsProcess`, `SignalsHeard` and
`AllPrinted`.

## 5. Not modelled

* Durations, latencies and log wording.
* UDP as a transport: a datagram is one `Request` of `Agent`, with its own
  goroutine.
* A change of the attributes of a registered instance: it is a removal and a
  registration.
* The vectors' lookup by hash, the quantile estimator inside an age bucket,
  histograms, the text and protocol-buffer encodings of the metrics page and the
  push gateway.
* Record types other than A, NS and SRV, the fields of a record other than
  its names, its address and its length, zone files, DNSSEC, TSIG, EDNS0, zone
  transfers and `Shutdown`. The agent uses none of them.
* The rest of `Godeps`: serf, memberlist, msgpack and most of protocol buffers
  are in the workspace without the agent ever running them, and of Consul's
  HTTP client the agent uses two calls, whose outcomes are in `Store`. This and
  the unused record types and zone-file scanner are the bulk of the repository's
  lines; a model of them would say nothing about Glimpse.
* `tail`, which mirror follows the log with, is not in the repository; that it
  delivers lines and may close its channel is all that is assumed.
* Build files and hooks.

## 6. Plan

1. Done: the modules and runs above, and a theorem about every safety property
   that a run checks.
2. `Discovery`, an abstract specification of a lookup: the answer is taken from
   one moment between arrival and answer; `Agent` as an implementation of it.
