--------------------------- MODULE CollectorProofs ---------------------------
(***************************************************************************)
(* The safety properties of Collector, for any number of statistics and    *)
(* scrapes, of attempts to register that overlap, and any size of the      *)
(* channels.                                                               *)
(***************************************************************************)
EXTENDS Collector, TLAPS

\* What a callback has sent, and what it still owes of its command's output.
CInv(c) ==
  /\ chan[c] \subseteq visited[c] /\ chan[c] \subseteq keys
  /\ cpc[c] \in {"command", "update"} => visited[c] = {}
  /\ cpc[c] \in {"update", "range"} => output[c].err = "none"
  /\ cpc[c] = "range" => output[c].stats \subseteq visited[c] \cup pending[c]
  /\ cpc[c] = "returned" =>
       /\ output[c].stats \subseteq visited[c]
       /\ output[c].err # "none" => visited[c] = {}

\* What has been sent is in the channel or on the page, and nothing else is.
SInv(s) ==
  /\ spc[s] = "idle" => cpc[s] \in {"off", "returned"} /\ chan[s] = {}
  /\ \A k \in Stat : shown[s][k] # None => k \in visited[s]
  /\ cpc[s] # "off" =>
       \A k \in visited[s] : k \in chan[s] \/ shown[s][k] # None

\* What Describe has sent is in its channel or read, until Register returns.
RInv ==
  /\ rpc # "idle" => attempt \in Describer
  /\ registered # {} <=> rpc = "done"
  /\ rpc \in {"lock", "range"} =>
       visited[attempt] = newDescIDs \cup chan[attempt]
  /\ rpc = "done" => cpc[attempt] = "returned" /\ registered = visited[attempt]

IInv ==
  /\ TypeOK /\ RInv
  /\ \A c \in Callback : CInv(c)
  /\ \A s \in Scrape : SInv(s)

\* What the assumption says of the goroutines.
LEMMA Threads ==
  /\ Describer \subseteq Callback /\ Scrape \subseteq Callback
  /\ \A d \in Describer : d \notin Scrape
  /\ None \notin Callback /\ None \notin Nat /\ Rejected \subseteq Stat
  /\ \A O \in Outputs : O \subseteq Stat
BY CollectorAssumption DEF Callback

\* the two variables that are true or false
LEMMA Flags ==
  ASSUME mtx \in BOOLEAN, crashed \in BOOLEAN, [Next]_vars
  PROVE  mtx' \in BOOLEAN /\ crashed' \in BOOLEAN
<1>1. CASE ConsulChanges \/ RaceCrash
  BY <1>1, Zenon DEF ConsulChanges, RaceCrash
<1>2. CASE RegistrarNext
  BY <1>2, Zenon DEF RegistrarNext, RegisterBegin, RegisterLock, RegisterReceive,
                     RegisterEnd, RegisterRetry, unlock
<1>3. ASSUME NEW c \in Callback, CallbackNext(c)
      PROVE  mtx' \in BOOLEAN /\ crashed' \in BOOLEAN
  BY <1>3, Zenon DEF CallbackNext, RunCommand, UpdateMetrics, Send, Return
<1>4. ASSUME NEW s \in Scrape, ScrapeBegin(s) \/ Gather(s) \/ ScrapeEnd(s)
      PROVE  mtx' \in BOOLEAN /\ crashed' \in BOOLEAN
  BY <1>4, Zenon DEF ScrapeBegin, Gather, ScrapeEnd
<1>5. CASE UNCHANGED vars
  BY <1>5, Zenon DEF vars
<1> QED
  BY <1>1, <1>2, <1>3, <1>4, <1>5, Zenon DEF Next

\* a step of another goroutine leaves a callback, and a scrape, as they are
LEMMA CFrame ==
  ASSUME NEW c \in Callback, CInv(c), keys \subseteq keys',
         cpc'[c] = cpc[c], output'[c] = output[c], visited'[c] = visited[c],
         pending'[c] = pending[c], chan'[c] = chan[c]
  PROVE  CInv(c)'
BY DEF CInv

\* The same of a scrape.
LEMMA SFrame ==
  ASSUME NEW s \in Scrape, SInv(s),
         cpc'[s] = cpc[s], visited'[s] = visited[s], chan'[s] = chan[s],
         spc'[s] = spc[s], shown'[s] = shown[s]
  PROVE  SInv(s)'
BY DEF SInv

\* The same of the registrar.
LEMMA RFrame ==
  ASSUME RInv, UNCHANGED <<rpc, registered, newDescIDs, attempt>>,
         rpc # "idle" =>
           /\ cpc'[attempt] = cpc[attempt] /\ chan'[attempt] = chan[attempt]
           /\ visited'[attempt] = visited[attempt]
  PROVE  RInv'
BY DEF RInv

-----------------------------------------------------------------------------
(* Describe and Collect.                                                   *)

\* The command ends, with statistics or with an error.
LEMMA RunCommandStep ==
  ASSUME IInv, [Next]_vars, NEW c \in Callback, RunCommand(c)
  PROVE  IInv'
<1> DEFINE there == IF info = None THEN "returned" ELSE "update"
           out == [err |-> IF info = None THEN "failed" ELSE "none",
                   stats |-> printed, time |-> time]
<1>1. /\ cpc[c] = "command" /\ cpc' = [cpc EXCEPT ![c] = there]
      /\ output' = [output EXCEPT ![c] = out]
      /\ UNCHANGED <<time, info, mtx, registered, rpc, attempt, newDescIDs, spc,
                     shown, visited, pending, chan, metrics, crashed>>
  BY DEF RunCommand, Call, env, registrarVars, scrapeVars
<1>2. /\ out \in [err : {"none", "failed"}, stats : SUBSET Stat, time : Nat]
      /\ keys' = keys /\ (info = None => out.stats = {})
  BY <1>1 DEF IInv, TypeOK, keys, printed
<1>3. TypeOK'
  BY <1>1, <1>2, Flags DEF IInv, TypeOK
<1>4. CInv(c)'
  <2>1. CInv(c) /\ cpc'[c] = there /\ output'[c] = out
    BY <1>1 DEF IInv, TypeOK
  <2> QED
    BY <1>1, <1>2, <2>1 DEF CInv
<1>5. ASSUME NEW d \in Callback, d # c
      PROVE  CInv(d)'
  BY <1>1, <1>2, <1>5, CFrame DEF IInv, TypeOK
<1>6. ASSUME NEW s \in Scrape
      PROVE  SInv(s)'
  BY <1>1, <1>6, Threads DEF IInv, TypeOK, SInv
<1>7. RInv'
  BY <1>1, Threads DEF IInv, TypeOK, RInv
<1> QED
  BY <1>3, <1>4, <1>5, <1>6, <1>7 DEF IInv

\* A callback adds its statistics to the shared map.
LEMMA UpdateMetricsStep ==
  ASSUME IInv, [Next]_vars, NEW c \in Callback, UpdateMetrics(c)
  PROVE  IInv'
<1>1. /\ cpc[c] = "update" /\ cpc' = [cpc EXCEPT ![c] = "range"]
      /\ metrics' = [k \in Stat |-> IF k \in output[c].stats
                                    THEN output[c].time ELSE metrics[k]]
      /\ pending' = [pending EXCEPT ![c] = keys']
      /\ UNCHANGED <<time, info, mtx, registered, rpc, attempt, newDescIDs, spc,
                     shown, output, visited, chan, crashed>>
  BY DEF UpdateMetrics, Call, env, registrarVars, scrapeVars, keys
<1>2. output[c].stats \subseteq Stat /\ output[c].time \in Nat
  BY DEF IInv, TypeOK
<1>3. keys \subseteq keys' /\ output[c].stats \subseteq keys' /\ keys' \subseteq Stat
  BY <1>1, <1>2, Threads DEF keys
<1>4. TypeOK'
  BY <1>1, <1>2, <1>3, Flags DEF IInv, TypeOK
<1>5. CInv(c)'
  <2>1. CInv(c) /\ cpc'[c] = "range" /\ pending'[c] = keys'
    BY <1>1 DEF IInv, TypeOK
  <2> QED
    BY <1>1, <1>3, <2>1 DEF CInv
<1>6. ASSUME NEW d \in Callback, d # c
      PROVE  CInv(d)'
  BY <1>1, <1>3, <1>6, CFrame DEF IInv, TypeOK
<1>7. ASSUME NEW s \in Scrape
      PROVE  SInv(s)'
  BY <1>1, <1>7, Threads DEF IInv, TypeOK, SInv
<1>8. RInv'
  BY <1>1, Threads DEF IInv, TypeOK, RInv
<1> QED
  BY <1>4, <1>5, <1>6, <1>7, <1>8 DEF IInv

\* A callback sends one more gauge of those it has to visit.
LEMMA SendStep ==
  ASSUME IInv, [Next]_vars, NEW c \in Callback, Send(c)
  PROVE  IInv'
<1>1. PICK k \in keys \ visited[c] :
        /\ visited' = [visited EXCEPT ![c] = @ \cup {k}]
        /\ pending' = [pending EXCEPT ![c] = @ \ {k}]
        /\ chan' = [chan EXCEPT ![c] = @ \cup {k}]
  BY DEF Send
<1>2. /\ cpc[c] = "range" /\ cpc' = cpc
      /\ UNCHANGED <<time, info, mtx, registered, rpc, attempt, newDescIDs, spc,
                     shown, output, metrics, crashed>>
  BY DEF Send, Call, env, registrarVars, scrapeVars, IInv, TypeOK
<1>3. keys' = keys /\ k \in Stat
  BY <1>2 DEF keys
<1>4. /\ visited'[c] = visited[c] \cup {k} /\ pending'[c] = pending[c] \ {k}
      /\ chan'[c] = chan[c] \cup {k}
      /\ \A d \in Callback : d # c => /\ visited'[d] = visited[d]
                                      /\ pending'[d] = pending[d]
                                      /\ chan'[d] = chan[d]
  BY <1>1 DEF IInv, TypeOK
<1>5. TypeOK'
  BY <1>1, <1>2, <1>3, Flags DEF IInv, TypeOK
<1>6. CInv(c)'
  BY <1>1, <1>2, <1>3, <1>4 DEF IInv, CInv
<1>7. ASSUME NEW d \in Callback, d # c
      PROVE  CInv(d)'
  BY <1>2, <1>3, <1>4, <1>7, CFrame DEF IInv
<1>8. ASSUME NEW s \in Scrape
      PROVE  SInv(s)'
  <2>1. CASE s # c
    BY <1>2, <1>4, <2>1, SFrame, Threads DEF IInv
  <2>2. CASE s = c
    BY <1>2, <1>4, <2>2 DEF IInv, SInv
  <2> QED
    BY <2>1, <2>2
<1>9. RInv'
  <2>1. RInv
    BY DEF IInv
  <2>2. CASE rpc = "idle"
    BY <1>2, <2>1, <2>2 DEF RInv
  <2>3. CASE rpc # "idle" /\ attempt # c
    BY <1>2, <1>4, <2>1, <2>3, RFrame, Threads DEF RInv
  <2>4. CASE rpc # "idle" /\ attempt = c
    BY <1>2, <1>4, <2>1, <2>4 DEF RInv
  <2> QED
    BY <2>2, <2>3, <2>4
<1> QED
  BY <1>5, <1>6, <1>7, <1>8, <1>9 DEF IInv

\* A callback has visited all it had to.
LEMMA ReturnStep ==
  ASSUME IInv, [Next]_vars, NEW c \in Callback, Return(c)
  PROVE  IInv'
<1>1. /\ cpc[c] = "range" /\ cpc' = [cpc EXCEPT ![c] = "returned"]
      /\ pending[c] = {}
      /\ UNCHANGED <<time, info, mtx, registered, rpc, attempt, newDescIDs, spc,
                     shown, output, visited, pending, chan, metrics, crashed>>
  BY DEF Return, Call, env, registrarVars, scrapeVars
<1>2. keys' = keys
  BY <1>1 DEF keys
<1>3. TypeOK'
  BY <1>1, Flags DEF IInv, TypeOK
<1>4. CInv(c)'
  BY <1>1, <1>2 DEF IInv, TypeOK, CInv
<1>5. ASSUME NEW d \in Callback, d # c
      PROVE  CInv(d)'
  BY <1>1, <1>2, <1>5, CFrame DEF IInv, TypeOK
<1>6. ASSUME NEW s \in Scrape
      PROVE  SInv(s)'
  BY <1>1, <1>6, Threads DEF IInv, TypeOK, SInv
<1>7. RInv'
  BY <1>1, Threads DEF IInv, TypeOK, RInv
<1> QED
  BY <1>3, <1>4, <1>5, <1>6, <1>7 DEF IInv

-----------------------------------------------------------------------------
(* The registrar.                                                          *)

\* A new attempt has a Describe and a channel of its own.
LEMMA RegisterBeginStep ==
  ASSUME IInv, [Next]_vars, RegisterBegin
  PROVE  IInv'
<1>1. PICK d \in Free :
        /\ attempt' = d /\ Start(d) /\ chan' = [chan EXCEPT ![d] = {}]
  <2>1. Free # {}
    BY DEF RegisterBegin
  <2> QED
    BY <2>1 DEF RegisterBegin
<1>2. /\ rpc = "idle" /\ rpc' = "lock" /\ attempt' = d /\ newDescIDs' = {}
      /\ cpc' = [cpc EXCEPT ![d] = "command"]
      /\ visited' = [visited EXCEPT ![d] = {}]
      /\ chan' = [chan EXCEPT ![d] = {}]
      /\ UNCHANGED <<time, info, mtx, registered, spc, shown, output, pending,
                     metrics, crashed>>
  BY <1>1 DEF RegisterBegin, Registrar, Start, env, scrapeVars
<1>3. d \in Describer /\ d \in Callback
  BY <1>1, Threads DEF Free
<1>4. keys' = keys
  BY <1>2 DEF keys
<1>5. TypeOK'
  BY <1>2, <1>3, Flags DEF IInv, TypeOK
<1>6. CInv(d)'
  BY <1>2, <1>3 DEF IInv, TypeOK, CInv
<1>7. ASSUME NEW c \in Callback, c # d
      PROVE  CInv(c)'
  BY <1>2, <1>4, <1>7, CFrame DEF IInv, TypeOK
<1>8. ASSUME NEW s \in Scrape
      PROVE  SInv(s)'
  BY <1>2, <1>3, <1>8, SFrame, Threads DEF IInv, TypeOK
<1>9. RInv'
  BY <1>2, <1>3 DEF IInv, TypeOK, RInv
<1> QED
  BY <1>5, <1>6, <1>7, <1>8, <1>9 DEF IInv

\* Register reads a descriptor, which it takes or which ends the attempt.
LEMMA RegisterReceiveStep ==
  ASSUME IInv, [Next]_vars, RegisterReceive
  PROVE  IInv'
<1>1. PICK k \in chan[attempt] :
        /\ chan' = [chan EXCEPT ![attempt] = @ \ {k}]
        /\ IF k \in Rejected
           THEN rpc' = afterError /\ unlock(FALSE) /\ UNCHANGED newDescIDs
           ELSE newDescIDs' = newDescIDs \cup {k} /\ UNCHANGED <<rpc, mtx>>
  BY DEF RegisterReceive
<1>2. /\ rpc = "range"
      /\ UNCHANGED <<time, info, registered, attempt, spc, shown, cpc, output,
                     visited, pending, metrics, crashed>>
  BY DEF RegisterReceive, env, scrapeVars, callVars
<1>3. attempt \in Describer /\ attempt \in Callback
  BY <1>2, Threads DEF IInv, RInv
<1>4. /\ chan'[attempt] = chan[attempt] \ {k} /\ k \in Stat
      /\ \A c \in Callback : c # attempt => chan'[c] = chan[c]
      /\ chan' \in [Callback -> SUBSET Stat]
  BY <1>1, <1>3 DEF IInv, TypeOK
<1>5. keys' = keys
  BY <1>2 DEF keys
<1>6. /\ newDescIDs' \subseteq Stat \ Rejected
      /\ rpc' \in {"wait", "range"}
      /\ rpc' = "range" => newDescIDs' = newDescIDs \cup {k}
  <2>1. newDescIDs \subseteq Stat \ Rejected
    BY DEF IInv, TypeOK
  <2>2. CASE k \in Rejected
    <3>1. rpc' = "wait" /\ newDescIDs' = newDescIDs
      BY <1>1, <2>2, Zenon DEF afterError
    <3> QED
      BY <2>1, <3>1
  <2>3. CASE k \notin Rejected
    <3>1. newDescIDs' = newDescIDs \cup {k} /\ rpc' = rpc
      BY <1>1, <2>3, Zenon
    <3> QED
      BY <1>2, <1>4, <2>1, <2>3, <3>1
  <2> QED
    BY <2>2, <2>3
<1>7. TypeOK'
  BY <1>2, <1>4, <1>6, Flags DEF IInv, TypeOK
<1>8. CInv(attempt)'
  BY <1>2, <1>3, <1>4, <1>5 DEF IInv, CInv
<1>9. ASSUME NEW c \in Callback, c # attempt
      PROVE  CInv(c)'
  BY <1>2, <1>4, <1>5, <1>9, CFrame DEF IInv
<1>10. ASSUME NEW s \in Scrape
       PROVE  SInv(s)'
  BY <1>2, <1>3, <1>4, <1>10, SFrame, Threads DEF IInv
<1>11. RInv'
  BY <1>1, <1>2, <1>3, <1>4, <1>6 DEF IInv, RInv
<1> QED
  BY <1>2, <1>7, <1>8, <1>9, <1>10, <1>11 DEF IInv

\* RegisterLock, RegisterEnd and RegisterRetry leave the callbacks alone
LEMMA RegistrarStep ==
  ASSUME IInv, [Next]_vars, RegisterLock \/ RegisterEnd \/ RegisterRetry
  PROVE  IInv'
<1>1. UNCHANGED <<time, info, attempt, newDescIDs, spc, shown, cpc, output,
                  visited, pending, chan, metrics, crashed>>
  BY DEF RegisterLock, RegisterEnd, RegisterRetry, env, scrapeVars, callVars
<1>2. /\ rpc' \in {"idle", "range", "wait", "done"}
      /\ registered' \in {registered, newDescIDs}
  BY DEF RegisterLock, RegisterEnd, RegisterRetry, Registrar, afterError
<1>3. TypeOK'
  BY <1>1, <1>2, Flags DEF IInv, TypeOK
<1>4. keys' = keys
  BY <1>1 DEF keys
<1>5. \A c \in Callback : CInv(c)'
  BY <1>1, <1>4, CFrame DEF IInv
<1>6. \A s \in Scrape : SInv(s)'
  BY <1>1, SFrame DEF IInv
<1>7. RInv'
  <2>1. CASE RegisterLock
    BY <1>1, <2>1 DEF RegisterLock, Registrar, IInv, RInv
  <2>2. CASE RegisterEnd
    BY <1>1, <2>2 DEF RegisterEnd, afterError, IInv, RInv
  <2>3. CASE RegisterRetry
    BY <1>1, <2>3 DEF RegisterRetry, Registrar, IInv, RInv
  <2> QED
    BY <2>1, <2>2, <2>3
<1> QED
  BY <1>3, <1>5, <1>6, <1>7 DEF IInv

-----------------------------------------------------------------------------
(* Scrapes.                                                                *)

\* A scrape starts with an empty page.
LEMMA ScrapeBeginStep ==
  ASSUME IInv, [Next]_vars, NEW s \in Scrape, ScrapeBegin(s)
  PROVE  IInv'
<1> DEFINE blank == [k \in Stat |-> None]
<1>1. /\ spc[s] = "idle" /\ spc' = [spc EXCEPT ![s] = "gather"]
      /\ shown' = [shown EXCEPT ![s] = blank]
      /\ UNCHANGED <<time, info, mtx, registered, rpc, attempt, newDescIDs,
                     output, pending, chan, metrics, crashed>>
  BY DEF ScrapeBegin, Start, env, registrarVars
<1>2. \/ /\ cpc' = [cpc EXCEPT ![s] = "command"]
         /\ visited' = [visited EXCEPT ![s] = {}]
      \/ cpc' = [cpc EXCEPT ![s] = "off"] /\ visited' = visited
  BY DEF ScrapeBegin, Start
<1>3. /\ s \in Callback /\ keys' = keys /\ blank \in [Stat -> Nat \cup {None}]
      /\ chan[s] = {}
  BY <1>1, Threads DEF keys, IInv, SInv
<1>4. /\ \A c \in Callback : c # s => /\ cpc'[c] = cpc[c]
                                      /\ visited'[c] = visited[c]
      /\ \/ cpc'[s] = "command" /\ visited'[s] = {}
         \/ cpc'[s] = "off" /\ visited'[s] = visited[s]
      /\ spc'[s] = "gather" /\ shown'[s] = blank
      /\ \A t \in Scrape : t # s => spc'[t] = spc[t] /\ shown'[t] = shown[t]
  BY <1>1, <1>2, <1>3 DEF IInv, TypeOK
<1>5. TypeOK'
  <2>1. /\ cpc' \in [Callback -> {"off", "command", "update", "range", "returned"}]
        /\ visited' \in [Callback -> SUBSET Stat]
    BY <1>2, <1>3 DEF IInv, TypeOK
  <2>2. /\ spc' \in [Scrape -> {"idle", "gather"}]
        /\ shown' \in [Scrape -> [Stat -> Nat \cup {None}]]
    BY <1>1, <1>3 DEF IInv, TypeOK
  <2> QED
    BY <1>1, <2>1, <2>2, Flags DEF IInv, TypeOK
<1>6. CInv(s)'
  BY <1>1, <1>3, <1>4 DEF IInv, CInv
<1>7. ASSUME NEW c \in Callback, c # s
      PROVE  CInv(c)'
  BY <1>1, <1>3, <1>4, <1>7, CFrame DEF IInv
<1>8. SInv(s)'
  BY <1>1, <1>3, <1>4 DEF SInv
<1>9. ASSUME NEW t \in Scrape, t # s
      PROVE  SInv(t)'
  BY <1>1, <1>4, <1>9, SFrame, Threads DEF IInv
<1>10. RInv'
  BY <1>1, <1>4, RFrame, Threads DEF IInv, RInv
<1> QED
  BY <1>5, <1>6, <1>7, <1>8, <1>9, <1>10 DEF IInv

\* A gauge goes from the channel to the page.
LEMMA GatherStep ==
  ASSUME IInv, [Next]_vars, NEW s \in Scrape, Gather(s)
  PROVE  IInv'
<1>1. PICK k \in chan[s] :
        /\ chan' = [chan EXCEPT ![s] = @ \ {k}]
        /\ shown' = [shown EXCEPT ![s][k] = metrics[k]]
  BY DEF Gather
<1>2. /\ spc[s] = "gather"
      /\ UNCHANGED <<time, info, mtx, registered, rpc, attempt, newDescIDs, spc,
                     cpc, output, visited, pending, metrics, crashed>>
  BY DEF Gather, env, registrarVars, callVars
<1>3. s \in Callback /\ keys' = keys /\ k \in Stat
  BY <1>1, <1>2, Threads DEF keys, IInv, TypeOK
<1>4. metrics[k] # None /\ metrics[k] \in Nat \cup {None} /\ k \in visited[s]
  BY <1>1, <1>3 DEF IInv, CInv, keys, TypeOK
<1>5. /\ chan'[s] = chan[s] \ {k}
      /\ \A c \in Callback : c # s => chan'[c] = chan[c]
      /\ chan' \in [Callback -> SUBSET Stat]
  BY <1>1, <1>3 DEF IInv, TypeOK
<1>6. /\ shown'[s] = [shown[s] EXCEPT ![k] = metrics[k]]
      /\ \A t \in Scrape : t # s => shown'[t] = shown[t]
      /\ shown' \in [Scrape -> [Stat -> Nat \cup {None}]]
  BY <1>1, <1>3, <1>4 DEF IInv, TypeOK
<1>7. shown'[s][k] # None /\ \A j \in Stat : j # k => shown'[s][j] = shown[s][j]
  BY <1>3, <1>4, <1>6 DEF IInv, TypeOK
<1>8. TypeOK'
  BY <1>2, <1>5, <1>6, Flags DEF IInv, TypeOK
<1>9. CInv(s)'
  BY <1>2, <1>3, <1>5 DEF IInv, CInv
<1>10. ASSUME NEW c \in Callback, c # s
       PROVE  CInv(c)'
  BY <1>2, <1>3, <1>5, <1>10, CFrame DEF IInv
<1>11. SInv(s)'
  <2>1. SInv(s) /\ visited[s] \subseteq Stat
    BY <1>3 DEF IInv, TypeOK
  <2> QED
    BY <1>2, <1>4, <1>5, <1>7, <2>1 DEF SInv
<1>12. ASSUME NEW t \in Scrape, t # s
       PROVE  SInv(t)'
  BY <1>2, <1>5, <1>6, <1>12, SFrame, Threads DEF IInv
<1>13. RInv'
  BY <1>2, <1>5, RFrame, Threads DEF IInv, RInv
<1> QED
  BY <1>8, <1>9, <1>10, <1>11, <1>12, <1>13 DEF IInv

\* A scrape ends when its channel is closed and empty.
LEMMA ScrapeEndStep ==
  ASSUME IInv, [Next]_vars, NEW s \in Scrape, ScrapeEnd(s)
  PROVE  IInv'
<1>1. /\ chan[s] = {} /\ cpc[s] \in {"off", "returned"}
      /\ spc' = [spc EXCEPT ![s] = "idle"]
      /\ UNCHANGED <<time, info, mtx, registered, rpc, attempt, newDescIDs,
                     shown, cpc, output, visited, pending, chan, metrics, crashed>>
  BY DEF ScrapeEnd, allReturned, env, registrarVars, callVars
<1>2. keys' = keys
  BY <1>1 DEF keys
<1>3. TypeOK'
  BY <1>1, Flags DEF IInv, TypeOK
<1>4. \A c \in Callback : CInv(c)'
  BY <1>1, <1>2, CFrame DEF IInv
<1>5. SInv(s)'
  BY <1>1 DEF IInv, TypeOK, SInv
<1>6. ASSUME NEW t \in Scrape, t # s
      PROVE  SInv(t)'
  BY <1>1, <1>6, SFrame DEF IInv, TypeOK
<1>7. RInv'
  BY <1>1, RFrame DEF IInv
<1> QED
  BY <1>3, <1>4, <1>5, <1>6, <1>7 DEF IInv

-----------------------------------------------------------------------------

\* The invariant holds at the start.
LEMMA InitInv == Init => IInv
<1> SUFFICES ASSUME Init PROVE IInv
  OBVIOUS
<1>1. mtx \in BOOLEAN /\ crashed \in BOOLEAN
  BY Zenon DEF Init
<1>2. info \in (SUBSET Stat) \cup {None}
  BY Threads DEF Init
<1>3. TypeOK
  BY <1>1, <1>2, Threads DEF Init, TypeOK
<1>4. \A c \in Callback : CInv(c)
  BY DEF Init, CInv
<1>5. \A s \in Scrape : SInv(s)
  BY Threads DEF Init, SInv
<1>6. RInv
  BY DEF Init, RInv
<1> QED
  BY <1>3, <1>4, <1>5, <1>6 DEF IInv

\* Every step preserves the invariant.
LEMMA NextInv == IInv /\ [Next]_vars => IInv'
<1> SUFFICES ASSUME IInv, [Next]_vars PROVE IInv'
  OBVIOUS
<1>1. CASE ConsulChanges \/ RaceCrash \/ UNCHANGED vars
  <2>1. /\ time' \in Nat /\ info' \in (SUBSET Stat) \cup {None}
        /\ UNCHANGED <<registered, rpc, attempt, newDescIDs, spc, shown, cpc,
                       output, visited, pending, chan, metrics>>
    BY <1>1, Threads
    DEF ConsulChanges, RaceCrash, vars, env, registrarVars, scrapeVars,
        callVars, IInv, TypeOK
  <2>2. keys' = keys
    BY <2>1 DEF keys
  <2>3. TypeOK'
    BY <2>1, Flags DEF IInv, TypeOK
  <2>4. \A c \in Callback : CInv(c)'
    BY <2>1, <2>2, CFrame DEF IInv
  <2>5. \A s \in Scrape : SInv(s)'
    BY <2>1, SFrame DEF IInv
  <2> QED
    BY <2>1, <2>3, <2>4, <2>5, RFrame DEF IInv
<1>2. CASE RegistrarNext
  BY <1>2, RegisterBeginStep, RegisterReceiveStep, RegistrarStep
  DEF RegistrarNext
<1>3. ASSUME NEW c \in Callback, CallbackNext(c)
      PROVE  IInv'
  BY <1>3, RunCommandStep, UpdateMetricsStep, SendStep, ReturnStep
  DEF CallbackNext
<1>4. ASSUME NEW s \in Scrape, ScrapeBegin(s) \/ Gather(s) \/ ScrapeEnd(s)
      PROVE  IInv'
  BY <1>4, ScrapeBeginStep, GatherStep, ScrapeEndStep
<1> QED
  BY <1>1, <1>2, <1>3, <1>4 DEF Next

\* The invariant holds in every reachable state.
LEMMA Invariance == Spec => []IInv
BY InitInv, NextInv, PTL DEF Spec

\* The variables have their types; in particular no rejected descriptor gets
\* among those that are going to be registered.
THEOREM TypeCorrect == Spec => []TypeOK
<1>1. IInv => TypeOK
  BY DEF IInv
<1> QED
  BY <1>1, Invariance, PTL

\* A page shows every statistic that its own run of the command printed, and
\* nothing of the collector's if the command failed, although the map and its
\* keys change under the iteration while other scrapes and Describes run.
THEOREM PagesWhole == Spec => []ScrapeComplete
<1>1. IInv => ScrapeComplete
  <2> SUFFICES ASSUME IInv, NEW s \in Scrape, spc[s] = "idle",
                      cpc[s] = "returned"
               PROVE  /\ \A k \in output[s].stats : shown[s][k] # None
                      /\ output[s].err # "none" =>
                           \A k \in Stat : shown[s][k] = None
    BY DEF ScrapeComplete
  <2>1. CInv(s) /\ SInv(s)
    BY Threads DEF IInv
  <2> QED
    BY <2>1 DEF CInv, SInv
<1> QED
  BY <1>1, Invariance, PTL

\* The collector is registered with all that its Describe sent, or not at all,
\* however many attempts failed before and whatever is left of them.
THEOREM RegistrationWhole == Spec => []RegisteredWhole
<1>1. IInv => RegisteredWhole
  BY DEF IInv, RInv, TypeOK, RegisteredWhole
<1> QED
  BY <1>1, Invariance, PTL
=============================================================================
