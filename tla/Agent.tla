-------------------------------- MODULE Agent --------------------------------
(***************************************************************************)
(* glimpse-agent answering DNS requests (agent/dns.go, logging.go,         *)
(* instrumentation.go).  Every request is served by a goroutine of its     *)
(* own; the goroutines share the metrics and Consul, and meet nowhere      *)
(* else.  A goroutine takes these steps:                                   *)
(*                                                                         *)
(*   idle --Receive--> serving --Call*--> consul --*Returned--> returned   *)
(*                       |                                         |       *)
(*                       +---Serve*---> written <---*Response------+       *)
(*                                         |                               *)
(*                                         +--Observe--> done              *)
(*                                                                         *)
(* A step ends where the goroutine waits for the outside or has just done  *)
(* something another party can see.  The whole agent stops when a handler  *)
(* panics: the DNS server does not recover.                                *)
(***************************************************************************)
EXTENDS Store, Functions

CONSTANTS
  Request,     \* the goroutines; each serves one request
  Query,       \* the requests clients can send
  MaxAnswers   \* -dns.udp.maxanswers

Proto == {"udp", "tcp"}
Rcode == {"NOERROR", "NXDOMAIN", "SERVFAIL", "NOTIMP"}
PC == {"idle", "serving", "consul", "returned", "written", "done"}

\* count is the number of questions, 2 standing for several; name and qtype
\* are those of the first one
ASSUME AgentAssumption ==
  /\ Query \subseteq [proto : Proto, count : 0..2, name : Name, qtype : QType]
  /\ MaxAnswers \in Int
  /\ None \notin Query /\ None \notin Result

VARIABLES
  pc,
  req,             \* the request a goroutine serves
  result,          \* what its store call returned
  resp,            \* the message it wrote
  sent,            \* whether that message left the host
  logged,          \* the log lines it printed
  storeErrors,     \* a counter by operation and error
  storeDurations,  \* the number of observations by operation and error
  storeCounts,     \* a gauge by info: the pairs <<info, value>>
  dnsDurations,    \* the number of observations by protocol, qtype and rcode
  crashed,         \* a handler panicked
  window,          \* history: the entries recent while it was serving
  steady           \* history: the entries visible throughout

metricVars == <<storeErrors, storeDurations, storeCounts, dnsDurations>>
historyVars == <<window, steady>>
agentVars == <<pc, req, result, resp, sent, logged, metricVars, crashed,
               historyVars>>
vars == <<agentVars, consulVars>>

-----------------------------------------------------------------------------
(* Messages.                                                               *)

defaultTTL == 5
defaultInvalidTTL == 86400

\* a panic while an answer is put together, as a record that no message can
\* be sent with
panicRR == [type |-> "panic", data |-> None]

newRR(qtype, i) ==
  IF qtype = "A" THEN [type |-> "A", data |-> i.ip]
  ELSE IF qtype = "SRV" THEN [type |-> "SRV", data |-> <<i.host, i.port>>]
  ELSE IF qtype = "NS" THEN [type |-> "NS", data |-> i.host]
  ELSE panicRR

newResponse == [rcode |-> "NOERROR", aa |-> FALSE, answer |-> <<>>,
                soa |-> None, tc |-> FALSE]

authoritative == [newResponse EXCEPT !.aa = TRUE]

newSOA(ttl) == [section |-> "extra", ttl |-> ttl, minttl |-> defaultTTL]

\* mutant: cuts, and marks, an answer that just fits
truncate_AtLimit(proto, m) ==
  IF proto = "udp" /\ Len(m.answer) >= MaxAnswers
  THEN [m EXCEPT !.answer = SubSeq(m.answer, 1, MaxAnswers), !.tc = TRUE]
  ELSE m

\* truncatingWriter.WriteMsg
truncate(proto, m) ==
  IF proto = "udp" /\ Len(m.answer) > MaxAnswers
  THEN [m EXCEPT !.answer = SubSeq(m.answer, 1, MaxAnswers), !.tc = TRUE]
  ELSE m

\* newRR on a type it does not know, servers[index] beyond the list, and the
\* slice expression of truncatingWriter on a negative bound
panics(proto, m) ==
  \/ \E k \in DOMAIN m.answer : m.answer[k].type = "panic"
  \/ proto = "udp" /\ MaxAnswers < 0

\* the qtype label of dnsDurations
qtypeLabel(q) == IF q.count = 1 THEN q.qtype ELSE "unknown"

-----------------------------------------------------------------------------
(* Questions.                                                              *)

relative(q) == trimDomain(q.name)
inDomain(q) == q.count = 1 /\ hasDomainSuffix(q.name)
isService(q) == inDomain(q) /\ serviceQuestion(relative(q))
isServer(q) ==
  /\ inDomain(q) /\ ~serviceQuestion(relative(q))
  /\ serverQuestion(relative(q))
isInvalid(q) == inDomain(q) /\ ~isService(q) /\ ~isServer(q)

info(q) == infoFromAddr(relative(q))
question(q) == parseServerQuestion(relative(q))

\* the question types serviceResponse looks up
serviceType(q) == q.qtype \in {"A", "SRV"}

\* the question types serverResponse looks up: "nsN" has no NS records
serverType(q) ==
  /\ q.qtype \in {"A", "NS"}
  /\ ~(question(q).ns # None /\ q.qtype = "NS")

-----------------------------------------------------------------------------
(* The steps of a goroutine.                                               *)

\* the entries that every stale read of a reachable zone shows
Visible == {e \in health \cap replica : EntryAttr[e].zone \in path}

\* mutant: a lock is held around the handler, across its Consul call
At_Locked(r, here) ==
  pc[r] = here /\ ~crashed /\ \A s \in Request \ {r} : pc[s] # "consul"

\* every goroutine runs on its own, until the process dies
At(r, here) == pc[r] = here /\ ~crashed
Goto(r, there) == pc' = [pc EXCEPT ![r] = there]

\* the DNS server reads a request and starts a goroutine
Receive(r) ==
  /\ At(r, "idle") /\ Goto(r, "serving")
  /\ \E q \in Query : req' = [req EXCEPT ![r] = q]
  /\ window' = [window EXCEPT ![r] = recent]
  /\ steady' = [steady EXCEPT ![r] = Visible]
  /\ UNCHANGED <<result, resp, sent, logged, metricVars, crashed, consulVars>>

\* WriteMsg through the chain truncatingWriter, cachingWriter, loggingWriter;
\* the write itself can fail
WriteMsg(r, m) ==
  /\ IF panics(req[r].proto, m)
     THEN crashed' = TRUE /\ UNCHANGED <<pc, resp, sent, logged>>
     ELSE \E ok \in BOOLEAN :
            LET t == truncate(req[r].proto, m)
            IN  /\ Goto(r, "written")
                /\ resp' = [resp EXCEPT ![r] = t]
                /\ sent' = [sent EXCEPT ![r] = ok]
                /\ logged' = [logged EXCEPT ![r] = Append(@,
                     [kind |-> "DNS", status |-> t.rcode,
                      n |-> Len(t.answer), failed |-> ~ok])]
                /\ UNCHANGED crashed
  /\ UNCHANGED <<req, result, metricVars, historyVars, consulVars>>

\* no question: the vendored ServeMux answers, outside the handler chain
ServeFailed(r) ==
  /\ At(r, "serving") /\ req[r].count = 0
  /\ Goto(r, "done")
  /\ resp' = [resp EXCEPT ![r] = [newResponse EXCEPT !.rcode = "SERVFAIL"]]
  /\ \E ok \in BOOLEAN : sent' = [sent EXCEPT ![r] = ok]
  /\ UNCHANGED <<req, result, logged, metricVars, crashed, historyVars,
                 consulVars>>

ServeMulti(r) ==
  /\ At(r, "serving") /\ req[r].count > 1
  /\ WriteMsg(r, [newResponse EXCEPT !.rcode = "NOTIMP"])

ServeForeign(r) ==
  /\ At(r, "serving") /\ req[r].count = 1
  /\ ~hasDomainSuffix(req[r].name)
  /\ WriteMsg(r, [newResponse EXCEPT !.rcode = "NXDOMAIN"])

ServeInvalid(r) ==
  /\ At(r, "serving") /\ isInvalid(req[r])
  /\ WriteMsg(r, [authoritative EXCEPT !.rcode = "NXDOMAIN",
                                       !.soa = newSOA(defaultInvalidTTL)])

\* serviceResponse and serverResponse return at once
ServeUnsupported(r) ==
  /\ At(r, "serving")
  /\ \/ isService(req[r]) /\ ~serviceType(req[r])
     \/ isServer(req[r]) /\ ~serverType(req[r])
  /\ WriteMsg(r, authoritative)

\* the goroutine sends its HTTP request and waits
Call(r) ==
  /\ Goto(r, "consul")
  /\ UNCHANGED <<req, result, resp, sent, logged, metricVars, crashed,
                 historyVars, consulVars>>

\* infoFromAddr accepts every service question (FormatsAgree in Address), so
\* the name error for one it refuses is dead code
CallInstances(r) ==
  At(r, "serving") /\ isService(req[r]) /\ serviceType(req[r]) /\ Call(r)

CallServers(r) ==
  At(r, "serving") /\ isServer(req[r]) /\ serverType(req[r]) /\ Call(r)

\* mutant: the request is observed, the error is not counted
trackStore_NoInc(op, err) ==
  /\ UNCHANGED storeErrors
  /\ storeDurations' = [storeDurations EXCEPT ![<<op, err>>] = @ + 1]

trackStore(op, err) ==
  /\ storeErrors' = IF err # "none"
                    THEN [storeErrors EXCEPT ![<<op, err>>] = @ + 1]
                    ELSE storeErrors
  /\ storeDurations' = [storeDurations EXCEPT ![<<op, err>>] = @ + 1]

\* the store call ends: consulStore, then metricsStore, then loggingStore
StoreReturns(r, op, res) ==
  /\ Goto(r, "returned")
  /\ result' = [result EXCEPT ![r] = res]
  /\ trackStore(op, res.err)
  /\ logged' = IF res.err # "none"
               THEN [logged EXCEPT ![r] = Append(@,
                       [kind |-> "STORE", status |-> res.err,
                        n |-> 0, failed |-> TRUE])]
               ELSE logged
  /\ UNCHANGED <<req, resp, sent, dnsDurations, crashed, historyVars,
                 consulVars>>

\* the gauge of storeCounts is set when the call failed, and only then
setStoreCounts(i, res) ==
  storeCounts' = IF res.err # "none"
                 THEN {c \in storeCounts : c[1] # i}
                        \cup {<<i, Cardinality(res.is)>>}
                 ELSE storeCounts

\* Consul answers a health query
InstancesReturned(r) ==
  /\ At(r, "consul") /\ isService(req[r])
  /\ \E rep \in serviceReplies(info(req[r])) :
       LET res == getInstances(info(req[r]), rep)
       IN  /\ StoreReturns(r, "getInstances", res)
           /\ setStoreCounts(info(req[r]), res)

\* Consul answers a members query
ServersReturned(r) ==
  /\ At(r, "consul") /\ isServer(req[r])
  /\ \E rep \in serverReplies :
       StoreReturns(r, "getServers", getServers(question(req[r]).zone, rep))
  /\ UNCHANGED storeCounts

\* mutant: every error is a name error
errRcode_NameError(err) == IF err = "none" THEN "NOERROR" ELSE "NXDOMAIN"

errRcode(err) ==
  IF err = "none" THEN "NOERROR"
  ELSE IF isNoInstances(err) THEN "NXDOMAIN" ELSE "SERVFAIL"

\* every order in which Consul can list the elements of S
Listings(S) == Bijection(1..Cardinality(S), S)

\* one record per instance, in Consul's order
serviceResponse(r) ==
  /\ At(r, "returned") /\ isService(req[r])
  /\ \E list \in Listings(result[r].is) :
       WriteMsg(r,
         [authoritative EXCEPT
            !.rcode = errRcode(result[r].err),
            !.answer = [k \in DOMAIN list |->
                          newRR(req[r].qtype, toInstance(list[k]))]])

\* mutant: the servers stay in Consul's order
sorted_Not(S) == Listings(S)

\* sort.Sort(servers): by host, in any order where hosts are equal
sorted(S) ==
  {list \in Listings(S) : \A j, k \in DOMAIN list :
     j < k => MemberAttr[list[j]].host <= MemberAttr[list[k]].host}

\* the record of servers[index]
serverAt(q, list, index) ==
  IF index + 1 \in DOMAIN list THEN newRR(q.qtype, toServer(list[index + 1]))
  ELSE panicRR

\* mutant: the index may be the length of the list
pick_OffByOne(q, list) ==
  LET index == NSNumber[question(q).ns]
  IN  IF index <= Len(list) THEN <<serverAt(q, list, index)>> ELSE <<>>

\* no record if the list is too short
pick(q, list) ==
  LET index == NSNumber[question(q).ns]
  IN  IF index < Len(list) THEN <<serverAt(q, list, index)>> ELSE <<>>

\* the k-th server of a list is called ns<k-1>.<the question's name>
listed(q, list) ==
  [k \in DOMAIN list |->
     newRR(q.qtype, [toServer(list[k]) EXCEPT !.host = <<k - 1, q.name>>])]

serverResponse(r) ==
  /\ At(r, "returned") /\ isServer(req[r])
  /\ LET ns == question(req[r]).ns
         broken == result[r].err # "none" /\ ~isNoInstances(result[r].err)
     IN  \/ /\ broken
            /\ WriteMsg(r, [authoritative EXCEPT !.rcode = "SERVFAIL"])
         \/ /\ ~broken /\ ns = None
            /\ \E list \in sorted(result[r].is) :
                 WriteMsg(r, [authoritative EXCEPT
                                !.answer = listed(req[r], list)])
         \/ /\ ~broken /\ ns # None
            /\ NSNumber[ns] > MaxInt     \* strconv.Atoi: out of range
            /\ WriteMsg(r, [authoritative EXCEPT !.rcode = "NXDOMAIN"])
         \/ /\ ~broken /\ ns # None
            /\ NSNumber[ns] <= MaxInt
            /\ \E list \in sorted(result[r].is) :
                 WriteMsg(r, [authoritative EXCEPT
                                !.answer = pick(req[r], list)])

\* dnsMetricsHandler, once the handlers inside it have returned
Observe(r) ==
  /\ At(r, "written") /\ Goto(r, "done")
  /\ dnsDurations' = [dnsDurations EXCEPT
       ![<<req[r].proto, qtypeLabel(req[r]), resp[r].rcode>>] = @ + 1]
  /\ UNCHANGED <<req, result, resp, sent, logged, storeErrors, storeDurations,
                 storeCounts, crashed, historyVars, consulVars>>

Reading(r) == pc[r] \in {"serving", "consul"}

\* Consul's state changes under the goroutines that have yet to read it
Environment ==
  /\ ConsulNext
  /\ window' = [r \in Request |-> IF Reading(r) THEN window[r] \cup recent'
                                  ELSE window[r]]
  /\ steady' = [r \in Request |-> IF Reading(r) THEN steady[r] \cap Visible'
                                  ELSE steady[r]]
  /\ UNCHANGED <<pc, req, result, resp, sent, logged, metricVars, crashed>>

Serve(r) ==
  \/ ServeFailed(r) \/ ServeMulti(r) \/ ServeForeign(r) \/ ServeInvalid(r)
  \/ ServeUnsupported(r) \/ CallInstances(r) \/ CallServers(r)
Return(r) == InstancesReturned(r) \/ ServersReturned(r)
Respond(r) == serviceResponse(r) \/ serverResponse(r) \/ Observe(r)

Init ==
  /\ ConsulInit
  /\ pc = [r \in Request |-> "idle"]
  /\ req = [r \in Request |-> None]
  /\ result = [r \in Request |-> None]
  /\ resp = [r \in Request |-> None]
  /\ sent = [r \in Request |-> FALSE]
  /\ logged = [r \in Request |-> <<>>]
  /\ storeErrors = [x \in Op \X ErrLabel |-> 0]
  /\ storeDurations = [x \in Op \X (ErrLabel \cup {"none"}) |-> 0]
  /\ storeCounts = {}
  /\ dnsDurations = [x \in Proto \X (QType \cup {"unknown"}) \X Rcode |-> 0]
  /\ crashed = FALSE
  /\ window = [r \in Request |-> {}] /\ steady = [r \in Request |-> {}]

Next ==
  \/ Environment
  \/ \E r \in Request : Receive(r) \/ Serve(r) \/ Return(r) \/ Respond(r)

Spec == Init /\ [][Next]_vars

\* Go schedules every goroutine that can run.  Nothing is assumed of Consul:
\* a call may never be answered, and the HTTP client has no timeout
FairSpec ==
  Spec /\ \A r \in Request : WF_vars(Serve(r)) /\ WF_vars(Respond(r))

-----------------------------------------------------------------------------
(* What the handlers exchange.                                             *)

Line == [kind : {"DNS", "STORE"}, status : Rcode \cup ErrLabel, n : Nat,
         failed : BOOLEAN]
RR == [type : {"A"}, data : IP \cup {None}]
        \cup [type : {"SRV"}, data : Nat \X (0..(uint16 - 1))]
        \cup [type : {"NS"}, data : Nat \X Name]
SOA == [section : {"extra"}, ttl : Nat, minttl : Nat]
Message == [rcode : Rcode, aa : BOOLEAN, answer : Seq(RR),
            soa : SOA \cup {None}, tc : BOOLEAN]

\* The types of all variables.  Beyond the shape: a message only carries
\* records of the kinds newRR builds, with a port that fits the wire, so no
\* message is ever put together from a panic.
TypeOK ==
  /\ ConsulTypeOK
  /\ pc \in [Request -> PC]
  /\ req \in [Request -> Query \cup {None}]
  /\ result \in [Request -> Result \cup {None}]
  /\ resp \in [Request -> Message \cup {None}]
  /\ sent \in [Request -> BOOLEAN]
  /\ logged \in [Request -> Seq(Line)]
  /\ storeErrors \in [Op \X ErrLabel -> Nat]
  /\ storeDurations \in [Op \X (ErrLabel \cup {"none"}) -> Nat]
  /\ storeCounts \in SUBSET (Info \X Nat)
  /\ dnsDurations \in [Proto \X (QType \cup {"unknown"}) \X Rcode -> Nat]
  /\ crashed \in BOOLEAN
  /\ window \in [Request -> SUBSET Entry]
  /\ steady \in [Request -> SUBSET Entry]

-----------------------------------------------------------------------------
(* Safety.                                                                 *)

Answered(r) == pc[r] \in {"written", "done"}
LookedUp(r) == Answered(r) /\ isService(req[r]) /\ serviceType(req[r])
ServerLookedUp(r) == Answered(r) /\ isServer(req[r]) /\ serverType(req[r])

\* the instances a provider registered under the address i
EntryFor(e, i) ==
  /\ EntryAttr[e].zone = i.zone /\ EntryAttr[e].product = i.product
  /\ {<<"job", i.job>>, <<"env", i.env>>, <<"service", i.service>>}
       \subseteq EntryAttr[e].tags

\* the instances a message for r may show, and those it should
Genuine(r) == {e \in window[r] : EntryFor(e, info(req[r]))
                                /\ EntryAttr[e].ip # None}
Wanted(r) == {e \in steady[r] : EntryFor(e, info(req[r]))}

Fresh(r, m) ==
  \A k \in DOMAIN m.answer : \E e \in Genuine(r) :
    m.answer[k] = newRR(req[r].qtype, toInstance(e))

Complete(r, m) ==
  \A e \in Wanted(r) :
    \/ m.rcode = "SERVFAIL"
    \/ /\ m.rcode = "NOERROR"
       /\ m.tc \/ newRR(req[r].qtype, toInstance(e)) \in Range(m.answer)

\* Every record of an answer to a service question belongs to an instance of
\* exactly that address, with a usable node address, that was passing while
\* the request was served or not longer before it than the followers lag:
\* between the stale read of consulStore and the write nothing else gets in.
FreshAnswers == \A r \in Request : LookedUp(r) => Fresh(r, resp[r])

\* An instance that every read shows from the request's arrival until Consul
\* answers is in the answer, unless the message says that it is cut short or
\* that the lookup failed; its name is never denied to exist.
SteadyInstancesFound == \A r \in Request : LookedUp(r) => Complete(r, resp[r])

\* A message is marked as truncated only when a client that asks again over
\* TCP can learn more: the UDP answer is full and the store had found more.
TruncatedOnlyWhenFull ==
  \A r \in Request : Answered(r) /\ resp[r].tc =>
    /\ req[r].proto = "udp" /\ result[r].err = "none"
    /\ Len(resp[r].answer) = MaxAnswers
    /\ Cardinality(result[r].is) > MaxAnswers

\* What the name-server list of a zone promises is what its names resolve to:
\* when two goroutines have seen the same servers, no two of them with the
\* same host name, a question for ns<k> gets the k-th address of the list.
NameserverCoherence ==
  \A r, s \in Request :
    /\ ServerLookedUp(r) /\ question(req[r]).ns = None
    /\ ServerLookedUp(s) /\ question(req[s]).ns # None
    /\ question(req[r]).zone = question(req[s]).zone
    /\ result[r] = result[s] /\ result[r].err = "none"
    /\ \A m, n \in result[r].is :
         MemberAttr[m].host = MemberAttr[n].host => m = n
    => \A k \in DOMAIN resp[r].answer :
         NSNumber[question(req[s]).ns] = k - 1 /\ k - 1 <= MaxInt =>
           /\ resp[s].rcode = "NOERROR" /\ Len(resp[s].answer) <= 1
           /\ resp[s].tc \/ Len(resp[s].answer) = 1
           /\ req[r].qtype = "A" /\ ~resp[s].tc =>
                resp[s].answer[1] = resp[r].answer[k]

\* No request, answered in whatever order, makes a handler panic, which would
\* take down every other request being served.
NoPanic == ~crashed

storeFailures == {x \in DOMAIN storeErrors : ~isNoInstances(x[2])}
servfails == {x \in DOMAIN dnsDurations : x[3] = "SERVFAIL"}

\* The metrics of the two layers agree whatever the interleaving: the store
\* errors that are not "no instances" are the SERVFAILs observed, plus those
\* of the goroutines between the end of their store call and Observe.
ErrorsAccounted ==
  NoPanic =>
    SumFunctionOnSet(storeErrors, storeFailures) =
      SumFunctionOnSet(dnsDurations, servfails) +
      Cardinality({r \in Request :
        /\ pc[r] \in {"returned", "written"} /\ result[r] # None
        /\ result[r].err # "none" /\ ~isNoInstances(result[r].err)})

\* The log explains every failure of the handler chain: a STORE line with the
\* cause comes first, then one DNS line with the code, the number of answers
\* and the write error the client met.
FailuresLogged ==
  \A r \in Request : Answered(r) /\ req[r].count > 0 =>
    LET last == logged[r][Len(logged[r])]
    IN  /\ Len(logged[r]) \in 1..2
        /\ last = [kind |-> "DNS", status |-> resp[r].rcode,
                   n |-> Len(resp[r].answer), failed |-> ~sent[r]]
        /\ resp[r].rcode = "SERVFAIL" <=>
             /\ Len(logged[r]) = 2
             /\ logged[r][1].status \in {"consulapi", "invalidip"}

-----------------------------------------------------------------------------
(* Liveness.                                                               *)

\* Only Consul can keep a client waiting, and only the client of the request
\* that called it: no path through the handlers ends without a message, not
\* while other goroutines wait for Consul, nor once Consul has answered.
OnlyConsulWaits ==
  \A r \in Request :
    /\ pc[r] = "serving" ~> (pc[r] = "consul" \/ resp[r] # None)
    /\ pc[r] = "returned" ~> resp[r] # None

-----------------------------------------------------------------------------
(* What the repository says of the agent and the code does not do.         *)

\* "All instances for service address scoped by zone" (README.md): when Consul
\* answered, an instance of the address that every read shows is not kept from
\* the client by the registrations of other addresses.
NotFailedByOthers ==
  \A r \in Request :
    LookedUp(r) /\ (\E e \in Wanted(r) : EntryAttr[e].ip # None)
                /\ result[r].err # "consulapi"
      => resp[r].rcode = "NOERROR"
=============================================================================
