-------------------------------- MODULE Store --------------------------------
(***************************************************************************)
(* consulStore (agent/consul.go): the two calls of the store interface, as *)
(* the set of API replies a call can meet and what it makes of one.  The   *)
(* order of a result is Consul's, which promises none, so a result is a    *)
(* set of instances and the handler lists it in any order.  An error is    *)
(* named by its label in errLabels (agent/types.go).                       *)
(***************************************************************************)
EXTENDS Consul

Op == {"getInstances", "getServers"}
ErrLabel == {"consulapi", "invalidip", "noinstances"}

Failed(label) == [err |-> label, is |-> {}]
Found(s) == [err |-> "none", is |-> s]

Result == [err : ErrLabel \cup {"none"},
           is : (SUBSET Entry) \cup (SUBSET Member)]

isNoInstances(err) == err = "noinstances"

-----------------------------------------------------------------------------
(* getInstances.                                                           *)

\* the tags a provider gives the instance of an address; the provider's own
\* name, which no address contains and no query looks at, is left out
infoToTags(i) == {<<"env", i.env>>, <<"job", i.job>>,
                  <<"product", i.product>>, <<"service", i.service>>}

\* mutant: passingOnly = false
serviceReplies_AnyHealth(i) ==
  {ApiError} \cup
  IF i.zone \notin path THEN {NoPath}
  ELSE {HealthService(Entry, i.product, <<"job", i.job>>, i.zone)}

\* what Health().Service can answer: a stale read sees either view
serviceReplies(i) ==
  {ApiError} \cup
  IF i.zone \notin path THEN {NoPath}
  ELSE {HealthService(view, i.product, <<"job", i.job>>, i.zone)
          : view \in {health, replica}}

matches(e, i) ==
  /\ <<"env", i.env>> \in EntryAttr[e].tags
  /\ <<"service", i.service>> \in EntryAttr[e].tags

\* mutant: a Consul failure is reported as "no instances"
getInstances_HidesErrors(i, rep) ==
  IF rep.err # "none" \/ rep.entries = {} THEN Failed("noinstances")
  ELSE IF \E e \in rep.entries : EntryAttr[e].ip = None
       THEN Failed("invalidip")
  ELSE Found({e \in rep.entries : matches(e, i)})

\* the address of every entry is parsed, of those that do not match too
getInstances(i, rep) ==
  IF rep.err = "nopath" THEN Failed("noinstances")
  ELSE IF rep.err # "none" THEN Failed("consulapi")
  ELSE IF rep.entries = {} THEN Failed("noinstances")
  ELSE IF \E e \in rep.entries : EntryAttr[e].ip = None
       THEN Failed("invalidip")
  ELSE Found({e \in rep.entries : matches(e, i)})

uint16 == 65536   \* 2^16

\* mutant: the port is not converted
toInstance_NoWrap(e) == [host |-> EntryAttr[e].host, ip |-> EntryAttr[e].ip,
                         port |-> EntryAttr[e].port]

\* uint16(e.Service.Port)
toInstance(e) == [host |-> EntryAttr[e].host, ip |-> EntryAttr[e].ip,
                  port |-> EntryAttr[e].port % uint16]

-----------------------------------------------------------------------------
(* getServers.                                                             *)

serverReplies == {ApiError, AgentMembers}

\* without a zone, every member; never errNoInstances
getServers(zone, rep) ==
  IF rep.err # "none" THEN Failed("consulapi")
  ELSE Found({m \in rep.members :
                zone = None \/ MemberAttr[m].zone = zone})

\* the address is not checked: net.ParseIP may have returned nil
toServer(m) == [host |-> MemberAttr[m].host, ip |-> MemberAttr[m].ip,
                port |-> 0]
=============================================================================
