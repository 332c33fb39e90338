-------------------------------- MODULE Consul --------------------------------
(***************************************************************************)
(* Consul as the agent sees it through its HTTP API.  Consul is not part   *)
(* of the repository: this module is modelled from how agent/consul.go     *)
(* calls it (health query with a tag, passing only, stale reads allowed;   *)
(* WAN member list) and is external throughout.                            *)
(*                                                                         *)
(* Every zone (Consul datacenter) has a leader, whose catalogue is health, *)
(* and followers, which lag behind it: replica.  A stale read is answered  *)
(* from either.  Both are the sets of the instances that are registered    *)
(* with passing checks: a query for passing instances tells no others      *)
(* apart.  The history variable recent holds what the lag allows a stale   *)
(* read to show: the entries that were passing at the leader at some       *)
(* moment since their zone's replica was last brought up to date.          *)
(***************************************************************************)
EXTENDS Address, FiniteSets

CONSTANTS
  RemoteZone,  \* the zones reached over the WAN
  Entry,       \* service instances a provider can register
  EntryAttr,   \* their node, tags and port
  Member,      \* servers that can be in the WAN pool
  MemberAttr,  \* their name, taken apart, and address
  IP           \* the addresses net.ParseIP accepts

VARIABLES
  health,      \* the entries passing in the leader's catalogue
  replica,     \* the entries passing in the followers' copy of it
  path,        \* the zones the local zone has a server for
  members,     \* the WAN members known to the local agent
  recent

consulVars == <<health, replica, path, members, recent>>

Tag == {"env", "job", "service", "product"} \X Field

\* A node address that does not parse is None; a port is any JSON number.
\* host stands for the node name, by its rank in the order of strings; the
\* zone of a member is the last label of its name, if that has more than one.
ASSUME ConsulAssumption ==
  /\ RemoteZone \subseteq ZoneLabel
  /\ IsFiniteSet(Entry) /\ IsFiniteSet(Member)
  /\ None \notin IP
  /\ EntryAttr \in [Entry -> [product : Field, tags : SUBSET Tag,
                              zone : ZoneLabel, host : Nat,
                              ip : IP \cup {None}, port : Nat]]
  /\ MemberAttr \in [Member -> [host : Nat, zone : Label \cup {None},
                                ip : IP \cup {None}]]

ConsulTypeOK ==
  /\ health \in SUBSET Entry /\ replica \in SUBSET Entry
  /\ path \in SUBSET ZoneLabel
  /\ members \in SUBSET Member
  /\ recent \in SUBSET Entry

\* the agent starts at any time in the life of the catalogue
ConsulInit ==
  /\ health \in SUBSET Entry /\ replica = health
  /\ path = ZoneLabel
  /\ members = Member
  /\ recent = health

\* an instance is registered, or its checks recover
Up(e) ==
  /\ e \notin health
  /\ health' = health \cup {e}
  /\ recent' = recent \cup {e}
  /\ UNCHANGED <<replica, path, members>>

\* an instance is removed, or a check of it fails
Down(e) ==
  /\ e \in health
  /\ health' = health \ {e}
  /\ UNCHANGED <<replica, path, members, recent>>

\* the followers of a zone catch up
Replicate(z) ==
  LET local == {e \in Entry : EntryAttr[e].zone = z}
  IN  /\ health \cap local # replica \cap local
      /\ replica' = (replica \ local) \cup (health \cap local)
      /\ recent' = (recent \ local) \cup (health \cap local)
      /\ UNCHANGED <<health, path, members>>

\* the last server of a remote zone fails, or one comes back
TogglePath(z) ==
  /\ path' = IF z \in path THEN path \ {z} ELSE path \cup {z}
  /\ UNCHANGED <<health, replica, members, recent>>

\* a server joins or leaves the WAN pool
ToggleMember(m) ==
  /\ members' = IF m \in members THEN members \ {m} ELSE members \cup {m}
  /\ UNCHANGED <<health, replica, path, recent>>

ConsulNext ==
  \/ \E e \in Entry : Up(e) \/ Down(e)
  \/ \E z \in ZoneLabel : Replicate(z)
  \/ \E z \in RemoteZone : TogglePath(z)
  \/ \E m \in Member : ToggleMember(m)

-----------------------------------------------------------------------------
(* The API's answers.  Any call can fail for reasons of its own.           *)

ApiError == [err |-> "api", entries |-> {}, members |-> {}]
NoPath == [err |-> "nopath", entries |-> {}, members |-> {}]

\* /v1/health/service/<product>?tag=&passing=1&stale=&dc=
HealthService(view, product, tag, zone) ==
  [err |-> "none", members |-> {},
   entries |-> {e \in view : /\ EntryAttr[e].zone = zone
                             /\ EntryAttr[e].product = product
                             /\ tag \in EntryAttr[e].tags}]

\* /v1/agent/members?wan=1
AgentMembers == [err |-> "none", entries |-> {}, members |-> members]
=============================================================================
