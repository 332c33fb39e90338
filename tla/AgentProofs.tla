----------------------------- MODULE AgentProofs -----------------------------
(***************************************************************************)
(* What the agent promises about its answers, for any number of requests,  *)
(* instances, servers and zones, and any bound on UDP answers.             *)
(***************************************************************************)
EXTENDS Agent, FiniteSetTheorems, SequenceTheorems, WellFoundedInduction, TLAPS

-----------------------------------------------------------------------------
(* Numbers.  Induction is stated with sets, since the provers cannot       *)
(* instantiate a predicate.                                                *)

\* A set of natural numbers that is not empty has a least element.
LEMMA LeastNat ==
  ASSUME NEW D \in SUBSET Nat, D # {}
  PROVE  \E k \in D : \A j \in D : k <= j
<1>1. PICK k \in D : \A j \in D : ~(<<j, k>> \in OpToRel(<, Nat))
  BY WFMin, NatLessThanWellFounded
<1>2. \A j \in D : j \in Nat /\ k \in Nat /\ ~(j < k)
  BY <1>1 DEF OpToRel
<1>3. \A j \in D : k <= j
  BY <1>2
<1> QED
  BY <1>1, <1>3

\* One that is bounded has a greatest element, too.
LEMMA GreatestNat ==
  ASSUME NEW D \in SUBSET Nat, D # {}, NEW N \in Int, \A i \in D : i <= N
  PROVE  \E k \in D : \A j \in D : j <= k
<1> DEFINE E == {k \in Nat : N - k \in D}
<1>1. PICK i \in D : TRUE
  OBVIOUS
<1>2. N - i \in Nat /\ N - (N - i) = i
  BY <1>1
<1>3. E \subseteq Nat /\ E # {}
  BY <1>1, <1>2
<1>4. PICK k \in E : \A l \in E : k <= l
  <2> HIDE DEF E
  <2> QED
    BY <1>3, LeastNat
<1>5. ASSUME NEW j \in D
      PROVE  j <= N - k
  <2>1. N - j \in Nat /\ N - (N - j) = j /\ j \in Int
    OBVIOUS
  <2>2. N - j \in E
    BY <2>1
  <2>3. k <= N - j /\ k \in Nat
    BY <1>4, <2>2
  <2> QED
    BY <2>1, <2>3
<1> QED
  BY <1>4, <1>5

\* Induction over the natural numbers.
LEMMA NatInSet ==
  ASSUME NEW A, 0 \in A, \A n \in Nat : n \in A => n + 1 \in A
  PROVE  Nat \subseteq A
<1> DEFINE D == Nat \ A
<1>1. SUFFICES ASSUME D # {} PROVE FALSE
  OBVIOUS
<1>2. PICK k \in D : \A j \in D : k <= j
  <2>1. D \in SUBSET Nat
    OBVIOUS
  <2> HIDE DEF D
  <2> QED
    BY <1>1, <2>1, LeastNat
<1>3. k \in Nat /\ k \notin A /\ k # 0
  BY <1>2
<1>4. k - 1 \in Nat /\ ~(k <= k - 1) /\ (k - 1) + 1 = k
  BY <1>3
<1>5. k - 1 \in A
  BY <1>2, <1>4
<1> QED
  BY <1>3, <1>4, <1>5

-----------------------------------------------------------------------------
(* Names.                                                                  *)

\* strings.LastIndex: a set of positions that is not empty has a last one.
LEMMA LastPosition ==
  ASSUME NEW n \in Name, domainAt(n) # {}
  PROVE  \E i \in domainAt(n) : \A j \in domainAt(n) : j <= i
<1> DEFINE L == Len(n) - Len(Domain)
<1>1. L \in Int /\ domainAt(n) \subseteq 1..L
  BY DomainAssumption DEF domainAt, Name
<1>2. domainAt(n) \in SUBSET Nat /\ \A i \in domainAt(n) : i <= L
  BY <1>1
<1> QED
  BY <1>1, <1>2, GreatestNat

\* Taking the zone off a name leaves a name.
LEMMA TrimmedName ==
  ASSUME NEW n \in Name
  PROVE  trimDomain(n) \in Name
<1>1. CASE domainAt(n) = {}
  BY <1>1 DEF trimDomain, Name
<1>2. CASE domainAt(n) # {}
  <2> DEFINE i == CHOOSE i \in domainAt(n) : \A j \in domainAt(n) : j <= i
  <2>1. i \in domainAt(n)
    BY <1>2, LastPosition
  <2>2. i \in 1..Len(n)
    BY <2>1, DomainAssumption DEF domainAt, Name
  <2>3. trimDomain(n) = SubSeq(n, 1, i)
    BY <1>2 DEF trimDomain
  <2> HIDE DEF i
  <2> QED
    BY <2>2, <2>3 DEF Name
<1> QED
  BY <1>1, <1>2

\* The service format of dns.go and infoFromAddr accept the same names, so
\* serviceResponse never meets an address that does not parse, and an info
\* has the address it was parsed from.
LEMMA ServiceFormats ==
  \A n \in Name : FormatsAgree(n)
<1> SUFFICES ASSUME NEW n \in Name
             PROVE  FormatsAgree(n)
  OBVIOUS
<1>1. CASE serviceQuestion(n)
  <2>1. Len(n) = 5 /\ \A i \in 1..4 : n[i] \in Field
    BY <1>1 DEF serviceQuestion
  <2>2. n[5] \in ZoneLabel
    BY <1>1 DEF serviceQuestion
  <2>3. splitZone(n) = <<n[5]>>
    <3>1. n \in Seq(Label) /\ splitZone(n) = SubSeq(n, 5, 5)
      BY <2>1 DEF splitZone, Name
    <3>2. splitZone(n) = [i \in 1..1 |-> n[i + 4]]
      BY <2>1, <3>1
    <3> QED
      BY <3>2
  <2>4. infoFromAddr(n) = [service |-> n[1], job |-> n[2], env |-> n[3],
                           product |-> n[4], zone |-> n[5]]
    BY <2>1, <2>2, <2>3 DEF infoFromAddr
  <2>5. infoFromAddr(n) \in Info
    BY <2>1, <2>2, <2>4 DEF Info
  <2>6. n[5] # None
    BY <2>2, LabelAssumption
  <2>7. addr(infoFromAddr(n)) = <<n[1], n[2], n[3], n[4]>> \o <<n[5]>>
    BY <2>4, <2>6 DEF addr
  <2>8. n = <<n[1], n[2], n[3], n[4], n[5]>>
    BY <2>1 DEF Name
  <2> QED
    BY <1>1, <2>5, <2>7, <2>8, LabelAssumption DEF FormatsAgree
<1>2. CASE ~serviceQuestion(n)
  <2>1. SUFFICES infoFromAddr(n) = None
    BY <1>2 DEF FormatsAgree
  <2>2. SUFFICES ASSUME Len(n) >= 5, Len(splitZone(n)) = 1,
                        splitZone(n)[1] \in ZoneLabel,
                        \A i \in 1..4 : n[i] \in Field
                 PROVE  FALSE
    BY DEF infoFromAddr
  <2>3. Len(n) = 5
    BY <2>2 DEF splitZone, Name
  <2>4. splitZone(n)[1] = n[5]
    BY <2>3 DEF splitZone, Name
  <2> QED
    BY <1>2, <2>2, <2>3, <2>4 DEF serviceQuestion
<1> QED
  BY <1>1, <1>2

-----------------------------------------------------------------------------
(* The inductive invariant.                                                *)

Dispatched(q) ==
  (isService(q) /\ serviceType(q)) \/ (isServer(q) /\ serverType(q))

\* a read of either view shows nothing that is not recent
Lagging == health \subseteq recent /\ replica \subseteq recent

\* a panic can only come from a negative bound
Alive == MaxAnswers >= 0 => ~crashed

\* what a read at this moment would show has been recorded
Recorded(r) ==
  Reading(r) => recent \subseteq window[r] /\ steady[r] \subseteq Visible

\* only questions of a supported type wait for Consul
Asked(r) ==
  /\ pc[r] # "idle" => req[r] \in Query
  /\ pc[r] \in {"consul", "returned"} => Dispatched(req[r])

\* the result of a store call stays as good as it was when Consul replied
Returned(r) ==
  pc[r] = "returned" =>
    /\ result[r] \in Result
    /\ isServer(req[r]) => result[r].is \subseteq Member
    /\ isService(req[r]) =>
         /\ result[r].is \subseteq Genuine(r)
         /\ \/ errRcode(result[r].err) = "SERVFAIL"
            \/ result[r].err = "none" /\ Wanted(r) \subseteq result[r].is
            \/ Wanted(r) = {}

Wrote(r) ==
  Answered(r) =>
    /\ resp[r] \in Message
    /\ LookedUp(r) => Fresh(r, resp[r]) /\ Complete(r, resp[r])

LInv(r) == Recorded(r) /\ Asked(r) /\ Returned(r) /\ Wrote(r)

IInv == TypeOK /\ Lagging /\ Alive /\ \A r \in Request : LInv(r)

-----------------------------------------------------------------------------
(* Lemmas about messages.                                                  *)

\* The responses the handlers put together are messages.
LEMMA PlainMessage ==
  ASSUME NEW c \in Rcode
  PROVE  /\ [newResponse EXCEPT !.rcode = c] \in Message
         /\ authoritative \in Message
         /\ [authoritative EXCEPT !.rcode = c] \in Message
         /\ \A s \in SOA : [authoritative EXCEPT !.rcode = c, !.soa = s]
                             \in Message
         /\ \A a \in Seq(RR) :
              /\ [authoritative EXCEPT !.answer = a] \in Message
              /\ [authoritative EXCEPT !.rcode = c, !.answer = a] \in Message
<1>1. <<>> \in Seq(RR) /\ "NOERROR" \in Rcode
  BY DEF Rcode
<1>2. /\ [newResponse EXCEPT !.rcode = c] \in Message
      /\ authoritative \in Message
      /\ [authoritative EXCEPT !.rcode = c] \in Message
  BY <1>1 DEF newResponse, authoritative, Message
<1>3. ASSUME NEW s \in SOA
      PROVE  [authoritative EXCEPT !.rcode = c, !.soa = s] \in Message
  BY <1>1 DEF newResponse, authoritative, Message
<1>4. ASSUME NEW a \in Seq(RR)
      PROVE  /\ [authoritative EXCEPT !.answer = a] \in Message
             /\ [authoritative EXCEPT !.rcode = c, !.answer = a] \in Message
  BY <1>1 DEF newResponse, authoritative, Message
<1> QED
  BY <1>2, <1>3, <1>4

\* truncatingWriter keeps a prefix of the answers, and all other fields but
\* the flag it sets.
LEMMA Truncation ==
  ASSUME NEW m \in Message, NEW p \in Proto, ~panics(p, m)
  PROVE  LET t == truncate(p, m)
         IN  /\ t \in Message /\ t.rcode = m.rcode
             /\ DOMAIN t.answer \subseteq DOMAIN m.answer
             /\ \A k \in DOMAIN t.answer : t.answer[k] = m.answer[k]
             /\ t.tc \/ t = m
<1>1. CASE p = "udp" /\ Len(m.answer) > MaxAnswers
  <2>1. m.answer \in Seq(RR) /\ MaxAnswers \in Int
    BY AgentAssumption DEF Message
  <2>2. MaxAnswers \in 0..Len(m.answer)
    BY <1>1, <2>1 DEF panics
  <2> DEFINE a == SubSeq(m.answer, 1, MaxAnswers)
  <2>3. a \in Seq(RR) /\ Len(a) = MaxAnswers
    BY <2>1, <2>2
  <2>4. \A k \in 1..MaxAnswers : a[k] = m.answer[k]
    BY <2>1, <2>2
  <2>5. truncate(p, m) = [m EXCEPT !.answer = a, !.tc = TRUE]
    BY <1>1 DEF truncate
  <2>6. DOMAIN a = 1..MaxAnswers /\ DOMAIN m.answer = 1..Len(m.answer)
    BY <2>1, <2>3
  <2> DEFINE t == [m EXCEPT !.answer = a, !.tc = TRUE]
  <2> HIDE DEF a
  <2>7. t \in Message /\ t.rcode = m.rcode /\ t.answer = a /\ t.tc
    BY <2>3 DEF Message
  <2>8. DOMAIN a \subseteq DOMAIN m.answer
    BY <2>2, <2>6
  <2> QED
    BY <2>4, <2>5, <2>6, <2>7, <2>8
<1>2. CASE ~(p = "udp" /\ Len(m.answer) > MaxAnswers)
  <2>1. truncate(p, m) = m
    BY <1>2 DEF truncate
  <2> QED
    BY <2>1
<1> QED
  BY <1>1, <1>2

\* A listing of a finite set is a sequence of its elements, all of them.
LEMMA ListingIsSeq ==
  ASSUME NEW S, IsFiniteSet(S), NEW list \in Listings(S)
  PROVE  /\ Cardinality(S) \in Nat /\ list \in [1..Cardinality(S) -> S]
         /\ list \in Seq(S) /\ Len(list) = Cardinality(S)
         /\ \A x \in S : \E k \in DOMAIN list : list[k] = x
<1>1. Cardinality(S) \in Nat
  BY FS_CardinalityType
<1>2. list \in [1..Cardinality(S) -> S]
  BY DEF Listings, Bijection, Injection
<1>3. \A x \in S : \E k \in 1..Cardinality(S) : list[k] = x
  BY DEF Listings, Bijection, Surjection
<1> QED
  BY <1>1, <1>2, <1>3

\* uint16 of any port number fits 16 bits.
LEMMA PortFits == \A n \in Nat : n % uint16 \in 0..(uint16 - 1)
<1>1. uint16 \in Nat /\ uint16 > 0
  BY DEF uint16
<1> QED
  BY <1>1

\* What newRR makes of an instance fits a message, if the type is one that
\* serviceResponse looks up.
LEMMA InstanceRecord ==
  ASSUME NEW e \in Entry, NEW t \in {"A", "SRV"}
  PROVE  newRR(t, toInstance(e)) \in RR
<1>1. /\ EntryAttr[e].ip \in IP \cup {None} /\ EntryAttr[e].host \in Nat
      /\ EntryAttr[e].port \in Nat
  BY ConsulAssumption
<1> DEFINE i == toInstance(e)
<1>2. i.ip \in IP \cup {None} /\ i.host \in Nat /\ i.port \in 0..(uint16 - 1)
  <2>1. EntryAttr[e].port % uint16 \in 0..(uint16 - 1)
    BY <1>1, PortFits
  <2> QED
    BY <1>1, <2>1 DEF toInstance
<1> SUFFICES newRR(t, i) \in RR
  OBVIOUS
<1> HIDE DEF i
<1>3. CASE t = "A"
  BY <1>2, <1>3 DEF newRR, RR
<1>4. CASE t = "SRV"
  BY <1>2, <1>4 DEF newRR, RR
<1> QED
  BY <1>3, <1>4

\* The same for the servers of a list, and for one of them.
LEMMA ServerRecord ==
  ASSUME NEW m \in Member, NEW k \in Nat, NEW n \in Name
  PROVE  /\ newRR("A", toServer(m)) \in RR
         /\ \A t \in {"A", "NS"} :
              newRR(t, [toServer(m) EXCEPT !.host = <<k, n>>]) \in RR
<1>1. MemberAttr[m].ip \in IP \cup {None}
  BY ConsulAssumption
<1>2. newRR("A", toServer(m)) \in RR
  BY <1>1 DEF newRR, toServer, RR
<1>3. newRR("A", [toServer(m) EXCEPT !.host = <<k, n>>]) \in RR
  BY <1>1 DEF newRR, toServer, RR
<1>4. newRR("NS", [toServer(m) EXCEPT !.host = <<k, n>>]) \in RR
  BY <1>1 DEF newRR, toServer, RR
<1> QED
  BY <1>2, <1>3, <1>4

-----------------------------------------------------------------------------
(* Lemmas about steps.                                                     *)

\* A goroutine keeps its invariant while nothing of it, or of Consul, changes.
LEMMA Frame ==
  ASSUME NEW s \in Request, LInv(s), UNCHANGED consulVars,
         pc'[s] = pc[s], req'[s] = req[s], result'[s] = result[s],
         resp'[s] = resp[s], window'[s] = window[s], steady'[s] = steady[s]
  PROVE  LInv(s)'
<1>1. Recorded(s)'
  BY DEF LInv, Recorded, Reading, Visible, consulVars
<1>2. Asked(s)'
  BY DEF LInv, Asked
<1>3. Genuine(s)' = Genuine(s) /\ Wanted(s)' = Wanted(s)
  BY DEF Genuine, Wanted
<1>4. Returned(s)'
  BY <1>3 DEF LInv, Returned
<1>5. Wrote(s)'
  BY <1>3 DEF LInv, Wrote, Answered, LookedUp, Fresh, Complete
<1> QED
  BY <1>1, <1>2, <1>4, <1>5 DEF LInv

\* Writing a message that shows only genuine instances, and all it should.
LEMMA WriteMsgStep ==
  ASSUME IInv, NEW r \in Request, pc[r] \in {"serving", "returned"}, ~crashed,
         NEW m \in Message, WriteMsg(r, m),
         isService(req[r]) /\ serviceType(req[r])
           => Fresh(r, m) /\ Complete(r, m)
  PROVE  IInv'
<1>1. req[r] \in Query /\ req[r].proto \in Proto
  <2>1. req[r] \in Query
    BY DEF IInv, LInv, Asked
  <2> QED
    BY <2>1, AgentAssumption
<1>2. UNCHANGED <<req, result, metricVars, historyVars, consulVars>>
  BY DEF WriteMsg
<1>3. CASE panics(req[r].proto, m)
  <2>1. crashed' = TRUE /\ UNCHANGED <<pc, resp, sent, logged>>
    BY <1>3 DEF WriteMsg
  <2>2. TypeOK'
    BY <1>2, <2>1 DEF IInv, TypeOK, ConsulTypeOK, consulVars, metricVars,
                     historyVars
  <2>3. Lagging'
    BY <1>2 DEF IInv, Lagging, consulVars
  <2>4. Alive'
    <3>1. \A k \in DOMAIN m.answer : m.answer[k] \in RR
      BY DEF Message
    <3>2. \A x \in RR : x.type # "panic"
      BY DEF RR
    <3>3. MaxAnswers < 0
      BY <1>3, <3>1, <3>2 DEF panics
    <3> QED
      BY <3>3, AgentAssumption DEF Alive
  <2>5. \A s \in Request : LInv(s)'
    BY <1>2, <2>1, Frame DEF IInv, historyVars
  <2> QED
    BY <2>2, <2>3, <2>4, <2>5 DEF IInv
<1>4. CASE ~panics(req[r].proto, m)
  <2> DEFINE t == truncate(req[r].proto, m)
  <2>1. PICK ok \in BOOLEAN :
          /\ pc' = [pc EXCEPT ![r] = "written"]
          /\ resp' = [resp EXCEPT ![r] = t]
          /\ sent' = [sent EXCEPT ![r] = ok]
          /\ logged' = [logged EXCEPT ![r] = Append(logged[r],
               [kind |-> "DNS", status |-> t.rcode,
                n |-> Len(t.answer), failed |-> ~ok])]
          /\ UNCHANGED crashed
    BY <1>4 DEF WriteMsg, Goto
  <2>2. /\ t \in Message /\ t.rcode = m.rcode
        /\ DOMAIN t.answer \subseteq DOMAIN m.answer
        /\ \A k \in DOMAIN t.answer : t.answer[k] = m.answer[k]
        /\ t.tc \/ t = m
    BY <1>1, <1>4, Truncation
  <2> HIDE DEF t
  <2>3. TypeOK'
    <3>0. t.rcode \in Rcode /\ Len(t.answer) \in Nat
      BY <2>2 DEF Message
    <3>1. [kind |-> "DNS", status |-> t.rcode, n |-> Len(t.answer),
           failed |-> ~ok] \in Line
      BY <3>0 DEF Line
    <3>2. pc' \in [Request -> PC]
      BY <2>1 DEF IInv, TypeOK, PC
    <3>3. resp' \in [Request -> Message \cup {None}]
      BY <2>1, <2>2 DEF IInv, TypeOK
    <3>4. sent' \in [Request -> BOOLEAN]
      BY <2>1 DEF IInv, TypeOK
    <3>5. logged' \in [Request -> Seq(Line)]
      BY <2>1, <3>1 DEF IInv, TypeOK
    <3>6. crashed' \in BOOLEAN
      BY <2>1 DEF IInv, TypeOK
    <3> QED
      BY <1>2, <3>2, <3>3, <3>4, <3>5, <3>6
         DEF IInv, TypeOK, ConsulTypeOK, consulVars, metricVars, historyVars
  <2>4. Lagging' /\ Alive'
    BY <1>2, <2>1 DEF IInv, Lagging, Alive, consulVars
  <2>5. ASSUME NEW s \in Request
        PROVE  LInv(s)'
    <3>1. CASE s # r
      <4>1. pc'[s] = pc[s] /\ resp'[s] = resp[s]
        BY <2>1, <3>1 DEF IInv, TypeOK
      <4> QED
        BY <1>2, <4>1, Frame DEF IInv, historyVars
    <3>2. CASE s = r
      <4>1. pc'[r] = "written" /\ resp'[r] = t
        BY <2>1 DEF IInv, TypeOK
      <4>2. req'[r] = req[r] /\ Genuine(r)' = Genuine(r)
              /\ Wanted(r)' = Wanted(r)
        BY <1>2 DEF Genuine, Wanted, historyVars
      <4>3. Recorded(r)' /\ Asked(r)' /\ Returned(r)'
        BY <1>1, <4>1, <4>2 DEF Recorded, Reading, Asked, Returned
      <4>4. ASSUME Fresh(r, m) PROVE Fresh(r, t)
        BY <2>2, <4>4 DEF Fresh
      <4>5. ASSUME Complete(r, m) PROVE Complete(r, t)
        BY <2>2, <4>5 DEF Complete
      <4>6. Fresh(r, resp[r])' <=> Fresh(r, t)
        BY <4>1, <4>2 DEF Fresh
      <4>7. Complete(r, resp[r])' <=> Complete(r, t)
        BY <4>1, <4>2 DEF Complete
      <4>8. Wrote(r)'
        BY <2>2, <4>1, <4>2, <4>4, <4>5, <4>6, <4>7 DEF Wrote, LookedUp
      <4> QED
        BY <3>2, <4>3, <4>8 DEF LInv
    <3> QED
      BY <3>1, <3>2
  <2> QED
    BY <2>3, <2>4, <2>5 DEF IInv
<1> QED
  BY <1>3, <1>4

\* Consul's own steps keep every view within what is recent.
LEMMA ConsulStep ==
  ASSUME ConsulTypeOK, Lagging, ConsulNext
  PROVE  ConsulTypeOK' /\ Lagging'
<1>1. ASSUME NEW e \in Entry, Up(e)
      PROVE  ConsulTypeOK' /\ Lagging'
  BY <1>1 DEF Up, ConsulTypeOK, Lagging
<1>2. ASSUME NEW e \in Entry, Down(e)
      PROVE  ConsulTypeOK' /\ Lagging'
  BY <1>2 DEF Down, ConsulTypeOK, Lagging
<1>3. ASSUME NEW z \in ZoneLabel, Replicate(z)
      PROVE  ConsulTypeOK' /\ Lagging'
  BY <1>3 DEF Replicate, ConsulTypeOK, Lagging
<1>4. ASSUME NEW z \in RemoteZone, TogglePath(z)
      PROVE  ConsulTypeOK' /\ Lagging'
  BY <1>4, ConsulAssumption DEF TogglePath, ConsulTypeOK, Lagging
<1>5. ASSUME NEW m \in Member, ToggleMember(m)
      PROVE  ConsulTypeOK' /\ Lagging'
  BY <1>5 DEF ToggleMember, ConsulTypeOK, Lagging
<1> QED
  BY <1>1, <1>2, <1>3, <1>4, <1>5 DEF ConsulNext

\* Consul changes: only what a goroutine that may still read records changes.
LEMMA EnvironmentStep ==
  ASSUME IInv, Environment
  PROVE  IInv'
<1>1. ConsulTypeOK' /\ Lagging'
  BY ConsulStep DEF IInv, TypeOK, Environment
<1>2. UNCHANGED <<pc, req, result, resp, sent, logged, metricVars, crashed>>
  BY DEF Environment
<1>3. \A s \in Request :
        /\ window'[s] = IF Reading(s) THEN window[s] \cup recent' ELSE window[s]
        /\ steady'[s] = IF Reading(s) THEN steady[s] \cap Visible'
                        ELSE steady[s]
  BY DEF Environment
<1>4. TypeOK'
  <2>1. window' \in [Request -> SUBSET Entry]
    BY <1>1 DEF IInv, TypeOK, ConsulTypeOK, Environment
  <2>2. steady' \in [Request -> SUBSET Entry]
    BY DEF IInv, TypeOK, Environment
  <2> QED
    BY <1>1, <1>2, <2>1, <2>2 DEF IInv, TypeOK, metricVars
<1>5. Alive'
  BY <1>2 DEF IInv, Alive
<1>6. ASSUME NEW s \in Request
      PROVE  LInv(s)'
  <2>1. CASE Reading(s)
    <3>1. Recorded(s)'
      BY <1>3, <2>1 DEF Recorded
    <3>2. Asked(s)' /\ Returned(s)' /\ Wrote(s)'
      BY <1>2, <2>1 DEF IInv, LInv, Asked, Returned, Wrote, Reading, Answered
    <3> QED
      BY <3>1, <3>2 DEF LInv
  <2>2. CASE ~Reading(s)
    <3>1. window'[s] = window[s] /\ steady'[s] = steady[s]
      BY <1>3, <2>2
    <3>2. Genuine(s)' = Genuine(s) /\ Wanted(s)' = Wanted(s)
      BY <1>2, <3>1 DEF Genuine, Wanted
    <3>3. Recorded(s)' /\ Asked(s)'
      BY <1>2, <2>2 DEF IInv, LInv, Recorded, Reading, Asked
    <3>4. Returned(s)'
      BY <1>2, <3>2 DEF IInv, LInv, Returned
    <3>5. Wrote(s)'
      BY <1>2, <3>2 DEF IInv, LInv, Wrote, Answered, LookedUp, Fresh, Complete
    <3> QED
      BY <3>3, <3>4, <3>5 DEF LInv
  <2> QED
    BY <2>1, <2>2
<1> QED
  BY <1>1, <1>4, <1>5, <1>6 DEF IInv

\* A request arrives, and its history starts with what Consul shows now.
LEMMA ReceiveStep ==
  ASSUME IInv, NEW r \in Request, Receive(r)
  PROVE  IInv'
<1>1. PICK q \in Query : req' = [req EXCEPT ![r] = q]
  BY DEF Receive
<1>2. /\ pc' = [pc EXCEPT ![r] = "serving"]
      /\ window' = [window EXCEPT ![r] = recent]
      /\ steady' = [steady EXCEPT ![r] = Visible]
      /\ UNCHANGED <<result, resp, sent, logged, metricVars, crashed,
                     consulVars>>
  BY DEF Receive, Goto
<1>3. TypeOK'
  <2>1. pc' \in [Request -> PC] /\ req' \in [Request -> Query \cup {None}]
    BY <1>1, <1>2 DEF IInv, TypeOK, PC
  <2>2. Visible \subseteq Entry /\ recent \subseteq Entry
    BY DEF IInv, TypeOK, ConsulTypeOK, Visible
  <2>3. /\ window' \in [Request -> SUBSET Entry]
        /\ steady' \in [Request -> SUBSET Entry]
    BY <1>2, <2>2 DEF IInv, TypeOK
  <2> QED
    BY <1>2, <2>1, <2>3 DEF IInv, TypeOK, ConsulTypeOK, consulVars, metricVars
<1>4. Lagging' /\ Alive'
  BY <1>2 DEF IInv, Lagging, Alive, consulVars
<1>5. ASSUME NEW s \in Request
      PROVE  LInv(s)'
  <2>1. CASE s # r
    <3>1. /\ pc'[s] = pc[s] /\ req'[s] = req[s]
          /\ window'[s] = window[s] /\ steady'[s] = steady[s]
      BY <1>1, <1>2, <2>1 DEF IInv, TypeOK
    <3> QED
      BY <1>2, <3>1, Frame DEF IInv
  <2>2. CASE s = r
    <3>1. /\ pc'[r] = "serving" /\ req'[r] \in Query
          /\ window'[r] = recent /\ steady'[r] = Visible
      BY <1>1, <1>2 DEF IInv, TypeOK
    <3>2. recent' = recent /\ Visible' = Visible
      BY <1>2 DEF consulVars, Visible
    <3> QED
      BY <2>2, <3>1, <3>2
         DEF LInv, Recorded, Asked, Returned, Wrote, Answered
  <2> QED
    BY <2>1, <2>2
<1> QED
  BY <1>3, <1>4, <1>5 DEF IInv

\* The early answers: a message without answers for a question that is not a
\* lookup of a service.
LEMMA ServeStep ==
  ASSUME IInv, NEW r \in Request, Serve(r)
  PROVE  IInv'
<1>1. pc[r] = "serving" /\ ~crashed
  BY DEF Serve, ServeFailed, ServeMulti, ServeForeign, ServeInvalid,
         ServeUnsupported, CallInstances, CallServers, At
<1>2. req[r] \in Query /\ req[r].count \in 0..2
  <2>1. req[r] \in Query
    BY <1>1 DEF IInv, LInv, Asked
  <2> QED
    BY <2>1, AgentAssumption
<1>3. CASE ServeFailed(r)
  <2> DEFINE m == [newResponse EXCEPT !.rcode = "SERVFAIL"]
  <2>1. m \in Message
    BY PlainMessage DEF Rcode
  <2>2. PICK ok \in BOOLEAN : sent' = [sent EXCEPT ![r] = ok]
    BY <1>3 DEF ServeFailed
  <2>3. /\ pc' = [pc EXCEPT ![r] = "done"] /\ resp' = [resp EXCEPT ![r] = m]
        /\ UNCHANGED <<req, result, logged, metricVars, crashed, historyVars,
                       consulVars>>
    BY <1>3 DEF ServeFailed, Goto
  <2>4. ~inDomain(req[r])
    BY <1>2, <1>3 DEF ServeFailed, inDomain
  <2> HIDE DEF m
  <2>5. TypeOK'
    <3>1. pc' \in [Request -> PC]
      BY <2>3 DEF IInv, TypeOK, PC
    <3>2. /\ resp' \in [Request -> Message \cup {None}]
          /\ sent' \in [Request -> BOOLEAN]
      BY <2>1, <2>2, <2>3 DEF IInv, TypeOK
    <3> QED
      BY <2>3, <3>1, <3>2 DEF IInv, TypeOK, ConsulTypeOK, consulVars,
                              metricVars, historyVars
  <2>6. Lagging' /\ Alive'
    BY <2>3 DEF IInv, Lagging, Alive, consulVars
  <2>7. ASSUME NEW s \in Request
        PROVE  LInv(s)'
    <3>1. CASE s # r
      <4>1. pc'[s] = pc[s] /\ resp'[s] = resp[s]
        BY <2>3, <3>1 DEF IInv, TypeOK
      <4> QED
        BY <2>3, <4>1, Frame DEF IInv, historyVars
    <3>2. CASE s = r
      <4>1. pc'[r] = "done" /\ resp'[r] = m /\ req'[r] = req[r]
        BY <2>3 DEF IInv, TypeOK
      <4> QED
        BY <1>2, <2>1, <2>4, <3>2, <4>1
           DEF LInv, Recorded, Reading, Asked, Returned, Wrote, LookedUp,
               isService
    <3> QED
      BY <3>1, <3>2
  <2> QED
    BY <2>5, <2>6, <2>7 DEF IInv
<1>4. CASE ServeMulti(r)
  <2>1. [newResponse EXCEPT !.rcode = "NOTIMP"] \in Message
    BY PlainMessage DEF Rcode
  <2>2. ~isService(req[r])
    BY <1>2, <1>4 DEF ServeMulti, isService, inDomain
  <2> QED
    BY <1>1, <1>4, <2>1, <2>2, WriteMsgStep DEF ServeMulti
<1>5. CASE ServeForeign(r)
  <2>1. [newResponse EXCEPT !.rcode = "NXDOMAIN"] \in Message
    BY PlainMessage DEF Rcode
  <2>2. ~isService(req[r])
    BY <1>5 DEF ServeForeign, isService, inDomain
  <2> QED
    BY <1>1, <1>5, <2>1, <2>2, WriteMsgStep DEF ServeForeign
<1>6. CASE ServeInvalid(r)
  <2>1. newSOA(defaultInvalidTTL) \in SOA
    BY DEF newSOA, SOA, defaultTTL, defaultInvalidTTL
  <2>2. [authoritative EXCEPT !.rcode = "NXDOMAIN",
                              !.soa = newSOA(defaultInvalidTTL)] \in Message
    BY <2>1, PlainMessage DEF Rcode
  <2>3. ~isService(req[r])
    BY <1>6 DEF ServeInvalid, isInvalid
  <2> QED
    BY <1>1, <1>6, <2>2, <2>3, WriteMsgStep DEF ServeInvalid
<1>7. CASE ServeUnsupported(r)
  <2>1. authoritative \in Message
    BY PlainMessage DEF Rcode
  <2>2. ~(isService(req[r]) /\ serviceType(req[r]))
    BY <1>7 DEF ServeUnsupported, isServer, isService
  <2> QED
    BY <1>1, <1>7, <2>1, <2>2, WriteMsgStep DEF ServeUnsupported
<1>8. ASSUME Dispatched(req[r]), Call(r)
      PROVE  IInv'
  <2>1. /\ pc' = [pc EXCEPT ![r] = "consul"]
        /\ UNCHANGED <<req, result, resp, sent, logged, metricVars, crashed,
                       historyVars, consulVars>>
    BY <1>8 DEF Call, Goto
  <2>2. TypeOK'
    <3>1. pc' \in [Request -> PC]
      BY <2>1 DEF IInv, TypeOK, PC
    <3> QED
      BY <2>1, <3>1 DEF IInv, TypeOK, ConsulTypeOK, consulVars, metricVars,
                        historyVars
  <2>3. Lagging' /\ Alive'
    BY <2>1 DEF IInv, Lagging, Alive, consulVars
  <2>4. ASSUME NEW s \in Request
        PROVE  LInv(s)'
    <3>1. CASE s # r
      <4>1. pc'[s] = pc[s]
        BY <2>1, <3>1 DEF IInv, TypeOK
      <4> QED
        BY <2>1, <4>1, Frame DEF IInv, historyVars
    <3>2. CASE s = r
      <4>1. pc'[r] = "consul"
        BY <2>1 DEF IInv, TypeOK
      <4>2. Recorded(r)'
        BY <1>1, <2>1 DEF IInv, LInv, Recorded, Reading, Visible, consulVars,
                          historyVars
      <4> QED
        BY <1>2, <1>8, <2>1, <3>2, <4>1, <4>2
           DEF LInv, Asked, Returned, Wrote, Answered
    <3> QED
      BY <3>1, <3>2
  <2> QED
    BY <2>2, <2>3, <2>4 DEF IInv
<1>9. CASE CallInstances(r) \/ CallServers(r)
  BY <1>8, <1>9 DEF CallInstances, CallServers, Dispatched
<1> QED
  BY <1>3, <1>4, <1>5, <1>6, <1>7, <1>9 DEF Serve

-----------------------------------------------------------------------------
(* The store.                                                              *)

\* A service question has a well-formed info.
LEMMA ServiceInfo ==
  ASSUME NEW q \in Query, isService(q)
  PROVE  info(q) \in Info
<1>1. q.name \in Name
  BY AgentAssumption
<1>2. relative(q) \in Name
  BY <1>1, TrimmedName DEF relative
<1> QED
  BY <1>2, ServiceFormats, LabelAssumption DEF isService, info, FormatsAgree

\* What getInstances returns for any reply Consul may give while r waits: only
\* genuine instances, and every steady one unless it reports a failure.
LEMMA InstancesGood ==
  ASSUME TypeOK, Lagging, NEW r \in Request, Recorded(r), Reading(r),
         NEW rep \in serviceReplies(info(req[r]))
  PROVE  LET res == getInstances(info(req[r]), rep)
         IN  /\ res \in Result
             /\ res.is \subseteq Genuine(r)
             /\ \/ errRcode(res.err) = "SERVFAIL"
                \/ res.err = "none" /\ Wanted(r) \subseteq res.is
                \/ Wanted(r) = {}
<1> DEFINE i == info(req[r])
           res == getInstances(i, rep)
<1>1. /\ recent \subseteq window[r] /\ window[r] \subseteq Entry
      /\ steady[r] \subseteq Visible
  BY DEF Recorded, TypeOK
<1>2. ASSUME NEW l \in ErrLabel, res = Failed(l)
      PROVE  res \in Result /\ res.is = {} /\ res.err = l
  BY <1>2 DEF Failed, Result
<1>3. CASE rep = ApiError
  <2>1. res = Failed("consulapi")
    BY <1>3 DEF ApiError, getInstances
  <2>2. res \in Result /\ res.is = {} /\ res.err = "consulapi"
    BY <1>2, <2>1 DEF ErrLabel
  <2> HIDE DEF res
  <2> QED
    BY <2>2 DEF errRcode, isNoInstances, res
<1>4. CASE i.zone \notin path /\ rep = NoPath
  <2>1. res = Failed("noinstances")
    BY <1>4 DEF NoPath, getInstances
  <2>2. Wanted(r) = {}
    BY <1>1, <1>4 DEF Wanted, EntryFor, Visible
  <2>3. res \in Result /\ res.is = {}
    BY <1>2, <2>1 DEF ErrLabel
  <2> QED
    BY <2>2, <2>3
<1>5. ASSUME NEW view \in {health, replica},
             rep = HealthService(view, i.product, <<"job", i.job>>, i.zone)
      PROVE  /\ res \in Result
             /\ res.is \subseteq Genuine(r)
             /\ \/ errRcode(res.err) = "SERVFAIL"
                \/ res.err = "none" /\ Wanted(r) \subseteq res.is
                \/ Wanted(r) = {}
  <2>1. rep.err = "none" /\ rep.entries \subseteq view
    BY <1>5 DEF HealthService
  <2>2. \A e \in rep.entries :
          /\ EntryAttr[e].zone = i.zone /\ EntryAttr[e].product = i.product
          /\ <<"job", i.job>> \in EntryAttr[e].tags
    BY <1>5 DEF HealthService
  <2>3. rep.entries \subseteq window[r]
    BY <1>1, <1>5, <2>1 DEF Lagging
  <2>4. Wanted(r) \subseteq rep.entries
    BY <1>1, <1>5 DEF HealthService, Wanted, EntryFor, Visible
  <2>5. \A e \in Entry : matches(e, i) /\ e \in rep.entries => EntryFor(e, i)
    BY <2>2 DEF matches, EntryFor
  <2>6. \A e \in Wanted(r) : matches(e, i)
    BY DEF Wanted, EntryFor, matches
  <2>7. CASE rep.entries = {}
    <3>1. res = Failed("noinstances")
      BY <2>1, <2>7 DEF getInstances
    <3>2. res \in Result /\ res.is = {}
      BY <1>2, <3>1 DEF ErrLabel
    <3> QED
      BY <2>4, <2>7, <3>2
  <2>8. CASE rep.entries # {} /\ \E e \in rep.entries : EntryAttr[e].ip = None
    <3>1. res = Failed("invalidip")
      BY <2>1, <2>8 DEF getInstances
    <3>2. res \in Result /\ res.is = {} /\ res.err = "invalidip"
      BY <1>2, <3>1 DEF ErrLabel
    <3> HIDE DEF res
    <3> QED
      BY <3>2 DEF errRcode, isNoInstances
  <2>9. CASE rep.entries # {} /\ ~\E e \in rep.entries : EntryAttr[e].ip = None
    <3> DEFINE found == {e \in rep.entries : matches(e, i)}
    <3>1. res = Found(found)
      BY <2>1, <2>9 DEF getInstances
    <3>2. found \subseteq Genuine(r)
      BY <1>1, <2>3, <2>5, <2>9 DEF Genuine
    <3>3. Wanted(r) \subseteq found /\ found \in SUBSET Entry
      BY <1>1, <2>3, <2>4, <2>6
    <3> HIDE DEF found
    <3>4. res \in Result /\ res.is = found /\ res.err = "none"
      BY <3>1, <3>3 DEF Found, Result
    <3> QED
      BY <3>2, <3>3, <3>4
  <2> QED
    BY <2>7, <2>8, <2>9
<1> HIDE DEF res
<1>6. \/ rep = ApiError \/ (i.zone \notin path /\ rep = NoPath)
      \/ \E view \in {health, replica} :
           rep = HealthService(view, i.product, <<"job", i.job>>, i.zone)
  BY DEF serviceReplies
<1> QED
  BY <1>3, <1>4, <1>5, <1>6 DEF res

\* The end of a store call: the result is recorded, the metrics and the log
\* keep their types.
LEMMA StoreReturnsStep ==
  ASSUME IInv, NEW r \in Request, pc[r] = "consul", NEW op \in Op,
         NEW res \in Result, StoreReturns(r, op, res),
         storeCounts' \in SUBSET (Info \X Nat),
         isServer(req[r]) => res.is \subseteq Member,
         isService(req[r]) =>
           /\ res.is \subseteq Genuine(r)
           /\ \/ errRcode(res.err) = "SERVFAIL"
              \/ res.err = "none" /\ Wanted(r) \subseteq res.is
              \/ Wanted(r) = {}
  PROVE  IInv'
<1>1. /\ pc' = [pc EXCEPT ![r] = "returned"]
      /\ result' = [result EXCEPT ![r] = res]
      /\ UNCHANGED <<req, resp, sent, dnsDurations, crashed, historyVars,
                     consulVars>>
  BY DEF StoreReturns, Goto
<1>2. res.err \in ErrLabel \cup {"none"}
  BY DEF Result
<1>3. TypeOK'
  <2>1. pc' \in [Request -> PC]
    BY <1>1 DEF IInv, TypeOK, PC
  <2>2. result' \in [Request -> Result \cup {None}]
    BY <1>1 DEF IInv, TypeOK
  <2>3. logged' \in [Request -> Seq(Line)]
    <3>1. CASE res.err = "none"
      BY <3>1 DEF StoreReturns, IInv, TypeOK
    <3>2. CASE res.err # "none"
      <4> DEFINE l == [kind |-> "STORE", status |-> res.err, n |-> 0,
                       failed |-> TRUE]
      <4>1. l \in Line
        BY <1>2, <3>2 DEF Line
      <4>2. logged' = [logged EXCEPT ![r] = Append(logged[r], l)]
        BY <3>2 DEF StoreReturns
      <4> HIDE DEF l
      <4> QED
        BY <4>1, <4>2 DEF IInv, TypeOK
    <3> QED
      BY <3>1, <3>2
  <2>4. storeErrors' \in [Op \X ErrLabel -> Nat]
    <3>1. CASE res.err = "none"
      BY <3>1 DEF StoreReturns, trackStore, IInv, TypeOK
    <3>2. CASE res.err # "none"
      <4> DEFINE x == <<op, res.err>>
      <4>1. x \in Op \X ErrLabel
        BY <1>2, <3>2
      <4>2. storeErrors' = [storeErrors EXCEPT ![x] = storeErrors[x] + 1]
        BY <3>2 DEF StoreReturns, trackStore
      <4> HIDE DEF x
      <4> QED
        BY <4>1, <4>2 DEF IInv, TypeOK
    <3> QED
      BY <3>1, <3>2
  <2>5. storeDurations' \in [Op \X (ErrLabel \cup {"none"}) -> Nat]
    <3> DEFINE x == <<op, res.err>>
    <3>1. x \in Op \X (ErrLabel \cup {"none"})
      BY <1>2
    <3>2. storeDurations' = [storeDurations EXCEPT ![x] = storeDurations[x] + 1]
      BY DEF StoreReturns, trackStore
    <3> HIDE DEF x
    <3> QED
      BY <3>1, <3>2 DEF IInv, TypeOK
  <2> QED
    BY <1>1, <2>1, <2>2, <2>3, <2>4, <2>5
       DEF IInv, TypeOK, ConsulTypeOK, consulVars, historyVars
<1>4. Lagging' /\ Alive'
  BY <1>1 DEF IInv, Lagging, Alive, consulVars
<1>5. ASSUME NEW s \in Request
      PROVE  LInv(s)'
  <2>1. CASE s # r
    <3>1. pc'[s] = pc[s] /\ result'[s] = result[s]
      BY <1>1, <2>1 DEF IInv, TypeOK
    <3> QED
      BY <1>1, <3>1, Frame DEF IInv, historyVars
  <2>2. CASE s = r
    <3>1. pc'[r] = "returned" /\ result'[r] = res /\ req'[r] = req[r]
      BY <1>1 DEF IInv, TypeOK
    <3>2. Genuine(r)' = Genuine(r) /\ Wanted(r)' = Wanted(r)
      BY <1>1 DEF Genuine, Wanted, historyVars
    <3>3. Recorded(r)' /\ Wrote(r)'
      BY <3>1 DEF Recorded, Reading, Wrote, Answered
    <3>4. Asked(r)'
      BY <3>1 DEF IInv, LInv, Asked
    <3>5. Returned(r)'
      BY <3>1, <3>2 DEF Returned
    <3> QED
      BY <2>2, <3>3, <3>4, <3>5 DEF LInv
  <2> QED
    BY <2>1, <2>2
<1> QED
  BY <1>3, <1>4, <1>5 DEF IInv

\* The read of Consul: what was recorded becomes what was returned.
LEMMA ReturnStep ==
  ASSUME IInv, NEW r \in Request, Return(r)
  PROVE  IInv'
<1>1. pc[r] = "consul"
  BY DEF Return, InstancesReturned, ServersReturned, At
<1>2. req[r] \in Query
  BY <1>1 DEF IInv, LInv, Asked
<1>3. CASE InstancesReturned(r)
  <2>1. PICK rep \in serviceReplies(info(req[r])) :
          /\ StoreReturns(r, "getInstances", getInstances(info(req[r]), rep))
          /\ setStoreCounts(info(req[r]), getInstances(info(req[r]), rep))
    BY <1>3 DEF InstancesReturned
  <2> DEFINE res == getInstances(info(req[r]), rep)
  <2>2. isService(req[r]) /\ ~isServer(req[r])
    BY <1>3 DEF InstancesReturned, isService, isServer
  <2>3. Recorded(r) /\ Reading(r)
    BY <1>1 DEF IInv, LInv, Reading
  <2>4. /\ res \in Result
        /\ res.is \subseteq Genuine(r)
        /\ \/ errRcode(res.err) = "SERVFAIL"
           \/ res.err = "none" /\ Wanted(r) \subseteq res.is
           \/ Wanted(r) = {}
    BY <2>3, InstancesGood DEF IInv
  <2> HIDE DEF res
  <2>5. storeCounts' \in SUBSET (Info \X Nat)
    <3>1. info(req[r]) \in Info
      BY <1>2, <2>2, ServiceInfo
    <3>2. res.is \subseteq Entry
      BY <2>4 DEF Genuine, IInv, TypeOK
    <3>3. Cardinality(res.is) \in Nat
      BY <3>2, FS_Subset, FS_CardinalityType, ConsulAssumption
    <3>4. storeCounts \in SUBSET (Info \X Nat)
      BY DEF IInv, TypeOK
    <3>5. setStoreCounts(info(req[r]), res)
      BY <2>1 DEF res
    <3> QED
      BY <3>1, <3>3, <3>4, <3>5 DEF setStoreCounts
  <2>6. StoreReturns(r, "getInstances", res) /\ "getInstances" \in Op
    BY <2>1 DEF res, Op
  <2> QED
    BY <1>1, <2>2, <2>4, <2>5, <2>6, StoreReturnsStep
<1>4. CASE ServersReturned(r)
  <2>1. PICK rep \in serverReplies :
          StoreReturns(r, "getServers", getServers(question(req[r]).zone, rep))
    BY <1>4 DEF ServersReturned
  <2> DEFINE res == getServers(question(req[r]).zone, rep)
  <2>2. isServer(req[r]) /\ ~isService(req[r])
    BY <1>4 DEF ServersReturned, isService, isServer
  <2>3. rep.members \subseteq Member
    BY DEF serverReplies, ApiError, AgentMembers, IInv, TypeOK, ConsulTypeOK
  <2>4. res \in Result /\ res.is \subseteq Member
    <3>1. CASE rep.err # "none"
      BY <3>1 DEF getServers, Failed, Result, ErrLabel
    <3>2. CASE rep.err = "none"
      <4> DEFINE found ==
            {m \in rep.members : \/ question(req[r]).zone = None
                                 \/ MemberAttr[m].zone = question(req[r]).zone}
      <4>1. res = Found(found) /\ found \in SUBSET Member
        BY <2>3, <3>2 DEF getServers
      <4> HIDE DEF found, res
      <4> QED
        BY <4>1 DEF Found, Result
    <3> QED
      BY <3>1, <3>2
  <2>5. storeCounts' \in SUBSET (Info \X Nat)
    BY <1>4 DEF ServersReturned, IInv, TypeOK
  <2> HIDE DEF res
  <2>6. StoreReturns(r, "getServers", res) /\ "getServers" \in Op
    BY <2>1 DEF res, Op
  <2> QED
    BY <1>1, <2>2, <2>4, <2>5, <2>6, StoreReturnsStep
<1> QED
  BY <1>3, <1>4 DEF Return

-----------------------------------------------------------------------------
(* The responses.                                                          *)

\* The responder of a service question: the result becomes the message.
LEMMA ServiceResponseStep ==
  ASSUME IInv, NEW r \in Request, serviceResponse(r)
  PROVE  IInv'
<1>1. pc[r] = "returned" /\ ~crashed /\ isService(req[r])
  BY DEF serviceResponse, At
<1>2. /\ req[r] \in Query /\ Dispatched(req[r]) /\ Returned(r)
      /\ result[r] \in Result
  BY <1>1 DEF IInv, LInv, Asked, Returned
<1>3. req[r].qtype \in {"A", "SRV"}
  BY <1>1, <1>2 DEF Dispatched, isServer, isService, serviceType
<1> DEFINE S == result[r].is
           c == errRcode(result[r].err)
           q == req[r].qtype
<1>4. /\ S \subseteq Genuine(r) /\ S \subseteq Entry
      /\ \/ c = "SERVFAIL"
         \/ result[r].err = "none" /\ Wanted(r) \subseteq S
         \/ Wanted(r) = {}
  BY <1>1, <1>2 DEF Returned, Genuine, IInv, TypeOK
<1>5. IsFiniteSet(S)
  BY <1>4, FS_Subset, ConsulAssumption
<1>6. c \in Rcode /\ (result[r].err = "none" => c = "NOERROR")
  BY DEF errRcode, Rcode
<1>7. PICK list \in Listings(S) :
        WriteMsg(r, [authoritative EXCEPT
                       !.rcode = c,
                       !.answer = [k \in DOMAIN list |->
                                     newRR(q, toInstance(list[k]))]])
  BY DEF serviceResponse
<1> DEFINE a == [k \in DOMAIN list |-> newRR(q, toInstance(list[k]))]
           m == [authoritative EXCEPT !.rcode = c, !.answer = a]
<1> HIDE DEF S, c, q
<1>8. /\ Cardinality(S) \in Nat /\ list \in [1..Cardinality(S) -> S]
      /\ \A x \in S : \E k \in DOMAIN list : list[k] = x
  BY <1>5, <1>7, ListingIsSeq
<1>9. \A k \in DOMAIN list : list[k] \in S /\ list[k] \in Entry
  BY <1>4, <1>8
<1>10. \A k \in DOMAIN list : newRR(q, toInstance(list[k])) \in RR
  BY <1>3, <1>9, InstanceRecord DEF q
<1>11. a \in Seq(RR)
  <2>1. a \in [1..Cardinality(S) -> RR]
    BY <1>8, <1>10
  <2> HIDE DEF a
  <2> QED
    BY <1>8, <2>1
<1>12. /\ DOMAIN a = DOMAIN list
       /\ \A k \in DOMAIN a : a[k] = newRR(q, toInstance(list[k]))
  OBVIOUS
<1> HIDE DEF a
<1>13. m \in Message
  BY <1>6, <1>11, PlainMessage
<1>14. m.rcode = c /\ m.answer = a
  BY DEF authoritative, newResponse
<1> HIDE DEF m
<1>15. Fresh(r, m)
  BY <1>4, <1>9, <1>12, <1>14 DEF Fresh, q
<1>16. Complete(r, m)
  <2>1. CASE c = "SERVFAIL"
    BY <1>14, <2>1 DEF Complete
  <2>2. CASE Wanted(r) = {}
    BY <2>2 DEF Complete
  <2>3. CASE result[r].err = "none" /\ Wanted(r) \subseteq S
    <3>1. m.rcode = "NOERROR"
      BY <1>6, <1>14, <2>3
    <3>2. ASSUME NEW e \in Wanted(r)
          PROVE  newRR(q, toInstance(e)) \in Range(m.answer)
      <4>1. PICK k \in DOMAIN list : list[k] = e
        BY <1>8, <2>3
      <4>2. k \in DOMAIN a /\ a[k] = newRR(q, toInstance(e))
        BY <1>12, <4>1
      <4> QED
        BY <1>14, <4>2 DEF Range
    <3> QED
      BY <3>1, <3>2 DEF Complete, q
  <2> QED
    BY <1>4, <2>1, <2>2, <2>3
<1>17. WriteMsg(r, m)
  BY <1>7 DEF m, a
<1> QED
  BY <1>1, <1>13, <1>15, <1>16, <1>17, WriteMsgStep

\* The number in a name-server question is that of one of its labels.
LEMMA ServerNumber ==
  ASSUME NEW q \in Query, isServer(q), question(q).ns # None
  PROVE  question(q).ns \in NSLabel /\ NSNumber[question(q).ns] \in Nat
<1> DEFINE n == relative(q)
<1>1. serverQuestion(n)
  BY DEF isServer
<1>2. question(q) = parseServerQuestion(n)
  BY DEF question
<1>3. n \in Name
  BY AgentAssumption, TrimmedName DEF relative
<1> HIDE DEF n
<1>4. parseServerQuestion(n).ns \in NSLabel \cup {None}
  BY <1>1, <1>3 DEF serverQuestion, parseServerQuestion, Name
<1> QED
  BY <1>2, <1>4, LabelAssumption

\* The responder of a server question.
LEMMA ServerResponseStep ==
  ASSUME IInv, NEW r \in Request, serverResponse(r)
  PROVE  IInv'
<1>1. /\ pc[r] = "returned" /\ ~crashed /\ isServer(req[r])
      /\ ~isService(req[r])
  BY DEF serverResponse, At, isServer, isService
<1>2. req[r] \in Query /\ Dispatched(req[r]) /\ result[r].is \subseteq Member
  BY <1>1 DEF IInv, LInv, Asked, Returned
<1>3. req[r].qtype \in {"A", "NS"} /\ req[r].name \in Name
  BY <1>1, <1>2, AgentAssumption DEF Dispatched, serverType
<1> DEFINE S == result[r].is
           ns == question(req[r]).ns
<1>4. IsFiniteSet(S)
  BY <1>2, FS_Subset, ConsulAssumption
<1>5. ASSUME NEW list \in sorted(S)
      PROVE  /\ Cardinality(S) \in Nat /\ list \in [1..Cardinality(S) -> Member]
             /\ Len(list) = Cardinality(S)
  <2>1. list \in Listings(S)
    BY DEF sorted
  <2> HIDE DEF S
  <2>2. /\ Cardinality(S) \in Nat /\ list \in [1..Cardinality(S) -> S]
        /\ Len(list) = Cardinality(S)
    BY <1>4, <2>1, ListingIsSeq
  <2> QED
    BY <1>2, <2>2 DEF S
<1>6. ASSUME NEW m \in Message, WriteMsg(r, m)
      PROVE  IInv'
  BY <1>1, <1>6, WriteMsgStep
<1>7. CASE WriteMsg(r, [authoritative EXCEPT !.rcode = "SERVFAIL"])
  <2>1. [authoritative EXCEPT !.rcode = "SERVFAIL"] \in Message
    BY PlainMessage DEF Rcode
  <2> QED
    BY <1>6, <1>7, <2>1
<1>8. CASE WriteMsg(r, [authoritative EXCEPT !.rcode = "NXDOMAIN"])
  <2>1. [authoritative EXCEPT !.rcode = "NXDOMAIN"] \in Message
    BY PlainMessage DEF Rcode
  <2> QED
    BY <1>6, <1>8, <2>1
<1>9. ASSUME NEW list \in sorted(S),
             WriteMsg(r, [authoritative EXCEPT !.answer = listed(req[r], list)])
      PROVE  IInv'
  <2> DEFINE a == listed(req[r], list)
             n == Cardinality(S)
  <2>1. n \in Nat /\ list \in [1..n -> Member]
    BY <1>5, <1>9
  <2> HIDE DEF n
  <2>2. \A k \in 1..n : k - 1 \in Nat /\ list[k] \in Member
    BY <2>1
  <2>3. \A k \in 1..n :
          newRR(req[r].qtype, [toServer(list[k]) EXCEPT
                                 !.host = <<k - 1, req[r].name>>]) \in RR
    BY <1>3, <2>2, ServerRecord
  <2>4. a \in [1..n -> RR]
    BY <2>1, <2>3 DEF listed
  <2> HIDE DEF a
  <2>5. a \in Seq(RR)
    BY <2>1, <2>4
  <2>6. [authoritative EXCEPT !.answer = a] \in Message
    BY <2>5, PlainMessage DEF Rcode
  <2> QED
    BY <1>6, <1>9, <2>6 DEF a
<1>10. ASSUME NEW list \in sorted(S), ns # None,
              WriteMsg(r, [authoritative EXCEPT
                             !.answer = pick(req[r], list)])
       PROVE  IInv'
  <2> DEFINE a == pick(req[r], list)
             n == NSNumber[ns]
  <2>1. n \in Nat
    BY <1>1, <1>2, <1>10, ServerNumber
  <2>2. req[r].qtype = "A"
    BY <1>1, <1>2, <1>10 DEF Dispatched, serverType
  <2>3. a \in Seq(RR)
    <3>1. CASE n < Len(list)
      <4>1. list[n + 1] \in Member
        <5>1. /\ Cardinality(S) \in Nat
              /\ list \in [1..Cardinality(S) -> Member]
              /\ Len(list) = Cardinality(S)
          BY <1>5, <1>10
        <5> HIDE DEF n, S
        <5>2. n + 1 \in 1..Cardinality(S)
          BY <2>1, <3>1, <5>1
        <5> QED
          BY <5>1, <5>2
      <4>2. newRR("A", toServer(list[n + 1])) \in RR
        <5> DEFINE x == list[n + 1]
        <5> HIDE DEF x
        <5>1. newRR("A", toServer(x)) \in RR
          BY <1>3, <2>1, <4>1, ServerRecord DEF x
        <5> QED
          BY <5>1 DEF x
      <4>3. a = <<newRR("A", toServer(list[n + 1]))>>
        <5>1. /\ Cardinality(S) \in Nat
              /\ list \in [1..Cardinality(S) -> Member]
              /\ Len(list) = Cardinality(S)
          BY <1>5, <1>10
        <5>2. n + 1 \in DOMAIN list
          <6> HIDE DEF n, S
          <6> QED
            BY <2>1, <3>1, <5>1
        <5>3. a = <<serverAt(req[r], list, n)>>
          BY <3>1 DEF pick
        <5> HIDE DEF a, n
        <5> QED
          BY <2>2, <5>2, <5>3 DEF serverAt
      <4> QED
        BY <4>2, <4>3
    <3>2. CASE ~(n < Len(list))
      <4>1. a = <<>>
        BY <3>2 DEF pick
      <4> QED
        BY <4>1
    <3> QED
      BY <3>1, <3>2
  <2> HIDE DEF a
  <2>4. [authoritative EXCEPT !.answer = a] \in Message
    BY <2>3, PlainMessage DEF Rcode
  <2> QED
    BY <1>6, <1>10, <2>4 DEF a
<1> QED
  BY <1>7, <1>8, <1>9, <1>10 DEF serverResponse

\* The metrics of a finished request are the last of it.
LEMMA ObserveStep ==
  ASSUME IInv, NEW r \in Request, Observe(r)
  PROVE  IInv'
<1> DEFINE x == <<req[r].proto, qtypeLabel(req[r]), resp[r].rcode>>
<1>1. /\ pc[r] = "written" /\ pc' = [pc EXCEPT ![r] = "done"]
      /\ dnsDurations' = [dnsDurations EXCEPT ![x] = dnsDurations[x] + 1]
      /\ UNCHANGED <<req, result, resp, sent, logged, storeErrors,
                     storeDurations, storeCounts, crashed, historyVars,
                     consulVars>>
  BY DEF Observe, At, Goto
<1>2. req[r] \in Query /\ resp[r] \in Message
  BY <1>1 DEF IInv, LInv, Asked, Wrote, Answered
<1>3. x \in Proto \X (QType \cup {"unknown"}) \X Rcode
  <2>1. req[r].proto \in Proto /\ req[r].qtype \in QType
    BY <1>2, AgentAssumption
  <2>2. resp[r].rcode \in Rcode
    BY <1>2 DEF Message
  <2>3. qtypeLabel(req[r]) \in QType \cup {"unknown"}
    BY <2>1 DEF qtypeLabel
  <2> QED
    BY <2>1, <2>2, <2>3
<1> HIDE DEF x
<1>4. TypeOK'
  <2>1. pc' \in [Request -> PC]
    BY <1>1 DEF IInv, TypeOK, PC
  <2>2. dnsDurations' \in [Proto \X (QType \cup {"unknown"}) \X Rcode -> Nat]
    BY <1>1, <1>3 DEF IInv, TypeOK
  <2> QED
    BY <1>1, <2>1, <2>2
       DEF IInv, TypeOK, ConsulTypeOK, consulVars, historyVars
<1>5. Lagging' /\ Alive'
  BY <1>1 DEF IInv, Lagging, Alive, consulVars
<1>6. ASSUME NEW s \in Request
      PROVE  LInv(s)'
  <2>1. CASE s # r
    <3>1. pc'[s] = pc[s]
      BY <1>1, <2>1 DEF IInv, TypeOK
    <3> QED
      BY <1>1, <3>1, Frame DEF IInv, historyVars
  <2>2. CASE s = r
    <3>1. pc'[r] = "done" /\ req'[r] = req[r] /\ resp'[r] = resp[r]
      BY <1>1 DEF IInv, TypeOK
    <3>2. Genuine(r)' = Genuine(r) /\ Wanted(r)' = Wanted(r)
      BY <1>1 DEF Genuine, Wanted, historyVars
    <3>3. Recorded(r)' /\ Asked(r)' /\ Returned(r)'
      BY <1>2, <3>1 DEF Recorded, Reading, Asked, Returned
    <3>4. Wrote(r)'
      BY <1>1, <3>1, <3>2
         DEF IInv, LInv, Wrote, Answered, LookedUp, Fresh, Complete
    <3> QED
      BY <2>2, <3>3, <3>4 DEF LInv
  <2> QED
    BY <2>1, <2>2
<1> QED
  BY <1>4, <1>5, <1>6 DEF IInv

-----------------------------------------------------------------------------
(* The theorems.                                                           *)

\* The invariant holds when the agent starts.
LEMMA InitInv == Init => IInv
<1> SUFFICES ASSUME Init PROVE IInv
  OBVIOUS
<1>1. TypeOK
  <2>1. ConsulTypeOK
    BY DEF Init, ConsulInit, ConsulTypeOK
  <2>2. pc \in [Request -> PC] /\ logged \in [Request -> Seq(Line)]
    BY DEF Init, PC
  <2> QED
    BY <2>1, <2>2 DEF Init, TypeOK
<1>2. Lagging /\ Alive
  BY DEF Init, ConsulInit, Lagging, Alive
<1>3. \A r \in Request : LInv(r)
  BY DEF Init, LInv, Recorded, Reading, Asked, Returned, Wrote, Answered
<1> QED
  BY <1>1, <1>2, <1>3 DEF IInv

\* Every step of the agent and of Consul preserves it.
LEMMA NextInv == IInv /\ [Next]_vars => IInv'
<1> SUFFICES ASSUME IInv, [Next]_vars PROVE IInv'
  OBVIOUS
<1>1. CASE Environment
  BY <1>1, EnvironmentStep
<1>2. ASSUME NEW r \in Request, Receive(r)
      PROVE  IInv'
  BY <1>2, ReceiveStep
<1>3. ASSUME NEW r \in Request, Serve(r)
      PROVE  IInv'
  BY <1>3, ServeStep
<1>4. ASSUME NEW r \in Request, Return(r)
      PROVE  IInv'
  BY <1>4, ReturnStep
<1>5. ASSUME NEW r \in Request, Respond(r)
      PROVE  IInv'
  BY <1>5, ServiceResponseStep, ServerResponseStep, ObserveStep DEF Respond
<1>6. CASE UNCHANGED vars
  <2>1. UNCHANGED <<agentVars, consulVars>>
    BY <1>6 DEF vars
  <2>2. TypeOK' /\ Lagging' /\ Alive'
    BY <2>1 DEF IInv, TypeOK, ConsulTypeOK, Lagging, Alive, agentVars,
                consulVars, metricVars, historyVars
  <2>3. \A s \in Request : LInv(s)'
    BY <2>1, Frame DEF IInv, agentVars, historyVars
  <2> QED
    BY <2>2, <2>3 DEF IInv
<1> QED
  BY <1>1, <1>2, <1>3, <1>4, <1>5, <1>6 DEF Next

\* The invariant holds in every reachable state of the agent.
LEMMA Invariance == Spec => []IInv
BY InitInv, NextInv, PTL DEF Spec

\* The variables have their types; in particular every record of a message is
\* one that newRR built for a type the handlers support, with a 16-bit port.
THEOREM TypeCorrect == Spec => []TypeOK
<1>1. IInv => TypeOK
  BY DEF IInv
<1> QED
  BY <1>1, Invariance, PTL

\* However stale reads, changes of the catalogue and other requests interleave
\* with a lookup, its answer only shows instances of the address asked for
\* that were passing within the lag of the followers.
THEOREM Freshness == Spec => []FreshAnswers
<1>1. IInv => FreshAnswers
  BY DEF IInv, LInv, Wrote, FreshAnswers, LookedUp
<1> QED
  BY <1>1, Invariance, PTL

\* An instance that stays visible during a lookup is in its answer, or the
\* message says that the answer is not the whole truth.
THEOREM Completeness == Spec => []SteadyInstancesFound
<1>1. IInv => SteadyInstancesFound
  BY DEF IInv, LInv, Wrote, SteadyInstancesFound, LookedUp
<1> QED
  BY <1>1, Invariance, PTL

\* No request makes a handler panic, unless the agent was started with a
\* negative -dns.udp.maxanswers.
THEOREM PanicFreedom ==
  ASSUME MaxAnswers >= 0
  PROVE  Spec => []NoPanic
<1>1. IInv => NoPanic
  BY DEF IInv, Alive, NoPanic
<1> QED
  BY <1>1, Invariance, PTL

-----------------------------------------------------------------------------
(* What a goroutine has logged and written.  The invariant of this part    *)
(* rests on the one above; it looks at one goroutine at a time and at      *)
(* nothing of Consul.                                                      *)

storeLine(err) == [kind |-> "STORE", status |-> err, n |-> 0, failed |-> TRUE]
causes == {"consulapi", "invalidip"}

\* before and after its store call
Called(r) ==
  /\ pc[r] \in {"idle", "serving", "consul"} =>
       logged[r] = <<>> /\ result[r] = None
  /\ pc[r] = "returned" =>
       /\ logged[r] = IF result[r].err # "none" THEN <<storeLine(result[r].err)>>
                      ELSE <<>>
       /\ result[r].err # "none" => result[r].is = {}

\* what the handler put together for a name-server question, when the store
\* call worked
Composed(r, m) ==
  isServer(req[r]) /\ serverType(req[r]) /\ result[r].err = "none" =>
    LET ns == question(req[r]).ns
    IN  /\ result[r].is \subseteq Member
        /\ ns = None =>
             \E list \in sorted(result[r].is) :
               m = [authoritative EXCEPT !.answer = listed(req[r], list)]
        /\ ns # None /\ NSNumber[ns] <= MaxInt =>
             \E list \in sorted(result[r].is) :
               m = [authoritative EXCEPT !.answer = pick(req[r], list)]

\* its store call failed, and not for want of instances
Failing(r) ==
  /\ result[r] # None
  /\ result[r].err # "none" /\ ~isNoInstances(result[r].err)

\* the message it wrote, seen from the log and from the store's result
Told(r) ==
  /\ resp[r].tc =>
       /\ req[r].proto = "udp" /\ result[r].err = "none"
       /\ Len(resp[r].answer) = MaxAnswers
       /\ Cardinality(result[r].is) > MaxAnswers
  /\ req[r].count > 0 =>
       LET last == logged[r][Len(logged[r])]
       IN  /\ Len(logged[r]) \in 1..2
           /\ last = [kind |-> "DNS", status |-> resp[r].rcode,
                      n |-> Len(resp[r].answer), failed |-> ~sent[r]]
           /\ resp[r].rcode = "SERVFAIL" <=>
                Len(logged[r]) = 2 /\ logged[r][1].status \in causes
  /\ pc[r] = "written" => (resp[r].rcode = "SERVFAIL" <=> Failing(r))
  /\ req[r].count > 0 =>
       \E m \in Message : /\ Composed(r, m) /\ ~panics(req[r].proto, m)
                          /\ resp[r] = truncate(req[r].proto, m)

JInv(r) == Called(r) /\ (Answered(r) => Told(r))

\* A goroutine keeps it while it does not run.
LEMMA JFrame ==
  ASSUME NEW s \in Request, JInv(s),
         pc'[s] = pc[s], req'[s] = req[s], result'[s] = result[s],
         resp'[s] = resp[s], logged'[s] = logged[s], sent'[s] = sent[s]
  PROVE  JInv(s)'
<1>1. Called(s)'
  BY DEF JInv, Called
<1>2. ASSUME NEW m \in Message, Composed(s, m)
      PROVE  Composed(s, m)'
  BY <1>2 DEF Composed
<1>3. Answered(s)' => Told(s)'
  BY <1>2 DEF JInv, Answered, Told, Failing
<1> QED
  BY <1>1, <1>3 DEF JInv

\* The condition under which truncatingWriter sets the flag.
LEMMA Flagged ==
  ASSUME NEW m \in Message, NEW p \in Proto, ~panics(p, m), ~m.tc,
         truncate(p, m).tc
  PROVE  /\ p = "udp" /\ Len(m.answer) > MaxAnswers /\ MaxAnswers \in Nat
         /\ Len(truncate(p, m).answer) = MaxAnswers
<1>1. p = "udp" /\ Len(m.answer) > MaxAnswers
  BY DEF truncate
<1>2. m.answer \in Seq(RR) /\ MaxAnswers \in Nat
  BY <1>1, AgentAssumption DEF Message, panics
<1>3. MaxAnswers \in 0..Len(m.answer)
  BY <1>1, <1>2
<1>4. Len(SubSeq(m.answer, 1, MaxAnswers)) = MaxAnswers
  BY <1>2, <1>3
<1>5. truncate(p, m).answer = SubSeq(m.answer, 1, MaxAnswers)
  BY <1>1 DEF truncate, Message
<1> QED
  BY <1>1, <1>2, <1>4, <1>5

\* The log of a request that had one line has two.
LEMMA Appended == \A x, y : Append(<<x>>, y) = <<x, y>>
<1> TAKE x, y
<1> DEFINE S == {x, y}
           t == <<x, y>>
<1>1. <<x>> \in Seq(S) /\ y \in S
  OBVIOUS
<1>2. t \in Seq(S) /\ Len(t) = 2 /\ t[1] = x /\ t[2] = y
  OBVIOUS
<1> DEFINE a == Append(<<x>>, y)
<1>3. a \in Seq(S) /\ Len(a) = 2 /\ a[1] = x /\ a[2] = y
  BY <1>1
<1> HIDE DEF a, t, S
<1>4. \A i \in 1..2 : a[i] = t[i]
  BY <1>2, <1>3
<1>5. a = t
  BY <1>2, <1>3, <1>4, SeqEqual
<1> QED
  BY <1>5 DEF a, t

\* A message is written: the log gets its last line, and the flag is set only
\* if the message is no shorter than what the store found.
LEMMA WriteMsgTold ==
  ASSUME IInv, \A s \in Request : JInv(s), NEW r \in Request, req[r] \in Query,
         ~crashed, NEW m \in Message, WriteMsg(r, m), ~m.tc, Composed(r, m),
         \/ m.answer = <<>>
         \/ result[r].err = "none" /\ Len(m.answer) <= Cardinality(result[r].is)
              /\ Cardinality(result[r].is) \in Nat,
         \/ logged[r] = <<>> /\ m.rcode # "SERVFAIL"
         \/ \E err \in ErrLabel : /\ logged[r] = <<storeLine(err)>>
                                  /\ m.rcode = "SERVFAIL" <=> err \in causes,
         m.rcode = "SERVFAIL" <=> Failing(r)
  PROVE  \A s \in Request : JInv(s)'
<1>1. req[r].proto \in Proto
  BY AgentAssumption
<1>2. UNCHANGED <<req, result>>
  BY DEF WriteMsg
<1>3. CASE panics(req[r].proto, m)
  <2>1. UNCHANGED <<pc, resp, sent, logged>>
    BY <1>3 DEF WriteMsg
  <2> QED
    BY <1>2, <2>1, JFrame
<1>4. CASE ~panics(req[r].proto, m)
  <2> DEFINE t == truncate(req[r].proto, m)
             line(ok) == [kind |-> "DNS", status |-> t.rcode,
                          n |-> Len(t.answer), failed |-> ~ok]
  <2>1. PICK ok \in BOOLEAN :
          /\ pc' = [pc EXCEPT ![r] = "written"]
          /\ resp' = [resp EXCEPT ![r] = t]
          /\ sent' = [sent EXCEPT ![r] = ok]
          /\ logged' = [logged EXCEPT ![r] = Append(logged[r], line(ok))]
    BY <1>4 DEF WriteMsg, Goto
  <2>2. t \in Message /\ t.rcode = m.rcode /\ (t.tc \/ t = m)
    BY <1>1, <1>4, Truncation
  <2>3. t.tc => /\ req[r].proto = "udp" /\ result[r].err = "none"
                /\ Len(t.answer) = MaxAnswers
                /\ Cardinality(result[r].is) > MaxAnswers
    <3>1. SUFFICES ASSUME t.tc
                   PROVE  /\ req[r].proto = "udp" /\ result[r].err = "none"
                          /\ Len(t.answer) = MaxAnswers
                          /\ Cardinality(result[r].is) > MaxAnswers
      OBVIOUS
    <3>2. /\ req[r].proto = "udp" /\ Len(m.answer) > MaxAnswers
          /\ MaxAnswers \in Nat /\ Len(t.answer) = MaxAnswers
      BY <1>1, <1>4, <3>1, Flagged
    <3>3. m.answer \in Seq(RR) /\ Len(m.answer) \in Nat
      BY DEF Message
    <3>4. m.answer # <<>>
      BY <3>2, <3>3
    <3> QED
      BY <3>2, <3>3, <3>4
  <2> HIDE DEF t, line
  <2>4. ASSUME NEW s \in Request, s # r
        PROVE  JInv(s)'
    <3>1. /\ pc'[s] = pc[s] /\ resp'[s] = resp[s] /\ sent'[s] = sent[s]
          /\ logged'[s] = logged[s]
      BY <2>1, <2>4 DEF IInv, TypeOK
    <3> QED
      BY <1>2, <3>1, JFrame
  <2>5. JInv(r)'
    <3>1. /\ pc'[r] = "written" /\ resp'[r] = t /\ sent'[r] = ok
          /\ logged'[r] = Append(logged[r], line(ok))
          /\ req'[r] = req[r] /\ result'[r] = result[r]
      BY <1>2, <2>1 DEF IInv, TypeOK
    <3>2. Called(r)'
      BY <3>1 DEF Called
    <3>3. \/ logged'[r] = <<line(ok)>> /\ t.rcode # "SERVFAIL"
          \/ \E err \in ErrLabel :
               /\ logged'[r] = <<storeLine(err), line(ok)>>
               /\ t.rcode = "SERVFAIL" <=> err \in causes
      <4>1. CASE logged[r] = <<>> /\ m.rcode # "SERVFAIL"
        <5>1. Append(<<>>, line(ok)) = <<line(ok)>>
          OBVIOUS
        <5> QED
          BY <2>2, <3>1, <4>1, <5>1, Zenon
      <4>2. ASSUME NEW err \in ErrLabel, logged[r] = <<storeLine(err)>>,
                   m.rcode = "SERVFAIL" <=> err \in causes
            PROVE  /\ logged'[r] = <<storeLine(err), line(ok)>>
                   /\ t.rcode = "SERVFAIL" <=> err \in causes
        <5>1. Append(<<storeLine(err)>>, line(ok)) = <<storeLine(err), line(ok)>>
          BY Appended
        <5> QED
          BY <2>2, <3>1, <4>2, <5>1, Zenon
      <4> QED
        BY <4>1, <4>2
    <3>4. LET last == logged'[r][Len(logged'[r])]
          IN  /\ Len(logged'[r]) \in 1..2
              /\ last = line(ok)
              /\ t.rcode = "SERVFAIL" <=>
                   Len(logged'[r]) = 2 /\ logged'[r][1].status \in causes
      <4>1. CASE logged'[r] = <<line(ok)>> /\ t.rcode # "SERVFAIL"
        BY <4>1
      <4>2. ASSUME NEW err \in ErrLabel,
                   logged'[r] = <<storeLine(err), line(ok)>>,
                   t.rcode = "SERVFAIL" <=> err \in causes
            PROVE  LET last == logged'[r][Len(logged'[r])]
                   IN  /\ Len(logged'[r]) \in 1..2
                       /\ last = line(ok)
                       /\ t.rcode = "SERVFAIL" <=>
                            /\ Len(logged'[r]) = 2
                            /\ logged'[r][1].status \in causes
        <5>1. Len(logged'[r]) = 2 /\ logged'[r][2] = line(ok)
                /\ logged'[r][1] = storeLine(err)
          BY <4>2
        <5>2. storeLine(err).status = err
          BY DEF storeLine
        <5> QED
          BY <4>2, <5>1, <5>2
      <4> QED
        BY <3>3, <4>1, <4>2
    <3>5. line(ok) = [kind |-> "DNS", status |-> resp'[r].rcode,
                      n |-> Len(resp'[r].answer), failed |-> ~sent'[r]]
      BY <3>1 DEF line
    <3>6. Composed(r, m)'
      BY <3>1 DEF Composed
    <3>7. ~panics(req'[r].proto, m) /\ resp'[r] = truncate(req'[r].proto, m)
      BY <1>4, <3>1 DEF t
    <3>8. resp'[r].rcode = "SERVFAIL" <=> Failing(r)'
      BY <2>2, <3>1 DEF Failing
    <3>9. Told(r)'
      BY <2>3, <3>1, <3>4, <3>5, <3>6, <3>7, <3>8 DEF Told
    <3> QED
      BY <3>2, <3>9 DEF JInv
  <2> QED
    BY <2>4, <2>5
<1> QED
  BY <1>3, <1>4

\* What is written without a store call, and the call itself.
LEMMA ServeTold ==
  ASSUME IInv, \A s \in Request : JInv(s), NEW r \in Request, Serve(r)
  PROVE  \A s \in Request : JInv(s)'
<1>1. pc[r] = "serving" /\ ~crashed /\ logged[r] = <<>> /\ result[r] = None
  <2>1. pc[r] = "serving" /\ ~crashed
    BY DEF Serve, ServeFailed, ServeMulti, ServeForeign, ServeInvalid,
           ServeUnsupported, CallInstances, CallServers, At
  <2> QED
    BY <2>1 DEF JInv, Called
<1>2. req[r] \in Query /\ req[r].count \in 0..2
  <2>1. req[r] \in Query
    BY <1>1 DEF IInv, LInv, Asked
  <2> QED
    BY <2>1, AgentAssumption
<1>3. ASSUME NEW m \in Message, WriteMsg(r, m), m.tc = FALSE, m.answer = <<>>,
             m.rcode # "SERVFAIL", ~(isServer(req[r]) /\ serverType(req[r]))
      PROVE  \A s \in Request : JInv(s)'
  <2>1. Composed(r, m)
    BY <1>3 DEF Composed
  <2>2. ~Failing(r)
    BY <1>1 DEF Failing
  <2> QED
    BY <1>1, <1>2, <1>3, <2>1, <2>2, WriteMsgTold
<1>4. CASE ServeFailed(r)
  <2> DEFINE m == [newResponse EXCEPT !.rcode = "SERVFAIL"]
  <2>1. m \in Message
    BY PlainMessage DEF Rcode
  <2>2. PICK ok \in BOOLEAN : sent' = [sent EXCEPT ![r] = ok]
    BY <1>4 DEF ServeFailed
  <2>3. /\ pc' = [pc EXCEPT ![r] = "done"] /\ resp' = [resp EXCEPT ![r] = m]
        /\ UNCHANGED <<req, result, logged>>
    BY <1>4 DEF ServeFailed, Goto
  <2>4. ASSUME NEW s \in Request, s # r
        PROVE  JInv(s)'
    <3>1. pc'[s] = pc[s] /\ resp'[s] = resp[s] /\ sent'[s] = sent[s]
      BY <2>2, <2>3, <2>4 DEF IInv, TypeOK
    <3> QED
      BY <2>3, <3>1, JFrame
  <2>5. m.tc = FALSE /\ m.answer = <<>>
    BY DEF newResponse
  <2> HIDE DEF m
  <2>6. JInv(r)'
    <3>1. pc'[r] = "done" /\ resp'[r] = m /\ req'[r] = req[r]
      BY <2>3 DEF IInv, TypeOK
    <3>2. Called(r)'
      BY <3>1 DEF Called
    <3>3. ~resp'[r].tc /\ req'[r].count = 0
      BY <1>4, <2>5, <3>1 DEF ServeFailed
    <3>4. Told(r)'
      BY <3>1, <3>3 DEF Told
    <3> QED
      BY <3>2, <3>4 DEF JInv
  <2> QED
    BY <2>4, <2>6
<1>5. CASE ServeMulti(r)
  <2> DEFINE m == [newResponse EXCEPT !.rcode = "NOTIMP"]
  <2>1. m \in Message
    BY PlainMessage DEF Rcode
  <2>2. m.tc = FALSE /\ m.answer = <<>> /\ m.rcode # "SERVFAIL"
    BY DEF newResponse
  <2>3. ~isServer(req[r]) /\ WriteMsg(r, m)
    BY <1>2, <1>5 DEF ServeMulti, isServer, inDomain
  <2> HIDE DEF m
  <2> QED
    BY <1>3, <2>1, <2>2, <2>3
<1>6. CASE ServeForeign(r)
  <2> DEFINE m == [newResponse EXCEPT !.rcode = "NXDOMAIN"]
  <2>1. m \in Message
    BY PlainMessage DEF Rcode
  <2>2. m.tc = FALSE /\ m.answer = <<>> /\ m.rcode # "SERVFAIL"
    BY DEF newResponse
  <2>3. ~isServer(req[r]) /\ WriteMsg(r, m)
    BY <1>6 DEF ServeForeign, isServer, inDomain
  <2> HIDE DEF m
  <2> QED
    BY <1>3, <2>1, <2>2, <2>3
<1>7. CASE ServeInvalid(r)
  <2> DEFINE m == [authoritative EXCEPT !.rcode = "NXDOMAIN",
                                        !.soa = newSOA(defaultInvalidTTL)]
  <2>1. newSOA(defaultInvalidTTL) \in SOA
    BY DEF newSOA, SOA, defaultTTL, defaultInvalidTTL
  <2>2. m \in Message
    BY <2>1, PlainMessage DEF Rcode
  <2>3. m.tc = FALSE /\ m.answer = <<>> /\ m.rcode # "SERVFAIL"
    BY DEF authoritative, newResponse
  <2>4. ~isServer(req[r]) /\ WriteMsg(r, m)
    BY <1>7 DEF ServeInvalid, isInvalid
  <2> HIDE DEF m
  <2> QED
    BY <1>3, <2>2, <2>3, <2>4
<1>8. CASE ServeUnsupported(r)
  <2>1. authoritative \in Message
    BY PlainMessage DEF Rcode
  <2>2. /\ authoritative.tc = FALSE /\ authoritative.answer = <<>>
        /\ authoritative.rcode # "SERVFAIL"
    BY DEF authoritative, newResponse
  <2>3. ~(isServer(req[r]) /\ serverType(req[r])) /\ WriteMsg(r, authoritative)
    BY <1>8 DEF ServeUnsupported, isServer, isService
  <2> QED
    BY <1>3, <2>1, <2>2, <2>3
<1>9. CASE Call(r)
  <2>1. /\ pc' = [pc EXCEPT ![r] = "consul"]
        /\ UNCHANGED <<req, result, resp, sent, logged>>
    BY <1>9 DEF Call, Goto
  <2>2. ASSUME NEW s \in Request, s # r
        PROVE  JInv(s)'
    <3>1. pc'[s] = pc[s]
      BY <2>1, <2>2 DEF IInv, TypeOK
    <3> QED
      BY <2>1, <3>1, JFrame
  <2>3. pc'[r] = "consul"
    BY <2>1 DEF IInv, TypeOK
  <2>4. JInv(r)'
    BY <1>1, <2>1, <2>3 DEF JInv, Called, Answered
  <2> QED
    BY <2>2, <2>4
<1> QED
  BY <1>4, <1>5, <1>6, <1>7, <1>8, <1>9 DEF Serve, CallInstances, CallServers

\* A failed store call finds nothing.
LEMMA FailedFindsNothing ==
  /\ \A i, rep : LET res == getInstances(i, rep)
                 IN  res.err # "none" => res.is = {}
  /\ \A zone, rep : LET res == getServers(zone, rep)
                    IN  res.err # "none" => res.is = {}
BY DEF getInstances, getServers, Failed, Found

\* The log line of the store call is that of its result.
LEMMA ReturnTold ==
  ASSUME IInv, \A s \in Request : JInv(s), NEW r \in Request, Return(r)
  PROVE  \A s \in Request : JInv(s)'
<1>1. pc[r] = "consul"
  BY DEF Return, InstancesReturned, ServersReturned, At
<1>2. logged[r] = <<>>
  BY <1>1 DEF JInv, Called
<1>3. ASSUME NEW op, NEW res, res.err # "none" => res.is = {},
             StoreReturns(r, op, res)
      PROVE  \A s \in Request : JInv(s)'
  <2>1. /\ pc' = [pc EXCEPT ![r] = "returned"]
        /\ result' = [result EXCEPT ![r] = res]
        /\ UNCHANGED <<req, resp, sent>>
    BY <1>3 DEF StoreReturns, Goto
  <2>2. logged' = IF res.err # "none"
                  THEN [logged EXCEPT ![r] = Append(logged[r],
                                                    storeLine(res.err))]
                  ELSE logged
    BY <1>3 DEF StoreReturns, storeLine
  <2>3. ASSUME NEW s \in Request, s # r
        PROVE  JInv(s)'
    <3>1. pc'[s] = pc[s] /\ result'[s] = result[s] /\ logged'[s] = logged[s]
      BY <2>1, <2>2, <2>3 DEF IInv, TypeOK
    <3> QED
      BY <2>1, <3>1, JFrame
  <2>4. pc'[r] = "returned" /\ result'[r] = res
    BY <2>1 DEF IInv, TypeOK
  <2>5. logged'[r] = IF res.err # "none" THEN <<storeLine(res.err)>> ELSE <<>>
    BY <1>2, <2>2 DEF IInv, TypeOK
  <2>6. JInv(r)'
    BY <1>3, <2>4, <2>5 DEF JInv, Called, Answered
  <2> QED
    BY <2>3, <2>6
<1>4. CASE InstancesReturned(r)
  <2>1. PICK rep \in serviceReplies(info(req[r])) :
          StoreReturns(r, "getInstances", getInstances(info(req[r]), rep))
    BY <1>4 DEF InstancesReturned
  <2> QED
    BY <1>3, <2>1, FailedFindsNothing
<1>5. CASE ServersReturned(r)
  <2>1. PICK rep \in serverReplies :
          StoreReturns(r, "getServers", getServers(question(req[r]).zone, rep))
    BY <1>5 DEF ServersReturned
  <2> QED
    BY <1>3, <2>1, FailedFindsNothing
<1> QED
  BY <1>4, <1>5 DEF Return

\* What the log holds when the handler has its result, as WriteMsgTold asks.
LEMMA StoreLogged ==
  ASSUME NEW r \in Request, pc[r] = "returned", JInv(r), result[r] \in Result
  PROVE  /\ result[r].err = "none" => logged[r] = <<>>
         /\ result[r].err # "none" =>
              /\ result[r].err \in ErrLabel
              /\ logged[r] = <<storeLine(result[r].err)>>
              /\ result[r].is = {}
         /\ Failing(r) <=> result[r].err \in causes
<1>1. result[r] # None /\ result[r].err \in ErrLabel \cup {"none"}
  BY AgentAssumption DEF Result
<1> QED
  BY <1>1 DEF JInv, Called, Failing, causes, isNoInstances, ErrLabel

\* The message of a service question, its log line and its flag.
LEMMA ServiceResponseTold ==
  ASSUME IInv, \A s \in Request : JInv(s), NEW r \in Request, serviceResponse(r)
  PROVE  \A s \in Request : JInv(s)'
<1>1. /\ pc[r] = "returned" /\ ~crashed /\ isService(req[r])
      /\ ~isServer(req[r])
  BY DEF serviceResponse, At, isService, isServer
<1>2. /\ req[r] \in Query /\ Dispatched(req[r]) /\ result[r] \in Result
      /\ result[r].is \subseteq Entry
  BY <1>1 DEF IInv, LInv, Asked, Returned, Genuine, TypeOK
<1>3. req[r].qtype \in {"A", "SRV"}
  BY <1>1, <1>2 DEF Dispatched, serviceType
<1> DEFINE S == result[r].is
           c == errRcode(result[r].err)
<1>4. IsFiniteSet(S)
  BY <1>2, FS_Subset, ConsulAssumption
<1>5. c \in Rcode
  BY DEF errRcode, Rcode
<1>6. PICK list \in Listings(S) :
        WriteMsg(r, [authoritative EXCEPT
                       !.rcode = c,
                       !.answer = [k \in DOMAIN list |->
                                     newRR(req[r].qtype, toInstance(list[k]))]])
  BY DEF serviceResponse
<1> DEFINE a == [k \in DOMAIN list |->
                   newRR(req[r].qtype, toInstance(list[k]))]
           m == [authoritative EXCEPT !.rcode = c, !.answer = a]
<1> HIDE DEF S, c
<1>7. /\ Cardinality(S) \in Nat /\ list \in [1..Cardinality(S) -> S]
  BY <1>4, <1>6, ListingIsSeq
<1>8. \A k \in DOMAIN list : newRR(req[r].qtype, toInstance(list[k])) \in RR
  BY <1>2, <1>3, <1>7, InstanceRecord DEF S
<1>9. a \in [1..Cardinality(S) -> RR]
  BY <1>7, <1>8
<1> HIDE DEF a
<1>10. a \in Seq(RR) /\ Len(a) = Cardinality(S)
  BY <1>7, <1>9
<1>11. m \in Message
  BY <1>5, <1>10, PlainMessage
<1>12. m.rcode = c /\ m.answer = a /\ ~m.tc
  BY DEF authoritative, newResponse
<1>13. WriteMsg(r, m) /\ Composed(r, m)
  BY <1>1, <1>6 DEF m, a, Composed
<1> HIDE DEF m
<1>14. CASE result[r].err = "none"
  <2>1. logged[r] = <<>> /\ m.rcode # "SERVFAIL" /\ ~Failing(r)
    BY <1>1, <1>2, <1>12, <1>14, StoreLogged DEF c, errRcode, causes
  <2> QED
    BY <1>1, <1>2, <1>7, <1>10, <1>11, <1>12, <1>13, <1>14, <2>1, WriteMsgTold
       DEF S
<1>15. CASE result[r].err # "none"
  <2>1. /\ result[r].err \in ErrLabel /\ S = {}
        /\ logged[r] = <<storeLine(result[r].err)>>
        /\ Failing(r) <=> result[r].err \in causes
    BY <1>1, <1>2, <1>15, StoreLogged DEF S
  <2>2. m.rcode = "SERVFAIL" <=> result[r].err \in causes
    BY <1>12, <2>1 DEF c, errRcode, isNoInstances, causes, ErrLabel
  <2>3. Cardinality(S) = 0
    BY <2>1, FS_EmptySet
  <2>4. m.answer = <<>>
    BY <1>10, <1>12, <2>3
  <2> QED
    BY <1>1, <1>2, <1>11, <1>12, <1>13, <2>1, <2>2, <2>4, WriteMsgTold
<1> QED
  BY <1>14, <1>15

\* The message of a server question, its log line and its flag.
LEMMA ServerResponseTold ==
  ASSUME IInv, \A s \in Request : JInv(s), NEW r \in Request, serverResponse(r)
  PROVE  \A s \in Request : JInv(s)'
<1>1. /\ pc[r] = "returned" /\ ~crashed /\ isServer(req[r])
      /\ ~isService(req[r])
  BY DEF serverResponse, At, isServer, isService
<1>2. /\ req[r] \in Query /\ Dispatched(req[r]) /\ result[r] \in Result
      /\ result[r].is \subseteq Member
  BY <1>1 DEF IInv, LInv, Asked, Returned
<1>3. req[r].qtype \in {"A", "NS"} /\ req[r].name \in Name
  BY <1>1, <1>2, AgentAssumption DEF Dispatched, serverType
<1> DEFINE S == result[r].is
           err == result[r].err
           ns == question(req[r]).ns
           broken == err # "none" /\ ~isNoInstances(err)
<1>4. /\ err = "none" => logged[r] = <<>>
      /\ err # "none" => /\ err \in ErrLabel /\ logged[r] = <<storeLine(err)>>
                         /\ S = {}
      /\ Failing(r) <=> err \in causes
  BY <1>1, <1>2, StoreLogged
<1>5. IsFiniteSet(S) /\ Cardinality(S) \in Nat
  BY <1>2, FS_Subset, FS_CardinalityType, ConsulAssumption
<1>6. ASSUME NEW list \in sorted(S)
      PROVE  list \in [1..Cardinality(S) -> Member] /\ Len(list) = Cardinality(S)
  <2>1. list \in Listings(S)
    BY <1>6 DEF sorted
  <2> HIDE DEF S
  <2>2. /\ list \in [1..Cardinality(S) -> S] /\ Len(list) = Cardinality(S)
    BY <1>5, <2>1, ListingIsSeq
  <2> QED
    BY <1>2, <2>2 DEF S
<1>7. err \in causes <=> broken
  BY <1>4 DEF causes, ErrLabel, isNoInstances
<1>8. ASSUME NEW m \in Message, WriteMsg(r, m), ~m.tc, Composed(r, m),
             \/ m.answer = <<>>
             \/ Len(m.answer) <= Cardinality(S) /\ m.answer \in Seq(RR),
             m.rcode = "SERVFAIL" <=> broken
      PROVE  \A s \in Request : JInv(s)'
  <2>1. \/ logged[r] = <<>> /\ m.rcode # "SERVFAIL"
        \/ \E e \in ErrLabel : /\ logged[r] = <<storeLine(e)>>
                               /\ m.rcode = "SERVFAIL" <=> e \in causes
    BY <1>4, <1>7, <1>8
  <2>2. \/ m.answer = <<>>
        \/ err = "none" /\ Len(m.answer) <= Cardinality(S)
    <3>1. CASE err # "none" /\ Len(m.answer) <= Cardinality(S)
                 /\ m.answer \in Seq(RR)
      <4>1. Cardinality(S) = 0
        BY <1>4, <3>1, FS_EmptySet
      <4> QED
        BY <3>1, <4>1
    <3> QED
      BY <1>8, <3>1
  <2> QED
    BY <1>1, <1>2, <1>4, <1>5, <1>7, <1>8, <2>1, <2>2, WriteMsgTold
<1>9. CASE broken /\ WriteMsg(r, [authoritative EXCEPT !.rcode = "SERVFAIL"])
  <2> DEFINE m == [authoritative EXCEPT !.rcode = "SERVFAIL"]
  <2>1. m \in Message
    BY PlainMessage DEF Rcode
  <2>2. m.rcode = "SERVFAIL" /\ m.answer = <<>> /\ ~m.tc
    BY DEF authoritative, newResponse
  <2>3. Composed(r, m)
    BY <1>9 DEF Composed
  <2> HIDE DEF m
  <2> QED
    BY <1>8, <1>9, <2>1, <2>2, <2>3 DEF m
<1>10. CASE /\ ~broken /\ ns # None /\ NSNumber[ns] > MaxInt
            /\ WriteMsg(r, [authoritative EXCEPT !.rcode = "NXDOMAIN"])
  <2> DEFINE m == [authoritative EXCEPT !.rcode = "NXDOMAIN"]
  <2>1. m \in Message
    BY PlainMessage DEF Rcode
  <2>2. m.rcode # "SERVFAIL" /\ m.answer = <<>> /\ ~m.tc
    BY DEF authoritative, newResponse
  <2>3. NSNumber[ns] \in Nat /\ MaxInt \in Nat
    BY <1>1, <1>2, <1>10, ServerNumber, LabelAssumption
  <2>4. Composed(r, m)
    BY <1>2, <1>10, <2>3 DEF Composed
  <2> HIDE DEF m
  <2> QED
    BY <1>8, <1>10, <2>1, <2>2, <2>4 DEF m
<1>11. ASSUME NEW list \in sorted(S), ~broken, ns = None,
              WriteMsg(r, [authoritative EXCEPT !.answer = listed(req[r], list)])
       PROVE  \A s \in Request : JInv(s)'
  <2> DEFINE a == listed(req[r], list)
             m == [authoritative EXCEPT !.answer = a]
             n == Cardinality(S)
  <2>1. n \in Nat /\ list \in [1..n -> Member]
    BY <1>5, <1>6, <1>11
  <2>2. WriteMsg(r, m) /\ Composed(r, m)
    BY <1>2, <1>11 DEF Composed
  <2> HIDE DEF n
  <2>3. \A k \in 1..n : k - 1 \in Nat /\ list[k] \in Member
    BY <2>1
  <2>4. \A k \in 1..n :
          newRR(req[r].qtype, [toServer(list[k]) EXCEPT
                                 !.host = <<k - 1, req[r].name>>]) \in RR
    BY <1>3, <2>3, ServerRecord
  <2>5. a \in [1..n -> RR]
    BY <2>1, <2>4 DEF listed
  <2> HIDE DEF a
  <2>6. a \in Seq(RR) /\ Len(a) = n
    BY <2>1, <2>5
  <2>7. m \in Message
    BY <2>6, PlainMessage DEF Rcode
  <2>8. m.rcode # "SERVFAIL" /\ m.answer = a /\ ~m.tc
    BY DEF authoritative, newResponse
  <2> HIDE DEF m
  <2>9. Len(m.answer) <= Cardinality(S) /\ m.answer \in Seq(RR)
    BY <2>1, <2>6, <2>8 DEF n
  <2> QED
    BY <1>8, <1>11, <2>2, <2>7, <2>8, <2>9
<1>12. ASSUME NEW list \in sorted(S), ~broken, ns # None,
              NSNumber[ns] <= MaxInt,
              WriteMsg(r, [authoritative EXCEPT !.answer = pick(req[r], list)])
       PROVE  \A s \in Request : JInv(s)'
  <2> DEFINE a == pick(req[r], list)
             m == [authoritative EXCEPT !.answer = a]
             n == NSNumber[ns]
  <2>1. n \in Nat
    BY <1>1, <1>2, <1>12, ServerNumber
  <2>2. req[r].qtype = "A"
    BY <1>1, <1>2, <1>12 DEF Dispatched, serverType
  <2>3. WriteMsg(r, m) /\ Composed(r, m)
    BY <1>2, <1>12 DEF Composed
  <2>4. /\ list \in [1..Cardinality(S) -> Member]
        /\ Len(list) = Cardinality(S)
    BY <1>6, <1>12
  <2>5. a \in Seq(RR) /\ Len(a) <= Cardinality(S)
    <3>1. CASE n < Len(list)
      <4> DEFINE x == list[n + 1]
      <4>1. x \in Member /\ 1 <= Cardinality(S)
        <5> HIDE DEF n, S
        <5>1. n + 1 \in 1..Cardinality(S)
          BY <1>5, <2>1, <2>4, <3>1
        <5> QED
          BY <1>5, <2>4, <5>1
      <4>2. a = <<newRR("A", toServer(x))>>
        <5>1. n + 1 \in DOMAIN list
          <6> HIDE DEF n, S
          <6> QED
            BY <1>5, <2>1, <2>4, <3>1
        <5>2. a = <<serverAt(req[r], list, n)>>
          BY <3>1 DEF pick
        <5> HIDE DEF a, n
        <5> QED
          BY <2>2, <5>1, <5>2 DEF serverAt
      <4> HIDE DEF x
      <4>3. newRR("A", toServer(x)) \in RR
        BY <1>3, <2>1, <4>1, ServerRecord
      <4> QED
        BY <4>1, <4>2, <4>3
    <3>2. CASE ~(n < Len(list))
      <4>1. a = <<>>
        BY <3>2 DEF pick
      <4> HIDE DEF a
      <4> QED
        BY <1>5, <4>1
    <3> QED
      BY <3>1, <3>2
  <2> HIDE DEF a
  <2>6. m \in Message
    BY <2>5, PlainMessage DEF Rcode
  <2>7. m.rcode # "SERVFAIL" /\ m.answer = a /\ ~m.tc
    BY DEF authoritative, newResponse
  <2> HIDE DEF m
  <2> QED
    BY <1>8, <1>12, <2>3, <2>5, <2>6, <2>7
<1> QED
  BY <1>9, <1>10, <1>11, <1>12 DEF serverResponse

\* The last step of a request changes neither message nor log.
LEMMA ObserveTold ==
  ASSUME IInv, \A s \in Request : JInv(s), NEW r \in Request, Observe(r)
  PROVE  \A s \in Request : JInv(s)'
<1>1. /\ pc[r] = "written" /\ pc' = [pc EXCEPT ![r] = "done"]
      /\ UNCHANGED <<req, result, resp, sent, logged>>
  BY DEF Observe, At, Goto
<1>2. ASSUME NEW s \in Request, s # r
      PROVE  JInv(s)'
  <2>1. pc'[s] = pc[s]
    BY <1>1, <1>2 DEF IInv, TypeOK
  <2> QED
    BY <1>1, <2>1, JFrame
<1>3. JInv(r)'
  <2>1. pc'[r] = "done"
    BY <1>1 DEF IInv, TypeOK
  <2>2. Called(r)'
    BY <2>1 DEF Called
  <2>3. Told(r)
    BY <1>1 DEF JInv, Answered
  <2>4. ASSUME NEW m \in Message, Composed(r, m)
        PROVE  Composed(r, m)'
    BY <1>1, <2>4 DEF Composed
  <2>5. Told(r)'
    BY <1>1, <2>1, <2>3, <2>4 DEF Told
  <2> QED
    BY <2>2, <2>5 DEF JInv
<1> QED
  BY <1>2, <1>3

\* A request that arrives has neither message nor log.
LEMMA ReceiveTold ==
  ASSUME IInv, \A s \in Request : JInv(s), NEW r \in Request, Receive(r)
  PROVE  \A s \in Request : JInv(s)'
<1>1. PICK q \in Query : req' = [req EXCEPT ![r] = q]
  BY DEF Receive
<1>2. /\ pc[r] = "idle" /\ pc' = [pc EXCEPT ![r] = "serving"]
      /\ UNCHANGED <<result, resp, sent, logged>>
  BY DEF Receive, At, Goto
<1>3. ASSUME NEW s \in Request, s # r
      PROVE  JInv(s)'
  <2>1. pc'[s] = pc[s] /\ req'[s] = req[s]
    BY <1>1, <1>2, <1>3 DEF IInv, TypeOK
  <2> QED
    BY <1>2, <2>1, JFrame
<1>4. pc'[r] = "serving"
  BY <1>2 DEF IInv, TypeOK
<1>5. JInv(r)'
  BY <1>2, <1>4 DEF JInv, Called, Answered
<1> QED
  BY <1>3, <1>5

\* the invariants of both parts
Agreed == IInv /\ \A r \in Request : JInv(r)

\* Message, log and result of every request agree at all times.
LEMMA AgreedInvariant == Spec => []Agreed
<1>1. Init => Agreed
  <2>1. Init => \A r \in Request : JInv(r)
    BY DEF Init, JInv, Called, Answered
  <2> QED
    BY <2>1, InitInv DEF Agreed
<1>2. Agreed /\ [Next]_vars => Agreed'
  <2> SUFFICES ASSUME IInv, \A s \in Request : JInv(s), [Next]_vars
               PROVE  \A s \in Request : JInv(s)'
    BY NextInv DEF Agreed
  <2>1. CASE Environment \/ UNCHANGED vars
    <3>1. UNCHANGED <<pc, req, result, resp, sent, logged>>
      BY <2>1 DEF Environment, vars, agentVars
    <3> QED
      BY <3>1, JFrame
  <2>2. ASSUME NEW r \in Request, Receive(r) \/ Serve(r) \/ Return(r)
        PROVE  \A s \in Request : JInv(s)'
    BY <2>2, ReceiveTold, ServeTold, ReturnTold
  <2>3. ASSUME NEW r \in Request, Respond(r)
        PROVE  \A s \in Request : JInv(s)'
    BY <2>3, ServiceResponseTold, ServerResponseTold, ObserveTold DEF Respond
  <2> QED
    BY <2>1, <2>2, <2>3 DEF Next
<1> QED
  BY <1>1, <1>2, PTL DEF Spec

\* Of finitely many servers with different host names there is only one
\* sorted list: at the first place where two of them differ, each would have
\* the server of the other one further down.
LEMMA OneSorted ==
  ASSUME NEW S \in SUBSET Member, NEW l1 \in sorted(S), NEW l2 \in sorted(S),
         \A m, n \in S : MemberAttr[m].host = MemberAttr[n].host => m = n
  PROVE  l1 = l2
<1> DEFINE C == Cardinality(S)
           host(m) == MemberAttr[m].host
           D == {k \in Nat : k \in 1..C /\ l1[k] # l2[k]}
<1>1. IsFiniteSet(S) /\ C \in Nat
  BY FS_Subset, FS_CardinalityType, ConsulAssumption
<1>2. ASSUME NEW l \in sorted(S)
      PROVE  /\ l \in [1..C -> S]
             /\ \A x \in S : \E k \in 1..C : l[k] = x
             /\ \A j, k \in 1..C : l[j] = l[k] => j = k
             /\ \A j, k \in 1..C : j < k => host(l[j]) <= host(l[k])
  <2>1. l \in Bijection(1..C, S)
    BY <1>2 DEF sorted, Listings
  <2>2. l \in [1..C -> S]
    BY <2>1 DEF Bijection, Injection
  <2>3. \A x \in S : \E k \in 1..C : l[k] = x
    BY <2>1 DEF Bijection, Surjection
  <2>4. \A j, k \in 1..C : l[j] = l[k] => j = k
    BY <2>1 DEF Bijection, Injection, IsInjective
  <2>5. \A j, k \in 1..C : j < k => host(l[j]) <= host(l[k])
    BY <1>2, <2>2 DEF sorted
  <2> QED
    BY <2>2, <2>3, <2>4, <2>5
<1>3. \A m \in S : host(m) \in Nat
  BY ConsulAssumption
<1>4. SUFFICES ASSUME D # {} PROVE FALSE
  <2>1. \A k \in 1..C : l1[k] = l2[k]
    BY <1>1, <1>4
  <2>2. l1 = [k \in 1..C |-> l1[k]] /\ l2 = [k \in 1..C |-> l2[k]]
    BY <1>2
  <2> QED
    BY <2>1, <2>2, Zenon
<1>5. PICK k \in D : \A j \in D : k <= j
  <2>1. D \in SUBSET Nat
    OBVIOUS
  <2> HIDE DEF D
  <2> QED
    BY <1>4, <2>1, LeastNat
<1>6. k \in 1..C /\ l1[k] # l2[k] /\ \A j \in 1..C : j < k => l1[j] = l2[j]
  BY <1>1, <1>5
<1> HIDE DEF D, C
<1>7. ASSUME NEW a \in sorted(S), NEW b \in sorted(S), a[k] # b[k],
             \A j \in 1..C : j < k => a[j] = b[j]
      PROVE  host(b[k]) <= host(a[k])
  <2>1. PICK j \in 1..C : b[j] = a[k]
    BY <1>2, <1>6
  <2>2. j # k
    BY <1>7, <2>1
  <2>3. ~(j < k)
    BY <1>2, <1>6, <1>7, <2>1, <2>2
  <2>4. k < j
    BY <1>1, <1>6, <2>1, <2>2, <2>3
  <2>5. \A i, n \in 1..C : i < n => host(b[i]) <= host(b[n])
    BY <1>2
  <2>6. k \in 1..C /\ j \in 1..C
    BY <1>6, <2>1
  <2>7. host(b[k]) <= host(b[j])
    BY <2>4, <2>5, <2>6
  <2> QED
    BY <2>1, <2>7
<1>8. host(l1[k]) <= host(l2[k]) /\ host(l2[k]) <= host(l1[k])
  BY <1>6, <1>7
<1>9. l1[k] \in S /\ l2[k] \in S
  BY <1>2, <1>6
<1>10. host(l1[k]) = host(l2[k])
  BY <1>3, <1>8, <1>9
<1> QED
  BY <1>6, <1>9, <1>10

\* The message a goroutine wrote is one it composed, truncated.
LEMMA ComposedMessage ==
  ASSUME Agreed, NEW r \in Request, Answered(r), req[r].count = 1
  PROVE  \E m \in Message : /\ Composed(r, m) /\ ~panics(req[r].proto, m)
                            /\ resp[r] = truncate(req[r].proto, m)
<1>1. Told(r) /\ req[r].count > 0
  BY DEF Agreed, JInv
<1> QED
  BY <1>1, Zenon DEF Told

\* A sequence with no second place has at most one record.
LEMMA AtMostOne ==
  ASSUME NEW a \in Seq(RR), DOMAIN a \subseteq 1..1
  PROVE  Len(a) <= 1
<1>1. Len(a) \in Nat /\ DOMAIN a = 1..Len(a)
  OBVIOUS
<1>2. Len(a) # 0 => Len(a) \in 1..Len(a)
  BY <1>1
<1> QED
  BY <1>1, <1>2

\* The flag tells a client the truth: the UDP answer is full and the store had
\* found more than fits.
THEOREM TruncationHonest == Spec => []TruncatedOnlyWhenFull
<1>1. Agreed => TruncatedOnlyWhenFull
  BY DEF Agreed, JInv, Told, TruncatedOnlyWhenFull
<1> QED
  BY <1>1, AgreedInvariant, PTL

\* Whatever the other goroutines do between its lines, the log of a request
\* explains the code its client got, and every SERVFAIL has its cause.
THEOREM FailuresExplained == Spec => []FailuresLogged
<1>1. Agreed => FailuresLogged
  BY DEF Agreed, JInv, Told, FailuresLogged, causes
<1> QED
  BY <1>1, AgreedInvariant, PTL

\* The list of a zone's name servers and the name-server questions agree,
\* although two goroutines read and sort the servers on their own.
THEOREM ServersCoherent == Spec => []NameserverCoherence
<1>1. Agreed => NameserverCoherence
  <2> SUFFICES
        ASSUME Agreed, NEW r \in Request, NEW s \in Request,
               ServerLookedUp(r), question(req[r]).ns = None,
               ServerLookedUp(s), question(req[s]).ns # None,
               result[r] = result[s], result[r].err = "none",
               \A m, n \in result[r].is :
                 MemberAttr[m].host = MemberAttr[n].host => m = n,
               NEW k \in DOMAIN resp[r].answer,
               NSNumber[question(req[s]).ns] = k - 1, k - 1 <= MaxInt
        PROVE  /\ resp[s].rcode = "NOERROR" /\ Len(resp[s].answer) <= 1
               /\ resp[s].tc \/ Len(resp[s].answer) = 1
               /\ req[r].qtype = "A" /\ ~resp[s].tc =>
                    resp[s].answer[1] = resp[r].answer[k]
    BY DEF NameserverCoherence
  <2> DEFINE S == result[r].is
  <2>1. /\ Answered(r) /\ isServer(req[r]) /\ serverType(req[r])
        /\ Answered(s) /\ isServer(req[s]) /\ serverType(req[s])
    BY DEF ServerLookedUp
  <2>2. /\ req[r] \in Query /\ req[r].proto \in Proto /\ req[r].count = 1
        /\ req[s] \in Query /\ req[s].proto \in Proto /\ req[s].count = 1
    <3>1. req[r] \in Query /\ req[s] \in Query
      BY <2>1 DEF Agreed, IInv, LInv, Asked, Answered
    <3> QED
      BY <2>1, <3>1, AgentAssumption DEF isServer, inDomain
  <2>3. PICK m \in Message : /\ Composed(r, m) /\ ~panics(req[r].proto, m)
                             /\ resp[r] = truncate(req[r].proto, m)
    BY <2>1, <2>2, ComposedMessage
  <2>4. PICK l \in sorted(S) :
          m = [authoritative EXCEPT !.answer = listed(req[r], l)]
    BY <2>1, <2>3 DEF Composed
  <2>5. PICK n \in Message : /\ Composed(s, n) /\ ~panics(req[s].proto, n)
                             /\ resp[s] = truncate(req[s].proto, n)
    BY <2>1, <2>2, ComposedMessage
  <2>6. PICK l2 \in sorted(S) :
          n = [authoritative EXCEPT !.answer = pick(req[s], l2)]
    BY <2>1, <2>5 DEF Composed
  <2>7. S \subseteq Member
    BY <2>1, <2>3 DEF Composed
  <2>8. l2 = l
    BY <2>7, OneSorted
  <2>9. /\ Cardinality(S) \in Nat /\ l \in [1..Cardinality(S) -> S]
        /\ Len(l) = Cardinality(S)
    <3>1. IsFiniteSet(S) /\ l \in Listings(S)
      BY <2>7, FS_Subset, ConsulAssumption DEF sorted
    <3> HIDE DEF S
    <3> QED
      BY <3>1, ListingIsSeq
  <2>10. k \in DOMAIN m.answer /\ resp[r].answer[k] = m.answer[k]
    BY <2>2, <2>3, Truncation
  <2>11. m.answer = listed(req[r], l)
    BY <2>4 DEF authoritative, newResponse
  <2>12. k \in 1..Cardinality(S)
    BY <2>9, <2>10, <2>11 DEF listed
  <2>13. resp[r].answer[k] =
           newRR(req[r].qtype, [toServer(l[k]) EXCEPT
                                  !.host = <<k - 1, req[r].name>>])
    BY <2>9, <2>10, <2>11, <2>12 DEF listed
  <2>14. req[s].qtype = "A"
    BY <2>1 DEF serverType
  <2> DEFINE rr == newRR("A", toServer(l[k]))
  <2>15. pick(req[s], l) = <<rr>>
    <3>1. k - 1 < Len(l) /\ (k - 1) + 1 = k
      BY <2>9, <2>12
    <3>2. k \in DOMAIN l
      BY <2>9, <2>12
    <3>3. serverAt(req[s], l, k - 1) = rr
      BY <2>14, <3>1, <3>2 DEF serverAt
    <3>4. pick(req[s], l) = <<serverAt(req[s], l, k - 1)>>
      BY <3>1 DEF pick
    <3> QED
      BY <3>3, <3>4
  <2>16. n.answer = <<rr>> /\ n.rcode = "NOERROR" /\ Len(n.answer) = 1
    BY <2>6, <2>8, <2>15 DEF authoritative, newResponse
  <2>17. req[r].qtype = "A" => resp[r].answer[k] = rr
    BY <2>13 DEF newRR, toServer
  <2> HIDE DEF rr
  <2>18. /\ resp[s].rcode = "NOERROR" /\ resp[s] \in Message
         /\ DOMAIN resp[s].answer \subseteq DOMAIN n.answer
         /\ resp[s].tc \/ resp[s] = n
    BY <2>2, <2>5, <2>16, Truncation
  <2>19. Len(resp[s].answer) <= 1
    <3>1. resp[s].answer \in Seq(RR)
      BY <2>18 DEF Message
    <3>2. DOMAIN resp[s].answer \subseteq 1..1
      BY <2>16, <2>18
    <3> QED
      BY <3>1, <3>2, AtMostOne
  <2>20. ~resp[s].tc => resp[s].answer[1] = rr /\ Len(resp[s].answer) = 1
    <3>1. SUFFICES ASSUME ~resp[s].tc
                   PROVE  resp[s].answer[1] = rr /\ Len(resp[s].answer) = 1
      OBVIOUS
    <3>2. resp[s].answer = <<rr>>
      BY <2>16, <2>18, <3>1
    <3> QED
      BY <3>2
  <2> QED
    BY <2>17, <2>18, <2>19, <2>20
<1> QED
  BY <1>1, AgreedInvariant, PTL

-----------------------------------------------------------------------------
(* Sums of counters.  SumFunctionOnSet is a recursive function over the    *)
(* subsets of a set; what it computes is shown by induction over their     *)
(* cardinality.                                                            *)

\* one turn of the recursion of SumFunctionOnSet
next(s) == CHOOSE x \in s : TRUE
body(g, f, s) == IF s = {} THEN 0 ELSE f[next(s)] + g[s \ {next(s)}]
isSum(g, f, S) == g = [s \in SUBSET S |-> body(g, f, s)]

\* What the fold over a function stands for.
LEMMA SumUnfolds ==
  ASSUME NEW f, NEW S
  PROVE  SumFunctionOnSet(f, S) = (CHOOSE g : isSum(g, f, S))[S]
BY DEF SumFunctionOnSet, FoldFunctionOnSet, MapThenFoldSet, body, next, isSum

\* Taking one member away leaves a smaller set.
LEMMA Smaller ==
  ASSUME NEW S, IsFiniteSet(S), NEW s \in SUBSET S, s # {}
  PROVE  /\ next(s) \in s /\ s \ {next(s)} \in SUBSET S
         /\ Cardinality(s) \in Nat /\ Cardinality(s \ {next(s)}) \in Nat
         /\ Cardinality(s \ {next(s)}) < Cardinality(s)
<1>1. next(s) \in s
  BY DEF next
<1>2. IsFiniteSet(s)
  BY FS_Subset
<1>3. Cardinality(s) \in Nat /\ Cardinality(s \ {next(s)}) = Cardinality(s) - 1
  BY <1>1, <1>2, FS_CardinalityType, FS_RemoveElement
<1>4. Cardinality(s \ {next(s)}) \in Nat
  BY <1>2, FS_Subset, FS_CardinalityType
<1> QED
  BY <1>1, <1>3, <1>4

\* The recursion has a solution.
LEMMA SumExists ==
  ASSUME NEW S, IsFiniteSet(S), NEW f, \A x \in S : f[x] \in Int
  PROVE  \E g : isSum(g, f, S)
<1> DEFINE A == {n \in Nat : \E g \in [SUBSET S -> Int] : \A s \in SUBSET S :
                   Cardinality(s) < n => g[s] = body(g, f, s)}
<1>1. 0 \in A
  <2> DEFINE g == [s \in SUBSET S |-> 0]
  <2>1. g \in [SUBSET S -> Int]
    OBVIOUS
  <2>2. \A s \in SUBSET S : ~(Cardinality(s) < 0)
    <3>1. \A s \in SUBSET S : Cardinality(s) \in Nat
      BY FS_Subset, FS_CardinalityType
    <3> QED
      BY <3>1
  <2> HIDE DEF g
  <2> QED
    BY <2>1, <2>2
<1>2. ASSUME NEW n \in Nat, n \in A
      PROVE  n + 1 \in A
  <2>1. PICK g \in [SUBSET S -> Int] : \A s \in SUBSET S :
          Cardinality(s) < n => g[s] = body(g, f, s)
    BY <1>2
  <2>2. \A s \in SUBSET S : body(g, f, s) \in Int
    <3> TAKE s \in SUBSET S
    <3>1. CASE s = {}
      BY <3>1 DEF body
    <3>2. CASE s # {}
      <4>1. f[next(s)] \in Int /\ g[s \ {next(s)}] \in Int
        BY <3>2, Smaller
      <4> QED
        BY <3>2, <4>1 DEF body
    <3> QED
      BY <3>1, <3>2
  <2> DEFINE h == [s \in SUBSET S |->
                     IF Cardinality(s) < n THEN g[s] ELSE body(g, f, s)]
  <2>3. h \in [SUBSET S -> Int]
    BY <2>2
  <2>4. ASSUME NEW s \in SUBSET S, Cardinality(s) < n + 1
        PROVE  h[s] = body(h, f, s)
    <3>1. CASE s = {}
      BY <2>1, <3>1 DEF body
    <3>2. CASE s # {}
      <4> DEFINE t == s \ {next(s)}
      <4>1. t \in SUBSET S /\ Cardinality(t) < n
        BY <2>4, <3>2, Smaller
      <4>2. h[t] = g[t]
        BY <4>1
      <4>3. body(h, f, s) = body(g, f, s)
        BY <3>2, <4>2 DEF body
      <4>4. h[s] = body(g, f, s)
        BY <2>1
      <4> QED
        BY <4>3, <4>4
    <3> QED
      BY <3>1, <3>2
  <2> HIDE DEF h
  <2> QED
    BY <2>3, <2>4
<1> HIDE DEF A
<1>3. Nat \subseteq A
  BY <1>1, <1>2, NatInSet
<1>4. Cardinality(S) \in Nat /\ Cardinality(S) + 1 \in A
  BY <1>3, FS_CardinalityType
<1>5. PICK g \in [SUBSET S -> Int] : \A s \in SUBSET S :
        Cardinality(s) < Cardinality(S) + 1 => g[s] = body(g, f, s)
  BY <1>4 DEF A
<1>6. \A s \in SUBSET S :
        Cardinality(s) \in Nat /\ Cardinality(s) <= Cardinality(S)
  BY FS_Subset, FS_CardinalityType
<1>7. \A s \in SUBSET S : g[s] = body(g, f, s)
  BY <1>4, <1>5, <1>6
<1>8. g = [s \in SUBSET S |-> body(g, f, s)]
  BY <1>7
<1> QED
  BY <1>8 DEF isSum

\* The sum over S, as a function on the subsets of S.
LEMMA SumSolution ==
  ASSUME NEW S, IsFiniteSet(S), NEW f, \A x \in S : f[x] \in Int
  PROVE  \E g : isSum(g, f, S) /\ SumFunctionOnSet(f, S) = g[S]
<1> DEFINE g == CHOOSE g : isSum(g, f, S)
<1>1. isSum(g, f, S)
  BY SumExists
<1> QED
  BY <1>1, SumUnfolds

\* A counter of S counts up: so does the sum.  One that is not of S does not
\* matter.
LEMMA SumCountsUp ==
  ASSUME NEW S, IsFiniteSet(S), NEW f1, NEW f2, NEW y,
         \A x \in S : /\ f1[x] \in Int
                      /\ f2[x] = IF x = y THEN f1[x] + 1 ELSE f1[x]
  PROVE  /\ SumFunctionOnSet(f1, S) \in Int
         /\ SumFunctionOnSet(f2, S) = IF y \in S
                                      THEN SumFunctionOnSet(f1, S) + 1
                                      ELSE SumFunctionOnSet(f1, S)
<1>1. \A x \in S : f2[x] \in Int
  OBVIOUS
<1>2. PICK g1 : isSum(g1, f1, S) /\ SumFunctionOnSet(f1, S) = g1[S]
  BY SumSolution
<1>3. PICK g2 : isSum(g2, f2, S) /\ SumFunctionOnSet(f2, S) = g2[S]
  BY <1>1, SumSolution
<1>4. \A s \in SUBSET S : g1[s] = body(g1, f1, s) /\ g2[s] = body(g2, f2, s)
  BY <1>2, <1>3 DEF isSum
<1> DEFINE good(s) == g1[s] \in Int /\ g2[s] = IF y \in s THEN g1[s] + 1
                                               ELSE g1[s]
           A == {n \in Nat : \A s \in SUBSET S : Cardinality(s) < n => good(s)}
<1>5. \A s \in SUBSET S : Cardinality(s) \in Nat
  BY FS_Subset, FS_CardinalityType
<1>6. 0 \in A
  BY <1>5
<1>7. ASSUME NEW n \in Nat, n \in A
      PROVE  n + 1 \in A
  <2> SUFFICES ASSUME NEW s \in SUBSET S, Cardinality(s) < n + 1
               PROVE  good(s)
    OBVIOUS
  <2>1. CASE s = {}
    BY <1>4, <2>1 DEF body
  <2>2. CASE s # {}
    <3> DEFINE c == next(s)
               t == s \ {c}
    <3>1. c \in s /\ t \in SUBSET S /\ Cardinality(t) < n
      BY <1>5, <2>2, Smaller
    <3>2. good(t)
      BY <1>7, <3>1
    <3>3. g1[s] = f1[c] + g1[t] /\ g2[s] = f2[c] + g2[t]
      BY <1>4, <2>2 DEF body
    <3>4. f1[c] \in Int /\ f2[c] = IF c = y THEN f1[c] + 1 ELSE f1[c]
      BY <3>1
    <3>5. y \in s <=> (y = c \/ y \in t)
      BY <3>1
    <3>6. c \notin t
      OBVIOUS
    <3> HIDE DEF c, t
    <3> QED
      BY <3>2, <3>3, <3>4, <3>5, <3>6
  <2> QED
    BY <2>1, <2>2
<1>8. Cardinality(S) \in Nat /\ Cardinality(S) + 1 \in A
  <2> HIDE DEF A
  <2> QED
    BY <1>5, <1>6, <1>7, NatInSet
<1>9. good(S)
  BY <1>8
<1> QED
  BY <1>2, <1>3, <1>9

\* Counters that stand at zero.
LEMMA SumOfZeros ==
  ASSUME NEW S, IsFiniteSet(S), NEW f, \A x \in S : f[x] = 0
  PROVE  SumFunctionOnSet(f, S) = 0
<1>1. PICK g : isSum(g, f, S) /\ SumFunctionOnSet(f, S) = g[S]
  BY SumSolution
<1>2. \A s \in SUBSET S : g[s] = body(g, f, s)
  BY <1>1 DEF isSum
<1> DEFINE A == {n \in Nat : \A s \in SUBSET S : Cardinality(s) < n => g[s] = 0}
<1>3. \A s \in SUBSET S : Cardinality(s) \in Nat
  BY FS_Subset, FS_CardinalityType
<1>4. 0 \in A
  BY <1>3
<1>5. ASSUME NEW n \in Nat, n \in A
      PROVE  n + 1 \in A
  <2> SUFFICES ASSUME NEW s \in SUBSET S, Cardinality(s) < n + 1
               PROVE  g[s] = 0
    OBVIOUS
  <2>1. CASE s = {}
    BY <1>2, <2>1 DEF body
  <2>2. CASE s # {}
    <3> DEFINE c == next(s)
               t == s \ {c}
    <3>1. c \in s /\ t \in SUBSET S /\ Cardinality(t) < n
      BY <1>3, <2>2, Smaller
    <3>2. g[t] = 0 /\ f[c] = 0
      BY <1>5, <3>1
    <3>3. g[s] = f[c] + g[t]
      BY <1>2, <2>2 DEF body
    <3> QED
      BY <3>2, <3>3
  <2> QED
    BY <2>1, <2>2
<1>6. Cardinality(S) \in Nat /\ Cardinality(S) + 1 \in A
  <2> HIDE DEF A
  <2> QED
    BY <1>3, <1>4, <1>5, NatInSet
<1> QED
  BY <1>1, <1>6

\* A sum of numbers is a number.
LEMMA SumIsInt ==
  ASSUME NEW S, IsFiniteSet(S), NEW f, \A x \in S : f[x] \in Int
  PROVE  SumFunctionOnSet(f, S) \in Int
<1>1. PICK y : y \notin S
  BY NoSetContainsEverything
<1>2. \A x \in S : /\ f[x] \in Int
                   /\ f[x] = IF x = y THEN f[x] + 1 ELSE f[x]
  BY <1>1
<1> QED
  BY ONLY IsFiniteSet(S), <1>2, SumCountsUp, Zenon

-----------------------------------------------------------------------------
(* The books of the two metrics layers.                                    *)

\* the failures whose request is not observed yet
Owed == {r \in Request : pc[r] \in {"returned", "written"} /\ Failing(r)}

\* storeFailures and servfails, by the types of the two counters
failureKeys == {x \in Op \X ErrLabel : ~isNoInstances(x[2])}
servfailKeys == {x \in Proto \X (QType \cup {"unknown"}) \X Rcode :
                   x[3] = "SERVFAIL"}

failuresCounted == SumFunctionOnSet(storeErrors, failureKeys)
servfailsObserved == SumFunctionOnSet(dnsDurations, servfailKeys)

Balanced ==
  /\ IsFiniteSet(Owed)
  /\ failuresCounted = servfailsObserved + Cardinality(Owed)

\* The counters of the two layers are finitely many.
LEMMA KeysFinite == IsFiniteSet(failureKeys) /\ IsFiniteSet(servfailKeys)
<1>1. \A x, y : IsFiniteSet({x, y})
  <2> TAKE x, y
  <2>1. IsFiniteSet({x} \cup {y})
    BY FS_Singleton, FS_AddElement
  <2>2. {x} \cup {y} = {x, y}
    OBVIOUS
  <2> QED
    BY <2>1, <2>2
<1>2. \A S, T : IsFiniteSet(S) /\ IsFiniteSet(T) =>
        IsFiniteSet(S \cup T) /\ IsFiniteSet(S \X T)
  BY FS_Union, FS_Product
<1>3. IsFiniteSet(failureKeys)
  <2>1. ErrLabel = {"consulapi", "invalidip"} \cup {"noinstances", "noinstances"}
    BY DEF ErrLabel
  <2>2. IsFiniteSet(Op) /\ IsFiniteSet(ErrLabel)
    BY <1>1, <1>2, <2>1 DEF Op
  <2>3. IsFiniteSet(Op \X ErrLabel)
    BY <1>2, <2>2
  <2> QED
    BY <2>3, FS_Subset DEF failureKeys
<1>4. IsFiniteSet(servfailKeys)
  <2> DEFINE Q == QType \cup {"unknown"}
             f == [x \in servfailKeys |-> <<x[1], x[2]>>]
  <2>1. Q = ({"A", "SRV"} \cup {"NS", "other"}) \cup {"unknown", "unknown"}
    BY DEF QType
  <2>2. IsFiniteSet(Proto) /\ IsFiniteSet(Q)
    BY <1>1, <1>2, <2>1 DEF Proto
  <2>3. IsFiniteSet(Proto \X Q)
    BY <1>2, <2>2
  <2>4. f \in [servfailKeys -> Proto \X Q]
    BY DEF servfailKeys
  <2>5. \A x, y \in servfailKeys : f[x] = f[y] => x = y
    BY DEF servfailKeys
  <2>6. f \in Injection(servfailKeys, Proto \X Q)
    BY <2>4, <2>5 DEF Injection, IsInjective
  <2> QED
    BY <2>3, <2>6, FS_Injection
<1> QED
  BY <1>3, <1>4

\* A step that counts and observes nothing keeps the balance.
LEMMA BalanceKept ==
  ASSUME Balanced, UNCHANGED <<storeErrors, dnsDurations>>, Owed' = Owed
  PROVE  Balanced'
BY DEF Balanced, failuresCounted, servfailsObserved

\* A goroutine that only writes keeps its debt.
LEMMA WriteMsgBalanced ==
  ASSUME Agreed, Balanced, NEW r \in Request, NEW m, WriteMsg(r, m),
         \/ pc[r] = "serving"
         \/ pc[r] = "returned"
  PROVE  Balanced'
<1>1. /\ UNCHANGED <<storeErrors, dnsDurations, result>>
      /\ pc' = pc \/ pc' = [pc EXCEPT ![r] = "written"]
  BY DEF WriteMsg, metricVars, Goto
<1>2. pc[r] = "serving" => ~Failing(r)
  BY DEF Agreed, JInv, Called, Failing
<1>3. \A s \in Request : Failing(s)' = Failing(s)
  BY <1>1 DEF Failing
<1>4. Owed' = Owed
  BY <1>1, <1>2, <1>3 DEF Owed, Agreed, IInv, TypeOK
<1> QED
  BY <1>1, <1>4, BalanceKept

\* Nobody owes anything before the store call.
LEMMA ServeBalanced ==
  ASSUME Agreed, Balanced, NEW r \in Request, Serve(r)
  PROVE  Balanced'
<1>1. pc[r] = "serving"
  BY DEF Serve, ServeFailed, ServeMulti, ServeForeign, ServeInvalid,
         ServeUnsupported, CallInstances, CallServers, At
<1>2. ASSUME NEW m, WriteMsg(r, m)
      PROVE  Balanced'
  BY <1>1, <1>2, WriteMsgBalanced
<1>3. CASE ServeFailed(r) \/ CallInstances(r) \/ CallServers(r)
  <2>1. /\ UNCHANGED <<storeErrors, dnsDurations, result>>
        /\ \/ pc' = [pc EXCEPT ![r] = "done"]
           \/ pc' = [pc EXCEPT ![r] = "consul"]
    BY <1>3 DEF ServeFailed, CallInstances, CallServers, Call, Goto, metricVars
  <2>2. \A s \in Request : Failing(s)' = Failing(s)
    BY <2>1 DEF Failing
  <2>3. Owed' = Owed
    BY <1>1, <2>1, <2>2 DEF Owed, Agreed, IInv, TypeOK
  <2> QED
    BY <2>1, <2>3, BalanceKept
<1> QED
  BY <1>2, <1>3
     DEF Serve, ServeMulti, ServeForeign, ServeInvalid, ServeUnsupported

\* A store call ends: its failure is counted and owed at the same moment.
LEMMA ReturnBalanced ==
  ASSUME Agreed, Agreed', Balanced, NEW r \in Request, Return(r)
  PROVE  Balanced'
<1>0. PICK op \in Op : \E res : StoreReturns(r, op, res)
  BY DEF Return, InstancesReturned, ServersReturned, Op
<1>1. PICK res : StoreReturns(r, op, res)
  BY <1>0
<1>2. /\ pc' = [pc EXCEPT ![r] = "returned"]
      /\ result' = [result EXCEPT ![r] = res]
      /\ dnsDurations' = dnsDurations
      /\ storeErrors' = IF res.err # "none"
                        THEN [storeErrors EXCEPT ![<<op, res.err>>] =
                                storeErrors[<<op, res.err>>] + 1]
                        ELSE storeErrors
  BY <1>1 DEF StoreReturns, Goto, trackStore
<1>3. pc[r] = "consul" /\ r \notin Owed
  BY DEF Return, InstancesReturned, ServersReturned, At, Owed
<1>4. pc'[r] = "returned" /\ result'[r] = res /\ res \in Result
  BY <1>2 DEF Agreed, IInv, LInv, Returned, TypeOK
<1>5. res # None /\ res.err \in ErrLabel \cup {"none"}
  BY <1>4, AgentAssumption DEF Result
<1> DEFINE y == <<op, res.err>>
<1>6. y \in failureKeys <=> res.err # "none" /\ ~isNoInstances(res.err)
  BY <1>5 DEF failureKeys, ErrLabel
<1>7. Owed' = IF y \in failureKeys THEN Owed \cup {r} ELSE Owed
  <2>1. Failing(r)' <=> y \in failureKeys
    BY <1>4, <1>5, <1>6 DEF Failing
  <2>2. \A s \in Request : s # r =>
          Failing(s)' = Failing(s) /\ pc'[s] = pc[s]
    BY <1>2 DEF Failing, Agreed, IInv, TypeOK
  <2> QED
    BY <1>3, <1>4, <2>1, <2>2 DEF Owed
<1>8. \A x \in failureKeys :
        /\ storeErrors[x] \in Int
        /\ storeErrors'[x] = IF x = y THEN storeErrors[x] + 1 ELSE storeErrors[x]
  <2>1. failureKeys \subseteq Op \X ErrLabel
    BY DEF failureKeys
  <2>2. storeErrors \in [Op \X ErrLabel -> Nat]
    BY DEF Agreed, IInv, TypeOK
  <2>3. CASE res.err = "none"
    <3>1. y \notin failureKeys
      BY <1>6, <2>3
    <3> HIDE DEF y
    <3> QED
      BY <1>2, <2>1, <2>2, <2>3, <3>1
  <2>4. CASE res.err # "none"
    <3>1. storeErrors' = [storeErrors EXCEPT ![y] = storeErrors[y] + 1]
      BY <1>2, <2>4
    <3> HIDE DEF y
    <3> QED
      BY <2>1, <2>2, <3>1
  <2> QED
    BY <2>3, <2>4
<1> HIDE DEF y
<1>9. /\ failuresCounted \in Int
      /\ failuresCounted' = IF y \in failureKeys THEN failuresCounted + 1
                            ELSE failuresCounted
  BY <1>8, KeysFinite, SumCountsUp DEF failuresCounted
<1>10. servfailsObserved' = servfailsObserved /\ servfailsObserved \in Int
  <2>1. \A x \in servfailKeys : dnsDurations[x] \in Int
    BY DEF servfailKeys, Agreed, IInv, TypeOK
  <2>2. servfailsObserved \in Int
    BY <2>1, KeysFinite, SumIsInt DEF servfailsObserved
  <2> QED
    BY <1>2, <2>2 DEF servfailsObserved
<1>11. /\ IsFiniteSet(Owed') /\ Cardinality(Owed) \in Nat
       /\ Cardinality(Owed') = IF y \in failureKeys THEN Cardinality(Owed) + 1
                               ELSE Cardinality(Owed)
  BY <1>3, <1>7, FS_AddElement, FS_CardinalityType DEF Balanced
<1> QED
  BY <1>9, <1>10, <1>11 DEF Balanced

\* A request is observed: a debt is settled by a SERVFAIL.
LEMMA ObserveBalanced ==
  ASSUME Agreed, Balanced, NEW r \in Request, Observe(r)
  PROVE  Balanced'
<1> DEFINE y == <<req[r].proto, qtypeLabel(req[r]), resp[r].rcode>>
<1>1. /\ pc[r] = "written" /\ pc' = [pc EXCEPT ![r] = "done"]
      /\ dnsDurations' = [dnsDurations EXCEPT ![y] = dnsDurations[y] + 1]
      /\ UNCHANGED <<result, storeErrors>>
  BY DEF Observe, At, Goto
<1>2. y \in servfailKeys <=> r \in Owed
  <2>1. req[r] \in Query /\ resp[r] \in Message
    BY <1>1 DEF Agreed, IInv, LInv, Asked, Wrote, Answered
  <2>2. req[r].proto \in Proto /\ req[r].qtype \in QType /\ resp[r].rcode \in Rcode
    BY <2>1, AgentAssumption DEF Message
  <2>3. qtypeLabel(req[r]) \in QType \cup {"unknown"}
    BY <2>2 DEF qtypeLabel
  <2>4. y \in servfailKeys <=> resp[r].rcode = "SERVFAIL"
    BY <2>2, <2>3 DEF servfailKeys
  <2>5. resp[r].rcode = "SERVFAIL" <=> Failing(r)
    BY <1>1 DEF Agreed, JInv, Told, Answered
  <2> QED
    BY <1>1, <2>4, <2>5 DEF Owed
<1>3. Owed' = Owed \ {r}
  <2>1. \A s \in Request : Failing(s)' = Failing(s)
    BY <1>1 DEF Failing
  <2> QED
    BY <1>1, <2>1 DEF Owed, Agreed, IInv, TypeOK
<1> HIDE DEF y
<1>4. \A x \in servfailKeys :
        /\ dnsDurations[x] \in Int
        /\ dnsDurations'[x] = IF x = y THEN dnsDurations[x] + 1
                              ELSE dnsDurations[x]
  BY <1>1 DEF servfailKeys, Agreed, IInv, TypeOK
<1>5. /\ servfailsObserved \in Int
      /\ servfailsObserved' = IF y \in servfailKeys THEN servfailsObserved + 1
                              ELSE servfailsObserved
  BY <1>4, KeysFinite, SumCountsUp DEF servfailsObserved
<1>6. failuresCounted' = failuresCounted
  BY <1>1 DEF failuresCounted
<1>7. /\ IsFiniteSet(Owed') /\ Cardinality(Owed) \in Nat
      /\ Cardinality(Owed') = IF r \in Owed THEN Cardinality(Owed) - 1
                              ELSE Cardinality(Owed)
  BY <1>3, FS_RemoveElement, FS_CardinalityType DEF Balanced
<1> QED
  BY <1>2, <1>5, <1>6, <1>7 DEF Balanced

\* The books balance at all times.
LEMMA BalancedInvariant == Spec => []Balanced
<1>1. Init => Balanced
  <2> SUFFICES ASSUME Init PROVE Balanced
    OBVIOUS
  <2>1. Owed = {}
    BY DEF Init, Owed
  <2>2. IsFiniteSet(Owed) /\ Cardinality(Owed) = 0
    BY <2>1, FS_EmptySet
  <2>3. \A x \in failureKeys : storeErrors[x] = 0
    BY DEF Init, failureKeys
  <2>4. \A x \in servfailKeys : dnsDurations[x] = 0
    BY DEF Init, servfailKeys
  <2>5. failuresCounted = 0 /\ servfailsObserved = 0
    BY <2>3, <2>4, KeysFinite, SumOfZeros DEF failuresCounted, servfailsObserved
  <2> QED
    BY <2>2, <2>5 DEF Balanced
<1>2. Agreed /\ Agreed' /\ Balanced /\ [Next]_vars => Balanced'
  <2> SUFFICES ASSUME Agreed, Agreed', Balanced, [Next]_vars
               PROVE  Balanced'
    OBVIOUS
  <2>1. CASE Environment \/ UNCHANGED vars
    <3>1. UNCHANGED <<pc, result, storeErrors, dnsDurations>>
      BY <2>1 DEF Environment, vars, agentVars, metricVars
    <3>2. Owed' = Owed
      BY <3>1 DEF Owed, Failing
    <3> QED
      BY <3>1, <3>2, BalanceKept
  <2>2. ASSUME NEW r \in Request, Receive(r)
        PROVE  Balanced'
    <3>1. /\ pc[r] = "idle" /\ pc' = [pc EXCEPT ![r] = "serving"]
          /\ UNCHANGED <<result, storeErrors, dnsDurations>>
      BY <2>2 DEF Receive, At, Goto, metricVars
    <3>2. \A s \in Request : Failing(s)' = Failing(s)
      BY <3>1 DEF Failing
    <3>3. Owed' = Owed
      BY <3>1, <3>2 DEF Owed, Agreed, IInv, TypeOK
    <3> QED
      BY <3>1, <3>3, BalanceKept
  <2>3. ASSUME NEW r \in Request, Serve(r) \/ Return(r)
        PROVE  Balanced'
    BY <2>3, ServeBalanced, ReturnBalanced
  <2>4. ASSUME NEW r \in Request, serviceResponse(r) \/ serverResponse(r)
        PROVE  Balanced'
    <3>1. pc[r] = "returned" /\ \E m : WriteMsg(r, m)
      BY <2>4 DEF serviceResponse, serverResponse, At
    <3> QED
      BY <3>1, WriteMsgBalanced
  <2>5. ASSUME NEW r \in Request, Observe(r)
        PROVE  Balanced'
    BY <2>5, ObserveBalanced
  <2> QED
    BY <2>1, <2>2, <2>3, <2>4, <2>5 DEF Next, Respond
<1> QED
  BY <1>1, <1>2, AgreedInvariant, PTL DEF Spec

\* The two layers of metrics keep the same books under every interleaving: a
\* store failure is a SERVFAIL observed, or one still to be observed.
THEOREM BooksBalance == Spec => []ErrorsAccounted
<1>1. Agreed /\ Balanced => ErrorsAccounted
  <2> SUFFICES ASSUME Agreed, Balanced PROVE ErrorsAccounted
    OBVIOUS
  <2>1. storeFailures = failureKeys /\ servfails = servfailKeys
    BY DEF storeFailures, servfails, failureKeys, servfailKeys, Agreed, IInv,
           TypeOK
  <2>2. Owed = {r \in Request :
                  /\ pc[r] \in {"returned", "written"} /\ result[r] # None
                  /\ result[r].err # "none" /\ ~isNoInstances(result[r].err)}
    BY DEF Owed, Failing
  <2> QED
    BY <2>1, <2>2
       DEF Balanced, ErrorsAccounted, failuresCounted, servfailsObserved
<1> QED
  BY <1>1, AgreedInvariant, BalancedInvariant, PTL
=============================================================================
