----------------------------- MODULE ServerProofs -----------------------------
(***************************************************************************)
(* TypeOK and AnswersInOrder, the invariants of Server, for any number of  *)
(* connections and messages and any limit of queries.                      *)
(***************************************************************************)
EXTENDS Server, SequenceTheorems, TLAPS

\* What was answered was read, and wanted an answer.
Genuine(c) ==
  /\ read[c] <= Len(sent[c]) /\ InOrder(answered[c])
  /\ \A k \in DOMAIN answered[c] :
       answered[c][k] \in 1..read[c] /\ sent[c][answered[c][k]] \notin Silent

Settled(c, i) == sent[c][i] \in Silent \/ i \in Range(answered[c])

\* of a connection that serve has not got to
Unserved(c) ==
  /\ answered[c] = <<>> /\ read[c] <= 1
  /\ state[c] # "abandoned" => read[c] = 0 /\ q[c] = 0

\* of one whose last message is in the works
Working(c) ==
  /\ read[c] >= 1 /\ q[c] = read[c] - 1 /\ q[c] <= MaxQueries
  /\ Len(answered[c]) <= q[c]
  /\ \A k \in DOMAIN answered[c] : answered[c][k] < read[c]
  /\ state[c] # "unpack" => current(c) # "reply"

\* of one whose last message is dealt with
Waiting(c) ==
  /\ read[c] >= 1 /\ q[c] = read[c] - 1 /\ q[c] <= MaxQueries
  /\ Len(answered[c]) <= read[c]
  /\ ~gone[c] => Settled(c, read[c])

CInv(c) ==
  /\ Genuine(c)
  /\ ~gone[c] => \A i \in 1..(read[c] - 1) : Settled(c, i)
  /\ state[c] \in {"none", "backlog", "first", "abandoned"} => Unserved(c)
  /\ state[c] \in {"unpack", "handler", "write"} => Working(c)
  /\ state[c] = "read" => Waiting(c)
  /\ state[c] = "closed" => Len(answered[c]) <= MaxQueries + 1

IInv == TypeOK /\ \A c \in Conn : CInv(c)

-----------------------------------------------------------------------------
(* Sequences.                                                              *)

\* an answer to a later message keeps the order
LEMMA AppendInOrder ==
  ASSUME NEW s \in Seq(Nat), InOrder(s), NEW n \in Nat,
         \A k \in DOMAIN s : s[k] < n
  PROVE  /\ Append(s, n) \in Seq(Nat) /\ Len(Append(s, n)) = Len(s) + 1
         /\ InOrder(Append(s, n))
         /\ Range(Append(s, n)) = Range(s) \cup {n}
         /\ \A k \in DOMAIN Append(s, n) :
              Append(s, n)[k] = n \/ (k \in DOMAIN s /\ Append(s, n)[k] = s[k])
<1> DEFINE t == Append(s, n)
<1>1. /\ t \in Seq(Nat) /\ Len(t) = Len(s) + 1
      /\ DOMAIN s = 1..Len(s) /\ DOMAIN t = 1..(Len(s) + 1) /\ Len(s) \in Nat
      /\ \A k \in 1..Len(s) : t[k] = s[k]
      /\ t[Len(s) + 1] = n
  OBVIOUS
<1>2. InOrder(t)
  BY <1>1 DEF InOrder
<1>3. Range(t) = Range(s) \cup {n}
  BY <1>1 DEF Range
<1> QED
  BY <1>1, <1>2, <1>3

\* the messages of a client stay where they are when it sends another
LEMMA AppendKeeps ==
  ASSUME NEW S, NEW s \in Seq(S), NEW x \in S
  PROVE  /\ Append(s, x) \in Seq(S) /\ Len(Append(s, x)) = Len(s) + 1
         /\ Len(s) \in Nat /\ \A i \in 1..Len(s) : Append(s, x)[i] = s[i]
OBVIOUS

-----------------------------------------------------------------------------
(* The steps.                                                              *)

\* a step of one connection leaves the others as they are
LEMMA Frame ==
  ASSUME NEW d \in Conn, CInv(d),
         state'[d] = state[d], sent'[d] = sent[d], read'[d] = read[d],
         q'[d] = q[d], answered'[d] = answered[d], gone'[d] = gone[d]
  PROVE  CInv(d)'
BY DEF CInv, Genuine, Settled, Unserved, Working, Waiting, current

\* a step that only moves a connection
LEMMA Move ==
  ASSUME IInv, NEW c \in Conn, NEW there \in {"backlog", "first", "unpack",
           "handler", "write", "read", "closed", "abandoned"},
         state' = [state EXCEPT ![c] = there],
         UNCHANGED <<sent, gone, read, q, answered, unread>>,
         backlog' \in Seq(Conn), listener' \in Conn \cup {None},
         there \in {"backlog", "first", "abandoned"} =>
           Unserved(c) /\ (there # "abandoned" => read[c] = 0 /\ q[c] = 0),
         there \in {"handler", "write"} => Working(c) /\ current(c) # "reply",
         there = "unpack" => Working(c),
         there = "read" => Waiting(c),
         there = "closed" => Len(answered[c]) <= MaxQueries + 1
  PROVE  IInv'
<1>1. TypeOK'
  BY DEF IInv, TypeOK
<1>2. CInv(c)'
  BY DEF IInv, TypeOK, CInv, Genuine, Settled, Unserved, Working, Waiting,
         current
<1>3. ASSUME NEW d \in Conn, d # c
      PROVE  CInv(d)'
  BY <1>3, Frame DEF IInv, TypeOK
<1> QED
  BY <1>1, <1>2, <1>3 DEF IInv

\* A client connects, sends, reads or leaves.
LEMMA ClientStep ==
  ASSUME IInv, NEW c \in Conn, ClientNext(c)
  PROVE  IInv'
<1>1. CASE Connect(c)
  <2>1. Unserved(c) /\ read[c] = 0 /\ q[c] = 0 /\ state[c] = "none"
    BY <1>1 DEF Connect, Goto, IInv, CInv, Unserved
  <2>2. backlog' \in Seq(Conn)
    BY <1>1 DEF Connect, IInv, TypeOK
  <2> QED
    BY <1>1, <2>1, <2>2, Move
    DEF Connect, Goto, clientVars, serveVars, IInv, TypeOK
<1>2. CASE SendMessage(c)
  <2>1. PICK k \in Kind : sent' = [sent EXCEPT ![c] = Append(@, k)]
    BY <1>2, ServerAssumption DEF SendMessage
  <2>2. UNCHANGED <<backlog, listener, state, gone, read, q, answered, unread>>
    BY <1>2 DEF SendMessage, serveVars
  <2>3. /\ sent[c] \in Seq(Kind) /\ sent'[c] = Append(sent[c], k)
        /\ \A d \in Conn : d # c => sent'[d] = sent[d]
    BY <2>1 DEF IInv, TypeOK
  <2>4. /\ Len(sent'[c]) = Len(sent[c]) + 1 /\ Len(sent[c]) \in Nat
        /\ sent'[c] \in Seq(Kind)
        /\ \A i \in 1..Len(sent[c]) : sent'[c][i] = sent[c][i]
    BY <2>3, AppendKeeps
  <2>5. TypeOK'
    BY <2>1, <2>2, <2>4 DEF IInv, TypeOK
  <2>6. CInv(c)'
    <3>1. CInv(c) /\ read[c] \in Nat /\ read[c] <= Len(sent[c])
          /\ answered[c] \in Seq(Nat)
      BY DEF IInv, TypeOK, CInv, Genuine
    <3>2. \A i \in 1..read[c] : sent'[c][i] = sent[c][i]
      BY <2>4, <3>1
    <3>3. Genuine(c)'
      <4>1. /\ Genuine(c) /\ answered'[c] = answered[c] /\ read'[c] = read[c]
            /\ read[c] <= Len(sent'[c])
        BY <2>2, <2>4, <3>1 DEF CInv
      <4>2. InOrder(answered'[c])
        BY <4>1 DEF Genuine
      <4>3. ASSUME NEW j \in DOMAIN answered[c]
            PROVE  /\ answered[c][j] \in 1..read[c]
                   /\ sent'[c][answered[c][j]] \notin Silent
        BY <3>2, <4>1 DEF Genuine
      <4> QED
        BY <4>1, <4>2, <4>3 DEF Genuine
    <3>4. \A i \in 1..read[c] : Settled(c, i) => Settled(c, i)'
      BY <2>2, <3>2 DEF Settled
    <3>5. read[c] >= 1 => current(c)' = current(c)
      BY <2>2, <3>1, <3>2 DEF current
    <3>6. /\ Unserved(c) => Unserved(c)'
          /\ Working(c) => Working(c)'
      BY <2>2, <3>5 DEF Unserved, Working
    <3>7. Waiting(c) => Waiting(c)'
      BY <2>2, <3>1, <3>4 DEF Waiting
    <3> QED
      BY <2>2, <3>1, <3>3, <3>4, <3>6, <3>7 DEF CInv
  <2>7. ASSUME NEW d \in Conn, d # c
        PROVE  CInv(d)'
    BY <2>2, <2>3, <2>7, Frame DEF IInv
  <2> QED
    BY <2>5, <2>6, <2>7 DEF IInv
<1>3. CASE ReadAnswer(c)
  <2>1. UNCHANGED <<backlog, listener, state, sent, gone, read, q, answered>>
    BY <1>3 DEF ReadAnswer, clientVars, serveVars
  <2>2. unread' \in [Conn -> 0..SendBuf]
    <3>1. SendBuf \in Nat
      BY ServerAssumption
    <3>2. /\ unread \in [Conn -> 0..SendBuf] /\ unread[c] > 0
          /\ unread' = [unread EXCEPT ![c] = @ - 1]
      BY <1>3 DEF ReadAnswer, IInv, TypeOK
    <3>3. unread[c] - 1 \in 0..SendBuf
      BY <3>1, <3>2
    <3> QED
      BY <3>2, <3>3
  <2>3. TypeOK'
    BY <2>1, <2>2 DEF IInv, TypeOK
  <2> QED
    BY <2>1, <2>3, Frame DEF IInv
<1>4. CASE Leave(c)
  <2>1. /\ gone' = [gone EXCEPT ![c] = TRUE]
        /\ UNCHANGED <<backlog, listener, state, sent, read, q, answered, unread>>
    BY <1>4 DEF Leave, serveVars
  <2>2. gone' \in [Conn -> BOOLEAN] /\ gone'[c]
    BY <2>1 DEF IInv, TypeOK
  <2>3. TypeOK'
    BY <2>1, <2>2 DEF IInv, TypeOK
  <2>4. CInv(c)'
    BY <2>1, <2>2
    DEF IInv, CInv, Genuine, Unserved, Working, Waiting, current
  <2>5. ASSUME NEW d \in Conn, d # c
        PROVE  CInv(d)'
    BY <2>1, <2>5, Frame DEF IInv, TypeOK
  <2> QED
    BY <2>3, <2>4, <2>5 DEF IInv
<1> QED
  BY <1>1, <1>2, <1>3, <1>4 DEF ClientNext

\* readTCP, by the accept loop or by serve: the message that is read is the
\* next one, and the ones before it are settled
LEMMA ReadMessage ==
  ASSUME IInv, NEW c \in Conn, inbox(c) > 0,
         NEW there \in {"unpack", "closed", "abandoned"},
         state' = [state EXCEPT ![c] = there],
         read' = [read EXCEPT ![c] = @ + 1],
         \/ state[c] = "first" /\ there # "closed" /\ UNCHANGED q
         \/ /\ state[c] = "read" /\ there # "abandoned"
            /\ q' = [q EXCEPT ![c] = @ + 1]
            /\ there = "unpack" => q[c] + 1 <= MaxQueries,
         UNCHANGED <<sent, gone, answered, unread, backlog>>,
         listener' \in Conn \cup {None}
  PROVE  IInv'
<1>1. /\ read[c] \in Nat /\ q[c] \in Nat /\ Len(sent[c]) \in Nat
      /\ read'[c] = read[c] + 1 /\ read'[c] <= Len(sent[c])
      /\ state'[c] = there /\ answered[c] \in Seq(Nat)
      /\ MaxQueries \in Nat
  BY ServerAssumption DEF IInv, TypeOK, inbox
<1>2. TypeOK'
  <2>1. read' \in [Conn -> Nat]
    BY <1>1 DEF IInv, TypeOK
  <2>2. q' = q \/ q' = [q EXCEPT ![c] = q[c] + 1]
    OBVIOUS
  <2>3. q' \in [Conn -> Nat]
    <3>1. q \in [Conn -> Nat] /\ q[c] + 1 \in Nat
      BY <1>1 DEF IInv, TypeOK
    <3>2. [q EXCEPT ![c] = q[c] + 1] \in [Conn -> Nat]
      BY <3>1
    <3> QED
      BY <2>2, <3>1, <3>2, Zenon
  <2>4. /\ state' \in [Conn -> {"none", "backlog", "first", "unpack", "handler",
                              "write", "read", "closed", "abandoned"}]
        /\ UNCHANGED <<sent, gone, answered, unread, backlog>>
    BY DEF IInv, TypeOK
  <2> QED
    BY <2>1, <2>3, <2>4 DEF IInv, TypeOK
<1>3. CInv(c) /\ Genuine(c)
  BY DEF IInv, CInv
<1>4. Genuine(c)'
  BY <1>1, <1>3 DEF Genuine
<1>5. CASE state[c] = "first"
  <2>1. /\ answered[c] = <<>> /\ read[c] = 0 /\ q[c] = 0 /\ q'[c] = 0
        /\ there \in {"unpack", "abandoned"} /\ Len(answered[c]) = 0
        /\ DOMAIN answered[c] = {}
    BY <1>3, <1>5 DEF CInv, Unserved
  <2>2. Unserved(c)' \/ there = "unpack"
    BY <1>1, <2>1 DEF Unserved
  <2>3. Working(c)' \/ there = "abandoned"
    BY <1>1, <2>1 DEF Working
  <2>4. CInv(c)'
    BY <1>1, <1>4, <2>1, <2>2, <2>3 DEF CInv
  <2>5. ASSUME NEW d \in Conn, d # c
        PROVE  CInv(d)'
    BY <1>5, <2>5, Frame DEF IInv, TypeOK
  <2> QED
    BY <1>2, <2>4, <2>5 DEF IInv
<1>6. CASE state[c] = "read"
  <2>1. Waiting(c) /\ q'[c] = q[c] + 1 /\ there \in {"unpack", "closed"}
    BY <1>3, <1>6 DEF CInv, IInv, TypeOK
  <2>2. Working(c)' \/ there = "closed"
    BY <1>1, <1>3, <1>6, <2>1 DEF Waiting, Working, Genuine
  <2>3. Len(answered[c]) <= MaxQueries + 1
    BY <1>1, <2>1 DEF Waiting
  <2>4. ~gone[c] => \A i \in 1..read[c] : Settled(c, i)
    BY <1>1, <1>3, <2>1 DEF CInv, Waiting
  <2>5. (~gone[c] => \A i \in 1..(read[c] - 1) : Settled(c, i))'
    BY <1>1, <2>4 DEF Settled
  <2>6. CInv(c)'
    BY <1>1, <1>4, <2>1, <2>2, <2>3, <2>5 DEF CInv
  <2>7. ASSUME NEW d \in Conn, d # c
        PROVE  CInv(d)'
    BY <1>6, <2>7, Frame DEF IInv, TypeOK
  <2> QED
    BY <1>2, <2>6, <2>7 DEF IInv
<1> QED
  BY <1>5, <1>6

\* The accept loop takes a connection, or its first message.
LEMMA ListenStep ==
  ASSUME IInv, ListenNext
  PROVE  IInv'
<1>1. CASE Accept
  <2> DEFINE c == Head(backlog)
  <2>1. c \in Conn /\ backlog' \in Seq(Conn)
    BY <1>1, HeadTailProperties DEF Accept, IInv, TypeOK
  <2>2. state[c] = "backlog" /\ state' = [state EXCEPT ![c] = "first"]
    BY <1>1 DEF Accept, Goto
  <2>3. Unserved(c) /\ read[c] = 0 /\ q[c] = 0
    BY <2>1, <2>2 DEF IInv, CInv, Unserved
  <2>4. listener' \in Conn
    BY <1>1, <2>1 DEF Accept
  <2>5. UNCHANGED <<sent, gone, read, q, answered, unread>>
    BY <1>1 DEF Accept, clientVars, serveVars
  <2> HIDE DEF c
  <2> QED
    BY <2>1, <2>2, <2>3, <2>4, <2>5, Move
<1>2. ASSUME NEW c \in Conn, FirstMessage(c)
      PROVE  IInv'
  <2>1. /\ inbox(c) > 0 /\ state[c] = "first"
        /\ read' = [read EXCEPT ![c] = @ + 1]
        /\ UNCHANGED <<sent, gone, answered, unread, backlog, q>>
        /\ listener' = None
    BY <1>2 DEF FirstMessage, Goto, release, clientVars
  <2>2. PICK there \in {"unpack", "abandoned"} :
               state' = [state EXCEPT ![c] = there]
    BY <1>2 DEF FirstMessage, Goto
  <2> QED
    BY <2>1, <2>2, ReadMessage
<1>3. ASSUME NEW c \in Conn, FirstTimeout(c)
      PROVE  IInv'
  <2>1. /\ state[c] = "first" /\ state' = [state EXCEPT ![c] = "abandoned"]
        /\ UNCHANGED <<sent, gone, read, q, answered, unread, backlog>>
        /\ listener' = None
    BY <1>3 DEF FirstTimeout, Goto, clientVars, serveVars
  <2>2. Unserved(c)
    BY <2>1 DEF IInv, CInv
  <2> QED
    BY <2>1, <2>2, Move DEF IInv, TypeOK
<1> QED
  BY <1>1, <1>2, <1>3 DEF ListenNext

\* An answer is written: the message is dealt with.
LEMMA WriteStep ==
  ASSUME IInv, NEW c \in Conn, Write(c)
  PROVE  IInv'
<1>1. /\ state[c] = "write" /\ state' = [state EXCEPT ![c] = "read"]
      /\ UNCHANGED <<backlog, listener, sent, gone, read, q>>
  BY DEF Write, Goto, clientVars
<1>2. Working(c) /\ Genuine(c) /\ current(c) # "reply" /\ CInv(c)
  BY <1>1 DEF IInv, CInv, Working
<1>3. /\ read[c] \in Nat /\ q[c] \in Nat /\ answered[c] \in Seq(Nat)
      /\ Len(answered[c]) \in Nat /\ MaxQueries \in Nat
  BY ServerAssumption DEF IInv, TypeOK
<1>4. CASE fails(c) /\ UNCHANGED <<answered, unread>>
  <2>1. ~gone[c] => Settled(c, read[c])
    BY <1>4 DEF fails, Settled, Silent, current
  <2>2. Waiting(c)
    BY <1>2, <1>3, <2>1 DEF Working, Waiting
  <2> QED
    BY <1>1, <1>4, <2>2, Move DEF IInv, TypeOK
<1>5. CASE /\ ~fails(c) /\ unread[c] < SendBuf
           /\ answered' = [answered EXCEPT ![c] = Append(@, read[c])]
           /\ unread' = [unread EXCEPT ![c] = @ + 1]
  <2> DEFINE s == answered[c]
             t == Append(s, read[c])
  <2>1. /\ t \in Seq(Nat) /\ Len(t) = Len(s) + 1 /\ InOrder(t)
        /\ Range(t) = Range(s) \cup {read[c]}
        /\ \A k \in DOMAIN t : t[k] = read[c] \/ (k \in DOMAIN s /\ t[k] = s[k])
    BY <1>2, <1>3, AppendInOrder DEF Working, Genuine
  <2>2. answered'[c] = t /\ \A d \in Conn : d # c => answered'[d] = answered[d]
    BY <1>5 DEF IInv, TypeOK
  <2>3. answered' \in [Conn -> Seq(Nat)]
    BY <1>5, <2>1 DEF IInv, TypeOK
  <2>4. unread' \in [Conn -> 0..SendBuf]
    <3>1. SendBuf \in Nat
      BY ServerAssumption
    <3>2. unread \in [Conn -> 0..SendBuf]
      BY DEF IInv, TypeOK
    <3>3. unread[c] + 1 \in 0..SendBuf
      BY <1>5, <3>1, <3>2
    <3> QED
      BY <1>5, <3>2, <3>3
  <2>5. TypeOK'
    BY <1>1, <2>3, <2>4 DEF IInv, TypeOK
  <2> HIDE DEF t
  <2>6. Genuine(c)'
    <3>1. read'[c] = read[c] /\ sent'[c] = sent[c] /\ InOrder(answered'[c])
      BY <1>1, <2>1, <2>2
    <3>2. ASSUME NEW k \in DOMAIN t
          PROVE  t[k] \in 1..read[c] /\ sent[c][t[k]] \notin Silent
      <4>1. CASE t[k] = read[c]
        BY <1>2, <1>3, <1>5, <4>1 DEF Working, current, fails, Silent
      <4>2. CASE k \in DOMAIN s /\ t[k] = s[k]
        BY <1>2, <4>2 DEF Genuine
      <4> QED
        BY <2>1, <4>1, <4>2
    <3> QED
      BY <1>2, <2>2, <3>1, <3>2 DEF Genuine
  <2>7. \A i \in 1..read[c] : Settled(c, i) \/ i = read[c] => Settled(c, i)'
    BY <1>1, <2>1, <2>2 DEF Settled
  <2>8. Waiting(c)'
    BY <1>1, <1>2, <1>3, <2>1, <2>2, <2>7 DEF Working, Waiting
  <2>9. CInv(c)'
    BY <1>1, <1>2, <1>3, <2>6, <2>7, <2>8 DEF CInv, IInv, TypeOK
  <2>10. ASSUME NEW d \in Conn, d # c
         PROVE  CInv(d)'
    BY <1>1, <2>2, <2>10, Frame DEF IInv, TypeOK
  <2> QED
    BY <2>5, <2>9, <2>10 DEF IInv
<1> QED
  BY <1>4, <1>5 DEF Write

\* The goroutine of a connection makes a step.
LEMMA ServeStep ==
  ASSUME IInv, NEW c \in Conn, ServeNext(c)
  PROVE  IInv'
<1>t. /\ read[c] \in Nat /\ q[c] \in Nat /\ MaxQueries \in Nat
      /\ backlog \in Seq(Conn) /\ listener \in Conn \cup {None}
      /\ Len(answered[c]) \in Nat
  BY ServerAssumption DEF IInv, TypeOK
<1>1. CASE Unpack(c)
  <2>1. /\ state[c] = "unpack"
        /\ state' = [state EXCEPT ![c] =
             IF current(c) = "bad" THEN "write"
             ELSE IF current(c) = "reply" THEN "read" ELSE "handler"]
        /\ UNCHANGED <<backlog, listener, sent, gone, read, q, answered, unread>>
    BY <1>1 DEF Unpack, clientVars, serveVars
  <2>2. Working(c)
    BY <2>1 DEF IInv, CInv
  <2>3. CASE current(c) = "reply"
    <3>1. Waiting(c)
      BY <1>t, <2>2, <2>3 DEF Working, Waiting, Settled, Silent, current
    <3> QED
      BY <1>t, <2>1, <2>3, <3>1, Move
  <2>4. CASE current(c) # "reply"
    <3>1. PICK there \in {"write", "handler"} :
                 state' = [state EXCEPT ![c] = there]
      BY <2>1, <2>4
    <3> QED
      BY <1>t, <2>1, <2>2, <2>4, <3>1, Move
  <2> QED
    BY <2>3, <2>4
<1>2. CASE Handle(c)
  <2>1. /\ state[c] = "handler" /\ state' = [state EXCEPT ![c] = "write"]
        /\ UNCHANGED <<backlog, listener, sent, gone, read, q, answered, unread>>
    BY <1>2 DEF Handle, Goto, clientVars, serveVars
  <2>2. Working(c) /\ current(c) # "reply"
    BY <2>1 DEF IInv, CInv, Working
  <2> QED
    BY <1>t, <2>1, <2>2, Move
<1>3. CASE Write(c)
  BY <1>3, WriteStep
<1>4. CASE NextMessage(c)
  <2>1. /\ inbox(c) > 0 /\ state[c] = "read"
        /\ read' = [read EXCEPT ![c] = @ + 1] /\ q' = [q EXCEPT ![c] = @ + 1]
        /\ UNCHANGED <<backlog, listener, sent, gone, answered, unread>>
    BY <1>4 DEF NextMessage, Goto, clientVars
  <2>2. PICK there \in {"unpack", "closed"} :
               /\ state' = [state EXCEPT ![c] = there]
               /\ there = "unpack" => ~tooMany(c)
    BY <1>4 DEF NextMessage, Goto
  <2>3. there = "unpack" => q[c] + 1 <= MaxQueries
    BY <1>t, <2>2 DEF tooMany
  <2> QED
    BY <1>t, <2>1, <2>2, <2>3, ReadMessage
<1>5. CASE NextTimeout(c)
  <2>1. /\ state[c] = "read" /\ state' = [state EXCEPT ![c] = "closed"]
        /\ UNCHANGED <<backlog, listener, sent, gone, read, q, answered, unread>>
    BY <1>5 DEF NextTimeout, Goto, clientVars, serveVars
  <2>2. Len(answered[c]) <= MaxQueries + 1
    BY <1>t, <2>1 DEF IInv, CInv, Waiting
  <2> QED
    BY <1>t, <2>1, <2>2, Move
<1> QED
  BY <1>1, <1>2, <1>3, <1>4, <1>5 DEF ServeNext

\* The invariant holds at the start.
LEMMA InitInv == Init => IInv
<1> SUFFICES ASSUME Init PROVE IInv
  OBVIOUS
<1>1. TypeOK
  BY ServerAssumption DEF Init, TypeOK
<1>2. ASSUME NEW c \in Conn
      PROVE  CInv(c)
  <2>1. /\ state[c] = "none" /\ sent[c] = <<>> /\ read[c] = 0 /\ q[c] = 0
        /\ answered[c] = <<>>
    BY DEF Init
  <2>2. Genuine(c) /\ Unserved(c)
    BY <2>1 DEF Genuine, Unserved, InOrder
  <2> QED
    BY <2>1, <2>2 DEF CInv
<1> QED
  BY <1>1, <1>2 DEF IInv

\* Every step preserves the invariant.
LEMMA NextInv == IInv /\ [Next]_vars => IInv'
<1> SUFFICES ASSUME IInv, [Next]_vars PROVE IInv'
  OBVIOUS
<1>1. CASE UNCHANGED vars
  <2>1. UNCHANGED <<backlog, listener, state, sent, gone, read, q, answered,
                    unread>>
    BY <1>1 DEF vars, clientVars, serveVars
  <2>2. TypeOK'
    BY <2>1 DEF IInv, TypeOK
  <2> QED
    BY <2>1, <2>2, Frame DEF IInv
<1> QED
  BY <1>1, ClientStep, ListenStep, ServeStep DEF Next

\* The invariant holds in every reachable state.
LEMMA Invariance == Spec => []IInv
BY InitInv, NextInv, PTL DEF Spec

\* The variables have their types; in particular the answers a client has not
\* read never exceed what the socket takes.
THEOREM TypeCorrect == Spec => []TypeOK
<1>1. IInv => TypeOK
  BY DEF IInv
<1> QED
  BY <1>1, Invariance, PTL

\* On every connection the answers come in the order of the questions, at most
\* one more than the limit, none to a response, and as long as the client
\* stays none is passed over but where the reply cannot be sent.
THEOREM OrderKept == Spec => []AnswersInOrder
<1>1. IInv => AnswersInOrder
  <2> SUFFICES ASSUME IInv, NEW c \in Conn
               PROVE  /\ InOrder(answered[c])
                      /\ Len(answered[c]) <= MaxQueries + 1
                      /\ \A i \in Range(answered[c]) :
                           i <= read[c] /\ sent[c][i] \notin Silent
                      /\ ~gone[c] => \A i \in 1..(read[c] - 1) :
                           sent[c][i] \in Silent \/ i \in Range(answered[c])
    BY DEF AnswersInOrder
  <2>1. /\ CInv(c) /\ Genuine(c) /\ answered[c] \in Seq(Nat)
        /\ read[c] \in Nat /\ MaxQueries \in Nat /\ q[c] \in Nat
    BY ServerAssumption DEF IInv, CInv, TypeOK
  <2>2. Len(answered[c]) <= MaxQueries + 1
    BY <2>1 DEF IInv, TypeOK, CInv, Unserved, Working, Waiting
  <2>3. \A i \in Range(answered[c]) : i <= read[c] /\ sent[c][i] \notin Silent
    BY <2>1 DEF Genuine, Range
  <2> QED
    BY <2>1, <2>2, <2>3 DEF CInv, Genuine, Settled
<1> QED
  BY <1>1, Invariance, PTL
=============================================================================
