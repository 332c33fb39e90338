---------------------------- MODULE FormatsProofs ----------------------------
(***************************************************************************)
(* The properties that MCFormats checks, for every name (any labels, any   *)
(* number of them, any zone) and for every output of consul info.          *)
(***************************************************************************)
EXTENDS MCFormats, FiniteSetTheorems, WellFoundedInduction, TLAPS

-----------------------------------------------------------------------------
(* Numbers.  Induction is stated with sets, since the provers cannot       *)
(* instantiate a predicate.                                                *)

\* A set of natural numbers that is not empty has a least element.
LEMMA LeastNat ==
  ASSUME NEW D \in SUBSET Nat, D # {}
  PROVE  \E k \in D : \A j \in D : k <= j
<1>1. PICK k \in D : \A j \in D : ~(<<j, k>> \in OpToRel(<, Nat))
  BY WFMin, NatLessThanWellFounded
<1>2. \A j \in D : j \in Nat /\ k \in Nat /\ ~(j < k)
  BY <1>1 DEF OpToRel
<1>3. \A j \in D : k <= j
  BY <1>2
<1> QED
  BY <1>1, <1>3

\* One that is bounded has a greatest element, too.
LEMMA GreatestNat ==
  ASSUME NEW D \in SUBSET Nat, D # {}, NEW N \in Int, \A i \in D : i <= N
  PROVE  \E k \in D : \A j \in D : j <= k
<1> DEFINE E == {k \in Nat : N - k \in D}
<1>1. PICK i \in D : TRUE
  OBVIOUS
<1>2. N - i \in Nat /\ N - (N - i) = i
  BY <1>1
<1>3. E \subseteq Nat /\ E # {}
  BY <1>1, <1>2
<1>4. PICK k \in E : \A l \in E : k <= l
  <2> HIDE DEF E
  <2> QED
    BY <1>3, LeastNat
<1>5. ASSUME NEW j \in D
      PROVE  j <= N - k
  <2>1. N - j \in Nat /\ N - (N - j) = j /\ j \in Int
    OBVIOUS
  <2>2. N - j \in E
    BY <2>1
  <2>3. k <= N - j /\ k \in Nat
    BY <1>4, <2>2
  <2> QED
    BY <2>1, <2>3
<1> QED
  BY <1>4, <1>5

\* Induction over the natural numbers.
LEMMA NatInSet ==
  ASSUME NEW A, 0 \in A, \A n \in Nat : n \in A => n + 1 \in A
  PROVE  Nat \subseteq A
<1> DEFINE D == Nat \ A
<1>1. SUFFICES ASSUME D # {} PROVE FALSE
  OBVIOUS
<1>2. PICK k \in D : \A j \in D : k <= j
  <2>1. D \in SUBSET Nat
    OBVIOUS
  <2> HIDE DEF D
  <2> QED
    BY <1>1, <2>1, LeastNat
<1>3. k \in Nat /\ k \notin A /\ k # 0
  BY <1>2
<1>4. k - 1 \in Nat /\ ~(k <= k - 1) /\ (k - 1) + 1 = k
  BY <1>3
<1>5. k - 1 \in A
  BY <1>2, <1>4
<1> QED
  BY <1>3, <1>4, <1>5

-----------------------------------------------------------------------------
(* Names.                                                                  *)

\* ServeDNS recognises every name of the zone and keeps exactly the labels in
\* front of the zone, whatever the labels are.
THEOREM ZoneTrimmed ==
  \A n \in Name : InZone(n) => TrimsToRelative(n)
<1> SUFFICES ASSUME NEW n \in Name, InZone(n)
             PROVE  TrimsToRelative(n)
  OBVIOUS
<1> DEFINE L == Len(n) - Len(Domain)
<1>1. L \in Nat /\ Len(Domain) \in Nat /\ Len(Domain) >= 2
  BY DomainAssumption DEF InZone, Name
<1>2. hasDomainSuffix(n)
  <2>1. \A j \in 1..Len(Domain) : n[L + j] = Domain[j]
    BY DEF InZone
  <2>2. n[L + 1] = Domain[1] /\ \A j \in 2..Len(Domain) : n[L + j] = Domain[j]
    BY <1>1, <2>1
  <2> QED
    BY <1>1, <2>2 DEF hasDomainSuffix
<1>3. domainAt(n) \subseteq 1..L /\ \A j \in domainAt(n) : j <= L
  BY <1>1 DEF domainAt
<1>4. CASE L = 0
  <2>1. domainAt(n) = {}
    BY <1>3, <1>4
  <2>2. Relative(n) = <<>>
    BY <1>4 DEF Relative, Name
  <2> QED
    BY <1>2, <2>1, <2>2 DEF TrimsToRelative, trimDomain
<1>5. CASE L # 0
  <2>1. L \in domainAt(n)
    BY <1>1, <1>5 DEF domainAt, InZone
  <2>2. (CHOOSE i \in domainAt(n) : \A j \in domainAt(n) : j <= i) = L
    <3> DEFINE c == CHOOSE i \in domainAt(n) : \A j \in domainAt(n) : j <= i
    <3>1. \A j \in domainAt(n) : j <= L
      BY <1>1, <1>3
    <3>2. c \in domainAt(n) /\ \A j \in domainAt(n) : j <= c
      BY <2>1, <3>1
    <3>3. c <= L /\ L <= c /\ c \in Int
      BY <1>3, <2>1, <3>1, <3>2
    <3> HIDE DEF c
    <3>4. c = L
      BY <1>1, <3>3
    <3> QED
      BY <3>4 DEF c
  <2> QED
    BY <1>2, <2>1, <2>2 DEF TrimsToRelative, trimDomain, Relative
<1> QED
  BY <1>4, <1>5

\* The service format of dns.go and infoFromAddr accept the same names, so
\* serviceResponse never meets an address that does not parse, and an info
\* has the address it was parsed from.
THEOREM ServiceFormats ==
  \A n \in Name : FormatsAgree(n)
<1> SUFFICES ASSUME NEW n \in Name
             PROVE  FormatsAgree(n)
  OBVIOUS
<1>1. CASE serviceQuestion(n)
  <2>1. Len(n) = 5 /\ \A i \in 1..4 : n[i] \in Field
    BY <1>1 DEF serviceQuestion
  <2>2. n[5] \in ZoneLabel
    BY <1>1 DEF serviceQuestion
  <2>3. splitZone(n) = <<n[5]>>
    <3>1. n \in Seq(Label) /\ splitZone(n) = SubSeq(n, 5, 5)
      BY <2>1 DEF splitZone, Name
    <3>2. splitZone(n) = [i \in 1..1 |-> n[i + 4]]
      BY <2>1, <3>1
    <3> QED
      BY <3>2
  <2>4. infoFromAddr(n) = [service |-> n[1], job |-> n[2], env |-> n[3],
                           product |-> n[4], zone |-> n[5]]
    BY <2>1, <2>2, <2>3 DEF infoFromAddr
  <2>5. infoFromAddr(n) \in Info
    BY <2>1, <2>2, <2>4 DEF Info
  <2>6. n[5] # None
    BY <2>2, LabelAssumption
  <2>7. addr(infoFromAddr(n)) = <<n[1], n[2], n[3], n[4]>> \o <<n[5]>>
    BY <2>4, <2>6 DEF addr
  <2>8. n = <<n[1], n[2], n[3], n[4], n[5]>>
    BY <2>1 DEF Name
  <2> QED
    BY <1>1, <2>5, <2>7, <2>8, LabelAssumption DEF FormatsAgree
<1>2. CASE ~serviceQuestion(n)
  <2>1. SUFFICES infoFromAddr(n) = None
    BY <1>2 DEF FormatsAgree
  <2>2. SUFFICES ASSUME Len(n) >= 5, Len(splitZone(n)) = 1,
                        splitZone(n)[1] \in ZoneLabel,
                        \A i \in 1..4 : n[i] \in Field
                 PROVE  FALSE
    BY DEF infoFromAddr
  <2>3. Len(n) = 5
    BY <2>2 DEF splitZone, Name
  <2>4. splitZone(n)[1] = n[5]
    BY <2>3 DEF splitZone, Name
  <2> QED
    BY <1>2, <2>2, <2>3, <2>4 DEF serviceQuestion
<1> QED
  BY <1>1, <1>2

\* The zone suffix of dns.go: of a name in the zone, ServeDNS keeps exactly
\* the labels in front of the zone.
THEOREM NamesTrimmed ==
  ASSUME name \in Name
  PROVE  ZoneNamesTrimmed
BY ZoneTrimmed DEF ZoneNamesTrimmed

\* A server question is taken apart into a name-server label and a zone, and
\* the two put together again are the question.
LEMMA ServerQuestionParsed ==
  ASSUME NEW n \in Name, serverQuestion(n)
  PROVE  LET p == parseServerQuestion(n)
         IN  /\ p.ns \in NSLabel \cup {None} /\ p.zone \in ZoneLabel \cup {None}
             /\ n = (IF p.ns # None THEN <<p.ns>> ELSE <<>>)
                      \o (IF p.zone # None THEN <<p.zone>> ELSE <<>>)
<1> DEFINE p == parseServerQuestion(n)
<1>1. None \notin NSLabel /\ None \notin ZoneLabel
  BY LabelAssumption
<1>2. CASE n = <<>>
  <2>1. p = [ns |-> None, zone |-> None]
    BY <1>2 DEF parseServerQuestion
  <2> QED
    BY <1>2, <2>1
<1>3. CASE Len(n) = 1 /\ n[1] \in NSLabel
  <2>1. p = [ns |-> n[1], zone |-> None] /\ n = <<n[1]>>
    BY <1>3 DEF parseServerQuestion, Name
  <2> QED
    BY <1>1, <1>3, <2>1
<1>4. CASE Len(n) = 1 /\ n[1] \in ZoneLabel
  <2>1. p = [ns |-> None, zone |-> n[1]] /\ n = <<n[1]>>
    BY <1>4, LabelAssumption DEF parseServerQuestion, Name
  <2> QED
    BY <1>1, <1>4, <2>1
<1>5. CASE Len(n) = 2 /\ n[1] \in NSLabel /\ n[2] \in ZoneLabel
  <2>1. p = [ns |-> n[1], zone |-> n[2]] /\ n = <<n[1]>> \o <<n[2]>>
    BY <1>5 DEF parseServerQuestion, Name
  <2> QED
    BY <1>1, <1>5, <2>1
<1> QED
  BY <1>2, <1>3, <1>4, <1>5 DEF serverQuestion

\* The formats of dns.go and the parsers behind them agree on every name: no
\* service question fails in infoFromAddr, and no label of a question is lost.
THEOREM FormatsParsed ==
  ASSUME name \in Name
  PROVE  QuestionsParsed
BY ServiceFormats, ServerQuestionParsed DEF QuestionsParsed
-----------------------------------------------------------------------------
(* The loop of parseConsulStats.  FoldLeft is a recursion over the subsets *)
(* of the line numbers; it has a solution, by induction over their size,   *)
(* and on the sets 1..n the solution is the state after n lines.           *)

turn(g, ls, s) ==
  IF s = {} THEN start ELSE readLine(g[s \ {Max(s)}], ls[Max(s)])
isRun(g, ls) == g = [s \in SUBSET DOMAIN ls |-> turn(g, ls, s)]

\* What FoldLeft stands for.
LEMMA FoldUnfolds ==
  ASSUME NEW ls
  PROVE  parseConsulStats(ls) = (CHOOSE g : isRun(g, ls))[DOMAIN ls]
BY DEF parseConsulStats, FoldLeft, MapThenFoldSet, isRun, turn

\* The last of some line numbers.
LEMMA MaxLine ==
  ASSUME NEW n \in Nat, NEW s \in SUBSET (1..n), s # {}
  PROVE  Max(s) \in s /\ \A j \in s : j <= Max(s)
<1>1. s \in SUBSET Nat /\ (\A i \in s : i <= n) /\ n \in Int
  OBVIOUS
<1>2. \E k \in s : \A j \in s : k >= j
  <2>1. PICK k \in s : \A j \in s : j <= k
    BY <1>1, GreatestNat
  <2> QED
    BY <1>1, <2>1
<1>3. Max(s) \in s /\ \A j \in s : Max(s) >= j
  BY <1>2 DEF Max
<1> QED
  BY <1>1, <1>3

\* Taking the last line number away leaves a smaller set.
LEMMA FewerLines ==
  ASSUME NEW n \in Nat, NEW s \in SUBSET (1..n), s # {}
  PROVE  /\ s \ {Max(s)} \in SUBSET (1..n)
         /\ Cardinality(s) \in Nat /\ Cardinality(s \ {Max(s)}) = Cardinality(s) - 1
<1>1. IsFiniteSet(1..n)
  BY FS_Interval
<1>2. IsFiniteSet(s)
  BY <1>1, FS_Subset
<1> QED
  BY <1>2, MaxLine, FS_RemoveElement, FS_CardinalityType

\* The recursion has a solution.
LEMMA RunExists ==
  ASSUME NEW ls \in Seq(Line)
  PROVE  \E g : isRun(g, ls)
<1> DEFINE D == SUBSET DOMAIN ls
           A == {n \in Nat : \E g : \A s \in D :
                   Cardinality(s) < n => g[s] = turn(g, ls, s)}
<1>1. Len(ls) \in Nat /\ DOMAIN ls = 1..Len(ls)
  OBVIOUS
<1>2. \A s \in D : Cardinality(s) \in Nat /\ Cardinality(s) <= Len(ls)
  <2>1. IsFiniteSet(1..Len(ls)) /\ Cardinality(1..Len(ls)) = Len(ls)
    BY <1>1, FS_Interval
  <2> QED
    BY <1>1, <2>1, FS_Subset, FS_CardinalityType
<1>3. 0 \in A
  <2>1. \A s \in D : ~(Cardinality(s) < 0)
    BY <1>2
  <2> QED
    BY <2>1
<1>4. ASSUME NEW n \in Nat, n \in A
      PROVE  n + 1 \in A
  <2>1. PICK g : \A s \in D : Cardinality(s) < n => g[s] = turn(g, ls, s)
    BY <1>4
  <2> DEFINE h == [s \in D |-> IF Cardinality(s) < n THEN g[s] ELSE turn(g, ls, s)]
  <2>2. ASSUME NEW s \in D, Cardinality(s) < n + 1
        PROVE  h[s] = turn(h, ls, s)
    <3>1. h[s] = turn(g, ls, s)
      BY <2>1
    <3>2. CASE s = {}
      BY <3>1, <3>2 DEF turn
    <3>3. CASE s # {}
      <4> DEFINE t == s \ {Max(s)}
      <4>1. t \in D /\ Cardinality(t) < n
        <5>1. s \in SUBSET (1..Len(ls))
          BY <1>1
        <5>2. /\ t \in SUBSET (1..Len(ls))
              /\ Cardinality(s) \in Nat /\ Cardinality(t) = Cardinality(s) - 1
          BY <1>1, <3>3, <5>1, FewerLines
        <5> QED
          BY <1>1, <2>2, <5>2
      <4>2. h[t] = g[t]
        BY <4>1
      <4> HIDE DEF h
      <4> QED
        BY <3>1, <3>3, <4>2 DEF turn
    <3> QED
      BY <3>2, <3>3
  <2> HIDE DEF h
  <2> QED
    BY <2>2
<1>5. Len(ls) + 1 \in A
  <2>1. Len(ls) + 1 \in Nat
    BY <1>1
  <2> HIDE DEF A
  <2>2. Nat \subseteq A
    BY <1>3, <1>4, NatInSet
  <2> QED
    BY <2>1, <2>2
<1>6. PICK g : \A s \in D : Cardinality(s) < Len(ls) + 1 => g[s] = turn(g, ls, s)
  BY <1>5
<1>7. \A s \in D : g[s] = turn(g, ls, s)
  BY <1>1, <1>2, <1>6
<1> DEFINE h == [s \in D |-> g[s]]
<1>8. \A s \in D : turn(h, ls, s) = g[s]
  <2> TAKE s \in D
  <2>1. CASE s = {}
    BY <1>7, <2>1 DEF turn
  <2>2. CASE s # {}
    <3>1. s \ {Max(s)} \in D
      BY <1>1, <2>2, FewerLines
    <3>2. h[s \ {Max(s)}] = g[s \ {Max(s)}]
      BY <3>1
    <3> HIDE DEF h
    <3> QED
      BY <1>7, <2>2, <3>2 DEF turn
  <2> QED
    BY <2>1, <2>2
<1>9. h = [s \in D |-> turn(h, ls, s)]
  <2>1. [s \in D |-> turn(h, ls, s)] = [s \in D |-> g[s]]
    BY <1>8
  <2> QED
    BY <2>1
<1> QED
  BY <1>9 DEF isRun

\* parseConsulStats is a loop: from start, one readLine for every line.
LEMMA LoopStates ==
  ASSUME NEW ls \in Seq(Line)
  PROVE  \E st : /\ st[0] = start /\ parseConsulStats(ls) = st[Len(ls)]
                 /\ \A n \in Nat : n < Len(ls) => st[n + 1] = readLine(st[n], ls[n + 1])
<1>1. Len(ls) \in Nat /\ DOMAIN ls = 1..Len(ls)
  OBVIOUS
<1>2. PICK g : isRun(g, ls) /\ parseConsulStats(ls) = g[1..Len(ls)]
  BY <1>1, RunExists, FoldUnfolds
<1>3. \A s \in SUBSET (1..Len(ls)) : g[s] = turn(g, ls, s)
  BY <1>1, <1>2 DEF isRun
<1> DEFINE st == [n \in Nat |-> g[1..n]]
<1>4. st[0] = start
  <2>1. 1..0 = {} /\ {} \in SUBSET (1..Len(ls))
    OBVIOUS
  <2> QED
    BY <1>3, <2>1 DEF turn
<1>5. ASSUME NEW n \in Nat, n < Len(ls)
      PROVE  st[n + 1] = readLine(st[n], ls[n + 1])
  <2> DEFINE s == 1..(n + 1)
  <2>1. s \in SUBSET (1..Len(ls)) /\ s # {} /\ n + 1 \in s
    <3>1. n + 1 \in s
      OBVIOUS
    <3>2. \A j \in s : j \in 1..Len(ls)
      BY <1>1, <1>5
    <3> QED
      BY <3>1, <3>2
  <2>2. Max(s) = n + 1
    <3>1. Max(s) \in s /\ \A j \in s : j <= Max(s)
      BY <1>1, <2>1, MaxLine
    <3>2. n + 1 <= Max(s) /\ Max(s) \in Nat /\ Max(s) <= n + 1
      BY <2>1, <3>1
    <3> QED
      BY <3>2
  <2>3. s \ {Max(s)} = 1..n
    BY <2>2
  <2>4. g[s] = readLine(g[1..n], ls[n + 1])
    BY <1>3, <2>1, <2>2, <2>3 DEF turn
  <2>5. st[n + 1] = g[s] /\ st[n] = g[1..n]
    OBVIOUS
  <2> QED
    BY <2>4, <2>5
<1>6. st[Len(ls)] = g[1..Len(ls)]
  BY <1>1
<1> HIDE DEF st
<1> QED
  BY <1>2, <1>4, <1>5, <1>6

-----------------------------------------------------------------------------
(* The loop's invariant: after n lines it is in the section of line n, has *)
(* met no line it cannot read, and holds the last values of the fields     *)
(* among those n lines.                                                    *)

unreadableAt(ls, i) ==
  \/ ls[i].long
  \/ \E k \in Sections(ls) : counts(ls, i, k) /\ number(ls[i].value) = NoNumber

\* no line after i and up to n has the statistic of line i
lastUpTo(ls, n, i, k) ==
  /\ counts(ls, i, k)
  /\ \A j \in (i + 1)..n : \A c \in Sections(ls) :
       counts(ls, j, c) => meant(ls[j], c).name # meant(ls[i], k).name

isStat(ls, n, r) ==
  \E i \in 1..n : \E k \in Sections(ls) : r = meant(ls[i], k) /\ lastUpTo(ls, n, i, k)

LoopInv(ls, n, st) ==
  /\ st.failed \in BOOLEAN
  /\ st.failed <=> \E i \in 1..n : unreadableAt(ls, i)
  /\ ~st.failed =>
       /\ st.key \in Sections(ls)
       /\ \A k : inSection(ls, n, k) <=> k = st.key
       /\ \A r : r \in st.stats <=> isStat(ls, n, r)

\* The section of the next line is its own, or that of the line above.
LEMMA NextSection ==
  ASSUME NEW ls \in Seq(Line), NEW n \in Nat, n < Len(ls), NEW k
  PROVE  inSection(ls, n + 1, k) <=>
           IF ls[n + 1].colon THEN k = ls[n + 1].key ELSE inSection(ls, n, k)
<1>1. CASE ls[n + 1].colon
  <2>1. n + 1 \in 1..(n + 1) /\ (n + 1) + 1 .. (n + 1) = {}
    OBVIOUS
  <2>2. ASSUME NEW h \in 1..(n + 1), \A j \in (h + 1)..(n + 1) : ~ls[j].colon
        PROVE  h = n + 1
    <3>1. h # n + 1 => n + 1 \in (h + 1)..(n + 1)
      OBVIOUS
    <3> QED
      BY <1>1, <2>2, <3>1
  <2>3. inSection(ls, n + 1, k) => k = ls[n + 1].key
    BY <1>1, <2>1, <2>2 DEF inSection
  <2>4. k = ls[n + 1].key => inSection(ls, n + 1, k)
    BY <1>1, <2>1 DEF inSection
  <2> QED
    BY <1>1, <2>3, <2>4
<1>2. CASE ~ls[n + 1].colon
  <2>1. \A h \in 1..n : h \in 1..(n + 1) /\ (h + 1)..(n + 1) = ((h + 1)..n) \cup {n + 1}
    OBVIOUS
  <2>2. 1..(n + 1) = (1..n) \cup {n + 1}
    OBVIOUS
  <2>3. (\A j \in 1..(n + 1) : ~ls[j].colon) <=> (\A j \in 1..n : ~ls[j].colon)
    BY <1>2, <2>2
  <2>4. \A h \in 1..n : (\A j \in (h + 1)..(n + 1) : ~ls[j].colon)
                        <=> (\A j \in (h + 1)..n : ~ls[j].colon)
    BY <1>2, <2>1
  <2>5. (\E h \in 1..(n + 1) : /\ ls[h].colon /\ ls[h].key = k
                               /\ \A j \in (h + 1)..(n + 1) : ~ls[j].colon)
        <=> (\E h \in 1..n : /\ ls[h].colon /\ ls[h].key = k
                             /\ \A j \in (h + 1)..n : ~ls[j].colon)
    BY <1>2, <2>2, <2>4
  <2> QED
    BY <1>2, <2>3, <2>5 DEF inSection
<1> QED
  BY <1>1, <1>2

\* A line that does not count changes no statistic.
LEMMA StatsKept ==
  ASSUME NEW ls \in Seq(Line), NEW n \in Nat, n < Len(ls), NEW r,
         \A k \in Sections(ls) : ~counts(ls, n + 1, k)
  PROVE  isStat(ls, n + 1, r) <=> isStat(ls, n, r)
<1>1. 1..(n + 1) = (1..n) \cup {n + 1}
  OBVIOUS
<1>2. \A i \in 1..n : (i + 1)..(n + 1) = ((i + 1)..n) \cup {n + 1}
  OBVIOUS
<1>3. ASSUME NEW i \in 1..n, NEW k \in Sections(ls)
      PROVE  lastUpTo(ls, n + 1, i, k) <=> lastUpTo(ls, n, i, k)
  BY <1>2 DEF lastUpTo
<1>4. \A k \in Sections(ls) : ~lastUpTo(ls, n + 1, n + 1, k)
  BY DEF lastUpTo
<1> QED
  BY <1>1, <1>3, <1>4 DEF isStat

\* A line that counts replaces the value of its name.
LEMMA StatsReplaced ==
  ASSUME NEW ls \in Seq(Line), NEW n \in Nat, n < Len(ls), NEW r,
         NEW c \in Sections(ls), counts(ls, n + 1, c),
         \A k : inSection(ls, n + 1, k) => k = c
  PROVE  isStat(ls, n + 1, r) <=>
           \/ isStat(ls, n, r) /\ r.name # meant(ls[n + 1], c).name
           \/ r = meant(ls[n + 1], c)
<1>1. 1..(n + 1) = (1..n) \cup {n + 1} /\ (n + 1) + 1 .. (n + 1) = {}
  OBVIOUS
<1>2. \A i \in 1..n : (i + 1)..(n + 1) = ((i + 1)..n) \cup {n + 1}
  OBVIOUS
<1>3. \A k : counts(ls, n + 1, k) <=> k = c
  BY DEF counts
<1>4. ASSUME NEW i \in 1..n, NEW k \in Sections(ls)
      PROVE  lastUpTo(ls, n + 1, i, k) <=>
               lastUpTo(ls, n, i, k) /\ meant(ls[n + 1], c).name # meant(ls[i], k).name
  BY <1>2, <1>3 DEF lastUpTo
<1>5. \A k \in Sections(ls) : lastUpTo(ls, n + 1, n + 1, k) <=> k = c
  BY <1>1, <1>3 DEF lastUpTo
<1>6. isStat(ls, n + 1, r) <=>
        \/ \E i \in 1..n : \E k \in Sections(ls) :
             r = meant(ls[i], k) /\ lastUpTo(ls, n + 1, i, k)
        \/ \E k \in Sections(ls) :
             r = meant(ls[n + 1], k) /\ lastUpTo(ls, n + 1, n + 1, k)
  BY <1>1 DEF isStat
<1>7. (\E k \in Sections(ls) :
         r = meant(ls[n + 1], k) /\ lastUpTo(ls, n + 1, n + 1, k))
      <=> r = meant(ls[n + 1], c)
  BY <1>5
<1>8. (\E i \in 1..n : \E k \in Sections(ls) :
         r = meant(ls[i], k) /\ lastUpTo(ls, n + 1, i, k))
      <=> isStat(ls, n, r) /\ r.name # meant(ls[n + 1], c).name
  BY <1>4 DEF isStat
<1> QED
  BY <1>6, <1>7, <1>8

\* The invariant holds before the first line.
LEMMA LoopStarts ==
  ASSUME NEW ls \in Seq(Line)
  PROVE  LoopInv(ls, 0, start)
<1>1. 1..0 = {}
  OBVIOUS
<1>2. /\ start.failed = FALSE /\ start.key = "" /\ start.stats = {}
  BY DEF start
<1>3. \A k : inSection(ls, 0, k) <=> k = ""
  BY <1>1 DEF inSection
<1>4. \A r : ~isStat(ls, 0, r)
  BY <1>1 DEF isStat
<1> QED
  BY <1>1, <1>2, <1>3, <1>4 DEF LoopInv, Sections

\* One turn preserves it.
LEMMA LoopTurns ==
  ASSUME NEW ls \in Seq(Line), NEW n \in Nat, n < Len(ls), NEW st,
         LoopInv(ls, n, st)
  PROVE  LoopInv(ls, n + 1, readLine(st, ls[n + 1]))
<1> DEFINE l == ls[n + 1]
           c == nextKey(st.key, l)
           new == readLine(st, l)
<1>1. 1..(n + 1) = (1..n) \cup {n + 1} /\ n + 1 \in 1..(n + 1) /\ n + 1 \in DOMAIN ls
  OBVIOUS
<1>2. CASE st.failed
  <2>1. new = st
    BY <1>2 DEF readLine
  <2>2. \E i \in 1..(n + 1) : unreadableAt(ls, i)
    BY <1>1, <1>2 DEF LoopInv
  <2> QED
    BY <1>2, <2>1, <2>2 DEF LoopInv
<1>3. CASE ~st.failed
  <2>1. /\ st.key \in Sections(ls) /\ \A k : inSection(ls, n, k) <=> k = st.key
        /\ \A r : r \in st.stats <=> isStat(ls, n, r)
        /\ \A i \in 1..n : ~unreadableAt(ls, i)
    BY <1>3 DEF LoopInv
  <2>2. c \in Sections(ls) /\ \A k : inSection(ls, n + 1, k) <=> k = c
    <3>1. l.key \in Sections(ls)
      BY <1>1 DEF Sections
    <3> QED
      BY <2>1, <3>1, NextSection DEF nextKey
  <2>3. \A k : counts(ls, n + 1, k) <=> k = c /\ ~skipped(c, l)
    BY <2>2 DEF counts
  <2>4. unreadableAt(ls, n + 1) <=> unreadable(c, l)
    BY <2>2, <2>3 DEF unreadableAt, unreadable
  <2>5. (\E i \in 1..(n + 1) : unreadableAt(ls, i)) <=> unreadable(c, l)
    BY <1>1, <2>1, <2>4
  <2>6. CASE unreadable(c, l)
    <3>1. new = [st EXCEPT !.failed = TRUE]
      BY <1>3, <2>6 DEF readLine
    <3> QED
      BY <2>5, <2>6, <3>1 DEF LoopInv
  <2>7. CASE ~unreadable(c, l)
    <3>1. /\ new.key = c /\ new.failed = FALSE
          /\ new.stats = IF skipped(c, l) THEN st.stats
                         ELSE put(st.stats, join(c, l.field), number(l.value))
      BY <1>3, <2>7 DEF readLine
    <3>2. CASE skipped(c, l)
      <4>1. \A r : isStat(ls, n + 1, r) <=> isStat(ls, n, r)
        BY <2>3, <3>2, StatsKept
      <4> HIDE DEF new, c, l
      <4>2. LoopInv(ls, n + 1, new)
        BY <2>1, <2>2, <2>5, <2>7, <3>1, <3>2, <4>1 DEF LoopInv
      <4> QED
        BY <4>2 DEF new, l
    <3>3. CASE ~skipped(c, l)
      <4>1. /\ meant(l, c).name = join(c, l.field)
            /\ meant(l, c) = [name |-> join(c, l.field), value |-> number(l.value)]
        BY DEF meant
      <4>2. \A r : isStat(ls, n + 1, r) <=>
                     \/ isStat(ls, n, r) /\ r.name # meant(l, c).name
                     \/ r = meant(l, c)
        <5>1. counts(ls, n + 1, c)
          BY <2>3, <3>3
        <5>2. \A k : inSection(ls, n + 1, k) => k = c
          BY <2>2
        <5>3. c \in Sections(ls)
          BY <2>2
        <5> HIDE DEF c
        <5> QED
          BY <5>1, <5>2, <5>3, StatsReplaced
      <4>3. \A r : r \in new.stats <=>
                     \/ r \in st.stats /\ r.name # join(c, l.field)
                     \/ r = [name |-> join(c, l.field), value |-> number(l.value)]
        BY <3>1, <3>3 DEF put
      <4> HIDE DEF new, c, l
      <4>4. \A r : r \in new.stats <=> isStat(ls, n + 1, r)
        BY <2>1, <4>1, <4>2, <4>3
      <4>5. LoopInv(ls, n + 1, new)
        BY <2>2, <2>5, <2>7, <3>1, <4>4 DEF LoopInv
      <4> QED
        BY <4>5 DEF new, l
    <3> QED
      BY <3>2, <3>3
  <2> QED
    BY <2>6, <2>7
<1> QED
  BY <1>2, <1>3 DEF LoopInv

\* It holds of what parseConsulStats returns.
LEMMA LoopEnds ==
  ASSUME NEW ls \in Seq(Line)
  PROVE  LoopInv(ls, Len(ls), parseConsulStats(ls))
<1>1. PICK st : /\ st[0] = start /\ parseConsulStats(ls) = st[Len(ls)]
                /\ \A n \in Nat : n < Len(ls) => st[n + 1] = readLine(st[n], ls[n + 1])
  BY LoopStates
<1> DEFINE A == {n \in Nat : n <= Len(ls) => LoopInv(ls, n, st[n])}
<1>2. Len(ls) \in Nat
  OBVIOUS
<1>3. 0 \in A
  BY <1>1, LoopStarts
<1>4. ASSUME NEW n \in Nat, n \in A PROVE n + 1 \in A
  <2>1. CASE n < Len(ls)
    <3>1. LoopInv(ls, n, st[n])
      BY <1>2, <1>4, <2>1
    <3>2. LoopInv(ls, n + 1, st[n + 1])
      BY <1>1, <2>1, <3>1, LoopTurns
    <3> QED
      BY <3>2
  <2>2. CASE ~(n < Len(ls))
    BY <1>2, <2>2
  <2> QED
    BY <2>1, <2>2
<1>5. Len(ls) \in A
  <2> HIDE DEF A
  <2> QED
    BY <1>2, <1>3, <1>4, NatInSet
<1> QED
  BY <1>1, <1>2, <1>5

\* parseConsulStats gives up exactly at a line it cannot read, and otherwise
\* returns the last value of every field that counts, under the name of its
\* section: for outputs of any length, whatever ParseInt takes for a number.
THEOREM OutputsParsed ==
  ASSUME lines \in Seq(Line)
  PROVE  StatsParsed
<1> DEFINE out == parseConsulStats(lines)
           finals == {q \in (DOMAIN lines) \X Sections(lines) :
                        final(lines, q[1], q[2])}
<1>1. LoopInv(lines, Len(lines), out)
  BY LoopEnds
<1>2. DOMAIN lines = 1..Len(lines)
  OBVIOUS
<1>3. out.failed <=> \E i \in DOMAIN lines : unreadableAt(lines, i)
  BY <1>1, <1>2 DEF LoopInv
<1>4. ASSUME ~out.failed
      PROVE  out.stats = {meant(lines[p[1]], p[2]) : p \in finals}
  <2>1. \A i \in DOMAIN lines : \A k \in Sections(lines) :
          final(lines, i, k) <=> lastUpTo(lines, Len(lines), i, k)
    BY DEF final, lastUpTo
  <2>2. \A r : r \in out.stats <=> isStat(lines, Len(lines), r)
    BY <1>1, <1>4 DEF LoopInv
  <2>3. \A r : isStat(lines, Len(lines), r) <=>
                 \E i \in DOMAIN lines : \E k \in Sections(lines) :
                   r = meant(lines[i], k) /\ final(lines, i, k)
    BY <1>2, <2>1 DEF isStat
  <2>4. \A r : r \in {meant(lines[p[1]], p[2]) : p \in finals} <=>
                 \E i \in DOMAIN lines : \E k \in Sections(lines) :
                   r = meant(lines[i], k) /\ final(lines, i, k)
    <3> TAKE r
    <3>1. ASSUME NEW p \in finals, r = meant(lines[p[1]], p[2])
          PROVE  \E i \in DOMAIN lines : \E k \in Sections(lines) :
                   r = meant(lines[i], k) /\ final(lines, i, k)
      BY <3>1
    <3>2. ASSUME NEW i \in DOMAIN lines, NEW k \in Sections(lines),
                 r = meant(lines[i], k), final(lines, i, k)
          PROVE  \E p \in finals : r = meant(lines[p[1]], p[2])
      <4>1. <<i, k>> \in finals /\ <<i, k>>[1] = i /\ <<i, k>>[2] = k
        BY <3>2
      <4> QED
        BY <3>2, <4>1
    <3> QED
      BY <3>1, <3>2
  <2> HIDE DEF out, finals
  <2> QED
    BY <2>2, <2>3, <2>4
<1> HIDE DEF out
<1> QED
  BY <1>3, <1>4 DEF StatsParsed, unreadableAt, out
=============================================================================
