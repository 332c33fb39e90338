------------------------------- MODULE Address -------------------------------
(***************************************************************************)
(* Names and service addresses: how agent/dns.go takes the DNS zone off a  *)
(* question name and tells service questions from name-server questions,   *)
(* and how agent/types.go turns a name into an info.                       *)
(*                                                                         *)
(* A name is the sequence of its labels.  What the regular expressions can *)
(* tell apart is which classes a label belongs to; the classes are the     *)
(* constants below.  The empty string that the code uses for "no label" is *)
(* None, and so is the info of an address that does not parse.             *)
(***************************************************************************)
EXTENDS Integers, Sequences

CONSTANTS
  Label,      \* every label a question can contain
  Field,      \* the labels matching [[:alnum:]\-]+
  ZoneLabel,  \* the labels matching [[:alnum:]]{2}
  NSLabel,    \* the labels matching ns[0-9]+
  NSNumber,   \* the number in an NSLabel, of any size
  Domain,     \* the labels of -dns.zone
  Glued,      \* the labels whose text properly ends in that of Domain[1]
  MaxInt,     \* the largest int of the build
  None

Info == [service : Field, job : Field, env : Field, product : Field,
         zone : ZoneLabel]

ASSUME LabelAssumption ==
  /\ ZoneLabel \subseteq Field /\ NSLabel \subseteq Field
  /\ Field \subseteq Label /\ Glued \subseteq Label
  /\ ZoneLabel \cap NSLabel = {}
  /\ NSNumber \in [NSLabel -> Nat]
  /\ MaxInt \in Nat
  /\ None \notin Label /\ None \notin Info

\* main refuses a zone that is not at least two labels (rDNSZone)
ASSUME DomainAssumption ==
  /\ Domain \in Seq(Label) /\ Len(Domain) >= 2
  /\ Domain[1] \notin Glued

Name == Seq(Label)
QType == {"A", "SRV", "NS", "other"}

-----------------------------------------------------------------------------
(* The zone suffix.                                                        *)

\* strings.HasSuffix(q.Name, h.domain): a comparison of text, so the first
\* label of the domain may be the tail of a longer label
hasDomainSuffix(n) ==
  LET k == Len(n) - Len(Domain)
  IN  /\ k >= 0
      /\ n[k + 1] \in {Domain[1]} \cup Glued
      /\ \A i \in 2..Len(Domain) : n[k + i] = Domain[i]

\* where "." + h.domain occurs in the name, anywhere, after at least a label
domainAt(n) ==
  {i \in 1..(Len(n) - Len(Domain)) :
      \A j \in 1..Len(Domain) : n[i + j] = Domain[j]}

\* mutant: cuts at the first occurrence (strings.Index)
trimDomain_First(n) ==
  IF domainAt(n) = {} THEN <<>>
  ELSE SubSeq(n, 1, CHOOSE i \in domainAt(n) : \A j \in domainAt(n) : i <= j)

\* the name with everything from the last such occurrence on cut off
trimDomain(n) ==
  IF domainAt(n) = {} THEN <<>>
  ELSE SubSeq(n, 1, CHOOSE i \in domainAt(n) : \A j \in domainAt(n) : j <= i)

-----------------------------------------------------------------------------
(* The two question formats.                                               *)

\* mutant: the zone label is only required to be a field
serviceQuestion_LongZone(name) ==
  /\ Len(name) = 5
  /\ \A i \in 1..5 : name[i] \in Field

serviceQuestion(name) ==
  /\ Len(name) = 5
  /\ \A i \in 1..4 : name[i] \in Field
  /\ name[5] \in ZoneLabel

serverQuestion(name) ==
  \/ name = <<>>
  \/ Len(name) = 1 /\ name[1] \in NSLabel \cup ZoneLabel
  \/ Len(name) = 2 /\ name[1] \in NSLabel /\ name[2] \in ZoneLabel

\* the pair (nameserver, zone)
parseServerQuestion(name) ==
  IF Len(name) = 1 /\ name[1] \in NSLabel
  THEN [ns |-> name[1], zone |-> None]
  ELSE IF Len(name) = 1 THEN [ns |-> None, zone |-> name[1]]
  ELSE IF Len(name) = 2 THEN [ns |-> name[1], zone |-> name[2]]
  ELSE [ns |-> None, zone |-> None]

-----------------------------------------------------------------------------
(* Service addresses.                                                      *)

\* SplitN(addr, ".", 5) leaves everything after the fourth dot in the zone
splitZone(a) == SubSeq(a, 5, Len(a))

infoFromAddr(a) ==
  IF /\ Len(a) >= 5
     /\ Len(splitZone(a)) = 1 /\ splitZone(a)[1] \in ZoneLabel
     /\ \A i \in 1..4 : a[i] \in Field
  THEN [service |-> a[1], job |-> a[2], env |-> a[3], product |-> a[4],
        zone |-> splitZone(a)[1]]
  ELSE None

addr(i) ==
  <<i.service, i.job, i.env, i.product>>
    \o (IF i.zone # None THEN <<i.zone>> ELSE <<>>)

-----------------------------------------------------------------------------
(* Reference definitions.                                                  *)

\* the names the zone really contains: label by label, at the end
InZone(n) ==
  /\ Len(n) >= Len(Domain)
  /\ \A j \in 1..Len(Domain) : n[Len(n) - Len(Domain) + j] = Domain[j]

Relative(n) == SubSeq(n, 1, Len(n) - Len(Domain))

\* The zone is recognised in n and exactly the labels in front of it are kept.
TrimsToRelative(n) == hasDomainSuffix(n) /\ trimDomain(n) = Relative(n)

\* The service format and the parser agree on n, and the parser loses nothing.
FormatsAgree(n) ==
  LET i == infoFromAddr(n)
  IN  /\ serviceQuestion(n) <=> i # None
      /\ i # None => i \in Info /\ addr(i) = n
=============================================================================
