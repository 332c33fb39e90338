------------------------------ MODULE MCFormats ------------------------------
(***************************************************************************)
(* Checks the text the agent takes apart: the names of Address, on every   *)
(* name of at most MaxLabels labels in front of one of a few suffixes, and *)
(* the parser of ConsulStats, on every output of at most MaxLines lines.   *)
(* A behaviour grows one of them, label by label or line by line.          *)
(***************************************************************************)
EXTENDS Address, ConsulStats

CONSTANTS MaxLabels, MaxLines   \* bounds

VARIABLES name, lines

MCField == {"a", "zz", "ns1", "srv", "xsrv", "io"}
MCLabel == MCField \cup {"_"}
MCNSNumber == [l \in {"ns1"} |-> 1]
MCDomain == <<"srv", "io">>

Text == [colon |-> FALSE, equals |-> FALSE, long |-> FALSE, key |-> "",
         field |-> "", value |-> ""]
HeaderLine(k) == [Text EXCEPT !.colon = TRUE, !.key = k]
FieldLine(f, v) == [Text EXCEPT !.equals = TRUE, !.field = f, !.value = v]

\* serf_wan_peers can be of two sections; the last two lines are a value
\* with a colon and a line too long
MCLine ==
  {Text, HeaderLine("build"), HeaderLine("serf"), HeaderLine("serf_wan"),
   FieldLine("wan_peers", "3"),
   FieldLine("peers", "2"), FieldLine("peers", "3"), FieldLine("peers", "never"),
   FieldLine("peers", "true"), FieldLine("state", "Leader"),
   FieldLine("revision", "9a9c"),
   [FieldLine("state", "up: 1") EXCEPT !.colon = TRUE, !.key = "state = up: 1"],
   [Text EXCEPT !.long = TRUE]}
MCParseInt == [v \in {"2", "3"} |-> IF v = "2" THEN 2 ELSE 3]

Init ==
  /\ name \in {MCDomain, <<"xsrv", "io">>, <<"srv", "_">>, <<>>}
  /\ lines = <<>>

Prepend ==
  /\ lines = <<>> /\ Len(name) < MaxLabels
  /\ \E l \in Label : name' = <<l>> \o name
  /\ UNCHANGED lines

AddLine ==
  /\ name = <<>> /\ Len(lines) < MaxLines
  /\ \E l \in Line : lines' = Append(lines, l)
  /\ UNCHANGED name

Next == Prepend \/ AddLine
Spec == Init /\ [][Next]_<<name, lines>>

\* ServeDNS recognises every name of the zone and keeps exactly the labels in
\* front of the zone, also when the zone's own labels occur among them
ZoneNamesTrimmed == InZone(name) => TrimsToRelative(name)

\* The two question formats of dns.go and the parsers behind them agree: every
\* service question makes an info, whose address is the name it came from, so
\* serviceResponse's "infoFromAddr failed" branch is never taken, and
\* parseServerQuestion takes a server question apart into a name-server label
\* and a zone, of which it loses nothing.
QuestionsParsed ==
  LET p == parseServerQuestion(name)
  IN  /\ FormatsAgree(name)
      /\ serverQuestion(name) =>
           /\ p.ns \in NSLabel \cup {None} /\ p.zone \in ZoneLabel \cup {None}
           /\ name = (IF p.ns # None THEN <<p.ns>> ELSE <<>>)
                       \o (IF p.zone # None THEN <<p.zone>> ELSE <<>>)

\* parseConsulStats gives up exactly at a line it cannot read: one too long
\* for the scanner, or a field that counts and is no number, which no ignored
\* field or section is.  Otherwise the statistics are those of the fields that
\* count, each under the name of the section it stands in, a name that occurs
\* again with its last value.
StatsParsed ==
  LET out == parseConsulStats(lines)
      bad(i) == \/ lines[i].long
                \/ \E k \in Sections(lines) :
                     counts(lines, i, k) /\ number(lines[i].value) = NoNumber
  IN /\ out.failed <=> \E i \in DOMAIN lines : bad(i)
     /\ ~out.failed =>
          out.stats = {meant(lines[p[1]], p[2]) :
                         p \in {q \in (DOMAIN lines) \X Sections(lines) :
                                  final(lines, q[1], q[2])}}
=============================================================================
