----------------------------- MODULE ConsulStats -----------------------------
(***************************************************************************)
(* parseConsulStats (agent/instrumentation.go): the output of              *)
(* "consul info", read line by line.                                       *)
(*                                                                         *)
(*   build:                    a line with a colon begins a section        *)
(*        revision = 9a9cc934  a line with an equals sign is a field       *)
(*   raft:                                                                 *)
(*        num_peers = 2        the statistic raft_num_peers                *)
(*        last_contact = never                                             *)
(*                                                                         *)
(* A line is a record of what the parser asks of it.                       *)
(***************************************************************************)
EXTENDS Integers, Sequences, SequencesExt

CONSTANTS
  Line,       \* the lines of an output: see LineType
  ParseInt,   \* strconv.ParseInt where it succeeds: [text -> Int]
  NoNumber    \* what it returns otherwise

ignoredFields == {"arch", "os", "state", "version", "last_contact"}
ignoredKeys == {"build"}

\* key is the text of the line without a final colon; field and value are of
\* a line with an equals sign; a long line does not fit the scanner's buffer
LineType == [colon : BOOLEAN, equals : BOOLEAN, long : BOOLEAN,
             key : STRING, field : STRING, value : STRING]

ASSUME ConsulStatsAssumption ==
  /\ Line \subseteq LineType
  /\ DOMAIN ParseInt \subseteq STRING
  /\ \A v \in DOMAIN ParseInt : ParseInt[v] \in Int
  /\ NoNumber \notin Int

-----------------------------------------------------------------------------
(* The loop, over a record of its locals: the section, the statistics so   *)
(* far as a set of names and values, and whether it returned an error.     *)

start == [key |-> "", stats |-> {}, failed |-> FALSE]

number(v) ==
  IF v = "true" THEN 1 ELSE IF v \in {"false", "never"} THEN 0
  ELSE IF v \in DOMAIN ParseInt THEN ParseInt[v] ELSE NoNumber

nextKey(key, l) == IF l.colon THEN l.key ELSE key

\* the name of a statistic
join(key, field) == key \o "_" \o field

\* assignment to a map: the last value of a name stays
put(stats, name, value) ==
  {r \in stats : r.name # name} \cup {[name |-> name, value |-> value]}

skipped(key, l) == key \in ignoredKeys \/ ~l.equals \/ l.field \in ignoredFields

\* mutant: a value is parsed before its section and field are looked at
unreadable_Early(key, l) == l.long \/ (l.equals /\ number(l.value) = NoNumber)

\* the scanner's error, or that of ParseInt
unreadable(key, l) ==
  l.long \/ (~skipped(key, l) /\ number(l.value) = NoNumber)

\* one turn of the loop
readLine(st, l) ==
  LET key == nextKey(st.key, l)
  IN IF st.failed THEN st
     ELSE IF unreadable(key, l) THEN [st EXCEPT !.failed = TRUE]
     ELSE [key |-> key, failed |-> FALSE,
           stats |-> IF skipped(key, l) THEN st.stats
                     ELSE put(st.stats, join(key, l.field), number(l.value))]

parseConsulStats(lines) == FoldLeft(readLine, start, lines)

-----------------------------------------------------------------------------
(* What an output means, told without the loop.                            *)

\* the section of line i: that of the last line with a colon at or above it,
\* so that a field whose value has a colon is of a section of its own
inSection(lines, i, key) ==
  \/ \E h \in 1..i : /\ lines[h].colon /\ lines[h].key = key
                     /\ \A j \in (h + 1)..i : ~lines[j].colon
  \/ key = "" /\ \A j \in 1..i : ~lines[j].colon

counts(lines, i, key) == inSection(lines, i, key) /\ ~skipped(key, lines[i])

Sections(lines) == {""} \cup {lines[i].key : i \in DOMAIN lines}
meant(l, key) == [name |-> join(key, l.field), value |-> number(l.value)]

\* the last of the lines for a statistic
final(lines, i, key) ==
  /\ counts(lines, i, key)
  /\ \A j \in (i + 1)..Len(lines) : \A k \in Sections(lines) :
       counts(lines, j, k) =>
         meant(lines[j], k).name # meant(lines[i], key).name
=============================================================================
