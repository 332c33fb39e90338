--------------------------------- MODULE Wire ---------------------------------
(***************************************************************************)
(* How a reply becomes bytes and bytes become a message: the domain names  *)
(* of Msg.PackBuffer and Msg.Unpack with their compression, and the        *)
(* address of an A record (msg.go of the DNS library).                     *)
(*                                                                         *)
(* A name is a sequence of labels, a label a sequence of bytes.  The radix *)
(* B of a byte is a parameter (256): the top quarter of the values marks a *)
(* pointer, the bottom quarter a length, so a label is shorter than B / 4  *)
(* and a pointer less than B / 4 * B.  Of the other fields of a record     *)
(* only the length of its data is kept, in two cells.                      *)
(***************************************************************************)
EXTENDS Naturals, Sequences, SequencesExt

CONSTANTS
  B, dot,      \* the radix, and the byte of a dot in a label
  Header,      \* cells before the question
  PtrLimit,    \* pointers that UnpackDomainName follows, 10 in the code
  Replies,     \* what the agent packs: [question, answers, truncated]
  Messages     \* what it receives: sequences of bytes

Byte == 0 .. B - 1
Label == Seq(Byte) \ {<<>>}
Name == Seq(Label)

\* the last four bytes of an address, here one; nil
noIP == [family |-> 0, last |-> 0]
Answer == [type : {"A"}, ip : [family : {4, 6}, last : Byte] \cup {noIP}]
            \cup [type : {"SRV", "NS"}, name : Name]

tail(name, k) == SubSeq(name, k, Len(name))

\* without escapes in its text
plain(name) == \A i \in DOMAIN name : \A j \in DOMAIN name[i] : name[i][j] # dot

\* The name servers in a reply are called by one label and then the question
\* (serverResponse), or one label and then the zone (newSOA), in which a name
\* that was asked for ends.
named(r, k) ==
  /\ k = 1 \/ plain(tail(r.question, k))
  /\ \A i \in DOMAIN r.answers : r.answers[i].type = "NS" =>
       \E l \in Range(r.answers[i].name) :
         plain(<<l>>) /\ r.answers[i].name = <<l>> \o tail(r.question, k)

ASSUME WireAssumption ==
  /\ B \in Nat \ {0} /\ Header \in Nat \ {0} /\ PtrLimit \in Nat \ {0, 1}
  /\ B % 4 = 0 /\ dot \in 1 .. B - 1
  /\ \A m \in Messages : m \in Seq(Byte) /\ Len(m) >= Header
  /\ \A r \in Replies :
       /\ DOMAIN r = {"question", "answers", "truncated"}
       /\ r.question \in Name /\ r.answers \in Seq(Answer)
       /\ r.truncated \in BOOLEAN
       /\ \E k \in 1 .. Len(r.question) + 1 : named(r, k)

VARIABLES
  phase,         \* pack, unpack; refused (not packed), failed or done (unpacked)
  reply,
  packed,        \* answers packed so far, -1 before the question is
  msg,
  compression,   \* from keys to offsets in msg
  used,          \* the highest offset written
  off, ptr, off1, s,   \* locals of UnpackDomainName; s as labels
  end,           \* where the data of the record ends
  read           \* what has been unpacked

packVars == <<reply, packed, compression, used>>
unpackVars == <<off, ptr, off1, s, end, read>>
vars == <<phase, msg, packVars, unpackVars>>

-----------------------------------------------------------------------------
(* packDomainName.                                                         *)

maxCompressionOffset == (B \div 4) * B

\* a label as it is written in the text of the name, and the text
escaped(label) ==
  FlattenSeq([i \in 1 .. Len(label) |->
                IF label[i] = dot THEN <<-1, dot>> ELSE <<label[i]>>])
text(name) ==
  FlattenSeq([i \in 1 .. Len(name) |-> escaped(name[i]) \o <<dot>>])

\* a label that is too long, or two dots back to back
legal(name) ==
  /\ \A i \in 1 .. Len(name) : Len(name[i]) < B \div 4
  /\ \A i \in 2 .. Len(name) : Len(name[i]) > 0

emit(name, n) ==
  FlattenSeq([i \in 1 .. n |-> <<Len(name[i])>> \o name[i]])

\* ro_bs[begin:] when label i has been emitted.  An escape is removed from bs
\* when it is met, by moving up what follows it, and bs keeps its length: up
\* to label i the labels are bare, after it as they are in the text, and for
\* every escape removed the last byte, the dot, is there once more.
key(name, i) ==
  LET begin == Len(emit(name, i - 1))
      bare == name[i] \o <<dot>> \o text(tail(name, i + 1))
  IN bare \o [j \in 1 .. Len(text(name)) - (begin + Len(bare)) |-> dot]

\* the first label whose key is known, or Len(name) + 1
hit(name, compress, known) ==
  CHOOSE n \in 1 .. Len(name) + 1 :
    /\ n <= Len(name) => compress /\ key(name, n) \in DOMAIN known
    /\ \A i \in 1 .. n - 1 : ~(compress /\ key(name, i) \in DOMAIN known)

\* mutant: pointers that do not fit are remembered, too
remembered_All(offset) == TRUE

remembered(offset) == offset < maxCompressionOffset

\* mutant: offsets count from the start of the name
labelOffset_Relative(name, at, i) == Len(emit(name, i - 1))

labelOffset(name, at, i) == at + Len(emit(name, i - 1))

\* the name at offset at: its cells, the compression map and the offset after
\* the last byte written, which a pointer takes back
packDomainName(name, compress, at, known) ==
  LET n == hit(name, compress, known)
      offset(i) == labelOffset(name, at, i)
      new == {i \in 1 .. n - 1 : compress /\ remembered(offset(i))}
      p == known[key(name, n)]
  IN [cells |-> emit(name, n - 1) \o
                (IF n > Len(name) THEN <<0>>
                 ELSE <<(3 * (B \div 4) + p \div B) % B, p % B>>),
      known |-> [k \in {key(name, i) : i \in new} \cup DOMAIN known |->
                   IF k \in DOMAIN known THEN known[k]
                   ELSE offset(CHOOSE i \in new : key(name, i) = k)],
      used |-> IF n > Len(name) THEN offset(n) + 1 ELSE offset(n + 1)]

\* the data of an answer: NS has a compressed name, SRV one that is not; an
\* address of either family, which is 16 bytes long, is sent as its last four,
\* and a nil one as nothing
packRdata(answer, at, known) ==
  IF answer.type = "A"
  THEN LET cells == IF answer.ip = noIP THEN <<>> ELSE <<answer.ip.last>>
       IN [cells |-> cells, known |-> known, used |-> at + Len(cells)]
  ELSE packDomainName(answer.name, answer.type = "NS", at, known)

-----------------------------------------------------------------------------
(* Msg.PackBuffer.                                                         *)

\* mutant: the trailing zero of a name is forgotten
nameLen_NoRoot(name) == IF name = <<>> THEN 1 ELSE Len(text(name))

\* len of a name in the buffer's length: its text and a zero
nameLen(name) == (IF name = <<>> THEN 1 ELSE Len(text(name))) + 1

\* Msg.Len() + 1, of the uncompressed message
buffer ==
  LET rr(a) == nameLen(reply.question) + 2
               + IF a.type = "A" THEN 1 ELSE nameLen(a.name)
      sum[i \in 0 .. Len(reply.answers)] ==
        IF i = 0 THEN 0 ELSE sum[i - 1] + rr(reply.answers[i])
  IN Header + nameLen(reply.question) + 1 + sum[Len(reply.answers)]

\* the shapes of received messages; what is in their fields is not known before
received ==
  {[question |-> <<>>, answers |-> a, truncated |-> tc] :
     a \in {<<>>, <<[type |-> "NS", name |-> <<>>]>>,
            <<[type |-> "A", ip |-> noIP]>>},
     tc \in BOOLEAN}

Init ==
  /\ \/ /\ reply \in Replies /\ phase = "pack" /\ packed = -1
        /\ msg = [i \in 1 .. Header |-> 0]
     \/ /\ reply \in received /\ phase = "unpack" /\ packed = -1
        /\ msg \in Messages
  /\ compression = <<>> /\ used = Header
  /\ off = Header /\ ptr = 0 /\ off1 = 0 /\ s = <<>> /\ end = 0 /\ read = <<>>

\* the names to pack next
nextNames ==
  IF packed = -1 THEN {reply.question}
  ELSE {reply.answers[i].name :
          i \in {j \in DOMAIN reply.answers \cap {packed + 1} :
                   reply.answers[j].type # "A"}}

\* PackRR: the owner, the other fields and the data, and then its length
owner == packDomainName(reply.question, TRUE, Len(msg), compression)
data == packRdata(reply.answers[packed + 1], Len(msg) + Len(owner.cells) + 2,
                  owner.known)

\* a name that is not legal, or data too long for the cells of its length
unpackable ==
  \/ \E name \in nextNames : ~legal(name)
  \/ packed \in 0 .. Len(reply.answers) - 1 /\ Len(data.cells) >= B * B

\* Pack returns an error and WriteMsg sends nothing
Refuse ==
  /\ phase = "pack" /\ phase' = "refused"
  /\ unpackable
  /\ UNCHANGED <<msg, packVars, unpackVars>>

PackQuestion ==
  /\ phase = "pack" /\ packed = -1 /\ ~unpackable
  /\ msg' = msg \o owner.cells
  /\ compression' = owner.known /\ used' = owner.used
  /\ packed' = 0
  /\ UNCHANGED <<phase, reply, unpackVars>>

PackRR ==
  /\ phase = "pack" /\ packed \in 0 .. Len(reply.answers) - 1 /\ ~unpackable
  /\ msg' = msg \o owner.cells
             \o <<Len(data.cells) \div B, Len(data.cells) % B>> \o data.cells
  /\ compression' = data.known
  /\ used' = IF data.used > owner.used THEN data.used ELSE owner.used
  /\ packed' = packed + 1
  /\ UNCHANGED <<phase, reply, unpackVars>>

Send ==
  /\ phase = "pack" /\ packed = Len(reply.answers) /\ phase' = "unpack"
  /\ UNCHANGED <<msg, packVars, unpackVars>>

-----------------------------------------------------------------------------
(* Msg.Unpack, and UnpackDomainName step by step.                          *)

\* the fields: the question, and for every answer its owner and its data; with
\* TC set Unpack returns after the question
field == Len(read) + 1
lastField == IF reply.truncated THEN 1 ELSE 1 + 2 * Len(reply.answers)
answer == reply.answers[(field \div 2)]
isOwner == field % 2 = 0
isData == field % 2 = 1 /\ field > 1
atStart == s = <<>> /\ ptr = 0
noData == isData /\ off = end /\ atStart
readsName == phase = "unpack" /\ ~(isData /\ answer.type = "A") /\ ~noData

fail == phase' = "failed" /\ UNCHANGED <<msg, packVars, unpackVars>>

\* the next field starts at o; after an owner, behind the length of the data,
\* which is zero if the message ends before it
goOn(value, o) ==
  /\ read' = Append(read, value) /\ s' = <<>> /\ ptr' = 0 /\ off1' = 0
  /\ phase' = IF field = lastField THEN "done" ELSE "unpack"
  /\ IF isOwner /\ o < Len(msg)
     THEN off' = o + 2 /\ end' = o + 2 + (msg[o + 1] * B + msg[o + 2])
     ELSE off' = o /\ end' = IF isOwner THEN o ELSE 0
  /\ UNCHANGED <<msg, packVars>>

byte == msg[off + 1]

UnpackBeyond ==
  readsName /\ off >= Len(msg) /\ ~(atStart /\ off = Len(msg)) /\ fail

\* A field of a message that has ended is left empty, which is no error unless
\* the length of the data says that there is more.
UnpackNothing ==
  /\ readsName /\ off = Len(msg) /\ atStart
  /\ \/ isData /\ fail
     \/ ~isData /\ goOn(<<>>, off)

\* the data does not end where its length says, or half of the length is missing
misfit(o) == (isData /\ o # end) \/ (isOwner /\ o + 1 = Len(msg))

\* the zero at the end of the name.  A name that is the root goes on behind its
\* zero, wherever a pointer led to
UnpackEnd ==
  /\ readsName /\ off < Len(msg) /\ byte = 0
  /\ LET o == IF ptr = 0 \/ s = <<>> THEN off + 1 ELSE off1
     IN \/ misfit(o) /\ fail
        \/ ~misfit(o) /\ goOn(s, o)

UnpackLabel ==
  /\ readsName /\ off < Len(msg) /\ byte \in 1 .. (B \div 4) - 1
  /\ \/ off + 1 + byte > Len(msg) /\ fail
     \/ /\ off + 1 + byte <= Len(msg)
        /\ s' = Append(s, SubSeq(msg, off + 2, off + 1 + byte))
        /\ off' = off + 1 + byte
        /\ UNCHANGED <<phase, msg, packVars, ptr, off1, end, read>>

UnpackReserved ==
  /\ readsName /\ off < Len(msg) /\ byte \in B \div 4 .. 3 * (B \div 4) - 1
  /\ fail

\* mutant: pointers are followed for ever
tooMany_Never(n) == FALSE

tooMany(n) == n > PtrLimit

UnpackPointer ==
  /\ readsName /\ off < Len(msg) /\ byte >= 3 * (B \div 4)
  /\ \/ (off + 1 >= Len(msg) \/ tooMany(ptr + 1)) /\ fail
     \/ /\ off + 1 < Len(msg) /\ ~tooMany(ptr + 1)
        /\ off1' = IF ptr = 0 THEN off + 2 ELSE off1
        /\ ptr' = IF ptr < PtrLimit THEN ptr + 1 ELSE ptr
        /\ off' = (byte - 3 * (B \div 4)) * B + msg[off + 2]
        /\ UNCHANGED <<phase, msg, packVars, s, end, read>>

\* a record without data, which has no name and no address
UnpackNoData ==
  /\ phase = "unpack" /\ noData
  /\ goOn(IF answer.type = "A" THEN noIP ELSE <<>>, off)

\* the four bytes of an A record, if they are all of its data, are an IPv4
\* address
UnpackA ==
  /\ phase = "unpack" /\ isData /\ answer.type = "A" /\ ~noData
  /\ \/ (off >= Len(msg) \/ off + 1 # end) /\ fail
     \/ /\ off < Len(msg) /\ off + 1 = end
        /\ goOn([family |-> 4, last |-> byte], off + 1)

Pack == Refuse \/ PackQuestion \/ PackRR \/ Send
Unpack ==
  \/ UnpackBeyond \/ UnpackNothing \/ UnpackEnd \/ UnpackLabel
  \/ UnpackReserved \/ UnpackPointer \/ UnpackNoData \/ UnpackA

Next == Pack \/ Unpack
Spec == Init /\ [][Next]_vars

\* the loop of UnpackDomainName runs on
FairSpec == Spec /\ WF_vars(Unpack)

-----------------------------------------------------------------------------
(* Properties.                                                             *)

TypeOK ==
  /\ phase \in {"pack", "unpack", "refused", "failed", "done"}
  /\ packed \in -1 .. Len(reply.answers)
  /\ msg \in Seq(Byte)
  /\ \A k \in DOMAIN compression : compression[k] \in Header .. Len(msg) - 1
  /\ ptr \in 0 .. PtrLimit /\ {off, off1, end} \subseteq Nat
  /\ Len(read) <= 1 + 2 * Len(reply.answers)

\* what an A record tells of an address
asIPv4(ip) == IF ip = noIP THEN noIP ELSE [family |-> 4, last |-> ip.last]

fields ==
  <<reply.question>> \o
  FlattenSeq([i \in 1 .. Len(reply.answers) |->
    LET a == reply.answers[i]
    IN <<reply.question, IF a.type = "A" THEN asIPv4(a.ip) ELSE a.name>>])

\* What the library reads is what the agent packed: every name comes back with
\* its labels, through whatever pointers the names before it left in the
\* compression map, and every IPv4 address is the one of its instance.  Not so
\* an IPv6 address, of which the last four bytes come back as an address of
\* IPv4; and of a truncated reply only the question is read.
RoundTrip ==
  packed >= 0 =>
    /\ phase # "failed"
    /\ phase = "done" =>
         read = IF reply.truncated THEN <<reply.question>> ELSE fields

\* The buffer PackBuffer allocates is long enough for all that is written,
\* also for the bytes a pointer takes back: the zero after a name is written
\* without a check.
BufferSuffices == used <= buffer

\* Unpacking ends, whatever the message is: pointers that form a loop are
\* followed a few times only.
UnpackEnds == phase = "unpack" ~> phase # "unpack"
=============================================================================
