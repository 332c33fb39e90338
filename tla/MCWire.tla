------------------------------- MODULE MCWire -------------------------------
(* Instances of Wire.  Bytes: 5 and 6 are letters, 7 is the dot of a label.  *)
EXTENDS Wire

Names(labels, n) == UNION {[1 .. k -> labels] : k \in 0 .. n}
A(f, x) == [type |-> "A", ip |-> [family |-> f, last |-> x]]
NoIP == [type |-> "A", ip |-> noIP]
NS(name) == [type |-> "NS", name |-> name]
SRV(name) == [type |-> "SRV", name |-> name]

\* one host of two cannot be packed: a label that is too long, or more of them
\* than the length of the data can say
LongHost ==
  {[question |-> <<<<5>>>>, answers |-> <<SRV(<<<<5>>>>), SRV(h)>>,
    truncated |-> FALSE] :
     h \in {<<<<5, 5, 5, 5>>>>, [i \in 1 .. (B \div 4) * B |-> <<5, 5, 5>>]}}

\* the agent's replies: the nameservers of a zone, ns0 and ns1 in front of the
\* question; the hosts of instances; their addresses, of either family, in
\* full and cut short; and, to a question for any name of the domain, the two
\* names of the SOA record.
Questions == Names({<<5>>, <<6, 5>>, <<5, 7, 6>>}, 3)
Hosts == Names({<<5>>, <<6, 5>>}, 2) \ {<<>>}
Domain == <<<<5>>, <<6>>>>
AgentReplies ==
  UNION {{[question |-> q, answers |-> a, truncated |-> FALSE] :
            a \in {<<>>, <<NS(<<<<6>>>> \o q), NS(<<<<6, 6>>>> \o q)>>}
                  \cup {<<SRV(h), SRV(g)>> : h, g \in Hosts}
                  \cup {<<A(4, 5), A(6, 5)>>, <<NoIP, A(4, 6)>>}} :
         q \in Questions}
  \cup {[question |-> q, answers |-> <<A(4, 5)>>, truncated |-> TRUE] :
        q \in Questions}
  \cup LongHost
  \cup {[question |-> q \o Domain,
         answers |-> <<NS(<<<<6>>>> \o Domain), NS(<<<<5, 6>>>> \o Domain)>>,
         truncated |-> FALSE] :
        q \in Questions}

\* what may arrive: behind the header a label of one byte, a pointer back to
\* the question or into the middle of it, and bytes that are neither
AllMessages ==
  {[i \in 1 .. Header |-> 0] \o m :
     m \in UNION {[1 .. k -> {0, 1, 8, 9, 15}] : k \in 0 .. 5}}
=============================================================================
