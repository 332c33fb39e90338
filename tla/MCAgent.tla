------------------------------- MODULE MCAgent -------------------------------
(***************************************************************************)
(* Instances of Agent for TLC.  The zone is srv.net; providers register    *)
(* the service http.api.prod.shop in the zone aa; bb has servers only.     *)
(***************************************************************************)
EXTENDS Agent

CONSTANTS r1, r2   \* goroutines

MCZone == {"aa", "bb"}
MCNSLabel == {"ns0", "ns1", "ns9"}
MCField == {"http", "api", "prod", "test", "shop", "srv", "net", "xsrv"}
             \cup MCZone \cup MCNSLabel
MCLabel == MCField \cup {"_"}
MCNSNumber == [ns0 |-> 0, ns1 |-> 1, ns9 |-> 9]
MCDomain == <<"srv", "net">>
MCIP == {"10.0.0.1", "10.0.0.2", "10.0.0.3"}

Attr(env, zone, ip, port) ==
  LET i == [service |-> "http", job |-> "api", env |-> env,
            product |-> "shop", zone |-> zone]
  IN  [product |-> i.product, tags |-> infoToTags(i), zone |-> i.zone,
       host |-> port, ip |-> ip, port |-> port]

\* e1 and e2 are instances of the address asked for, the port of e2 does not
\* fit 16 bits; e3 is of another env; e4 has a node address that does not
\* parse and is of another env
MCAttr == [e1 |-> Attr("prod", "aa", "10.0.0.1", 80),
           e2 |-> Attr("prod", "aa", "10.0.0.2", 65537),
           e3 |-> Attr("test", "aa", "10.0.0.3", 82),
           e4 |-> Attr("test", "aa", None, 84)]
MCEntryAttr == [e \in Entry |-> MCAttr[e]]

MCServer == [m1 |-> [host |-> 1, zone |-> "aa", ip |-> "10.0.0.1"],
             m2 |-> [host |-> 2, zone |-> "aa", ip |-> "10.0.0.2"]]
MCMemberAttr == [m \in Member |-> MCServer[m]]

Ask(proto, name, qtype) ==
  [proto |-> proto, count |-> 1, name |-> name \o MCDomain, qtype |-> qtype]
Service == <<"http", "api", "prod", "shop", "aa">>
Service2 == <<"http", "api", "prod", "shop", "bb">>

\* among them a type and a format the agent does not answer
ServiceQueries == {Ask("udp", Service, "A"), Ask("tcp", Service, "SRV"),
                   Ask("tcp", Service2, "A"), Ask("udp", Service, "other"),
                   Ask("udp", <<"http", "aa">>, "A")}

\* no question, two questions, a name outside the zone, a service, and the
\* servers of a zone: their list, and two of their names
RequestQueries ==
  {[Ask("udp", <<>>, "A") EXCEPT !.count = 0],
   [Ask("tcp", <<>>, "A") EXCEPT !.count = 2],
   [Ask("udp", <<>>, "A") EXCEPT !.name = <<"api", "net">>],
   Ask("udp", Service, "A"),
   Ask("tcp", <<"aa">>, "A"), Ask("udp", <<"aa">>, "NS"),
   Ask("udp", <<"aa">>, "other"),
   Ask("udp", <<"ns1", "aa">>, "A"), Ask("udp", <<"ns9", "aa">>, "A")}
=============================================================================
