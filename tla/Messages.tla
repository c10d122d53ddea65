-------------------------------- MODULE Messages --------------------------------
(***************************************************************************)
(* The event thread and the messages it reads and writes: it handles one   *)
(* packet, segment or datagram at a time, so that a call of Packets,       *)
(* Requests or DnsDhcp begins when none of the others is under way.        *)
(***************************************************************************)
EXTENDS Packets, Requests, DnsDhcp

messages == <<call, parse, dns>>

Init == PacketsInit /\ RequestsInit /\ DnsInit

Next ==
    \/ parse = NoParse /\ dns = NoDns /\ PacketsNext /\ UNCHANGED <<parse, dns>>
    \/ call = NoCall /\ dns = NoDns /\ RequestsNext /\ UNCHANGED <<call, dns>>
    \/ call = NoCall /\ parse = NoParse /\ DnsNext /\ UNCHANGED <<call, parse>>

Spec == Init /\ [][Next]_messages /\ DnsFairness

\* No message is handled while another one is: patch_http_url has one buffer
\* (http.c:115), and every call's record has the fields of its kind.
TypeOK ==
    /\ PacketsTypeOK
    /\ parse.op \in {"none", "hello", "damaged", "patch"}
    /\ dns.at \in {"idle", "name", "record", "dhcp"}
    /\ dns.at \in {"name", "record"} => dns.noff \in 0..NameMax /\ dns.left \in 1..(MaxAnswers + 1)
=============================================================================
