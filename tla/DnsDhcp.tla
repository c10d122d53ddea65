-------------------------------- MODULE DnsDhcp --------------------------------
(***************************************************************************)
(* What the engine reads in the datagrams it forwards:                     *)
(*   get_qname, get_dns_query and parse_dns_response                       *)
(*     (app/src/main/cpp/dns.c), called by handle_udp for every query and  *)
(*     by check_udp_socket for every answer of port 53;                    *)
(*   check_dhcp (dhcp.c), called by handle_udp for the ports of DHCP.      *)
(*                                                                         *)
(* A call takes one step for each label and each pointer of a name, as the *)
(* loop of get_qname does; whether that loop ends is a question of its     *)
(* own.  The widths are constants, so that small messages reach them.      *)
(***************************************************************************)
EXTENDS Integers, Sequences

CONSTANTS
    ByteValues,          \* values of a byte, 256
    Flag,          \* the first byte that is no length of a label, 64
    NameMax,       \* DNS_QNAME_MAX, 255: noff has NameMax + 1 values
    Header,        \* size of a message's header, 12
    QuestionSize,  \* type and class behind the name of a question, 4
    AnswerSize,    \* type, class, ttl and length behind the name of an answer, 10
    MessageBodies, \* what follows the header: sequences of bytes
    Strays,        \* what memory may hold outside a message
    MaxAnswers     \* bound: answers a header announces

ASSUME ByteValuesAssumption == ByteValues \in Nat /\ Flag \in 1..(ByteValues - 1)
ASSUME NameMaxAssumption == NameMax \in Nat /\ Flag - 1 <= NameMax
ASSUME SizesAssumption ==
    Header \in Nat \ {0} /\ QuestionSize \in Nat \ {0} /\ AnswerSize \in Nat \ {0}
ASSUME BodiesAssumption == MessageBodies \subseteq Seq(0..(ByteValues - 1))
ASSUME StraysAssumption == Strays \subseteq 0..(ByteValues - 1)
ASSUME MaxAnswersAssumption == MaxAnswers \in Nat

VARIABLE dns

Dot == ByteValues        \* no byte of a label is taken for the dot behind it

(***************************************************************************)
(* A call: the message, what it is, and the variables of get_qname.        *)
(*   off, ptr, noff, c   as in the code; name: the buffer                  *)
(*   start               off when get_qname was called                     *)
(*   run, back           history: where the labels read now begin; has     *)
(*                       every pointer led to before the run it ends?      *)
(*   left                records still to be read, the question first      *)
(***************************************************************************)
NoDns == [at |-> "idle"]
Blank == [i \in 0..NameMax |-> 0]

ByteAt(pos) == IF pos < Len(dns.data) THEN dns.data[pos + 1] ELSE dns.stray
Length == ByteAt(dns.ptr)

\* get_qname is entered for the name at off
Entered(d, off) ==
    [d EXCEPT !.at = "name", !.off = off, !.start = off, !.ptr = off, !.noff = 0,
              !.c = FALSE, !.name = [@ EXCEPT ![0] = 0], !.run = off, !.back = TRUE]

DnsInit == dns = NoDns

\* A query of an application or an answer of a server.  Other messages are left alone:
\* those with other flags, without a question or without an answer, or too short.
Arrive ==
    /\ dns = NoDns
    /\ \E body \in MessageBodies, stray \in Strays, kind \in {"query", "response"},
          acount \in 1..MaxAnswers :
        /\ body # <<>>
        /\ kind = "query" => acount = 1
        /\ dns' = Entered([at |-> "name", kind |-> kind,
                           data |-> [i \in 1..Header |-> 0] \o body, stray |-> stray,
                           left |-> IF kind = "query" THEN 1 ELSE 1 + acount,
                           question |-> TRUE, off |-> 0, start |-> 0, ptr |-> 0,
                           noff |-> 0, c |-> FALSE, name |-> Blank, run |-> 0,
                           back |-> TRUE, ret |-> 0], Header)

-----------------------------------------------------------------------------
(***************************************************************************)
(* get_qname, one turn of its loop at a time.                              *)
(***************************************************************************)
\* The two upper bits are not told apart: any of them makes a pointer.  off moves by 2
\* from where the name began, once.
JumpTo ==
    LET target == (Length % Flag) * ByteValues + ByteAt(dns.ptr + 1)
    IN  [dns EXCEPT !.ptr = target, !.c = TRUE,
                    !.off = IF dns.c THEN @ ELSE @ + 2,
                    !.run = target, !.back = @ /\ target < dns.run]

FollowPointer ==
    /\ dns.at = "name" /\ Length >= Flag
    /\ dns' = JumpTo

Room == dns.ptr + 1 + Length <= Len(dns.data) /\ dns.noff + Length <= NameMax

OffUnwrapped == dns.noff + Length + 1                               \* mutant

\* noff is one byte wide
NextOff == (dns.noff + Length + 1) % (NameMax + 1)

LengthCopied ==                                                     \* mutant
    [dns EXCEPT !.name = [i \in 0..NameMax |->
                            IF i \in dns.noff..(dns.noff + Length - 1)
                            THEN ByteAt(dns.ptr + (i - dns.noff))
                            ELSE IF i = dns.noff + Length THEN Dot ELSE @[i]],
                !.noff = NextOff,
                !.ptr = @ + Length + 1]

PtrStays ==                                                         \* mutant
    [dns EXCEPT !.name = [@ EXCEPT ![dns.noff + Length] = Dot],
                !.noff = NextOff]

WithLabel ==
    [dns EXCEPT !.name = [i \in 0..NameMax |->
                            IF i \in dns.noff..(dns.noff + Length - 1)
                            THEN ByteAt(dns.ptr + 1 + (i - dns.noff))
                            ELSE IF i = dns.noff + Length THEN Dot ELSE @[i]],
                !.noff = NextOff,
                !.ptr = @ + Length + 1]

CopyLabel ==
    /\ dns.at = "name" /\ Length \in 1..(Flag - 1) /\ Room
    /\ dns' = WithLabel

\* A label that does not fit, or no label at all: -1, and the callers give up
BadName ==
    /\ dns.at = "name"
    /\ \/ Length \in 1..(Flag - 1) /\ ~Room
       \/ Length = 0 /\ dns.noff = 0
    /\ dns' = NoDns

\* What get_qname returns: the position behind the name
Returned == IF dns.c THEN dns.off ELSE dns.ptr + 1

EndName ==
    /\ dns.at = "name" /\ Length = 0 /\ dns.noff > 0
    /\ dns' = [dns EXCEPT !.at = "record", !.name = [@ EXCEPT ![dns.noff - 1] = 0],
                          !.ret = Returned]

-----------------------------------------------------------------------------
(***************************************************************************)
(* The callers, with the position behind a name.                           *)
(***************************************************************************)
Size == Len(dns.data)

\* get_dns_query wants the message to end behind the question; either way it is done
QueryDone == dns.at = "record" /\ dns.kind = "query" /\ dns' = NoDns

\* parse_dns_response: the question, then the answers; nothing is done with them
NextRecord(next) ==
    IF dns.left = 1 THEN NoDns
    ELSE Entered([dns EXCEPT !.left = @ - 1, !.question = FALSE], next)

Question ==
    /\ dns.at = "record" /\ dns.kind = "response" /\ dns.question
    /\ dns' = IF dns.ret + QuestionSize <= Size THEN NextRecord(dns.ret + QuestionSize)
              ELSE NoDns

\* The length of an answer's data is the last part of what follows the name
Answer ==
    /\ dns.at = "record" /\ dns.kind = "response" /\ ~dns.question
    /\ LET data == dns.ret + AnswerSize
           next == data + ByteAt(data - 1)
       IN  dns' = IF data <= Size /\ next <= Size THEN NextRecord(next) ELSE NoDns

DnsStep == FollowPointer \/ CopyLabel \/ BadName \/ EndName \/ QueryDone \/ Question \/ Answer

-----------------------------------------------------------------------------
(***************************************************************************)
(* check_dhcp.  A request of a session u that is no DHCP message of a      *)
(* client on Ethernet is forwarded like any datagram; a reply is dropped;  *)
(* a request is answered.  The answer's options are written at response +  *)
(* 240 structures of 240 bytes: none of them is in the answer, which is    *)
(* the request's fixed part with other addresses.  The engine's address    *)
(* takes the place of the session's source before write_udp swaps them.    *)
(***************************************************************************)
Server == "10.1.10.1"
DhcpRequests == [dhcp : BOOLEAN, opcode : {1, 2}, siaddr : {"0.0.0.0", Server}]
DhcpSessions == [saddr : {"0.0.0.0", "10.1.10.2"}, source : {68},
                 daddr : {"255.255.255.255", Server}, dest : {67}]

WriteDhcp(u, reply) == [reply |-> reply, from |-> <<u.daddr, u.dest>>, to |-> <<u.saddr, u.source>>]

check_dhcp(r, u) ==
    IF ~r.dhcp THEN [does |-> "forward", key |-> u]
    ELSE IF r.opcode # 1 THEN [does |-> "drop", key |-> u]
    ELSE LET named == [u EXCEPT !.saddr = Server]
             reply == [opcode |-> IF r.siaddr = "0.0.0.0" THEN 2 ELSE 4,
                       yiaddr |-> "10.1.10.2", siaddr |-> Server, options |-> <<>>]
         IN  [does |-> "answer", key |-> named, packet |-> WriteDhcp(named, reply)]

CheckDhcp ==
    /\ dns = NoDns
    /\ \E r \in DhcpRequests, u \in DhcpSessions :
        dns' = [at |-> "dhcp", arg |-> r, session |-> u, res |-> check_dhcp(r, u)]

DhcpDone == dns.at = "dhcp" /\ dns' = NoDns

DnsNext == Arrive \/ DnsStep \/ CheckDhcp \/ DhcpDone

\* The event thread runs on until the call has returned
DnsFairness == WF_dns(DnsStep)

-----------------------------------------------------------------------------
(***************************************************************************)
(* Properties.                                                             *)
(***************************************************************************)
\* The name that begins at start, its labels each with a dot, as RFC 1035 has it: labels
\* up to a zero, or to a pointer to where the rest is.  One of more than 3 * NameMax labels
\* and pointers counts as too long.
TooLong == [i \in 1..(NameMax + 1) |-> Dot]
LabelAt(pos) == [i \in 1..(ByteAt(pos) + 1) |-> IF i > ByteAt(pos) THEN Dot ELSE ByteAt(pos + i)]

TextOfName(start) ==
    LET text[fuel \in 0..(3 * NameMax)] ==
            [pos \in Nat |->
               IF fuel = 0 THEN TooLong
               ELSE IF ByteAt(pos) = 0 THEN <<>>
               ELSE IF ByteAt(pos) >= Flag
                    THEN text[fuel - 1][(ByteAt(pos) % Flag) * ByteValues + ByteAt(pos + 1)]
               ELSE LabelAt(pos) \o text[fuel - 1][pos + ByteAt(pos) + 1]]
    IN  text[3 * NameMax][start]

\* get_qname hands out the name that the message holds, with dots between its labels and
\* a zero at its end, unless it is longer than noff can count: then noff wraps around
\* and the name is overwritten from its beginning (dns.c:21-24).
NameDecoded ==
    dns.at = "record" =>
        LET t == TextOfName(dns.start)
        IN  \/ Len(t) > NameMax
            \/ /\ Len(t) = dns.noff
               /\ \A i \in 1..(Len(t) - 1) : dns.name[i - 1] = t[i]
               /\ dns.name[Len(t) - 1] = 0

\* Where a name's bytes end in the message: behind its zero or its first pointer
EndOf(start) ==
    LET end[pos \in Nat] ==
            IF ByteAt(pos) = 0 THEN pos + 1
            ELSE IF ByteAt(pos) >= Flag THEN pos + 2 ELSE end[pos + ByteAt(pos) + 1]
    IN  end[start]

\* The callers go on right behind the name, unless it has labels in front of a pointer:
\* off counts the pointer from where the name began (dns.c:17), and what follows is read
\* out of the name's own labels.
ResumesBehindName ==
    dns.at = "record" =>
        \/ dns.ret = EndOf(dns.start)
        \/ dns.c /\ ByteAt(dns.start) < Flag /\ dns.ret = dns.start + 2

InDns == dns.at \in {"name", "record"}

\* Every call returns, unless a pointer leads to where labels were read already or
\* further on: there is no bound on the number of pointers (dns.c:12).
EventuallyReturns == InDns ~> (~InDns \/ ~dns.back)

\* get_qname hands its callers the name of the message and the position behind it, with
\* the exceptions its two parts name (dns.c:4-43).
QuestionDecoded == NameDecoded /\ ResumesBehindName
=============================================================================
