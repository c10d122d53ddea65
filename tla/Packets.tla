-------------------------------- MODULE Packets --------------------------------
(***************************************************************************)
(* What the native engine reads from and writes to the tun device: the     *)
(* checks and the dispatch of handle_ip (app/src/main/cpp/ip.c), and the   *)
(* packets that write_tcp, write_udp and write_icmp build (tcp.c, udp.c,   *)
(* icmp.c) with the checksum of util.c.  Nothing here keeps state between  *)
(* calls: `call` holds the arguments and the result of one call.           *)
(*                                                                         *)
(* A byte has Base values.  A field of a header is one word of two bytes,  *)
(* as memory holds it; addresses, sequence numbers and pseudo headers are  *)
(* shortened to the words in which they may differ.                        *)
(***************************************************************************)
EXTENDS Integers, Sequences

CONSTANTS
    Base,        \* values of a byte, 256
    Words,       \* values that addresses, ports and sequence numbers take
    Contents,    \* data the engine passes on: sequences of bytes
    Lengths,     \* lengths of the packets an application may send
    DefaultMss   \* get_default_mss for version 4 and 6, in host order

ASSUME BaseAssumption == Base \in Nat /\ Base > 6
Byte == 0..(Base - 1)
Word == 0..(Base * Base - 1)
ASSUME WordsAssumption == Words \subseteq Word
ASSUME ContentsAssumption == Contents \subseteq Seq(Byte)
ASSUME LengthsAssumption == Lengths \subseteq Nat
ASSUME DefaultMssAssumption == DefaultMss \in [{4, 6} -> Word]

VARIABLE call

-----------------------------------------------------------------------------
(***************************************************************************)
(* Sizes of headers, in bytes.                                             *)
(***************************************************************************)
IpHeader == [v \in {4, 6} |-> IF v = 4 THEN 20 ELSE 40]
TransportHeader == [tcp |-> 20, udp |-> 8, icmp |-> 28]

(***************************************************************************)
(* handle_ip.  A packet has a version, a length (what read() returned) and *)
(*   version 4: the total length and the header length (ihl) it claims, a  *)
(*     protocol, bit: is bit 5 of its fragment offset set                  *)
(*   version 6: the types of its extension headers and what follows them   *)
(***************************************************************************)
Upper == {"tcp", "udp", "icmp", "icmp6"}
Lower == {"ext"}       \* is_lower_layer: 0, 43, 44, 50, 51, 60, 135
Drop  == [to |-> "none", payload |-> 0]

\* The option length is a byte, so that an ihl below 5 counts as a long header
Payload4(p) == 20 + (((p.ihl - 5) * 4) % 256)

ChainFollowed(p) == p.chain[Len(p.chain)]                            \* mutant

\* The loop follows the chain while the *next* type is an extension again, so it
\* never arrives at a transport header; the protocol is the first type then.
ChainEnd(p) ==
    LET behind[i \in 1..Len(p.chain)] ==
            IF i < Len(p.chain) /\ p.chain[i] \notin Upper /\ p.chain[i + 1] \in Lower
            THEN behind[i + 1] ELSE p.chain[i]
    IN  IF behind[1] \in Upper THEN behind[1] ELSE p.chain[1]

Protocol(p) == IF p.version = 4 THEN p.protocol ELSE ChainEnd(p)

\* The bits of IP_MF are tested without ntohs: what is dropped are fragments at
\* an odd multiple of 256 bytes, not those with more to follow.
WellFormed(p) ==
    /\ p.version \in {4, 6}
    /\ p.length >= IpHeader[p.version]
    /\ p.version = 4 => ~p.bit /\ p.total = p.length

Payload(p) == IF p.version = 4 THEN Payload4(p) ELSE 40

\* The length of the payload is computed without sign: a payload behind the end of
\* the packet is never too short.
LongEnough(p, kind) ==
    Payload(p) > p.length \/ p.length - Payload(p) >= TransportHeader[kind]

Kind(protocol) == IF protocol = "icmp6" THEN "icmp" ELSE protocol

\* loglevel is never below WARN: the header checksum of version 4 is not looked at
HandleIp(p) ==
    IF ~WellFormed(p) THEN Drop
    ELSE IF Protocol(p) \notin Upper THEN Drop
    ELSE IF ~LongEnough(p, Kind(Protocol(p))) THEN Drop
    ELSE [to |-> Kind(Protocol(p)), payload |-> Payload(p)]

-----------------------------------------------------------------------------
(***************************************************************************)
(* calc_checksum: one's complement sum of words in memory order, continued *)
(* from start; an odd last byte counts as a low byte.                      *)
(***************************************************************************)
Carry[sum \in Nat] ==
    IF sum < Base * Base THEN sum
    ELSE Carry[(sum % (Base * Base)) + (sum \div (Base * Base))]

NoCarry(start, bytes) ==                                             \* mutant
    LET sum[i \in 0..Len(bytes)] ==
            IF i = 0 THEN start
            ELSE sum[i - 1] + (IF (i % 2) = 1 THEN bytes[i] ELSE Base * bytes[i])
    IN  sum[Len(bytes)] % (Base * Base)

Checksum(start, bytes) ==
    LET sum[i \in 0..Len(bytes)] ==
            IF i = 0 THEN start
            ELSE sum[i - 1] + (IF (i % 2) = 1 THEN bytes[i] ELSE Base * bytes[i])
    IN  Carry[sum[Len(bytes)]]

Not(word) == Base * Base - 1 - word
Bytes(word) == <<word % Base, word \div Base>>
Flat(words) == [i \in 1..(2 * Len(words)) |-> Bytes(words[(i + 1) \div 2])[2 - (i % 2)]]

(***************************************************************************)
(* The writers.  A session s has a version, the addresses and ports of the *)
(* application's packets, and for TCP its numbers.  The answer goes back:  *)
(* from the session's destination to its source.                           *)
(***************************************************************************)
Ip(s, proto, payload) ==
    [version |-> s.version, src |-> s.daddr, dst |-> s.saddr, proto |-> proto,
     len |-> IF s.version = 4 THEN 20 + payload ELSE payload]

\* The checksum of the header of version 4, which is all that is summed
Ip4Words(ip) == <<ip.len, ip.proto, ip.src, ip.dst>>

\* Version 6 swaps the addresses of the pseudo header, which does not matter
PseudoHeader(ip, len) ==
    Flat(IF ip.version = 4 THEN <<ip.src, ip.dst, ip.proto, len>>
         ELSE <<ip.dst, ip.src, len, ip.proto>>)

Packet(ip, header, options, data, check) ==
    [ip |-> ip, ipcheck |-> Not(Checksum(0, Flat(Ip4Words(ip)))),
     header |-> header, options |-> options, data |-> data, check |-> check]

\* Options of a SYN: mss (in host order), window scale, end
SynOptions(s) == <<2, 4>> \o Bytes(DefaultMss[s.version]) \o <<3, 3, s.scale, 0>>

DataOffset(optlen) == (20 + optlen) \div 4

WriteTcp(s, data, syn, ack) ==
    LET options == IF syn THEN SynOptions(s) ELSE <<>>
        ip      == Ip(s, 6, 20 + Len(options) + Len(data))
        header  == <<s.dest, s.source, s.local, IF ack THEN s.remote ELSE 0,
                     DataOffset(Len(options))>>
        start   == Checksum(0, PseudoHeader(ip, 20 + Len(options) + Len(data)))
        upto    == Checksum(Checksum(start, Flat(header)), options)
    IN  Packet(ip, header, options, data, Not(Checksum(upto, data)))

WriteUdp(s, data) ==
    LET ip     == Ip(s, 1, 8 + Len(data))
        header == <<s.dest, s.source, 8 + Len(data)>>
        start  == Checksum(0, PseudoHeader(ip, 8 + Len(data)))
    IN  Packet(ip, header, <<>>, data, Not(Checksum(Checksum(start, Flat(header)), data)))

\* check_icmp_socket restores the id and sums the message (version 6 is marked
\* untested there and left out); write_icmp puts the IP header in front
WriteIcmp(s, data) ==
    Packet(Ip(s, 0, 2 + Len(data)), <<s.id>>, <<>>, data,
           Not(Checksum(0, Bytes(s.id) \o data)))

-----------------------------------------------------------------------------
(***************************************************************************)
(* What an application's packets and the engine's sessions look like.      *)
(***************************************************************************)
Protocols == {"tcp", "udp", "icmp", "icmp6", "other"}
Packets4 == [version : {4}, length : Lengths, total : Lengths, ihl : {0, 5, 6, 15},
             protocol : Protocols, bit : BOOLEAN]
Chains == UNION {[1..n -> Protocols \cup {"ext"}] : n \in 1..3}
Packets6 == [version : {6}, length : Lengths, chain : Chains]
OtherPackets == [version : {0, 5}, length : Lengths]

Sessions == [version : {4, 6}, saddr : Words, daddr : {1}, source : Words, dest : {2},
             local : Words, remote : {3}, scale : {0, 1}]

NoCall == [op |-> "none"]
PacketsInit == call = NoCall

ReadTun ==
    /\ call = NoCall
    /\ \E p \in Packets4 \cup Packets6 \cup OtherPackets :
        call' = [op |-> "handle_ip", arg |-> p, res |-> HandleIp(p)]

\* write_syn_ack, write_ack, write_data, write_fin_ack, write_rst: data only
\* without SYN
SendTcp ==
    /\ call = NoCall
    /\ \E s \in Sessions, data \in Contents, syn, ack \in BOOLEAN :
        /\ data # <<>> => ack /\ ~syn
        /\ call' = [op |-> "tcp", arg |-> s, data |-> data,
                    res |-> WriteTcp(s, data, syn, ack)]

SendUdp ==
    /\ call = NoCall
    /\ \E s \in Sessions, data \in Contents :
        call' = [op |-> "udp", arg |-> s, data |-> data, res |-> WriteUdp(s, data)]

SendIcmp ==
    /\ call = NoCall
    /\ \E s \in [version : {4}, saddr : Words, daddr : Words, id : Words], data \in Contents :
        call' = [op |-> "icmp", arg |-> s, data |-> data, res |-> WriteIcmp(s, data)]

\* A packet of an unknown TCP session is answered by an RST of a session made up on
\* the spot, whose version is always 4
RefuseUnknown ==
    /\ call = NoCall
    /\ \E s \in Sessions :
        call' = [op |-> "rst", arg |-> s, data |-> <<>>,
                 res |-> WriteTcp([s EXCEPT !.version = 4, !.scale = 0], <<>>, FALSE, FALSE)]

PacketsReturn == call # NoCall /\ call' = NoCall

PacketsNext == ReadTun \/ SendTcp \/ SendUdp \/ SendIcmp \/ RefuseUnknown \/ PacketsReturn

-----------------------------------------------------------------------------
(***************************************************************************)
(* Properties.                                                             *)
(***************************************************************************)
\* Every call has its arguments and a result of the kind its C function returns.
PacketsTypeOK ==
    /\ call.op \in {"none", "handle_ip", "tcp", "udp", "icmp", "rst"}
    /\ call.op = "handle_ip" =>
          call.res \in [to : {"none", "tcp", "udp", "icmp"}, payload : Nat]
    /\ call.op \in {"tcp", "udp", "icmp", "rst"} =>
          call.res.check \in Word /\ call.res.ipcheck \in Word

Written == call.op \in {"tcp", "udp", "icmp", "rst"}

\* handle_ip dispatches a packet only when the whole transport header is in it
\* (ip.c:182, 194, 206), unless its IP header claims to be longer than the packet: the
\* difference is unsigned, and ihl is not checked.  A packet of version 6 with an
\* extension header is never dispatched.
PayloadInside ==
    call.op = "handle_ip" /\ call.res.to # "none" =>
        LET p == call.arg
        IN  /\ p.version = 6 => p.chain[1] \in Upper
            /\ \/ Payload(p) + TransportHeader[call.res.to] <= p.length
               \/ p.version = 4 /\ Payload4(p) > p.length

\* The receiver's check, as it is defined: the words with the check among them add up
\* to a multiple of Base^2 - 1 other than 0
Verifies(bytes) ==
    LET sum[i \in 0..Len(bytes)] ==
            IF i = 0 THEN 0 ELSE sum[i - 1] + bytes[i] * (IF (i % 2) = 1 THEN 1 ELSE Base)
    IN  sum[Len(bytes)] > 0 /\ (sum[Len(bytes)] % (Base * Base - 1)) = 0

\* The receiver finds both checksums of every written packet right, whatever the
\* parity of the data and although the sum is taken in pieces (tcp.c:1186-1189,
\* udp.c:503-506).
ChecksumsVerify ==
    Written =>
        LET r == call.res
            payload == IF r.ip.version = 4 THEN r.ip.len - 20 ELSE r.ip.len
            pseudo  == Flat(<<r.ip.src, r.ip.dst, r.ip.proto, payload>>)
        IN  /\ Verifies((IF call.op = "icmp" THEN <<>> ELSE pseudo)
                        \o Flat(r.header) \o Bytes(r.check) \o r.options \o r.data)
            /\ Verifies(Flat(Ip4Words(r.ip) \o <<r.ipcheck>>))

\* The lengths in the headers lead the receiver to the data: total or payload length,
\* data offset and UDP length count the same options and data.
LengthsAgree ==
    Written =>
        LET r == call.res
            payload == IF r.ip.version = 4 THEN r.ip.len - 20 ELSE r.ip.len
        IN  CASE call.op \in {"tcp", "rst"} ->
                     /\ 4 * r.header[5] = 20 + Len(r.options)
                     /\ payload - 4 * r.header[5] = Len(call.data)
              [] call.op = "udp" -> r.header[3] = payload /\ payload - 8 = Len(call.data)
              [] OTHER -> payload - 2 = Len(call.data)

\* A written packet goes from the session's destination to the application that asked,
\* so that its stack finds its socket; only the RST for an unknown session of version 6
\* is written as a packet of version 4 (tcp.c:694).
AnswerReachesAsker ==
    Written =>
        LET r == call.res  s == call.arg
        IN  /\ r.ip.src = s.daddr /\ r.ip.dst = s.saddr
            /\ call.op # "icmp" => r.header[1] = s.dest /\ r.header[2] = s.source
            /\ r.ip.version = s.version \/ (call.op = "rst" /\ s.version = 6)

\* What write_tcp, write_udp and write_icmp hand to the tun device is a packet that the
\* asking application's stack takes: its lengths, its checksums and its addresses are right
\* together.
AnswersAreValid == LengthsAgree /\ ChecksumsVerify /\ AnswerReachesAsker
=============================================================================
