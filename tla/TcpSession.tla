------------------------------ MODULE TcpSession ------------------------------
(***************************************************************************)
(* One TCP session of the native engine (app/src/main/cpp/tcp.c) as the    *)
(* event loop of session.c drives it: the application's packets arrive on  *)
(* the tun device, the session owns one non-blocking socket towards the    *)
(* destination or, for ports 80 and 443, towards the PdaNet HTTP proxy.    *)
(*                                                                         *)
(* One thread runs the loop.  Each turn monitors the session, checks it    *)
(* (unless the last check is less than 100 ms old), waits for events and   *)
(* then works through the batch of events that epoll_wait returned.  What  *)
(* the batch says of the socket was true when epoll_wait returned: packets *)
(* handled earlier in the same batch may have changed the session since.   *)
(*                                                                         *)
(* Sequence numbers of the application are offsets from its initial one:   *)
(* 0 is its SYN, 1..N are its bytes, N+1 is its FIN.  A segment's payload  *)
(* is given by the positions it covers.  Sequence numbers are not reduced  *)
(* modulo 2^32 here; SeqNum says where tcp.c's comparison agrees with <.   *)
(***************************************************************************)
EXTENDS Integers, Sequences

CONSTANTS
    Ports,        \* kinds of destination port: subset of {"direct","http","https"}
    N,            \* bytes the application has to send
    Segments,     \* the segments it may cut them into: records [seq, len]
    SynLens,      \* payload lengths a SYN may carry
    ServerBytes,  \* bytes the server has to send
    Windows,      \* receive windows the application may advertise
    Mss,          \* maximum segment size the application announced
    LocalIsn,     \* the engine's initial sequence number, rand() in handle_tcp
    SendBuf,      \* half of SO_SNDBUF, what get_receive_buffer compares with
    SendErrors,   \* errno values send() may fail with on a healthy socket
    TunResults    \* outcomes of a write to the tun device: {TRUE} or BOOLEAN

ASSUME NAssumption == N \in Nat \ {0}
ASSUME PortsAssumption == Ports \subseteq {"direct", "http", "https"}
ASSUME SegmentsAssumption ==
    Segments \subseteq {s \in [seq : 1..N, len : 1..N] : s.seq + s.len <= N + 1}
ASSUME SynLensAssumption == SynLens \subseteq 0..N
ASSUME ServerBytesAssumption == ServerBytes \in Nat
ASSUME WindowsAssumption == Windows \subseteq Nat
ASSUME MssAssumption == Mss \in Nat \ {0}
ASSUME LocalIsnAssumption == LocalIsn \in Nat
ASSUME SendBufAssumption == SendBuf \in Nat \ {0}
ASSUME SendErrorsAssumption == SendErrors \subseteq {"EAGAIN", "EPIPE"}
ASSUME TunResultsAssumption == TunResults \subseteq BOOLEAN

VARIABLES
    port,          \* kind of destination port of this 4-tuple
    state,         \* tcp.state, "FREE" when no session is in the list
    connect_sent,  \* tcp.connect_sent
    remote_seq,    \* tcp.remote_seq - tcp.remote_start
    local_seq,     \* tcp.local_seq
    acked,         \* tcp.acked
    send_window,   \* tcp.send_window
    recv_window,   \* tcp.recv_window > 0
    forward,       \* tcp.forward, the queue of segments to forward
    expired,       \* tcp.time + timeout < now
    phase,         \* where the thread is in the loop or in check_tcp_socket
    mask,          \* s->ev.events as the last monitoring left them
    ev,            \* the session's entry in the batch of epoll_wait
    room,          \* local variable buffer_size of the forwarding loop
    fwd,           \* local variable fwd of check_tcp_socket
    sock,          \* the socket: "none" (-1), "connecting", "open", "broken"
    obuf,          \* bytes in its send buffer
    rx,            \* bytes readable from it
    eof,           \* the peer closed its side
    reply,         \* the proxy's answer to CONNECT is readable
    server,        \* bytes the server has still to send
    handed,        \* how often each application byte was given to the socket
    lost,          \* bytes dropped because send() failed
    skipped        \* bytes the ack number passed as if they were SYN or FIN

session == <<state, connect_sent, remote_seq, local_seq, acked, send_window,
             recv_window, forward, expired>>
loop    == <<phase, mask, ev, room, fwd>>
socket  == <<sock, obuf, rx, eof, reply, server>>
history == <<handed, lost, skipped>>
vars    == <<port, session, loop, socket, history>>

States == {"FREE", "LISTEN", "SYN_RECV", "ESTABLISHED", "CLOSE_WAIT",
           "FIN_WAIT1", "LAST_ACK", "CLOSING", "CLOSE"}
Events == {"IN", "OUT", "ERR"}
Bytes  == 1..N
FinSeq == N + 1

Proxied == port # "direct"
LiveUnlessSynReceived == state \notin {"FREE", "SYN_RECV", "CLOSING", "CLOSE"}     \* mutant
Live    == state \notin {"FREE", "CLOSING", "CLOSE"}

Init ==
    /\ port \in Ports
    /\ state = "FREE" /\ connect_sent = "NOT_SENT"
    /\ remote_seq = 0 /\ local_seq = LocalIsn /\ acked = 0
    /\ send_window = 0 /\ recv_window = TRUE
    /\ forward = <<>> /\ expired = FALSE
    /\ phase = "monitor" /\ mask = {} /\ ev = {} /\ room = 0 /\ fwd = FALSE
    /\ sock = "none" /\ obuf = 0 /\ rx = 0 /\ eof = FALSE /\ reply = FALSE
    /\ server = ServerBytes
    /\ handed = [p \in Bytes |-> 0] /\ lost = {} /\ skipped = {}

-----------------------------------------------------------------------------
(***************************************************************************)
(* Operators marked "mutant" stand for a plausible mistake in the          *)
(* definition that follows them.  The specification does not use them:     *)
(* replacing that definition by its mutant must break a property.          *)
(***************************************************************************)

(***************************************************************************)
(* Windows and buffers.                                                    *)
(***************************************************************************)
Start(s) == s.seq + s.sent        \* first byte still to forward
End(s)   == s.seq + s.len         \* first byte after the segment

WholeWindow == send_window                                          \* mutant

\* get_send_window
SendWindow ==
    LET behind == IF acked <= local_seq THEN local_seq - acked ELSE acked
    IN  IF behind < send_window THEN send_window - behind ELSE 0

\* get_receive_buffer: what the socket's send buffer still takes
ReceiveBuffer ==
    IF sock = "none" \/ obuf >= SendBuf THEN 0 ELSE SendBuf - obuf

\* get_receive_window, of which only "is it zero" matters here
WindowOpen ==
    LET toforward[i \in 0..Len(forward)] ==
            IF i = 0 THEN 0
            ELSE toforward[i - 1] + (End(forward[i]) - Start(forward[i]))
    IN  toforward[Len(forward)] < ReceiveBuffer

HeadAnyStart(size) ==                                               \* mutant
    forward # <<>> /\ End(forward[1]) - Start(forward[1]) < size

\* The condition of the forwarding loop and of monitor_tcp_session
HeadFits(size) ==
    /\ forward # <<>>
    /\ Start(forward[1]) = remote_seq
    /\ End(forward[1]) - Start(forward[1]) < size

\* The ack number moves over a SYN or a FIN; over anything else it skips a byte
Acknowledge ==
    /\ remote_seq' = remote_seq + 1
    /\ skipped' = skipped \cup ({remote_seq} \cap Bytes)

ResetAndClose == state' = "CLOSE" /\ UNCHANGED <<remote_seq, skipped>>     \* mutant

\* write_rst: acknowledges the SYN when the session is still listening
Reset ==
    /\ state' = IF state = "CLOSE" THEN "CLOSE" ELSE "CLOSING"
    /\ IF state = "LISTEN" THEN Acknowledge
       ELSE UNCHANGED <<remote_seq, skipped>>

-----------------------------------------------------------------------------
(***************************************************************************)
(* The queue of segments to forward, sorted by sequence number.            *)
(***************************************************************************)
PlaceLast(q, seq) == Len(q) + 1                                     \* mutant

\* Index of the first queued segment that does not start before seq
Place(q, seq) ==
    CHOOSE k \in 1..(Len(q) + 1) :
        /\ \A i \in 1..(k - 1) : q[i].seq < seq
        /\ k <= Len(q) => q[k].seq >= seq

\* queue_tcp; next is the session's remote_seq when it is called
Enqueue(q, next, seq, len) ==
    LET k == Place(q, seq)
    IN  IF seq < next THEN q                          \* already forwarded
        ELSE IF k <= Len(q) /\ q[k].seq = seq THEN
            IF q[k].len < len THEN [q EXCEPT ![k].len = len] ELSE q
        ELSE SubSeq(q, 1, k - 1)
             \o <<[seq |-> seq, len |-> len, sent |-> 0]>>
             \o SubSeq(q, k, Len(q))

-----------------------------------------------------------------------------
(***************************************************************************)
(* handle_tcp: a packet of the application read from the tun device.       *)
(***************************************************************************)
\* A session for a SYN whose socket was opened.  SYN data is queued at the SYN's
\* own sequence number.
OpenSession(len, win) ==
    /\ state' = "LISTEN" /\ connect_sent' = "NOT_SENT"
    /\ remote_seq' = 0 /\ local_seq' = LocalIsn /\ acked' = 0
    /\ send_window' = win
    /\ recv_window' = (len < SendBuf)
    /\ forward' = IF len > 0 THEN <<[seq |-> 0, len |-> len, sent |-> 0]>> ELSE <<>>
    /\ expired' = FALSE
    /\ sock' = "connecting" /\ obuf' = 0 /\ rx' = 0
    /\ eof' = FALSE /\ reply' = FALSE /\ server' = ServerBytes
    /\ handed' = [p \in Bytes |-> 0] /\ lost' = {} /\ skipped' = {}

\* Otherwise the session is dropped again ("Remote might retry")
NewSession(len, win) ==
    /\ state = "FREE"
    /\ OpenSession(len, win) \/ UNCHANGED <<session, socket, history>>
    /\ UNCHANGED <<port, loop>>

SendConnectUnchecked ==                                             \* mutant
    /\ connect_sent' = "SENT" /\ state' = "LISTEN"
    /\ UNCHANGED <<remote_seq, skipped>>

\* A proxied port whose CONNECT was not answered yet: the packet triggers the
\* CONNECT request if none was sent, whatever the session's state, and its
\* payload is queued, whatever its flags.
SendConnect ==
    IF connect_sent = "SENT" THEN
        UNCHANGED <<state, connect_sent, remote_seq, skipped>>
    ELSE IF sock = "open" THEN
        /\ connect_sent' = "SENT" /\ state' = "LISTEN"
        /\ UNCHANGED <<remote_seq, skipped>>
    ELSE
        /\ Reset
        /\ UNCHANGED connect_sent

ProxiedPacket(seq, len) ==
    /\ state # "FREE" /\ Proxied /\ connect_sent # "ESTABLISHED"
    /\ SendConnect
    /\ forward' = Enqueue(forward, remote_seq', seq, len)
    /\ UNCHANGED <<port, loop, socket, local_seq, acked, send_window,
                   recv_window, expired, handed, lost>>

EstablishedAtOnce == state # "FREE"                                 \* mutant
Established == state # "FREE" /\ (Proxied => connect_sent = "ESTABLISHED")

\* "was closed": answered with RST, which changes nothing
ClosedPacket ==
    /\ Established /\ ~Live
    /\ UNCHANGED vars

\* What every packet of a live session does first: lines 775-776
Accept(win) ==
    /\ Established /\ Live
    /\ expired' = FALSE
    /\ send_window' = win
    /\ UNCHANGED <<port, loop, socket, connect_sent, local_seq, recv_window,
                   handed, lost>>

\* Data after the local side or the application closed
RefuseData(len, win) ==
    /\ len > 0 /\ (sock = "none" \/ state = "CLOSE_WAIT")
    /\ Accept(win)
    /\ Reset
    /\ UNCHANGED <<acked, forward>>

\* Lines 781-793: payload is queued before the flags are looked at
Queue(seq, len, win) ==
    /\ Accept(win)
    /\ len > 0 => sock # "none" /\ state # "CLOSE_WAIT"
    /\ forward' = IF len > 0 THEN Enqueue(forward, remote_seq, seq, len) ELSE forward

RstPacket(seq, len, win) ==
    /\ Queue(seq, len, win)
    /\ state' = "CLOSING"
    /\ UNCHANGED <<remote_seq, acked, skipped>>

\* "repeated SYN": ignored
RepeatedSyn(len, win) ==
    /\ Queue(0, len, win)
    /\ UNCHANGED <<state, remote_seq, acked, skipped>>

\* FIN that acknowledges everything sent.  Its own sequence number is not
\* looked at; it is acknowledged at once when nothing is queued.
FinPacket(seq, len, num, win) ==
    /\ num = local_seq
    /\ Queue(seq, len, win)
    /\ UNCHANGED acked
    /\ \/ /\ state = "ESTABLISHED" /\ forward' = <<>>
          /\ Acknowledge
          /\ \E ok \in TunResults : state' = IF ok THEN "CLOSE_WAIT" ELSE "CLOSING"
       \/ /\ state = "ESTABLISHED" /\ forward' # <<>>
          /\ state' = "CLOSE_WAIT"
          /\ UNCHANGED <<remote_seq, skipped>>
       \/ /\ state = "FIN_WAIT1"
          /\ Acknowledge
          /\ \E ok \in TunResults : state' = IF ok THEN "CLOSE" ELSE "CLOSING"
       \/ /\ state \notin {"ESTABLISHED", "FIN_WAIT1"}   \* repeated, invalid FIN
          /\ UNCHANGED <<state, remote_seq, skipped>>

AckPacketReopens(seq, len, num, win) ==                             \* mutant
    /\ num = local_seq
    /\ Queue(seq, len, win)
    /\ acked' = num
    /\ state' = IF state = "LAST_ACK" THEN "CLOSING" ELSE "ESTABLISHED"
    /\ UNCHANGED <<remote_seq, skipped>>

\* ACK of everything sent
AckPacket(seq, len, num, win) ==
    /\ num = local_seq
    /\ Queue(seq, len, win)
    /\ acked' = num
    /\ state' = CASE state = "SYN_RECV" -> "ESTABLISHED"
                  [] state = "LAST_ACK" -> "CLOSING"
                  [] OTHER              -> state
    /\ UNCHANGED <<remote_seq, skipped>>

\* ACK (or FIN) with another number: keep alive, previous or repeated ACK
OldAckPacket(seq, len, num, win) ==
    /\ num < local_seq
    /\ Queue(seq, len, win)
    /\ acked' = IF num + 1 # local_seq /\ num > acked THEN num ELSE acked
    /\ UNCHANGED <<state, remote_seq, skipped>>

FutureAckPacket(seq, len, num, win) ==
    /\ num > local_seq
    /\ Queue(seq, len, win)
    /\ Reset
    /\ UNCHANGED acked

\* What the application's stack sends: SYNs, and once a SYN/ACK was written to
\* the tun device its segments, ACKs, FINs and RSTs in any order, repeated or
\* with gaps.  Acknowledgements: none of the data, part of it, all, too much.
AppSyn ==
    \E win \in Windows, len \in SynLens :
        \/ NewSession(len, win)
        \/ ProxiedPacket(0, len)
        \/ ClosedPacket
        \/ RefuseData(len, win)
        \/ RepeatedSyn(len, win)

Synced   == local_seq > LocalIsn
Payloads == Segments \cup {[seq |-> p, len |-> 0] : p \in 1..FinSeq}
Numbers  == {LocalIsn + 1, local_seq - 1, local_seq, local_seq + 1}

AppSegment ==
    /\ Synced
    /\ \E s \in Payloads, win \in Windows, num \in Numbers :
        \/ ProxiedPacket(s.seq, s.len)
        \/ ClosedPacket
        \/ RefuseData(s.len, win)
        \/ AckPacket(s.seq, s.len, num, win)
        \/ s.seq + s.len = FinSeq /\ FinPacket(s.seq, s.len, num, win)
        \/ OldAckPacket(s.seq, s.len, num, win)
        \/ FutureAckPacket(s.seq, s.len, num, win)

\* No session and no SYN: answered with a RST made for the occasion
UnknownPacket == state = "FREE" /\ UNCHANGED vars

AppRst == Synced /\ \E win \in Windows : RstPacket(0, 0, win)

HandleTcp == phase = "batch" /\ (AppSyn \/ AppSegment \/ AppRst)

-----------------------------------------------------------------------------
(***************************************************************************)
(* The event loop: monitor, check, wait, batch.                            *)
(***************************************************************************)
\* The events monitor_tcp_session asks for
Interest ==
    {"ERR"} \cup
    (CASE state = "LISTEN" ->
            IF connect_sent = "SENT" /\ port = "https" THEN {"IN"} ELSE {"OUT"}
       [] state \in {"ESTABLISHED", "CLOSE_WAIT"} ->
            (IF SendWindow > 0 THEN {"IN"} ELSE {})
            \cup (IF HeadFits(ReceiveBuffer) THEN {"OUT"} ELSE {})
       [] OTHER -> {})

\* With a full send window it writes a keep alive, which may fail
KeepAlive == state \in {"ESTABLISHED", "CLOSE_WAIT"} /\ SendWindow = 0

\* A session whose EPOLL_CTL_ADD failed gets no events; its first change of the
\* registered events fails as well and starts closing it
EpollModFails ==
    /\ Interest # {"OUT", "ERR"}
    /\ state' = "CLOSING" /\ mask' = {}

Monitor ==
    /\ phase = "monitor" /\ phase' = "check"
    /\ \/ /\ sock = "none"
          /\ UNCHANGED <<state, mask>>
       \/ /\ sock # "none"
          /\ mask' = Interest
          /\ \/ UNCHANGED state
             \/ KeepAlive /\ FALSE \in TunResults /\ state' = "CLOSING"
       \/ /\ sock # "none"
          /\ EpollModFails
    /\ UNCHANGED <<port, connect_sent, remote_seq, local_seq, acked, send_window,
                   recv_window, forward, expired, ev, room, fwd, socket, history>>

\* session.c 169-172, the last check is less than EPOLL_MIN_CHECK old
SkipCheck ==
    /\ phase = "check" /\ phase' = "wait"
    /\ UNCHANGED <<port, session, mask, ev, room, fwd, socket, history>>

\* check_tcp_session, and the removal from the list when it returns 1
CheckTcpSession ==
    /\ phase = "check" /\ phase' = "wait"
    /\ \/ /\ state = "CLOSING" \/ (Live /\ expired)
          /\ state' = "CLOSE" /\ sock' = "none" /\ expired' = FALSE
          /\ UNCHANGED forward
       \/ /\ state = "CLOSE" /\ expired
          /\ state' = "FREE" /\ forward' = <<>>
          /\ UNCHANGED <<sock, expired>>
       \/ /\ \/ Live /\ ~expired
             \/ state = "CLOSE" /\ ~expired
             \/ state = "FREE"
          /\ UNCHANGED <<state, sock, forward, expired>>
    /\ UNCHANGED <<port, connect_sent, remote_seq, local_seq, acked, send_window,
                   recv_window, mask, ev, room, fwd, obuf, rx, eof, reply, server,
                   history>>

Ready ==
    CASE sock \in {"none", "connecting"} -> {}
      [] sock = "broken" -> Events
      [] sock = "open"   -> (IF obuf < SendBuf THEN {"OUT"} ELSE {})
                            \cup (IF rx > 0 \/ eof \/ reply THEN {"IN"} ELSE {})

\* epoll_wait returns at most EPOLL_EVENTS entries: the session's may wait
EpollWait ==
    /\ phase = "wait" /\ phase' = "batch"
    /\ ev' \in {{}, mask \cap Ready}
    /\ mask' = {}     \* not read again before Monitor recomputes it
    /\ UNCHANGED <<port, session, room, fwd, socket, history>>

EndBatch ==
    /\ phase = "batch" /\ ev = {}
    /\ phase' = "monitor"
    /\ UNCHANGED <<port, session, mask, ev, room, fwd, socket, history>>

-----------------------------------------------------------------------------
(***************************************************************************)
(* check_tcp_socket: the session's event.  In a session that is not        *)
(* listening it forwards queued segments one by one, acknowledges them,    *)
(* then reads from the socket; no packet is handled in between.            *)
(***************************************************************************)
EventPending == phase = "batch" /\ ev # {}

SocketError ==
    /\ EventPending /\ "ERR" \in ev
    /\ Reset
    /\ expired' = FALSE /\ ev' = {}
    /\ UNCHANGED <<port, connect_sent, local_seq, acked, send_window, recv_window,
                   forward, phase, mask, room, fwd, socket, handed, lost>>

\* Readable while listening: whatever the proxy answers to CONNECT is drained
\* and the session is established
ConnectReply ==
    /\ EventPending /\ "ERR" \notin ev
    /\ state = "LISTEN" /\ "IN" \in ev
    /\ ev' = {}
    /\ \/ /\ sock = "open" /\ connect_sent = "SENT"
          /\ connect_sent' = "ESTABLISHED" /\ state' = "ESTABLISHED"
          /\ rx' = 0 /\ reply' = FALSE
          /\ UNCHANGED <<remote_seq, skipped>>
       \/ /\ sock # "open" \/ connect_sent # "SENT"
          /\ Reset
          /\ UNCHANGED <<connect_sent, rx, reply>>
    /\ UNCHANGED <<port, local_seq, acked, send_window, recv_window, forward, expired,
                   phase, mask, room, fwd, sock, obuf, eof, server, handed, lost>>

\* Writable while listening: the socket is connected, answer the SYN
SocketConnected ==
    /\ EventPending /\ ev = {"OUT"} /\ state = "LISTEN"
    /\ ev' = {}
    /\ Acknowledge
    /\ \/ /\ TRUE \in TunResults
          /\ local_seq' = local_seq + 1 /\ state' = "SYN_RECV" /\ expired' = FALSE
       \/ /\ FALSE \in TunResults
          /\ state' = "CLOSING"
          /\ UNCHANGED <<local_seq, expired>>
    /\ UNCHANGED <<port, connect_sent, acked, send_window, recv_window, forward,
                   phase, mask, room, fwd, socket, handed, lost>>

SocketReady ==
    /\ EventPending /\ "ERR" \notin ev /\ state # "LISTEN"
    /\ IF "OUT" \in ev THEN phase' = "forward" /\ room' = ReceiveBuffer
       ELSE phase' = "ack" /\ room' = 0
    /\ UNCHANGED <<port, session, mask, ev, fwd, socket, history>>

\* One turn of the forwarding loop, lines 300-358.  send() takes all of the
\* segment or part of it.  When it fails, its result -1 compares greater than
\* the length (line 325: signed with unsigned), and the segment counts as sent.
SendTakes(sent) ==
    /\ sock = "open"
    /\ obuf' = obuf + sent
    /\ handed' = [p \in Bytes |->
                    IF p \in Start(forward[1])..(Start(forward[1]) + sent - 1)
                    THEN handed[p] + 1 ELSE handed[p]]
    /\ UNCHANGED lost

SendFails(sent) ==
    /\ sock = "broken" \/ SendErrors # {}
    /\ sent = End(forward[1]) - Start(forward[1])
    /\ lost' = lost \cup (Start(forward[1])..(End(forward[1]) - 1))
    /\ UNCHANGED <<obuf, handed>>

ForwardSegment ==
    /\ phase = "forward" /\ HeadFits(room)
    /\ \E sent \in 0..(End(forward[1]) - Start(forward[1])) :
        /\ sent = 0 => End(forward[1]) = Start(forward[1])
        /\ SendTakes(sent) \/ SendFails(sent)
        /\ remote_seq' = Start(forward[1]) + sent
        /\ room' = room - sent
        /\ IF Start(forward[1]) + sent = End(forward[1])
           THEN forward' = Tail(forward) /\ UNCHANGED phase
           ELSE /\ forward' = [forward EXCEPT ![1].sent = @ + sent]
                /\ phase' = "ack"                               \* partial send
    /\ fwd' = TRUE
    /\ UNCHANGED <<port, state, connect_sent, local_seq, acked, send_window,
                   recv_window, expired, mask, ev, sock, rx, eof, reply, server,
                   skipped>>

ForwardDone ==
    /\ phase = "forward" /\ ~HeadFits(room)
    /\ phase' = "ack"
    /\ UNCHANGED <<port, session, mask, ev, room, fwd, socket, history>>

\* Lines 372-388, with the delayed acknowledgement of the application's FIN
AckForwarded ==
    /\ phase = "ack" /\ phase' = "read"
    /\ recv_window' = WindowOpen
    /\ IF fwd \/ (~recv_window /\ WindowOpen)
       THEN /\ IF fwd /\ forward = <<>> /\ state = "CLOSE_WAIT" THEN Acknowledge
               ELSE UNCHANGED <<remote_seq, skipped>>
            /\ \/ TRUE \in TunResults /\ expired' = FALSE /\ UNCHANGED state
               \/ FALSE \in TunResults /\ state' = "CLOSING" /\ UNCHANGED expired
       ELSE UNCHANGED <<remote_seq, skipped, expired, state>>
    /\ UNCHANGED <<port, connect_sent, local_seq, acked, send_window, forward,
                   mask, ev, room, fwd, socket, handed, lost>>

\* Lines 390-446: read at most the send window and one mss, pass it on
MayRead == state \in {"ESTABLISHED", "CLOSE_WAIT"} /\ "IN" \in ev /\ SendWindow > 0
EndEvent == phase = "read" /\ phase' = "batch" /\ ev' = {} /\ room' = 0 /\ fwd' = FALSE

ReadNothing ==
    /\ EndEvent
    /\ ~MayRead
    /\ UNCHANGED <<port, session, mask, socket, history>>

ReadData ==
    /\ EndEvent
    /\ MayRead /\ sock = "open" /\ rx > 0
    /\ expired' = FALSE
    /\ \E n \in 1..rx :
        /\ n <= SendWindow /\ n <= Mss
        /\ n = rx \/ n = SendWindow \/ n = Mss
        /\ rx' = rx - n
        /\ \/ TRUE \in TunResults /\ local_seq' = local_seq + n /\ UNCHANGED state
           \/ FALSE \in TunResults /\ state' = "CLOSING" /\ UNCHANGED local_seq
    /\ UNCHANGED <<port, connect_sent, remote_seq, acked, send_window, recv_window,
                   forward, mask, sock, obuf, eof, reply, server, history>>

SendFin ==
    \/ /\ TRUE \in TunResults
       /\ local_seq' = local_seq + 1
       /\ state' = IF state = "ESTABLISHED" THEN "FIN_WAIT1" ELSE "LAST_ACK"
    \/ FALSE \in TunResults /\ state' = "CLOSING" /\ UNCHANGED local_seq

FinOrReset ==
    IF forward = <<>> THEN SendFin /\ UNCHANGED <<remote_seq, skipped>>
    ELSE Reset /\ UNCHANGED local_seq

\* recv eof: FIN to the application, or RST when segments are still queued;
\* either way the socket is closed here
ReadEof ==
    /\ EndEvent
    /\ MayRead /\ sock = "open" /\ rx = 0 /\ eof
    /\ expired' = FALSE /\ sock' = "none"
    /\ FinOrReset
    /\ UNCHANGED <<port, connect_sent, acked, send_window, recv_window, forward,
                   mask, obuf, rx, eof, reply, server, handed, lost>>

ReadError ==
    /\ EndEvent
    /\ MayRead /\ sock = "broken"
    /\ expired' = FALSE
    /\ Reset
    /\ UNCHANGED <<port, connect_sent, local_seq, acked, send_window, recv_window,
                   forward, mask, socket, handed, lost>>

CheckTcpSocket ==
    \/ SocketError \/ ConnectReply \/ SocketConnected \/ SocketReady
    \/ ForwardSegment \/ ForwardDone \/ AckForwarded
    \/ ReadNothing \/ ReadData \/ ReadEof \/ ReadError

-----------------------------------------------------------------------------
(***************************************************************************)
(* The world around: the kernel's socket, the server or proxy behind it,   *)
(* and time.  The socket is only looked at in the phases below; expired is *)
(* only read by the check that follows "monitor".                          *)
(***************************************************************************)
SocketPhase == phase \in {"wait", "batch", "forward", "ack", "read"}
Outside == UNCHANGED <<port, state, connect_sent, remote_seq, local_seq, acked,
                       send_window, recv_window, forward, loop, history>>

ConnectDone ==
    /\ SocketPhase /\ sock = "connecting"
    /\ sock' \in {"open", "broken"}
    /\ Outside /\ UNCHANGED <<expired, obuf, rx, eof, reply, server>>

SocketBreaks ==
    /\ SocketPhase /\ sock = "open"
    /\ sock' = "broken"
    /\ Outside /\ UNCHANGED <<expired, obuf, rx, eof, reply, server>>

Drain ==
    /\ SocketPhase /\ sock = "open" /\ obuf > 0
    /\ obuf' = obuf - 1
    /\ Outside /\ UNCHANGED <<expired, sock, rx, eof, reply, server>>

\* One answer to the CONNECT request
ProxyReply ==
    /\ SocketPhase /\ sock = "open" /\ Proxied /\ connect_sent = "SENT" /\ ~eof
    /\ ~reply
    /\ reply' = TRUE
    /\ Outside /\ UNCHANGED <<expired, sock, obuf, rx, eof, server>>

\* Behind a CONNECT the server speaks after the application (TLS)
ServerSend ==
    /\ SocketPhase /\ sock = "open" /\ server > 0 /\ ~eof
    /\ Proxied => \E p \in Bytes : handed[p] > 0
    /\ server' = server - 1 /\ rx' = rx + 1
    /\ Outside /\ UNCHANGED <<expired, sock, obuf, eof, reply>>

ServerClose ==
    /\ SocketPhase /\ sock = "open" /\ ~eof
    /\ eof' = TRUE
    /\ Outside /\ UNCHANGED <<expired, sock, obuf, rx, reply, server>>

\* The session's timeout passes without anything refreshing tcp.time
Tick ==
    /\ phase = "monitor" /\ state # "FREE" /\ ~expired
    /\ expired' = TRUE
    /\ Outside /\ UNCHANGED socket

World == ConnectDone \/ SocketBreaks \/ Drain \/ ProxyReply \/ ServerSend
         \/ ServerClose \/ Tick

Loop == Monitor \/ SkipCheck \/ CheckTcpSession \/ EpollWait \/ EndBatch

Next == HandleTcp \/ Loop \/ CheckTcpSocket \/ World

Spec == Init /\ [][Next]_vars

(***************************************************************************)
(* Fairness: the thread never blocks for ever in a turn of the loop (the   *)
(* timeout of epoll_wait is finite, or 100 ms when the session asks for a  *)
(* recheck), a turn whose check is due comes again and again, and time     *)
(* passes.  Nothing is assumed of the application, the server, the socket. *)
(***************************************************************************)
Fairness ==
    /\ WF_vars(Loop)
    /\ WF_vars(CheckTcpSocket)
    /\ SF_vars(CheckTcpSession)
    /\ SF_vars(Tick)

FairSpec == Spec /\ Fairness

-----------------------------------------------------------------------------
(***************************************************************************)
(* Properties.                                                             *)
(***************************************************************************)
Segment == [seq : Nat, len : Nat, sent : Nat]

\* Every variable has the type of the C field or local it stands for.
TypeOK ==
    /\ port \in Ports
    /\ state \in States
    /\ connect_sent \in {"NOT_SENT", "SENT", "ESTABLISHED"}
    /\ remote_seq \in Nat /\ local_seq \in Nat /\ acked \in Nat
    /\ send_window \in Nat /\ recv_window \in BOOLEAN
    /\ forward \in Seq(Segment)
    /\ expired \in BOOLEAN
    /\ phase \in {"monitor", "check", "wait", "batch", "forward", "ack", "read"}
    /\ mask \in SUBSET Events /\ ev \in SUBSET Events
    /\ room \in Nat /\ fwd \in BOOLEAN
    /\ sock \in {"none", "connecting", "open", "broken"}
    /\ obuf \in Nat /\ rx \in Nat /\ server \in Nat
    /\ eof \in BOOLEAN /\ reply \in BOOLEAN
    /\ handed \in [Bytes -> Nat]
    /\ lost \in SUBSET Nat /\ skipped \in SUBSET Bytes

\* A session that is freed, waits to be freed, or sent its FIN owns no socket
\* any more: the descriptor is closed on every path into these states.
SocketReleased ==
    state \in {"FREE", "FIN_WAIT1", "LAST_ACK", "CLOSE"} => sock = "none"

\* An event in the batch is never handled for a socket closed in the meantime:
\* handle_tcp closes none, and check_tcp_socket handles each session once.
EventHasSocket == ev # {} => sock # "none"

\* A descriptor is closed once and on time (tcp.c:63-76, 427-439, session.c:95-115, 242-250).
SocketSafety == SocketReleased /\ EventHasSocket

\* queue_tcp keeps the queue strictly sorted, and only its head is partly sent,
\* so that forwarding the head first forwards the stream in order.
QueueSorted ==
    /\ \A i, j \in 1..Len(forward) : i < j => forward[i].seq < forward[j].seq
    /\ \A i \in 2..Len(forward) : forward[i].sent = 0

\* The ack number given to the application covers only bytes that were handed
\* to the socket exactly once, or that a failed send() dropped (line 325), or
\* that it passed as if they were a SYN or FIN (lines 287, 384, 811, 821, 1075);
\* no byte at or beyond it was handed over yet.
AckedBytesAccounted ==
    \A p \in Bytes :
        IF p < remote_seq
        THEN \/ handed[p] = 1 /\ p \notin lost \cup skipped
             \/ handed[p] = 0 /\ p \in lost \cup skipped
        ELSE handed[p] = 0 /\ p \notin lost \cup skipped

\* As long as the session is established no byte was skipped: only a FIN that
\* overtakes data, or a second answer to the SYN, makes that happen.
EstablishedSkipsNothing == state = "ESTABLISHED" => skipped = {}

\* A proxied session gives the proxy nothing of the application's stream before
\* CONNECT was answered; and it is never answered on port 80, where the session
\* waits for EPOLLOUT instead of the answer (line 99).
ConnectFirst ==
    \A p \in Bytes : Proxied /\ handed[p] > 0 =>
        connect_sent = "ESTABLISHED" /\ port = "https"

\* The engine sends its FIN only when nothing is left to forward, and queues
\* nothing afterwards.
FinAfterQueue == state \in {"FIN_WAIT1", "LAST_ACK"} => forward = <<>>

\* The queue holds the stream in order and is empty when the stream has ended, however
\* segments overlap, repeat or arrive with gaps (tcp.c:427-439, 905-960).
QueueInOrder == QueueSorted /\ FinAfterQueue

\* Bytes in flight towards the application stay within the window it advertised
\* last, also when a packet of the same batch shrank it (line 394).
FlowControl ==
    [][phase = "read" /\ local_seq' # local_seq => local_seq' - acked <= send_window]_vars

\* A closed session stays closed until it is freed: no packet or event revives
\* it, although the CONNECT path sets TCP_LISTEN in any state (line 736).
ClosedStaysClosed == [][state = "CLOSE" => state' \in {"CLOSE", "FREE"}]_vars

\* A segment that send() refuses for the moment is kept and sent later
\* ("Retry later", tcp.c:333): nothing is dropped while the socket is healthy.
RetryLater == [][sock = "open" => lost' = lost]_vars

Fate == [p \in Bytes |-> IF handed[p] > 0 THEN "given"
                         ELSE IF p \in lost THEN "lost"
                         ELSE IF p \in skipped THEN "passed" ELSE "waiting"]

Relay == INSTANCE ByteRelay WITH connected <- sock # "none", next <- remote_seq, fate <- Fate

\* The session is a relay of bytes: whatever order packets, acknowledgements and events of
\* the socket come in, bytes go to the socket in the order of the stream, each settled once
\* and never again, and none after the socket is closed (tcp.c:300-358).
RelaysBytes == Relay!Spec

\* When the application falls silent every session is torn down and freed.
EventuallyFreed == <>[][~HandleTcp]_vars => []<>(state = "FREE")
=============================================================================
