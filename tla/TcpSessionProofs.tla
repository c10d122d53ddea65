--------------------------- MODULE TcpSessionProofs ---------------------------
(***************************************************************************)
(* Theorems about one TCP session, for every number of bytes, every way of *)
(* cutting them into segments, every window and every buffer size.         *)
(***************************************************************************)
EXTENDS TcpSession, SequenceTheorems, WellFoundedInduction, TLAPS

\* A non-empty set of natural numbers has a least element.
LEMMA Least ==
    ASSUME NEW S \in SUBSET Nat, S # {}
    PROVE  \E n \in S : \A m \in S : n <= m
<1>1. \E n \in S : \A m \in S : <<m, n>> \notin OpToRel(<, Nat)
  BY NatLessThanWellFounded, WFMin
<1>2. ASSUME NEW n \in S, NEW m \in S, <<m, n>> \notin OpToRel(<, Nat)
      PROVE  n <= m
  BY <1>2 DEF OpToRel
<1> QED
  BY <1>1, <1>2

\* queue_tcp finds a place in every queue: behind the segments that start before
\* seq and before the first that does not.
LEMMA PlaceInQueue ==
    ASSUME NEW q \in Seq(Segment), NEW seq \in Nat
    PROVE  /\ Place(q, seq) \in 1..(Len(q) + 1)
           /\ \A i \in 1..(Place(q, seq) - 1) : q[i].seq < seq
           /\ Place(q, seq) <= Len(q) => q[Place(q, seq)].seq >= seq
<1> DEFINE S == {k \in 1..(Len(q) + 1) : k <= Len(q) => q[k].seq >= seq}
<1>1. S \in SUBSET Nat /\ Len(q) + 1 \in S
  BY LenProperties
<1>2. PICK k \in S : \A m \in S : k <= m
  BY <1>1, Least
<1>3. ASSUME NEW i \in 1..(k - 1)
      PROVE  q[i].seq < seq
  <2>1. i \in 1..Len(q) /\ i \notin S
    BY <1>1, <1>2
  <2>2. q[i].seq \in Nat
    <3>1. q[i] \in Segment
      BY <2>1, ElementOfSeq
    <3> HIDE DEF S
    <3> QED
      BY <3>1 DEF Segment
  <2>3. ~(i <= Len(q) => q[i].seq >= seq)
    <3>1. i \in 1..(Len(q) + 1)
      BY <2>1, LenProperties
    <3>2. \A x \in 1..(Len(q) + 1) : x \notin S => ~(x <= Len(q) => q[x].seq >= seq)
      BY Zenon
    <3> HIDE DEF S
    <3> QED
      BY <2>1, <3>1, <3>2, Zenon
  <2> HIDE DEF S
  <2> QED
    BY <2>1, <2>2, <2>3
<1> QED
  BY <1>2, <1>3 DEF Place

\* Queuing keeps the queue a sequence of segments.
LEMMA EnqueueType ==
    ASSUME NEW q \in Seq(Segment), NEW next \in Nat, NEW seq \in Nat, NEW len \in Nat
    PROVE  Enqueue(q, next, seq, len) \in Seq(Segment)
<1> DEFINE k == Place(q, seq)
<1>1. k \in 1..(Len(q) + 1)
  BY PlaceInQueue
<1>2. CASE k <= Len(q) /\ q[k].seq = seq
  <2> DEFINE e == [q[k] EXCEPT !.len = len]
  <2>1. k \in 1..Len(q) /\ q[k] \in Segment
    BY <1>1, <1>2, ElementOfSeq
  <2>2. e \in Segment
    BY <2>1 DEF Segment
  <2>3. [q EXCEPT ![k] = e] \in Seq(Segment)
    BY <2>1, <2>2, ExceptSeq
  <2>4. [q EXCEPT ![k].len = len] = [q EXCEPT ![k] = e]
    OBVIOUS
  <2> QED
    BY <1>2, <2>3, <2>4 DEF Enqueue
<1>3. CASE ~(k <= Len(q) /\ q[k].seq = seq)
  <2> DEFINE new == <<[seq |-> seq, len |-> len, sent |-> 0]>>
  <2>1. new \in Seq(Segment)
    BY DEF Segment
  <2>2. \A i \in 1..Len(q) : q[i] \in Segment
    BY ElementOfSeq
  <2>3. SubSeq(q, 1, k - 1) \in Seq(Segment) /\ SubSeq(q, k, Len(q)) \in Seq(Segment)
    BY <1>1, <2>2, LenProperties, SubSeqProperties
  <2>4. SubSeq(q, 1, k - 1) \o new \o SubSeq(q, k, Len(q)) \in Seq(Segment)
    BY <2>1, <2>3, ConcatProperties
  <2> QED
    BY <1>3, <2>4 DEF Enqueue
<1> QED
  BY <1>2, <1>3

-----------------------------------------------------------------------------
(***************************************************************************)
(* Type correctness.                                                       *)
(***************************************************************************)
LEMMA ReceiveBufferType ==
    ASSUME TypeOK
    PROVE  ReceiveBuffer \in Nat
  BY SendBufAssumption DEF TypeOK, ReceiveBuffer

LEMMA HeadType ==
    ASSUME TypeOK, forward # <<>>
    PROVE  /\ forward[1] \in Segment
           /\ Start(forward[1]) \in Nat /\ End(forward[1]) \in Nat
           /\ Tail(forward) \in Seq(Segment)
<1>1. 1 \in 1..Len(forward)
  BY EmptySeq, LenProperties DEF TypeOK
<1>2. forward[1] \in Segment
  BY <1>1, ElementOfSeq DEF TypeOK
<1> QED
  BY <1>2, HeadTailProperties DEF TypeOK, Segment, Start, End

\* What passing a SYN or FIN and resetting do to the variables they write.
LEMMA AcknowledgeType ==
    ASSUME TypeOK, Acknowledge
    PROVE  remote_seq' \in Nat /\ skipped' \in SUBSET Bytes
  BY DEF TypeOK, Acknowledge

LEMMA ResetType ==
    ASSUME TypeOK, Reset
    PROVE  /\ remote_seq' \in Nat /\ skipped' \in SUBSET Bytes
           /\ state' \in States
<1>1. state' \in States
  BY DEF TypeOK, Reset, States
<1> QED
  BY <1>1, AcknowledgeType DEF TypeOK, Reset

LEMMA TypeInit == Init => TypeOK
<1> SUFFICES ASSUME Init PROVE TypeOK
  OBVIOUS
<1> USE DEF Init
<1>1. state \in States
  BY DEF States
<1>2. forward \in Seq(Segment)
  BY EmptySeq
<1>3. mask \in SUBSET Events /\ ev \in SUBSET Events
  BY DEF Events
<1>4. handed \in [Bytes -> Nat] /\ lost \in SUBSET Nat /\ skipped \in SUBSET Bytes
  OBVIOUS
<1>5. recv_window \in BOOLEAN /\ expired \in BOOLEAN /\ fwd \in BOOLEAN
      /\ eof \in BOOLEAN /\ reply \in BOOLEAN
  OBVIOUS
<1> QED
  BY <1>1, <1>2, <1>3, <1>4, <1>5, ServerBytesAssumption, LocalIsnAssumption DEF TypeOK

\* What a packet of a live session may write: TypeOK holds if these keep their types.
LEMMA PacketTypes ==
    ASSUME TypeOK,
           UNCHANGED <<port, loop, socket, connect_sent, local_seq, recv_window, handed, lost>>,
           state' \in States, remote_seq' \in Nat, acked' \in Nat, skipped' \in SUBSET Bytes,
           send_window' \in Nat, forward' \in Seq(Segment), expired' \in BOOLEAN
    PROVE  TypeOK'
<1>1. UNCHANGED <<phase, mask, ev, room, fwd, sock, obuf, rx, eof, reply, server>>
  BY DEF loop, socket
<1>2. /\ (port \in Ports)' /\ (connect_sent \in {"NOT_SENT", "SENT", "ESTABLISHED"})'
      /\ (local_seq \in Nat)' /\ (recv_window \in BOOLEAN)'
      /\ (handed \in [Bytes -> Nat])' /\ (lost \in SUBSET Nat)'
  BY DEF TypeOK
<1>3. /\ (phase \in {"monitor", "check", "wait", "batch", "forward", "ack", "read"})'
      /\ (mask \in SUBSET Events)' /\ (ev \in SUBSET Events)'
      /\ (room \in Nat)' /\ (fwd \in BOOLEAN)'
  BY <1>1 DEF TypeOK
<1>4. /\ (sock \in {"none", "connecting", "open", "broken"})'
      /\ (obuf \in Nat)' /\ (rx \in Nat)' /\ (server \in Nat)'
      /\ (eof \in BOOLEAN)' /\ (reply \in BOOLEAN)'
  BY <1>1 DEF TypeOK
<1> QED
  BY <1>2, <1>3, <1>4 DEF TypeOK

\* What Queue writes.
LEMMA QueueTypes ==
    ASSUME TypeOK, NEW seq \in Nat, NEW len \in Nat, NEW win \in Nat, Queue(seq, len, win)
    PROVE  /\ forward' \in Seq(Segment) /\ send_window' \in Nat /\ expired' \in BOOLEAN
           /\ UNCHANGED <<port, loop, socket, connect_sent, local_seq, recv_window, handed, lost>>
<1>1. Enqueue(forward, remote_seq, seq, len) \in Seq(Segment) /\ forward \in Seq(Segment)
  BY EnqueueType DEF TypeOK
<1>2. forward' \in Seq(Segment)
  BY <1>1 DEF Queue
<1> QED
  BY <1>2 DEF Queue, Accept

\* Packets of the application.
LEMMA TypeAppPacket ==
    ASSUME TypeOK, HandleTcp
    PROVE  TypeOK'
<1>1. \A win \in Windows : win \in Nat
  BY WindowsAssumption
<1>2. \A len \in SynLens : len \in Nat
  BY SynLensAssumption, NAssumption
<1>3. \A s \in Payloads : s.seq \in Nat /\ s.len \in Nat
  BY SegmentsAssumption, NAssumption DEF Payloads, FinSeq
<1>4. ASSUME NEW len \in Nat, NEW win \in Nat, NewSession(len, win)
      PROVE  TypeOK'
  <2>1. CASE UNCHANGED <<session, socket, history>>
    BY <1>4, <2>1 DEF NewSession, loop, session, socket, history, TypeOK
  <2>2. CASE OpenSession(len, win)
    <3>1. forward' \in Seq(Segment)
      <4>1. <<[seq |-> 0, len |-> len, sent |-> 0]>> \in Seq(Segment)
        BY DEF Segment
      <4> QED
        BY <2>2, <4>1, EmptySeq DEF OpenSession
    <3>2. recv_window' \in BOOLEAN
      <4>1. (len < SendBuf) \in BOOLEAN
        BY SendBufAssumption
      <4> QED
        BY <2>2, <4>1 DEF OpenSession, TypeOK
    <3>3. handed' \in [Bytes -> Nat] /\ lost' \in SUBSET Nat /\ skipped' \in SUBSET Bytes
      BY <2>2 DEF OpenSession, TypeOK
    <3>4. /\ local_seq' \in Nat /\ server' \in Nat /\ remote_seq' \in Nat
          /\ acked' \in Nat /\ send_window' \in Nat /\ obuf' \in Nat /\ rx' \in Nat
      BY <2>2, LocalIsnAssumption, ServerBytesAssumption DEF OpenSession, TypeOK
    <3>5. expired' \in BOOLEAN /\ eof' \in BOOLEAN /\ reply' \in BOOLEAN
      BY <2>2 DEF OpenSession, TypeOK
    <3>6. /\ state' \in States /\ connect_sent' = "NOT_SENT" /\ sock' = "connecting"
      BY <2>2 DEF OpenSession, States
    <3>7. UNCHANGED <<port, loop>>
      BY <1>4 DEF NewSession
    <3> QED
      BY <3>1, <3>2, <3>3, <3>4, <3>5, <3>6, <3>7 DEF loop, TypeOK
  <2> QED
    BY <1>4, <2>1, <2>2 DEF NewSession
<1>5. ASSUME NEW seq \in Nat, NEW len \in Nat, ProxiedPacket(seq, len)
      PROVE  TypeOK'
  <2>1. /\ state' \in States /\ connect_sent' \in {"NOT_SENT", "SENT", "ESTABLISHED"}
        /\ remote_seq' \in Nat /\ skipped' \in SUBSET Bytes
    BY <1>5, ResetType DEF ProxiedPacket, SendConnect, States, TypeOK
  <2>2. forward' \in Seq(Segment)
    BY <1>5, <2>1, EnqueueType DEF ProxiedPacket, TypeOK
  <2> QED
    BY <1>5, <2>1, <2>2 DEF ProxiedPacket, loop, socket, TypeOK
<1>6. ASSUME UNCHANGED vars
      PROVE  TypeOK'
  BY <1>6 DEF vars, session, loop, socket, history, TypeOK
<1>7. ASSUME NEW len \in Nat, NEW win \in Nat, RefuseData(len, win)
      PROVE  TypeOK'
  <2>1. Accept(win) /\ Reset /\ UNCHANGED <<acked, forward>>
    BY <1>7 DEF RefuseData
  <2>2. state' \in States /\ remote_seq' \in Nat /\ skipped' \in SUBSET Bytes
    BY <2>1, ResetType
  <2>3. acked' \in Nat /\ forward' \in Seq(Segment)
    BY <2>1 DEF TypeOK
  <2>4. /\ send_window' \in Nat /\ expired' \in BOOLEAN
        /\ UNCHANGED <<port, loop, socket, connect_sent, local_seq, recv_window, handed, lost>>
    BY <2>1 DEF Accept
  <2> QED
    BY <2>2, <2>3, <2>4, PacketTypes
<1>8. /\ state \in States /\ remote_seq \in Nat /\ acked \in Nat /\ skipped \in SUBSET Bytes
  BY DEF TypeOK
<1>9. ASSUME NEW seq \in Nat, NEW len \in Nat, NEW win \in Nat, RstPacket(seq, len, win)
      PROVE  TypeOK'
  <2>1. Queue(seq, len, win)
    BY <1>9 DEF RstPacket
  <2>2. state' \in States /\ remote_seq' \in Nat /\ acked' \in Nat /\ skipped' \in SUBSET Bytes
    BY <1>8, <1>9 DEF RstPacket, States
  <2> QED
    BY <2>1, <2>2, QueueTypes, PacketTypes
<1>10. ASSUME NEW len \in Nat, NEW win \in Nat, RepeatedSyn(len, win)
       PROVE  TypeOK'
  <2>1. Queue(0, len, win) /\ 0 \in Nat
    BY <1>10 DEF RepeatedSyn
  <2>2. state' \in States /\ remote_seq' \in Nat /\ acked' \in Nat /\ skipped' \in SUBSET Bytes
    BY <1>8, <1>10 DEF RepeatedSyn
  <2> QED
    BY <2>1, <2>2, QueueTypes, PacketTypes
<1>11. ASSUME NEW seq \in Nat, NEW len \in Nat, NEW win \in Nat, NEW num \in Numbers,
              FinPacket(seq, len, num, win)
       PROVE  TypeOK'
  <2>1. state' \in States /\ remote_seq' \in Nat /\ skipped' \in SUBSET Bytes
    BY <1>8, <1>11, AcknowledgeType DEF FinPacket, States
  <2>2. Queue(seq, len, win) /\ acked' \in Nat
    BY <1>8, <1>11 DEF FinPacket
  <2> QED
    BY <2>1, <2>2, QueueTypes, PacketTypes
<1>12. ASSUME NEW seq \in Nat, NEW len \in Nat, NEW win \in Nat, NEW num \in Numbers,
              AckPacket(seq, len, num, win)
       PROVE  TypeOK'
  <2>1. Queue(seq, len, win) /\ num = local_seq /\ acked' = num
    BY <1>12 DEF AckPacket
  <2>2. state' \in States /\ remote_seq' \in Nat /\ skipped' \in SUBSET Bytes
    BY <1>8, <1>12 DEF AckPacket, States
  <2>3. acked' \in Nat
    BY <2>1 DEF TypeOK
  <2> QED
    BY <2>1, <2>2, <2>3, QueueTypes, PacketTypes
<1>13. ASSUME NEW seq \in Nat, NEW len \in Nat, NEW win \in Nat, NEW num \in Numbers,
              OldAckPacket(seq, len, num, win)
       PROVE  TypeOK'
  <2>1. Queue(seq, len, win)
    BY <1>13 DEF OldAckPacket
  <2>2. acked' = acked \/ (acked' = num /\ num > acked)
    BY <1>13 DEF OldAckPacket
  <2>3. num \in Int /\ acked \in Nat
    BY LocalIsnAssumption DEF Numbers, TypeOK
  <2>4. acked' \in Nat
    BY <2>2, <2>3
  <2>5. state' \in States /\ remote_seq' \in Nat /\ skipped' \in SUBSET Bytes
    BY <1>8, <1>13 DEF OldAckPacket
  <2> QED
    BY <2>1, <2>4, <2>5, QueueTypes, PacketTypes
<1>14. ASSUME NEW seq \in Nat, NEW len \in Nat, NEW win \in Nat, NEW num \in Numbers,
              FutureAckPacket(seq, len, num, win)
       PROVE  TypeOK'
  <2>1. Queue(seq, len, win) /\ Reset /\ acked' = acked
    BY <1>14 DEF FutureAckPacket
  <2>2. state' \in States /\ remote_seq' \in Nat /\ skipped' \in SUBSET Bytes
    BY <2>1, ResetType
  <2>3. acked' \in Nat
    BY <1>8, <2>1
  <2> QED
    BY <2>1, <2>2, <2>3, QueueTypes, PacketTypes
<1>15. CASE AppSyn
  BY <1>1, <1>2, <1>4, <1>5, <1>6, <1>7, <1>10, <1>15 DEF AppSyn, ClosedPacket
<1>16. CASE AppSegment
  BY <1>1, <1>3, <1>5, <1>6, <1>7, <1>11, <1>12, <1>13, <1>14, <1>16
     DEF AppSegment, ClosedPacket, UnknownPacket
<1>17. CASE AppRst
  BY <1>1, <1>9, <1>17 DEF AppRst
<1> QED
  BY <1>15, <1>16, <1>17 DEF HandleTcp

\* The turn of the event loop around the batch.
LEMMA TypeLoop ==
    ASSUME TypeOK, Loop
    PROVE  TypeOK'
<1> USE DEF TypeOK
<1>1. CASE Monitor
  <2>1. Interest \in SUBSET Events /\ {} \in SUBSET Events
    BY DEF Interest, Events
  <2>2. mask' \in SUBSET Events /\ state' \in States
    BY <1>1, <2>1 DEF Monitor, EpollModFails, States
  <2> QED
    BY <1>1, <2>2 DEF Monitor, socket, history
<1>2. CASE SkipCheck
  BY <1>2 DEF SkipCheck, session, socket, history
<1>3. CASE CheckTcpSession
  <2>1. state' \in States /\ forward' \in Seq(Segment) /\ expired' \in BOOLEAN
        /\ sock' \in {"none", "connecting", "open", "broken"}
    BY <1>3, EmptySeq DEF CheckTcpSession, States
  <2> QED
    BY <1>3, <2>1 DEF CheckTcpSession, history
<1>4. CASE EpollWait
  <2>1. mask' \in SUBSET Events /\ ev' \in SUBSET Events
    BY <1>4 DEF EpollWait
  <2> QED
    BY <1>4, <2>1 DEF EpollWait, session, socket, history
<1>5. CASE EndBatch
  BY <1>5 DEF EndBatch, session, socket, history
<1> QED
  BY <1>1, <1>2, <1>3, <1>4, <1>5 DEF Loop

\* The session's event.
LEMMA TypeSocket ==
    ASSUME TypeOK, CheckTcpSocket
    PROVE  TypeOK'
<1> USE DEF TypeOK
<1>1. CASE SocketError
  <2> HIDE DEF TypeOK
  <2>1. Reset /\ expired' = FALSE /\ ev' = {}
    BY <1>1 DEF SocketError
  <2>2. state' \in States /\ remote_seq' \in Nat /\ skipped' \in SUBSET Bytes
    BY <2>1, ResetType
  <2>3. UNCHANGED <<port, connect_sent, local_seq, acked, send_window, recv_window, forward,
                    phase, mask, room, fwd, sock, obuf, rx, eof, reply, server, handed, lost>>
    BY <1>1 DEF SocketError, socket
  <2>4. /\ (forward \in Seq(Segment))' /\ (port \in Ports)' /\ (handed \in [Bytes -> Nat])'
        /\ (connect_sent \in {"NOT_SENT", "SENT", "ESTABLISHED"})' /\ (lost \in SUBSET Nat)'
        /\ (local_seq \in Nat)' /\ (acked \in Nat)' /\ (send_window \in Nat)'
        /\ (recv_window \in BOOLEAN)'
    BY <2>3 DEF TypeOK
  <2>5. /\ (phase \in {"monitor", "check", "wait", "batch", "forward", "ack", "read"})'
        /\ (mask \in SUBSET Events)' /\ (room \in Nat)' /\ (fwd \in BOOLEAN)'
        /\ (sock \in {"none", "connecting", "open", "broken"})'
        /\ (obuf \in Nat)' /\ (rx \in Nat)' /\ (server \in Nat)'
        /\ (eof \in BOOLEAN)' /\ (reply \in BOOLEAN)'
    BY <2>3 DEF TypeOK
  <2>6. expired' \in BOOLEAN /\ ev' \in SUBSET Events
    BY <2>1
  <2> QED
    BY <2>2, <2>4, <2>5, <2>6 DEF TypeOK
<1>2. CASE ConnectReply
  <2>1. CASE Reset /\ UNCHANGED <<connect_sent, rx, reply>>
    BY <1>2, <2>1, ResetType DEF ConnectReply
  <2>2. CASE /\ connect_sent' = "ESTABLISHED" /\ state' = "ESTABLISHED"
             /\ rx' = 0 /\ reply' = FALSE
             /\ UNCHANGED <<remote_seq, skipped>>
    BY <1>2, <2>2 DEF ConnectReply, States
  <2> QED
    BY <1>2, <2>1, <2>2 DEF ConnectReply
<1>3. CASE SocketConnected
  <2>1. state' \in States
    BY <1>3 DEF SocketConnected, States
  <2>2. local_seq' \in Nat
    <3>1. local_seq' = local_seq + 1 \/ local_seq' = local_seq
      BY <1>3, Zenon DEF SocketConnected
    <3> QED
      BY <3>1
  <2>3. expired' \in BOOLEAN
    BY <1>3 DEF SocketConnected
  <2> QED
    BY <1>3, <2>1, <2>2, <2>3, AcknowledgeType DEF SocketConnected, socket
<1>4. CASE SocketReady
  BY <1>4, ReceiveBufferType DEF SocketReady, session, socket, history
<1>5. CASE ForwardSegment
  <2>1. forward # <<>> /\ End(forward[1]) - Start(forward[1]) < room
    BY <1>5 DEF ForwardSegment, HeadFits
  <2>2. PICK sent \in 0..(End(forward[1]) - Start(forward[1])) :
           /\ SendTakes(sent) \/ SendFails(sent)
           /\ remote_seq' = Start(forward[1]) + sent
           /\ room' = room - sent
           /\ IF Start(forward[1]) + sent = End(forward[1])
              THEN forward' = Tail(forward) /\ UNCHANGED phase
              ELSE /\ forward' = [forward EXCEPT ![1].sent = @ + sent]
                   /\ phase' = "ack"
    BY <1>5 DEF ForwardSegment
  <2> DEFINE first == Start(forward[1])
             last  == End(forward[1])
  <2>3. first \in Nat /\ last \in Nat /\ sent \in Nat /\ sent <= last - first
    BY <2>1, <2>2, HeadType
  <2>3a. remote_seq' \in Nat /\ room' \in Nat
    <3>1. room \in Nat /\ last - first < room
      BY <2>1
    <3>2. remote_seq' = first + sent /\ room' = room - sent
      BY <2>2
    <3> HIDE DEF TypeOK, first, last
    <3>3. first + sent \in Nat /\ room - sent \in Nat
      BY <2>3, <3>1
    <3> QED
      BY <3>2, <3>3
  <2>4. forward' \in Seq(Segment)
    <3> DEFINE rest == [forward[1] EXCEPT !.sent = @ + sent]
    <3>1. rest \in Segment
      <4>1. forward[1] \in [seq : Nat, len : Nat, sent : Nat]
        BY <2>1, HeadType DEF Segment
      <4>2. forward[1].sent + sent \in Nat
        BY <2>3, <4>1
      <4> QED
        BY <4>1, <4>2 DEF Segment
    <3>2. [forward EXCEPT ![1] = rest] \in Seq(Segment)
      BY <2>1, <3>1, ExceptSeq, EmptySeq, LenProperties
    <3>3. [forward EXCEPT ![1].sent = @ + sent] = [forward EXCEPT ![1] = rest]
      OBVIOUS
    <3> QED
      BY <2>1, <2>2, <3>2, <3>3, HeadType
  <2>5. CASE SendTakes(sent)
    <3>1. obuf' \in Nat /\ lost' \in SUBSET Nat
      BY <2>3, <2>5 DEF SendTakes
    <3>2. handed' \in [Bytes -> Nat]
      BY <2>5 DEF SendTakes
    <3> QED
      BY <1>5, <2>2, <2>3a, <2>4, <3>1, <3>2 DEF ForwardSegment
  <2>6. CASE SendFails(sent)
    <3>1. lost' \in SUBSET Nat
      <4>1. first..(last - 1) \in SUBSET Nat
        BY <2>3
      <4> QED
        BY <2>6, <4>1 DEF SendFails
    <3> QED
      BY <1>5, <2>2, <2>3a, <2>4, <2>6, <3>1 DEF ForwardSegment, SendFails
  <2> QED
    BY <2>2, <2>5, <2>6
<1>6. CASE ForwardDone
  BY <1>6 DEF ForwardDone, session, socket, history
<1>7. CASE AckForwarded
  <2>1. WindowOpen \in BOOLEAN
    BY DEF WindowOpen
  <2>2. state' \in States /\ expired' \in BOOLEAN
    BY <1>7 DEF AckForwarded, States
  <2>3. remote_seq' \in Nat /\ skipped' \in SUBSET Bytes
    BY <1>7, AcknowledgeType DEF AckForwarded
  <2> QED
    BY <1>7, <2>1, <2>2, <2>3 DEF AckForwarded, socket
<1>8. CASE ReadNothing
  BY <1>8 DEF ReadNothing, EndEvent, session, socket, history
<1>9. CASE ReadData
  <2>1. PICK n \in 1..rx :
           /\ rx' = rx - n
           /\ \/ local_seq' = local_seq + n /\ UNCHANGED state
              \/ state' = "CLOSING" /\ UNCHANGED local_seq
    BY <1>9 DEF ReadData
  <2>2. rx' \in Nat /\ local_seq' \in Nat
    BY <2>1
  <2>3. state' \in States
    BY <2>1 DEF States
  <2> QED
    BY <1>9, <2>2, <2>3 DEF ReadData, EndEvent, history
<1>10. CASE ReadEof
  <2>1. CASE forward = <<>>
    <3>1. state' \in States
      BY <1>10, <2>1 DEF ReadEof, FinOrReset, SendFin, States
    <3>2. local_seq' \in Nat
      <4>1. local_seq' = local_seq + 1 \/ local_seq' = local_seq
        BY <1>10, <2>1, Zenon DEF ReadEof, FinOrReset, SendFin
      <4> QED
        BY <4>1
    <3> QED
      BY <1>10, <2>1, <3>1, <3>2 DEF ReadEof, FinOrReset, SendFin, EndEvent
  <2>2. CASE forward # <<>>
    BY <1>10, <2>2, ResetType DEF ReadEof, FinOrReset, SendFin, EndEvent
  <2> QED
    BY <2>1, <2>2
<1>11. CASE ReadError
  BY <1>11, ResetType DEF ReadError, EndEvent, socket
<1> QED
  BY <1>1, <1>2, <1>3, <1>4, <1>5, <1>6, <1>7, <1>8, <1>9, <1>10, <1>11
     DEF CheckTcpSocket

\* The socket, the server and time.
LEMMA TypeWorld ==
    ASSUME TypeOK, World
    PROVE  TypeOK'
<1> USE DEF TypeOK, Outside, loop, history
<1>1. CASE ConnectDone
  BY <1>1 DEF ConnectDone
<1>2. CASE SocketBreaks
  BY <1>2 DEF SocketBreaks
<1>3. CASE Drain
  BY <1>3 DEF Drain
<1>4. CASE ProxyReply
  BY <1>4 DEF ProxyReply
<1>5. CASE ServerSend
  BY <1>5 DEF ServerSend
<1>6. CASE ServerClose
  BY <1>6 DEF ServerClose
<1>7. CASE Tick
  BY <1>7 DEF Tick, socket
<1> QED
  BY <1>1, <1>2, <1>3, <1>4, <1>5, <1>6, <1>7 DEF World

LEMMA TypeNext == TypeOK /\ [Next]_vars => TypeOK'
<1> SUFFICES ASSUME TypeOK, [Next]_vars
             PROVE  TypeOK'
  OBVIOUS
<1>1. CASE UNCHANGED vars
  BY <1>1 DEF vars, session, loop, socket, history, TypeOK
<1> QED
  BY <1>1, TypeAppPacket, TypeLoop, TypeSocket, TypeWorld DEF Next

\* Every variable keeps its type.
THEOREM TypeCorrect == Spec => []TypeOK
  BY TypeInit, TypeNext, PTL DEF Spec

-----------------------------------------------------------------------------
(***************************************************************************)
(* The ack number and the bytes handed to the socket.  A step moves the    *)
(* ack number over one position without handing it over, forwards from the *)
(* head of the queue, starts a new session, or leaves all of it alone.     *)
(* Only a new session gets a socket; only a step that leaves the stream    *)
(* alone closes one.                                                       *)
(***************************************************************************)
Quiet == UNCHANGED <<remote_seq, handed, lost, skipped>> /\ (sock = "none" => sock' = "none")
Skip  == Acknowledge /\ UNCHANGED <<handed, lost, sock>>
Fresh == /\ state = "FREE" /\ sock' # "none"
         /\ remote_seq' = 0 /\ handed' = [p \in Bytes |-> 0] /\ lost' = {} /\ skipped' = {}

LEMMA ResetStream ==
    ASSUME Reset, UNCHANGED <<handed, lost, sock>>
    PROVE  Quiet \/ Skip
  BY DEF Reset, Quiet, Skip

LEMMA StreamSteps == Next => Quiet \/ Skip \/ Fresh \/ ForwardSegment
<1> SUFFICES ASSUME Next PROVE Quiet \/ Skip \/ Fresh \/ ForwardSegment
  OBVIOUS
<1>1. CASE HandleTcp
  <2>1. ASSUME NEW len, NEW win, NewSession(len, win)
        PROVE  Quiet \/ Fresh
    BY <2>1 DEF NewSession, OpenSession, session, socket, history, Quiet, Fresh
  <2>2. ASSUME NEW seq, NEW len, ProxiedPacket(seq, len)
        PROVE  Quiet \/ Skip
    BY <2>2, ResetStream DEF ProxiedPacket, SendConnect, socket, Quiet, Skip
  <2>3. ASSUME UNCHANGED vars
        PROVE  Quiet
    BY <2>3 DEF vars, session, socket, history, Quiet
  <2>4. ASSUME NEW len, NEW win, RefuseData(len, win)
        PROVE  Quiet \/ Skip
    BY <2>4, ResetStream DEF RefuseData, Accept, socket
  <2>5. ASSUME NEW seq, NEW len, NEW win, Queue(seq, len, win)
        PROVE  UNCHANGED <<handed, lost, sock>>
    BY <2>5 DEF Queue, Accept, socket
  <2>6. ASSUME NEW seq, NEW len, NEW win, NEW num,
               \/ RstPacket(seq, len, win)
               \/ RepeatedSyn(len, win)
               \/ AckPacket(seq, len, num, win)
               \/ OldAckPacket(seq, len, num, win)
        PROVE  Quiet
    BY <2>5, <2>6 DEF RstPacket, RepeatedSyn, AckPacket, OldAckPacket, Quiet
  <2>7. ASSUME NEW seq, NEW len, NEW win, NEW num, FinPacket(seq, len, num, win)
        PROVE  Quiet \/ Skip
    <3>1. UNCHANGED <<handed, lost, sock>>
      BY <2>5, <2>7 DEF FinPacket
    <3>2. Acknowledge \/ UNCHANGED <<remote_seq, skipped>>
      BY <2>7 DEF FinPacket
    <3> QED
      BY <3>1, <3>2 DEF Quiet, Skip
  <2>8. ASSUME NEW seq, NEW len, NEW win, NEW num, FutureAckPacket(seq, len, num, win)
        PROVE  Quiet \/ Skip
    BY <2>5, <2>8, ResetStream DEF FutureAckPacket
  <2>9. CASE AppSyn
    BY <2>1, <2>2, <2>3, <2>4, <2>6, <2>9 DEF AppSyn, ClosedPacket
  <2>10. CASE AppSegment
    BY <2>2, <2>3, <2>4, <2>6, <2>7, <2>8, <2>10
       DEF AppSegment, ClosedPacket, UnknownPacket
  <2>11. CASE AppRst
    BY <2>6, <2>11 DEF AppRst
  <2> QED
    BY <1>1, <2>9, <2>10, <2>11 DEF HandleTcp
<1>2. CASE Loop
  BY <1>2 DEF Loop, Monitor, SkipCheck, CheckTcpSession, EpollWait, EndBatch,
              session, socket, history, Quiet
<1>3. CASE CheckTcpSocket
  <2>1. CASE SocketError
    BY <2>1, ResetStream DEF SocketError, socket
  <2>2. CASE ConnectReply
    BY <2>2, ResetStream DEF ConnectReply, Quiet
  <2>3. CASE SocketConnected
    BY <2>3 DEF SocketConnected, socket, Skip
  <2>4. CASE SocketReady \/ ForwardDone \/ ReadNothing
    BY <2>4 DEF SocketReady, ForwardDone, ReadNothing, session, socket, history, Quiet
  <2>5. CASE AckForwarded
    <3>1. Acknowledge \/ UNCHANGED <<remote_seq, skipped>>
      BY <2>5, Zenon DEF AckForwarded
    <3> QED
      BY <2>5, <3>1 DEF AckForwarded, socket, Quiet, Skip
  <2>6. CASE ReadData
    BY <2>6 DEF ReadData, history, Quiet
  <2>7. CASE ReadEof
    BY <2>7 DEF ReadEof, MayRead, FinOrReset, Reset, Quiet
  <2>8. CASE ReadError
    BY <2>8, ResetStream DEF ReadError, socket
  <2> QED
    BY <1>3, <2>1, <2>2, <2>3, <2>4, <2>5, <2>6, <2>7, <2>8 DEF CheckTcpSocket
<1>4. CASE World
  BY <1>4 DEF World, ConnectDone, SocketBreaks, Drain, ProxyReply, ServerSend,
              ServerClose, Tick, Outside, socket, history, Quiet
<1> QED
  BY <1>1, <1>2, <1>3, <1>4 DEF Next

\* Forwarding hands over, or drops, exactly the positions the ack number passes.
LEMMA ForwardAccounts ==
    ASSUME TypeOK, AckedBytesAccounted, ForwardSegment
    PROVE  AckedBytesAccounted'
<1> DEFINE first == Start(forward[1])
           last  == End(forward[1])
<1>1. forward # <<>> /\ first = remote_seq
  BY DEF ForwardSegment, HeadFits
<1>2. first \in Nat /\ last \in Nat
  BY <1>1, HeadType
<1>3. PICK sent \in 0..(last - first) :
         /\ SendTakes(sent) \/ SendFails(sent)
         /\ remote_seq' = first + sent
  BY DEF ForwardSegment
<1>4. sent \in Nat /\ sent <= last - first /\ skipped' = skipped
  BY <1>2, <1>3 DEF ForwardSegment
<1>5. CASE SendTakes(sent)
  <2> SUFFICES ASSUME NEW p \in Bytes
               PROVE  IF p < remote_seq'
                      THEN \/ handed'[p] = 1 /\ p \notin lost' \cup skipped'
                           \/ handed'[p] = 0 /\ p \in lost' \cup skipped'
                      ELSE handed'[p] = 0 /\ p \notin lost' \cup skipped'
    BY DEF AckedBytesAccounted
  <2>1. handed'[p] = IF p \in first..(first + sent - 1) THEN handed[p] + 1 ELSE handed[p]
    BY <1>5 DEF SendTakes
  <2>2. lost' = lost /\ p \in Nat
    BY <1>5, NAssumption DEF SendTakes, Bytes
  <2> QED
    BY <1>1, <1>2, <1>3, <1>4, <2>1, <2>2 DEF AckedBytesAccounted
<1>6. CASE SendFails(sent)
  <2> SUFFICES ASSUME NEW p \in Bytes
               PROVE  IF p < remote_seq'
                      THEN \/ handed'[p] = 1 /\ p \notin lost' \cup skipped'
                           \/ handed'[p] = 0 /\ p \in lost' \cup skipped'
                      ELSE handed'[p] = 0 /\ p \notin lost' \cup skipped'
    BY DEF AckedBytesAccounted
  <2>1. /\ sent = last - first /\ handed' = handed
        /\ lost' = lost \cup (first..(last - 1))
    BY <1>6 DEF SendFails
  <2>2. p \in Nat
    BY NAssumption DEF Bytes
  <2> QED
    BY <1>1, <1>2, <1>3, <1>4, <2>1, <2>2 DEF AckedBytesAccounted
<1> QED
  BY <1>3, <1>5, <1>6

LEMMA AccountedNext ==
    ASSUME TypeOK, AckedBytesAccounted, [Next]_vars
    PROVE  AckedBytesAccounted'
<1>1. CASE Quiet
  BY <1>1 DEF Quiet, AckedBytesAccounted
<1>2. CASE Skip
  <2> SUFFICES ASSUME NEW p \in Bytes
               PROVE  IF p < remote_seq'
                      THEN \/ handed'[p] = 1 /\ p \notin lost' \cup skipped'
                           \/ handed'[p] = 0 /\ p \in lost' \cup skipped'
                      ELSE handed'[p] = 0 /\ p \notin lost' \cup skipped'
    BY DEF AckedBytesAccounted
  <2>1. /\ remote_seq' = remote_seq + 1 /\ handed' = handed /\ lost' = lost
        /\ skipped' = skipped \cup ({remote_seq} \cap Bytes)
    BY <1>2 DEF Skip, Acknowledge
  <2>2. p \in Nat /\ remote_seq \in Nat
    BY NAssumption DEF TypeOK, Bytes
  <2> QED
    BY <2>1, <2>2 DEF AckedBytesAccounted
<1>3. CASE Fresh
  <2>1. \A p \in Bytes : handed'[p] = 0 /\ ~(p < remote_seq')
    BY <1>3, NAssumption DEF Fresh, Bytes
  <2> QED
    BY <1>3, <2>1 DEF Fresh, AckedBytesAccounted
<1>4. CASE ForwardSegment
  BY <1>4, ForwardAccounts
<1>5. CASE UNCHANGED vars
  BY <1>5 DEF vars, session, history, AckedBytesAccounted
<1> QED
  BY <1>1, <1>2, <1>3, <1>4, <1>5, StreamSteps

\* What the engine acknowledged to the application was handed to the socket exactly
\* once, or is one of the losses the code accepts (tcp.c:287, 325, 384, 811, 821,
\* 1075); what it did not acknowledge was not handed over.
THEOREM AckedBytesAccountedHolds == Spec => []AckedBytesAccounted
<1>1. Init => AckedBytesAccounted
  <2> SUFFICES ASSUME Init, NEW p \in Bytes
               PROVE  handed[p] = 0 /\ p \notin lost \cup skipped /\ ~(p < remote_seq)
    BY DEF AckedBytesAccounted
  <2> QED
    BY NAssumption DEF Init, Bytes
<1> QED
  BY <1>1, AccountedNext, TypeCorrect, PTL DEF Spec

-----------------------------------------------------------------------------
(***************************************************************************)
(* The socket's descriptor.  That the session's states without a socket    *)
(* have none needs no other fact; that an event always finds the socket it *)
(* was reported for needs that the batch is used up when the loop turns,   *)
(* and that the event is kept while it is handled.                         *)
(***************************************************************************)
Released == {"FREE", "FIN_WAIT1", "LAST_ACK", "CLOSE"}

BatchUsedUp == phase \in {"monitor", "check", "wait"} => ev = {}
EventInHand == phase \in {"forward", "ack", "read"} => ev # {}
SocketInv   == SocketReleased /\ EventHasSocket /\ BatchUsedUp /\ EventInHand

\* handle_tcp: only a new session gets a socket, and none is closed.
LEMMA SocketAppPacket ==
    ASSUME SocketInv, HandleTcp
    PROVE  SocketInv' /\ (state = "CLOSE" => state' = "CLOSE")
<1> USE DEF SocketInv, SocketReleased
<1>1. phase' = phase /\ ev' = ev
  BY DEF HandleTcp, AppSyn, AppSegment, AppRst, NewSession, ProxiedPacket, ClosedPacket,
         UnknownPacket, RefuseData, RepeatedSyn, AckPacket, FinPacket, OldAckPacket,
         FutureAckPacket, RstPacket, Queue, Accept, vars, loop
<1> DEFINE Good == /\ state' \in Released => sock' = "none"
                   /\ sock' = sock \/ sock' # "none"
                   /\ state = "CLOSE" => state' = "CLOSE"
<1>2. ASSUME NEW len, NEW win, NewSession(len, win)
      PROVE  Good
  BY <1>2 DEF NewSession, OpenSession, session, socket, Released
<1>3. ASSUME NEW seq, NEW len, ProxiedPacket(seq, len)
      PROVE  Good
  BY <1>3 DEF ProxiedPacket, SendConnect, Reset, socket, Released
<1>4. ASSUME UNCHANGED vars
      PROVE  Good
  BY <1>4 DEF vars, session, socket, Released
<1>5. ASSUME NEW win, Accept(win)
      PROVE  sock' = sock /\ state \notin {"FREE", "CLOSING", "CLOSE"}
  BY <1>5 DEF Accept, socket, Live
<1>6. ASSUME NEW len, NEW win, RefuseData(len, win)
      PROVE  Good
  BY <1>5, <1>6 DEF RefuseData, Reset, Released
<1>7. ASSUME NEW seq, NEW len, NEW win, NEW num,
             \/ RstPacket(seq, len, win)
             \/ RepeatedSyn(len, win)
             \/ AckPacket(seq, len, num, win)
             \/ OldAckPacket(seq, len, num, win)
      PROVE  Good
  BY <1>5, <1>7 DEF RstPacket, RepeatedSyn, AckPacket, OldAckPacket, Queue, Released
<1>8. ASSUME NEW seq, NEW len, NEW win, NEW num, FinPacket(seq, len, num, win)
      PROVE  Good
  BY <1>5, <1>8 DEF FinPacket, Queue, Released
<1>9. ASSUME NEW seq, NEW len, NEW win, NEW num, FutureAckPacket(seq, len, num, win)
      PROVE  Good
  BY <1>5, <1>9 DEF FutureAckPacket, Queue, Reset, Released
<1>10. Good
  <2>1. CASE AppSyn
    BY <1>2, <1>3, <1>4, <1>6, <1>7, <2>1 DEF AppSyn, ClosedPacket
  <2>2. CASE AppSegment
    BY <1>3, <1>4, <1>6, <1>7, <1>8, <1>9, <2>2 DEF AppSegment, ClosedPacket, UnknownPacket
  <2>3. CASE AppRst
    BY <1>7, <2>3 DEF AppRst
  <2> QED
    BY <2>1, <2>2, <2>3 DEF HandleTcp
<1> QED
  BY <1>1, <1>10 DEF EventHasSocket, BatchUsedUp, EventInHand, Released

\* The loop closes the socket of a closing session while the batch is empty.
LEMMA SocketLoop ==
    ASSUME SocketInv, Loop
    PROVE  SocketInv' /\ (state = "CLOSE" => state' \in {"CLOSE", "FREE"})
<1> USE DEF SocketInv, SocketReleased, EventHasSocket, BatchUsedUp, EventInHand
<1>1. CASE Monitor
  BY <1>1 DEF Monitor, EpollModFails, KeepAlive, socket
<1>2. CASE SkipCheck
  BY <1>2 DEF SkipCheck, session, socket
<1>3. CASE CheckTcpSession
  BY <1>3 DEF CheckTcpSession, Live
<1>4. CASE EpollWait
  BY <1>4 DEF EpollWait, Ready, session, socket
<1>5. CASE EndBatch
  BY <1>5 DEF EndBatch, session, socket
<1> QED
  BY <1>1, <1>2, <1>3, <1>4, <1>5 DEF Loop

\* check_tcp_socket closes it at end of file, and the event is used up.
LEMMA SocketEvent ==
    ASSUME SocketInv, CheckTcpSocket
    PROVE  SocketInv' /\ (state = "CLOSE" => state' = "CLOSE")
<1> USE DEF SocketInv, SocketReleased, EventHasSocket, BatchUsedUp, EventInHand,
            EventPending, EndEvent
<1>1. CASE SocketError
  BY <1>1 DEF SocketError, Reset, socket
<1>2. CASE ConnectReply
  BY <1>2 DEF ConnectReply, Reset
<1>3. CASE SocketConnected
  BY <1>3 DEF SocketConnected, socket
<1>4. CASE SocketReady
  BY <1>4 DEF SocketReady, session, socket
<1>5. CASE ForwardSegment
  BY <1>5 DEF ForwardSegment
<1>6. CASE ForwardDone
  BY <1>6 DEF ForwardDone, session, socket
<1>7. CASE AckForwarded
  BY <1>7 DEF AckForwarded, socket
<1>8. CASE ReadNothing
  BY <1>8 DEF ReadNothing, session, socket
<1>9. CASE ReadData
  BY <1>9 DEF ReadData, MayRead
<1>10. CASE ReadEof
  BY <1>10 DEF ReadEof, FinOrReset, SendFin, MayRead, Reset
<1>11. CASE ReadError
  BY <1>11 DEF ReadError, MayRead, Reset, socket
<1> QED
  BY <1>1, <1>2, <1>3, <1>4, <1>5, <1>6, <1>7, <1>8, <1>9, <1>10, <1>11
     DEF CheckTcpSocket

LEMMA SocketWorld ==
    ASSUME SocketInv, World
    PROVE  SocketInv' /\ state' = state
  BY DEF SocketInv, SocketReleased, EventHasSocket, BatchUsedUp, EventInHand,
         World, ConnectDone, SocketBreaks, Drain, ProxyReply, ServerSend, ServerClose,
         Tick, Outside, loop, socket

LEMMA SocketNext == SocketInv /\ [Next]_vars =>
                        SocketInv' /\ (state = "CLOSE" => state' \in {"CLOSE", "FREE"})
<1> SUFFICES ASSUME SocketInv, [Next]_vars
             PROVE  SocketInv' /\ (state = "CLOSE" => state' \in {"CLOSE", "FREE"})
  OBVIOUS
<1>1. CASE UNCHANGED vars
  BY <1>1 DEF vars, session, loop, socket, SocketInv, SocketReleased, EventHasSocket,
              BatchUsedUp, EventInHand
<1> QED
  BY <1>1, SocketAppPacket, SocketLoop, SocketEvent, SocketWorld DEF Next

LEMMA SocketAlways == Spec => []SocketInv
<1>1. Init => SocketInv
  BY DEF Init, SocketInv, SocketReleased, EventHasSocket, BatchUsedUp, EventInHand
<1> QED
  BY <1>1, SocketNext, PTL DEF Spec

\* A session that is freed, waits to be freed or sent its FIN owns no descriptor
\* (tcp.c:63-76, 430-433), and the event taken from the batch is never handled on a
\* descriptor closed since (session.c:198-263).
THEOREM SocketSafetyHolds == Spec => []SocketSafety
  BY SocketAlways, PTL DEF SocketInv, SocketSafety

\* Nothing revives a closed session, because a CONNECT cannot be sent on the socket
\* it does not have (tcp.c:731-737).
THEOREM ClosedStaysClosedHolds == Spec => ClosedStaysClosed
<1>1. SocketInv /\ [Next]_vars => [state = "CLOSE" => state' \in {"CLOSE", "FREE"}]_vars
  BY SocketNext
<1> QED
  BY <1>1, SocketAlways, PTL DEF Spec, ClosedStaysClosed

-----------------------------------------------------------------------------
(***************************************************************************)
(* The session implements the relay of bytes.  Every kind of step maps to  *)
(* a step of the relay or to a stutter: bytes at or beyond the ack number  *)
(* have no fate yet, so that the one they get is their first.              *)
(***************************************************************************)
RelayInv == TypeOK /\ AckedBytesAccounted /\ SocketInv

LEMMA FateAhead ==
    ASSUME RelayInv, NEW p \in Bytes, p >= remote_seq
    PROVE  handed[p] = 0 /\ p \notin lost /\ p \notin skipped
<1>1. p \in Nat /\ remote_seq \in Nat
  BY NAssumption DEF Bytes, RelayInv, TypeOK
<1> QED
  BY <1>1 DEF RelayInv, AckedBytesAccounted

\* The byte the ack number passes without handing it over was waiting.
LEMMA SkipPasses ==
    ASSUME RelayInv, Skip
    PROVE  Relay!Pass
<1>1. /\ remote_seq' = remote_seq + 1 /\ handed' = handed /\ lost' = lost /\ sock' = sock
      /\ skipped' = skipped \cup ({remote_seq} \cap Bytes)
  BY DEF Skip, Acknowledge
<1>2. ASSUME NEW p \in Bytes
      PROVE  Fate'[p] = IF remote_seq <= p /\ p < remote_seq' THEN "passed" ELSE Fate[p]
  <2>1. p \in Nat /\ remote_seq \in Nat
    BY NAssumption DEF Bytes, RelayInv, TypeOK
  <2>2. CASE p = remote_seq
    <3>1. handed[p] = 0 /\ p \notin lost
      BY <2>1, <2>2, FateAhead
    <3> QED
      BY <1>1, <2>1, <2>2, <3>1 DEF Fate
  <2>3. CASE p # remote_seq
    <3>1. p \in skipped' <=> p \in skipped
      BY <1>1, <2>3
    <3>2. ~(remote_seq <= p /\ p < remote_seq')
      BY <1>1, <2>1, <2>3
    <3>3. Fate'[p] = Fate[p]
      BY <1>1, <3>1 DEF Fate
    <3> QED
      BY <3>2, <3>3
  <2> QED
    BY <2>2, <2>3
<1>3. Fate' = [p \in Bytes |->
                 IF remote_seq <= p /\ p < remote_seq' THEN "passed" ELSE Fate[p]]
  BY <1>2 DEF Fate
<1> QED
  BY <1>1, <1>3 DEF Relay!Pass, Relay!Settle, Bytes

\* What send() took, or dropped, starts at the ack number and had no fate.
LEMMA ForwardSettles ==
    ASSUME RelayInv, ForwardSegment
    PROVE  [Relay!Next]_(Relay!relay)
<1> DEFINE first == Start(forward[1])
           last  == End(forward[1])
<1>1. forward # <<>> /\ first = remote_seq /\ sock # "none" /\ sock' = sock
  BY DEF ForwardSegment, HeadFits, RelayInv, SocketInv, EventInHand, EventHasSocket
<1>2. first \in Nat /\ last \in Nat
  BY <1>1, HeadType DEF RelayInv
<1>3. PICK sent \in 0..(last - first) :
         /\ SendTakes(sent) \/ SendFails(sent)
         /\ remote_seq' = first + sent
  BY DEF ForwardSegment
<1>4. sent \in Nat /\ sent <= last - first /\ skipped' = skipped
  BY <1>2, <1>3 DEF ForwardSegment
<1>5. remote_seq' \in Nat /\ remote_seq \in Nat /\ remote_seq' >= remote_seq
  BY <1>1, <1>2, <1>3, <1>4
<1> DEFINE Moved(p) == remote_seq <= p /\ p < remote_seq'
<1>6. ASSUME NEW p \in Bytes, Moved(p)
      PROVE  /\ SendTakes(sent) => Fate'[p] = "given"
             /\ SendFails(sent) => Fate'[p] = "lost"
  <2>1. p \in Nat /\ p \in first..(first + sent - 1)
    BY <1>1, <1>2, <1>3, <1>4, <1>6, NAssumption DEF Bytes
  <2>2. handed[p] = 0 /\ p \notin lost
    BY <1>1, <1>2, <2>1, FateAhead
  <2>3. CASE SendTakes(sent)
    <3>1. handed'[p] = 1
      BY <2>1, <2>2, <2>3 DEF SendTakes
    <3>2. lost' # lost => ~SendFails(sent) \/ sent = last - first
      BY DEF SendFails
    <3>3. Fate'[p] = "given"
      BY <3>1 DEF Fate
    <3>4. ~SendFails(sent)
      <4>1. handed' # handed
        BY <3>1, <2>2
      <4> QED
        BY <4>1 DEF SendFails
    <3> QED
      BY <3>3, <3>4
  <2>4. CASE SendFails(sent) /\ ~SendTakes(sent)
    <3>1. handed'[p] = 0 /\ p \in lost'
      BY <1>2, <2>1, <2>2, <2>4 DEF SendFails
    <3> QED
      BY <2>4, <3>1 DEF Fate
  <2> QED
    BY <2>3, <2>4
<1>7. ASSUME NEW p \in Bytes, ~Moved(p)
      PROVE  Fate'[p] = Fate[p]
  <2>1. p \in Nat /\ p \notin first..(first + sent - 1)
    BY <1>1, <1>2, <1>3, <1>4, <1>7, NAssumption DEF Bytes
  <2>2. CASE SendTakes(sent)
    <3>1. handed'[p] = handed[p] /\ lost' = lost
      BY <2>1, <2>2 DEF SendTakes
    <3> QED
      BY <1>4, <3>1 DEF Fate
  <2>3. CASE SendFails(sent)
    <3>1. /\ handed' = handed /\ sent = last - first
          /\ lost' = lost \cup (first..(last - 1))
      BY <2>3 DEF SendFails
    <3>2. p \in lost' <=> p \in lost
      BY <1>2, <2>1, <3>1
    <3> QED
      BY <1>4, <3>1, <3>2 DEF Fate
  <2> QED
    BY <1>3, <2>2, <2>3
<1>8. CASE sent = 0
  <2>1. \A p \in Bytes : Fate'[p] = Fate[p]
    <3>1. \A p \in Bytes : ~Moved(p)
      BY <1>1, <1>2, <1>3, <1>8, NAssumption DEF Bytes
    <3> QED
      BY <1>7, <3>1
  <2>2. Fate' = Fate
    BY <2>1 DEF Fate
  <2>3. remote_seq' = remote_seq
    BY <1>1, <1>2, <1>3, <1>8
  <2> QED
    BY <1>1, <2>2, <2>3 DEF Relay!relay
<1>9. CASE sent # 0
  <2>1. remote_seq' > remote_seq
    BY <1>1, <1>2, <1>3, <1>4, <1>9
  <2>2. CASE SendTakes(sent)
    <3>1. Fate' = [p \in Bytes |-> IF Moved(p) THEN "given" ELSE Fate[p]]
      BY <1>6, <1>7, <2>2 DEF Fate
    <3> QED
      BY <1>1, <1>5, <2>1, <3>1 DEF Relay!Next, Relay!Forward, Relay!Settle, Bytes
  <2>3. CASE SendFails(sent)
    <3>1. Fate' = [p \in Bytes |-> IF Moved(p) THEN "lost" ELSE Fate[p]]
      BY <1>6, <1>7, <2>3 DEF Fate
    <3> QED
      BY <1>1, <1>5, <2>1, <3>1 DEF Relay!Next, Relay!Forward, Relay!Settle, Bytes
  <2> QED
    BY <1>3, <2>2, <2>3
<1> QED
  BY <1>8, <1>9

LEMMA RelayStep ==
    ASSUME RelayInv, [Next]_vars
    PROVE  [Relay!Next]_(Relay!relay)
<1>1. CASE UNCHANGED vars
  BY <1>1 DEF vars, session, socket, history, Relay!relay, Fate
<1>2. CASE Quiet
  <2>1. Fate' = Fate /\ remote_seq' = remote_seq
    BY <1>2 DEF Quiet, Fate
  <2> QED
    BY <1>2, <2>1 DEF Quiet, Relay!Next, Relay!Close, Relay!relay
<1>3. CASE Skip
  BY <1>3, SkipPasses DEF Relay!Next
<1>4. CASE Fresh
  <2>1. Fate' = [p \in 1..N |-> "waiting"] /\ remote_seq' = 0 /\ sock' # "none"
    BY <1>4 DEF Fresh, Fate, Bytes
  <2>2. sock = "none"
    BY <1>4 DEF Fresh, RelayInv, SocketInv, SocketReleased
  <2> QED
    BY <2>1, <2>2 DEF Relay!Next, Relay!Open, Relay!Waiting
<1>5. CASE ForwardSegment
  BY <1>5, ForwardSettles
<1> QED
  BY <1>1, <1>2, <1>3, <1>4, <1>5, StreamSteps

\* Bytes reach the socket in the order of the stream, each settled once and none after
\* the socket is closed, whatever the packets, acknowledgements and events
\* (tcp.c:300-358, 427-439).
THEOREM RelayHolds == Spec => RelaysBytes
<1>1. Init => Relay!Init
  BY NAssumption DEF Init, Relay!Init, Relay!Waiting, Fate, Bytes
<1>2. Spec => []RelayInv
  BY TypeCorrect, AckedBytesAccountedHolds, SocketAlways, PTL DEF RelayInv
<1>3. RelayInv /\ [Next]_vars => [Relay!Next]_(Relay!relay)
  BY RelayStep
<1> QED
  BY <1>1, <1>2, <1>3, PTL DEF Spec, RelaysBytes, Relay!Spec

-----------------------------------------------------------------------------
(***************************************************************************)
(* The stream: the queue of segments, the answer to CONNECT that           *)
(* everything waits for, the bytes the acknowledgement may pass, and the   *)
(* window of the application.                                              *)
(***************************************************************************)

(***************************************************************************)
(* What a packet of the application does to the session.                   *)
(***************************************************************************)
Opened ==
    /\ state = "FREE" /\ state' = "LISTEN" /\ connect_sent' = "NOT_SENT"
    /\ remote_seq' = 0 /\ skipped' = {} /\ handed' = [p \in Bytes |-> 0]
    /\ \/ forward' = <<>>
       \/ \E len \in Nat : forward' = <<[seq |-> 0, len |-> len, sent |-> 0]>>
    /\ UNCHANGED <<port, loop>>

Kept == UNCHANGED <<remote_seq, skipped>>

Accepted ==
    /\ Established /\ Live
    /\ UNCHANGED <<port, loop, socket, connect_sent, handed>>
    /\ \/ state' = state /\ Kept
       \/ state = "SYN_RECV" /\ state' = "ESTABLISHED" /\ Kept
       \/ state = "ESTABLISHED" /\ state' = "CLOSE_WAIT" /\ Kept
       \/ /\ state \in {"ESTABLISHED", "FIN_WAIT1"} /\ Acknowledge
          /\ state' \in {"CLOSE_WAIT", "CLOSING", "CLOSE"}
       \/ state' = "CLOSING" /\ Kept
       \/ Reset
    /\ \/ forward' = forward
       \/ /\ sock # "none"
          /\ \E seq, len \in Nat : forward' = Enqueue(forward, remote_seq, seq, len)

LEMMA PacketSteps ==
    ASSUME HandleTcp
    PROVE  \/ UNCHANGED vars
           \/ Opened
           \/ \E seq, len \in Nat : ProxiedPacket(seq, len)
           \/ Accepted
<1>1. \A len \in SynLens : len \in Nat
  BY SynLensAssumption, NAssumption
<1>2. \A s \in Payloads : s.seq \in Nat /\ s.len \in Nat
  BY SegmentsAssumption, NAssumption DEF Payloads, FinSeq
<1>3. ASSUME NEW len \in Nat, NEW win, NewSession(len, win)
      PROVE  UNCHANGED vars \/ Opened
  <2>1. CASE UNCHANGED <<session, socket, history>>
    BY <1>3, <2>1 DEF NewSession, vars
  <2>2. CASE OpenSession(len, win)
    BY <1>3, <2>2 DEF NewSession, OpenSession, Opened
  <2> QED
    BY <1>3, <2>1, <2>2 DEF NewSession
<1>4. ASSUME NEW len \in Nat, NEW win, RefuseData(len, win)
      PROVE  Accepted
  BY <1>4 DEF RefuseData, Accept, Accepted
<1>5. ASSUME NEW seq \in Nat, NEW len \in Nat, NEW win, Queue(seq, len, win)
      PROVE  /\ Established /\ Live
             /\ UNCHANGED <<port, loop, socket, connect_sent, handed>>
             /\ \/ forward' = forward
                \/ /\ sock # "none"
                   /\ \E s, l \in Nat : forward' = Enqueue(forward, remote_seq, s, l)
  BY <1>5 DEF Queue, Accept
<1>6. ASSUME NEW seq \in Nat, NEW len \in Nat, NEW win, NEW num,
             \/ RstPacket(seq, len, win)
             \/ RepeatedSyn(len, win)
             \/ AckPacket(seq, len, num, win)
             \/ OldAckPacket(seq, len, num, win)
             \/ FutureAckPacket(seq, len, num, win)
      PROVE  Accepted
  <2>1. CASE RstPacket(seq, len, win)
    BY <1>5, <2>1 DEF RstPacket, Accepted, Kept
  <2>2. CASE RepeatedSyn(len, win)
    BY <1>5, <2>2 DEF RepeatedSyn, Accepted, Kept
  <2>3. CASE AckPacket(seq, len, num, win)
    <3>1. \/ state' = state
          \/ state = "SYN_RECV" /\ state' = "ESTABLISHED"
          \/ state' = "CLOSING"
      BY <2>3 DEF AckPacket
    <3> QED
      BY <1>5, <2>3, <3>1 DEF AckPacket, Accepted, Kept
  <2>4. CASE OldAckPacket(seq, len, num, win)
    BY <1>5, <2>4 DEF OldAckPacket, Accepted, Kept
  <2>5. CASE FutureAckPacket(seq, len, num, win)
    BY <1>5, <2>5 DEF FutureAckPacket, Accepted, Kept
  <2> QED
    BY <1>6, <2>1, <2>2, <2>3, <2>4, <2>5
<1>7. ASSUME NEW seq \in Nat, NEW len \in Nat, NEW win, NEW num,
             FinPacket(seq, len, num, win)
      PROVE  Accepted
  <2>1. Queue(seq, len, win)
    BY <1>7 DEF FinPacket
  <2>2. \/ /\ state \in {"ESTABLISHED", "FIN_WAIT1"} /\ Acknowledge
           /\ state' \in {"CLOSE_WAIT", "CLOSING", "CLOSE"}
        \/ state = "ESTABLISHED" /\ state' = "CLOSE_WAIT" /\ Kept
        \/ state' = state /\ Kept
    BY <1>7 DEF FinPacket, Kept
  <2> QED
    BY <1>5, <2>1, <2>2 DEF Accepted
<1>8. CASE AppSyn
  BY <1>1, <1>3, <1>4, <1>6, <1>8 DEF AppSyn, ClosedPacket
<1>9. CASE AppSegment
  BY <1>2, <1>4, <1>6, <1>7, <1>9 DEF AppSegment, ClosedPacket, UnknownPacket
<1>10. CASE AppRst
  BY <1>6, <1>10 DEF AppRst
<1> QED
  BY <1>8, <1>9, <1>10 DEF HandleTcp

-----------------------------------------------------------------------------
(***************************************************************************)
(* The answers a session waits for: the application's, to its SYN/ACK, and *)
(* the proxy's, to CONNECT.  A session that is not answered is listening,  *)
(* or closing, whatever events and packets come in which order; an event   *)
(* that lets it forward was asked for while it was listening, or the       *)
(* socket broke since.                                                     *)
(***************************************************************************)
Unanswered == Proxied /\ connect_sent # "ESTABLISHED"

UnansweredStates ==
    Unanswered => state \in {"FREE", "LISTEN", "SYN_RECV", "CLOSING", "CLOSE"}
AnsweredStates == connect_sent = "ESTABLISHED" => state \notin {"LISTEN", "SYN_RECV"}
DirectConnect  == ~Proxied => connect_sent = "NOT_SENT"
AnswerInv      == UnansweredStates /\ AnsweredStates /\ DirectConnect

LEMMA AnswerNext ==
    ASSUME AnswerInv, [Next]_vars
    PROVE  AnswerInv'
<1> USE DEF AnswerInv, UnansweredStates, AnsweredStates, DirectConnect, Unanswered, Proxied
<1>1. CASE UNCHANGED vars
  BY <1>1 DEF vars, session
<1>2. CASE HandleTcp
  <2>1. CASE Opened
    BY <2>1 DEF Opened
  <2>2. ASSUME NEW seq, NEW len, ProxiedPacket(seq, len)
        PROVE  AnswerInv'
    BY <2>2 DEF ProxiedPacket, SendConnect, Reset
  <2>3. CASE Accepted
    BY <2>3 DEF Accepted, Established, Live, Reset
  <2> QED
    BY <1>1, <1>2, <2>1, <2>2, <2>3, PacketSteps
<1>3. CASE Loop
  BY <1>3 DEF Loop, Monitor, EpollModFails, KeepAlive, SkipCheck, CheckTcpSession, EpollWait,
              EndBatch, session
<1>4. CASE CheckTcpSocket
  <2>1. CASE SocketError \/ ReadError
    BY <2>1 DEF SocketError, ReadError, Reset
  <2>2. CASE ConnectReply
    BY <2>2 DEF ConnectReply, Reset
  <2>3. CASE SocketConnected
    BY <2>3 DEF SocketConnected
  <2>4. CASE SocketReady \/ ForwardDone \/ ReadNothing
    BY <2>4 DEF SocketReady, ForwardDone, ReadNothing, session
  <2>5. CASE ForwardSegment
    BY <2>5 DEF ForwardSegment
  <2>6. CASE AckForwarded
    <3>1. /\ state' = state \/ state' = "CLOSING"
          /\ UNCHANGED <<port, connect_sent>>
      BY <2>6 DEF AckForwarded
    <3> QED
      BY <3>1
  <2>7. CASE ReadData
    BY <2>7 DEF ReadData
  <2>8. CASE ReadEof
    BY <2>8 DEF ReadEof, MayRead, FinOrReset, SendFin, Reset
  <2> QED
    BY <1>4, <2>1, <2>2, <2>3, <2>4, <2>5, <2>6, <2>7, <2>8 DEF CheckTcpSocket
<1>5. CASE World
  BY <1>5 DEF World, ConnectDone, SocketBreaks, Drain, ProxyReply, ServerSend, ServerClose,
              Tick, Outside
<1> QED
  BY <1>1, <1>2, <1>3, <1>4, <1>5 DEF Next

\* The socket an event is reported for is connected; port 80 never waits for the
\* proxy's answer (line 99).
EventConnected    == ev # {} => sock \in {"open", "broken"}
HttpWaitsForOut   == port = "http" => connect_sent # "ESTABLISHED" /\ "IN" \notin mask \cup ev
UnansweredMask    == Unanswered /\ phase \in {"check", "wait"} /\ "OUT" \in mask /\ sock # "none"
                        => state = "LISTEN"
UnansweredBatch   == Unanswered /\ phase = "batch" /\ "OUT" \in ev
                        => state = "LISTEN" \/ sock = "broken"
UnansweredForward == Unanswered /\ phase = "forward" => sock # "open"
HandedAnswered    == Proxied /\ (\E p \in Bytes : handed[p] > 0) => connect_sent = "ESTABLISHED"

ConnectInv == /\ AnswerInv /\ EventConnected /\ HttpWaitsForOut /\ HandedAnswered
              /\ UnansweredMask /\ UnansweredBatch /\ UnansweredForward

LEMMA ConnectAppPacket ==
    ASSUME SocketInv, ConnectInv, HandleTcp
    PROVE  ConnectInv'
<1>1. AnswerInv'
  BY AnswerNext DEF ConnectInv, Next
<1>2. phase = "batch"
  BY DEF HandleTcp
<1> USE DEF ConnectInv, EventConnected, HttpWaitsForOut, HandedAnswered, UnansweredMask,
            UnansweredBatch, UnansweredForward, Unanswered, Proxied
<1>3. CASE UNCHANGED vars
  BY <1>1, <1>3 DEF vars, session, loop, socket, history
<1>4. CASE Opened
  <2>1. ev = {}
    BY <1>4 DEF Opened, SocketInv, SocketReleased, EventHasSocket
  <2>2. ~\E p \in Bytes : handed'[p] > 0
    BY <1>4, NAssumption DEF Opened, Bytes
  <2> QED
    BY <1>1, <1>2, <1>4, <2>1, <2>2 DEF Opened, loop
<1>5. ASSUME NEW seq, NEW len, ProxiedPacket(seq, len)
      PROVE  ConnectInv'
  BY <1>1, <1>2, <1>5 DEF ProxiedPacket, SendConnect, Reset, loop, socket
<1>6. CASE Accepted
  BY <1>1, <1>2, <1>6 DEF Accepted, Established, loop, socket
<1> QED
  BY <1>3, <1>4, <1>5, <1>6, PacketSteps

LEMMA ConnectLoop ==
    ASSUME TypeOK, SocketInv, ConnectInv, Loop
    PROVE  ConnectInv'
<1>1. AnswerInv'
  BY AnswerNext DEF ConnectInv, Next
<1> USE DEF ConnectInv, EventConnected, HttpWaitsForOut, HandedAnswered, UnansweredMask,
            UnansweredBatch, UnansweredForward
<1>2. CASE Monitor
  <2>1. ASSUME Unanswered
        PROVE  /\ "OUT" \in Interest => state = "LISTEN"
               /\ ~KeepAlive
    BY <2>1 DEF AnswerInv, UnansweredStates, Interest, KeepAlive
  <2>2. port = "http" => "IN" \notin Interest
    BY DEF AnswerInv, UnansweredStates, Unanswered, Proxied, Interest
  <2>3. mask' = mask \/ mask' = {} \/ mask' = Interest
    BY <1>2 DEF Monitor, EpollModFails
  <2>4. "OUT" \in mask' /\ sock # "none" => mask' = Interest /\ (state' = state \/ KeepAlive)
    BY <1>2 DEF Monitor, EpollModFails
  <2>5. phase' = "check" /\ UNCHANGED <<port, connect_sent, ev, socket, history>>
    BY <1>2 DEF Monitor
  <2>6. HttpWaitsForOut'
    BY <2>2, <2>3, <2>5
  <2>7. UnansweredMask'
    BY <2>1, <2>4, <2>5 DEF Unanswered, Proxied, socket
  <2> QED
    BY <1>1, <2>5, <2>6, <2>7 DEF socket, history, Unanswered, Proxied
<1>3. CASE SkipCheck
  BY <1>1, <1>3 DEF SkipCheck, session, socket, history, Unanswered, Proxied
<1>4. CASE CheckTcpSession
  BY <1>1, <1>4 DEF CheckTcpSession, history, Unanswered, Proxied, Live, SocketInv, BatchUsedUp,
                    SocketReleased
<1>5. CASE EpollWait
  <2>1. ev' \subseteq mask /\ ev' \subseteq Ready
    BY <1>5 DEF EpollWait
  <2>2. Ready # {} => sock \in {"open", "broken"}
    BY DEF Ready, TypeOK
  <2> QED
    BY <1>1, <1>5, <2>1, <2>2 DEF EpollWait, session, socket, history, Unanswered, Proxied
<1>6. CASE EndBatch
  BY <1>1, <1>6 DEF EndBatch, session, socket, history, Unanswered, Proxied
<1> QED
  BY <1>2, <1>3, <1>4, <1>5, <1>6 DEF Loop

LEMMA ConnectEvent ==
    ASSUME SocketInv, ConnectInv, CheckTcpSocket
    PROVE  ConnectInv'
<1>1. AnswerInv'
  BY AnswerNext DEF ConnectInv, Next
<1> USE DEF ConnectInv, EventConnected, HttpWaitsForOut, HandedAnswered, UnansweredMask,
            UnansweredBatch, UnansweredForward, Unanswered, Proxied, EventPending, EndEvent
<1>2. CASE SocketError
  BY <1>1, <1>2 DEF SocketError, Reset, socket
<1>3. CASE ConnectReply
  BY <1>1, <1>3 DEF ConnectReply, Reset
<1>4. CASE SocketConnected
  BY <1>1, <1>4 DEF SocketConnected, socket
<1>5. CASE SocketReady
  BY <1>1, <1>5 DEF SocketReady, session, socket, history
<1>6. CASE ForwardSegment
  <2>1. UNCHANGED handed \/ sock = "open"
    BY <1>6 DEF ForwardSegment, SendTakes, SendFails
  <2>2. Unanswered => UNCHANGED handed
    BY <1>6, <2>1 DEF ForwardSegment
  <2>3. UNCHANGED <<port, connect_sent, mask, ev, sock>> /\ phase' \in {"forward", "ack"}
    BY <1>6 DEF ForwardSegment
  <2>4. phase = "forward"
    BY <1>6 DEF ForwardSegment
  <2>5. HandedAnswered'
    BY <2>2, <2>3
  <2> QED
    BY <1>1, <2>3, <2>4, <2>5
<1>7. CASE ForwardDone
  BY <1>1, <1>7 DEF ForwardDone, session, socket, history
<1>8. CASE AckForwarded
  BY <1>1, <1>8 DEF AckForwarded, socket
<1>9. CASE ReadNothing
  BY <1>1, <1>9 DEF ReadNothing, session, socket, history
<1>10. CASE ReadData
  BY <1>1, <1>10 DEF ReadData, history
<1>11. CASE ReadEof
  BY <1>1, <1>11 DEF ReadEof
<1>12. CASE ReadError
  BY <1>1, <1>12 DEF ReadError, socket
<1> QED
  BY <1>2, <1>3, <1>4, <1>5, <1>6, <1>7, <1>8, <1>9, <1>10, <1>11, <1>12
     DEF CheckTcpSocket

\* A socket with an event pending is never connected again.
LEMMA ConnectWorld ==
    ASSUME SocketInv, ConnectInv, World
    PROVE  ConnectInv'
<1>1. AnswerInv'
  BY AnswerNext DEF ConnectInv, Next
<1>2. UNCHANGED <<port, state, connect_sent, phase, mask, ev, handed>>
  BY DEF World, ConnectDone, SocketBreaks, Drain, ProxyReply, ServerSend, ServerClose,
         Tick, Outside, loop, history
<1>3. \/ sock' = sock
      \/ sock = "connecting" /\ sock' \in {"open", "broken"}
      \/ sock = "open" /\ sock' = "broken"
  BY DEF World, ConnectDone, SocketBreaks, Drain, ProxyReply, ServerSend, ServerClose,
         Tick, socket
<1>4. phase = "forward" => ev # {}
  BY DEF SocketInv, EventInHand
<1> QED
  BY <1>1, <1>2, <1>3, <1>4
     DEF ConnectInv, EventConnected, HttpWaitsForOut, HandedAnswered, UnansweredMask,
         UnansweredBatch, UnansweredForward, Unanswered, Proxied

LEMMA ConnectNext ==
    ASSUME TypeOK, SocketInv, ConnectInv, [Next]_vars
    PROVE  ConnectInv'
<1>1. CASE UNCHANGED vars
  BY <1>1, AnswerNext DEF vars, session, loop, socket, history, ConnectInv, EventConnected,
     HttpWaitsForOut, HandedAnswered, UnansweredMask, UnansweredBatch, UnansweredForward,
     Unanswered, Proxied
<1> QED
  BY <1>1, ConnectAppPacket, ConnectLoop, ConnectEvent, ConnectWorld DEF Next

LEMMA ConnectAlways == Spec => []ConnectInv
<1>1. Init => ConnectInv
  <2> SUFFICES ASSUME Init PROVE ConnectInv
    OBVIOUS
  <2>1. ~\E p \in Bytes : handed[p] > 0
    BY NAssumption DEF Init, Bytes
  <2> QED
    BY <2>1 DEF Init, ConnectInv, AnswerInv, UnansweredStates, AnsweredStates, DirectConnect,
       EventConnected, HttpWaitsForOut, HandedAnswered, UnansweredMask, UnansweredBatch,
       UnansweredForward, Unanswered, Proxied
<1> QED
  BY <1>1, ConnectNext, TypeCorrect, SocketAlways, PTL DEF Spec

\* Nothing of the application's stream reaches the proxy before CONNECT was answered,
\* and nothing at all on port 80, which waits for EPOLLOUT and not for the answer
\* (tcp.c:94-102, 721-752).
THEOREM ConnectFirstHolds == Spec => []ConnectFirst
<1>1. TypeOK /\ ConnectInv => ConnectFirst
  BY PortsAssumption DEF TypeOK, ConnectInv, HandedAnswered, HttpWaitsForOut, ConnectFirst, Proxied
<1> QED
  BY <1>1, TypeCorrect, ConnectAlways, PTL

-----------------------------------------------------------------------------
(***************************************************************************)
(* Bytes that the ack number passes as if they were a SYN.  The SYN is     *)
(* acknowledged when the session answers it or resets it while listening,  *)
(* and a session listens again when CONNECT is sent; one that skipped a    *)
(* byte on the way never gets established.                                 *)
(***************************************************************************)
SynOnce      == state = "LISTEN" /\ connect_sent = "NOT_SENT" => remote_seq = 0
BusyAnswered == phase \in {"forward", "ack", "read"} => state # "LISTEN"
SkippedDirect ==
    skipped # {} /\ ~Proxied => state \notin {"LISTEN", "SYN_RECV", "ESTABLISHED"}
SkippedProxied ==
    skipped # {} /\ Proxied => /\ connect_sent # "NOT_SENT" /\ state # "ESTABLISHED"
                               /\ ~(connect_sent = "SENT" /\ state = "LISTEN")
SkipInv == SynOnce /\ BusyAnswered /\ SkippedDirect /\ SkippedProxied

\* The first acknowledgement of a session passes its SYN and no byte.
LEMMA FirstAcknowledge ==
    ASSUME SkipInv, Acknowledge, state = "LISTEN", connect_sent = "NOT_SENT"
    PROVE  skipped' = skipped
<1>1. 0 \notin Bytes
  BY NAssumption DEF Bytes
<1> QED
  BY <1>1 DEF SkipInv, SynOnce, Acknowledge

LEMMA SkipNext ==
    ASSUME TypeOK, AnswerInv, SkipInv, [Next]_vars
    PROVE  SkipInv'
<1> USE DEF SkipInv, SynOnce, BusyAnswered, SkippedDirect, SkippedProxied, Proxied
<1>a. /\ Proxied /\ connect_sent # "ESTABLISHED"
           => state \in {"FREE", "LISTEN", "SYN_RECV", "CLOSING", "CLOSE"}
      /\ connect_sent = "ESTABLISHED" => state \notin {"LISTEN", "SYN_RECV"}
      /\ ~Proxied => connect_sent = "NOT_SENT"
  BY DEF AnswerInv, UnansweredStates, AnsweredStates, DirectConnect, Unanswered
<1>b. ASSUME Reset
      PROVE  /\ state' = "CLOSE" \/ state' = "CLOSING"
             /\ skipped' # skipped => connect_sent # "NOT_SENT"
  <2>1. state = "LISTEN" => Acknowledge
    BY <1>b DEF Reset
  <2>2. state # "LISTEN" => skipped' = skipped
    BY <1>b DEF Reset
  <2> QED
    BY <1>b, <2>1, <2>2, FirstAcknowledge DEF Reset
<1>1. CASE UNCHANGED vars
  BY <1>1 DEF vars, session, loop, history
<1>2. CASE HandleTcp
  <2>1. phase = "batch"
    BY <1>2 DEF HandleTcp
  <2>2. CASE Opened
    BY <2>1, <2>2 DEF Opened, loop
  <2>3. ASSUME NEW seq, NEW len, ProxiedPacket(seq, len)
        PROVE  SkipInv'
    <3>1. UNCHANGED <<port, phase>> /\ Proxied /\ connect_sent # "ESTABLISHED"
      BY <2>3 DEF ProxiedPacket, loop
    <3>2. CASE UNCHANGED <<state, connect_sent, remote_seq, skipped>>
      BY <3>1, <3>2
    <3>3. CASE /\ connect_sent' = "SENT" /\ state' = "LISTEN" /\ connect_sent # "SENT"
               /\ UNCHANGED <<remote_seq, skipped>>
      <4>1. skipped' = {}
        BY <3>1, <3>3 DEF TypeOK
      <4> QED
        BY <2>1, <2>3, <3>1, <3>3, <4>1 DEF ProxiedPacket
    <3>4. CASE Reset /\ UNCHANGED connect_sent
      BY <1>b, <2>1, <3>1, <3>4
    <3> QED
      BY <2>3, <3>2, <3>3, <3>4 DEF ProxiedPacket, SendConnect
  <2>4. CASE Accepted
    <3>1. UNCHANGED <<port, phase, connect_sent>> /\ (Proxied => connect_sent = "ESTABLISHED")
      BY <2>4 DEF Accepted, Established, loop
    <3>2. CASE Reset
      BY <1>b, <2>1, <3>1, <3>2
    <3>3. CASE Kept
      BY <1>a, <2>1, <2>4, <3>1, <3>3 DEF Accepted, Kept, Reset
    <3>4. CASE state' \in {"CLOSE_WAIT", "CLOSING", "CLOSE"}
      BY <1>a, <2>1, <3>1, <3>4
    <3> QED
      BY <2>4, <3>2, <3>3, <3>4 DEF Accepted
  <2> QED
    BY <1>1, <1>2, <2>2, <2>3, <2>4, PacketSteps
<1>3. CASE Loop
  BY <1>3 DEF Loop, Monitor, EpollModFails, KeepAlive, SkipCheck, CheckTcpSession, EpollWait,
              EndBatch, session, history
<1>4. CASE CheckTcpSocket
  <2>1. CASE SocketError
    BY <1>b, <2>1 DEF SocketError, EventPending
  <2>2. CASE ConnectReply
    BY <1>a, <1>b, <2>2 DEF ConnectReply, EventPending
  <2>3. CASE SocketConnected
    <3>1. UNCHANGED <<port, phase, connect_sent>> /\ state = "LISTEN" /\ phase = "batch"
      BY <2>3 DEF SocketConnected, EventPending
    <3>2. state' \in {"SYN_RECV", "CLOSING"} /\ Acknowledge
      BY <2>3 DEF SocketConnected
    <3>3. connect_sent = "NOT_SENT" => skipped' = skipped
      BY <3>1, <3>2, FirstAcknowledge
    <3> QED
      BY <1>a, <3>1, <3>2, <3>3
  <2>4. CASE SocketReady \/ ForwardDone \/ ReadNothing
    BY <2>4 DEF SocketReady, ForwardDone, ReadNothing, EndEvent, session, history
  <2>5. CASE ForwardSegment
    BY <2>5 DEF ForwardSegment
  <2>6. CASE AckForwarded
    <3>1. UNCHANGED <<port, connect_sent>> /\ phase = "ack" /\ (state' = state \/ state' = "CLOSING")
      BY <2>6 DEF AckForwarded
    <3>2. UNCHANGED <<remote_seq, skipped>> \/ state = "CLOSE_WAIT"
      BY <2>6 DEF AckForwarded
    <3> QED
      BY <1>a, <3>1, <3>2
  <2>7. CASE ReadData
    BY <2>7 DEF ReadData, EndEvent, history
  <2>8. CASE ReadEof
    BY <1>b, <2>8 DEF ReadEof, MayRead, FinOrReset, SendFin, EndEvent
  <2>9. CASE ReadError
    BY <1>b, <2>9 DEF ReadError, EndEvent
  <2> QED
    BY <1>4, <2>1, <2>2, <2>3, <2>4, <2>5, <2>6, <2>7, <2>8, <2>9 DEF CheckTcpSocket
<1>5. CASE World
  BY <1>5 DEF World, ConnectDone, SocketBreaks, Drain, ProxyReply, ServerSend, ServerClose,
              Tick, Outside, loop, history
<1> QED
  BY <1>1, <1>2, <1>3, <1>4, <1>5 DEF Next

\* In an established session the ack number passed no byte unread: a second answer to
\* the SYN (tcp.c:287, 736, 1075) ends a session, it does not establish it.
THEOREM EstablishedSkipsNothingHolds == Spec => []EstablishedSkipsNothing
<1>1. Init => SkipInv
  BY DEF Init, SkipInv, SynOnce, BusyAnswered, SkippedDirect, SkippedProxied
<1>2. ConnectInv => AnswerInv
  BY DEF ConnectInv
<1>3. SkipInv => EstablishedSkipsNothing
  BY DEF SkipInv, SkippedDirect, SkippedProxied, EstablishedSkipsNothing
<1> QED
  BY <1>1, <1>2, <1>3, SkipNext, TypeCorrect, ConnectAlways, PTL DEF Spec

-----------------------------------------------------------------------------
(***************************************************************************)
(* The queue of segments.  Inserting at its place keeps it sorted; that    *)
(* only the head is partly sent survives an insertion at the front because *)
(* a segment of which something was sent starts before the ack number, and *)
(* a segment before the ack number is not queued.                          *)
(***************************************************************************)
Sorted(q)       == \A i, j \in 1..Len(q) : i < j => q[i].seq < q[j].seq
HeadSent(q)     == \A i \in 2..Len(q) : q[i].sent = 0
Behind(q, next) == \A i \in 1..Len(q) : q[i].sent > 0 => q[i].seq < next
Ordered(q, next) == Sorted(q) /\ HeadSent(q) /\ Behind(q, next)

InsertedAt(q, k, new) == SubSeq(q, 1, k - 1) \o <<new>> \o SubSeq(q, k, Len(q))

\* Inserting at k: what is before stays, what is behind moves up by one.
LEMMA InsertAt ==
    ASSUME NEW q \in Seq(Segment), NEW k \in 1..(Len(q) + 1), NEW new \in Segment,
           NEW r, r = InsertedAt(q, k, new)
    PROVE  /\ Len(r) = Len(q) + 1
           /\ \A i \in 1..(k - 1) : r[i] = q[i]
           /\ r[k] = new
           /\ \A i \in (k + 1)..(Len(q) + 1) : r[i] = q[i - 1]
<1> DEFINE a == SubSeq(q, 1, k - 1)
           b == SubSeq(q, k, Len(q))
<1>1. Len(q) \in Nat /\ \A i \in 1..Len(q) : q[i] \in Segment
  BY LenProperties, ElementOfSeq
<1>2. /\ a \in Seq(Segment) /\ Len(a) = k - 1
      /\ \A i \in 1..(k - 1) : a[i] = q[i]
  BY <1>1, SubSeqProperties
<1>3. /\ b \in Seq(Segment) /\ Len(b) = Len(q) - k + 1
      /\ \A i \in 1..(Len(q) - k + 1) : b[i] = q[k + i - 1]
  BY <1>1, SubSeqProperties
<1> DEFINE one == <<new>>
<1>4. one \in Seq(Segment) /\ Len(one) = 1 /\ one[1] = new
  OBVIOUS
<1> DEFINE c == a \o one
<1> HIDE DEF a, b, one
<1>5. /\ c \in Seq(Segment) /\ Len(c) = (k - 1) + 1
      /\ \A i \in 1..((k - 1) + 1) : c[i] = IF i <= k - 1 THEN a[i] ELSE one[i - (k - 1)]
  <2>1. /\ c \in Seq(Segment) /\ Len(c) = Len(a) + Len(one)
        /\ \A i \in 1..(Len(a) + Len(one)) :
              c[i] = IF i <= Len(a) THEN a[i] ELSE one[i - Len(a)]
    BY <1>2, <1>4, ConcatProperties, Zenon
  <2> QED
    BY <1>2, <1>4, <2>1
<1>6. r = c \o b
  BY DEF a, b, one, InsertedAt
<1> HIDE DEF c
<1>7. /\ Len(r) = Len(c) + Len(b)
      /\ \A i \in 1..(Len(c) + Len(b)) : r[i] = IF i <= Len(c) THEN c[i] ELSE b[i - Len(c)]
  <2>1. /\ Len(c \o b) = Len(c) + Len(b)
        /\ \A i \in 1..(Len(c) + Len(b)) :
              (c \o b)[i] = IF i <= Len(c) THEN c[i] ELSE b[i - Len(c)]
    <3>1. c \in Seq(Segment) /\ b \in Seq(Segment)
      BY <1>3, <1>5
    <3> QED
      BY <3>1, ConcatProperties, Zenon
  <2> QED
    BY <1>6, <2>1, Zenon
<1>8. k \in Nat /\ Len(c) = k /\ Len(r) = Len(q) + 1
  <2>1. k \in Nat /\ Len(q) \in Nat
    BY <1>1
  <2>2. Len(c) = (k - 1) + 1
    BY <1>5
  <2>3. Len(b) = Len(q) - k + 1
    BY <1>3
  <2>4. Len(r) = Len(c) + Len(b)
    BY <1>7
  <2>5. Len(c) = k
    BY <2>1, <2>2
  <2>6. Len(r) = k + (Len(q) - k + 1)
    BY <2>3, <2>4, <2>5
  <2> QED
    BY <2>1, <2>5, <2>6
<1>9. ASSUME NEW i \in 1..(k - 1)
      PROVE  r[i] = q[i]
  <2>1. i \in 1..(Len(c) + Len(b)) /\ i <= Len(c) /\ i \in 1..((k - 1) + 1) /\ i <= k - 1
    BY <1>1, <1>3, <1>8
  <2> QED
    BY <1>2, <1>5, <1>7, <2>1
<1>10. r[k] = new
  <2>1. k - (k - 1) = 1 /\ k \in 1..((k - 1) + 1) /\ ~(k <= k - 1)
    BY <1>8
  <2>2. c[k] = one[1]
    BY <1>5, <2>1
  <2>3. k \in 1..(Len(c) + Len(b)) /\ k <= Len(c)
    BY <1>1, <1>3, <1>8
  <2> QED
    BY <1>4, <1>7, <2>2, <2>3
<1>11. ASSUME NEW i \in (k + 1)..(Len(q) + 1)
       PROVE  r[i] = q[i - 1]
  <2>1. i - k \in 1..(Len(q) - k + 1) /\ k + (i - k) - 1 = i - 1
    BY <1>1, <1>8
  <2>2. i \in 1..(Len(c) + Len(b)) /\ ~(i <= Len(c))
    BY <1>1, <1>3, <1>8
  <2> QED
    BY <1>3, <1>7, <1>8, <2>1, <2>2
<1> QED
  BY <1>8, <1>9, <1>10, <1>11

\* queue_tcp keeps the queue ordered.
LEMMA EnqueueOrdered ==
    ASSUME NEW q \in Seq(Segment), NEW next \in Nat, NEW seq \in Nat, NEW len \in Nat,
           Ordered(q, next)
    PROVE  Ordered(Enqueue(q, next, seq, len), next)
<1> DEFINE k == Place(q, seq)
<1>1. /\ k \in 1..(Len(q) + 1)
      /\ \A i \in 1..(k - 1) : q[i].seq < seq
      /\ k <= Len(q) => q[k].seq >= seq
  BY PlaceInQueue
<1>2. Len(q) \in Nat /\ \A i \in 1..Len(q) : q[i].seq \in Nat /\ q[i].sent \in Nat
  <2>1. \A i \in 1..Len(q) : q[i] \in Segment
    BY ElementOfSeq
  <2> QED
    BY <2>1, LenProperties DEF Segment
<1> HIDE DEF k
<1>3. CASE seq < next
  BY <1>3 DEF Enqueue
<1>4. CASE seq >= next /\ k <= Len(q) /\ q[k].seq = seq
  <2>1. CASE q[k].len < len
    <3> DEFINE r == [q EXCEPT ![k].len = len]
    <3>1. Enqueue(q, next, seq, len) = r
      BY <1>4, <2>1 DEF Enqueue, k
    <3>2. /\ Len(r) = Len(q)
          /\ \A i \in 1..Len(q) : r[i].seq = q[i].seq /\ r[i].sent = q[i].sent
      <4>1. q[k] \in Segment /\ k \in 1..Len(q)
        BY <1>1, <1>4, ElementOfSeq
      <4>2. Len(r) = Len(q)
        BY <1>1, <1>4, ExceptSeq, LenProperties DEF Segment
      <4>3. \A i \in 1..Len(q) : q[i] \in [seq : Nat, len : Nat, sent : Nat]
        BY ElementOfSeq DEF Segment
      <4>4. ASSUME NEW i \in 1..Len(q), i # k
            PROVE  r[i] = q[i]
        BY <4>4, LenProperties
      <4>5. r[k] = [q[k] EXCEPT !.len = len]
        BY <4>1, LenProperties
      <4>6. r[k].seq = q[k].seq /\ r[k].sent = q[k].sent
        <5> HIDE DEF r
        <5> QED
          BY <4>1, <4>3, <4>5
      <4> HIDE DEF r
      <4> QED
        BY <4>2, <4>4, <4>6
    <3> HIDE DEF r
    <3> QED
      BY <3>1, <3>2 DEF Ordered, Sorted, HeadSent, Behind
  <2> QED
    BY <1>4, <2>1 DEF Enqueue, k
<1>5. CASE seq >= next /\ ~(k <= Len(q) /\ q[k].seq = seq)
  <2> DEFINE new == [seq |-> seq, len |-> len, sent |-> 0]
             r   == InsertedAt(q, k, new)
  <2>1. Enqueue(q, next, seq, len) = r
    <3>1. ~(seq < next)
      BY <1>5
    <3> QED
      BY <1>5, <3>1 DEF Enqueue, InsertedAt, k
  <2>2. /\ Len(r) = Len(q) + 1
        /\ \A i \in 1..(k - 1) : r[i] = q[i]
        /\ r[k] = new
        /\ \A i \in (k + 1)..(Len(q) + 1) : r[i] = q[i - 1]
    <3>1. new \in Segment
      BY DEF Segment
    <3>2. r = InsertedAt(q, k, new)
      OBVIOUS
    <3> HIDE DEF r, new
    <3> QED
      BY <1>1, <3>1, <3>2, InsertAt
  <2> HIDE DEF r
  <2>3. \A i \in k..Len(q) : q[i].seq > seq /\ q[i].sent = 0
    <3> SUFFICES ASSUME NEW i \in k..Len(q)
                 PROVE  q[i].seq > seq /\ q[i].sent = 0
      OBVIOUS
    <3>1. i \in 1..Len(q) /\ k \in 1..Len(q) /\ q[k].seq > seq
      BY <1>1, <1>2, <1>5
    <3>2. q[i].seq > seq
      BY <1>2, <3>1 DEF Ordered, Sorted
    <3>3. q[i].sent > 0 => q[i].seq < next
      BY <3>1 DEF Ordered, Behind
    <3>4. q[i].seq \in Nat /\ q[i].sent \in Nat
      BY <1>2, <3>1
    <3> QED
      BY <1>5, <3>2, <3>3, <3>4
  <2>4. Sorted(r)
    <3> SUFFICES ASSUME NEW i \in 1..Len(r), NEW j \in 1..Len(r), i < j
                 PROVE  r[i].seq < r[j].seq
      BY DEF Sorted
    <3>1. \A m \in 1..Len(r) :
             /\ m < k => m \in 1..(k - 1) /\ m \in 1..Len(q)
             /\ m > k => /\ m \in (k + 1)..(Len(q) + 1) /\ m - 1 \in k..Len(q)
                         /\ m - 1 \in 1..Len(q)
      BY <1>1, <1>2, <2>2
    <3>1a. \A m, n \in 1..Len(q) : m < n => q[m].seq < q[n].seq
      BY DEF Ordered, Sorted
    <3>2. new.seq = seq
      OBVIOUS
    <3>3. CASE i < k /\ j < k
      <4>1. r[i] = q[i] /\ r[j] = q[j]
        BY <2>2, <3>1, <3>3
      <4> QED
        BY <3>1, <3>1a, <3>3, <4>1
    <3>4. CASE i < k /\ j = k
      BY <1>1, <2>2, <3>1, <3>2, <3>4
    <3>5. CASE i < k /\ j > k
      <4>1. r[i] = q[i] /\ r[j] = q[j - 1] /\ i < j - 1
        BY <1>1, <2>2, <3>1, <3>5
      <4> QED
        BY <3>1, <3>1a, <3>5, <4>1
    <3>6. CASE i = k /\ j > k
      BY <1>1, <1>2, <2>2, <2>3, <3>1, <3>2, <3>6
    <3>7. CASE i > k /\ j > k
      <4>1. r[i] = q[i - 1] /\ r[j] = q[j - 1] /\ i - 1 < j - 1
        BY <1>1, <2>2, <3>1, <3>7
      <4> QED
        BY <3>1, <3>1a, <3>7, <4>1
    <3> QED
      BY <1>1, <3>3, <3>4, <3>5, <3>6, <3>7
  <2>5. HeadSent(r)
    <3> SUFFICES ASSUME NEW i \in 2..Len(r)
                 PROVE  r[i].sent = 0
      BY DEF HeadSent
    <3>1. CASE i < k
      <4>1. i \in 2..Len(q) /\ i \in 1..(k - 1)
        BY <1>1, <1>2, <3>1
      <4>2. r[i] = q[i] /\ q[i].sent = 0
        BY <2>2, <4>1 DEF Ordered, HeadSent
      <4> QED
        BY <4>2
    <3>2. CASE i = k
      BY <2>2, <3>2
    <3>3. CASE i > k
      BY <1>1, <1>2, <2>2, <2>3, <3>3
    <3> QED
      BY <1>1, <3>1, <3>2, <3>3
  <2>6. Behind(r, next)
    <3> SUFFICES ASSUME NEW i \in 1..Len(r), r[i].sent > 0
                 PROVE  r[i].seq < next
      BY DEF Behind
    <3>1. i < k
      <4>1. CASE i = k
        <5>1. r[i].sent = 0
          BY <2>2, <4>1
        <5> QED
          BY <5>1
      <4>2. CASE i > k
        <5>1. i \in (k + 1)..(Len(q) + 1) /\ i - 1 \in k..Len(q)
          BY <1>1, <1>2, <2>2, <4>2
        <5>2. r[i] = q[i - 1] /\ q[i - 1].sent = 0
          BY <2>2, <2>3, <5>1
        <5> QED
          BY <5>2
      <4> QED
        BY <1>1, <1>2, <2>2, <4>1, <4>2
    <3>2. i \in 1..Len(q) /\ r[i] = q[i]
      BY <1>1, <1>2, <2>2, <3>1
    <3> QED
      BY <3>2 DEF Ordered, Behind
  <2> QED
    BY <2>1, <2>4, <2>5, <2>6 DEF Ordered
<1> QED
  BY <1>3, <1>4, <1>5

QueueInv == Ordered(forward, remote_seq) /\ FinAfterQueue

\* A step opens a session, forwards, or queues at most one segment, and moves the ack
\* number by at most one; a session that sent its FIN owns no socket and queues nothing.
QueueStep ==
    /\ remote_seq' = remote_seq \/ remote_seq' = remote_seq + 1
    /\ \/ forward' = forward
       \/ forward' = <<>>
       \/ \E seq, len \in Nat : \E next \in {remote_seq, remote_seq'} :
             forward' = Enqueue(forward, next, seq, len)
    /\ FinAfterQueue'

LEMMA QueueSteps ==
    ASSUME SocketInv, AnswerInv, FinAfterQueue, Next
    PROVE  Opened \/ ForwardSegment \/ QueueStep
<1> USE DEF FinAfterQueue
<1>1. CASE HandleTcp
  <2>1. CASE UNCHANGED vars
    BY <2>1 DEF vars, session, QueueStep
  <2>2. ASSUME NEW seq \in Nat, NEW len \in Nat, ProxiedPacket(seq, len)
        PROVE  QueueStep
    <3>1. state \notin {"FIN_WAIT1", "LAST_ACK"}
      BY <2>2 DEF ProxiedPacket, AnswerInv, UnansweredStates, Unanswered
    <3>2. state' \notin {"FIN_WAIT1", "LAST_ACK"}
      BY <2>2, <3>1 DEF ProxiedPacket, SendConnect, Reset
    <3>3. remote_seq' = remote_seq \/ remote_seq' = remote_seq + 1
      BY <2>2 DEF ProxiedPacket, SendConnect, Reset, Acknowledge
    <3>4. forward' = Enqueue(forward, remote_seq', seq, len)
      BY <2>2 DEF ProxiedPacket
    <3> QED
      BY <3>2, <3>3, <3>4 DEF QueueStep
  <2>3. CASE Accepted
    <3>1. remote_seq' = remote_seq \/ remote_seq' = remote_seq + 1
      BY <2>3 DEF Accepted, Kept, Reset, Acknowledge
    <3>2. forward' = forward \/ \E seq, len \in Nat : forward' = Enqueue(forward, remote_seq, seq, len)
      BY <2>3 DEF Accepted
    <3>3. state' \in {"FIN_WAIT1", "LAST_ACK"} => state' = state
      BY <2>3 DEF Accepted, Reset
    <3>4. sock = "none" => forward' = forward
      BY <2>3 DEF Accepted
    <3>5. FinAfterQueue'
      BY <3>3, <3>4 DEF SocketInv, SocketReleased
    <3> QED
      BY <3>1, <3>2, <3>5 DEF QueueStep
  <2> QED
    BY <1>1, <2>1, <2>2, <2>3, PacketSteps
<1>2. CASE Loop
  BY <1>2 DEF Loop, Monitor, EpollModFails, KeepAlive, SkipCheck, CheckTcpSession, EpollWait,
              EndBatch, session, QueueStep
<1>3. CASE CheckTcpSocket
  <2>1. CASE SocketError
    BY <2>1 DEF SocketError, Reset, Acknowledge, QueueStep
  <2>2. CASE ConnectReply
    BY <2>2 DEF ConnectReply, Reset, Acknowledge, QueueStep
  <2>3. CASE SocketConnected
    BY <2>3 DEF SocketConnected, Acknowledge, QueueStep
  <2>4. CASE SocketReady \/ ForwardDone \/ ReadNothing
    BY <2>4 DEF SocketReady, ForwardDone, ReadNothing, session, QueueStep
  <2>5. CASE AckForwarded
    <3>1. remote_seq' = remote_seq \/ remote_seq' = remote_seq + 1
      BY <2>5 DEF AckForwarded, Acknowledge
    <3>2. forward' = forward /\ (state' = state \/ state' = "CLOSING")
      BY <2>5 DEF AckForwarded
    <3> QED
      BY <3>1, <3>2 DEF QueueStep
  <2>6. CASE ReadData
    BY <2>6 DEF ReadData, QueueStep
  <2>7. CASE ReadEof
    BY <2>7 DEF ReadEof, MayRead, FinOrReset, Reset, Acknowledge, QueueStep
  <2>8. CASE ReadError
    BY <2>8 DEF ReadError, Reset, Acknowledge, QueueStep
  <2> QED
    BY <1>3, <2>1, <2>2, <2>3, <2>4, <2>5, <2>6, <2>7, <2>8 DEF CheckTcpSocket
<1>4. CASE World
  BY <1>4 DEF World, ConnectDone, SocketBreaks, Drain, ProxyReply, ServerSend, ServerClose,
              Tick, Outside, QueueStep
<1> QED
  BY <1>1, <1>2, <1>3, <1>4 DEF Next

LEMMA OrderedLater ==
    ASSUME NEW q \in Seq(Segment), NEW next \in Nat, Ordered(q, next),
           NEW later \in Nat, next <= later
    PROVE  Ordered(q, later)
<1>1. \A i \in 1..Len(q) : q[i].seq \in Nat
  <2>1. \A i \in 1..Len(q) : q[i] \in Segment
    BY ElementOfSeq
  <2> QED
    BY <2>1 DEF Segment
<1> QED
  BY <1>1 DEF Ordered, Behind

LEMMA OrderedOne ==
    ASSUME NEW q \in Seq(Segment), NEW next, \/ q = <<>>
                             \/ \E len \in Nat : q = <<[seq |-> 0, len |-> len, sent |-> 0]>>
    PROVE  Ordered(q, next)
<1>1. CASE q = <<>>
  BY <1>1 DEF Ordered, Sorted, HeadSent, Behind
<1>2. ASSUME NEW len \in Nat, q = <<[seq |-> 0, len |-> len, sent |-> 0]>>
      PROVE  Ordered(q, next)
  <2>1. Len(q) = 1 /\ q[1].sent = 0
    BY <1>2
  <2> QED
    BY <2>1 DEF Ordered, Sorted, HeadSent, Behind
<1> QED
  BY <1>1, <1>2

\* The head goes, or what is left of it starts before the new ack number.
LEMMA ForwardOrdered ==
    ASSUME TypeOK, QueueInv, ForwardSegment
    PROVE  QueueInv'
<1>1. forward # <<>> /\ state' = state
  BY DEF ForwardSegment, HeadFits
<1>2. PICK sent \in 0..(End(forward[1]) - Start(forward[1])) :
         /\ remote_seq' = Start(forward[1]) + sent
         /\ \/ forward' = Tail(forward)
            \/ forward' = [forward EXCEPT ![1].sent = @ + sent]
  BY DEF ForwardSegment
<1>3. /\ Len(forward) \in Nat /\ 1 \in 1..Len(forward)
      /\ \A i \in 1..Len(forward) : forward[i] \in Segment
  BY <1>1, EmptySeq, LenProperties, ElementOfSeq DEF TypeOK
<1>4. sent \in Nat /\ forward[1] \in Segment
  BY <1>1, <1>2, HeadType
<1>5. FinAfterQueue'
  BY <1>1 DEF QueueInv, FinAfterQueue
<1>6. CASE forward' = Tail(forward)
  <2>1. /\ Len(forward') = Len(forward) - 1
        /\ \A i \in 1..(Len(forward) - 1) : forward'[i] = forward[i + 1]
    BY <1>1, <1>6, HeadTailProperties DEF TypeOK
  <2>2. \A i \in 1..(Len(forward) - 1) : i + 1 \in 2..Len(forward) /\ i + 1 \in 1..Len(forward)
    BY <1>3
  <2>3. \A i \in 1..Len(forward') : forward'[i].sent = 0
    BY <2>1, <2>2 DEF QueueInv, Ordered, HeadSent
  <2>4. Sorted(forward')
    <3> SUFFICES ASSUME NEW i \in 1..Len(forward'), NEW j \in 1..Len(forward'), i < j
                 PROVE  forward'[i].seq < forward'[j].seq
      BY DEF Sorted
    <3>1. i + 1 < j + 1 /\ i + 1 \in 1..Len(forward) /\ j + 1 \in 1..Len(forward)
      BY <2>1, <2>2
    <3> QED
      BY <2>1, <3>1 DEF QueueInv, Ordered, Sorted
  <2> QED
    BY <1>5, <2>3, <2>4 DEF QueueInv, Ordered, HeadSent, Behind
<1>7. CASE forward' = [forward EXCEPT ![1].sent = @ + sent]
  <2>1. /\ Len(forward') = Len(forward)
        /\ \A i \in 1..Len(forward) : forward'[i].seq = forward[i].seq
        /\ \A i \in 2..Len(forward) : forward'[i].sent = forward[i].sent
        /\ forward'[1].sent = forward[1].sent + sent
    <3>1. Len(forward') = Len(forward)
      BY <1>3, <1>7, ExceptSeq, LenProperties DEF TypeOK, Segment
    <3>2. \A i \in 2..Len(forward) : forward'[i] = forward[i]
      BY <1>3, <1>7
    <3>3. forward'[1].seq = forward[1].seq /\ forward'[1].sent = forward[1].sent + sent
      BY <1>3, <1>4, <1>7 DEF Segment
    <3> QED
      BY <1>3, <3>1, <3>2, <3>3
  <2>2. Sorted(forward') /\ HeadSent(forward')
    BY <2>1 DEF QueueInv, Ordered, Sorted, HeadSent
  <2>3. Behind(forward', remote_seq')
    <3> SUFFICES ASSUME NEW i \in 1..Len(forward'), forward'[i].sent > 0
                 PROVE  forward'[i].seq < remote_seq'
      BY DEF Behind
    <3>1. i = 1
      BY <1>3, <2>1 DEF QueueInv, Ordered, HeadSent
    <3>2. remote_seq' = forward[1].seq + forward[1].sent + sent
      BY <1>2 DEF Start
    <3> QED
      BY <1>4, <2>1, <3>1, <3>2 DEF Segment
  <2> QED
    BY <1>5, <2>2, <2>3 DEF QueueInv, Ordered
<1> QED
  BY <1>2, <1>6, <1>7

LEMMA QueueNext ==
    ASSUME TypeOK, SocketInv, AnswerInv, QueueInv, [Next]_vars
    PROVE  QueueInv'
<1>0. TypeOK'
  BY TypeNext
<1>1. CASE UNCHANGED vars
  BY <1>1 DEF vars, session, QueueInv, FinAfterQueue
<1>2. CASE Opened
  <2>1. Ordered(forward', remote_seq')
    BY <1>0, <1>2, OrderedOne DEF Opened, TypeOK
  <2> QED
    BY <1>2, <2>1 DEF Opened, QueueInv, FinAfterQueue
<1>3. CASE ForwardSegment
  BY <1>3, ForwardOrdered
<1>4. CASE QueueStep
  <2>1. remote_seq \in Nat /\ remote_seq' \in Nat /\ remote_seq <= remote_seq'
        /\ forward \in Seq(Segment) /\ forward' \in Seq(Segment)
    BY <1>0, <1>4 DEF QueueStep, TypeOK
  <2>2. Ordered(forward, remote_seq) /\ Ordered(forward, remote_seq')
    BY <2>1, OrderedLater DEF QueueInv
  <2>3. ASSUME NEW seq \in Nat, NEW len \in Nat, NEW next \in {remote_seq, remote_seq'},
               forward' = Enqueue(forward, next, seq, len)
        PROVE  Ordered(forward', remote_seq')
    <3>1. Ordered(forward, next) /\ next \in Nat /\ next <= remote_seq'
      BY <2>1, <2>2, <2>3
    <3>2. Ordered(forward', next)
      BY <2>1, <2>3, <3>1, EnqueueOrdered
    <3> QED
      BY <2>1, <3>1, <3>2, OrderedLater
  <2>4. forward' = <<>> => Ordered(forward', remote_seq')
    BY <2>1, OrderedOne
  <2> QED
    BY <1>4, <2>2, <2>3, <2>4 DEF QueueStep, QueueInv
<1> QED
  BY <1>1, <1>2, <1>3, <1>4, QueueSteps DEF QueueInv

\* The queue stays strictly sorted whatever overlaps, repeats or leaves gaps, only its
\* head is partly sent, and it is empty, and stays so, when the engine sent its FIN
\* (tcp.c:427-439, 905-960).
THEOREM QueueInOrderHolds == Spec => []QueueInOrder
<1>1. Init => QueueInv
  BY DEF Init, QueueInv, FinAfterQueue, Ordered, Sorted, HeadSent, Behind
<1>2. ConnectInv => AnswerInv
  BY DEF ConnectInv
<1>3. QueueInv => QueueInOrder
  BY DEF QueueInv, Ordered, Sorted, HeadSent, QueueInOrder, QueueSorted
<1> QED
  BY <1>1, <1>2, <1>3, QueueNext, TypeCorrect, SocketAlways, ConnectAlways, PTL DEF Spec

-----------------------------------------------------------------------------
(***************************************************************************)
(* The window of the application.  Only check_tcp_socket's last part sends *)
(* data or a FIN, and looks at the window as the last packet left it.      *)
(***************************************************************************)
LEMMA WindowStep ==
    ASSUME TypeOK, Next, phase = "read", local_seq' # local_seq
    PROVE  local_seq' - acked <= send_window
<1>1. ReadData \/ ReadEof
  BY DEF Next, HandleTcp, Loop, Monitor, SkipCheck, CheckTcpSession, EpollWait, EndBatch,
         CheckTcpSocket, SocketError, ConnectReply, SocketConnected, EventPending, SocketReady,
         ForwardSegment, ForwardDone, AckForwarded, ReadNothing, ReadError, World, ConnectDone,
         SocketBreaks, Drain, ProxyReply, ServerSend, ServerClose, Tick, Outside, session
<1>2. SendWindow > 0
  BY <1>1 DEF ReadData, ReadEof, MayRead
<1>3. ASSUME NEW n \in Nat, n <= SendWindow
      PROVE  (local_seq + n) - acked <= send_window
  BY <1>2, <1>3 DEF SendWindow, TypeOK
<1>4. CASE ReadData
  <2>1. PICK n \in 1..rx : n <= SendWindow /\ (local_seq' = local_seq + n \/ UNCHANGED local_seq)
    BY <1>4 DEF ReadData
  <2>2. n \in Nat /\ local_seq' = local_seq + n
    BY <2>1 DEF TypeOK
  <2>3. (local_seq + n) - acked <= send_window
    BY <1>3, <2>1, <2>2
  <2> QED
    BY <2>2, <2>3
<1>5. CASE ReadEof
  <2>1. local_seq' = local_seq + 1
    BY <1>5 DEF ReadEof, FinOrReset, SendFin
  <2>2. SendWindow \in Nat
    BY DEF SendWindow, TypeOK
  <2>3. 1 <= SendWindow
    BY <1>2, <2>2
  <2>4. (local_seq + 1) - acked <= send_window
    BY <1>3, <2>3
  <2> QED
    BY <2>1, <2>4
<1> QED
  BY <1>1, <1>4, <1>5

\* What is in flight towards the application stays within the window it advertised last,
\* whatever packet of the same batch shrank it (tcp.c:390-446).
THEOREM FlowControlHolds == Spec => FlowControl
<1>1. TypeOK /\ [Next]_vars =>
        [phase = "read" /\ local_seq' # local_seq => local_seq' - acked <= send_window]_vars
  BY WindowStep
<1> QED
  BY <1>1, TypeCorrect, PTL DEF Spec, FlowControl

=============================================================================
