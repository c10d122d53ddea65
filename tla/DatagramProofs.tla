---------------------------- MODULE DatagramProofs ----------------------------
(***************************************************************************)
(* Proofs about DatagramSessions: a flow has one session, events never     *)
(* refer to freed sessions, sessions of an earlier loop end, and the check *)
(* leaves each session its share of the timeout.                           *)
(***************************************************************************)
EXTENDS DatagramSessions, FiniteSetTheorems, TLAPS

\* A session as it can be: only a closed socket or one of an earlier loop is not in
\* the epoll set, and an ICMP session deals in ids.
Sane(s) ==
    /\ s \in Session
    /\ s.proto = "icmp" => s.id \in Ids /\ s.asked \subseteq Ids /\ s.rx \in Seq(Ids)
    /\ s.state = "CLOSED" => s.epoll = "gone"
    /\ s.state = "ACTIVE" => s.epoll # "gone"

\* What every step but the creation of a session may do to one
Evolves(s, t) ==
    /\ Sane(t)
    /\ t.proto = s.proto /\ t.key = s.key
    /\ t.state = "ACTIVE" => s.state = "ACTIVE"

Sessions == /\ table \in [Ptrs -> Session \cup {NoSession}]
            /\ \A p \in Used : Sane(table[p])

LoopTypes ==
    /\ counted \in 0..(Cardinality(Ptrs) + MaxTcp)
    /\ phase \in {"count", "check", "wait", "batch", "tun", "read", "ended"}
    /\ tun \in BOOLEAN
    /\ batch \in [Ptrs -> SUBSET {"IN", "ERR"}]
    /\ cur \in Ptrs \cup {NoSession}
    /\ echoed \in [written : Ids, asked : Ids] \cup {NoEcho}

\* An event is handled in its batch, and once
BatchUsedUp == phase \notin {"batch", "tun", "read"} => batch = Quiet
ReadHandled == phase = "read" => cur \in Ptrs /\ batch[cur] = {}
EventHasData == \A p \in Ptrs : "IN" \in batch[p] => table[p].rx # <<>>

IInv == Sessions /\ LoopTypes /\ OneSessionPerFlow /\ EventHasSession
        /\ BatchUsedUp /\ ReadHandled /\ EventHasData

\* Steps that create no session, and those that create one for a flow without
Evolution == \A p \in Ptrs :
    table'[p] # NoSession => p \in Used /\ Evolves(table[p], table'[p])

Creation == \E p \in Ptrs \ Used : \E t \in Session :
    /\ table' = [table EXCEPT ![p] = t] /\ Sane(t)
    /\ IF t.proto = "udp" THEN UdpOf(t.key) = {} ELSE IcmpOf(t.key) = {}

\* Sessions that only evolve stay one per flow
LEMMA EvolutionOne ==
    ASSUME IInv, Evolution, table' \in [Ptrs -> Session \cup {NoSession}]
    PROVE  Sessions' /\ OneSessionPerFlow'
BY NoSessionAssumption
   DEF IInv, Evolution, Evolves, Sessions, Sane, OneSessionPerFlow, Used, ActiveSet, Is

\* A session created for a flow without one is the flow's only session
LEMMA CreationOne ==
    ASSUME IInv, Creation
    PROVE  /\ Sessions' /\ OneSessionPerFlow'
           /\ \A p \in Used : table'[p] = table[p]
<1> PICK p \in Ptrs \ Used, t \in Session :
        /\ table' = [table EXCEPT ![p] = t] /\ Sane(t)
        /\ IF t.proto = "udp" THEN UdpOf(t.key) = {} ELSE IcmpOf(t.key) = {}
    BY DEF Creation
<1>1. table' \in [Ptrs -> Session \cup {NoSession}] /\ table'[p] = t
      /\ \A r \in Ptrs \ {p} : table'[r] = table[r]
    BY DEF IInv, Sessions
<1>2. Sessions' /\ \A r \in Used : table'[r] = table[r]
    BY <1>1 DEF IInv, Sessions, Used
<1>3. t.proto \in {"udp", "icmp"} BY DEF Session
<1>4. OneSessionPerFlow'
    BY <1>1, <1>3 DEF IInv, OneSessionPerFlow, UdpOf, IcmpOf, Used, ActiveSet, Is
<1> QED BY <1>2, <1>4

-----------------------------------------------------------------------------
(***************************************************************************)
(* What the operators on sessions do.                                      *)
(***************************************************************************)
\* Doing nothing, closing, checking and terminating a session are evolution
LEMMA EvolvesSame == ASSUME NEW s, Sane(s) PROVE Evolves(s, s)
BY DEF Evolves

LEMMA ClosedEvolves == ASSUME NEW s, Sane(s) PROVE Evolves(s, Closed(s))
<1>1. <<>> \in Seq(Ids) /\ <<>> \in Seq(Ids \cup {Data})
    OBVIOUS
<1>2. Closed(s) \in Session /\ Closed(s).rx = <<>> /\ Closed(s).asked = {}
    BY <1>1 DEF Closed, Sane, Session
<1> QED BY <1>1, <1>2 DEF Evolves, Closed, Sane, Session

LEMMA CheckEvolves ==
    ASSUME NEW s, Sane(s)
    PROVE  /\ CheckUdp(s) # NoSession => Evolves(s, CheckUdp(s))
           /\ CheckIcmp(s) # NoSession => Evolves(s, CheckIcmp(s))
BY EvolvesSame, ClosedEvolves DEF CheckUdp, CheckIcmp

LEMMA TerminateEvolves ==
    ASSUME NEW s, Sane(s) PROVE Evolves(s, Terminate(s)) /\ Terminate(s).state # "ACTIVE"
BY DEF Evolves, Terminate, Sane, Session

\* A step within a batch: it closes no socket
Keeps(s, t) == Evolves(s, t) /\ (t.state = "CLOSED" => s.state = "CLOSED")

\* Sending over a session keeps its socket and what was received
LEMMA SentKeeps ==
    ASSUME NEW s, Sane(s), NEW id \in Ids \cup {Data}, s.proto = "icmp" => id \in Ids,
           NEW t \in Sent(s, id)
    PROVE  Keeps(s, t) /\ t.rx = s.rx
<1> USE DEF Sane, Session
<1>1. CASE t = [s EXCEPT !.idle = 0, !.asked = @ \cup {id}]
  <2>1. t \in Session BY <1>1
  <2> QED BY <1>1, <2>1 DEF Keeps, Evolves
<1>2. CASE t = [s EXCEPT !.idle = 0]
    BY <1>2 DEF Keeps, Evolves
<1>3. CASE t = [s EXCEPT !.idle = 0, !.state = "FINISHING"]
    BY <1>3 DEF Keeps, Evolves
<1> QED BY <1>1, <1>2, <1>3 DEF Sent

\* A new session is one that can be
LEMMA OpenedSane ==
    ASSUME NEW proto \in {"udp", "icmp"}, NEW key \in Flows \cup Pairs,
           NEW id \in Ids \cup {Data}, proto = "icmp" => id \in Ids,
           NEW t \in Opened(proto, key, id)
    PROVE  Sane(t) /\ t.proto = proto /\ t.key = key
<1>1. PICK e \in {"watched", "failed"} :
        t = [proto |-> proto, key |-> key, id |-> id, state |-> "ACTIVE", idle |-> 0,
             epoll |-> e, err |-> FALSE, asked |-> {}, rx |-> <<>>]
    BY DEF Opened
<1>2. <<>> \in Seq(Ids) /\ <<>> \in Seq(Ids \cup {Data})
    OBVIOUS
<1>3. t \in Session
    BY <1>1, <1>2 DEF Session
<1> QED BY <1>1, <1>2, <1>3 DEF Sane

-----------------------------------------------------------------------------
(***************************************************************************)
(* The invariant.                                                          *)
(***************************************************************************)
\* The turn's count goes up to the size of the table and the TCP sessions
LEMMA CountRange ==
    /\ 0 \in 0..(Cardinality(Ptrs) + MaxTcp)
    /\ \A n \in 0..MaxTcp : Cardinality(ActiveSet) + n \in 0..(Cardinality(Ptrs) + MaxTcp)
<1>1. Cardinality(Ptrs) \in Nat /\ Cardinality(ActiveSet) \in Nat
      /\ Cardinality(ActiveSet) <= Cardinality(Ptrs)
    BY PtrsAssumption, FS_Subset, FS_CardinalityType DEF ActiveSet
<1> QED BY <1>1, BoundsAssumption

\* The table starts empty
LEMMA InitInv == Init => IInv
<1> SUFFICES ASSUME Init PROVE IInv OBVIOUS
<1>1. Used = {} BY DEF Init, Used
<1>2. 0 \in 0..(Cardinality(Ptrs) + MaxTcp)
    BY CountRange
<1> QED BY <1>1, <1>2
    DEF Init, IInv, Sessions, LoopTypes, OneSessionPerFlow, EventHasSession, BatchUsedUp,
        ReadHandled, EventHasData, Quiet

\* Steps that leave the sessions alone
LEMMA LoopSteps ==
    ASSUME IInv, CountSessions \/ SkipCheck \/ EpollWait \/ EndBatch \/ TunEvent
                 \/ TunDrained \/ ReadUdpDone \/ TunFails
                 \/ \E p \in Ptrs : UdpEvent(p)
    PROVE  IInv'
<1>1. UNCHANGED table
    BY DEF CountSessions, SkipCheck, EpollWait, EndBatch, TunEvent, TunDrained,
           ReadUdpDone, TunFails, UdpEvent
<1>2. Sessions' /\ OneSessionPerFlow'
    BY <1>1 DEF IInv, Sessions, OneSessionPerFlow, Used, ActiveSet, Is
<1>3. CASE CountSessions
  <2>1. counted' \in 0..(Cardinality(Ptrs) + MaxTcp)
    BY <1>3, CountRange DEF CountSessions
  <2> QED BY <1>2, <1>1, <1>3, <2>1
      DEF CountSessions, IInv, LoopTypes, EventHasSession, BatchUsedUp, ReadHandled,
          EventHasData, Used, Quiet
<1>4. CASE SkipCheck
    BY <1>2, <1>4 DEF SkipCheck, IInv, LoopTypes, EventHasSession, BatchUsedUp, ReadHandled,
          EventHasData, Used, Quiet
<1>5. CASE EpollWait
  <2>1. \A p \in Ptrs : batch'[p] = {} \/ batch'[p] = Ready(p)
    BY <1>5 DEF EpollWait
  <2>2. batch' \in [Ptrs -> SUBSET {"IN", "ERR"}]
    BY <1>5 DEF EpollWait, Ready
  <2>3. \A p \in Ptrs : Ready(p) # {} => p \in Used /\ table[p].state # "CLOSED"
    BY DEF Ready, IInv, Sessions, Sane, Used
  <2>4. \A p \in Ptrs : "IN" \in Ready(p) => table[p].rx # <<>>
    BY DEF Ready
  <2> QED BY <1>1, <1>2, <1>5, <2>1, <2>2, <2>3, <2>4
      DEF EpollWait, IInv, LoopTypes, EventHasSession, BatchUsedUp, ReadHandled,
          EventHasData, Used
<1>6. CASE TunEvent \/ TunDrained \/ ReadUdpDone
    BY <1>1, <1>2, <1>6 DEF TunEvent, TunDrained, ReadUdpDone,
          IInv, LoopTypes, EventHasSession, BatchUsedUp, ReadHandled,
          EventHasData, Used, Quiet
<1>7. CASE EndBatch \/ TunFails
    BY <1>1, <1>2, <1>7, CountRange DEF EndBatch, TunFails,
          IInv, LoopTypes, EventHasSession, BatchUsedUp, ReadHandled,
          EventHasData, Used, Quiet
<1>8. CASE \E p \in Ptrs : UdpEvent(p)
    BY <1>1, <1>2, <1>8 DEF UdpEvent, Proto, Handled,
          IInv, LoopTypes, EventHasSession, BatchUsedUp, ReadHandled,
          EventHasData, Used, Quiet
<1> QED BY <1>3, <1>4, <1>5, <1>6, <1>7, <1>8

\* A step that keeps the sockets and what is in them, and the batch
LEMMA BatchSteps ==
    ASSUME IInv, UNCHANGED loop, Sessions', OneSessionPerFlow',
           \A p \in Used : p \in Used' /\ Keeps(table[p], table'[p]),
           \A p \in Ptrs : "IN" \in batch[p] => table'[p].rx # <<>>,
           echoed' \in [written : Ids, asked : Ids] \cup {NoEcho}
    PROVE  IInv'
BY DEF IInv, loop, LoopTypes, EventHasSession, BatchUsedUp, ReadHandled, EventHasData,
       Keeps, Quiet

\* The check of all sessions, the end of a loop and the start of the next: there
\* is no event left to refer to what they free
LEMMA CheckStep == ASSUME IInv, CheckSessions PROVE IInv'
<1>1. \A p \in Ptrs : table'[p] = IF table[p] = NoSession THEN NoSession
                   ELSE IF table[p].proto = "udp" THEN CheckUdp(table[p])
                   ELSE CheckIcmp(table[p])
    BY DEF CheckSessions
<1>2. Evolution
    BY <1>1, CheckEvolves DEF Evolution, IInv, Sessions, Used
<1>3. table' \in [Ptrs -> Session \cup {NoSession}]
    BY <1>2 DEF Evolution, Evolves, Sane, CheckSessions
<1>4. Sessions' /\ OneSessionPerFlow'
    BY <1>2, <1>3, EvolutionOne
<1>5. batch' = Quiet /\ phase' = "wait"
    BY DEF CheckSessions, IInv, BatchUsedUp
<1> QED BY <1>4, <1>5
    DEF CheckSessions, IInv, LoopTypes, EventHasSession, BatchUsedUp, ReadHandled,
        EventHasData, Quiet

LEMMA StopStep == ASSUME IInv, Stop PROVE IInv'
<1>1. Evolution /\ table' \in [Ptrs -> Session \cup {NoSession}]
    BY DEF Stop, Evolution
<1>2. Sessions' /\ OneSessionPerFlow'
    BY <1>1, EvolutionOne
<1> QED BY <1>2, CountRange
    DEF Stop, IInv, LoopTypes, EventHasSession, BatchUsedUp, ReadHandled,
        EventHasData, Quiet

LEMMA RestartStep == ASSUME IInv, Restart PROVE IInv'
<1>1. \A p \in Ptrs :
        table'[p] = IF table[p] = NoSession THEN NoSession ELSE Terminate(table[p])
    BY DEF Restart
<1>2. Evolution
    BY <1>1, TerminateEvolves DEF Evolution, IInv, Sessions, Used
<1>3. table' \in [Ptrs -> Session \cup {NoSession}]
    BY <1>2 DEF Evolution, Evolves, Sane, Restart
<1>4. Sessions' /\ OneSessionPerFlow'
    BY <1>2, <1>3, EvolutionOne
<1>5. batch' = Quiet /\ phase' = "count"
    BY DEF Restart, IInv, BatchUsedUp
<1> QED BY <1>4, <1>5
    DEF Restart, IInv, LoopTypes, EventHasSession, BatchUsedUp, ReadHandled,
        EventHasData, Quiet

\* One session changes and keeps its socket
LEMMA OneKept ==
    ASSUME IInv, NEW p \in Used, NEW t, Keeps(table[p], t),
           table' = [table EXCEPT ![p] = t]
    PROVE  /\ Sessions' /\ OneSessionPerFlow'
           /\ \A r \in Used : r \in Used' /\ Keeps(table[r], table'[r])
<1>1. t \in Session /\ t # NoSession
    BY NoSessionAssumption DEF Keeps, Evolves, Sane
<1>2. table' \in [Ptrs -> Session \cup {NoSession}] /\ table'[p] = t
      /\ \A r \in Ptrs \ {p} : table'[r] = table[r]
    BY <1>1 DEF IInv, Sessions, Used
<1>3. \A r \in Used : r \in Used' /\ Keeps(table[r], table'[r])
    BY <1>1, <1>2, EvolvesSame DEF Keeps, IInv, Sessions, Used
<1>4. Evolution
    BY <1>2, <1>3 DEF Evolution, Keeps, Used
<1> QED BY <1>2, <1>3, <1>4, EvolutionOne

\* A packet is sent over the flow's session, over a new one, or dropped
LEMMA ForwardStep ==
    ASSUME IInv, NEW proto \in {"udp", "icmp"}, NEW key \in Flows \cup Pairs,
           NEW id \in Ids \cup {Data}, proto = "icmp" => id \in Ids,
           NEW found, found = IF proto = "udp" THEN UdpOf(key) ELSE IcmpOf(key),
           Forward(proto, key, id, found), UNCHANGED <<loop, echoed>>
    PROVE  IInv'
<1>1. CASE \E p \in found : \E s \in Sent(table[p], id) :
              table' = [table EXCEPT ![p] = s]
  <2>a. PICK p \in found : \E s \in Sent(table[p], id) : table' = [table EXCEPT ![p] = s]
    BY <1>1
  <2>1. PICK s \in Sent(table[p], id) : table' = [table EXCEPT ![p] = s]
    BY <2>a
  <2>2. p \in Used /\ table[p].proto = proto
    BY DEF UdpOf, IcmpOf, ActiveSet, Is
  <2>3. Keeps(table[p], s) /\ s.rx = table[p].rx
    BY <2>2, SentKeeps DEF IInv, Sessions
  <2>4. \A r \in Ptrs : table'[r] = IF r = p THEN s ELSE table[r]
    BY <2>1, <2>2 DEF IInv, Sessions, Used
  <2>5. \A r \in Ptrs : "IN" \in batch[r] => table'[r].rx # <<>>
    BY <2>3, <2>4 DEF IInv, EventHasData
  <2> QED BY <2>1, <2>2, <2>3, <2>5, OneKept, BatchSteps DEF IInv, LoopTypes
<1>2. CASE found = {} /\ \E p \in Ptrs \ Used : \E o \in Opened(proto, key, id) :
              \E s \in Sent(o, id) : table' = [table EXCEPT ![p] = s]
  <2>a. PICK p \in Ptrs \ Used, o \in Opened(proto, key, id) :
            \E s \in Sent(o, id) : table' = [table EXCEPT ![p] = s]
    BY <1>2
  <2>1. PICK s \in Sent(o, id) : table' = [table EXCEPT ![p] = s]
    BY <2>a
  <2>2. Sane(o) /\ o.proto = proto /\ o.key = key
    BY OpenedSane
  <2>3. Sane(s) /\ s.proto = proto /\ s.key = key
    BY <2>2, SentKeeps DEF Keeps, Evolves
  <2>4. Creation
    BY <1>2, <2>1, <2>3 DEF Creation, Sane
  <2>5. Sessions' /\ OneSessionPerFlow' /\ \A r \in Used : table'[r] = table[r]
    BY <2>4, CreationOne
  <2>6. \A r \in Used : r \in Used' /\ Keeps(table[r], table'[r])
    BY <2>5, EvolvesSame DEF Used, Keeps, IInv, Sessions
  <2>7. \A r \in Ptrs : "IN" \in batch[r] => r \in Used /\ table'[r].rx # <<>>
    BY <2>5 DEF IInv, EventHasData, EventHasSession
  <2> QED BY <2>5, <2>6, <2>7, BatchSteps DEF IInv, LoopTypes
<1>3. CASE UNCHANGED table
  <2>1. Sessions' /\ OneSessionPerFlow' /\ \A r \in Used : r \in Used' /\ Keeps(table[r], table'[r])
    BY <1>3, EvolvesSame DEF IInv, Sessions, OneSessionPerFlow, Used, ActiveSet, Is, Keeps
  <2> QED BY <1>3, <2>1, BatchSteps DEF IInv, LoopTypes, EventHasData
<1> QED BY <1>1, <1>2, <1>3 DEF Forward

\* Nothing the invariant speaks of changes
LEMMA TableKept ==
    ASSUME IInv, UNCHANGED <<table, loop, echoed>> PROVE IInv'
BY DEF IInv, Sessions, LoopTypes, OneSessionPerFlow, EventHasSession, BatchUsedUp,
       ReadHandled, EventHasData, Used, ActiveSet, Is, loop, Quiet

\* A packet of any flow
LEMMA HandleIpStep == ASSUME IInv, HandleIp PROVE IInv'
<1>1. CASE \E f \in Flows : HandleUdp(f)
    BY <1>1, ForwardStep DEF HandleUdp, HandleIp
<1>2. CASE \E f \in Flows : IgnoreUdp(f)
    BY <1>2, TableKept DEF IgnoreUdp, HandleIp
<1>3. CASE \E q \in Pairs, id \in Ids : HandleIcmp(q, id)
    BY <1>3, ForwardStep, TableKept DEF HandleIcmp, HandleIp
<1> QED BY <1>1, <1>2, <1>3 DEF HandleIp

\* What the kernel, the servers and time do to a session
LEMMA OutsideKeeps ==
    ASSUME NEW s, Sane(s)
    PROVE  /\ Keeps(s, Older(s)) /\ Older(s).rx = s.rx
           /\ Keeps(s, [s EXCEPT !.err = TRUE, !.asked = {}])
           /\ \A id \in s.asked :
                Keeps(s, [s EXCEPT !.asked = @ \ {id}, !.rx = Append(@, id)])
<1> USE DEF Sane, Session
<1>1. Keeps(s, Older(s)) /\ Older(s).rx = s.rx
    BY DEF Keeps, Evolves, Older
<1>2. Keeps(s, [s EXCEPT !.err = TRUE, !.asked = {}])
    BY DEF Keeps, Evolves
<1>3. ASSUME NEW id \in s.asked
      PROVE  Keeps(s, [s EXCEPT !.asked = @ \ {id}, !.rx = Append(@, id)])
  <2> DEFINE t == [s EXCEPT !.asked = @ \ {id}, !.rx = Append(@, id)]
  <2>1. Append(s.rx, id) \in Seq(Ids \cup {Data})
    BY <1>3
  <2>2. s.proto = "icmp" => Append(s.rx, id) \in Seq(Ids)
    BY <1>3
  <2>3. t \in Session /\ t.rx = Append(s.rx, id) /\ t.asked = s.asked \ {id}
    BY <2>1
  <2>4. t.proto = s.proto /\ t.key = s.key /\ t.id = s.id /\ t.state = s.state
        /\ t.epoll = s.epoll
    OBVIOUS
  <2> QED BY <2>2, <2>3, <2>4 DEF Keeps, Evolves
<1> QED BY <1>1, <1>2, <1>3

\* Answers and errors change one session each, and time all of them
LEMMA OutsideStep == ASSUME IInv, Answer \/ SocketError \/ Tick PROVE IInv'
<1>1. CASE Answer
  <2>1. PICK p \in Used : \E id \in table[p].asked :
          table' = [table EXCEPT ![p].asked = @ \ {id}, ![p].rx = Append(@, id)]
    BY <1>1 DEF Answer
  <2>2. PICK id \in table[p].asked :
          table' = [table EXCEPT ![p].asked = @ \ {id}, ![p].rx = Append(@, id)]
    BY <2>1
  <2> DEFINE t == [table[p] EXCEPT !.asked = @ \ {id}, !.rx = Append(@, id)]
  <2>3. table' = [table EXCEPT ![p] = t]
    BY <2>2 DEF IInv, Sessions, Used
  <2>4. Keeps(table[p], t) /\ t.rx = Append(table[p].rx, id)
    BY OutsideKeeps DEF IInv, Sessions, Sane, Session
  <2>5. t.rx # <<>>
    BY <2>4 DEF IInv, Sessions, Sane, Session
  <2>6. \A r \in Ptrs : table'[r] = IF r = p THEN t ELSE table[r]
    BY <2>3 DEF IInv, Sessions, Used
  <2>7. \A r \in Ptrs : "IN" \in batch[r] => table'[r].rx # <<>>
    BY <2>5, <2>6 DEF IInv, EventHasData
  <2> HIDE DEF t
  <2> QED BY <1>1, <2>3, <2>4, <2>7, OneKept, BatchSteps DEF Answer, IInv, LoopTypes
<1>2. CASE SocketError
  <2>1. PICK p \in Used : table' = [table EXCEPT ![p].err = TRUE, ![p].asked = {}]
    BY <1>2 DEF SocketError
  <2> DEFINE t == [table[p] EXCEPT !.err = TRUE, !.asked = {}]
  <2>3. table' = [table EXCEPT ![p] = t]
    BY <2>1 DEF IInv, Sessions, Used
  <2>4. Keeps(table[p], t) /\ t.rx = table[p].rx
    BY OutsideKeeps DEF IInv, Sessions, Sane, Session
  <2>6. \A r \in Ptrs : table'[r] = IF r = p THEN t ELSE table[r]
    BY <2>3 DEF IInv, Sessions, Used
  <2>7. \A r \in Ptrs : "IN" \in batch[r] => table'[r].rx # <<>>
    BY <2>4, <2>6 DEF IInv, EventHasData
  <2> HIDE DEF t
  <2> QED BY <1>2, <2>3, <2>4, <2>7, OneKept, BatchSteps DEF SocketError, IInv, LoopTypes
<1>3. CASE Tick
  <2>1. \A p \in Ptrs : table'[p] = IF p \in Used THEN Older(table[p]) ELSE NoSession
    BY <1>3 DEF Tick
  <2>2. \A p \in Used : Keeps(table[p], table'[p]) /\ table'[p].rx = table[p].rx
    BY <2>1, OutsideKeeps DEF IInv, Sessions, Used
  <2>3. Evolution
    BY <2>1, <2>2 DEF Evolution, Keeps
  <2>4. table' \in [Ptrs -> Session \cup {NoSession}]
    BY <1>3, <2>3 DEF Tick, Evolution, Evolves, Sane
  <2>5. Sessions' /\ OneSessionPerFlow'
    BY <2>3, <2>4, EvolutionOne
  <2>6. \A p \in Used : p \in Used'
    BY <2>2, NoSessionAssumption DEF Keeps, Evolves, Sane, Used
  <2>7. \A p \in Ptrs : "IN" \in batch[p] => table'[p].rx # <<>>
    BY <2>2 DEF IInv, EventHasData, EventHasSession
  <2>8. UNCHANGED loop /\ echoed' \in [written : Ids, asked : Ids] \cup {NoEcho}
    BY <1>3 DEF Tick, IInv, LoopTypes
  <2> QED BY <2>2, <2>5, <2>6, <2>7, <2>8, BatchSteps
<1> QED BY <1>1, <1>2, <1>3

\* The datagram is read from the session whose event was handled
LEMMA ReadUdpStep == ASSUME IInv, ReadUdp PROVE IInv'
<1> DEFINE s == table[cur]
<1>1. cur \in Used /\ Sane(s) /\ s.rx # <<>> /\ batch[cur] = {}
    BY DEF ReadUdp, IInv, Sessions, EventHasSession, ReadHandled
<1>2. PICK failed \in BOOLEAN :
        table' = [table EXCEPT ![cur] =
            IF s.err THEN [s EXCEPT !.idle = 0, !.err = FALSE, !.state = "FINISHING"]
            ELSE [s EXCEPT !.idle = 0, !.rx = Tail(@),
                           !.state = IF failed \/ s.key \in DnsFlows
                                     THEN "FINISHING" ELSE @]]
    BY SwitchesAssumption DEF ReadUdp
<1> DEFINE t == IF s.err THEN [s EXCEPT !.idle = 0, !.err = FALSE, !.state = "FINISHING"]
                ELSE [s EXCEPT !.idle = 0, !.rx = Tail(@),
                               !.state = IF failed \/ s.key \in DnsFlows
                                         THEN "FINISHING" ELSE @]
<1>3. Tail(s.rx) \in Seq(Ids \cup {Data}) /\ (s.proto = "icmp" => Tail(s.rx) \in Seq(Ids))
    BY <1>1 DEF Sane, Session
<1>4. t \in Session
    BY <1>1, <1>3 DEF Sane, Session
<1>5. Keeps(s, t)
    BY <1>1, <1>3, <1>4 DEF Keeps, Evolves, Sane, Session
<1>6. table' = [table EXCEPT ![cur] = t]
    BY <1>2
<1>7. \A r \in Ptrs : r # cur => table'[r] = table[r]
    BY <1>6 DEF IInv, Sessions
<1>8. \A r \in Ptrs : "IN" \in batch[r] => table'[r].rx # <<>>
    BY <1>1, <1>7 DEF IInv, EventHasData
<1> HIDE DEF t
<1>9. Sessions' /\ OneSessionPerFlow' /\ \A r \in Used : r \in Used' /\ Keeps(table[r], table'[r])
    BY <1>1, <1>5, <1>6, OneKept
<1> QED BY <1>8, <1>9, BatchSteps DEF ReadUdp, IInv, LoopTypes

\* An echo reply is read, or an error ends the session
LEMMA IcmpEventStep == ASSUME IInv, NEW p \in Ptrs, IcmpEvent(p) PROVE IInv'
<1> DEFINE s == table[p]
<1>1. p \in Used /\ Sane(s) /\ s.proto = "icmp"
    BY DEF IcmpEvent, Proto, IInv, Sessions
<1>2. /\ phase = "batch" /\ batch[p] # {}
      /\ UNCHANGED <<counted, phase, tun, cur>>
      /\ batch' = [batch EXCEPT ![p] = {}]
    BY DEF IcmpEvent, Handled
<1>3. /\ batch' \in [Ptrs -> SUBSET {"IN", "ERR"}] /\ batch'[p] = {}
      /\ \A r \in Ptrs \ {p} : batch'[r] = batch[r]
    BY <1>2 DEF IInv, LoopTypes
<1>4. ASSUME NEW t, Keeps(s, t), table' = [table EXCEPT ![p] = t],
             echoed' \in [written : Ids, asked : Ids] \cup {NoEcho}
      PROVE  IInv'
  <2>1. Sessions' /\ OneSessionPerFlow' /\ \A r \in Used : r \in Used' /\ Keeps(table[r], table'[r])
    BY <1>1, <1>4, OneKept
  <2>2. \A r \in Ptrs \ {p} : table'[r] = table[r]
    BY <1>4 DEF IInv, Sessions
  <2> QED BY <1>2, <1>3, <1>4, <2>1, <2>2
      DEF IInv, LoopTypes, EventHasSession, BatchUsedUp, ReadHandled, EventHasData, Keeps
<1>5. CASE "ERR" \in batch[p] \/ s.err
  <2> DEFINE t == [s EXCEPT !.idle = 0, !.err = FALSE, !.state = "FINISHING"]
  <2>1. table' = [table EXCEPT ![p].idle = 0, ![p].err = FALSE, ![p].state = "FINISHING"]
        /\ UNCHANGED echoed
    BY <1>5 DEF IcmpEvent
  <2>2. table' = [table EXCEPT ![p] = t]
    BY <2>1 DEF IInv, Sessions
  <2>3. Keeps(s, t)
    BY <1>1 DEF Keeps, Evolves, Sane, Session
  <2> HIDE DEF t
  <2> QED BY <1>4, <2>1, <2>2, <2>3 DEF IInv, LoopTypes
<1>6. CASE ~("ERR" \in batch[p] \/ s.err)
  <2>1. PICK failed \in BOOLEAN :
          /\ table' = [table EXCEPT
               ![p].idle = 0, ![p].rx = Tail(@),
               ![p].state = IF failed THEN "FINISHING" ELSE @]
          /\ echoed' = IF failed THEN echoed
                       ELSE [written |-> s.id, asked |-> Head(s.rx)]
    BY <1>6, SwitchesAssumption DEF IcmpEvent
  <2> DEFINE t == [s EXCEPT !.idle = 0, !.rx = Tail(@),
                            !.state = IF failed THEN "FINISHING" ELSE @]
  <2>2. table' = [table EXCEPT ![p] = t]
    BY <2>1 DEF IInv, Sessions
  <2>3. "IN" \in batch[p]
    BY <1>2, <1>6 DEF IInv, LoopTypes
  <2>4. s.rx # <<>>
    BY <2>3 DEF IInv, EventHasData
  <2>5. Tail(s.rx) \in Seq(Ids) /\ Head(s.rx) \in Ids /\ s.id \in Ids
        /\ Tail(s.rx) \in Seq(Ids \cup {Data})
    BY <1>1, <2>4 DEF Sane, Session
  <2>6. t \in Session
    BY <1>1, <2>5 DEF Sane, Session
  <2>7. Keeps(s, t)
    BY <1>1, <2>5, <2>6 DEF Keeps, Evolves, Sane, Session
  <2>8. echoed' \in [written : Ids, asked : Ids] \cup {NoEcho}
    BY <2>1, <2>5 DEF IInv, LoopTypes
  <2> HIDE DEF t
  <2> QED BY <1>4, <2>2, <2>7, <2>8
<1> QED BY <1>5, <1>6

\* Nothing happens
LEMMA StutterInv == ASSUME IInv, UNCHANGED vars PROVE IInv'
BY TableKept DEF vars, loop

\* One step for each action
LEMMA NextInv == IInv /\ [Next]_vars => IInv'
<1> SUFFICES ASSUME IInv, [Next]_vars PROVE IInv' OBVIOUS
<1>1. CASE CountSessions \/ SkipCheck \/ EpollWait \/ EndBatch \/ TunEvent
           \/ TunDrained \/ ReadUdpDone \/ TunFails \/ \E p \in Ptrs : UdpEvent(p)
    BY <1>1, LoopSteps
<1>2. CASE CheckSessions BY <1>2, CheckStep
<1>3. CASE ReadUdp BY <1>3, ReadUdpStep
<1>4. CASE \E p \in Ptrs : IcmpEvent(p) BY <1>4, IcmpEventStep
<1>5. CASE HandleIp BY <1>5, HandleIpStep
<1>6. CASE Stop BY <1>6, StopStep
<1>7. CASE Restart BY <1>7, RestartStep
<1>8. CASE Answer \/ SocketError \/ Tick BY <1>8, OutsideStep
<1>9. CASE UNCHANGED vars BY <1>9, StutterInv
<1> QED BY <1>1, <1>2, <1>3, <1>4, <1>5, <1>6, <1>7, <1>8, <1>9 DEF Next, Turn

\* The invariant holds always
LEMMA Invariance == Spec => []IInv
BY InitInv, NextInv, PTL DEF Spec

-----------------------------------------------------------------------------
\* Every variable keeps its type, for every number of flows, addresses and sessions:
\* a session is always one that udp.c and icmp.c can make.
THEOREM TypeCorrect == Spec => []TypeOK
<1>1. IInv => TypeOK
    BY DEF IInv, Sessions, LoopTypes, TypeOK
<1> QED BY <1>1, Invariance, PTL

\* handle_udp and handle_icmp never create a second session for a flow.
THEOREM OneSessionPerFlowHolds == Spec => []OneSessionPerFlow
<1>1. IInv => OneSessionPerFlow
    BY DEF IInv
<1> QED BY <1>1, Invariance, PTL

\* The pointers in epoll events (session.c:242) are those of sessions in the list,
\* with their socket open, when the events are handled.
THEOREM EventHasSessionHolds == Spec => []EventHasSession
<1>1. IInv => EventHasSession
    BY DEF IInv
<1> QED BY <1>1, Invariance, PTL

\* check_allowed (session.c:286) ends all sessions whose sockets the new epoll set
\* does not know, and nothing makes one active again.
THEOREM UnwatchedEndsHolds == Spec => []UnwatchedEnds
<1>1. IInv => UnwatchedEnds
    BY DEF IInv, Sessions, Sane, UnwatchedEnds, ActiveSet, Is
<1> QED BY <1>1, Invariance, PTL

-----------------------------------------------------------------------------
(***************************************************************************)
(* The timeouts.                                                           *)
(***************************************************************************)
\* The scale is at least the free part of the table, in percent
LEMMA ScaleBound ==
    ASSUME counted \in Nat
    PROVE  Scale \in Int /\ Scale * MaxSessions >= 100 * (MaxSessions - counted)
<1> DEFINE q == (counted * 100) \div MaxSessions
<1>1. MaxSessions \in Nat /\ MaxSessions > 0 BY MaxSessionsAssumption
<1>2. q \in Int /\ q * MaxSessions <= counted * 100 BY <1>1
<1>3. Scale = 100 - q BY DEF Scale
<1> HIDE DEF q
<1>4. (100 - q) * MaxSessions = 100 * MaxSessions - (q * MaxSessions) BY <1>1, <1>2
<1> QED BY <1>1, <1>2, <1>3, <1>4

\* An age within the free part of a timeout is within the scaled timeout
LEMMA ScaledBound ==
    ASSUME counted \in Nat, NEW t \in Nat, NEW idle \in Nat,
           idle * MaxSessions <= t * (MaxSessions - counted)
    PROVE  idle <= Percent(t * Scale)
<1>1. MaxSessions \in Nat /\ MaxSessions > 0 BY MaxSessionsAssumption
<1>2. Scale \in Int /\ Scale * MaxSessions >= 100 * (MaxSessions - counted)
    BY ScaleBound
<1> DEFINE free == MaxSessions - counted
           whole == Scale * MaxSessions
           n == t * Scale
<1>3. free \in Int /\ whole \in Int /\ n \in Int BY <1>1, <1>2
<1>4. t * whole >= t * (100 * free)
  <2>1. whole >= 100 * free BY <1>2
  <2> HIDE DEF whole, free
  <2> QED BY <1>3, <2>1
<1>5. t * (100 * free) = 100 * (t * free) BY <1>3
<1>6. n * MaxSessions = t * whole BY <1>1, <1>2
<1>7. n * MaxSessions >= (100 * idle) * MaxSessions
  <2>1. idle * MaxSessions \in Int /\ t * free \in Int /\ t * whole \in Int BY <1>1, <1>3
  <2>2. idle * MaxSessions <= t * free OBVIOUS
  <2>3. (100 * idle) * MaxSessions = 100 * (idle * MaxSessions) BY <1>1
  <2> HIDE DEF whole, free, n
  <2> QED BY <1>4, <1>5, <1>6, <2>1, <2>2, <2>3
<1>8. n >= 100 * idle
  <2>1. SUFFICES ASSUME n + 1 <= 100 * idle PROVE FALSE BY <1>3
  <2> DEFINE m == 100 * idle
  <2>2. m \in Int /\ n + 1 <= m /\ n * MaxSessions >= m * MaxSessions BY <1>7, <2>1
  <2> HIDE DEF n, m
  <2>3. (n + 1) * MaxSessions <= m * MaxSessions BY <1>1, <1>3, <2>2
  <2>4. (n + 1) * MaxSessions = n * MaxSessions + MaxSessions BY <1>1, <1>3
  <2> QED BY <1>1, <1>3, <2>2, <2>3, <2>4
<1> HIDE DEF n
<1>9. n >= 0 /\ Percent(n) = n \div 100 /\ n \div 100 >= idle BY <1>3, <1>8 DEF Percent
<1> QED BY <1>9 DEF n

\* check_udp_session and check_icmp_session leave every session at least the part of its
\* timeout that is free in the table, for all timeouts and limits: the two roundings of
\* get_udp_timeout and get_icmp_timeout never take a second of it.
THEOREM SessionsKeepTheirShareHolds == Spec => SessionsKeepTheirShare
<1>1. ASSUME IInv, [Next]_vars, phase = "check", NEW p \in ActiveSet,
             table[p].idle * MaxSessions <= Timeout(table[p]) * (MaxSessions - counted)
      PROVE  p \in ActiveSet'
  <2>1. counted \in Nat
    BY <1>1, PtrsAssumption, FS_CardinalityType, BoundsAssumption DEF IInv, LoopTypes
  <2>2. p \in Ptrs /\ table[p] # NoSession /\ table[p].state = "ACTIVE"
    BY DEF ActiveSet, Is, Used
  <2>3. table[p].idle \in Nat /\ Timeout(table[p]) \in Nat
    BY <1>1, <2>2, TimeoutsAssumption DEF IInv, Sessions, Sane, Session, Used, Timeout
  <2>4. table[p].idle <= ScaledTimeout(table[p])
    BY <1>1, <2>1, <2>3, ScaledBound DEF ScaledTimeout
  <2>5. ~Due(table[p])
    <3> DEFINE t == Timeout(table[p])
               n == t * Scale
    <3>1. n \in Int BY <2>1, <2>3, ScaleBound
    <3>2. Percent(n) \in Int
      <4> HIDE DEF n
      <4> QED BY <3>1 DEF Percent
    <3> QED BY <2>3, <2>4, <3>2 DEF Due, ScaledTimeout
  <2>6. CASE CheckSessions
    <3>1. table'[p] = table[p]
      BY <2>2, <2>5, <2>6 DEF CheckSessions, CheckUdp, CheckIcmp
    <3> QED BY <2>2, <3>1 DEF ActiveSet, Is, Used
  <2>7. CASE UNCHANGED table
    BY <2>7 DEF ActiveSet, Is, Used
  <2>8. CheckSessions \/ UNCHANGED table
    BY <1>1 DEF Next, Turn, CountSessions, SkipCheck, EpollWait, EndBatch, TunEvent,
        TunDrained, ReadUdp, ReadUdpDone, UdpEvent, IcmpEvent, HandleIp, TunFails, Stop,
        Restart, Answer, SocketError, Tick, Noticed, vars
  <2> QED BY <2>6, <2>7, <2>8
<1> DEFINE Share == phase = "check" => \A p \in ActiveSet :
              table[p].idle * MaxSessions <= Timeout(table[p]) * (MaxSessions - counted)
                 => p \in ActiveSet'
<1>2. IInv /\ [Next]_vars => [Share]_vars
    BY <1>1
<1> QED BY <1>2, Invariance, PTL DEF Spec, SessionsKeepTheirShare
=============================================================================
