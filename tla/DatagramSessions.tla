--------------------------- MODULE DatagramSessions ---------------------------
(***************************************************************************)
(* The table of UDP and ICMP sessions of the native engine: the packets of *)
(* the tun device that create and use them (ip.c, udp.c, icmp.c) and the   *)
(* event loop that counts, checks, reads and frees them (session.c).       *)
(*                                                                         *)
(* One thread runs the loop: count the sessions, check each of them unless *)
(* the last check is less than 100 ms old, wait for events, handle them.   *)
(* The tun event reads every packet that waits; the limit on sessions is   *)
(* judged on the count of the turn.  The loop ends when the tun device     *)
(* fails, which keeps the sessions for the next start, or when it is       *)
(* stopped, which clears them.                                             *)
(***************************************************************************)
EXTENDS Integers, Sequences, FiniteSets

CONSTANTS
    Ptrs,         \* addresses malloc returns for sessions; bounds the table
    Flows,        \* UDP address and port pairs that applications use
    DnsFlows,     \* those with destination port 53
    Pairs,        \* ICMP source and destination addresses
    Ids,          \* identifiers of echo requests
    Data,         \* what a UDP socket carries
    NoSession,    \* an address that holds no session
    NoEcho,       \* no echo reply was written in this turn
    MaxSessions,  \* maxsessions, 40% of the descriptors the process may open
    UdpTimeout53, UdpTimeoutAny, IcmpTimeout, UdpKeepTimeout,  \* in seconds
    Fwd53,        \* args->fwd53
    MaxTcp,       \* bound: TCP sessions that share the limit
    MaxRx,        \* bound: datagrams waiting in one socket
    CallsMayFail  \* socket, epoll_ctl, sendto and write may fail

ASSUME FlowsAssumption == DnsFlows \subseteq Flows /\ Flows \cap Pairs = {}
ASSUME PtrsAssumption == IsFiniteSet(Ptrs)
ASSUME DataAssumption == Data \notin Ids
ASSUME MaxSessionsAssumption == MaxSessions \in Nat \ {0}
ASSUME TimeoutsAssumption ==
    \A t \in {UdpTimeout53, UdpTimeoutAny, IcmpTimeout, UdpKeepTimeout} :
        t \in Nat
ASSUME BoundsAssumption == MaxRx \in Nat /\ MaxTcp \in Nat
ASSUME SwitchesAssumption == Fwd53 \in BOOLEAN /\ CallsMayFail \in BOOLEAN

VARIABLES
    table,    \* the sessions of the list ng_session, by address
    counted,  \* local variable sessions of handle_events
    phase,    \* where the thread is in handle_events
    tun,      \* the batch holds an event of the tun device
    batch,    \* the batch's events of each session
    cur,      \* the session whose socket is being read
    echoed    \* the turn's last echo reply: the id written to the tun device, and the asker's

loop == <<counted, phase, tun, batch, cur>>
vars == <<table, loop, echoed>>

\* A session and, as the kernel has them, its socket's error and datagrams: those
\* sent and not answered yet, and those received; idle is now - time
Session ==
    [proto : {"udp", "icmp"}, key : Flows \cup Pairs, id : Ids \cup {Data},
     state : {"ACTIVE", "FINISHING", "CLOSED"}, idle : Nat,
     epoll : {"watched", "failed", "gone"}, err : BOOLEAN,
     asked : SUBSET (Ids \cup {Data}), rx : Seq(Ids \cup {Data})]

ASSUME NoSessionAssumption == NoSession \notin Ptrs \cup Session

Used      == {p \in Ptrs : table[p] # NoSession}
Is(p, st) == p \in Used /\ table[p].state = st
ActiveSet == {p \in Ptrs : Is(p, "ACTIVE")}
Quiet     == [p \in Ptrs |-> {}]

Init ==
    /\ table = [p \in Ptrs |-> NoSession]
    /\ counted = 0 /\ phase = "count" /\ tun = FALSE /\ batch = Quiet
    /\ cur = NoSession /\ echoed = NoEcho

\* Operators marked "mutant" stand for a plausible mistake in the definition that
\* follows them; the specification does not use them.

-----------------------------------------------------------------------------
(***************************************************************************)
(* The loop up to epoll_wait.                                              *)
(***************************************************************************)
\* icmp.stop is FINISHING here; a closed UDP session is not counted any more
CountSessions ==
    /\ phase = "count" /\ phase' = "check"
    /\ \E tsessions \in 0..MaxTcp : counted' = Cardinality(ActiveSet) + tsessions
    /\ UNCHANGED <<table, tun, batch, cur, echoed>>

ScaleByFreePart == ((MaxSessions - counted) \div MaxSessions) * 100     \* mutant

\* The timeouts shrink as the table fills up, to nothing at the maximum.  Packets are
\* admitted on the count of their turn, so that there can be more: less than nothing.
Scale == 100 - (counted * 100) \div MaxSessions

\* An int division of C
Percent(n) == IF n < 0 THEN -((-n) \div 100) ELSE n \div 100

Timeout(s) == IF s.proto = "icmp" THEN IcmpTimeout
              ELSE IF s.key \in DnsFlows THEN UdpTimeout53 ELSE UdpTimeoutAny

\* get_udp_timeout, get_icmp_timeout
ScaledTimeout(s) == Percent(Timeout(s) * Scale)

Due(s) == s.idle > ScaledTimeout(s)

Closed(s) == [s EXCEPT !.state = "CLOSED", !.idle = 0, !.epoll = "gone",
                       !.err = FALSE, !.asked = {}, !.rx = <<>>]

CheckUdpKeepsClosed(s) ==                                           \* mutant
    IF s.state = "CLOSED" THEN s
    ELSE IF s.state = "FINISHING" \/ Due(s) THEN Closed(s) ELSE s

\* check_udp_session: the socket is closed, the session kept for UDP_KEEP_TIMEOUT
CheckUdp(s) ==
    IF s.state = "CLOSED" THEN IF s.idle > UdpKeepTimeout THEN NoSession ELSE s
    ELSE IF s.state = "FINISHING" \/ Due(s) THEN Closed(s) ELSE s

\* check_icmp_session
CheckIcmp(s) == IF s.state = "FINISHING" \/ Due(s) THEN NoSession ELSE s

CheckSessions ==
    /\ phase = "check" /\ phase' = "wait"
    /\ table' = [p \in Ptrs |->
                   IF table[p] = NoSession THEN NoSession
                   ELSE IF table[p].proto = "udp" THEN CheckUdp(table[p])
                   ELSE CheckIcmp(table[p])]
    /\ UNCHANGED <<counted, tun, batch, cur, echoed>>

SkipCheck ==
    /\ phase = "check" /\ phase' = "wait"
    /\ UNCHANGED <<table, counted, tun, batch, cur, echoed>>

Ready(p) ==
    IF p \in Used /\ table[p].epoll = "watched"
    THEN (IF table[p].rx # <<>> THEN {"IN"} ELSE {})
         \cup (IF table[p].err THEN {"ERR"} ELSE {})
    ELSE {}

\* It returns at most EPOLL_EVENTS events: others wait for the next turn
EpollWait ==
    /\ phase = "wait" /\ phase' = "batch"
    /\ \E some \in SUBSET Ptrs :
        batch' = [p \in Ptrs |-> IF p \in some THEN Ready(p) ELSE {}]
    /\ tun' \in BOOLEAN
    /\ UNCHANGED <<table, counted, cur, echoed>>

EndBatchEarly ==                                                    \* mutant
    /\ phase = "batch" /\ phase' = "count" /\ counted' = 0 /\ echoed' = NoEcho
    /\ UNCHANGED <<table, tun, batch, cur>>

EndBatch ==
    /\ phase = "batch" /\ batch = Quiet /\ ~tun
    /\ phase' = "count" /\ counted' = 0 /\ echoed' = NoEcho
    /\ UNCHANGED <<table, tun, batch, cur>>

-----------------------------------------------------------------------------
(***************************************************************************)
(* Packets of the tun device: check_tun, handle_ip, handle_udp,            *)
(* handle_icmp.                                                            *)
(***************************************************************************)
TunEvent ==
    /\ phase = "batch" /\ tun
    /\ phase' = "tun" /\ tun' = FALSE
    /\ UNCHANGED <<table, counted, batch, cur, echoed>>

TunDrained ==
    /\ phase = "tun" /\ phase' = "batch"
    /\ UNCHANGED <<table, counted, tun, batch, cur, echoed>>

UdpOf(f) == {p \in Used : table[p].proto = "udp" /\ table[p].key = f}

IcmpOf(q) == {p \in ActiveSet : table[p].proto = "icmp" /\ table[p].key = q}

\* has_udp_session: DNS that is not forwarded is never refused
HasUdpSession(f) == (f \in DnsFlows /\ ~Fwd53) \/ UdpOf(f) # {}
Full == counted >= MaxSessions

\* sendto, which refreshes the session whatever becomes of it
Sent(s, id) ==
    {[s EXCEPT !.idle = 0, !.asked = @ \cup {id}]}
    \cup IF CallsMayFail
         THEN {[s EXCEPT !.idle = 0],                              \* EAGAIN
               [s EXCEPT !.idle = 0, !.state = "FINISHING"]}
         ELSE {}

\* A session with its socket open; when EPOLL_CTL_ADD fails it gets no events
Opened(proto, key, id) ==
    {[proto |-> proto, key |-> key, id |-> id, state |-> "ACTIVE", idle |-> 0,
      epoll |-> e, err |-> FALSE, asked |-> {}, rx |-> <<>>] :
        e \in IF CallsMayFail THEN {"watched", "failed"} ELSE {"watched"}}

\* One packet of a flow or pair whose sessions are found; it is sent over one of
\* them, or over a new one, or dropped when no socket can be opened
Forward(proto, key, id, found) ==
    \/ \E p \in found : \E s \in Sent(table[p], id) :
        table' = [table EXCEPT ![p] = s]
    \/ /\ found = {}
       /\ \/ \E p \in Ptrs \ Used : \E o \in Opened(proto, key, id) : \E s \in Sent(o, id) :
                table' = [table EXCEPT ![p] = s]
          \/ CallsMayFail /\ UNCHANGED table

HandleUdpIgnoresState(f) ==                                         \* mutant
    /\ Full => HasUdpSession(f)
    /\ Forward("udp", f, Data, UdpOf(f) \cap ActiveSet)

\* A session that is finishing or closed ignores the flow's packets
HandleUdp(f) ==
    /\ Full => HasUdpSession(f)
    /\ UdpOf(f) \subseteq ActiveSet
    /\ Forward("udp", f, Data, UdpOf(f))

IgnoreUdp(f) ==
    /\ ~(UdpOf(f) \subseteq ActiveSet) \/ (Full /\ ~HasUdpSession(f))
    /\ UNCHANGED table

\* At the limit echo requests of known sessions are dropped as well
HandleIcmp(q, id) ==
    IF Full THEN UNCHANGED table ELSE Forward("icmp", q, id, IcmpOf(q))

HandleIp ==
    /\ phase = "tun"
    /\ \/ \E f \in Flows : HandleUdp(f) \/ IgnoreUdp(f)
       \/ \E q \in Pairs, id \in Ids : HandleIcmp(q, id)
    /\ UNCHANGED <<loop, echoed>>

-----------------------------------------------------------------------------
(***************************************************************************)
(* Events of the sessions' sockets.                                        *)
(***************************************************************************)
Proto(p, proto) == p \in Used /\ table[p].proto = proto
Handled(p)      == batch' = [batch EXCEPT ![p] = {}]

\* Lines 246-249: with an error in the event check_udp_socket is not called, and
\* nothing is read
UdpEvent(p) ==
    /\ phase = "batch" /\ batch[p] # {} /\ Proto(p, "udp")
    /\ Handled(p)
    /\ IF "ERR" \in batch[p] THEN UNCHANGED <<phase, cur>>
       ELSE phase' = "read" /\ cur' = p
    /\ UNCHANGED <<table, counted, tun, echoed>>

\* check_udp_socket, once for each datagram.  A DNS session ends with its first
\* answer, but what waits in the socket is still passed on.
ReadUdp ==
    /\ phase = "read" /\ table[cur].rx # <<>>
    /\ LET s == table[cur]
       IN  \E failed \in IF CallsMayFail THEN BOOLEAN ELSE {FALSE} :
            table' = [table EXCEPT ![cur] =
                IF s.err THEN [s EXCEPT !.idle = 0, !.err = FALSE, !.state = "FINISHING"]
                ELSE [s EXCEPT !.idle = 0, !.rx = Tail(@),
                               !.state = IF failed \/ s.key \in DnsFlows
                                         THEN "FINISHING" ELSE @]]
    /\ UNCHANGED <<loop, echoed>>

ReadUdpDone ==
    /\ phase = "read" /\ table[cur].rx = <<>>
    /\ phase' = "batch" /\ cur' = NoSession
    /\ UNCHANGED <<table, counted, tun, batch, echoed>>

\* check_icmp_socket: reads one answer and gives it the id that the session was
\* created with
IcmpEvent(p) ==
    /\ phase = "batch" /\ batch[p] # {} /\ Proto(p, "icmp")
    /\ Handled(p)
    /\ LET s == table[p]
       IN  IF "ERR" \in batch[p] \/ s.err
           THEN /\ table' = [table EXCEPT ![p].idle = 0, ![p].err = FALSE,
                                          ![p].state = "FINISHING"]
                /\ UNCHANGED echoed
           ELSE \E failed \in IF CallsMayFail THEN BOOLEAN ELSE {FALSE} :
                /\ table' = [table EXCEPT
                     ![p].idle = 0, ![p].rx = Tail(@),
                     ![p].state = IF failed THEN "FINISHING" ELSE @]
                /\ echoed' = IF failed THEN echoed
                             ELSE [written |-> s.id, asked |-> Head(s.rx)]
    /\ UNCHANGED <<counted, phase, tun, cur>>

-----------------------------------------------------------------------------
(***************************************************************************)
(* The end of the loop, and the next one.                                  *)
(***************************************************************************)
\* check_tun fails: the thread ends, the sessions stay
TunFails ==
    /\ phase = "tun" /\ phase' = "ended"
    /\ counted' = 0 /\ echoed' = NoEcho /\ batch' = Quiet
    /\ UNCHANGED <<table, tun, cur>>

\* jni_stop, when the thread took the byte from the pipe: clear()
Stop ==
    /\ phase = "batch" /\ phase' = "ended"
    /\ counted' = 0 /\ echoed' = NoEcho /\ batch' = Quiet /\ tun' = FALSE
    /\ table' = [p \in Ptrs |-> NoSession]
    /\ UNCHANGED cur

TerminateUdpOnly(s) ==                                              \* mutant
    IF s.proto = "icmp" THEN [s EXCEPT !.epoll = "gone"]
    ELSE [s EXCEPT !.epoll = "gone",
                   !.state = IF @ = "ACTIVE" THEN "FINISHING" ELSE @]

\* check_allowed; the new thread's epoll set knows none of the old sockets
Terminate(s) == [s EXCEPT !.epoll = "gone",
                          !.state = IF @ = "ACTIVE" THEN "FINISHING" ELSE @]

Restart ==
    /\ phase = "ended" /\ phase' = "count"
    /\ table' = [p \in Ptrs |->
                   IF table[p] = NoSession THEN NoSession ELSE Terminate(table[p])]
    /\ UNCHANGED <<counted, tun, batch, cur, echoed>>

-----------------------------------------------------------------------------
(***************************************************************************)
(* Servers, kernel and time.  They act where the code can notice.          *)
(***************************************************************************)
Noticed == phase \in {"wait", "batch", "read"}

Answer ==
    /\ Noticed
    /\ \E p \in Used : \E id \in table[p].asked :
        /\ table[p].state # "CLOSED" /\ Len(table[p].rx) < MaxRx
        /\ table' = [table EXCEPT ![p].asked = @ \ {id}, ![p].rx = Append(@, id)]
    /\ UNCHANGED <<loop, echoed>>

SocketError ==
    /\ Noticed
    /\ \E p \in Used :
        /\ table[p].asked # {} /\ ~table[p].err
        /\ table' = [table EXCEPT ![p].err = TRUE, ![p].asked = {}]
    /\ UNCHANGED <<loop, echoed>>

\* Beyond its timeout a session's age makes no difference, and none while it finishes
Oldest(s) == CASE s.state = "ACTIVE"    -> Timeout(s) + 1
               [] s.state = "FINISHING" -> 0
               [] s.state = "CLOSED"    -> UdpKeepTimeout + 1

Older(s) == IF s.idle < Oldest(s) THEN [s EXCEPT !.idle = @ + 1] ELSE s

\* A second passes, for all sessions
Tick ==
    /\ phase = "count"
    /\ table' = [p \in Ptrs |-> IF p \in Used THEN Older(table[p]) ELSE NoSession]
    /\ table' # table
    /\ UNCHANGED <<loop, echoed>>

Turn == CountSessions \/ CheckSessions \/ SkipCheck \/ EpollWait \/ EndBatch
        \/ TunEvent \/ TunDrained \/ ReadUdp \/ ReadUdpDone
        \/ \E p \in Ptrs : UdpEvent(p) \/ IcmpEvent(p)

Next == Turn \/ HandleIp \/ TunFails \/ Stop \/ Restart
        \/ Answer \/ SocketError \/ Tick

Spec == Init /\ [][Next]_vars

\* The thread runs, the tun device is drained at some time, the check is skipped
\* only for 100 ms, time passes, and the engine is started again.
FairSpec == Spec /\ WF_vars(Turn) /\ SF_vars(CheckSessions) /\ WF_vars(Restart)
                 /\ SF_vars(Tick)

-----------------------------------------------------------------------------
\* Every variable has the type of the field, local or kernel state it stands for.
TypeOK ==
    /\ table \in [Ptrs -> Session \cup {NoSession}]
    /\ counted \in 0..(Cardinality(Ptrs) + MaxTcp)
    /\ phase \in {"count", "check", "wait", "batch", "tun", "read", "ended"}
    /\ tun \in BOOLEAN
    /\ batch \in [Ptrs -> SUBSET {"IN", "ERR"}]
    /\ cur \in Ptrs \cup {NoSession}
    /\ echoed \in [written : Ids, asked : Ids] \cup {NoEcho}

\* A flow has one UDP session, whatever its state, and an address pair one ICMP
\* session that is not stopped: the search finds the session that has the flow's
\* socket, also after earlier sessions ended.
OneSessionPerFlow ==
    \A p, r \in Used :
        /\ table[p].proto = table[r].proto /\ table[p].key = table[r].key
        /\ table[p].proto = "udp" \/ {p, r} \subseteq ActiveSet
        => p = r

\* No event of a batch and no read refers to a session that was freed or whose
\* socket was closed since epoll_wait.
EventHasSession ==
    /\ \A p \in Ptrs : batch[p] # {} => p \in Used /\ table[p].state # "CLOSED"
    /\ phase = "read" => cur \in Used /\ table[cur].state # "CLOSED"

\* A session of an earlier loop, which the new epoll set does not know, is never
\* used again: no packet revives it, and it is on its way out.
UnwatchedEnds == \A p \in ActiveSet : table[p].epoll # "gone"

\* The check leaves a session at least that part of its timeout which is free in the
\* table, however the two divisions of get_udp_timeout and get_icmp_timeout round, and
\* however many sessions the batches since its last packet let in: within the limit none
\* ends in the second it was used in (udp.c:10, 33, icmp.c:10, 21).
SessionsKeepTheirShare ==
    [][phase = "check" => \A p \in ActiveSet :
         table[p].idle * MaxSessions <= Timeout(table[p]) * (MaxSessions - counted)
            => p \in ActiveSet']_vars

\* When applications fall silent every session is freed.
EventuallyFreed == <>[][~HandleIp]_vars => []<>(Used = {})
=============================================================================
