-------------------------------- MODULE SeqNum --------------------------------
(***************************************************************************)
(* Sequence numbers that wrap: compare_u32 of util.c and the two places of *)
(* tcp.c where an acknowledgement is judged by it, get_send_window and the *)
(* end of handle_tcp.  One established session sends to the application,   *)
(* which acknowledges cumulatively; the numbers are unsigned of 2 * Half   *)
(* values, with Half = 2^31 in the program.                                *)
(***************************************************************************)
EXTENDS Integers

CONSTANTS
    Half,     \* half of the number space
    Window    \* the window the application advertises, constant here

ASSUME HalfAssumption == Half \in Nat /\ Half >= 4

\* The largest window TCP can express is 65535 * 2^14 < 2^30
ASSUME WindowAssumption == Window \in Nat \ {0} /\ 2 * Window <= Half

VARIABLES
    local_seq,    \* next number the engine will use
    acked,        \* highest acknowledgement it noted
    unacked,      \* bytes sent that the application has not acknowledged
    reset         \* the session was reset by write_rst

vars == <<local_seq, acked, unacked, reset>>

U32 == 0..(2 * Half - 1)

\* Operators marked "mutant" stand for a plausible mistake in the definition that
\* follows them; the specification does not use them.

\* uint32_t arithmetic; 0 <= k <= 2 * Half
Plus(s, k)  == IF s + k < 2 * Half THEN s + k ELSE s + k - 2 * Half
Minus(s, k) == IF s >= k THEN s - k ELSE s - k + 2 * Half
Dist(s, t)  == Minus(t, s)

-----------------------------------------------------------------------------
(***************************************************************************)
(* compare_u32: the results it may return.  Its arguments are converted to *)
(* int; the difference of two ints may overflow, which C leaves undefined: *)
(* either branch may be taken.  Nothing of type int exceeds 0x7FFFFFFF, so *)
(* the second disjunct of its condition is never true.                     *)
(***************************************************************************)
AsInt(s) == IF s < Half THEN s ELSE s - 2 * Half

CompareUnsigned(s1, s2) ==                                          \* mutant
    IF s1 = s2 THEN {0} ELSE IF s1 < s2 THEN {-1} ELSE {1}

CompareU32(s1, s2) ==
    LET d == AsInt(s2) - AsInt(s1)
    IN  CASE d = 0                   -> {0}
          [] d < 0                   -> {1}
          [] d > 0 /\ d < Half - 1   -> {-1}
          [] d = Half - 1            -> {1}
          [] d >= Half               -> {-1, 1}

WholeWindow == {Window}                                             \* mutant

\* get_send_window
SendWindow ==
    LET behind == {IF r <= 0 THEN Dist(acked, local_seq) ELSE acked :
                       r \in CompareU32(acked, local_seq)}
    IN  {IF b < Window THEN Window - b ELSE 0 : b \in behind}

-----------------------------------------------------------------------------
\* The handshake is done and its SYN/ACK acknowledged; rand() is below 2^31
Established ==
    \E isn \in 0..(Half - 1) :
        /\ local_seq' = Plus(isn, 1) /\ acked' = local_seq'
        /\ unacked' = 0 /\ reset' = FALSE

Init ==
    /\ \E isn \in 0..(Half - 1) : local_seq = Plus(isn, 1)
    /\ acked = local_seq /\ unacked = 0 /\ reset = FALSE

\* check_tcp_socket, lines 394-442: at most the send window is read and written
WriteData ==
    /\ ~reset
    /\ \E window \in SendWindow : \E bytes \in 1..window :
        /\ local_seq' = Plus(local_seq, bytes)
        /\ unacked' = unacked + bytes
    /\ UNCHANGED <<acked, reset>>

\* handle_tcp, lines 802, 830 and 852-887
Judge(ack) ==
    \/ /\ ack = local_seq
       /\ acked' = ack /\ UNCHANGED reset
    \/ /\ ack # local_seq /\ Plus(ack, 1) = local_seq        \* taken for a keep alive
       /\ UNCHANGED <<acked, reset>>
    \/ /\ ack # local_seq /\ Plus(ack, 1) # local_seq
       /\ \/ /\ -1 \in CompareU32(ack, local_seq)            \* repeated or previous ACK
             /\ \E r \in CompareU32(ack, acked) : acked' = IF r <= 0 THEN acked ELSE ack
             /\ UNCHANGED reset
          \/ /\ CompareU32(ack, local_seq) # {-1}            \* future ACK
             /\ reset' = TRUE
             /\ UNCHANGED acked

\* The application acknowledges some of the bytes it received
HandleAck ==
    /\ ~reset
    /\ \E left \in 0..unacked :
        /\ unacked' = left
        /\ Judge(Minus(local_seq, left))
    /\ UNCHANGED local_seq

\* The application connects anew after a reset
Reconnect == reset /\ Established

Next == WriteData \/ HandleAck \/ Reconnect
Spec == Init /\ [][Next]_vars

-----------------------------------------------------------------------------
\* The way from s to t, forwards, passes from Half - 1 to Half
Straddles(s, t) == s < Half /\ t >= Half

\* The inductive invariant: the engine's view of what is in flight is at least
\* the application's, and within the window.
Inv ==
    /\ local_seq \in U32 /\ acked \in U32 /\ unacked \in Nat /\ reset \in BOOLEAN
    /\ unacked <= Dist(acked, local_seq)
    /\ Dist(acked, local_seq) <= Window

\* Never more in flight than the application's window, wherever the numbers are:
\* where compare_u32 is wrong about acked (line 146) the window computed is zero.
FlowControl == unacked <= Window

\* An acknowledgement of data that was sent is taken for a future one, and the
\* session reset (line 884), only when it is on the other side of 2^31.
ResetOnlyAcrossHalf ==
    [][~reset /\ reset' => Straddles(Minus(local_seq, unacked'), local_seq)]_vars
=============================================================================
