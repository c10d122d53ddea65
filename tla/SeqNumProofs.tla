----------------------------- MODULE SeqNumProofs -----------------------------
(***************************************************************************)
(* For every size of the number space and every window up to half of a     *)
(* half: the window of the application is respected, and an acknowledgement *)
(* of sent data resets the session only across the boundary 2^31.          *)
(***************************************************************************)
EXTENDS SeqNum, TLAPS

USE HalfAssumption, WindowAssumption

\* What compare_u32 says of s and a number at most Window after it: that s is
\* before it, unless the boundary lies between them, where it says the opposite.
LEMMA CompareAhead ==
    ASSUME NEW s \in U32, NEW t \in U32, s # t, Dist(s, t) <= Window
    PROVE  /\ ~Straddles(s, t) => CompareU32(s, t) = {-1}
           /\ Straddles(s, t) => CompareU32(s, t) = {1}
<1>1. CASE s < Half /\ t < Half
  <2>1. s < t /\ t - s < Half - 1
    BY <1>1 DEF U32, Dist, Minus
  <2>2. ~Straddles(s, t)
    BY <1>1 DEF Straddles, U32
  <2> QED
    BY <1>1, <2>1, <2>2 DEF CompareU32, AsInt, U32
<1>2. CASE s >= Half /\ t >= Half
  <2>1. s < t /\ t - s < Half - 1
    BY <1>2 DEF U32, Dist, Minus
  <2>2. ~Straddles(s, t)
    BY <1>2 DEF Straddles, U32
  <2> QED
    BY <1>2, <2>1, <2>2 DEF CompareU32, AsInt, U32
<1>3. CASE s < Half /\ t >= Half
  BY <1>3 DEF CompareU32, AsInt, Straddles, U32
<1>4. CASE s >= Half /\ t < Half
  <2>1. t - s + 2 * Half < Half - 1
    BY <1>4 DEF U32, Dist, Minus
  <2>2. ~Straddles(s, t)
    BY <1>4 DEF Straddles, U32
  <2> QED
    BY <1>4, <2>1, <2>2 DEF CompareU32, AsInt, U32
<1> QED
  BY <1>1, <1>2, <1>3, <1>4 DEF U32

\* The window get_send_window computes keeps the bytes in flight within Window.
LEMMA WindowLeft ==
    ASSUME Inv, NEW window \in SendWindow
    PROVE  window \in Nat /\ (window = 0 \/ window + Dist(acked, local_seq) <= Window)
<1>1. Dist(acked, local_seq) \in Nat
  BY DEF Inv, Dist, Minus, U32
<1>2. CASE acked = local_seq
  <2>1. CompareU32(acked, local_seq) = {0}
    BY <1>2 DEF CompareU32, AsInt, Inv, U32
  <2> QED
    BY <1>1, <2>1 DEF SendWindow
<1>3. CASE acked # local_seq /\ ~Straddles(acked, local_seq)
  <2>1. CompareU32(acked, local_seq) = {-1}
    BY <1>3, CompareAhead DEF Inv
  <2> QED
    BY <1>1, <2>1 DEF SendWindow
<1>4. CASE acked # local_seq /\ Straddles(acked, local_seq)
  <2>1. CompareU32(acked, local_seq) = {1}
    BY <1>4, CompareAhead DEF Inv
  <2>2. acked \in Nat /\ acked >= Window
    BY <1>4 DEF Inv, U32, Straddles, Dist, Minus
  <2> QED
    BY <2>1, <2>2 DEF SendWindow
<1> QED
  BY <1>2, <1>3, <1>4

\* Initially, and after the application connected anew, nothing is in flight.
LEMMA InvInit == Init => Inv
<1> SUFFICES ASSUME Init PROVE Inv
  OBVIOUS
<1>1. PICK isn \in 0..(Half - 1) : local_seq = Plus(isn, 1)
  BY DEF Init
<1>2. local_seq \in U32
  BY <1>1 DEF Plus, U32
<1>3. Dist(local_seq, local_seq) = 0
  BY <1>2 DEF Dist, Minus, U32
<1>4. acked \in U32 /\ unacked \in Nat /\ reset \in BOOLEAN
  BY <1>2 DEF Init
<1>5. unacked <= Dist(acked, local_seq) /\ Dist(acked, local_seq) <= Window
  BY <1>3 DEF Init
<1> QED
  BY <1>2, <1>4, <1>5 DEF Inv

\* Every step keeps the engine's view of the bytes in flight conservative.
LEMMA InvNext == Inv /\ [Next]_vars => Inv'
<1> SUFFICES ASSUME Inv, [Next]_vars
             PROVE  Inv'
  OBVIOUS
<1>1. CASE WriteData
  <2>0. PICK window \in SendWindow : \E bytes \in 1..window :
           /\ local_seq' = Plus(local_seq, bytes)
           /\ unacked' = unacked + bytes
           /\ acked' = acked /\ reset' = reset
    BY <1>1 DEF WriteData
  <2>1. PICK bytes \in 1..window :
           /\ local_seq' = Plus(local_seq, bytes)
           /\ unacked' = unacked + bytes
           /\ acked' = acked /\ reset' = reset
    BY <2>0
  <2>2. window \in Nat /\ bytes \in Nat /\ bytes + Dist(acked, local_seq) <= Window
    BY <2>1, WindowLeft DEF Inv, Dist, Minus, U32
  <2>3. Dist(acked, Plus(local_seq, bytes)) = Dist(acked, local_seq) + bytes
    BY <2>2 DEF Inv, Dist, Minus, Plus, U32
  <2>4. Plus(local_seq, bytes) \in U32
    BY <2>2 DEF Inv, Plus, U32, Dist, Minus
  <2> QED
    BY <2>1, <2>2, <2>3, <2>4 DEF Inv, Dist, Minus, U32
<1>2. CASE HandleAck
  <2>1. PICK left \in 0..unacked : /\ unacked' = left
                                   /\ Judge(Minus(local_seq, left))
                                   /\ local_seq' = local_seq
    BY <1>2 DEF HandleAck
  <2>2. /\ Minus(local_seq, left) \in U32
        /\ Dist(Minus(local_seq, left), local_seq) = left
    BY <2>1 DEF Inv, Minus, Dist, U32
  <2>3. acked' \in {acked, Minus(local_seq, left)} /\ reset' \in BOOLEAN
    BY <2>1 DEF Judge, Inv
  <2>4. Dist(acked, local_seq) \in Nat
    BY DEF Inv, Dist, Minus, U32
  <2>5. left <= Dist(acked, local_seq) /\ left <= Window /\ left \in Nat
    BY <2>4 DEF Inv
  <2>6. CASE acked' = acked
    BY <2>1, <2>3, <2>5, <2>6 DEF Inv
  <2>7. CASE acked' = Minus(local_seq, left)
    BY <2>1, <2>2, <2>3, <2>5, <2>7 DEF Inv
  <2> QED
    BY <2>3, <2>6, <2>7
<1>3. CASE Reconnect
  <2>1. PICK isn \in 0..(Half - 1) :
           /\ local_seq' = Plus(isn, 1) /\ acked' = local_seq'
           /\ unacked' = 0 /\ reset' = FALSE
    BY <1>3 DEF Reconnect, Established
  <2>2. local_seq' \in U32
    BY <2>1 DEF Plus, U32
  <2>3. Dist(acked', local_seq') = 0
    BY <2>1, <2>2 DEF Dist, Minus, U32
  <2>4. acked' \in U32 /\ unacked' \in Nat /\ reset' \in BOOLEAN
    BY <2>1, <2>2
  <2>5. unacked' <= Dist(acked', local_seq') /\ Dist(acked', local_seq') <= Window
    BY <2>1, <2>3
  <2> QED
    BY <2>2, <2>4, <2>5 DEF Inv
<1>4. CASE UNCHANGED vars
  BY <1>4 DEF vars, Inv
<1> QED
  BY <1>1, <1>2, <1>3, <1>4 DEF Next

\* The invariant holds for every size of the number space.
THEOREM InvHolds == Spec => []Inv
  BY InvInit, InvNext, PTL DEF Spec

\* The engine never has more in flight than the application's window, although
\* compare_u32 (util.c:31-37) is wrong across 2^31.
THEOREM FlowControlHolds == Spec => []FlowControl
<1>1. Inv => FlowControl
  BY DEF Inv, FlowControl, Dist, Minus, U32
<1> QED
  BY <1>1, InvHolds, PTL

\* An acknowledgement of sent data resets the session only when it is on the other
\* side of 2^31 from local_seq (tcp.c:882-886).
THEOREM ResetOnlyAcrossHalfHolds == Spec => ResetOnlyAcrossHalf
<1>1. Inv /\ [Next]_vars =>
         [~reset /\ reset' => Straddles(Minus(local_seq, unacked'), local_seq)]_vars
  <2> SUFFICES ASSUME Inv, Next, ~reset, reset'
               PROVE  Straddles(Minus(local_seq, unacked'), local_seq)
    BY DEF vars
  <2>1. HandleAck
    BY DEF Next, WriteData, Reconnect
  <2>2. PICK left \in 0..unacked : unacked' = left /\ Judge(Minus(local_seq, left))
    BY <2>1 DEF HandleAck
  <2> DEFINE ack == Minus(local_seq, left)
  <2>3. ack # local_seq /\ CompareU32(ack, local_seq) # {-1}
    BY <2>2 DEF Judge
  <2>4. ack \in U32 /\ Dist(ack, local_seq) <= Window
    BY <2>2 DEF Inv, Minus, Dist, U32
  <2>5. Straddles(ack, local_seq)
    BY <2>3, <2>4, CompareAhead DEF Inv
  <2> QED
    BY <2>2, <2>5
<1> QED
  BY <1>1, InvHolds, PTL DEF Spec, ResetOnlyAcrossHalf
=============================================================================
