------------------------------- MODULE ByteRelay -------------------------------
(***************************************************************************)
(* What a TCP session of the native engine promises for the bytes the      *)
(* application sends (app/src/main/cpp/tcp.c): the fate of a byte is       *)
(* settled once, in the order of the stream, at the number acknowledged to *)
(* the application; bytes are given to a socket, or lost in a failed       *)
(* send(), only while the session has one.  TcpSession implements it.      *)
(***************************************************************************)
EXTENDS Integers

CONSTANT N       \* bytes the application has to send

VARIABLES
    connected,   \* the session has a socket
    next,        \* the next byte in the order of the stream; 0 is the SYN
    fate         \* what became of each byte

relay == <<connected, next, fate>>

Waiting == [p \in 1..N |-> "waiting"]

Init == connected = FALSE /\ next = 0 /\ fate = Waiting

\* A new session starts from the application's SYN
Open ==
    /\ ~connected /\ connected' = TRUE
    /\ next' = 0 /\ fate' = Waiting

\* The bytes the number moves over share a fate
Settle(what) ==
    fate' = [p \in 1..N |-> IF next <= p /\ p < next' THEN what ELSE fate[p]]

Forward ==
    /\ connected /\ connected' = connected
    /\ next' \in Nat /\ next' > next
    /\ Settle("given") \/ Settle("lost")

\* The number passes over the SYN, the FIN, or a byte in their place
Pass == connected' = connected /\ next' = next + 1 /\ Settle("passed")

Close == connected /\ connected' = FALSE /\ UNCHANGED <<next, fate>>

Next == Open \/ Forward \/ Pass \/ Close

Spec == Init /\ [][Next]_relay
=============================================================================
