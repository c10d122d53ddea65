---------------------------- MODULE MCTcpSession ----------------------------
EXTENDS TcpSession

\* Two bytes, one segment each or both in one, and so overlapping segments
MCSegments == {[seq |-> 1, len |-> 1], [seq |-> 2, len |-> 1], [seq |-> 1, len |-> 2]}

\* One byte
MCOneByte == {[seq |-> 1, len |-> 1]}

\* Three bytes: gaps, a segment inserted between two others, a larger one
MCThreeBytes == MCSegments \cup
    {[seq |-> 3, len |-> 1], [seq |-> 2, len |-> 2]}
=============================================================================
