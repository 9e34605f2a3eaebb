------------------------------- MODULE MCNcmRx ------------------------------
(* The sizes of the code, scaled down: packets of 8 bytes, a header of 2, a  *)
(* pointer table of 2, a block buffer of 24, an IP stack buffer of 12.       *)
EXTENDS NcmRx

B(block, ndp, index, len) == [block |-> block, ndp |-> ndp, index |-> index, len |-> len]

\* Two full packets and a zero-length one; the whole buffer, with padding and no
\* zero-length packet; an empty datagram, the pointer table across the end of the
\* first packet; the table after the datagram, in the second.
Blocks == {B(16, 2, 4, 12), B(24, 2, 4, 12), B(9, 7, 0, 0), B(12, 10, 2, 4)}

\* Only the last of these.
LateTable == {B(12, 10, 2, 4)}

\* An entry within bounds and one out of range.
Misread == {[index |-> 0, len |-> 3], [index |-> 20, len |-> 9]}

\* A block that fits in one packet.
OnePacket == {B(7, 2, 4, 3), B(12, 2, 4, 8)}

\* A datagram below the advertised segment size and above MTU.
LongFrame == {B(24, 2, 4, 20)}
=============================================================================
