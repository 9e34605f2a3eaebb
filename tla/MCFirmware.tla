----------------------------- MODULE MCFirmware -----------------------------
(* The sizes of MCNcmRx.  A frame of 8 makes a block of 12, sent as 8, 4 and *
 * a zero-length packet; a frame of 12 makes one of two full packets.        *)
EXTENDS Firmware

B(block, ndp, index, len) == [block |-> block, ndp |-> ndp, index |-> index, len |-> len]

MCFrameLens == {8, 12}
MCHostBlocks == {B(12, 2, 4, 8)}
=============================================================================
