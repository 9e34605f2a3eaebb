------------------------------- MODULE MCUsbIp ------------------------------
(* Two kinds of packets are enough to see a swap or a repetition.           *)
EXTENDS UsbIp

CONSTANTS p0, p1, p2

MCPackets == {p1, p2}

\* A driver that takes the input size the device has, and one that sets it.
DefaultSize == DriverRequests \ {"GetNTBInputSize", "SetNTBInputSize"}
SetsSize    == {"GetNTBParameters", "SetNTBInputSize", "SetDataAlt1"}
=============================================================================
