------------------------------- MODULE MCDhcp -------------------------------
(* Three clients; an octet that ends with their three addresses (5, 6, 7).   *)
EXTENDS Dhcp

CONSTANTS m1, m2, m3

MCMacs == {m1, m2, m3}

\* Messages whose first option the server can read: the type, or option 52.
Readable == {"MsgType", "Discover", "Offer", "Request"}
=============================================================================
