------------------------------- MODULE MCNcmTx ------------------------------
(* Lengths for the transmit path: below one packet (Header state), the      *)
(* shortest frame of the IP stack (ARP, 42), one that fills the last packet *)
(* (100), a multiple of the packet size (64), and the MTU.                  *)
EXTENDS NcmTx

MCFrameLens == {36, 42, 64, 100, 576}
StackFrameLens == {42, 100}
=============================================================================
