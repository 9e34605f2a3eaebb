-------------------------------- MODULE Dhcp --------------------------------
(***************************************************************************)
(* DhcpServer (dhcp.rs) behind its UDP socket (server.rs run_dhcpserver):  *)
(* one request is served per call of eth_task, and the reply waits in the  *)
(* socket until smoltcp gets a transmit token.                             *)
(*                                                                         *)
(* A message is its type, its first option, which is taken for the type,   *)
(* and the hardware address; an address is its last octet.  The UDP buffers*)
(* hold 380 bytes, so one message of a client and one reply (308 bytes)    *)
(* each.  Clients and smoltcp are external.                                *)
(***************************************************************************)
EXTENDS Integers, Sequences, FiniteSets

CONSTANTS Macs,            \* hardware addresses that ever ask
          FirstOptions,    \* options that come first in a message
          addrstart,       \* server.rs: 5
          Octet,           \* 2^8: addresses and counter are u8
          OverflowChecks,  \* the build panics on overflow (dev) or wraps
          UDP_RX_CAP, UDP_TX_CAP,
          Pipelining       \* a client may ask before its reply was sent

DhcpMsgTypes == {"Discover", "Offer", "Request", "Decline", "Ack", "Nak", "Release", "Inform"}

\* Option 53, the type; another one, named for the type its first octet is the
\* number of (option 52 holds 1, 2 or 3); and the rest: an unknown code, more than
\* four octets, or a first octet that is no type's.
OptionKinds == {"MsgType", "Other"} \cup DhcpMsgTypes

ASSUME DhcpAssumption ==
    /\ FirstOptions \subseteq OptionKinds
    /\ Octet \in Nat \ {0}
    /\ addrstart \in 0 .. Octet - 1
    /\ OverflowChecks \in BOOLEAN /\ Pipelining \in BOOLEAN
    /\ UDP_RX_CAP \in Nat \ {0} /\ UDP_TX_CAP \in Nat \ {0}

VARIABLES addrcnt, allocated,
          udprx, udptx,   \* the socket's buffers
          heard,          \* mac -> addresses its client was ever given
          panicked

vars == <<addrcnt, allocated, udprx, udptx, heard, panicked>>

Addresses == 0 .. Octet - 1
Msg       == [type : DhcpMsgTypes, first : FirstOptions, mac : Macs]
Reply     == [type : {"Offer", "Ack"}, mac : Macs, yiaddr : Addresses]

Init ==
    /\ addrcnt = 0
    /\ allocated = <<>>
    /\ udprx = <<>>
    /\ udptx = <<>>
    /\ heard = [m \in Macs |-> {}]
    /\ panicked = FALSE

-----------------------------------------------------------------------------
(* The clients and smoltcp.                                                *)

\* Nothing of a client is in the socket.
Idle(mac) == /\ \A i \in 1 .. Len(udprx) : udprx[i].mac # mac
             /\ \A i \in 1 .. Len(udptx) : udptx[i].mac # mac

\* A datagram to port 67 reaches the socket; a full buffer drops it.
Arrives(m) ==
    /\ ~panicked
    /\ Pipelining \/ Idle(m.mac)
    /\ udprx' = IF Len(udprx) < UDP_RX_CAP THEN Append(udprx, m) ELSE udprx
    /\ UNCHANGED <<addrcnt, allocated, udptx, heard, panicked>>

\* iface.poll sends the oldest reply; the client reads it.
Leaves ==
    /\ ~panicked
    /\ udptx # <<>>
    /\ udptx' = Tail(udptx)
    /\ heard' = [heard EXCEPT ![Head(udptx).mac] = @ \cup {Head(udptx).yiaddr}]
    /\ UNCHANGED <<addrcnt, allocated, udprx, panicked>>

-----------------------------------------------------------------------------
(* recv, create_dhcp_reply and create_lease.                               *)

\* try_from_primitive(req_opt.data[0]), whichever option that is.
TypeRead(msg) == IF msg.first = "MsgType" THEN msg.type ELSE msg.first

\* An unwrap() of the conversion, or the copy into four bytes, fails.
Unreadable(msg) == msg.first = "Other"

\* The two types that are answered.
Asks(msg) == ~Unreadable(msg) /\ TypeRead(msg) \in {"Discover", "Request"}

\* The octet at an offset from addrstart (u8 addition).
AddrAt(n)    == (addrstart + n) % Octet
Overflows(n) == OverflowChecks /\ addrstart + n >= Octet

\* The leases of a requester.  Mutant: the first one is not looked at.
IndicesAfterFirst(mac) == {i \in 2 .. Len(allocated) : allocated[i] = mac}
IndicesOf(mac) == {i \in 1 .. Len(allocated) : allocated[i] = mac}

\* The number of a requester's lease.  Mutant: counted from one.
LeaseFromOne(mac) == CHOOSE i \in IndicesOf(mac) : TRUE
LeaseOf(mac)      == (CHOOSE i \in IndicesOf(mac) : TRUE) - 1

\* Mutants: idx.is_empty() is not asked; the request is echoed.
IsNewAlways(mac) == TRUE
IsNew(mac)       == IndicesOf(mac) = {}

AnswerEchoes(msg, octet) == [type |-> msg.type, mac |-> msg.mac, yiaddr |-> octet]
Answer(msg, octet) ==
    [type |-> IF TypeRead(msg) = "Discover" THEN "Offer" ELSE "Ack",
     mac |-> msg.mac, yiaddr |-> octet]

\* udpsock.send_slice(..).unwrap()
SendReply(reply) ==
    IF Len(udptx) < UDP_TX_CAP
      THEN udptx' = Append(udptx, reply) /\ UNCHANGED panicked
      ELSE panicked' = TRUE /\ UNCHANGED udptx

Panic == panicked' = TRUE /\ UNCHANGED <<addrcnt, allocated, udptx>>

\* Mutant: the counter is left alone.
TakeAddressUncounted(mac) == allocated' = Append(allocated, mac) /\ UNCHANGED addrcnt
TakeAddress(mac) == /\ addrcnt' = (addrcnt + 1) % Octet
                    /\ allocated' = Append(allocated, mac)

\* A requester without a lease gets the next address.
ServeNew(msg) ==
    /\ IsNew(msg.mac)
    /\ IF Overflows(addrcnt) \/ (OverflowChecks /\ addrcnt + 1 >= Octet)
         THEN Panic
         ELSE TakeAddress(msg.mac) /\ SendReply(Answer(msg, AddrAt(addrcnt)))

\* "if this requester already was leased an address, return the same address"
ServeKnown(msg) ==
    /\ ~IsNew(msg.mac)
    /\ LET n == LeaseOf(msg.mac) % Octet IN
       IF Cardinality(IndicesOf(msg.mac)) > 1 \/ Overflows(n)
         THEN Panic
         ELSE SendReply(Answer(msg, AddrAt(n))) /\ UNCHANGED <<addrcnt, allocated>>

\* One request; only Discover and Request are answered, nothing is released.
Serve ==
    /\ ~panicked
    /\ udprx # <<>>
    /\ udprx' = Tail(udprx)
    /\ CASE Unreadable(Head(udprx)) -> Panic
         [] Asks(Head(udprx)) -> ServeNew(Head(udprx)) \/ ServeKnown(Head(udprx))
         [] OTHER -> UNCHANGED <<addrcnt, allocated, udptx, panicked>>
    /\ UNCHANGED heard

Next == Serve \/ Leaves \/ \E m \in Msg : Arrives(m)

Spec == Init /\ [][Next]_vars

\* eth_task runs in every iteration of the main loop.
FairSpec == Spec /\ WF_vars(Serve) /\ WF_vars(Leaves)

-----------------------------------------------------------------------------
(* Properties.                                                             *)

\* Every variable stays in its type.
TypeOK ==
    /\ addrcnt \in Addresses
    /\ allocated \in Seq(Macs)
    /\ udprx \in Seq(Msg) /\ Len(udprx) <= UDP_RX_CAP
    /\ udptx \in Seq(Reply) /\ Len(udptx) <= UDP_TX_CAP
    /\ heard \in [Macs -> SUBSET Addresses]
    /\ panicked \in BOOLEAN

\* "somehow we allocated two ips to 1 mac address" is unreachable.
OneLeasePerMac ==
    \A i, j \in 1 .. Len(allocated) : allocated[i] = allocated[j] => i = j

\* The address a client was given, now or in any earlier reply.
Given(mac) == heard[mac] \cup {udptx[i].yiaddr : i \in {k \in 1 .. Len(udptx) : udptx[k].mac = mac}}

\* Discover, Request, their retransmissions and their replies in flight agree:
\* every reply to a client names one address, that of its lease.
StableLease ==
    \A mac \in Macs : \A a \in Given(mac) :
        \E i \in IndicesOf(mac) : a = AddrAt((i - 1) % Octet)

\* The counter names the next address: it is the number of leases, wrapped with
\* it, and a build that checks overflow never runs past the octet.
LeaseCount ==
    /\ addrcnt = Len(allocated) % Octet
    /\ OverflowChecks => Len(allocated) < Octet /\ addrstart + Len(allocated) <= Octet

\* No two clients are given one address.
UniqueLeases ==
    \A m1, m2 \in Macs : m1 # m2 => Given(m1) \cap Given(m2) = {}

\* The server does not panic.
NoPanic == ~panicked

\* Of its panics only one is in reach: a reply that finds the reply to another
\* client still in the socket, and no room behind it.  An address past the octet
\* and a second lease are not.
OnlyFullPanics == panicked => Len(udptx) = UDP_TX_CAP

\* Clients whose question, or the answer to it, is in the socket.
Waiting == {udprx[i].mac : i \in {k \in 1 .. Len(udprx) : Asks(udprx[k])}}
           \cup {udptx[i].mac : i \in 1 .. Len(udptx)}

\* The address of each client's lease, and Octet without one.
Lease ==
    [mac \in Macs |-> IF IsNew(mac) THEN Octet
                      ELSE LET i == CHOOSE i \in IndicesOf(mac) : TRUE
                           IN AddrAt((i - 1) % Octet)]

Service == INSTANCE LeaseService
             WITH Clients <- Macs, None <- Octet, waiting <- Waiting, told <- heard,
                  lease <- Lease, down <- panicked

\* Together: every question that reaches the socket is answered with the address
\* of the client's one lease, which nobody else ever gets, unless the server
\* panics, which it never does for one client alone.
ImplementsService == Service!FairSpec
=============================================================================
