-------------------------------- MODULE UsbIp --------------------------------
(***************************************************************************)
(* UsbIpManager (usbipserver.rs): the boot notifications and the two rings *)
(* between the NCM state machines and the bulk endpoints, and the control  *)
(* requests the USB library hands to CdcNcmClass (cdc_ncm.rs) when run_loop*)
(* polls it.                                                               *)
(*                                                                         *)
(* The bulk IN endpoint and the notification endpoint hold one packet      *)
(* each; a write is refused (WouldBlock) while the last one was not read   *)
(* or the device is not configured.  A bus reset empties the endpoints and *)
(* deconfigures the device; CdcNcmClass has no reset() handler, so nothing *)
(* in UsbIpManager changes.  Endpoints, host and bus are external.         *)
(***************************************************************************)
EXTENDS Naturals, Sequences

CONSTANTS Packets,      \* what a packet is to the properties
          InitialPacket,\* currtxbuf before any packet was popped
          USB_TXQ_CAP,  \* txq: bounded(8)
          USB_RXQ_CAP,  \* rxq: bounded(4)
          Requests,     \* control requests of the host's driver
          MaxResets     \* bus resets

\* Those of a driver: class requests, and the alternate setting of the data
\* interface.
DriverRequests ==
    {"GetNTBParameters", "GetNTBInputSize", "SetNTBInputSize", "SetEthernetPacketFilter",
     "OtherIn", "OtherOut", "GetDataAlt", "SetDataAlt0", "SetDataAlt1"}

ASSUME UsbIpAssumption ==
    /\ USB_TXQ_CAP \in Nat \ {0}
    /\ USB_RXQ_CAP \in Nat \ {0}
    /\ Requests \subseteq DriverRequests
    /\ MaxResets \in Nat

VARIABLES bootstate, rxq, txq, currtxbuf, msghandled,
          inep,         \* packet waiting in the bulk IN endpoint
          nedep,        \* notification waiting in the interrupt endpoint
          configured,   \* the host has configured the device
          link,         \* what the host was told since: "none", "speed", "up"
          ctl,          \* control request waiting for its answer, or "none"
          answer,       \* of the last one: "none", "accepted", "stalled"
          resets,
          panicked

usbvars  == <<bootstate, rxq, txq, currtxbuf, msghandled>>
ctlvars  == <<ctl, answer, configured>>
hostvars == <<link, resets>>
vars     == <<usbvars, inep, nedep, ctlvars, hostvars, panicked>>

UsbIpBootState == {"Speed", "Notify", "Normal"}

Init ==
    /\ bootstate = "Speed"
    /\ rxq = <<>>
    /\ txq = <<>>
    /\ currtxbuf = InitialPacket
    /\ msghandled = TRUE
    /\ inep = <<>>
    /\ nedep = <<>>
    /\ configured = FALSE
    /\ link = "none"
    /\ ctl = "none" /\ answer = "none"
    /\ resets = 0
    /\ panicked = FALSE

-----------------------------------------------------------------------------
(* poll_usb.                                                               *)

\* data[0..3].try_into().unwrap() to four bytes; two bytes copied into three.
Panics(request) == request \in {"SetNTBInputSize", "GetNTBInputSize"}

\* control_out, control_in, get_alt_setting and set_alt_setting.
Answer(request) ==
    IF request \in {"SetConfiguration", "GetNTBParameters", "GetDataAlt", "SetDataAlt1"}
      THEN "accepted" ELSE "stalled"

Serve == /\ ctl' = "none"
         /\ answer' = Answer(ctl)
         /\ configured' = (configured \/ ctl = "SetConfiguration")

\* Mutant: only once the boot notifications are out.
PollUsbWhenNormal == IF ctl # "none" /\ bootstate = "Normal" THEN Serve ELSE UNCHANGED ctlvars
PollUsb           == IF ctl # "none" THEN Serve ELSE UNCHANGED ctlvars

-----------------------------------------------------------------------------
(* run_loop, after the poll.                                               *)

\* write_packet / send_notification succeed.
CanWrite(ep) == configured' /\ ep = <<>>

\* Speed and Notify: one notification each, then on to the next state.  Mutant:
\* the result of the write is not looked at.
SendNotificationOnce(state, msg, next) ==
    /\ bootstate = state
    /\ nedep' = IF CanWrite(nedep) THEN <<msg>> ELSE nedep
    /\ bootstate' = next
    /\ UNCHANGED <<rxq, txq, currtxbuf, msghandled, inep>>
SendNotification(state, msg, next) ==
    /\ bootstate = state
    /\ IF CanWrite(nedep) THEN nedep' = <<msg>> /\ bootstate' = next
                          ELSE UNCHANGED <<nedep, bootstate>>
    /\ UNCHANGED <<rxq, txq, currtxbuf, msghandled, inep>>

\* process_usb, first half.  A full ring is flushed instead of read.  Mutant:
\* the ring is not checked.
ReadSideUnbounded(incoming) == rxq' = rxq \o incoming
ReadSide(incoming) ==
    IF Len(rxq) < USB_RXQ_CAP THEN rxq' = rxq \o incoming
                              ELSE incoming = <<>> /\ rxq' = <<>>

\* process_usb, second half: pop a packet, or offer the popped one again.
\* Mutants: the popped packet is not kept; a refused one is not offered again.
TakeNextUnkept == txq' = Tail(txq) /\ msghandled' = FALSE /\ UNCHANGED currtxbuf
TakeNext       == txq' = Tail(txq) /\ msghandled' = FALSE /\ currtxbuf' = Head(txq)
OfferOnce == inep' = (IF CanWrite(inep) THEN <<currtxbuf>> ELSE inep) /\ msghandled' = TRUE
Offer     == IF CanWrite(inep) THEN inep' = <<currtxbuf>> /\ msghandled' = TRUE
                               ELSE UNCHANGED <<inep, msghandled>>

WriteSide ==
    IF msghandled
      THEN /\ IF txq # <<>> THEN TakeNext ELSE UNCHANGED <<txq, currtxbuf, msghandled>>
           /\ UNCHANGED inep
      ELSE Offer /\ UNCHANGED <<txq, currtxbuf>>

ProcessUsb(incoming) ==
    /\ bootstate = "Normal"
    /\ incoming # <<>> => configured'
    /\ ReadSide(incoming)
    /\ WriteSide
    /\ UNCHANGED <<nedep, bootstate>>

\* One call of run_loop; incoming is what read_packet returned, if anything.
RunLoop(incoming) ==
    /\ ~panicked
    /\ IF Panics(ctl)
         THEN incoming = <<>> /\ panicked' = TRUE /\ UNCHANGED <<usbvars, inep, nedep, ctlvars>>
         ELSE /\ PollUsb
              /\ \/ incoming = <<>> /\ SendNotification("Speed", "speed", "Notify")
                 \/ incoming = <<>> /\ SendNotification("Notify", "up", "Normal")
                 \/ ProcessUsb(incoming)
              /\ UNCHANGED panicked
    /\ UNCHANGED hostvars

-----------------------------------------------------------------------------
(* The host and the bus.                                                   *)

HostRequests(request) ==
    /\ ctl = "none"
    /\ ctl' = request
    /\ answer' = "none"
    /\ UNCHANGED <<usbvars, inep, nedep, configured, hostvars, panicked>>

HostConfigures == ~configured /\ HostRequests("SetConfiguration")
DriverAsks     == configured /\ \E request \in Requests : HostRequests(request)

HostReadsIn ==
    /\ inep # <<>>
    /\ inep' = <<>>
    /\ UNCHANGED <<usbvars, nedep, ctlvars, hostvars, panicked>>

HostReadsNotification ==
    /\ nedep # <<>>
    /\ nedep' = <<>>
    /\ link' = Head(nedep)
    /\ UNCHANGED <<usbvars, inep, ctlvars, resets, panicked>>

BusReset ==
    /\ resets < MaxResets
    /\ resets' = resets + 1
    /\ configured' = FALSE
    /\ ctl' = "none" /\ answer' = "none"
    /\ link' = "none"
    /\ inep' = <<>>
    /\ nedep' = <<>>
    /\ UNCHANGED <<usbvars, panicked>>

Host == HostConfigures \/ DriverAsks \/ HostReadsIn \/ HostReadsNotification \/ BusReset

-----------------------------------------------------------------------------
(* The NCM state machines on the other side of the rings (get_bufs).       *)

PushTx(p) ==
    /\ Len(txq) < USB_TXQ_CAP
    /\ txq' = Append(txq, p)
    /\ UNCHANGED <<bootstate, rxq, currtxbuf, msghandled, inep, nedep, ctlvars, hostvars,
                   panicked>>

DrainRx ==
    /\ rxq # <<>>
    /\ rxq' = <<>>
    /\ UNCHANGED <<bootstate, txq, currtxbuf, msghandled, inep, nedep, ctlvars, hostvars,
                   panicked>>

Incoming == {<<>>} \cup {<<p>> : p \in Packets}

Next == \/ \E incoming \in Incoming : RunLoop(incoming)
        \/ Host
        \/ \E p \in Packets : PushTx(p)
        \/ DrainRx

Spec == Init /\ [][Next]_vars

\* The main loop calls run_loop forever; the host configures the device and
\* polls its endpoints.
Fairness == /\ WF_vars(\E incoming \in Incoming : RunLoop(incoming))
            /\ WF_vars(HostConfigures)
            /\ WF_vars(HostReadsIn)
            /\ WF_vars(HostReadsNotification)
FairSpec == Spec /\ Fairness

-----------------------------------------------------------------------------
(* Properties.                                                             *)

\* Every variable stays in its type.
TypeOK ==
    /\ bootstate \in UsbIpBootState
    /\ rxq \in Seq(Packets) /\ Len(rxq) <= USB_RXQ_CAP
    /\ txq \in Seq(Packets) /\ Len(txq) <= USB_TXQ_CAP
    /\ currtxbuf \in Packets \cup {InitialPacket}
    /\ msghandled \in BOOLEAN
    /\ inep \in Seq(Packets) /\ Len(inep) <= 1
    /\ nedep \in Seq({"speed", "up"}) /\ Len(nedep) <= 1
    /\ configured \in BOOLEAN
    /\ link \in {"none", "speed", "up"}
    /\ ctl \in {"none", "SetConfiguration"} \cup Requests
    /\ answer \in {"none", "accepted", "stalled"}
    /\ resets \in 0 .. MaxResets
    /\ panicked \in BOOLEAN

\* Packets taken from the NCM transmit path and not yet in the endpoint.
Pending == (IF msghandled THEN <<>> ELSE <<currtxbuf>>) \o txq

Channel == INSTANCE FrameChannel
             WITH Frames <- Packets, Capacity <- USB_TXQ_CAP + 1, inflight <- Pending, broken <- FALSE

\* process_usb hands every packet to the endpoint once and in order, however
\* often the endpoint refuses it and whatever bus resets come between: a reset
\* costs the packet in the endpoint and none in the rings, and nothing stalls.
ImplementsChannel == Channel!FairSpec

\* A packet leaves the USB manager only into the endpoint.
NothingLost == [][Len(Pending') < Len(Pending) => inep = <<>> /\ inep' = <<Head(Pending)>>]_vars

\* On a bus that was never reset, the host learns the speed of the link before
\* it learns that it is up.
SpeedBeforeUp == [][link' = "up" /\ resets = 0 => link = "speed"]_link

\* It learns both, in that order, whatever the endpoint refused.  (After a reset
\* the device never says so again.)
LinkAnnounced == SpeedBeforeUp /\ <>[](link = "up" \/ resets > 0)

\* Every control request is answered, in each state of the boot sequence and
\* whatever the rings and the endpoints hold, or ended by a bus reset.
ControlServed == ctl # "none" ~> ctl = "none"

\* "gracefully accept the transfer and skip for now": no request of a driver
\* panics the firmware.
NoPanic == ~panicked
=============================================================================
