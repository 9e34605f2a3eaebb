---------------------------- MODULE UsbIp_proofs ----------------------------
(***************************************************************************)
(* The USB manager hands over what it took, once and in order, for any     *)
(* capacity of its rings and any number of bus resets, and announces the   *)
(* link in the right order.                                                *)
(***************************************************************************)
EXTENDS UsbIp, TLAPS

\* The type, by what changes together.  A packet that is being offered is one
\* that was popped, not the buffer's first content.
RingsType ==
    /\ rxq \in Seq(Packets) /\ Len(rxq) <= USB_RXQ_CAP
    /\ txq \in Seq(Packets) /\ Len(txq) <= USB_TXQ_CAP
    /\ currtxbuf \in Packets \cup {InitialPacket}
    /\ msghandled \in BOOLEAN
    /\ ~msghandled => currtxbuf \in Packets
    /\ inep \in Seq(Packets) /\ Len(inep) <= 1
BootType ==
    /\ bootstate \in UsbIpBootState
    /\ nedep \in Seq({"speed", "up"}) /\ Len(nedep) <= 1
    /\ link \in {"none", "speed", "up"}
    /\ resets \in 0 .. MaxResets
CtlType ==
    /\ configured \in BOOLEAN
    /\ ctl \in {"none", "SetConfiguration"} \cup Requests
    /\ answer \in {"none", "accepted", "stalled"}
    /\ panicked \in BOOLEAN

\* What was announced, until the first reset: each state of the boot sequence
\* has sent the notifications of those before it, and at most the last of them is
\* still in the endpoint.
BootOrder ==
    resets = 0 =>
        /\ bootstate = "Speed"  => nedep = <<>> /\ link = "none"
        /\ bootstate = "Notify" => \/ nedep = <<"speed">> /\ link = "none"
                                   \/ nedep = <<>> /\ link = "speed"
        /\ bootstate = "Normal" => \/ nedep = <<"up">> /\ link = "speed"
                                   \/ nedep = <<>> /\ link = "up"

IInv == RingsType /\ BootType /\ CtlType /\ BootOrder

ringvars == <<rxq, txq, currtxbuf, msghandled, inep>>
bootvars == <<bootstate, nedep, link, resets>>

-----------------------------------------------------------------------------
(* One part at a time.                                                     *)

\* The packets under way are the one that is offered and those of the ring.
LEMMA PendingType ==
  ASSUME RingsType
  PROVE  Pending \in Seq(Packets) /\ Len(Pending) <= Len(txq) + 1
<1>1. CASE msghandled
  BY <1>1 DEF RingsType, Pending
<1>2. CASE ~msghandled
  <2>1. currtxbuf \in Packets /\ <<currtxbuf>> \in Seq(Packets) /\ Len(<<currtxbuf>>) = 1
    BY <1>2 DEF RingsType
  <2>2. Pending = <<currtxbuf>> \o txq
    BY <1>2 DEF Pending
  <2>3. txq \in Seq(Packets)
    BY DEF RingsType
  <2> QED
    BY <2>1, <2>2, <2>3
<1> QED
  BY <1>1, <1>2

\* A boot notification: the state moves on exactly when the message is in the
\* endpoint.
LEMMA NotificationStep ==
  ASSUME BootType, BootOrder, UNCHANGED hostvars,
         \/ SendNotification("Speed", "speed", "Notify")
         \/ SendNotification("Notify", "up", "Normal")
  PROVE  BootType' /\ BootOrder' /\ UNCHANGED ringvars
<1>1. link' = link /\ resets' = resets
  BY DEF hostvars
<1>2. ASSUME NEW state, NEW msg \in {"speed", "up"}, NEW next \in UsbIpBootState,
             SendNotification(state, msg, next)
      PROVE  /\ UNCHANGED ringvars /\ BootType'
             /\ bootstate = state
             /\ \/ nedep = <<>> /\ nedep' = <<msg>> /\ bootstate' = next
                \/ nedep' = nedep /\ bootstate' = state
  <2>1. UNCHANGED ringvars /\ bootstate = state
    BY <1>2 DEF SendNotification, ringvars
  <2>2. \/ nedep = <<>> /\ nedep' = <<msg>> /\ bootstate' = next
        \/ nedep' = nedep /\ bootstate' = state
    BY <1>2 DEF SendNotification, CanWrite
  <2>3. <<msg>> \in Seq({"speed", "up"}) /\ Len(<<msg>>) = 1
    OBVIOUS
  <2>4. nedep' \in Seq({"speed", "up"}) /\ Len(nedep') <= 1
    <3>1. CASE nedep' = <<msg>>
      BY <2>3, <3>1
    <3>2. CASE nedep' = nedep
      BY <3>2 DEF BootType
    <3> QED
      BY <2>2, <3>1, <3>2
  <2>5. bootstate' \in UsbIpBootState
    BY <2>1, <2>2 DEF BootType
  <2>6. BootType'
    BY <1>1, <2>4, <2>5 DEF BootType
  <2> QED
    BY <2>1, <2>2, <2>6
<1>3. CASE SendNotification("Speed", "speed", "Notify")
  <2>1. "Notify" \in UsbIpBootState
    BY DEF UsbIpBootState
  <2> QED
    BY <1>1, <1>2, <1>3, <2>1 DEF BootOrder
<1>4. CASE SendNotification("Notify", "up", "Normal")
  <2>1. "Normal" \in UsbIpBootState /\ <<"speed">> # <<>>
    BY DEF UsbIpBootState
  <2>2. /\ bootstate = "Notify" /\ BootType'
        /\ \/ nedep = <<>> /\ nedep' = <<"up">> /\ bootstate' = "Normal"
           \/ nedep' = nedep /\ bootstate' = "Notify"
        /\ UNCHANGED ringvars
    BY <1>2, <1>4, <2>1
  <2>3. BootOrder'
    BY <1>1, <2>1, <2>2 DEF BootOrder
  <2> QED
    BY <2>2, <2>3
<1> QED
  BY <1>3, <1>4

\* process_usb, first half: what is read fits the ring.
LEMMA ReadStep ==
  ASSUME NEW incoming \in Incoming, rxq \in Seq(Packets), Len(rxq) <= USB_RXQ_CAP,
         ReadSide(incoming)
  PROVE  rxq' \in Seq(Packets) /\ Len(rxq') <= USB_RXQ_CAP
<1>1. incoming \in Seq(Packets) /\ Len(incoming) <= 1
  <2>1. CASE incoming = <<>>
    BY <2>1
  <2>2. ASSUME NEW p \in Packets, incoming = <<p>>
        PROVE  incoming \in Seq(Packets) /\ Len(incoming) <= 1
    BY <2>2
  <2>3. incoming = <<>> \/ \E p \in Packets : incoming = <<p>>
    BY DEF Incoming
  <2> QED
    BY <2>1, <2>2, <2>3
<1> QED
  BY <1>1, UsbIpAssumption DEF ReadSide

\* process_usb, second half: the packets under way stay as they are, or the
\* oldest one goes to the empty endpoint.
LEMMA WriteStep ==
  ASSUME RingsType, WriteSide
  PROVE  /\ txq' \in Seq(Packets) /\ Len(txq') <= USB_TXQ_CAP
         /\ currtxbuf' \in Packets \cup {InitialPacket}
         /\ msghandled' \in BOOLEAN
         /\ ~msghandled' => currtxbuf' \in Packets
         /\ inep' \in Seq(Packets) /\ Len(inep') <= 1
         /\ \/ Pending' = Pending /\ inep' = inep
            \/ /\ Pending # <<>> /\ Pending' = Tail(Pending)
               /\ inep = <<>> /\ inep' = <<Head(Pending)>>
<1>1. CASE msghandled /\ txq # <<>>
  <2>1. txq' = Tail(txq) /\ ~msghandled' /\ msghandled' \in BOOLEAN /\ currtxbuf' = Head(txq)
        /\ inep' = inep
    BY <1>1 DEF WriteSide, TakeNext
  <2>2. /\ Head(txq) \in Packets /\ Tail(txq) \in Seq(Packets)
        /\ Len(Tail(txq)) = Len(txq) - 1
        /\ <<Head(txq)>> \o Tail(txq) = txq
    BY <1>1 DEF RingsType
  <2>3. Pending' = Pending
    <3>1. Pending = <<>> \o txq
      BY <1>1 DEF Pending
    <3>2. Pending' = <<Head(txq)>> \o Tail(txq)
      BY <2>1 DEF Pending
    <3> QED
      BY <3>1, <3>2, <2>2 DEF RingsType
  <2> QED
    BY <2>1, <2>2, <2>3, UsbIpAssumption DEF RingsType
<1>2. CASE ~msghandled /\ CanWrite(inep)
  <2>1. inep = <<>> /\ inep' = <<currtxbuf>> /\ msghandled' /\ msghandled' \in BOOLEAN
        /\ txq' = txq /\ currtxbuf' = currtxbuf
    BY <1>2 DEF WriteSide, Offer, CanWrite
  <2>2. Pending = <<currtxbuf>> \o txq /\ Pending' = <<>> \o txq
    BY <1>2, <2>1 DEF Pending
  <2>3. /\ Pending # <<>> /\ Tail(Pending) = txq /\ Head(Pending) = currtxbuf
        /\ <<>> \o txq = txq
    BY <2>2, <1>2 DEF RingsType
  <2> QED
    BY <1>2, <2>1, <2>2, <2>3 DEF RingsType
<1>3. CASE (msghandled /\ txq = <<>>) \/ (~msghandled /\ ~CanWrite(inep))
  <2>1. UNCHANGED <<txq, currtxbuf, msghandled, inep>>
    BY <1>3 DEF WriteSide, Offer
  <2> QED
    BY <2>1 DEF RingsType, Pending
<1> QED
  BY <1>1, <1>2, <1>3 DEF RingsType

\* The poll: at most the pending request is answered.
LEMMA PollStep ==
  ASSUME CtlType, PollUsb, panicked' = panicked
  PROVE  CtlType'
<1>1. CASE ctl # "none"
  <2>1. ctl' = "none" /\ answer' \in {"none", "accepted", "stalled"}
    BY <1>1 DEF PollUsb, Serve, Answer
  <2>2. configured' \in BOOLEAN
    BY <1>1 DEF PollUsb, Serve
  <2>3. panicked' \in BOOLEAN
    BY DEF CtlType
  <2> QED
    BY <2>1, <2>2, <2>3 DEF CtlType
<1>2. CASE ctl = "none"
  BY <1>2 DEF PollUsb, ctlvars, CtlType
<1> QED
  BY <1>1, <1>2

-----------------------------------------------------------------------------
(* The actions.                                                            *)

\* run_loop: the invariant, and what it does to the packets under way.
LEMMA RunLoopStep ==
  ASSUME IInv, NEW incoming \in Incoming, RunLoop(incoming)
  PROVE  /\ IInv'
         /\ \/ Pending' = Pending
            \/ /\ Pending # <<>> /\ Pending' = Tail(Pending)
               /\ inep = <<>> /\ inep' = <<Head(Pending)>>
<1> USE DEF IInv
<1>1. CASE Panics(ctl)
  <2>1. UNCHANGED <<usbvars, inep, nedep, ctlvars, hostvars>>
    BY <1>1 DEF RunLoop
  <2>2. panicked' \in BOOLEAN
    BY <1>1 DEF RunLoop
  <2>3. RingsType' /\ Pending' = Pending
    BY <2>1 DEF RingsType, Pending, usbvars
  <2>4. BootType' /\ BootOrder'
    BY <2>1 DEF BootType, BootOrder, usbvars, hostvars
  <2>5. CtlType'
    BY <2>1, <2>2 DEF CtlType, ctlvars
  <2> QED
    BY <2>3, <2>4, <2>5
<1>2. CASE ~Panics(ctl)
  <2>1. /\ PollUsb /\ panicked' = panicked /\ UNCHANGED hostvars
        /\ \/ SendNotification("Speed", "speed", "Notify")
           \/ SendNotification("Notify", "up", "Normal")
           \/ ProcessUsb(incoming)
    BY <1>2 DEF RunLoop
  <2>2. CtlType'
    BY <2>1, PollStep
  <2>3. CASE \/ SendNotification("Speed", "speed", "Notify")
             \/ SendNotification("Notify", "up", "Normal")
    <3>1. BootType' /\ BootOrder' /\ UNCHANGED ringvars
      BY <2>1, <2>3, NotificationStep
    <3>2. RingsType' /\ Pending' = Pending
      BY <3>1 DEF ringvars, RingsType, Pending
    <3> QED
      BY <2>2, <3>1, <3>2
  <2>4. CASE ProcessUsb(incoming)
    <3>1. ReadSide(incoming) /\ WriteSide /\ UNCHANGED <<nedep, bootstate>>
      BY <2>4 DEF ProcessUsb
    <3>2. BootType' /\ BootOrder'
      BY <2>1, <3>1 DEF BootType, BootOrder, hostvars
    <3>3. rxq' \in Seq(Packets) /\ Len(rxq') <= USB_RXQ_CAP
      BY <3>1, ReadStep DEF RingsType
    <3>4. RingsType'
      BY <3>1, <3>3, WriteStep DEF RingsType
    <3> QED
      BY <2>2, <3>1, <3>2, <3>4, WriteStep
  <2> QED
    BY <2>1, <2>3, <2>4
<1> QED
  BY <1>1, <1>2

\* The host and the bus touch no ring; a reset ends what BootOrder says.
LEMMA HostStep ==
  ASSUME IInv, Host
  PROVE  IInv' /\ Pending' = Pending
<1> USE DEF IInv
<1>1. ASSUME NEW request \in {"SetConfiguration"} \cup Requests, HostRequests(request)
      PROVE  IInv' /\ Pending' = Pending
  <2>1. UNCHANGED <<usbvars, inep, nedep, configured, hostvars, panicked>>
        /\ ctl' = request /\ answer' = "none"
    BY <1>1 DEF HostRequests
  <2>2. RingsType' /\ Pending' = Pending
    BY <2>1 DEF RingsType, Pending, usbvars
  <2>3. BootType' /\ BootOrder'
    BY <2>1 DEF BootType, BootOrder, usbvars, hostvars
  <2>4. CtlType'
    BY <2>1 DEF CtlType
  <2> QED
    BY <2>2, <2>3, <2>4
<1>2. CASE HostReadsIn
  <2>1. UNCHANGED <<usbvars, nedep, ctlvars, hostvars, panicked>> /\ inep' = <<>>
    BY <1>2 DEF HostReadsIn
  <2>2. RingsType' /\ Pending' = Pending
    BY <2>1 DEF RingsType, Pending, usbvars
  <2>3. BootType' /\ BootOrder' /\ CtlType'
    BY <2>1 DEF BootType, BootOrder, CtlType, usbvars, hostvars, ctlvars
  <2> QED
    BY <2>2, <2>3
<1>3. CASE HostReadsNotification
  <2>1. /\ UNCHANGED <<usbvars, inep, ctlvars, resets, panicked>>
        /\ nedep # <<>> /\ nedep' = <<>> /\ link' = Head(nedep)
    BY <1>3 DEF HostReadsNotification
  <2>2. RingsType' /\ Pending' = Pending /\ CtlType'
    BY <2>1 DEF RingsType, Pending, CtlType, usbvars, ctlvars
  <2>3. Head(nedep) \in {"speed", "up"}
    BY <2>1 DEF BootType
  <2>4. BootType'
    BY <2>1, <2>3 DEF BootType, usbvars
  <2>5. BootOrder'
    BY <2>1 DEF BootType, BootOrder, usbvars, UsbIpBootState
  <2> QED
    BY <2>2, <2>4, <2>5
<1>4. CASE BusReset
  <2>1. /\ UNCHANGED <<usbvars, panicked>> /\ resets < MaxResets /\ resets' = resets + 1
        /\ ctl' = "none" /\ answer' = "none" /\ link' = "none" /\ inep' = <<>> /\ nedep' = <<>>
    BY <1>4 DEF BusReset
  <2>2. configured' \in BOOLEAN
    BY <1>4 DEF BusReset
  <2>3. RingsType' /\ Pending' = Pending
    BY <2>1 DEF RingsType, Pending, usbvars
  <2>4. BootType' /\ BootOrder'
    BY <2>1, UsbIpAssumption DEF BootType, BootOrder, usbvars
  <2>5. CtlType'
    BY <2>1, <2>2 DEF CtlType
  <2> QED
    BY <2>3, <2>4, <2>5
<1> QED
  BY <1>1, <1>2, <1>3, <1>4 DEF Host, HostConfigures, DriverAsks

\* process_messages and the tokens at the other ends of the rings.
LEMMA BufsStep ==
  ASSUME IInv
  PROVE  /\ DrainRx => IInv' /\ Pending' = Pending
         /\ \A p \in Packets : PushTx(p) => IInv' /\ Pending' = Append(Pending, p)
<1> USE DEF IInv
<1>1. ASSUME DrainRx PROVE IInv' /\ Pending' = Pending
  <2>1. /\ UNCHANGED <<bootstate, txq, currtxbuf, msghandled, inep, nedep, ctlvars, hostvars, panicked>>
        /\ rxq' = <<>>
    BY <1>1 DEF DrainRx
  <2>2. RingsType' /\ Pending' = Pending
    BY <2>1, UsbIpAssumption DEF RingsType, Pending
  <2>3. BootType' /\ BootOrder' /\ CtlType'
    BY <2>1 DEF BootType, BootOrder, CtlType, hostvars, ctlvars
  <2> QED
    BY <2>2, <2>3
<1>2. ASSUME NEW p \in Packets, PushTx(p) PROVE IInv' /\ Pending' = Append(Pending, p)
  <2>1. /\ UNCHANGED <<bootstate, rxq, currtxbuf, msghandled, inep, nedep, ctlvars, hostvars, panicked>>
        /\ Len(txq) < USB_TXQ_CAP /\ txq' = Append(txq, p)
    BY <1>2 DEF PushTx
  <2>2. RingsType'
    BY <2>1, UsbIpAssumption DEF RingsType
  <2>3. Pending' = Append(Pending, p)
    <3>1. CASE msghandled
      BY <2>1, <3>1 DEF RingsType, Pending
    <3>2. CASE ~msghandled
      BY <2>1, <3>2 DEF RingsType, Pending
    <3> QED
      BY <3>1, <3>2
  <2>4. BootType' /\ BootOrder' /\ CtlType'
    BY <2>1 DEF BootType, BootOrder, CtlType, hostvars, ctlvars
  <2> QED
    BY <2>2, <2>3, <2>4
<1> QED
  BY <1>1, <1>2

\* Nothing happens.
LEMMA StutterStep ==
  ASSUME IInv, UNCHANGED vars
  PROVE  IInv' /\ Pending' = Pending
<1>1. UNCHANGED <<usbvars, inep, nedep, ctlvars, hostvars, panicked>>
  BY DEF vars
<1>2. RingsType' /\ Pending' = Pending
  BY <1>1 DEF IInv, RingsType, Pending, usbvars
<1>3. BootType' /\ BootOrder'
  BY <1>1 DEF IInv, BootType, BootOrder, usbvars, hostvars
<1>4. CtlType'
  BY <1>1 DEF IInv, CtlType, ctlvars
<1> QED
  BY <1>2, <1>3, <1>4 DEF IInv

\* The boot sequence begins with nothing announced.
LEMMA InitIInv == ASSUME Init PROVE IInv
<1>1. RingsType
  <2>1. msghandled \in BOOLEAN /\ msghandled
    BY DEF Init
  <2> QED
    BY <2>1, UsbIpAssumption DEF Init, RingsType
<1>2. BootType /\ BootOrder
  BY UsbIpAssumption DEF Init, BootType, BootOrder, UsbIpBootState
<1>3. CtlType
  <2>1. configured \in BOOLEAN /\ panicked \in BOOLEAN
    BY DEF Init
  <2> QED
    BY <2>1 DEF Init, CtlType
<1> QED
  BY <1>1, <1>2, <1>3 DEF IInv

\* The next-state relation keeps the invariant.
LEMMA NextIInv == ASSUME IInv, [Next]_vars PROVE IInv'
  BY RunLoopStep, HostStep, BufsStep, StutterStep DEF Next

-----------------------------------------------------------------------------
(* The theorems.                                                           *)

\* The invariant above holds of all behaviours.
THEOREM Invariance == Spec => []IInv
<1> QED BY InitIInv, NextIInv, PTL DEF Spec

\* Type correctness of UsbIpManager, the endpoints and the bus.
THEOREM TypeCorrect == Spec => []TypeOK
<1>1. IInv => TypeOK
  BY DEF IInv, RingsType, BootType, CtlType, TypeOK
<1> QED BY <1>1, Invariance, PTL

\* What each step does to the packets under way.
LEMMA PendingStep ==
  ASSUME IInv, [Next]_vars
  PROVE  \/ Pending' = Pending
         \/ /\ Pending # <<>> /\ Pending' = Tail(Pending)
            /\ inep = <<>> /\ inep' = <<Head(Pending)>>
         \/ \E p \in Packets : Pending' = Append(Pending, p) /\ Len(txq) < USB_TXQ_CAP
<1>1. ASSUME NEW p \in Packets, PushTx(p)
      PROVE  Pending' = Append(Pending, p) /\ Len(txq) < USB_TXQ_CAP
  BY <1>1, BufsStep DEF PushTx
<1> QED
  BY <1>1, RunLoopStep, HostStep, BufsStep, StutterStep DEF Next

\* A packet leaves the USB manager only into the endpoint, when that is empty.
THEOREM PacketsReachTheEndpoint == Spec => NothingLost
<1> DEFINE Handed == Len(Pending') < Len(Pending) => inep = <<>> /\ inep' = <<Head(Pending)>>
<1>1. ASSUME IInv, [Next]_vars PROVE [Handed]_vars
  <2>1. Pending \in Seq(Packets)
    BY <1>1, PendingType DEF IInv
  <2>2. CASE Pending' = Pending
    BY <2>1, <2>2
  <2>3. ASSUME NEW p \in Packets, Pending' = Append(Pending, p) PROVE Handed
    BY <2>1, <2>3
  <2> QED
    BY <1>1, <2>2, <2>3, PendingStep
<1> QED
  BY <1>1, Invariance, PTL DEF Spec, NothingLost

\* Step by step the USB manager is the abstract channel, whatever the host, the
\* bus and the state machines do: it accepts a packet, hands over the oldest, or
\* nothing changes.
THEOREM RefinesChannel == Spec => Channel!Spec
<1>1. ASSUME Init PROVE Channel!Init
  BY <1>1 DEF Init, Channel!Init, Pending
<1>2. ASSUME IInv, [Next]_vars PROVE [Channel!Next]_(Channel!vars)
  <2>1. Pending \in Seq(Packets) /\ Len(Pending) <= Len(txq) + 1
    BY <1>2, PendingType DEF IInv
  <2>2. ASSUME NEW p \in Packets, Pending' = Append(Pending, p), Len(txq) < USB_TXQ_CAP
        PROVE  Channel!Next
    <3>1. Len(Pending) < USB_TXQ_CAP + 1
      BY <1>2, <2>1, <2>2, UsbIpAssumption DEF IInv, RingsType
    <3> QED
      BY <2>2, <3>1 DEF Channel!Next, Channel!Accept
  <2>3. CASE Pending # <<>> /\ Pending' = Tail(Pending)
    BY <2>3 DEF Channel!Next, Channel!HandOver
  <2>4. CASE Pending' = Pending
    BY <2>4 DEF Channel!vars
  <2> QED
    BY <1>2, <2>2, <2>3, <2>4, PendingStep
<1> QED
  BY <1>1, <1>2, Invariance, PTL DEF Spec, Channel!Spec

\* On a bus that was never reset, the link is not up before its speed is known.
THEOREM SpeedFirst == Spec => SpeedBeforeUp
<1> DEFINE Ordered == link' = "up" /\ resets = 0 => link = "speed"
<1>1. ASSUME IInv, [Next]_vars PROVE [Ordered]_link
  <2>1. CASE HostReadsNotification
    <3>1. nedep # <<>> /\ link' = Head(nedep)
      BY <2>1 DEF HostReadsNotification
    <3>2. resets = 0 => nedep = <<"speed">> \/ (nedep = <<"up">> /\ link = "speed")
      BY <1>1, <3>1 DEF IInv, BootOrder, BootType, UsbIpBootState
    <3>3. Head(<<"speed">>) = "speed"
      OBVIOUS
    <3> QED
      BY <3>1, <3>2, <3>3
  <2>2. CASE BusReset
    BY <2>2 DEF BusReset
  <2>3. CASE ~HostReadsNotification /\ ~BusReset
    <3>1. link' = link
      BY <1>1, <2>3 DEF Next, Host, HostConfigures, DriverAsks, HostRequests, HostReadsIn,
         RunLoop, PushTx, DrainRx, vars, hostvars
    <3> QED
      BY <3>1
  <2> QED
    BY <2>1, <2>2, <2>3
<1> QED
  BY <1>1, Invariance, PTL DEF Spec, SpeedBeforeUp
=============================================================================
