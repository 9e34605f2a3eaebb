--------------------------- MODULE Firmware_proofs --------------------------
(***************************************************************************)
(* The order of the calls in the main loop keeps the receive rings from    *)
(* overflowing, for any sizes, and makes each component meet the           *)
(* environment its own module assumes.                                     *)
(***************************************************************************)
EXTENDS Firmware, TLAPS

\* The proofs of the parts, about the same state.
TxP == INSTANCE NcmTx_proofs WITH txq <- ethtxq, usbtxring <- usbtxq
RxP == INSTANCE NcmRx_proofs WITH usbrxring <- usbrxq

\* Which of the receive buffers are empty at each call of the iteration.  The
\* device is never asked for what would panic its control requests: the driver's
\* are left out here.
LoopOrder ==
    /\ pc \in {"usb", "tx", "rx", "eth"}
    /\ pc = "usb" => usbrxq = <<>> /\ ethrxq = <<>> /\ ~rxbufready
    /\ pc = "tx"  => ethrxq = <<>> /\ ~rxbufready
    /\ pc = "rx"  => ethrxq = <<>>
    /\ pc = "eth" /\ ~panicked => usbrxq = <<>> /\ ~rxbufready

\* Every step keeps the order.
LEMMA NextLoopOrder == LoopOrder /\ [Next]_vars => LoopOrder'
<1> SUFFICES ASSUME LoopOrder, [Next]_vars PROVE LoopOrder'
  OBVIOUS
<1>1. ASSUME NEW incoming, RunLoop(incoming) PROVE LoopOrder'
  BY <1>1 DEF RunLoop, LoopOrder, rxvars
<1>2. CASE NoPacket \/ NewTransfer \/ TransferGoesOn
  BY <1>1, <1>2 DEF NoPacket, NewTransfer, TransferGoesOn
<1>3. CASE ProcessTx
  BY <1>3 DEF ProcessTx, LoopOrder, rxvars
<1>4. CASE ProcessRx
  BY <1>4 DEF ProcessRx, LoopOrder, Rx!RxSkip, Rx!RxHeader, Rx!RxCopy
<1>5. CASE ~panicked /\ Deliver
  <2>1. CASE rxbufready
    BY <1>5, <2>1 DEF Deliver, LoopOrder, Rx!RxDeliver
  <2>2. CASE ~rxbufready
    BY <1>5, <2>2 DEF Deliver, LoopOrder, rxvars
  <2> QED
    BY <2>1, <2>2
<1>6. CASE ~panicked /\ EthIngress
  BY <1>6 DEF EthIngress, LoopOrder, Rx!ConsumeRxToken
<1>7. CASE EthEgress
  BY <1>7 DEF EthEgress, LoopOrder, rxvars, Tx!ConsumeTxToken
<1>8. CASE ~panicked /\ EthDone
  BY <1>8 DEF EthDone, LoopOrder, rxvars, usbvars
<1>9. CASE HostPolls
  BY <1>9 DEF HostPolls, LoopOrder, rxvars, Usb!HostConfigures, Usb!HostRequests,
              Usb!HostReadsIn, Usb!HostReadsNotification, Usb!usbvars
<1>10. CASE BusReset
  <2>1. usbrxq' = usbrxq /\ pc' = pc /\ panicked' = panicked
    BY <1>10 DEF BusReset, Usb!BusReset, Usb!usbvars
  <2>2. ethrxq' = ethrxq /\ rxbufready' = rxbufready
    BY <1>10 DEF BusReset, rxvars, Rx!HostAbandons, Rx!devvars
  <2> QED
    BY <2>1, <2>2 DEF LoopOrder
<1>11. CASE UNCHANGED vars
  BY <1>11 DEF vars, LoopOrder, rxvars, usbvars
<1> QED
  BY <1>2, <1>3, <1>4, <1>5, <1>6, <1>7, <1>8, <1>9, <1>10, <1>11 DEF Next, MainLoop

-----------------------------------------------------------------------------
(* The sizes of the firmware are sizes its parts can be built with.        *)

\* Those of the transmit half.
LEMMA TxSizes ==
  /\ EP_DATA_BUF_SIZE \in Nat \ {0}
  /\ TOTAL_HEADER_SIZE \in 1 .. EP_DATA_BUF_SIZE
  /\ ETH_TXQ_CAP \in Nat \ {0}
  /\ USB_TXQ_CAP \in Nat \ {0}
  /\ SEQ_MOD \in Nat \ {0}
  /\ FrameLens \subseteq Nat \ {0}
  BY FirmwareAssumption DEF TOTAL_HEADER_SIZE

\* Those of the receive half.
LEMMA RxSizes ==
  /\ EP_DATA_BUF_SIZE \in Nat /\ NTH_SIZE \in Nat /\ NDP_SIZE \in Nat
  /\ 0 < NTH_SIZE /\ 0 < NDP_SIZE /\ NTH_SIZE <= EP_DATA_BUF_SIZE
  /\ NCM_MAX_IN_SIZE \in Nat /\ MTU \in Nat /\ MTU <= NCM_MAX_IN_SIZE
  /\ ETH_RXQ_CAP \in Nat \ {0}
  /\ EP_DATA_BUF_SIZE <= NCM_MAX_IN_SIZE
  /\ HostBlocks \subseteq RxP!Shape
  /\ Garbled \subseteq RxP!Datagram16
  /\ Ids \in Nat \ {0}
  /\ MaxTears \in Nat
  /\ \A b \in HostBlocks : RxP!WellFormed(b)
  BY FirmwareAssumption DEF RxP!Shape, RxP!Datagram16, RxP!WellFormed, TOTAL_HEADER_SIZE

-----------------------------------------------------------------------------
(* The parts as they are proved about are the parts the loop is made of.   *)

\* The transmit half's calls.
LEMMA SameProcessTx == Tx!ProcessTx => TxP!ProcessTx
<1>1. Tx!TxReady => TxP!TxReady
  BY DEF Tx!TxReady, TxP!TxReady, Tx!NextSeq, TxP!NextSeq
<1>2. Tx!TxHeader => TxP!TxHeader
  BY DEF Tx!TxHeader, TxP!TxHeader, Tx!Push, TxP!Push, Tx!RingHasRoom, TxP!RingHasRoom,
         Tx!PacketOf, TxP!PacketOf
<1>3. Tx!TxSending => TxP!TxSending
  BY DEF Tx!TxSending, TxP!TxSending, Tx!Push, TxP!Push, Tx!RingHasRoom, TxP!RingHasRoom,
         Tx!PacketOf, TxP!PacketOf, Tx!MinOf, TxP!MinOf
<1>4. Tx!TxZlp => TxP!TxZlp
  BY DEF Tx!TxZlp, TxP!TxZlp, Tx!Push, TxP!Push, Tx!RingHasRoom, TxP!RingHasRoom,
         Tx!PacketOf, TxP!PacketOf, Tx!NeedsZlp, TxP!NeedsZlp, Tx!BlockDone, TxP!BlockDone
<1> QED
  BY <1>1, <1>2, <1>3, <1>4 DEF Tx!ProcessTx, TxP!ProcessTx

\* The transmit half.
LEMMA SameTx ==
  /\ Tx!Init => TxP!Init
  /\ [Tx!Next]_(Tx!vars) => [TxP!Next]_(TxP!vars)
<1>1. Tx!Init => TxP!Init
  BY DEF Tx!Init, TxP!Init, Tx!PacketOf, TxP!PacketOf
<1>2. Tx!ProcessTx => TxP!ProcessTx
  BY SameProcessTx
<1>3. Tx!UsbPop => TxP!UsbPop
  BY DEF Tx!UsbPop, TxP!UsbPop
<1>4. ASSUME NEW len PROVE Tx!ConsumeTxToken(len) => TxP!ConsumeTxToken(len)
  BY DEF Tx!ConsumeTxToken, TxP!ConsumeTxToken
<1> QED
  BY <1>1, <1>2, <1>3, <1>4 DEF Tx!Next, TxP!Next, Tx!vars, TxP!vars

\* The receive half and the host.
LEMMA SameRx ==
  /\ Rx!Init => RxP!Init
  /\ [Rx!Next]_(Rx!vars) => [RxP!Next]_(RxP!vars)
<1>1. Rx!Init => RxP!Init
  BY DEF Rx!Init, RxP!Init, Rx!ByteAt, RxP!ByteAt, Rx!Nothing, RxP!Nothing
<1>2. ASSUME NEW p PROVE Rx!Reaches(p) => RxP!Reaches(p)
  BY DEF Rx!Reaches, RxP!Reaches, Rx!LoopIsIdle, RxP!LoopIsIdle, Rx!HostSent, RxP!HostSent
<1>3. (Rx!HostDone <=> RxP!HostDone) /\ Rx!NextPacket = RxP!NextPacket
      /\ Rx!FirstPackets = RxP!FirstPackets
  BY DEF Rx!HostDone, RxP!HostDone, Rx!NextPacket, RxP!NextPacket, Rx!FirstPackets,
         RxP!FirstPackets, Rx!PacketFrom, RxP!PacketFrom, Rx!MinOf, RxP!MinOf
<1>4. Rx!Host => RxP!Host
  <2>1. Rx!HostAbandons => RxP!HostAbandons
    BY <1>3 DEF Rx!HostAbandons, RxP!HostAbandons, Rx!devvars, RxP!devvars
  <2>2. Rx!HostBegins => RxP!HostBegins
    BY <1>2, <1>3 DEF Rx!HostBegins, RxP!HostBegins
  <2>3. Rx!HostContinues => RxP!HostContinues
    BY <1>2, <1>3 DEF Rx!HostContinues, RxP!HostContinues
  <2> QED
    BY <2>1, <2>2, <2>3 DEF Rx!Host, RxP!Host
<1>5. Rx!ConsumeRxToken => RxP!ConsumeRxToken
  BY DEF Rx!ConsumeRxToken, RxP!ConsumeRxToken, Rx!hostvars, RxP!hostvars
<1>6. ASSUME NEW p PROVE Rx!StartsBlock(p) <=> RxP!StartsBlock(p)
  BY DEF Rx!StartsBlock, RxP!StartsBlock
<1>7. ASSUME NEW p, NEW at, NEW n PROVE Rx!CopyIn(p, at, n) = RxP!CopyIn(p, at, n)
  BY DEF Rx!CopyIn, RxP!CopyIn, Rx!ByteAt, RxP!ByteAt
<1>8. Rx!RxSkip => RxP!RxSkip
  BY <1>6 DEF Rx!RxSkip, RxP!RxSkip, Rx!hostvars, RxP!hostvars
<1>9. Rx!RxHeader => RxP!RxHeader
  BY <1>6, <1>7 DEF Rx!RxHeader, RxP!RxHeader, Rx!hostvars, RxP!hostvars
<1>10. Rx!RxCopy => RxP!RxCopy
  BY <1>7 DEF Rx!RxCopy, RxP!RxCopy, Rx!hostvars, RxP!hostvars, Rx!MinOf, RxP!MinOf,
              Rx!Completes, RxP!Completes, Rx!RestartRx, RxP!RestartRx
<1>11. Rx!RxDeliver => RxP!RxDeliver
  <2>1. Rx!Table = RxP!Table
    BY DEF Rx!Table, RxP!Table
  <2>2. Rx!TableAt(Rx!Table) <=> RxP!TableAt(RxP!Table)
    BY <2>1 DEF Rx!TableAt, RxP!TableAt, Rx!ByteAt, RxP!ByteAt
  <2>3. Rx!Entries = RxP!Entries
    BY <2>1, <2>2 DEF Rx!Entries, RxP!Entries, Rx!Signed, RxP!Signed, Rx!ByteAt, RxP!ByteAt,
                      Rx!Entry, RxP!Entry
  <2>4. ASSUME NEW d PROVE /\ Rx!Frame(d) = RxP!Frame(d) /\ (Rx!Fits(d) <=> RxP!Fits(d))
                           /\ Rx!Pushed(d) = RxP!Pushed(d)
    BY DEF Rx!Frame, RxP!Frame, Rx!Fits, RxP!Fits, Rx!Pushed, RxP!Pushed
  <2>5. ASSUME NEW f PROVE Rx!Whole(f) <=> RxP!Whole(f)
    BY DEF Rx!Whole, RxP!Whole, Rx!ByteAt, RxP!ByteAt
  <2> QED
    BY <2>3, <2>4, <2>5 DEF Rx!RxDeliver, RxP!RxDeliver, Rx!hostvars, RxP!hostvars
<1>12. Rx!ProcessRx => RxP!ProcessRx
  BY <1>8, <1>9, <1>10, <1>11 DEF Rx!ProcessRx, RxP!ProcessRx
<1> QED
  BY <1>1, <1>4, <1>5, <1>12
     DEF Rx!Next, RxP!Next, Rx!vars, RxP!vars, Rx!devvars, RxP!devvars, Rx!hostvars, RxP!hostvars

-----------------------------------------------------------------------------
(* What one call does to each part.                                        *)

\* No pending request panics, and the parts keep the invariants they are proved
\* with; both include that nothing panicked.
CtlHarmless == ctl \in {"none", "SetConfiguration"}
IInv == LoopOrder /\ CtlHarmless /\ TxP!IInv /\ RxP!IInv

\* run_loop of the USB manager, as the parts see it.
LEMMA RunLoopEffect ==
  ASSUME LoopOrder, CtlHarmless, NEW incoming, RunLoop(incoming)
  PROVE  /\ panicked' = panicked /\ ctl' = "none"
         /\ incoming = <<>> => usbrxq' = <<>>
         /\ \A p : incoming = <<p>> => usbrxq' = Append(usbrxq, p)
         /\ \/ UNCHANGED <<usbtxq, currtxbuf>>
            \/ usbtxq # <<>> /\ currtxbuf' = Head(usbtxq) /\ usbtxq' = Tail(usbtxq)
<1>1. pc = "usb" /\ Usb!RunLoop(incoming) /\ usbrxq = <<>>
  BY DEF RunLoop, LoopOrder
<1>2. ~Usb!Panics(ctl)
  BY DEF Usb!Panics, CtlHarmless
<1>3. /\ Usb!PollUsb /\ panicked' = panicked
      /\ \/ incoming = <<>> /\ Usb!SendNotification("Speed", "speed", "Notify")
         \/ incoming = <<>> /\ Usb!SendNotification("Notify", "up", "Normal")
         \/ Usb!ProcessUsb(incoming)
  BY <1>1, <1>2 DEF Usb!RunLoop
<1>4. ctl' = "none"
  BY <1>3 DEF Usb!PollUsb, Usb!Serve, Usb!ctlvars
<1>5. CASE incoming = <<>> /\ \/ Usb!SendNotification("Speed", "speed", "Notify")
                              \/ Usb!SendNotification("Notify", "up", "Normal")
  <2>1. UNCHANGED <<usbrxq, usbtxq, currtxbuf>>
    BY <1>5 DEF Usb!SendNotification
  <2>2. \A p : incoming # <<p>>
    BY <1>5
  <2> QED
    BY <1>1, <1>3, <1>4, <2>1, <2>2
<1>6. CASE Usb!ProcessUsb(incoming)
  <2>1. Usb!ReadSide(incoming) /\ Usb!WriteSide
    BY <1>6 DEF Usb!ProcessUsb
  <2>2. incoming = <<>> => usbrxq' = <<>>
    BY <1>1, <2>1 DEF Usb!ReadSide
  <2>3. ASSUME NEW p, incoming = <<p>> PROVE usbrxq' = Append(usbrxq, p)
    <3>1. incoming # <<>>
      BY <2>3
    <3>2. usbrxq' = <<>> \o <<p>>
      BY <1>1, <2>1, <2>3, <3>1 DEF Usb!ReadSide
    <3>3. <<>> \o <<p>> = Append(<<>>, p)
      OBVIOUS
    <3> QED
      BY <1>1, <3>2, <3>3
  <2>4. \/ UNCHANGED <<usbtxq, currtxbuf>>
        \/ usbtxq # <<>> /\ currtxbuf' = Head(usbtxq) /\ usbtxq' = Tail(usbtxq)
    BY <2>1 DEF Usb!WriteSide, Usb!TakeNext, Usb!Offer
  <2> QED
    BY <1>3, <1>4, <2>2, <2>3, <2>4
<1> QED
  BY <1>3, <1>5, <1>6

\* The host and the bus, as the parts see them.
LEMMA BusEffect ==
  ASSUME HostPolls \/ BusReset
  PROVE  /\ UNCHANGED <<usbtxq, currtxbuf, usbrxq, panicked>>
         /\ UNCHANGED txvars
         /\ UNCHANGED <<rxvars, hostvars>> \/ Rx!HostAbandons
         /\ CtlHarmless => CtlHarmless'
<1>1. CASE HostPolls
  <2>1. UNCHANGED <<usbtxq, currtxbuf, usbrxq, panicked>>
    BY <1>1 DEF HostPolls, Usb!HostConfigures, Usb!HostRequests, Usb!HostReadsIn,
                Usb!HostReadsNotification, Usb!usbvars
  <2>2. CtlHarmless => CtlHarmless'
    BY <1>1 DEF HostPolls, Usb!HostConfigures, Usb!HostRequests, Usb!HostReadsIn,
                Usb!HostReadsNotification, Usb!ctlvars, CtlHarmless
  <2> QED
    BY <1>1, <2>1, <2>2 DEF HostPolls
<1>2. CASE BusReset
  <2>1. UNCHANGED <<usbtxq, currtxbuf, usbrxq, panicked>> /\ CtlHarmless'
    BY <1>2 DEF BusReset, Usb!BusReset, Usb!usbvars, CtlHarmless
  <2> QED
    BY <1>2, <2>1 DEF BusReset
<1> QED
  BY <1>1, <1>2

\* To the transmit half, every call but its own is a pop, a frame or nothing,
\* as long as no other call panics.
LEMMA TxStep ==
  ASSUME LoopOrder, CtlHarmless, [Next]_vars,
         ProcessRx \/ Deliver => panicked' = panicked
  PROVE  [Tx!Next]_(Tx!vars)
<1>1. ASSUME NEW incoming, ~panicked, RunLoop(incoming) PROVE [Tx!Next]_(Tx!vars)
  <2>1. panicked' = panicked /\ UNCHANGED txvars
    BY <1>1, RunLoopEffect DEF RunLoop
  <2>2. CASE UNCHANGED <<usbtxq, currtxbuf>>
    BY <2>1, <2>2 DEF txvars, Tx!vars
  <2>3. CASE usbtxq # <<>> /\ currtxbuf' = Head(usbtxq) /\ usbtxq' = Tail(usbtxq)
    BY <1>1, <2>1, <2>3 DEF txvars, Tx!UsbPop, Tx!Next
  <2> QED
    BY <1>1, <2>2, <2>3, RunLoopEffect
<1>2. CASE ~panicked /\ (NoPacket \/ NewTransfer \/ TransferGoesOn)
  BY <1>1, <1>2 DEF NoPacket, NewTransfer, TransferGoesOn
<1>3. CASE ProcessTx
  BY <1>3 DEF ProcessTx, Tx!Next, Tx!vars, txvars
<1>4. CASE ProcessRx
  BY <1>4 DEF ProcessRx, Tx!vars, txvars
<1>5. CASE Deliver
  BY <1>5 DEF Deliver, Tx!vars, txvars
<1>6. CASE EthIngress
  BY <1>6 DEF EthIngress, Rx!ConsumeRxToken, Tx!vars, txvars
<1>7. CASE EthEgress
  BY <1>7 DEF EthEgress, Tx!Next
<1>8. CASE EthDone
  BY <1>8 DEF EthDone, Tx!vars, txvars, usbvars
<1>9. CASE HostPolls \/ BusReset
  BY <1>9, BusEffect DEF Tx!vars, txvars
<1>10. CASE UNCHANGED vars
  BY <1>10 DEF vars, txvars, usbvars, Tx!vars
<1> QED
  BY <1>2, <1>3, <1>4, <1>5, <1>6, <1>7, <1>8, <1>9, <1>10 DEF Next, MainLoop

\* To the receive half, run_loop is the arrival of a packet in an idle loop, and
\* the transmit half is nothing, as long as it does not panic.
LEMMA RxStep ==
  ASSUME LoopOrder, CtlHarmless, [Next]_vars, ProcessTx \/ EthEgress => panicked' = panicked
  PROVE  [Rx!Next]_(Rx!vars)
<1> USE DEF Rx!vars, Rx!devvars, Rx!hostvars, rxvars, hostvars
<1>1. CASE NoPacket
  <2>1. usbrxq' = <<>> /\ usbrxq = <<>> /\ panicked' = panicked
    BY <1>1, RunLoopEffect DEF NoPacket, RunLoop, LoopOrder
  <2> QED
    BY <1>1, <2>1 DEF NoPacket, RunLoop
<1>2. ASSUME NEW p, ~panicked, RunLoop(<<p>>) PROVE Rx!Reaches(p)
  <2>1. usbrxq' = Append(usbrxq, p) /\ panicked' = panicked
    BY <1>2, RunLoopEffect
  <2>2. Rx!LoopIsIdle
    BY <1>2 DEF RunLoop, LoopOrder, Rx!LoopIsIdle
  <2>3. Rx!HostSent(p) /\ UNCHANGED rxvars
    <3>1. <<p>> # <<>> /\ Head(<<p>>) = p
      OBVIOUS
    <3> QED
      BY <1>2, <3>1 DEF RunLoop
  <2> QED
    BY <2>1, <2>2, <2>3 DEF Rx!Reaches
<1>3. CASE ~panicked /\ NewTransfer
  BY <1>2, <1>3 DEF NewTransfer, Rx!HostBegins, Rx!Host, Rx!Next
<1>4. CASE ~panicked /\ TransferGoesOn
  BY <1>2, <1>4 DEF TransferGoesOn, Rx!HostContinues, Rx!Host, Rx!Next
<1>5. CASE ProcessTx
  BY <1>5 DEF ProcessTx
<1>6. CASE ~panicked /\ ProcessRx
  BY <1>6 DEF ProcessRx, Rx!ProcessRx, Rx!Next
<1>7. CASE ~panicked /\ Deliver
  BY <1>7 DEF Deliver, Rx!ProcessRx, Rx!Next
<1>8. CASE EthIngress
  BY <1>8 DEF EthIngress, Rx!Next
<1>9. CASE EthEgress
  BY <1>9 DEF EthEgress
<1>10. CASE EthDone
  BY <1>10 DEF EthDone, usbvars
<1>11. CASE HostPolls \/ BusReset
  BY <1>11, BusEffect DEF Rx!Host, Rx!Next
<1>12. CASE UNCHANGED vars
  BY <1>12 DEF vars, usbvars
<1> QED
  BY <1>1, <1>3, <1>4, <1>5, <1>6, <1>7, <1>8, <1>9, <1>10, <1>11, <1>12 DEF Next, MainLoop

\* The pending request stays one that is answered.
LEMMA CtlStep ==
  ASSUME LoopOrder, CtlHarmless, [Next]_vars
  PROVE  CtlHarmless'
<1>1. CASE ~panicked /\ (NoPacket \/ NewTransfer \/ TransferGoesOn)
  BY <1>1, RunLoopEffect DEF NoPacket, NewTransfer, TransferGoesOn, CtlHarmless
<1>2. CASE ProcessTx \/ ProcessRx \/ Deliver \/ EthIngress \/ EthEgress \/ EthDone \/ UNCHANGED vars
  <2>1. UNCHANGED busvars
    BY <1>2 DEF ProcessTx, ProcessRx, Deliver, EthIngress, EthEgress, EthDone, vars
  <2> QED
    BY <2>1 DEF busvars, CtlHarmless
<1>3. CASE HostPolls \/ BusReset
  BY <1>3, BusEffect
<1> QED
  BY <1>1, <1>2, <1>3 DEF Next, MainLoop

-----------------------------------------------------------------------------
(* The invariant.                                                          *)

\* The loop begins in the initial states of its parts.
LEMMA InitIInv == Init => IInv
<1> SUFFICES ASSUME Init PROVE IInv
  OBVIOUS
<1>1. LoopOrder
  BY DEF Init, LoopOrder, Rx!Init
<1>2. CtlHarmless
  BY DEF Init, CtlHarmless, Usb!Init
<1>3. TxP!IInv
  BY TxSizes, SameTx, TxP!InitIInv DEF Init
<1>4. RxP!IInv
  BY RxSizes, SameRx, RxP!InitIInv DEF Init
<1> QED
  BY <1>1, <1>2, <1>3, <1>4 DEF IInv

\* Neither half panics while its invariant holds, if the host is one that
\* NcmRx can be safe for.
LEMMA NoPanicInIInv ==
  ASSUME Rx!SafeHost
  PROVE  /\ TxP!IInv => panicked = FALSE
         /\ RxP!IInv => panicked = FALSE
<1>1. TxP!IInv => panicked = FALSE
  BY DEF TxP!IInv, TxP!TypeOK, TxP!NoPanic
<1>2. RxP!SafeHost
  BY DEF Rx!SafeHost, RxP!SafeHost
<1>3. RxP!IInv => panicked = FALSE
  BY <1>2, RxSizes, RxP!SafeIsPanicFree
<1> QED
  BY <1>1, <1>3

\* Each call keeps the invariant of the half it belongs to, which excludes a
\* panic, and so is an action of the other half's environment.
LEMMA NextStep ==
  ASSUME Rx!SafeHost, IInv, [Next]_vars
  PROVE  IInv' /\ [Tx!Next]_(Tx!vars) /\ [Rx!Next]_(Rx!vars)
<1>1. panicked = FALSE
  BY NoPanicInIInv DEF IInv
<1>2. [Tx!Next]_(Tx!vars) => TxP!IInv'
  BY TxSizes, SameTx, TxP!NextIInv DEF IInv
<1>3. [Rx!Next]_(Rx!vars) => RxP!IInv'
  BY RxSizes, SameRx, RxP!NextIInv DEF IInv
<1>4. TxP!IInv' \/ RxP!IInv' => panicked' = panicked
  <2>1. TxP!IInv' => panicked' = FALSE
    BY DEF TxP!IInv, TxP!TypeOK, TxP!NoPanic
  <2>2. RxP!SafeHost
    BY DEF Rx!SafeHost, RxP!SafeHost
  <2>3. RxP!IInv' => panicked' = FALSE
    BY <2>2, RxSizes, RxP!SafeIsPanicFree
  <2> QED
    BY <1>1, <2>1, <2>3
<1>5. LoopOrder' /\ CtlHarmless'
  BY NextLoopOrder, CtlStep DEF IInv
<1>6. CASE ProcessRx \/ Deliver
  <2>1. ~ProcessTx /\ ~EthEgress
    BY <1>6 DEF ProcessRx, Deliver, ProcessTx, EthEgress
  <2>2. [Rx!Next]_(Rx!vars)
    BY <2>1, RxStep DEF IInv
  <2>3. [Tx!Next]_(Tx!vars)
    BY <1>3, <1>4, <2>2, TxStep DEF IInv
  <2> QED
    BY <1>2, <1>3, <1>5, <2>2, <2>3 DEF IInv
<1>7. CASE ~(ProcessRx \/ Deliver)
  <2>1. [Tx!Next]_(Tx!vars)
    BY <1>7, TxStep DEF IInv
  <2>2. [Rx!Next]_(Rx!vars)
    BY <1>2, <1>4, <2>1, RxStep DEF IInv
  <2> QED
    BY <1>2, <1>3, <1>5, <2>1, <2>2 DEF IInv
<1> QED
  BY <1>6, <1>7

-----------------------------------------------------------------------------
(* From the IP stack to the host.                                          *)

\* The packets between process_messages and the host, and the frames under way:
\* Bulk and ToHost put together as NcmTx_proofs does.
Popped == IF msghandled THEN <<>> ELSE <<currtxbuf>>

\* The bulk IN endpoint holds at most one packet.
EndpointOK ==
    /\ inep \in Seq(TxP!Packet) /\ Len(inep) <= 1
    /\ msghandled \in BOOLEAN
    /\ resets \in Nat

\* The types of the parts.
LEMMA BulkType ==
  ASSUME EndpointOK, TxP!IInv
  PROVE  /\ Bulk = TxP!Joined(inep, Popped, usbtxq)
         /\ inep \in Seq(TxP!Packet) /\ Popped \in Seq(TxP!Packet)
         /\ usbtxq \in Seq(TxP!Packet) /\ currtxbuf \in TxP!Packet
         /\ Bulk \in Seq(TxP!Packet) /\ Len(Bulk) \in Nat /\ Len(Bulk) <= 2 + USB_TXQ_CAP
<1>1. /\ inep \in Seq(TxP!Packet) /\ Len(inep) \in 0 .. 1
      /\ usbtxq \in Seq(TxP!Packet) /\ Len(usbtxq) \in Nat /\ Len(usbtxq) <= USB_TXQ_CAP
      /\ currtxbuf \in TxP!Packet
  <2>1. inep \in Seq(TxP!Packet) /\ Len(inep) <= 1
    BY DEF EndpointOK
  <2>2. usbtxq \in Seq(TxP!Packet) /\ Len(usbtxq) <= USB_TXQ_CAP /\ currtxbuf \in TxP!Packet
    BY DEF TxP!IInv, TxP!TypeOK
  <2>3. Len(inep) \in Nat /\ Len(usbtxq) \in Nat
    BY <2>1, <2>2
  <2>4. Len(inep) \in 0 .. 1
    <3>1. ASSUME NEW n \in Nat, n <= 1 PROVE n \in 0 .. 1
      BY <3>1
    <3> QED
      BY <2>1, <2>3, <3>1
  <2> QED
    BY <2>1, <2>2, <2>3, <2>4
<1>2. Popped \in Seq(TxP!Packet) /\ Len(Popped) \in 0 .. 1
  <2>1. <<>> \in Seq(TxP!Packet) /\ <<currtxbuf>> \in Seq(TxP!Packet)
    BY <1>1
  <2>2. Len(<<>>) = 0 /\ Len(<<currtxbuf>>) = 1
    OBVIOUS
  <2> QED
    BY <2>1, <2>2 DEF Popped
<1>3. Bulk = TxP!Joined(inep, Popped, usbtxq)
  BY DEF Bulk, Popped, TxP!Joined
<1> DEFINE both == inep \o Popped
<1>4. both \in Seq(TxP!Packet) /\ Len(both) = Len(inep) + Len(Popped)
  BY <1>1, <1>2
<1> HIDE DEF both
<1>5. both \o usbtxq \in Seq(TxP!Packet) /\ Len(both \o usbtxq) = Len(both) + Len(usbtxq)
  BY <1>1, <1>4
<1>6. Bulk = both \o usbtxq
  BY DEF Bulk, Popped, both
<1>7. Len(Bulk) \in Nat /\ Len(Bulk) <= 2 + USB_TXQ_CAP
  <2>1. USB_TXQ_CAP \in Nat
    BY FirmwareAssumption
  <2>2. Len(Bulk) = Len(inep) + Len(Popped) + Len(usbtxq)
    BY <1>4, <1>5, <1>6
  <2>3. ASSUME NEW i \in 0 .. 1, NEW j \in 0 .. 1, NEW k \in Nat, k <= USB_TXQ_CAP
        PROVE  i + j + k \in Nat /\ i + j + k <= 2 + USB_TXQ_CAP
    BY <2>1, <2>3
  <2> QED
    BY <1>1, <1>2, <2>2, <2>3
<1> QED
  BY <1>1, <1>2, <1>3, <1>5, <1>6, <1>7

\* run_loop moves packets on, and loses none: popped, offered or refused.
LEMMA RunLoopBulk ==
  ASSUME LoopOrder, CtlHarmless, EndpointOK, TxP!IInv, NEW incoming, RunLoop(incoming)
  PROVE  Bulk' = Bulk /\ EndpointOK' /\ resets' = resets
<1>1. ~Usb!Panics(ctl)
  BY DEF Usb!Panics, CtlHarmless
<1>2. resets' = resets /\ (UNCHANGED <<inep, msghandled, currtxbuf, usbtxq>> \/ Usb!WriteSide)
  BY <1>1 DEF RunLoop, Usb!RunLoop, Usb!hostvars, Usb!SendNotification, Usb!ProcessUsb
<1>3. /\ Bulk = TxP!Joined(inep, Popped, usbtxq)
      /\ Bulk' = TxP!Joined(inep', Popped', usbtxq')
  BY DEF Bulk, Popped, TxP!Joined
<1>4. CASE UNCHANGED <<inep, msghandled, currtxbuf, usbtxq>>
  BY <1>2, <1>4 DEF Bulk, EndpointOK
<1>5. CASE Usb!WriteSide
  <2>1. CASE msghandled /\ usbtxq # <<>>
    <3>1. /\ usbtxq' = Tail(usbtxq) /\ Popped = <<>> /\ Popped' = <<Head(usbtxq)>>
          /\ inep' = inep /\ msghandled' = FALSE
      BY <1>5, <2>1 DEF Usb!WriteSide, Usb!TakeNext, Popped
    <3>2. TxP!Joined(inep, <<Head(usbtxq)>>, Tail(usbtxq)) = TxP!Joined(inep, <<>>, usbtxq)
      BY <2>1, BulkType, TxSizes, TxP!JoinTaken
    <3> QED
      BY <1>2, <1>3, <3>1, <3>2 DEF EndpointOK
  <2>2. CASE ~msghandled /\ Usb!CanWrite(inep)
    <3>1. /\ inep = <<>> /\ inep' = <<currtxbuf>> /\ Popped = <<currtxbuf>> /\ Popped' = <<>>
          /\ usbtxq' = usbtxq /\ msghandled' = TRUE
      BY <1>5, <2>2 DEF Usb!WriteSide, Usb!Offer, Usb!CanWrite, Popped
    <3>2. TxP!Joined(<<currtxbuf>>, <<>>, usbtxq) = TxP!Joined(<<>>, <<currtxbuf>>, usbtxq)
      <4>1. <<currtxbuf>> \o <<>> = <<currtxbuf>> /\ <<>> \o <<currtxbuf>> = <<currtxbuf>>
        OBVIOUS
      <4> QED
        BY <4>1 DEF TxP!Joined
    <3>3. inep' \in Seq(TxP!Packet) /\ Len(inep') <= 1
      BY <3>1, BulkType
    <3> QED
      BY <1>2, <1>3, <3>1, <3>2, <3>3 DEF EndpointOK
  <2>3. CASE UNCHANGED <<inep, msghandled, currtxbuf, usbtxq>>
    BY <1>4, <2>3
  <2> QED
    BY <1>5, <2>1, <2>2, <2>3 DEF Usb!WriteSide, Usb!Offer, EndpointOK
<1> QED
  BY <1>2, <1>4, <1>5

\* The host reads the packet in the endpoint.
LEMMA HostReadsBulk ==
  ASSUME EndpointOK, TxP!IInv, Usb!HostReadsIn, UNCHANGED txvars
  PROVE  /\ Bulk # <<>> /\ Bulk' = Tail(Bulk) /\ EndpointOK' /\ resets' = resets
         /\ inep # <<>> /\ inep' = <<>>
<1>1. /\ inep # <<>> /\ inep' = <<>> /\ resets' = resets /\ msghandled' = msghandled
      /\ usbtxq' = usbtxq /\ Popped' = Popped
  <2>1. inep # <<>> /\ inep' = <<>> /\ resets' = resets
    BY DEF Usb!HostReadsIn, Usb!hostvars, Usb!usbvars
  <2>2. msghandled' = msghandled /\ usbtxq' = usbtxq /\ currtxbuf' = currtxbuf
    BY DEF Usb!HostReadsIn, Usb!usbvars
  <2> QED
    BY <2>1, <2>2 DEF Popped
<1>2. PICK p \in TxP!Packet : inep = <<p>>
  <2>1. Len(inep) = 1 /\ inep[1] \in TxP!Packet
    BY <1>1 DEF EndpointOK
  <2>2. inep = <<inep[1]>>
    BY <2>1 DEF EndpointOK
  <2> QED
    BY <2>1, <2>2
<1>3. Popped \in Seq(TxP!Packet) /\ usbtxq \in Seq(TxP!Packet) /\ <<>> \in Seq(TxP!Packet)
  BY BulkType
<1>4. /\ TxP!Joined(<<p>> \o <<>>, Popped, usbtxq) # <<>>
      /\ Tail(TxP!Joined(<<p>> \o <<>>, Popped, usbtxq)) = TxP!Joined(<<>>, Popped, usbtxq)
  <2>1. ASSUME NEW a \in Seq(TxP!Packet), NEW b \in Seq(TxP!Packet), NEW c \in Seq(TxP!Packet)
        PROVE  /\ TxP!Joined(<<p>> \o a, b, c) # <<>>
               /\ Tail(TxP!Joined(<<p>> \o a, b, c)) = TxP!Joined(a, b, c)
    BY <2>1, TxSizes, TxP!JoinPopped
  <2> QED
    BY <1>3, <2>1
<1>5. <<p>> \o <<>> = <<p>>
  OBVIOUS
<1>6. /\ Bulk = TxP!Joined(<<p>>, Popped, usbtxq)
      /\ Bulk' = TxP!Joined(<<>>, Popped, usbtxq)
  BY <1>1, <1>2 DEF Bulk, Popped, TxP!Joined
<1>7. EndpointOK'
  <2>1. <<>> \in Seq(TxP!Packet) /\ Len(<<>>) <= 1
    OBVIOUS
  <2> QED
    BY <1>1, <2>1 DEF EndpointOK
<1> QED
  BY <1>1, <1>4, <1>5, <1>6, <1>7

\* process_messages pushes at the end.
LEMMA PushBulk ==
  ASSUME EndpointOK, TxP!IInv, NEW p \in TxP!Packet,
         usbtxq' = Append(usbtxq, p), UNCHANGED <<inep, msghandled, currtxbuf>>
  PROVE  Bulk' = Append(Bulk, p)
<1>1. Popped' = Popped
  BY DEF Popped
<1>2. /\ Bulk = TxP!Joined(inep, Popped, usbtxq)
      /\ Bulk' = TxP!Joined(inep, Popped, Append(usbtxq, p))
  BY <1>1 DEF Bulk, Popped, TxP!Joined
<1>3. inep \in Seq(TxP!Packet) /\ Popped \in Seq(TxP!Packet) /\ usbtxq \in Seq(TxP!Packet)
  BY BulkType
<1>4. ASSUME NEW a \in Seq(TxP!Packet), NEW b \in Seq(TxP!Packet), NEW c \in Seq(TxP!Packet)
      PROVE  TxP!Joined(a, b, Append(c, p)) = Append(TxP!Joined(a, b, c), p)
  BY <1>4, TxSizes, TxP!JoinAppend
<1> QED
  BY <1>2, <1>3, <1>4, Zenon

\* The frames under way to the host, on a bus that was never reset.
Carried == TxP!Joined(TxP!FramesOn(Bulk), TxP!BeingCut, ethtxq)

\* They are what ToHost says, before and after a step.
LEMMA ToHostIs ==
  /\ ToHost = IF resets > 0 THEN <<>> ELSE Carried
  /\ ToHost' = IF resets' > 0 THEN <<>> ELSE Carried'
<1>1. ASSUME NEW packets PROVE Tx!FramesOn(packets) = TxP!FramesOn(packets)
  BY DEF Tx!FramesOn, TxP!FramesOn, Tx!LastData, TxP!LastData, Tx!EndsBlock, TxP!EndsBlock
<1>2. ToHost = IF resets > 0 THEN <<>> ELSE Carried
  BY <1>1, Zenon DEF ToHost, Carried, TxP!Joined, TxP!BeingCut
<1>3. ToHost' = IF resets' > 0 THEN <<>> ELSE Carried'
  BY <1>1, Zenon DEF ToHost, Carried, TxP!Joined, TxP!BeingCut
<1> QED
  BY <1>2, <1>3

\* The parts of Carried are lengths.
LEMMA CarriedType ==
  ASSUME EndpointOK, TxP!IInv
  PROVE  /\ TxP!FramesOn(Bulk) \in Seq(TxP!Lengths)
         /\ Len(TxP!FramesOn(Bulk)) \in Nat
         /\ Len(TxP!FramesOn(Bulk)) <= 2 + USB_TXQ_CAP
         /\ TxP!BeingCut \in Seq(TxP!Lengths) /\ ethtxq \in Seq(TxP!Lengths)
         /\ Carried \in Seq(TxP!Lengths) /\ Len(Carried) \in Nat
<1>1. Bulk \in Seq(TxP!Packet) /\ Len(Bulk) \in Nat /\ Len(Bulk) <= 2 + USB_TXQ_CAP
  BY BulkType
<1>2. /\ TxP!FramesOn(Bulk) \in Seq(TxP!Lengths)
      /\ Len(TxP!FramesOn(Bulk)) \in Nat /\ Len(TxP!FramesOn(Bulk)) <= Len(Bulk)
  BY <1>1, TxSizes, TxP!FramesOnType
<1>3. Len(TxP!FramesOn(Bulk)) <= 2 + USB_TXQ_CAP
  <2>1. USB_TXQ_CAP \in Nat
    BY FirmwareAssumption
  <2>2. ASSUME NEW i \in Nat, NEW j \in Nat, i <= j, j <= 2 + USB_TXQ_CAP
        PROVE  i <= 2 + USB_TXQ_CAP
    BY <2>1, <2>2
  <2> QED
    BY <1>1, <1>2, <2>2
<1>4. TxP!BeingCut \in Seq(TxP!Lengths) /\ ethtxq \in Seq(TxP!Lengths)
  BY TxSizes, TxP!PartsType
<1>5. Carried \in Seq(TxP!Lengths)
  BY <1>2, <1>4 DEF Carried, TxP!Joined
<1>6. Len(Carried) \in Nat
  BY <1>5
<1> QED
  BY <1>2, <1>3, <1>4, <1>5, <1>6

\* What nothing but the host and the bus touches.
LEMMA SameCarried ==
  ASSUME Bulk' = Bulk, TxP!BeingCut' = TxP!BeingCut, ethtxq' = ethtxq
  PROVE  Carried' = Carried
  BY DEF Carried, TxP!Joined

\* process_messages cuts a frame up and pushes it: the same frames are under way.
LEMMA ProcessTxCarried ==
  ASSUME EndpointOK, TxP!IInv, ProcessTx
  PROVE  Carried' = Carried /\ EndpointOK'
<1>1. UNCHANGED <<inep, msghandled, resets>>
  BY DEF ProcessTx, busvars
<1>2. EndpointOK'
  BY <1>1 DEF EndpointOK
<1>3. /\ Carried = TxP!Joined(TxP!FramesOn(Bulk), TxP!BeingCut, ethtxq)
      /\ Carried' = TxP!Joined(TxP!FramesOn(Bulk'), TxP!BeingCut', ethtxq')
  BY DEF Carried, TxP!Joined
<1>4. CASE Tx!ProcessTx
  <2>1. TxP!ProcessTx
    BY <1>4, SameProcessTx
  <2>2. UNCHANGED currtxbuf
    BY <1>4 DEF Tx!ProcessTx, Tx!TxReady, Tx!TxHeader, Tx!TxSending, Tx!TxZlp
  <2>3. \/ usbtxq' = usbtxq /\ TxP!SameFrames
        \/ \E p \in TxP!Packet : usbtxq' = Append(usbtxq, p) /\ TxP!SameFramesWith(p)
    BY <2>1, TxSizes, TxP!ProcessTxFrames
  <2>4. CASE usbtxq' = usbtxq /\ TxP!SameFrames
    <3>1. Bulk' = Bulk
      BY <1>1, <2>2, <2>4 DEF Bulk
    <3> QED
      BY <1>2, <1>3, <2>4, <3>1, CarriedType DEF TxP!SameFrames
  <2>5. ASSUME NEW p \in TxP!Packet, usbtxq' = Append(usbtxq, p), TxP!SameFramesWith(p)
        PROVE  Carried' = Carried
    <3>1. Bulk' = Append(Bulk, p)
      BY <1>1, <2>2, <2>5, PushBulk
    <3>2. TxP!FramesOn(Append(Bulk, p)) = TxP!Extended(TxP!FramesOn(Bulk), p)
      BY BulkType, TxSizes, TxP!FramesOnAppend
    <3>3. TxP!Joined(TxP!Extended(TxP!FramesOn(Bulk), p), TxP!BeingCut', ethtxq')
            = TxP!Joined(TxP!FramesOn(Bulk), TxP!BeingCut, ethtxq)
      BY <2>5, CarriedType DEF TxP!SameFramesWith
    <3> QED
      BY <1>3, <3>1, <3>2, <3>3
  <2> QED
    BY <1>2, <2>3, <2>4, <2>5
<1>5. CASE Tx!TxIdle /\ UNCHANGED <<txvars, usbtxq, currtxbuf, panicked>>
  <2>1. Bulk' = Bulk
    BY <1>1, <1>5 DEF Bulk
  <2>2. TxP!BeingCut' = TxP!BeingCut /\ ethtxq' = ethtxq
    BY <1>5 DEF TxP!BeingCut, txvars
  <2> QED
    BY <1>2, <2>1, <2>2, SameCarried
<1> QED
  BY <1>4, <1>5 DEF ProcessTx

\* The IP stack adds a frame at the end, or is refused.
LEMMA EthEgressCarried ==
  ASSUME EndpointOK, TxP!IInv, EthEgress
  PROVE  /\ EndpointOK' /\ resets' = resets
         /\ \/ Carried' = Carried
            \/ \E len \in FrameLens :
                 /\ Carried' = Append(Carried, len)
                 /\ Len(Carried) < ETH_TXQ_CAP + 1 + USB_TXQ_CAP + 2
<1>1. PICK len \in FrameLens : Tx!ConsumeTxToken(len)
  BY DEF EthEgress
<1>2. TxP!ConsumeTxToken(len)
  BY <1>1 DEF Tx!ConsumeTxToken, TxP!ConsumeTxToken
<1>3. UNCHANGED <<inep, msghandled, resets, usbtxq, currtxbuf>>
  BY <1>1 DEF EthEgress, busvars, Tx!ConsumeTxToken
<1>4. EndpointOK' /\ Bulk' = Bulk
  BY <1>3 DEF EndpointOK, Bulk
<1> DEFINE a == TxP!FramesOn(Bulk)
<1>5. /\ Carried = TxP!Joined(TxP!FramesOn(Bulk), TxP!BeingCut, ethtxq)
      /\ Carried' = TxP!Joined(TxP!FramesOn(Bulk), TxP!BeingCut', ethtxq')
  BY <1>4 DEF Carried, TxP!Joined
<1>6. a \in Seq(TxP!Lengths) /\ Len(a) \in Nat /\ Len(a) <= 2 + USB_TXQ_CAP
      /\ Len(Carried) \in Nat
  BY CarriedType
<1> HIDE DEF a
<1>7. \/ TxP!Joined(a, TxP!BeingCut', ethtxq') = TxP!Joined(a, TxP!BeingCut, ethtxq)
      \/ /\ TxP!Joined(a, TxP!BeingCut', ethtxq')
              = Append(TxP!Joined(a, TxP!BeingCut, ethtxq), len)
         /\ Len(TxP!Joined(a, TxP!BeingCut, ethtxq)) < Len(a) + 1 + ETH_TXQ_CAP
  BY <1>2, <1>6, TxSizes, TxP!ConsumeTxTokenFrames
<1>8. \/ Carried' = Carried
      \/ Carried' = Append(Carried, len) /\ Len(Carried) < Len(a) + 1 + ETH_TXQ_CAP
  BY <1>5, <1>7, Zenon DEF a
<1>9. ASSUME Len(Carried) < Len(a) + 1 + ETH_TXQ_CAP
      PROVE  Len(Carried) < ETH_TXQ_CAP + 1 + USB_TXQ_CAP + 2
  <2>1. USB_TXQ_CAP \in Nat /\ ETH_TXQ_CAP \in Nat
    BY FirmwareAssumption
  <2>2. ASSUME NEW i \in Nat, NEW j \in Nat, i <= 2 + USB_TXQ_CAP, j < i + 1 + ETH_TXQ_CAP
        PROVE  j < ETH_TXQ_CAP + 1 + USB_TXQ_CAP + 2
    BY <2>1, <2>2
  <2> QED
    BY <1>6, <1>9, <2>2
<1> QED
  BY <1>3, <1>4, <1>8, <1>9

\* The invariant of this direction.
ToHostInv == IInv /\ EndpointOK

\* What a step may do to the frames under way to the host.
LEMMA ToHostStep ==
  ASSUME Rx!SafeHost, ToHostInv, [Next]_vars
  PROVE  /\ ToHostInv'
         /\ \/ ToHost' = ToHost /\ resets' = resets
            \/ /\ resets' = resets
               /\ \E len \in FrameLens :
                    /\ resets = 0 /\ ToHost' = Append(ToHost, len)
                    /\ Len(ToHost) < ETH_TXQ_CAP + 1 + USB_TXQ_CAP + 2
            \/ /\ resets' = resets /\ ToHost # <<>> /\ ToHost' = Tail(ToHost)
               /\ inep # <<>> /\ inep' = <<>>
            \/ resets' = resets + 1 /\ ToHost' = <<>>
<1>1. IInv'
  BY NextStep DEF ToHostInv
<1>2. LoopOrder /\ CtlHarmless /\ TxP!IInv /\ EndpointOK /\ resets \in Nat
  BY DEF ToHostInv, IInv, EndpointOK
<1>3. /\ ToHost = IF resets > 0 THEN <<>> ELSE Carried
      /\ ToHost' = IF resets' > 0 THEN <<>> ELSE Carried'
  BY ToHostIs
<1>4. ASSUME Carried' = Carried, EndpointOK', resets' = resets
      PROVE  EndpointOK' /\ ToHost' = ToHost /\ resets' = resets
  BY <1>3, <1>4
<1>5. CASE ~panicked /\ (NoPacket \/ NewTransfer \/ TransferGoesOn)
  <2>1. PICK incoming : RunLoop(incoming)
    BY <1>5 DEF NoPacket, NewTransfer, TransferGoesOn
  <2>2. Bulk' = Bulk /\ EndpointOK' /\ resets' = resets
    BY <1>2, <2>1, RunLoopBulk
  <2>3. TxP!BeingCut' = TxP!BeingCut /\ ethtxq' = ethtxq
    BY <2>1 DEF RunLoop, txvars, TxP!BeingCut
  <2>4. Carried' = Carried
    BY <2>2, <2>3, SameCarried
  <2> QED
    BY <1>1, <1>4, <2>2, <2>4 DEF ToHostInv
<1>6. CASE ProcessTx
  <2>1. Carried' = Carried /\ EndpointOK' /\ resets' = resets
    BY <1>2, <1>6, ProcessTxCarried DEF ProcessTx, busvars
  <2> QED
    BY <1>1, <1>4, <2>1 DEF ToHostInv
<1>7. CASE ProcessRx \/ Deliver \/ EthIngress \/ EthDone \/ UNCHANGED vars
  <2>1. UNCHANGED <<inep, msghandled, currtxbuf, usbtxq, resets>> /\ UNCHANGED txvars
    BY <1>7 DEF ProcessRx, Deliver, EthIngress, EthDone, vars, usbvars, busvars
  <2>2. Bulk' = Bulk /\ EndpointOK'
    BY <1>2, <2>1 DEF Bulk, EndpointOK
  <2>3. TxP!BeingCut' = TxP!BeingCut /\ ethtxq' = ethtxq
    BY <2>1 DEF txvars, TxP!BeingCut
  <2>4. Carried' = Carried
    BY <2>2, <2>3, SameCarried
  <2> QED
    BY <1>1, <1>4, <2>1, <2>2, <2>4 DEF ToHostInv
<1>8. CASE EthEgress
  <2>1. /\ EndpointOK' /\ resets' = resets
        /\ \/ Carried' = Carried
           \/ \E len \in FrameLens :
                /\ Carried' = Append(Carried, len)
                /\ Len(Carried) < ETH_TXQ_CAP + 1 + USB_TXQ_CAP + 2
    BY <1>2, <1>8, EthEgressCarried
  <2>2. CASE Carried' = Carried
    BY <1>1, <1>4, <2>1, <2>2 DEF ToHostInv
  <2>3. CASE resets > 0
    BY <1>1, <1>3, <2>1, <2>3 DEF ToHostInv
  <2>4. CASE resets = 0 /\ Carried' # Carried
    BY <1>1, <1>3, <2>1, <2>4 DEF ToHostInv
  <2> QED
    BY <1>2, <2>2, <2>3, <2>4
<1>9. CASE HostPolls /\ Usb!HostReadsIn
  <2>1. /\ Bulk # <<>> /\ Bulk' = Tail(Bulk) /\ EndpointOK' /\ resets' = resets
        /\ inep # <<>> /\ inep' = <<>> /\ UNCHANGED txvars
    BY <1>2, <1>9, HostReadsBulk DEF HostPolls
  <2>2. /\ Carried = TxP!Joined(TxP!FramesOn(Bulk), TxP!BeingCut, ethtxq)
        /\ Carried' = TxP!Joined(TxP!FramesOn(Tail(Bulk)), TxP!BeingCut, ethtxq)
    BY <2>1 DEF Carried, TxP!Joined, TxP!BeingCut, txvars
  <2>3. \/ Carried' = Carried
        \/ Carried # <<>> /\ Carried' = Tail(Carried)
    <3>1. Bulk \in Seq(TxP!Packet) /\ Bulk # <<>>
          /\ TxP!BeingCut \in Seq(TxP!Lengths) /\ ethtxq \in Seq(TxP!Lengths)
      BY <1>2, <2>1, BulkType, CarriedType
    <3>2. \/ TxP!Joined(TxP!FramesOn(Tail(Bulk)), TxP!BeingCut, ethtxq)
               = TxP!Joined(TxP!FramesOn(Bulk), TxP!BeingCut, ethtxq)
          \/ /\ TxP!Joined(TxP!FramesOn(Bulk), TxP!BeingCut, ethtxq) # <<>>
             /\ TxP!Joined(TxP!FramesOn(Tail(Bulk)), TxP!BeingCut, ethtxq)
                  = Tail(TxP!Joined(TxP!FramesOn(Bulk), TxP!BeingCut, ethtxq))
      BY <3>1, TxSizes, TxP!PopFrames
    <3> QED
      BY <2>2, <3>2
  <2>4. CASE Carried' = Carried
    BY <1>1, <1>4, <2>1, <2>4 DEF ToHostInv
  <2>5. CASE resets > 0
    BY <1>1, <1>3, <2>1, <2>5 DEF ToHostInv
  <2>6. CASE resets = 0 /\ Carried # <<>> /\ Carried' = Tail(Carried)
    BY <1>1, <1>3, <2>1, <2>6 DEF ToHostInv
  <2> QED
    BY <1>2, <2>3, <2>4, <2>5, <2>6
<1>10. CASE HostPolls /\ ~Usb!HostReadsIn
  <2>1. UNCHANGED <<inep, msghandled, currtxbuf, usbtxq, resets>> /\ UNCHANGED txvars
    BY <1>10 DEF HostPolls, Usb!HostConfigures, Usb!HostRequests, Usb!HostReadsNotification,
                 Usb!usbvars, Usb!hostvars
  <2>2. Bulk' = Bulk /\ EndpointOK'
    BY <1>2, <2>1 DEF Bulk, EndpointOK
  <2>3. TxP!BeingCut' = TxP!BeingCut /\ ethtxq' = ethtxq
    BY <2>1 DEF txvars, TxP!BeingCut
  <2>4. Carried' = Carried
    BY <2>2, <2>3, SameCarried
  <2> QED
    BY <1>1, <1>4, <2>1, <2>2, <2>4 DEF ToHostInv
<1>11. CASE BusReset
  <2>1. inep' = <<>> /\ resets' = resets + 1 /\ msghandled' = msghandled
    BY <1>11 DEF BusReset, Usb!BusReset, Usb!usbvars
  <2>2. EndpointOK'
    <3>1. <<>> \in Seq(TxP!Packet) /\ Len(<<>>) <= 1
      OBVIOUS
    <3> QED
      BY <1>2, <2>1, <3>1 DEF EndpointOK
  <2>3. ToHost' = <<>>
    BY <1>2, <1>3, <2>1
  <2> QED
    BY <1>1, <2>1, <2>2, <2>3 DEF ToHostInv
<1> QED
  BY <1>5, <1>6, <1>7, <1>8, <1>9, <1>10, <1>11 DEF Next, MainLoop

\* A frame leaves only when the host reads its last packet, or with all in a reset.
LEMMA ToHostHanded ==
  ASSUME Rx!SafeHost, ToHostInv, [Next]_vars
  PROVE  Len(ToHost') < Len(ToHost) => (inep # <<>> /\ inep' = <<>>) \/ resets' > resets
<1>1. Len(ToHost) \in Nat
  <2>1. Len(Carried) \in Nat /\ Len(<<>>) = 0
    BY CarriedType DEF ToHostInv, IInv
  <2> QED
    BY <2>1, ToHostIs
<1>2. resets \in Nat
  BY DEF ToHostInv, EndpointOK
<1>3. CASE ToHost' = ToHost
  BY <1>1, <1>3
<1>4. ASSUME NEW len \in FrameLens, resets = 0, ToHost' = Append(ToHost, len)
      PROVE  ~(Len(ToHost') < Len(ToHost))
  <2>1. ToHost \in Seq(TxP!Lengths)
    BY <1>4, ToHostIs, CarriedType DEF ToHostInv, IInv
  <2>2. Len(ToHost') = Len(ToHost) + 1
    BY <1>4, <2>1
  <2> QED
    BY <1>1, <2>2
<1> QED
  BY <1>2, <1>3, <1>4, ToHostStep

\* A step of the firmware is a step of the abstract channel.
LEMMA ToHostChannelStep ==
  ASSUME Rx!SafeHost, ToHostInv, [Next]_vars
  PROVE  [ToHostChannel!Next]_(ToHostChannel!vars)
<1>1. resets \in Nat
  BY DEF ToHostInv, EndpointOK
<1>2. CASE ToHost' = ToHost /\ resets' = resets
  BY <1>2 DEF ToHostChannel!vars
<1>3. ASSUME NEW len \in FrameLens, resets' = resets, resets = 0,
             ToHost' = Append(ToHost, len),
             Len(ToHost) < ETH_TXQ_CAP + 1 + USB_TXQ_CAP + 2
      PROVE  ToHostChannel!Next
  <2>1. ToHostChannel!Accept(len)
    BY <1>3 DEF ToHostChannel!Accept
  <2> QED
    BY <2>1 DEF ToHostChannel!Next
<1>4. CASE resets' = resets /\ ToHost # <<>> /\ ToHost' = Tail(ToHost)
  BY <1>4 DEF ToHostChannel!Next, ToHostChannel!HandOver
<1>5. CASE resets' = resets + 1 /\ ToHost' = <<>>
  <2>1. CASE resets = 0
    BY <1>5, <2>1 DEF ToHostChannel!Next, ToHostChannel!Break
  <2>2. CASE resets > 0
    <3>1. ToHost = <<>>
      BY <2>2, ToHostIs
    <3>2. (resets' > 0) = (resets > 0)
      BY <1>1, <1>5, <2>2
    <3> QED
      BY <1>5, <3>1, <3>2 DEF ToHostChannel!vars
  <2> QED
    BY <1>1, <2>1, <2>2
<1> QED
  BY <1>2, <1>3, <1>4, <1>5, ToHostStep

\* In the beginning no packet waits and no frame is under way.
LEMMA InitToHost == Init => ToHostInv /\ ToHostChannel!Init
<1> SUFFICES ASSUME Init PROVE ToHostInv /\ ToHostChannel!Init
  OBVIOUS
<1>1. inep = <<>> /\ msghandled = TRUE /\ resets = 0 /\ usbtxq = <<>> /\ ethtxq = <<>>
      /\ txstate = "Ready"
  BY DEF Init, Usb!Init, Tx!Init
<1>2. EndpointOK
  <2>1. <<>> \in Seq(TxP!Packet) /\ Len(<<>>) <= 1
    OBVIOUS
  <2> QED
    BY <1>1, <2>1 DEF EndpointOK
<1>3. Bulk = <<>>
  BY <1>1 DEF Bulk
<1>4. TxP!FramesOn(<<>>) = <<>>
  BY TxSizes, TxP!FramesOnNothing
<1>5. TxP!BeingCut = <<>>
  BY <1>1 DEF TxP!BeingCut
<1>6. Carried = <<>>
  BY <1>1, <1>3, <1>4, <1>5 DEF Carried, TxP!Joined
<1> QED
  BY <1>1, <1>2, <1>6, InitIInv, ToHostIs DEF ToHostInv, ToHostChannel!Init

-----------------------------------------------------------------------------
(* From the host to the IP stack.                                          *)

\* The hosts for which no frame is lost in the receive half, and the invariant it
\* is proved with there.
OrdinaryHost == \A b \in HostBlocks : EP_DATA_BUF_SIZE < b.block /\ b.len <= MTU
ToStackInv == IInv /\ RxP!CInv

\* The frames under way are the same in both.
LEMMA SameInflight == Rx!Inflight = RxP!Inflight /\ Rx!Inflight' = RxP!Inflight'
<1>1. ASSUME NEW f PROVE Rx!Received(f) = RxP!Received(f)
  BY DEF Rx!Received, RxP!Received, Rx!Whole, RxP!Whole, Rx!ByteAt, RxP!ByteAt,
         Rx!FrameOf, RxP!FrameOf, Rx!Damaged, RxP!Damaged
<1>2. (Rx!Undelivered <=> RxP!Undelivered) /\ (Rx!Undelivered' <=> RxP!Undelivered')
  BY DEF Rx!Undelivered, RxP!Undelivered
<1>3. ASSUME NEW b PROVE Rx!FrameOf(b) = RxP!FrameOf(b)
  BY DEF Rx!FrameOf, RxP!FrameOf
<1>4. Rx!Inflight = RxP!Inflight
  BY <1>1, <1>2, <1>3 DEF Rx!Inflight, RxP!Inflight
<1>5. Rx!Inflight' = RxP!Inflight'
  BY <1>1, <1>2, <1>3 DEF Rx!Inflight, RxP!Inflight
<1> QED
  BY <1>4, <1>5

\* So is the abstract channel.
LEMMA SameChannel ==
  /\ RxP!Channel!Init => Rx!Channel!Init
  /\ [RxP!Channel!Next]_(RxP!Channel!vars) => [Rx!Channel!Next]_(Rx!Channel!vars)
<1>1. RxP!Channel!Init => Rx!Channel!Init
  BY SameInflight DEF Rx!Channel!Init, RxP!Channel!Init
<1>2. RxP!Channel!Next => Rx!Channel!Next
  BY SameInflight DEF Rx!Channel!Next, RxP!Channel!Next, Rx!Channel!Accept, RxP!Channel!Accept,
                      Rx!Channel!HandOver, RxP!Channel!HandOver, Rx!Channel!Break,
                      RxP!Channel!Break
<1>3. UNCHANGED RxP!Channel!vars => UNCHANGED Rx!Channel!vars
  BY SameInflight DEF Rx!Channel!vars, RxP!Channel!vars
<1> QED
  BY <1>1, <1>2, <1>3

\* A step of the firmware is a step of the receive half, and so of its channel.
LEMMA ToStackStep ==
  ASSUME Rx!SafeHost, OrdinaryHost, ToStackInv, [Next]_vars
  PROVE  /\ ToStackInv'
         /\ Len(Rx!Inflight') < Len(Rx!Inflight) =>
              Len(ethrxq') < Len(ethrxq) \/ tears' > tears
         /\ [Rx!Channel!Next]_(Rx!Channel!vars)
<1>1. IInv' /\ [RxP!Next]_(RxP!vars)
  BY NextStep, SameRx DEF ToStackInv
<1>2. RxP!OrdinaryHost
  BY DEF OrdinaryHost, RxP!OrdinaryHost
<1>3. RxP!CInv
  BY DEF ToStackInv
<1>4. RxP!CInv'
  BY <1>1, <1>2, <1>3, RxSizes, RxP!InflightStep
<1>5. Len(RxP!Inflight') < Len(RxP!Inflight) => Len(ethrxq') < Len(ethrxq) \/ tears' > tears
  BY <1>1, <1>2, <1>3, RxSizes, RxP!HandedStep
<1>6. [RxP!Channel!Next]_(RxP!Channel!vars)
  BY <1>1, <1>2, <1>3, RxSizes, RxP!ChannelStep
<1> QED
  BY <1>1, <1>4, <1>5, <1>6, SameInflight, SameChannel DEF ToStackInv

\* In the beginning no frame is under way.
LEMMA InitToStack == Init => ToStackInv /\ Rx!Channel!Init
<1> SUFFICES ASSUME Init PROVE ToStackInv /\ Rx!Channel!Init
  OBVIOUS
<1>1. RxP!Init
  BY SameRx DEF Init
<1>2. RxP!CInv
  BY <1>1, RxSizes, RxP!InitCInv
<1>3. RxP!Channel!Init
  BY <1>1, RxSizes, RxP!InitChannel
<1> QED
  BY <1>2, <1>3, InitIInv, SameChannel DEF ToStackInv

-----------------------------------------------------------------------------
(* The USB manager in the loop.                                            *)

\* The packets its rings see are those of the two halves.
UsbP == INSTANCE UsbIp_proofs
          WITH rxq <- usbrxq, txq <- usbtxq, Requests <- {},
               Packets <- TxP!Packet \cup RxP!Packet,
               InitialPacket <- Tx!PacketOf([seq |-> SEQ_MOD - 1, total |-> 0], 0, 0)

\* Its sizes are sizes it can be built with.
LEMMA UsbSizes ==
  /\ USB_TXQ_CAP \in Nat \ {0}
  /\ USB_RXQ_CAP \in Nat \ {0}
  /\ {} \subseteq UsbP!DriverRequests
  /\ MaxResets \in Nat
  BY FirmwareAssumption

\* run_loop is the same whatever a packet is.
LEMMA SameRunLoop == ASSUME NEW incoming, Usb!RunLoop(incoming) PROVE UsbP!RunLoop(incoming)
<1>1. Usb!Panics(ctl) <=> UsbP!Panics(ctl)
  BY DEF Usb!Panics, UsbP!Panics
<1>2. Usb!PollUsb => UsbP!PollUsb
  BY DEF Usb!PollUsb, UsbP!PollUsb, Usb!Serve, UsbP!Serve, Usb!Answer, UsbP!Answer,
         Usb!ctlvars, UsbP!ctlvars
<1>3. ASSUME NEW state, NEW msg, NEW next, Usb!SendNotification(state, msg, next)
      PROVE  UsbP!SendNotification(state, msg, next)
  BY <1>3 DEF Usb!SendNotification, UsbP!SendNotification, Usb!CanWrite, UsbP!CanWrite
<1>4. Usb!ProcessUsb(incoming) => UsbP!ProcessUsb(incoming)
  <2>1. Usb!ReadSide(incoming) => UsbP!ReadSide(incoming)
    BY DEF Usb!ReadSide, UsbP!ReadSide
  <2>2. Usb!WriteSide => UsbP!WriteSide
    BY DEF Usb!WriteSide, UsbP!WriteSide, Usb!TakeNext, UsbP!TakeNext, Usb!Offer, UsbP!Offer,
           Usb!CanWrite, UsbP!CanWrite
  <2> QED
    BY <2>1, <2>2 DEF Usb!ProcessUsb, UsbP!ProcessUsb
<1>5. Usb!usbvars = UsbP!usbvars /\ (UNCHANGED Usb!usbvars => UNCHANGED UsbP!usbvars)
  BY DEF Usb!usbvars, UsbP!usbvars
<1>6. (UNCHANGED Usb!ctlvars => UNCHANGED UsbP!ctlvars)
      /\ (UNCHANGED Usb!hostvars => UNCHANGED UsbP!hostvars)
  BY DEF Usb!ctlvars, UsbP!ctlvars, Usb!hostvars, UsbP!hostvars
<1> QED
  BY <1>1, <1>2, <1>3, <1>4, <1>5, <1>6 DEF Usb!RunLoop, UsbP!RunLoop

\* So are the host and the bus.
LEMMA SameBus ==
  /\ HostPolls => UsbP!Host
  /\ BusReset => UsbP!Host
<1> USE DEF Usb!usbvars, UsbP!usbvars, Usb!ctlvars, UsbP!ctlvars, Usb!hostvars, UsbP!hostvars
<1>1. Usb!HostConfigures => UsbP!HostConfigures
  BY DEF Usb!HostConfigures, UsbP!HostConfigures, Usb!HostRequests, UsbP!HostRequests
<1>2. Usb!HostReadsIn => UsbP!HostReadsIn
  BY DEF Usb!HostReadsIn, UsbP!HostReadsIn
<1>3. Usb!HostReadsNotification => UsbP!HostReadsNotification
  BY DEF Usb!HostReadsNotification, UsbP!HostReadsNotification
<1>4. Usb!BusReset => UsbP!BusReset
  BY DEF Usb!BusReset, UsbP!BusReset
<1> QED
  BY <1>1, <1>2, <1>3, <1>4 DEF HostPolls, BusReset, UsbP!Host

\* A packet read from the endpoint is one of the host's.
LEMMA IncomingType ==
  ASSUME LoopOrder, CtlHarmless, RxP!IInv', NEW p, RunLoop(<<p>>)
  PROVE  p \in RxP!Packet
<1>1. usbrxq = <<>> /\ usbrxq' = Append(usbrxq, p)
  BY RunLoopEffect DEF RunLoop, LoopOrder
<1>2. usbrxq' = <<p>>
  <2>1. Append(<<>>, p) = <<p>>
    OBVIOUS
  <2> QED
    BY <1>1, <2>1
<1>3. usbrxq' \in Seq(RxP!Packet)
  BY DEF RxP!IInv, RxP!TypeOK
<1> QED
  BY <1>2, <1>3

\* process_messages pushes one packet with room for it, or none.
LEMMA ProcessTxUsb ==
  ASSUME TxP!IInv, TxP!IInv', ProcessTx, panicked' = panicked
  PROVE  [UsbP!Next]_(UsbP!vars)
<1> USE DEF UsbP!vars, UsbP!usbvars, UsbP!ctlvars, UsbP!hostvars
<1>1. UNCHANGED <<bootstate, usbrxq, msghandled, inep, nedep, ctl, answer, configured, link, resets>>
  BY DEF ProcessTx, busvars
<1>2. CASE Tx!ProcessTx
  <2>1. UNCHANGED currtxbuf
    BY <1>2 DEF Tx!ProcessTx, Tx!TxReady, Tx!TxHeader, Tx!TxSending, Tx!TxZlp
  <2>2. usbtxq' = usbtxq \/ \E p \in TxP!Packet : usbtxq' = Append(usbtxq, p)
    BY <1>2, SameProcessTx, TxSizes, TxP!ProcessTxFrames
  <2>3. CASE usbtxq' = usbtxq
    BY <1>1, <2>1, <2>3
  <2>4. ASSUME NEW p \in TxP!Packet, usbtxq' = Append(usbtxq, p) PROVE UsbP!PushTx(p)
    <3>1. usbtxq \in Seq(TxP!Packet) /\ Len(usbtxq') <= USB_TXQ_CAP
      BY DEF TxP!IInv, TxP!TypeOK
    <3>2. Len(usbtxq) \in Nat /\ Len(usbtxq') = Len(usbtxq) + 1
      BY <2>4, <3>1
    <3>3. Len(usbtxq) < USB_TXQ_CAP
      <4>1. ASSUME NEW n \in Nat, n + 1 <= USB_TXQ_CAP PROVE n < USB_TXQ_CAP
        BY <4>1, FirmwareAssumption
      <4> QED
        BY <3>1, <3>2, <4>1
    <3> QED
      BY <1>1, <2>1, <2>4, <3>3 DEF UsbP!PushTx
  <2> QED
    BY <2>2, <2>3, <2>4 DEF UsbP!Next
<1>3. CASE UNCHANGED <<txvars, usbtxq, currtxbuf, panicked>>
  BY <1>1, <1>3
<1> QED
  BY <1>2, <1>3 DEF ProcessTx

\* The receive loop takes the only packet of its ring.
LEMMA ProcessRxUsb ==
  ASSUME RxP!IInv, ProcessRx, panicked' = panicked
  PROVE  UsbP!DrainRx
<1>1. usbrxq # <<>> /\ usbrxq' = Tail(usbrxq)
  BY DEF ProcessRx, Rx!RxSkip, Rx!RxHeader, Rx!RxCopy
<1>2. usbrxq \in Seq(RxP!Packet) /\ Len(usbrxq) <= 1
  BY DEF RxP!IInv, RxP!TypeOK
<1>3. usbrxq' = <<>>
  BY <1>1, <1>2
<1> QED
  BY <1>1, <1>3 DEF ProcessRx, busvars, UsbP!DrainRx, UsbP!ctlvars, UsbP!hostvars

\* A step of the firmware is a step of the USB manager.
LEMMA UsbStep ==
  ASSUME Rx!SafeHost, IInv, [Next]_vars
  PROVE  [UsbP!Next]_(UsbP!vars)
<1>1. IInv' /\ panicked = FALSE /\ panicked' = FALSE
  <2>1. IInv'
    BY NextStep
  <2>2. panicked' = FALSE
    BY <2>1 DEF IInv, TxP!IInv, TxP!TypeOK, TxP!NoPanic
  <2> QED
    BY <2>1, <2>2, NoPanicInIInv DEF IInv
<1>2. LoopOrder /\ CtlHarmless /\ TxP!IInv /\ TxP!IInv' /\ RxP!IInv /\ RxP!IInv'
  BY <1>1 DEF IInv
<1>3. ASSUME NEW incoming \in UsbP!Incoming, RunLoop(incoming) PROVE UsbP!Next
  BY <1>3, SameRunLoop DEF RunLoop, UsbP!Next
<1>4. CASE NoPacket
  <2>1. <<>> \in UsbP!Incoming
    BY DEF UsbP!Incoming
  <2> QED
    BY <1>3, <1>4, <2>1 DEF NoPacket
<1>5. CASE NewTransfer \/ TransferGoesOn
  <2>1. PICK p : RunLoop(<<p>>)
    BY <1>5 DEF NewTransfer, TransferGoesOn
  <2>2. <<p>> \in UsbP!Incoming
    BY <1>2, <2>1, IncomingType DEF UsbP!Incoming
  <2> QED
    BY <1>3, <2>1, <2>2
<1>6. CASE ProcessTx
  BY <1>1, <1>2, <1>6, ProcessTxUsb
<1>7. CASE ProcessRx
  BY <1>1, <1>2, <1>7, ProcessRxUsb DEF UsbP!Next
<1>8. CASE Deliver \/ EthIngress \/ EthEgress \/ EthDone \/ UNCHANGED vars
  <2>1. UNCHANGED <<bootstate, usbtxq, currtxbuf, msghandled, inep, nedep>> /\ UNCHANGED busvars
    BY <1>8 DEF Deliver, EthIngress, EthEgress, EthDone, vars, usbvars, Tx!ConsumeTxToken
  <2>2. usbrxq' = usbrxq
    BY <1>8 DEF Deliver, EthIngress, EthEgress, EthDone, vars, usbvars, Rx!RxDeliver,
                Rx!ConsumeRxToken
  <2> QED
    BY <1>1, <2>1, <2>2 DEF busvars, UsbP!vars, UsbP!usbvars, UsbP!ctlvars, UsbP!hostvars
<1>9. CASE HostPolls \/ BusReset
  BY <1>9, SameBus DEF UsbP!Next
<1> QED
  BY <1>4, <1>5, <1>6, <1>7, <1>8, <1>9 DEF Next, MainLoop

-----------------------------------------------------------------------------
(* The theorems.                                                           *)

\* process_usb finds its receive ring empty, and the IP stack's too, for rings of
\* any size, also after resets, abandoned transfers and panics.
THEOREM RingsSuffice == Spec => []RingsEmptyAtUsb
<1>1. Init => LoopOrder
  BY DEF Init, LoopOrder, Rx!Init
<1>2. LoopOrder => RingsEmptyAtUsb
  BY DEF LoopOrder, RingsEmptyAtUsb
<1> QED
  BY <1>1, <1>2, NextLoopOrder, PTL DEF Spec

\* The environment NcmTx assumes is the one the loop, the USB manager and the IP
\* stack make: what is proved of the transmit half holds in the firmware.
THEOREM LoopRefinesNcmTx == ASSUME Rx!SafeHost PROVE Spec => RefinesNcmTx
<1>1. Init => Tx!Init
  BY DEF Init
<1>2. IInv /\ [Next]_vars => IInv' /\ [Tx!Next]_(Tx!vars)
  BY NextStep
<1> QED
  BY <1>1, <1>2, InitIInv, PTL DEF Spec, RefinesNcmTx, Tx!Spec

\* So is the one NcmRx assumes: a packet arrives only in an idle loop, and nothing
\* panics between the calls.
THEOREM LoopRefinesNcmRx == ASSUME Rx!SafeHost PROVE Spec => RefinesNcmRx
<1>1. Init => Rx!Init
  BY DEF Init
<1>2. IInv /\ [Next]_vars => IInv' /\ [Rx!Next]_(Rx!vars)
  BY NextStep
<1> QED
  BY <1>1, <1>2, InitIInv, PTL DEF Spec, RefinesNcmRx, Rx!Spec

\* The data path never panics, whatever the host abandons and the bus resets: the
\* calls of the loop give neither half what it cannot take.
THEOREM NeverPanics == ASSUME Rx!SafeHost PROVE Spec => []~panicked
<1>1. IInv => ~panicked
  BY NoPanicInIInv DEF IInv
<1>2. IInv /\ [Next]_vars => IInv'
  BY NextStep
<1> QED
  BY <1>1, <1>2, InitIInv, PTL DEF Spec

\* So is the one UsbIp assumes of both halves and of the host: packets of theirs, a
\* push only with room for it.  What is proved of the USB manager holds in the loop.
THEOREM LoopRefinesUsbIp == ASSUME Rx!SafeHost PROVE Spec => UsbP!Spec
<1>1. Init => UsbP!Init
  BY DEF Init, Usb!Init, UsbP!Init
<1>2. IInv /\ [Next]_vars => IInv' /\ [UsbP!Next]_(UsbP!vars)
  BY NextStep, UsbStep
<1> QED
  BY <1>1, <1>2, InitIInv, PTL DEF Spec, UsbP!Spec

\* What the parts promise in the environment their modules assume, they keep in the
\* loop: the packets in the transmit ring tile consecutive blocks, and a block of
\* several packets is delimited wrongly only where lengths disagree; no more damaged
\* frames are delivered than transfers were abandoned; a packet leaves the USB manager
\* only into the endpoint, and the speed of the link comes before the link.
THEOREM PartsKeepTheirPromises ==
  ASSUME Rx!SafeHost
  PROVE  Spec => /\ [](TxP!PacketStream /\ TxP!AgreedDelimited)
                 /\ []RxP!TornBound
                 /\ UsbP!NothingLost /\ UsbP!SpeedBeforeUp
<1>1. Spec => TxP!Spec
  <2>1. Spec => Tx!Spec
    BY LoopRefinesNcmTx DEF RefinesNcmTx
  <2> QED
    BY <2>1, SameTx, PTL DEF Tx!Spec, TxP!Spec
<1>2. Spec => RxP!Spec
  <2>1. Spec => Rx!Spec
    BY LoopRefinesNcmRx DEF RefinesNcmRx
  <2> QED
    BY <2>1, SameRx, PTL DEF Rx!Spec, RxP!Spec
<1>3. TxP!Spec => []TxP!PacketStream
  BY TxSizes, TxP!StreamIsTiled
<1>4. TxP!Spec => []TxP!AgreedDelimited
  BY TxSizes, TxP!OthersAreDelimited
<1>5. RxP!Spec => []RxP!TornBound
  BY RxSizes, RxP!DamageIsBounded
<1>6. UsbP!Spec => UsbP!NothingLost
  BY UsbSizes, UsbP!PacketsReachTheEndpoint
<1>7. UsbP!Spec => UsbP!SpeedBeforeUp
  BY UsbSizes, UsbP!SpeedFirst
<1> QED
  BY <1>1, <1>2, <1>3, <1>4, <1>5, <1>6, <1>7, LoopRefinesUsbIp, PTL

\* Whatever the host abandons and the bus resets, a frame the device accepted
\* leaves it only when the host reads its last packet or the IP stack takes it.
THEOREM NoFrameIsLost == ASSUME Rx!SafeHost, OrdinaryHost PROVE Spec => NothingLost
<1> DEFINE Handed ==
             /\ Len(ToHost') < Len(ToHost) => (inep # <<>> /\ inep' = <<>>) \/ resets' > resets
             /\ Len(Rx!Inflight') < Len(Rx!Inflight) =>
                  Len(ethrxq') < Len(ethrxq) \/ tears' > tears
           FInv == ToHostInv /\ ToStackInv
<1>1. Init => FInv
  BY InitToHost, InitToStack
<1>2. FInv /\ [Next]_vars => FInv' /\ [Handed]_vars
  BY ToHostStep, ToHostHanded, ToStackStep
<1> QED
  BY <1>1, <1>2, PTL DEF Spec, NothingLost

\* Step by step the path from the IP stack to the host is the abstract channel, until
\* the bus is reset: frames are accepted, and read by the host complete, once, in order.
THEOREM LoopRefinesToHostChannel == ASSUME Rx!SafeHost PROVE Spec => ToHostChannel!Spec
<1>1. Init => ToHostInv /\ ToHostChannel!Init
  BY InitToHost
<1>2. ToHostInv /\ [Next]_vars => ToHostInv' /\ [ToHostChannel!Next]_(ToHostChannel!vars)
  BY ToHostStep, ToHostChannelStep
<1> QED
  BY <1>1, <1>2, PTL DEF Spec, ToHostChannel!Spec

\* So is the path from the host to the IP stack, until the host abandons a transfer.
THEOREM LoopRefinesToStackChannel ==
  ASSUME Rx!SafeHost, OrdinaryHost PROVE Spec => Rx!Channel!Spec
<1>1. Init => ToStackInv /\ Rx!Channel!Init
  BY InitToStack
<1>2. ToStackInv /\ [Next]_vars => ToStackInv' /\ [Rx!Channel!Next]_(Rx!Channel!vars)
  BY ToStackStep
<1> QED
  BY <1>1, <1>2, PTL DEF Spec, Rx!Channel!Spec
=============================================================================
