------------------------------ MODULE Firmware ------------------------------
(***************************************************************************)
(* The main loop (main.rs) with everything it calls for the data path: one *)
(* iteration is run_loop of the USB manager, process_messages (transmit    *)
(* half, then the receive loop, then the delivery) and the poll of the IP  *)
(* stack.  Each component is the module that models it; what one component *)
(* assumed of its neighbours must now follow from the order of the calls.  *)
(***************************************************************************)
EXTENDS Integers, Sequences

CONSTANTS EP_DATA_BUF_SIZE, NTH_SIZE, NDP_SIZE, NCM_MAX_IN_SIZE, MTU,
          ETH_TXQ_CAP, ETH_RXQ_CAP, USB_TXQ_CAP, USB_RXQ_CAP,
          SEQ_MOD, FrameLens, HostBlocks, Garbled, Ids, MaxTears, MaxResets

TOTAL_HEADER_SIZE == NTH_SIZE + NDP_SIZE

\* The sizes the parts need of each other.
ASSUME FirmwareAssumption ==
    /\ EP_DATA_BUF_SIZE \in Nat /\ NTH_SIZE \in Nat \ {0} /\ NDP_SIZE \in Nat \ {0}
    /\ TOTAL_HEADER_SIZE <= EP_DATA_BUF_SIZE
    /\ NCM_MAX_IN_SIZE \in Nat /\ EP_DATA_BUF_SIZE <= NCM_MAX_IN_SIZE
    /\ MTU \in Nat /\ MTU <= NCM_MAX_IN_SIZE
    /\ {ETH_TXQ_CAP, ETH_RXQ_CAP, USB_TXQ_CAP, USB_RXQ_CAP, SEQ_MOD, Ids} \subseteq Nat \ {0}
    /\ {MaxTears, MaxResets} \subseteq Nat
    /\ FrameLens \subseteq Nat \ {0}
    /\ HostBlocks \subseteq [block : Nat, ndp : Nat, index : Nat, len : Nat]
    /\ Garbled \subseteq [index : Nat, len : Nat]
    /\ \A b \in HostBlocks : /\ b.block <= NCM_MAX_IN_SIZE
                             /\ NTH_SIZE <= b.ndp /\ b.ndp + NDP_SIZE <= b.block
                             /\ b.index + b.len <= b.block

VARIABLES \* StmPhy
          ethtxq, ethrxq,
          \* NcmApiManager, transmit
          txstate, datagrams, ncmmsgtxbuf, txtransactioncnt, usbmsgtotlen,
          currtxdatalen, sequence,
          \* NcmApiManager, receive
          rxstate, currheader, currcnt, rxbufready, ncmmsgrxbuf,
          \* UsbIpManager
          bootstate, usbrxq, usbtxq, currtxbuf, msghandled,
          \* endpoints, host and bus
          inep, nedep, ctl, answer, configured, link, resets,
          hostblock, hostoff, hostid, tears, torn,
          \* the main loop
          panicked,
          pc   \* the call the iteration is at

Tx == INSTANCE NcmTx WITH txq <- ethtxq, usbtxring <- usbtxq

Rx == INSTANCE NcmRx WITH usbrxring <- usbrxq

Usb == INSTANCE UsbIp
         WITH rxq <- usbrxq, txq <- usbtxq, Packets <- {}, Requests <- {},
              InitialPacket <- Tx!PacketOf([seq |-> SEQ_MOD - 1, total |-> 0], 0, 0)

txvars   == <<ethtxq, txstate, datagrams, ncmmsgtxbuf, txtransactioncnt,
              usbmsgtotlen, currtxdatalen, sequence>>
rxvars   == <<ethrxq, rxstate, currheader, currcnt, rxbufready, ncmmsgrxbuf, torn>>
usbvars  == <<bootstate, usbrxq, usbtxq, currtxbuf, msghandled, inep, nedep>>
busvars  == <<ctl, answer, configured, link, resets>>
hostvars == <<hostblock, hostoff, hostid, tears>>
vars     == <<txvars, rxvars, usbvars, busvars, hostvars, panicked, pc>>

Init == Tx!Init /\ Rx!Init /\ Usb!Init /\ pc = "usb"

-----------------------------------------------------------------------------
(* The main loop.                                                          *)

\* usbipmanager.run_loop(); read_packet gets a packet of the host or WouldBlock.
RunLoop(incoming) ==
    /\ pc = "usb"
    /\ Usb!RunLoop(incoming)
    /\ IF incoming = <<>> THEN UNCHANGED hostvars ELSE Rx!HostSent(Head(incoming))
    /\ pc' = "tx"
    /\ UNCHANGED <<txvars, rxvars>>

NoPacket         == RunLoop(<<>>)
NewTransfer      == Rx!HostDone  /\ \E p \in Rx!FirstPackets : RunLoop(<<p>>)
TransferGoesOn   == ~Rx!HostDone /\ RunLoop(<<Rx!NextPacket>>)

\* ncmapi.process_messages(..): the transmit half.
ProcessTx ==
    /\ pc = "tx"
    /\ Tx!ProcessTx \/ (Tx!TxIdle /\ UNCHANGED <<txvars, usbtxq, currtxbuf, panicked>>)
    /\ pc' = "rx"
    /\ UNCHANGED <<rxvars, bootstate, usbrxq, msghandled, inep, nedep, busvars, hostvars>>

\* The loop over usbrxring.try_iter().
ProcessRx ==
    /\ pc = "rx"
    /\ Rx!RxSkip \/ Rx!RxHeader \/ Rx!RxCopy
    /\ UNCHANGED <<txvars, bootstate, usbtxq, currtxbuf, msghandled, inep, nedep,
                   busvars, pc>>

\* After the loop.
Deliver ==
    /\ pc = "rx"
    /\ usbrxq = <<>>
    /\ IF rxbufready THEN Rx!RxDeliver ELSE UNCHANGED <<rxvars, usbrxq, hostvars, panicked>>
    /\ pc' = "eth"
    /\ UNCHANGED <<txvars, bootstate, usbtxq, currtxbuf, msghandled, inep, nedep, busvars>>

\* tcpserv.eth_task(..): iface.poll takes every received frame, and sends.
EthIngress ==
    /\ pc = "eth"
    /\ Rx!ConsumeRxToken
    /\ UNCHANGED <<txvars, bootstate, usbtxq, currtxbuf, msghandled, inep, nedep,
                   busvars, pc>>

EthEgress ==
    /\ pc = "eth"
    /\ \E len \in FrameLens : Tx!ConsumeTxToken(len)
    /\ UNCHANGED <<rxvars, bootstate, usbrxq, msghandled, inep, nedep, busvars,
                   hostvars, pc>>

\* Mutant: the poll may leave a received frame behind.
EthDoneEarly ==
    /\ pc = "eth"
    /\ pc' = "usb"
    /\ UNCHANGED <<txvars, rxvars, usbvars, busvars, hostvars, panicked>>

EthDone ==
    /\ pc = "eth"
    /\ ethrxq = <<>>
    /\ pc' = "usb"
    /\ UNCHANGED <<txvars, rxvars, usbvars, busvars, hostvars, panicked>>

MainLoop == /\ ~panicked
            /\ \/ NoPacket \/ NewTransfer \/ TransferGoesOn
               \/ ProcessTx \/ ProcessRx \/ Deliver
               \/ EthIngress \/ EthEgress \/ EthDone

-----------------------------------------------------------------------------
(* Host and bus.                                                           *)

HostPolls ==
    /\ Usb!HostConfigures \/ Usb!HostReadsIn \/ Usb!HostReadsNotification
    /\ UNCHANGED <<txvars, rxvars, hostvars, panicked, pc>>

\* A bus reset also ends the transfer the host was sending.
BusReset ==
    /\ Usb!BusReset
    /\ IF Rx!HostDone THEN UNCHANGED <<rxvars, usbrxq, hostvars, panicked>> ELSE Rx!HostAbandons
    /\ UNCHANGED <<txvars, panicked, pc>>

Next == MainLoop \/ HostPolls \/ BusReset

Spec == Init /\ [][Next]_vars

\* The loop never stops; the host polls, and ends the transfers it begins
\* (strong: the device looks for a packet in one step of each iteration only).
Fairness == /\ WF_vars(MainLoop)
            /\ WF_vars(HostPolls)
            /\ SF_vars(~panicked /\ TransferGoesOn)
FairSpec == Spec /\ Fairness

-----------------------------------------------------------------------------
(* Properties.                                                             *)

\* What NcmTx assumed of the IP stack and of process_usb holds in the loop.
RefinesNcmTx == Tx!Spec

\* What NcmRx assumed of the ring and of the IP stack holds in the loop.
RefinesNcmRx == Rx!Spec

\* process_usb always finds its receive ring empty: it never drops a packet by
\* flushing, and process_messages never finds the IP stack's ring full.
RingsEmptyAtUsb == pc = "usb" => usbrxq = <<>> /\ ethrxq = <<>> /\ ~rxbufready

\* Frames of the IP stack, from its ring to the host.
Bulk == inep \o (IF msghandled THEN <<>> ELSE <<currtxbuf>>) \o usbtxq
ToHost == IF resets > 0 THEN <<>> ELSE
    Tx!FramesOn(Bulk)
    \o (IF txstate \in {"Header", "Sending"} THEN <<currtxdatalen>> ELSE <<>>)
    \o ethtxq
ToHostChannel == INSTANCE FrameChannel
                   WITH Frames <- FrameLens,
                        Capacity <- ETH_TXQ_CAP + 1 + USB_TXQ_CAP + 2,
                        inflight <- ToHost, broken <- resets > 0

\* End to end, a frame accepted by the device's ring reaches the host.
DeliversToHost == ToHostChannel!FairSpec

\* End to end, a frame the host begins to send reaches the IP stack.
DeliversToStack == Rx!ImplementsChannel

\* In both, a frame leaves the device only when the host reads its last packet,
\* or the IP stack takes it.
NothingLost ==
    [][/\ Len(ToHost') < Len(ToHost) =>
            (inep # <<>> /\ inep' = <<>>) \/ resets' > resets
       /\ Len(Rx!Inflight') < Len(Rx!Inflight) =>
            Len(ethrxq') < Len(ethrxq) \/ tears' > tears]_vars
=============================================================================
