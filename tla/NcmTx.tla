------------------------------- MODULE NcmTx -------------------------------
(***************************************************************************)
(* The transmit half of NcmApiManager::process_messages: an Ethernet frame *)
(* popped from the ring of the IP stack becomes one NCM transfer block     *)
(* (NTB), which is cut into endpoint-sized packets that are pushed into    *)
(* the bounded ring of the USB manager, one per main-loop iteration.       *)
(*                                                                         *)
(* A frame is its length; the block built in ncmmsgtxbuf is its sequence   *)
(* number and total length; a packet names the bytes of the block that it  *)
(* carries.  Lengths, packet sizes and capacities are the code's own.      *)
(***************************************************************************)
EXTENDS Integers, Sequences

CONSTANTS EP_DATA_BUF_SIZE,   \* bytes per USB packet (cdc_ncm.rs: 64)
          TOTAL_HEADER_SIZE,  \* NTH + NDP of a one-datagram block (28)
          ETH_TXQ_CAP,        \* ncm_netif.rs MAX_QUEUE_SIZE (1)
          USB_TXQ_CAP,        \* usbipserver.rs txq (8)
          SEQ_MOD,            \* 2^16 in the code: wrapping_add on a u16
          FrameLens           \* lengths the IP stack may emit

ASSUME NcmTxAssumption ==
    /\ EP_DATA_BUF_SIZE \in Nat \ {0}
    /\ TOTAL_HEADER_SIZE \in 1 .. EP_DATA_BUF_SIZE
    /\ ETH_TXQ_CAP \in Nat \ {0}
    /\ USB_TXQ_CAP \in Nat \ {0}
    /\ SEQ_MOD \in Nat \ {0}
    /\ FrameLens \subseteq Nat \ {0}

VARIABLES txq,               \* StmPhy.txq, frame lengths
          usbtxring,         \* UsbIpManager.txq, packets
          currtxbuf,         \* UsbIpManager.currtxbuf, the packet popped last
          txstate,           \* IpTxState
          datagrams,         \* length of txdatagram.datagrams
          ncmmsgtxbuf,       \* the block: its sequence number and blocklen
          txtransactioncnt,  \* bytes of the block already pushed
          usbmsgtotlen, currtxdatalen,
          sequence,          \* txheader.sequence, of the next block
          panicked           \* the firmware halted in a panic

vars == <<txq, usbtxring, currtxbuf, txstate, datagrams, ncmmsgtxbuf,
          txtransactioncnt, usbmsgtotlen, currtxdatalen, sequence, panicked>>

IpTxState == {"Ready", "Header", "Sending", "Zlp"}

SeqNumbers  == 0 .. SEQ_MOD - 1
BlockLens   == {0} \cup {TOTAL_HEADER_SIZE + n : n \in FrameLens}
Block       == [seq : SeqNumbers, total : BlockLens]
Packet      == [ntb : Block, off : Nat, len : 0 .. EP_DATA_BUF_SIZE]
NextSeq(s)  == (s + 1) % SEQ_MOD
MinOf(a, b) == IF a < b THEN a ELSE b

\* Bytes off .. off + len - 1 of the block in ncmmsgtxbuf; len = 0 is the ZLP.
PacketOf(block, off, len) == [ntb |-> block, off |-> off, len |-> len]

\* The packet completes its block; the zero-length packet repeats the end.
EndsBlock(p) == p.off + p.len = p.ntb.total

Init ==
    /\ txq = <<>>
    /\ usbtxring = <<>>
    /\ currtxbuf = PacketOf([seq |-> SEQ_MOD - 1, total |-> 0], 0, 0)
    /\ txstate = "Ready"
    /\ datagrams = 0
    /\ ncmmsgtxbuf = [seq |-> SEQ_MOD - 1, total |-> 0]
    /\ txtransactioncnt = 0
    /\ usbmsgtotlen = 0
    /\ currtxdatalen = 0
    /\ sequence = 0
    /\ panicked = FALSE

-----------------------------------------------------------------------------
(* The environment: the IP stack above and the USB manager below.          *)

\* StmPhyTxToken::consume: a frame pushed on a full ring is dropped.  The slice of
\* its buffer that panics for a length above the MTU is left out: the IP stack
\* asks for no more than max_transmission_unit.
ConsumeTxToken(len) ==
    /\ ~panicked
    /\ txq' = IF Len(txq) < ETH_TXQ_CAP THEN Append(txq, len) ELSE txq
    /\ UNCHANGED <<usbtxring, currtxbuf, txstate, datagrams, ncmmsgtxbuf,
                   txtransactioncnt, usbmsgtotlen, currtxdatalen, sequence, panicked>>

\* UsbIpManager::process_usb pops the oldest packet into currtxbuf.
UsbPop ==
    /\ ~panicked
    /\ usbtxring # <<>>
    /\ currtxbuf' = Head(usbtxring)
    /\ usbtxring' = Tail(usbtxring)
    /\ UNCHANGED <<txq, txstate, datagrams, ncmmsgtxbuf, txtransactioncnt,
                   usbmsgtotlen, currtxdatalen, sequence, panicked>>

-----------------------------------------------------------------------------
(* process_messages, one disjunct per IpTxState.                           *)

\* ConcurrentQueue::push on the USB ring; fails when the ring is full.
RingHasRoom == Len(usbtxring) < USB_TXQ_CAP
\* Mutants: the cursor moves on although the push failed; an unbounded ring.
PushLossy(p)     == usbtxring' = IF RingHasRoom THEN Append(usbtxring, p) ELSE usbtxring
PushUnbounded(p) == usbtxring' = Append(usbtxring, p)
Push(p)     == RingHasRoom /\ usbtxring' = Append(usbtxring, p)

\* Ready: build the block.  The pointer table is serialised into a slice
\* that only fits two entries: copy_from_slice panics on any other number.
TxReady ==
    /\ txstate = "Ready"
    /\ txq # <<>>
    /\ txq' = Tail(txq)
    /\ datagrams' = datagrams + 2
    /\ currtxdatalen' = Head(txq)
    /\ usbmsgtotlen' = TOTAL_HEADER_SIZE + Head(txq)
    /\ ncmmsgtxbuf' = [seq |-> sequence, total |-> TOTAL_HEADER_SIZE + Head(txq)]
    /\ sequence' = NextSeq(sequence)
    /\ txstate' = IF usbmsgtotlen' <= EP_DATA_BUF_SIZE THEN "Header" ELSE "Sending"
    /\ panicked' = (datagrams' # 2)
    /\ UNCHANGED <<usbtxring, currtxbuf, txtransactioncnt>>

\* Header: a block that fits in one packet is sent in two.
TxHeader ==
    /\ txstate = "Header"
    /\ Push(PacketOf(ncmmsgtxbuf, 0, TOTAL_HEADER_SIZE))
    /\ IF usbmsgtotlen = TOTAL_HEADER_SIZE
         THEN txstate' = "Ready" /\ UNCHANGED txtransactioncnt
         ELSE /\ txstate' = "Sending"
              /\ txtransactioncnt' = txtransactioncnt + TOTAL_HEADER_SIZE
    /\ UNCHANGED <<txq, currtxbuf, datagrams, ncmmsgtxbuf, usbmsgtotlen,
                   currtxdatalen, sequence, panicked>>

TxSending ==
    LET bytestocopy == MinOf(usbmsgtotlen - txtransactioncnt, EP_DATA_BUF_SIZE) IN
    /\ txstate = "Sending"
    /\ Push(PacketOf(ncmmsgtxbuf, txtransactioncnt, bytestocopy))
    /\ txtransactioncnt' = txtransactioncnt + bytestocopy
    /\ txstate' = IF txtransactioncnt' = usbmsgtotlen THEN "Zlp" ELSE "Sending"
    /\ panicked' = (txtransactioncnt' > usbmsgtotlen)
    /\ UNCHANGED <<txq, currtxbuf, datagrams, ncmmsgtxbuf, usbmsgtotlen,
                   currtxdatalen, sequence>>

\* Zlp: the code decides on the length of the frame, not of the block.  Mutant:
\* every block is terminated.
NeedsZlpAlways == TRUE
NeedsZlp == currtxdatalen % EP_DATA_BUF_SIZE = 0

\* The block is sent.  Mutant: the table keeps its entries.
BlockDoneKeepsTable == txtransactioncnt' = 0 /\ UNCHANGED datagrams
BlockDone           == datagrams' = 0 /\ txtransactioncnt' = 0

TxZlp ==
    /\ txstate = "Zlp"
    /\ IF NeedsZlp THEN Push(PacketOf(ncmmsgtxbuf, usbmsgtotlen, 0))
                   ELSE UNCHANGED usbtxring
    /\ BlockDone
    /\ txstate' = "Ready"
    /\ UNCHANGED <<txq, currtxbuf, ncmmsgtxbuf, usbmsgtotlen, currtxdatalen,
                   sequence, panicked>>

\* Nothing to send, or no room in the ring: this call changes nothing.
TxIdle ==
    \/ txstate = "Ready" /\ txq = <<>>
    \/ txstate \in {"Header", "Sending"} /\ ~RingHasRoom
    \/ txstate = "Zlp" /\ NeedsZlp /\ ~RingHasRoom

ProcessTx == ~panicked /\ (TxReady \/ TxHeader \/ TxSending \/ TxZlp)

Next == ProcessTx \/ UsbPop \/ \E len \in FrameLens : ConsumeTxToken(len)

Spec == Init /\ [][Next]_vars

\* The main loop calls process_messages forever; UsbPop recurs as long as the
\* host keeps reading the IN endpoint.
Fairness == WF_vars(ProcessTx) /\ WF_vars(UsbPop)
FairSpec == Spec /\ Fairness

-----------------------------------------------------------------------------
(* Properties.                                                             *)

\* Every variable stays in its type.
TypeOK ==
    /\ txq \in Seq(FrameLens) /\ Len(txq) <= ETH_TXQ_CAP
    /\ usbtxring \in Seq(Packet) /\ Len(usbtxring) <= USB_TXQ_CAP
    /\ currtxbuf \in Packet
    /\ txstate \in IpTxState
    /\ datagrams \in Nat
    /\ ncmmsgtxbuf \in Block
    /\ txtransactioncnt \in Nat
    /\ usbmsgtotlen \in Nat
    /\ currtxdatalen \in Nat
    /\ sequence \in SeqNumbers
    /\ panicked \in BOOLEAN

\* Packet q may come right after packet p on the endpoint: it continues p's
\* block where p left it, or p ended its block and q is its zero-length packet
\* or starts the block with the next sequence number.
Continues(p, q) == q.ntb = p.ntb /\ q.off = p.off + p.len /\ ~EndsBlock(p) /\ q.len > 0
Terminates(p, q) == q.ntb = p.ntb /\ EndsBlock(p) /\ p.len > 0
                                  /\ q.off = p.ntb.total /\ q.len = 0
Begins(p, q) == EndsBlock(p) /\ q.ntb.seq = NextSeq(p.ntb.seq) /\ q.off = 0 /\ q.len > 0
Follows(p, q) == Continues(p, q) \/ Terminates(p, q) \/ Begins(p, q)

\* The packets in flight: the one handed to the endpoint, then the ring.
Stream == <<currtxbuf>> \o usbtxring

\* Whatever the interleaving of the IP stack, process_messages and the USB
\* manager, and however often the ring was full, the packets tile consecutive
\* blocks: no byte is skipped, repeated or mixed with another block's.
PacketStream == \A i \in 1 .. Len(usbtxring) : Follows(Stream[i], Stream[i + 1])

\* No frame sequence reaches the panics of process_messages: the two-entry
\* slice of the pointer table and "ncm api tx sender sent too many bytes!".
NoPanic == ~panicked

\* The block in ncmmsgtxbuf is never rebuilt while a byte of it is unsent.
\* The tail of the stream, the cursor and the sequence number say where in
\* its block the state machine is.
Tip == Stream[Len(Stream)]
BetweenBlocks == EndsBlock(Tip) /\ txtransactioncnt = 0
Fresh   == BetweenBlocks /\ ncmmsgtxbuf.seq = NextSeq(Tip.ntb.seq)
Partway == /\ Tip.ntb = ncmmsgtxbuf /\ Tip.len > 0
           /\ txtransactioncnt = Tip.off + Tip.len
Cursor ==
    /\ sequence = NextSeq(ncmmsgtxbuf.seq)
    /\ txstate = "Ready"   => BetweenBlocks /\ Tip.ntb = ncmmsgtxbuf /\ datagrams = 0
    /\ txstate # "Ready"   => /\ datagrams = 2
                              /\ usbmsgtotlen = ncmmsgtxbuf.total
                              /\ usbmsgtotlen = TOTAL_HEADER_SIZE + currtxdatalen
                              /\ currtxdatalen > 0
    /\ txstate = "Header"  => Fresh
    /\ txstate = "Sending" => Fresh \/ (Partway /\ txtransactioncnt < usbmsgtotlen)
    /\ txstate = "Zlp"     => Partway /\ txtransactioncnt = usbmsgtotlen

\* The frames whose last bytes the packets carry, oldest first.
LastData(p) == EndsBlock(p) /\ p.len > 0
FramesOn(packets) ==
    LET frames[i \in 0 .. Len(packets)] ==
          IF i = 0 THEN <<>>
          ELSE IF LastData(packets[i])
                 THEN Append(frames[i - 1], packets[i].ntb.total - TOTAL_HEADER_SIZE)
                 ELSE frames[i - 1]
    IN  frames[Len(packets)]

\* Frames handed to the transmit path and not yet completely on the endpoint.
Inflight ==
    FramesOn(usbtxring)
    \o (IF txstate \in {"Header", "Sending"} THEN <<currtxdatalen>> ELSE <<>>)
    \o txq

Channel == INSTANCE FrameChannel
             WITH Frames <- FrameLens,
                  Capacity <- ETH_TXQ_CAP + 1 + USB_TXQ_CAP,
                  inflight <- Inflight, broken <- FALSE

\* The transmit path is a frame channel: every frame it accepted is handed
\* over completely, once, in order, and, while the host reads, eventually.
ImplementsChannel == Channel!FairSpec

\* The end of a USB transfer is a packet that is not full: each block is one
\* transfer when a packet is the first of its block exactly if the one before it
\* was short or empty.
Delimits(p, q)    == (p.len < EP_DATA_BUF_SIZE) <=> (q.off = 0)
TransferDelimited == \A i \in 1 .. Len(usbtxring) : Delimits(Stream[i], Stream[i + 1])

\* Blocks of more than one packet, for which the length of the frame says what
\* the length of the block would, as far as NeedsZlp asks.
LengthAgrees(b) ==
    /\ b.total > EP_DATA_BUF_SIZE
    /\ (b.total - TOTAL_HEADER_SIZE) % EP_DATA_BUF_SIZE = 0 <=> b.total % EP_DATA_BUF_SIZE = 0

\* Such a block is one USB transfer, whatever comes before or after it and
\* however often the ring was full: no packet of it but the last is short, and
\* the next block begins only after a short or empty one.  (The others are not: a
\* block that fits in one packet goes out as a short header packet and the rest;
\* tx_zlp shows one of several packets.)
AgreedDelimited ==
    \A i \in 1 .. Len(usbtxring) :
        LengthAgrees(Stream[i].ntb) => Delimits(Stream[i], Stream[i + 1])
=============================================================================
