-------------------------------- MODULE NcmRx --------------------------------
(***************************************************************************)
(* The receive half of NcmApiManager::process_messages: packets drained    *)
(* from the ring of the USB manager are reassembled into an NCM transfer   *)
(* block (NTB) in ncmmsgrxbuf, and the datagram its pointer table names is *)
(* copied to the receive ring of the IP stack.                             *)
(*                                                                         *)
(* A byte is the block it belongs to and its position there, so a property *)
(* can tell whose bytes a delivered frame is made of.  A block has one     *)
(* datagram, as the device advertises (ntb_out_max_datagrams = 1).         *)
(*                                                                         *)
(* The environment is what the main loop guarantees (Firmware discharges   *)
(* it): one packet reaches the ring per iteration, and the IP stack empties*)
(* its ring before the next one does.  The host is external: it sends each *)
(* block in full packets, ends the transfer with a short one, and may      *)
(* abandon a transfer at any packet boundary (a reset of its driver or of  *)
(* the bus, which no code here handles).                                   *)
(***************************************************************************)
EXTENDS Integers, Sequences

CONSTANTS EP_DATA_BUF_SIZE,  \* bytes per USB packet (64)
          NTH_SIZE,          \* size_of NCMTransferHeader (12)
          NDP_SIZE,          \* pointer table of one datagram (8 + 2 * 4)
          NCM_MAX_IN_SIZE,   \* ncmmsgrxbuf (2048)
          MTU,               \* an IP stack buffer (IPV4_MIN_MTU, 576)
          ETH_RXQ_CAP,       \* ncm_netif.rs MAX_QUEUE_SIZE (1)
          HostBlocks,        \* shapes the host sends: [block, ndp, index, len]
          Garbled,           \* what the bytes after a table's signature may
                             \* say when they are not that table's
          Ids,               \* 0 .. Ids - 1 tells blocks apart
          MaxTears           \* transfers the host abandons

Shape      == [block : Nat, ndp : Nat, index : Nat, len : Nat]
Datagram16 == [index : Nat, len : Nat]

ASSUME NcmRxAssumption ==
    /\ EP_DATA_BUF_SIZE \in Nat /\ NTH_SIZE \in Nat /\ NDP_SIZE \in Nat
    /\ 0 < NTH_SIZE /\ 0 < NDP_SIZE /\ NTH_SIZE <= EP_DATA_BUF_SIZE
    /\ NCM_MAX_IN_SIZE \in Nat /\ MTU \in Nat /\ MTU <= NCM_MAX_IN_SIZE
    /\ ETH_RXQ_CAP \in Nat \ {0}
    /\ EP_DATA_BUF_SIZE <= NCM_MAX_IN_SIZE
    /\ HostBlocks \subseteq Shape
    /\ Garbled \subseteq Datagram16
    /\ Ids \in Nat \ {0}
    /\ MaxTears \in Nat

\* What NCM 1.0 and the device's own descriptors let a host send.
WellFormed(b) ==
    /\ b.block <= NCM_MAX_IN_SIZE
    /\ NTH_SIZE <= b.ndp /\ b.ndp + NDP_SIZE <= b.block
    /\ b.index + b.len <= b.block

ASSUME HostAssumption == \A b \in HostBlocks : WellFormed(b)

VARIABLES usbrxring,     \* UsbIpManager.rxq
          rxstate,       \* IpRxState
          currheader,    \* the block whose header was parsed last
          currcnt, rxbufready,
          ncmmsgrxbuf,   \* position -> byte
          ethrxq,        \* StmPhy.rxq, frames as sequences of bytes
          panicked,
          hostblock,     \* the block the host is sending
          hostoff,       \* its next byte to send
          hostid,        \* number of the next block
          tears,         \* abandoned transfers
          torn           \* frames delivered with bytes of two blocks

devvars  == <<usbrxring, rxstate, currheader, currcnt, rxbufready, ncmmsgrxbuf,
              ethrxq, panicked, torn>>
hostvars == <<hostblock, hostoff, hostid, tears>>
vars     == <<devvars, hostvars>>

IpRxState == {"AwaitHeader", "CopyEntireMsg"}

NumberedBlock == [id : Nat, shape : Shape]
Nothing       == [id |-> 0, shape |-> [block |-> 0, ndp |-> 0, index |-> 0, len |-> 0]]
Byte          == [of : NumberedBlock, pos : Nat]
Packet        == [of : NumberedBlock, off : Nat, len : 0 .. EP_DATA_BUF_SIZE]
RxMsg         == Seq(Byte)
Buffer        == [0 .. NCM_MAX_IN_SIZE - 1 -> Byte]

MinOf(a, b) == IF a < b THEN a ELSE b

ByteAt(b, i) == [of |-> b, pos |-> i]

Init ==
    /\ usbrxring = <<>>
    /\ rxstate = "AwaitHeader"
    /\ currheader = Nothing
    /\ currcnt = 0
    /\ rxbufready = FALSE
    /\ ncmmsgrxbuf = [i \in 0 .. NCM_MAX_IN_SIZE - 1 |-> ByteAt(Nothing, 0)]
    /\ ethrxq = <<>>
    /\ panicked = FALSE
    /\ hostblock = Nothing
    /\ hostoff = 0
    /\ hostid = 0
    /\ tears = 0
    /\ torn = 0

-----------------------------------------------------------------------------
(* The environment.                                                        *)

\* The iteration of the main loop that leaves room for the next packet.
\* Mutant: process_messages does not run in every iteration.
LoopIsIdleUnread == ~rxbufready /\ ethrxq = <<>> /\ ~panicked
LoopIsIdle == usbrxring = <<>> /\ ~rxbufready /\ ethrxq = <<>> /\ ~panicked

\* All bytes sent and, when the last packet was full, the zero-length one too
\* (hostoff is one past the block then).
HostDone == \/ hostoff > hostblock.shape.block
            \/ /\ hostoff = hostblock.shape.block
               /\ hostoff % EP_DATA_BUF_SIZE # 0 \/ hostoff \in {0, NCM_MAX_IN_SIZE}

\* The packet of block b that starts at byte off.
PacketFrom(b, off) ==
    [of |-> b, off |-> off, len |-> MinOf(b.shape.block - off, EP_DATA_BUF_SIZE)]

\* What the host may send next: the start of a block, or what follows.
FirstPackets == {PacketFrom([id |-> hostid, shape |-> s], 0) : s \in HostBlocks}
NextPacket   == PacketFrom(hostblock, hostoff)

\* The host has sent packet p.
HostSent(p) ==
    /\ hostblock' = p.of
    /\ hostoff' = IF p.len = 0 THEN p.off + 1 ELSE p.off + p.len
    /\ hostid' = IF p.off = 0 THEN (hostid + 1) % Ids ELSE hostid
    /\ UNCHANGED tears

\* A packet reaches the ring through read_packet.
Reaches(p) ==
    /\ LoopIsIdle
    /\ usbrxring' = Append(usbrxring, p)
    /\ HostSent(p)
    /\ UNCHANGED <<rxstate, currheader, currcnt, rxbufready, ncmmsgrxbuf, ethrxq,
                   panicked, torn>>

HostBegins    == HostDone /\ \E p \in FirstPackets : Reaches(p)
HostContinues == ~HostDone /\ Reaches(NextPacket)

\* The host drops the rest of the transfer.
HostAbandons ==
    /\ tears < MaxTears
    /\ ~HostDone
    /\ hostoff' = hostblock.shape.block + 1
    /\ tears' = tears + 1
    /\ UNCHANGED <<devvars, hostblock, hostid>>

\* smoltcp takes a frame through StmPhyRxToken::consume.
ConsumeRxToken ==
    /\ ethrxq # <<>> /\ ~panicked
    /\ ethrxq' = Tail(ethrxq)
    /\ UNCHANGED <<usbrxring, rxstate, currheader, currcnt, rxbufready,
                   ncmmsgrxbuf, panicked, torn, hostvars>>

-----------------------------------------------------------------------------
(* process_messages: one packet of the try_iter loop per step.             *)

\* The packet starts with the signature of a transfer header.  Mutant: any
\* packet that is long enough is taken for one.
StartsBlockUnsigned(p) == p.len >= NTH_SIZE
StartsBlock(p) == p.off = 0 /\ p.len >= NTH_SIZE

\* ncmmsgrxbuf[at .. at + n] <- the first n bytes of packet p.
CopyIn(p, at, n) ==
    [i \in 0 .. NCM_MAX_IN_SIZE - 1 |->
        IF at <= i /\ i < at + n THEN ByteAt(p.of, p.off + (i - at)) ELSE ncmmsgrxbuf[i]]

\* "dont handle partial ncm headers", or no signature: the packet is dropped.
RxSkip ==
    /\ rxstate = "AwaitHeader"
    /\ usbrxring # <<>>
    /\ ~StartsBlock(Head(usbrxring))
    /\ usbrxring' = Tail(usbrxring)
    /\ UNCHANGED <<rxstate, currheader, currcnt, rxbufready, ncmmsgrxbuf, ethrxq,
                   panicked, torn, hostvars>>

RxHeader ==
    LET p == Head(usbrxring) IN
    /\ rxstate = "AwaitHeader"
    /\ usbrxring # <<>>
    /\ StartsBlock(p)
    /\ usbrxring' = Tail(usbrxring)
    /\ currheader' = p.of
    /\ ncmmsgrxbuf' = CopyIn(p, 0, p.len)
    /\ currcnt' = currcnt + p.len
    /\ panicked' = (p.of.shape.block > NCM_MAX_IN_SIZE)
    /\ rxstate' = "CopyEntireMsg"
    /\ UNCHANGED <<rxbufready, ethrxq, torn, hostvars>>

\* restart_rx.  Mutants: it forgets the count, or the state.
RestartRxKeepsCount == rxstate' = "AwaitHeader" /\ UNCHANGED currcnt
RestartRxKeepsState == currcnt' = 0 /\ UNCHANGED rxstate
RestartRx           == rxstate' = "AwaitHeader" /\ currcnt' = 0

\* n more bytes complete the block.  Mutant: only if they are a whole packet.
CompletesPacket(n) == currcnt + n = currheader.shape.block /\ n = Head(usbrxring).len
Completes(n)       == currcnt + n = currheader.shape.block

\* blocklen - currcnt underflows, which panics where overflow checks are on,
\* when the header packet was longer than its own blocklen.
RxCopy ==
    LET p        == Head(usbrxring)
        total    == currheader.shape.block
        copysize == MinOf(total - currcnt, p.len) IN
    /\ rxstate = "CopyEntireMsg"
    /\ usbrxring # <<>>
    /\ usbrxring' = Tail(usbrxring)
    /\ IF currcnt > total
         THEN panicked' = TRUE /\ UNCHANGED <<rxstate, currcnt, rxbufready, ncmmsgrxbuf>>
         ELSE /\ ncmmsgrxbuf' = CopyIn(p, currcnt, copysize)
              /\ IF Completes(copysize)
                   THEN RestartRx /\ rxbufready' = TRUE
                   ELSE currcnt' = currcnt + copysize /\ UNCHANGED <<rxstate, rxbufready>>
              /\ UNCHANGED panicked
    /\ UNCHANGED <<currheader, ethrxq, torn, hostvars>>

\* The pointer table process_ndp finds at ndpindex, if its bytes are one, and
\* whether they begin with the signature of one.
TableAt(b) ==
    \A i \in 0 .. NDP_SIZE - 1 :
        ncmmsgrxbuf[currheader.shape.ndp + i] = ByteAt(b, b.shape.ndp + i)
Table  == ncmmsgrxbuf[currheader.shape.ndp].of
Signed == ncmmsgrxbuf[currheader.shape.ndp] = ByteAt(Table, Table.shape.ndp)

\* The datagram entries process_ndp may parse.
Entry(b) == [index |-> b.shape.index, len |-> b.shape.len]
Entries  == IF TableAt(Table) THEN {Entry(Table)} ELSE IF Signed THEN Garbled ELSE {}

\* The frame copied into rxmsg.  Mutant: it begins one byte late.
FrameOffByOne(d) == [i \in 1 .. d.len |-> ncmmsgrxbuf[d.index + i]]
Frame(d) == [i \in 1 .. d.len |-> ncmmsgrxbuf[d.index + i - 1]]

\* All its bytes are, in order, those of the datagram of one block.
Whole(f) == \A i \in 1 .. Len(f) : f[i] = ByteAt(f[1].of, f[1].of.shape.index + i - 1)

\* The ring after the push of the frame; an empty datagram is filtered out.
\* Mutant: so is one of full length.
PushedBelowMtu(d) == IF 0 < d.len /\ d.len < MTU THEN Append(ethrxq, Frame(d)) ELSE ethrxq
Pushed(d) == IF d.len > 0 /\ Len(ethrxq) < ETH_RXQ_CAP THEN Append(ethrxq, Frame(d)) ELSE ethrxq

\* The slices of rxmsg and of ncmmsgrxbuf are within bounds.
Fits(d) == d.len <= MTU /\ d.index + d.len <= NCM_MAX_IN_SIZE

\* After the loop: the unwrap of process_ndp panics without a table at ndpindex,
\* an index or a length out of range panics too.
RxDeliver ==
    /\ usbrxring = <<>>
    /\ rxbufready
    /\ rxbufready' = FALSE
    /\ \/ \E d \in Entries :
            /\ Fits(d)
            /\ ethrxq' = Pushed(d)
            /\ torn' = IF Whole(Frame(d)) THEN torn ELSE torn + 1
            /\ UNCHANGED panicked
       \/ /\ Entries = {} \/ \E d \in Entries : ~Fits(d)
          /\ panicked' = TRUE
          /\ UNCHANGED <<ethrxq, torn>>
    /\ UNCHANGED <<usbrxring, rxstate, currheader, currcnt, hostvars, ncmmsgrxbuf>>

ProcessRx == ~panicked /\ (RxSkip \/ RxHeader \/ RxCopy \/ RxDeliver)

Host == HostBegins \/ HostContinues \/ HostAbandons

Next == ProcessRx \/ ConsumeRxToken \/ Host

Spec == Init /\ [][Next]_vars

\* The main loop polls forever, and a host that began a block goes on with it.
Fairness == WF_vars(ProcessRx) /\ WF_vars(ConsumeRxToken) /\ WF_vars(HostContinues)
FairSpec == Spec /\ Fairness

-----------------------------------------------------------------------------
(* Properties.                                                             *)

\* Every variable stays in its type.
TypeOK ==
    /\ usbrxring \in Seq(Packet) /\ Len(usbrxring) <= 1
    /\ rxstate \in IpRxState
    /\ currheader \in NumberedBlock
    /\ currcnt \in Nat
    /\ rxbufready \in BOOLEAN
    /\ ncmmsgrxbuf \in Buffer
    /\ ethrxq \in Seq(RxMsg) /\ Len(ethrxq) <= ETH_RXQ_CAP
    /\ panicked \in BOOLEAN
    /\ hostblock \in NumberedBlock
    /\ hostoff \in Nat
    /\ hostid \in Nat
    /\ tears \in 0 .. MaxTears
    /\ torn \in Nat

\* Frames within the MTU, from a host that abandons no transfer, reach no panic of
\* the receive path.
NoPanic == ~panicked

\* Abandoned transfers whose damage was not delivered yet, or not as a frame.
Owed == torn < tears

\* A host whose frames fit the IP stack panics the receive path in one way only:
\* it abandons a transfer after the header and before the pointer table, and bytes
\* of later blocks come to lie where the table was to be.  A block whose table is
\* in its first packet never does, whatever was abandoned before it.
PanicsOnlyTorn ==
    panicked => Owed /\ currheader.shape.ndp + NDP_SIZE > EP_DATA_BUF_SIZE

\* When the host has ended a transfer and every packet was processed, the
\* receiver is ready for the next one.
TransferComplete == LoopIsIdle /\ HostDone => rxstate = "AwaitHeader"

\* As soon as every abandoned transfer was paid for with a damaged frame, the
\* receiver is in step with the host again, and swallows no further block.
BackInStep == ~Owed => TransferComplete

\* It is in the end, damaged frame or none: a receiver that an abandoned transfer threw out
\* of step finds its way back by itself, if the host goes on sending blocks.
Resynchronises == []<><<HostBegins>>_vars => <>[]TransferComplete

\* The inductive part of these.  Of TornBound: a receiver that is out of step
\* delivers one block with bytes of several, besides those it swallows.
TornBound    == torn <= tears
NextOff      == IF usbrxring = <<>> THEN hostoff ELSE Head(usbrxring).off
Collected(n) == \A i \in 0 .. n - 1 : ncmmsgrxbuf[i] = ByteAt(currheader, i)
InSync       == hostblock = currheader /\ NextOff = currcnt
FirstLen(b)  == MinOf(b.block, EP_DATA_BUF_SIZE)

\* The packet in the ring is one the host just sent.
HostOrder ==
    /\ hostblock.shape \in HostBlocks \/ (hostblock = Nothing /\ hostoff = 0)
    /\ usbrxring # <<>> =>
         LET p == Head(usbrxring) IN
         /\ ~rxbufready
         /\ p.of = hostblock /\ hostblock.shape \in HostBlocks
         /\ p.off + p.len <= p.of.shape.block
         /\ p.off = 0 => p.len = FirstLen(p.of.shape)
         /\ p.off + p.len \in {p.of.shape.block, hostoff} \/ Owed

\* The bytes collected so far are the first ones of the block being received,
\* and the host's next packet continues it, unless a transfer was abandoned
\* whose torn frame is still to come.
Collecting ==
    /\ rxstate = "AwaitHeader" => currcnt = 0
    /\ rxstate = "CopyEntireMsg" =>
         /\ currcnt \in FirstLen(currheader.shape) .. currheader.shape.block
         /\ \/ Collected(currcnt) /\ (InSync \/ currcnt = currheader.shape.block)
            \/ Owed
    /\ rxbufready =>
         /\ rxstate = "AwaitHeader"
         /\ Collected(currheader.shape.block) \/ Owed

\* Even then, what came with the header is still in place.
HeadKept ==
    rxstate = "CopyEntireMsg" \/ rxbufready =>
        currheader.shape \in HostBlocks /\ Collected(FirstLen(currheader.shape))

Reassembly == TornBound /\ HostOrder /\ Collecting /\ HeadKept

\* Hosts for which the receive path is safe after an abandoned transfer: their
\* pointer table comes with the header, and their datagrams fit the IP stack.
SafeHost == \A b \in HostBlocks : b.ndp + NDP_SIZE <= EP_DATA_BUF_SIZE /\ b.len <= MTU

\* Frames the host has begun to send and the IP stack has not taken yet.
FrameOf(b) == [id |-> b.id, len |-> b.shape.len]
Damaged    == [id |-> Ids, len |-> 0]
Received(f) == IF Whole(f) /\ Len(f) = f[1].of.shape.len
                 THEN FrameOf(f[1].of) ELSE Damaged
Undelivered == \/ hostoff < hostblock.shape.block
               \/ usbrxring # <<>> /\ Head(usbrxring).len > 0
               \/ rxbufready
Inflight == IF tears > 0 THEN <<>> ELSE
            [i \in 1 .. Len(ethrxq) |-> Received(ethrxq[i])]
            \o (IF Undelivered /\ hostblock.shape.len > 0 THEN <<FrameOf(hostblock)>> ELSE <<>>)

Channel == INSTANCE FrameChannel
             WITH Frames <- {[id |-> i, len |-> s.len] : i \in 0 .. Ids - 1, s \in HostBlocks},
                  Capacity <- ETH_RXQ_CAP + 1,
                  inflight <- Inflight, broken <- tears > 0

\* The receive path is a frame channel: while no transfer is abandoned, each
\* frame reaches the IP stack complete, once, in order, and eventually.
ImplementsChannel == Channel!FairSpec

\* The channel hands a frame over only when the IP stack takes it: none is
\* dropped by a full ring, a skipped packet or a filter on the way.
NothingLost ==
    [][Len(Inflight') < Len(Inflight) => Len(ethrxq') < Len(ethrxq) \/ tears' > tears]_vars
=============================================================================
