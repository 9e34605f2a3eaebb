---------------------------- MODULE NcmTx_proofs ----------------------------
(***************************************************************************)
(* The transmit path never tears, repeats or mixes blocks and never        *)
(* panics, for every packet size, ring capacity and set of frame lengths.  *)
(***************************************************************************)
EXTENDS NcmTx, SequenceTheorems, WellFoundedInduction, TLAPS

\* The inductive invariant: the stream property alone is not inductive, since
\* it does not say which block the state machine is in; Cursor does.
IInv == TypeOK /\ Cursor /\ PacketStream /\ NoPanic

-----------------------------------------------------------------------------
(* Facts about the operators of the model.                                 *)

\* The successor of a sequence number is a sequence number (u16 wrapping_add).
LEMMA NextSeqType == ASSUME NEW s \in SeqNumbers PROVE NextSeq(s) \in SeqNumbers
  BY NcmTxAssumption DEF SeqNumbers, NextSeq

\* min never exceeds either argument.
LEMMA MinOfType ==
  ASSUME NEW a \in Nat, NEW b \in Nat
  PROVE  /\ MinOf(a, b) \in 0 .. b
         /\ MinOf(a, b) <= a
         /\ (a > 0 /\ b > 0) => MinOf(a, b) > 0
  BY DEF MinOf

\* The stream is a non-empty sequence of packets: the one of the USB manager
\* (process_usb's currtxbuf) and those of the ring.
LEMMA StreamShape ==
  ASSUME usbtxring \in Seq(Packet), currtxbuf \in Packet
  PROVE  /\ Stream \in Seq(Packet)
         /\ Len(Stream) = Len(usbtxring) + 1
         /\ Stream[1] = currtxbuf
         /\ \A i \in 1 .. Len(usbtxring) : Stream[i + 1] = usbtxring[i]
         /\ Tip = IF usbtxring = <<>> THEN currtxbuf ELSE usbtxring[Len(usbtxring)]
         /\ Tip \in Packet
  BY DEF Stream, Tip

\* Pushing a packet that follows the tip keeps the stream well formed and makes
\* that packet the tip.
LEMMA PushKeepsStream ==
  ASSUME usbtxring \in Seq(Packet), currtxbuf \in Packet, PacketStream,
         NEW p \in Packet, Follows(Tip, p),
         usbtxring' = Append(usbtxring, p), currtxbuf' = currtxbuf
  PROVE  PacketStream' /\ Tip' = p
<1> DEFINE n == Len(usbtxring)
<1>1. /\ n \in Nat /\ Len(usbtxring') = n + 1
      /\ Len(Stream) = n + 1
      /\ Stream' = <<currtxbuf>> \o Append(usbtxring, p)
  BY StreamShape DEF Stream
<1>2. /\ \A i \in 1 .. n + 1 : Stream'[i] = Stream[i]
      /\ Stream'[n + 2] = p
      /\ Len(Stream') = n + 2
  BY <1>1 DEF Stream
<1>3. Tip' = p
  BY <1>2 DEF Tip
<1>4. ASSUME NEW i \in 1 .. n + 1
      PROVE  Follows(Stream'[i], Stream'[i + 1])
  <2>1. CASE i = n + 1
    BY <2>1, <1>1, <1>2 DEF Tip
  <2>2. CASE i \in 1 .. n
    BY <2>2, <1>1, <1>2 DEF PacketStream
  <2> QED BY <2>1, <2>2, <1>1
<1> HIDE DEF n
<1>5. \A i \in 1 .. n + 1 : Follows(Stream[i], Stream[i + 1])'
  BY <1>4 DEF Follows, Continues, Terminates, Begins, EndsBlock, NextSeq
<1> QED BY <1>1, <1>3, <1>5 DEF PacketStream

\* Popping the oldest packet keeps the stream well formed and its tip.
LEMMA PopKeepsStream ==
  ASSUME usbtxring \in Seq(Packet), currtxbuf \in Packet, PacketStream,
         usbtxring # <<>>, currtxbuf' = Head(usbtxring), usbtxring' = Tail(usbtxring)
  PROVE  PacketStream' /\ Tip' = Tip
<1> DEFINE n == Len(usbtxring)
<1>1. n \in Nat \ {0} /\ Len(usbtxring') = n - 1 /\ Len(Stream) = n + 1 /\ Len(Stream') = n
  BY DEF Stream
<1>2. \A i \in 1 .. n : Stream'[i] = Stream[i + 1]
  BY <1>1 DEF Stream
<1>3. Tip' = Tip
  BY <1>1, <1>2 DEF Tip
<1>4. ASSUME NEW i \in 1 .. n - 1
      PROVE  Follows(Stream'[i], Stream'[i + 1])
  <2>1. i + 1 \in 1 .. n
    BY <1>1
  <2>2. Follows(Stream[i + 1], Stream[(i + 1) + 1])
    BY <2>1 DEF PacketStream
  <2>3. Stream'[i] = Stream[i + 1] /\ Stream'[i + 1] = Stream[(i + 1) + 1]
    BY <1>2, <2>1, <1>1
  <2> QED BY <2>2, <2>3
<1> HIDE DEF n
<1>5. \A i \in 1 .. n - 1 : Follows(Stream[i], Stream[i + 1])'
  BY <1>4 DEF Follows, Continues, Terminates, Begins, EndsBlock, NextSeq
<1> QED BY <1>1, <1>3, <1>5 DEF PacketStream

\* The stream depends on the two queues only.
LEMMA SameStream ==
  ASSUME UNCHANGED <<usbtxring, currtxbuf>>, PacketStream
  PROVE  PacketStream' /\ Tip' = Tip
  BY DEF PacketStream, Tip, Stream, Follows, Continues, Terminates, Begins,
         EndsBlock, NextSeq

-----------------------------------------------------------------------------
(* The invariant.                                                          *)

\* Nothing is sent in the beginning.
LEMMA InitIInv == Init => IInv
<1> SUFFICES ASSUME Init PROVE IInv
  OBVIOUS
<1> USE NcmTxAssumption DEF Init
<1>1. SEQ_MOD - 1 \in SeqNumbers /\ NextSeq(SEQ_MOD - 1) = 0 /\ 0 \in SeqNumbers
  BY DEF SeqNumbers, NextSeq
<1>2. ncmmsgtxbuf \in Block /\ currtxbuf \in Packet
  BY <1>1 DEF Block, Packet, BlockLens, PacketOf
<1>3. TypeOK
  <2>1. txq \in Seq(FrameLens) /\ Len(txq) <= ETH_TXQ_CAP
    OBVIOUS
  <2>2. usbtxring \in Seq(Packet) /\ Len(usbtxring) <= USB_TXQ_CAP
    OBVIOUS
  <2>3. panicked \in BOOLEAN
    OBVIOUS
  <2> QED BY <1>1, <1>2, <2>1, <2>2, <2>3 DEF TypeOK, IpTxState
<1>4. Tip = currtxbuf
  BY <1>2, <1>3, StreamShape DEF TypeOK
<1>5. Cursor
  BY <1>1, <1>2, <1>4 DEF Cursor, BetweenBlocks, EndsBlock, PacketOf, NextSeq, SeqNumbers
<1>6. PacketStream /\ NoPanic
  BY DEF PacketStream, NoPanic
<1> QED BY <1>3, <1>5, <1>6 DEF IInv

\* The packets process_messages pushes are packets.
LEMMA PacketOfType ==
  ASSUME NEW b \in Block, NEW off \in Nat, NEW len \in 0 .. EP_DATA_BUF_SIZE
  PROVE  PacketOf(b, off, len) \in Packet
  BY DEF PacketOf, Packet

\* One step of the IP stack.
LEMMA ConsumeTxTokenStep ==
  ASSUME IInv, NEW len \in FrameLens, ConsumeTxToken(len) PROVE IInv'
<1> USE DEF IInv, ConsumeTxToken
<1>1. TypeOK'
  <2>1. txq' \in Seq(FrameLens) /\ Len(txq') <= ETH_TXQ_CAP
    BY NcmTxAssumption DEF TypeOK
  <2> QED BY <2>1 DEF TypeOK
<1>2. PacketStream' /\ Tip' = Tip
  BY SameStream
<1>3. Cursor'
  BY <1>2 DEF Cursor, BetweenBlocks, Fresh, Partway, EndsBlock, NextSeq
<1> QED BY <1>1, <1>2, <1>3 DEF NoPanic

\* One step of the USB manager.
LEMMA UsbPopStep == ASSUME IInv, UsbPop PROVE IInv'
<1> USE DEF IInv, UsbPop
<1>1. TypeOK'
  <2>1. usbtxring' \in Seq(Packet) /\ Len(usbtxring') <= USB_TXQ_CAP /\ currtxbuf' \in Packet
    BY NcmTxAssumption DEF TypeOK
  <2> QED BY <2>1 DEF TypeOK
<1>2. PacketStream' /\ Tip' = Tip
  BY PopKeepsStream DEF TypeOK
<1>3. Cursor'
  BY <1>2 DEF Cursor, BetweenBlocks, Fresh, Partway, EndsBlock, NextSeq
<1> QED BY <1>1, <1>2, <1>3 DEF NoPanic

\* Ready: the new block begins where the stream ended.
LEMMA TxReadyStep == ASSUME IInv, TxReady PROVE IInv'
<1> USE DEF IInv, TxReady
<1> DEFINE len == Head(txq)
<1>1. /\ len \in FrameLens /\ len \in Nat \ {0}
      /\ txq' \in Seq(FrameLens) /\ Len(txq') <= ETH_TXQ_CAP
  <2>1. txq \in Seq(FrameLens) /\ txq # <<>> /\ Len(txq) <= ETH_TXQ_CAP
    BY DEF TypeOK
  <2>2. len \in FrameLens /\ txq' \in Seq(FrameLens) /\ Len(txq') = Len(txq) - 1
    BY <2>1
  <2>3. len \in Nat \ {0}
    BY <2>2, NcmTxAssumption
  <2>4. Len(txq') <= ETH_TXQ_CAP
    BY <2>1, <2>2, NcmTxAssumption
  <2> QED BY <2>2, <2>3, <2>4
<1>2. ncmmsgtxbuf' \in Block
  BY <1>1 DEF TypeOK, Block, BlockLens
<1>3. sequence' \in SeqNumbers
  BY NextSeqType DEF TypeOK
<1>4. usbmsgtotlen' \in Nat /\ datagrams' = 2 /\ ~panicked'
  <2>1. usbmsgtotlen' \in Nat
    BY <1>1, NcmTxAssumption
  <2>2. datagrams' = 2
    BY DEF Cursor
  <2> QED BY <2>1, <2>2
<1>5. TypeOK'
  BY <1>1, <1>2, <1>3, <1>4 DEF TypeOK, IpTxState
<1>6. PacketStream' /\ Tip' = Tip
  BY SameStream
<1>7. Fresh'
  BY <1>6 DEF Fresh, BetweenBlocks, Cursor, EndsBlock, NextSeq
<1>8. Cursor'
  BY <1>1, <1>4, <1>7 DEF Cursor, NextSeq
<1> QED BY <1>4, <1>5, <1>6, <1>8 DEF NoPanic

\* What a push of the bytes from txtransactioncnt on does to the invariant:
\* shared by Header and Sending.
LEMMA PushBytes ==
  ASSUME IInv, txstate \in {"Header", "Sending"},
         NEW n \in 1 .. EP_DATA_BUF_SIZE,
         txtransactioncnt + n <= usbmsgtotlen,
         Push(PacketOf(ncmmsgtxbuf, txtransactioncnt, n)),
         UNCHANGED <<currtxbuf, ncmmsgtxbuf>>,
         txtransactioncnt' = txtransactioncnt + n
  PROVE  /\ usbtxring' \in Seq(Packet) /\ Len(usbtxring') <= USB_TXQ_CAP
         /\ PacketStream'
         /\ Partway'
<1> DEFINE p == PacketOf(ncmmsgtxbuf, txtransactioncnt, n)
<1>1. p \in Packet
  BY PacketOfType DEF IInv, TypeOK
<1>2. usbtxring' \in Seq(Packet) /\ Len(usbtxring') <= USB_TXQ_CAP
  BY <1>1, NcmTxAssumption DEF IInv, TypeOK, Push, RingHasRoom
<1>3. Follows(Tip, p)
  <2>1. CASE Fresh
    BY <2>1 DEF Fresh, BetweenBlocks, Follows, Begins, PacketOf
  <2>2. CASE Partway /\ txtransactioncnt < usbmsgtotlen
    <3>1. usbmsgtotlen = ncmmsgtxbuf.total /\ txtransactioncnt \in Nat /\ usbmsgtotlen \in Nat
      BY DEF IInv, Cursor, TypeOK
    <3>2. Tip.ntb = ncmmsgtxbuf /\ Tip.off + Tip.len = txtransactioncnt /\ ~EndsBlock(Tip)
      BY <2>2, <3>1 DEF Partway, EndsBlock
    <3> QED BY <3>2 DEF Follows, Continues, PacketOf
  <2> QED BY <2>1, <2>2 DEF IInv, Cursor
<1>4. PacketStream' /\ Tip' = p
  BY <1>1, <1>3, PushKeepsStream DEF IInv, TypeOK, Push
<1>5. Partway'
  BY <1>4 DEF Partway, PacketOf
<1> QED BY <1>2, <1>4, <1>5

\* Header: the first packet of a short block.
LEMMA TxHeaderStep == ASSUME IInv, TxHeader PROVE IInv'
<1> USE DEF IInv, TxHeader
<1>1. /\ txtransactioncnt = 0 /\ usbmsgtotlen # TOTAL_HEADER_SIZE
      /\ TOTAL_HEADER_SIZE < usbmsgtotlen /\ usbmsgtotlen \in Nat
      /\ TOTAL_HEADER_SIZE \in 1 .. EP_DATA_BUF_SIZE
  BY NcmTxAssumption DEF Cursor, Fresh, BetweenBlocks, TypeOK
<1>2. txtransactioncnt' = txtransactioncnt + TOTAL_HEADER_SIZE /\ txstate' = "Sending"
  BY <1>1
<1>3. /\ usbtxring' \in Seq(Packet) /\ Len(usbtxring') <= USB_TXQ_CAP
      /\ PacketStream' /\ Partway'
  <2>1. /\ txstate \in {"Header", "Sending"}
        /\ txtransactioncnt + TOTAL_HEADER_SIZE <= usbmsgtotlen
        /\ UNCHANGED <<currtxbuf, ncmmsgtxbuf>>
    BY <1>1
  <2>2. Push(PacketOf(ncmmsgtxbuf, txtransactioncnt, TOTAL_HEADER_SIZE))
    BY <1>1
  <2> QED BY <1>1, <1>2, <2>1, <2>2, PushBytes
<1>4. TypeOK'
  BY <1>1, <1>2, <1>3 DEF TypeOK, IpTxState
<1>5. Cursor'
  BY <1>1, <1>2, <1>3 DEF Cursor, NextSeq
<1> QED BY <1>3, <1>4, <1>5 DEF NoPanic

\* Sending: at least one byte is left, and no more than are left are sent.
LEMMA TxSendingStep == ASSUME IInv, TxSending PROVE IInv'
<1> USE DEF IInv, TxSending
<1> DEFINE n == MinOf(usbmsgtotlen - txtransactioncnt, EP_DATA_BUF_SIZE)
<1>1. /\ txtransactioncnt \in Nat /\ usbmsgtotlen \in Nat
      /\ txtransactioncnt < usbmsgtotlen
  BY NcmTxAssumption DEF Cursor, Fresh, BetweenBlocks, TypeOK
<1>2. n \in 1 .. EP_DATA_BUF_SIZE /\ txtransactioncnt + n <= usbmsgtotlen
  <2>1. usbmsgtotlen - txtransactioncnt \in Nat \ {0} /\ EP_DATA_BUF_SIZE \in Nat \ {0}
    BY <1>1, NcmTxAssumption
  <2>2. /\ n \in 1 .. EP_DATA_BUF_SIZE
        /\ n <= usbmsgtotlen - txtransactioncnt
    BY <2>1 DEF MinOf
  <2> QED BY <1>1, <2>2
<1>3. /\ usbtxring' \in Seq(Packet) /\ Len(usbtxring') <= USB_TXQ_CAP
      /\ PacketStream' /\ Partway'
  BY <1>2, PushBytes
<1>4. ~panicked' /\ txtransactioncnt' \in Nat /\ txtransactioncnt' <= usbmsgtotlen'
  <2>1. txtransactioncnt' = txtransactioncnt + n /\ usbmsgtotlen' = usbmsgtotlen
    OBVIOUS
  <2>2. txtransactioncnt' \in Nat /\ txtransactioncnt' <= usbmsgtotlen'
    BY <1>1, <1>2, <2>1
  <2>3. ~(txtransactioncnt' > usbmsgtotlen)
    BY <1>1, <2>1, <2>2
  <2> QED BY <2>2, <2>3
<1>5. TypeOK'
  BY <1>3, <1>4 DEF TypeOK, IpTxState
<1>6. Cursor'
  BY <1>1, <1>3, <1>4 DEF Cursor, NextSeq
<1> QED BY <1>3, <1>4, <1>5, <1>6 DEF NoPanic

\* Zlp: the block is complete, with or without its zero-length packet.
LEMMA TxZlpStep == ASSUME IInv, TxZlp PROVE IInv'
<1> USE DEF IInv, TxZlp, BlockDone
<1>1. Tip.ntb = ncmmsgtxbuf /\ EndsBlock(Tip) /\ Tip.len > 0 /\ usbmsgtotlen = ncmmsgtxbuf.total
  BY DEF Cursor, Partway, EndsBlock
<1>2. /\ usbtxring' \in Seq(Packet) /\ Len(usbtxring') <= USB_TXQ_CAP
      /\ PacketStream'
      /\ Tip'.ntb = ncmmsgtxbuf' /\ EndsBlock(Tip')
  <2>1. CASE NeedsZlp
    <3> DEFINE p == PacketOf(ncmmsgtxbuf, usbmsgtotlen, 0)
    <3>1. p \in Packet
      BY PacketOfType, NcmTxAssumption DEF TypeOK
    <3>2. Follows(Tip, p)
      BY <1>1 DEF Follows, Terminates, PacketOf
    <3>3. PacketStream' /\ Tip' = p
      BY <2>1, <3>1, <3>2, PushKeepsStream DEF TypeOK, Push
    <3>4. usbtxring' \in Seq(Packet) /\ Len(usbtxring') <= USB_TXQ_CAP
      <4>1. usbtxring \in Seq(Packet) /\ usbtxring' = Append(usbtxring, p)
            /\ Len(usbtxring) < USB_TXQ_CAP
        BY <2>1 DEF TypeOK, Push, RingHasRoom
      <4> HIDE DEF p, IInv, TxZlp
      <4> QED BY <3>1, <4>1, NcmTxAssumption
    <3>5. p.ntb = ncmmsgtxbuf /\ EndsBlock(p)
      BY <1>1, NcmTxAssumption DEF PacketOf, EndsBlock, TypeOK
    <3> QED BY <3>3, <3>4, <3>5
  <2>2. CASE ~NeedsZlp
    BY <2>2, <1>1, SameStream DEF TypeOK, EndsBlock
  <2> QED BY <2>1, <2>2
<1>3. TypeOK'
  BY <1>2 DEF TypeOK, IpTxState
<1>4. Cursor'
  BY <1>2 DEF Cursor, BetweenBlocks, EndsBlock, NextSeq
<1> QED BY <1>2, <1>3, <1>4 DEF NoPanic

\* Every step keeps the invariant.
LEMMA NextIInv == IInv /\ [Next]_vars => IInv'
<1> SUFFICES ASSUME IInv, [Next]_vars PROVE IInv'
  OBVIOUS
<1>1. CASE UNCHANGED vars
  <2>1. PacketStream' /\ Tip' = Tip
    BY <1>1, SameStream DEF IInv, vars
  <2> QED BY <1>1, <2>1 DEF IInv, vars, TypeOK, Cursor, BetweenBlocks, Fresh, Partway,
                            EndsBlock, NextSeq, NoPanic
<1>2. CASE ProcessTx
  BY <1>2, TxReadyStep, TxHeaderStep, TxSendingStep, TxZlpStep DEF ProcessTx
<1>3. CASE UsbPop
  BY <1>3, UsbPopStep
<1>4. CASE \E len \in FrameLens : ConsumeTxToken(len)
  BY <1>4, ConsumeTxTokenStep
<1> QED BY <1>1, <1>2, <1>3, <1>4 DEF Next

\* Every reachable state of the transmit path satisfies the invariant.
THEOREM Invariance == Spec => []IInv
<1> QED BY InitIInv, NextIInv, PTL DEF Spec

-----------------------------------------------------------------------------
(* Remainders of a division by the packet size.                            *)

\* Multiples leave none.
LEMMA RemainderIs ==
  ASSUME NEW e \in Nat \ {0}, NEW q \in Nat, NEW r \in 0 .. e - 1
  PROVE  (q * e + r) % e = r
  BY SMTT(30)

\* A number is a multiple and its remainder.
LEMMA Division ==
  ASSUME NEW e \in Nat \ {0}, NEW a \in Nat
  PROVE  a % e \in 0 .. e - 1 /\ \E q \in Nat : a = q * e + (a % e)
<1>1. a % e \in 0 .. e - 1
  OBVIOUS
<1>2. a \div e \in Nat
  OBVIOUS
<1>3. a = (a \div e) * e + (a % e)
  OBVIOUS
<1> QED BY <1>1, <1>2, <1>3

\* In packets of the endpoint.
Multiple(a) == a % EP_DATA_BUF_SIZE = 0

\* A multiple is followed by a multiple one full packet later.
LEMMA NextMultiple ==
  ASSUME NEW a \in Nat, NEW b \in 1 .. EP_DATA_BUF_SIZE, Multiple(a)
  PROVE  Multiple(a + b) <=> b = EP_DATA_BUF_SIZE
<1> DEFINE e == EP_DATA_BUF_SIZE
<1>1. e \in Nat \ {0} /\ b \in 1 .. e
  BY NcmTxAssumption
<1>2. Multiple(a) /\ \A n : Multiple(n) <=> n % e = 0
  BY DEF Multiple
<1> HIDE DEF e
<1>3. PICK q \in Nat : a = q * e + (a % e)
  BY <1>1, Division
<1>4. a = q * e
  <2>1. a % e = 0
    BY <1>2, Zenon
  <2>2. a = q * e + 0
    BY <1>3, <2>1, Zenon
  <2>3. q * e \in Nat
    BY <1>1
  <2> QED BY <2>2, <2>3
<1>5. CASE b = e
  <2>1. (q + 1) * e = q * e + e
    BY <1>1
  <2>2. a + b = (q + 1) * e + 0
    BY <1>1, <1>4, <1>5, <2>1
  <2>3. ((q + 1) * e + 0) % e = 0
    BY <1>1, RemainderIs
  <2> QED BY <1>2, <1>5, <2>2, <2>3 DEF e
<1>6. CASE b # e
  <2>1. a + b = q * e + b /\ b \in 0 .. e - 1
    BY <1>1, <1>4, <1>6
  <2>2. (q * e + b) % e = b
    BY <1>1, <2>1, RemainderIs
  <2>3. b # 0
    BY <1>1
  <2> QED BY <1>2, <1>6, <2>1, <2>2, <2>3 DEF e
<1> QED BY <1>5, <1>6

\* Of the numbers below one packet, zero is.
LEMMA ShortMultiple ==
  ASSUME NEW a \in 0 .. EP_DATA_BUF_SIZE - 1 PROVE Multiple(a) <=> a = 0
<1>1. EP_DATA_BUF_SIZE \in Nat \ {0} /\ 0 * EP_DATA_BUF_SIZE + a = a
  BY NcmTxAssumption
<1>2. (0 * EP_DATA_BUF_SIZE + a) % EP_DATA_BUF_SIZE = a
  BY <1>1, RemainderIs
<1> QED BY <1>1, <1>2 DEF Multiple

\* The model's conditions, in these words.
LEMMA InMultiples ==
  /\ NeedsZlp <=> Multiple(currtxdatalen)
  /\ NeedsZlp' <=> Multiple(currtxdatalen')
  /\ \A b : LengthAgrees(b) <=>
       (b.total > EP_DATA_BUF_SIZE /\
          (Multiple(b.total - TOTAL_HEADER_SIZE) <=> Multiple(b.total)))
  BY Zenon DEF NeedsZlp, LengthAgrees, Multiple

-----------------------------------------------------------------------------
(* Where transfers end.                                                    *)

\* The cursor counts whole packets, but for the header packet of a short block.
Paced ==
    /\ txstate = "Header"  => usbmsgtotlen <= EP_DATA_BUF_SIZE
    /\ txstate = "Sending" =>
         \/ usbmsgtotlen > EP_DATA_BUF_SIZE /\ Multiple(txtransactioncnt)
         \/ usbmsgtotlen <= EP_DATA_BUF_SIZE /\ txtransactioncnt = TOTAL_HEADER_SIZE

\* The tip is full in the middle of a block, and between two blocks it is not; at
\* the end of one it is if a zero-length packet is due.
TipIsClosed ==
    LengthAgrees(Tip.ntb) =>
        IF txstate = "Zlp" THEN NeedsZlp <=> Tip.len = EP_DATA_BUF_SIZE
        ELSE IF txstate = "Sending" /\ txtransactioncnt > 0
               THEN Tip.len = EP_DATA_BUF_SIZE
               ELSE Tip.len < EP_DATA_BUF_SIZE

DInv == IInv /\ Paced /\ TipIsClosed /\ AgreedDelimited

\* A push keeps what was delimited, if it is right after the tip.
LEMMA PushDelimits ==
  ASSUME usbtxring \in Seq(Packet), currtxbuf \in Packet, AgreedDelimited, NEW p \in Packet,
         LengthAgrees(Tip.ntb) => Delimits(Tip, p),
         usbtxring' = Append(usbtxring, p), currtxbuf' = currtxbuf
  PROVE  AgreedDelimited'
<1> DEFINE n == Len(usbtxring)
<1>1. n \in Nat /\ Len(usbtxring') = n + 1 /\ Tip = Stream[n + 1]
  BY StreamShape DEF Tip
<1>2. /\ \A i \in 1 .. n + 1 : Stream'[i] = Stream[i]
      /\ Stream'[n + 2] = p
  BY <1>1 DEF Stream
<1> HIDE DEF n
<1>3. ASSUME NEW i \in 1 .. n + 1, LengthAgrees(Stream'[i].ntb)
      PROVE  Delimits(Stream'[i], Stream'[i + 1])
  <2>1. CASE i = n + 1
    BY <1>1, <1>2, <1>3, <2>1
  <2>2. CASE i \in 1 .. n
    <3>1. i + 1 \in 1 .. n + 1
      BY <1>1, <2>2
    <3> QED BY <1>2, <1>3, <2>2, <3>1 DEF AgreedDelimited, n
  <2> QED BY <1>1, <2>1, <2>2
<1> QED BY <1>1, <1>3 DEF AgreedDelimited, LengthAgrees, Delimits

\* A pop keeps it too.
LEMMA PopDelimits ==
  ASSUME usbtxring \in Seq(Packet), currtxbuf \in Packet, AgreedDelimited,
         usbtxring # <<>>, currtxbuf' = Head(usbtxring), usbtxring' = Tail(usbtxring)
  PROVE  AgreedDelimited'
<1> DEFINE n == Len(usbtxring)
<1>1. n \in Nat \ {0} /\ Len(usbtxring') = n - 1
  OBVIOUS
<1>2. \A i \in 1 .. n : Stream'[i] = Stream[i + 1]
  BY <1>1 DEF Stream
<1> HIDE DEF n
<1>3. ASSUME NEW i \in 1 .. n - 1, LengthAgrees(Stream'[i].ntb)
      PROVE  Delimits(Stream'[i], Stream'[i + 1])
  <2>1. i + 1 \in 1 .. n /\ i \in 1 .. n
    BY <1>1
  <2>2. Stream'[i] = Stream[i + 1] /\ Stream'[i + 1] = Stream[(i + 1) + 1]
    BY <1>2, <2>1
  <2> QED BY <1>3, <2>1, <2>2 DEF AgreedDelimited, n
<1> QED BY <1>1, <1>3 DEF AgreedDelimited, LengthAgrees, Delimits

\* Without a push or a pop nothing changes.
LEMMA SameDelimits ==
  ASSUME UNCHANGED <<usbtxring, currtxbuf>>, AgreedDelimited
  PROVE  AgreedDelimited' /\ Tip' = Tip
  BY DEF AgreedDelimited, Tip, Stream, LengthAgrees, Delimits

\* What a push of the next n bytes of the block does to it, where n of them are a
\* whole packet or all that are left.
LEMMA PushDelimited ==
  ASSUME DInv, IInv', txstate \in {"Header", "Sending"},
         NEW n \in 1 .. EP_DATA_BUF_SIZE,
         Push(PacketOf(ncmmsgtxbuf, txtransactioncnt, n)),
         UNCHANGED <<currtxbuf, ncmmsgtxbuf>>
  PROVE  AgreedDelimited' /\ Tip' = PacketOf(ncmmsgtxbuf, txtransactioncnt, n)
<1> DEFINE p == PacketOf(ncmmsgtxbuf, txtransactioncnt, n)
<1>1. usbtxring \in Seq(Packet) /\ currtxbuf \in Packet /\ p \in Packet /\ p.len = n
  BY PacketOfType DEF DInv, IInv, TypeOK, PacketOf
<1>2. usbtxring' = Append(usbtxring, p)
  BY DEF Push
<1>3. p.off = txtransactioncnt /\ txtransactioncnt \in Nat
      /\ (txstate = "Header" => txtransactioncnt = 0)
  BY DEF DInv, IInv, TypeOK, Cursor, Fresh, BetweenBlocks, PacketOf
<1>4. LengthAgrees(Tip.ntb) => Delimits(Tip, p)
  BY <1>3, NcmTxAssumption DEF DInv, TipIsClosed, Delimits
<1>5. AgreedDelimited'
  BY <1>1, <1>2, <1>4, PushDelimits DEF DInv
<1>6. Tip' = p
  <2>1. Tip' = usbtxring'[Len(usbtxring')]
    <3>1. Stream' = <<currtxbuf>> \o Append(usbtxring, p)
      BY <1>2 DEF Stream
    <3> QED BY <1>1, <1>2, <3>1 DEF Tip
  <2> QED BY <1>1, <1>2, <2>1
<1> QED BY <1>5, <1>6

\* Ready: a block that fits no packet is sent in whole ones.
LEMMA TxReadyDelimited == ASSUME DInv, IInv', TxReady PROVE DInv'
<1>1. AgreedDelimited' /\ Tip' = Tip
  BY SameDelimits DEF DInv, TxReady
<1>2. txtransactioncnt = 0 /\ txstate = "Ready" /\ txstate' # "Zlp"
  BY DEF DInv, IInv, Cursor, BetweenBlocks, TxReady
<1>3. usbmsgtotlen' \in Nat /\ EP_DATA_BUF_SIZE \in Nat
  BY NcmTxAssumption DEF IInv, TypeOK
<1>4. Paced'
  <2>1. txstate' = IF usbmsgtotlen' <= EP_DATA_BUF_SIZE THEN "Header" ELSE "Sending"
    BY DEF TxReady
  <2>2. txtransactioncnt' = 0
    BY <1>2 DEF TxReady
  <2>3. Multiple(0)
    BY NcmTxAssumption, ShortMultiple
  <2> QED BY <1>3, <2>1, <2>2, <2>3 DEF Paced
<1>5. TipIsClosed'
  <2>1. txtransactioncnt' = 0
    BY <1>2 DEF TxReady
  <2> QED BY <1>1, <1>2, <2>1 DEF DInv, TipIsClosed, LengthAgrees
<1> QED BY <1>1, <1>4, <1>5 DEF DInv

\* Header: the block goes on after it.
LEMMA TxHeaderDelimited == ASSUME DInv, IInv', TxHeader PROVE DInv'
<1>1. /\ txtransactioncnt = 0 /\ txstate = "Header" /\ usbmsgtotlen \in Nat
      /\ usbmsgtotlen = ncmmsgtxbuf.total /\ usbmsgtotlen > TOTAL_HEADER_SIZE
      /\ TOTAL_HEADER_SIZE \in 1 .. EP_DATA_BUF_SIZE
  BY NcmTxAssumption DEF DInv, IInv, Cursor, Fresh, BetweenBlocks, TypeOK, TxHeader
<1>2. /\ txstate' = "Sending" /\ txtransactioncnt' = TOTAL_HEADER_SIZE
      /\ usbmsgtotlen' = usbmsgtotlen
  BY <1>1 DEF TxHeader
<1>3. AgreedDelimited' /\ Tip' = PacketOf(ncmmsgtxbuf, 0, TOTAL_HEADER_SIZE)
  <2>1. /\ Push(PacketOf(ncmmsgtxbuf, txtransactioncnt, TOTAL_HEADER_SIZE))
        /\ UNCHANGED <<currtxbuf, ncmmsgtxbuf>>
    BY <1>1 DEF TxHeader
  <2> QED BY <1>1, <2>1, PushDelimited
<1>4. usbmsgtotlen <= EP_DATA_BUF_SIZE
  BY <1>1 DEF DInv, Paced
<1>5. TipIsClosed'
  <2>1. Tip'.ntb.total = usbmsgtotlen
    BY <1>1, <1>3 DEF PacketOf
  <2> QED BY <1>1, <1>4, <2>1, NcmTxAssumption DEF TipIsClosed, LengthAgrees
<1>6. Paced'
  BY <1>2, <1>4 DEF Paced
<1> QED BY <1>3, <1>5, <1>6 DEF DInv

\* Sending: a packet that is not the last one is full; the last one is what the
\* remainder of the block is.
LEMMA TxSendingDelimited == ASSUME DInv, IInv', TxSending PROVE DInv'
<1> DEFINE n == MinOf(usbmsgtotlen - txtransactioncnt, EP_DATA_BUF_SIZE)
<1>1. /\ txtransactioncnt \in Nat /\ usbmsgtotlen \in Nat /\ txtransactioncnt < usbmsgtotlen
      /\ usbmsgtotlen = ncmmsgtxbuf.total /\ currtxdatalen \in Nat /\ currtxdatalen > 0
      /\ usbmsgtotlen = TOTAL_HEADER_SIZE + currtxdatalen
      /\ EP_DATA_BUF_SIZE \in Nat \ {0} /\ TOTAL_HEADER_SIZE \in 1 .. EP_DATA_BUF_SIZE
  BY NcmTxAssumption DEF DInv, IInv, Cursor, Fresh, Partway, BetweenBlocks, TypeOK, TxSending
<1>2. /\ n \in 1 .. EP_DATA_BUF_SIZE /\ txtransactioncnt + n <= usbmsgtotlen
      /\ n = EP_DATA_BUF_SIZE \/ txtransactioncnt + n = usbmsgtotlen
  BY <1>1 DEF MinOf
<1>3. /\ txtransactioncnt' = txtransactioncnt + n
      /\ txstate' = IF txtransactioncnt + n = usbmsgtotlen THEN "Zlp" ELSE "Sending"
      /\ Push(PacketOf(ncmmsgtxbuf, txtransactioncnt, n)) /\ txstate = "Sending"
      /\ UNCHANGED <<currtxbuf, ncmmsgtxbuf, usbmsgtotlen, currtxdatalen>>
  BY DEF TxSending
<1> HIDE DEF n
<1>4. AgreedDelimited' /\ Tip' = PacketOf(ncmmsgtxbuf, txtransactioncnt, n)
  BY <1>2, <1>3, PushDelimited
<1>5. Tip'.ntb = ncmmsgtxbuf /\ Tip'.off = txtransactioncnt /\ Tip'.len = n
  BY <1>4 DEF PacketOf
<1>6. \/ usbmsgtotlen > EP_DATA_BUF_SIZE /\ Multiple(txtransactioncnt)
      \/ txtransactioncnt = TOTAL_HEADER_SIZE /\ usbmsgtotlen <= EP_DATA_BUF_SIZE
  BY <1>3 DEF DInv, Paced
<1>7. CASE txtransactioncnt + n # usbmsgtotlen
  <2>1. n = EP_DATA_BUF_SIZE /\ txstate' = "Sending"
    BY <1>2, <1>3, <1>7
  <2>2. usbmsgtotlen > EP_DATA_BUF_SIZE /\ Multiple(txtransactioncnt)
    BY <1>1, <1>2, <1>6, <2>1
  <2>3. Multiple(txtransactioncnt + n)
    BY <1>1, <1>2, <2>1, <2>2, NextMultiple
  <2>4. Paced'
    BY <1>1, <1>2, <1>3, <2>1, <2>2, <2>3 DEF Paced
  <2>5. TipIsClosed'
    BY <1>1, <1>2, <1>3, <1>5, <2>1 DEF TipIsClosed
  <2> QED BY <1>4, <2>4, <2>5 DEF DInv
<1>8. CASE txtransactioncnt + n = usbmsgtotlen
  <2>1. txstate' = "Zlp" /\ Paced'
    BY <1>3, <1>8 DEF Paced
  <2>2. LengthAgrees(ncmmsgtxbuf) => (Multiple(currtxdatalen) <=> n = EP_DATA_BUF_SIZE)
    <3>1. CASE usbmsgtotlen > EP_DATA_BUF_SIZE /\ Multiple(txtransactioncnt)
      <4>1. Multiple(usbmsgtotlen) <=> n = EP_DATA_BUF_SIZE
        BY <1>1, <1>2, <1>8, <3>1, NextMultiple
      <4>2. usbmsgtotlen - TOTAL_HEADER_SIZE = currtxdatalen
        BY <1>1
      <4> QED BY <1>1, <3>1, <4>1, <4>2, InMultiples
    <3>2. CASE usbmsgtotlen <= EP_DATA_BUF_SIZE
      BY <1>1, <3>2 DEF LengthAgrees
    <3> QED BY <1>6, <3>1, <3>2
  <2>3. TipIsClosed'
    <3>1. LengthAgrees(ncmmsgtxbuf)' => LengthAgrees(ncmmsgtxbuf)
      BY <1>3 DEF LengthAgrees
    <3>2. NeedsZlp' <=> Multiple(currtxdatalen)
      BY <1>3, InMultiples
    <3> QED BY <1>3, <1>5, <2>1, <2>2, <3>1, <3>2 DEF TipIsClosed, LengthAgrees
  <2> QED BY <1>4, <2>1, <2>3 DEF DInv
<1> QED BY <1>7, <1>8

\* Zlp: the zero-length packet is pushed after a full one, if the lengths agree.
LEMMA TxZlpDelimited == ASSUME DInv, IInv', TxZlp PROVE DInv'
<1>1. txstate = "Zlp" /\ txstate' = "Ready" /\ currtxbuf' = currtxbuf
  BY DEF TxZlp
<1>2. Paced'
  BY <1>1 DEF Paced
<1>3. CASE NeedsZlp
  <2> DEFINE p == PacketOf(ncmmsgtxbuf, usbmsgtotlen, 0)
  <2>1. /\ p \in Packet /\ p.len = 0 /\ p.off = usbmsgtotlen
        /\ usbtxring \in Seq(Packet) /\ currtxbuf \in Packet
    BY PacketOfType, NcmTxAssumption DEF DInv, IInv, TypeOK, PacketOf
  <2>2. LengthAgrees(Tip.ntb) => Delimits(Tip, p)
    <3>1. usbmsgtotlen # 0
      BY <1>1, NcmTxAssumption DEF DInv, IInv, TypeOK, Cursor
    <3> QED BY <1>1, <1>3, <2>1, <3>1, NcmTxAssumption DEF DInv, TipIsClosed, Delimits
  <2>3. usbtxring' = Append(usbtxring, p)
    BY <1>3 DEF TxZlp, Push
  <2>4. AgreedDelimited'
    BY <1>1, <2>1, <2>2, <2>3, PushDelimits DEF DInv
  <2>5. Tip' = p
    <3>1. Stream' = <<currtxbuf>> \o Append(usbtxring, p)
      BY <1>1, <2>3 DEF Stream
    <3> QED BY <2>1, <3>1 DEF Tip
  <2>6. TipIsClosed'
    BY <1>1, <2>1, <2>5, NcmTxAssumption DEF TipIsClosed
  <2> QED BY <1>2, <2>4, <2>6 DEF DInv
<1>4. CASE ~NeedsZlp
  <2>1. AgreedDelimited' /\ Tip' = Tip
    BY <1>4, SameDelimits DEF DInv, TxZlp
  <2>2. TipIsClosed'
    <3>1. Tip.len \in 0 .. EP_DATA_BUF_SIZE
      <4>1. usbtxring \in Seq(Packet) /\ currtxbuf \in Packet
        BY DEF DInv, IInv, TypeOK
      <4>2. Tip \in Packet
        BY <4>1, StreamShape
      <4> QED BY <4>2 DEF Packet
    <3> QED BY <1>1, <1>4, <2>1, <3>1, NcmTxAssumption DEF DInv, TipIsClosed, LengthAgrees
  <2> QED BY <1>2, <2>1, <2>2 DEF DInv
<1> QED BY <1>3, <1>4

\* Nothing is sent in the beginning.
LEMMA InitDInv == Init => DInv
<1> SUFFICES ASSUME Init PROVE DInv
  OBVIOUS
<1>1. usbtxring = <<>> /\ txstate = "Ready" /\ currtxbuf.len = 0
  BY DEF Init, PacketOf
<1>2. IInv
  BY InitIInv
<1>3. Tip = currtxbuf
  BY <1>1, <1>2, StreamShape DEF IInv, TypeOK
<1> QED BY <1>1, <1>2, <1>3, NcmTxAssumption DEF DInv, Paced, TipIsClosed, AgreedDelimited

\* Every step keeps it.
LEMMA NextDInv == DInv /\ [Next]_vars => DInv'
<1> SUFFICES ASSUME DInv, [Next]_vars PROVE DInv'
  OBVIOUS
<1>1. IInv'
  BY NextIInv DEF DInv
<1>2. ASSUME Tip' = Tip, UNCHANGED <<txstate, txtransactioncnt, usbmsgtotlen, currtxdatalen>>
      PROVE  Paced' /\ TipIsClosed'
  BY <1>2 DEF DInv, Paced, TipIsClosed, LengthAgrees, NeedsZlp
<1>3. CASE ProcessTx
  BY <1>1, <1>3, TxReadyDelimited, TxHeaderDelimited, TxSendingDelimited, TxZlpDelimited
     DEF ProcessTx
<1>4. CASE UsbPop
  <2>1. AgreedDelimited' /\ Tip' = Tip
    BY <1>4, PopDelimits, PopKeepsStream DEF DInv, IInv, TypeOK, UsbPop
  <2> QED BY <1>1, <1>2, <1>4, <2>1 DEF DInv, UsbPop
<1>5. CASE (\E len \in FrameLens : ConsumeTxToken(len)) \/ UNCHANGED vars
  <2>1. UNCHANGED <<usbtxring, currtxbuf, txstate, txtransactioncnt, usbmsgtotlen, currtxdatalen>>
    BY <1>5 DEF ConsumeTxToken, vars
  <2>2. AgreedDelimited' /\ Tip' = Tip
    BY <2>1, SameDelimits DEF DInv
  <2> QED BY <1>1, <1>2, <2>1, <2>2 DEF DInv
<1> QED BY <1>3, <1>4, <1>5 DEF Next

-----------------------------------------------------------------------------
(* The frames whose last bytes a sequence of packets carries.              *)

\* Induction, for a set of numbers.
LEMMA Induction ==
  ASSUME NEW S, S \subseteq Nat, 0 \in S, \A n \in S : n + 1 \in S
  PROVE  Nat \subseteq S
<1> DEFINE R == OpToRel(<, Nat)
           T == Nat \ S
<1> SUFFICES ASSUME T # {} PROVE FALSE
  OBVIOUS
<1>1. PICK n \in T : \A m \in T : ~(<<m, n>> \in R)
  <2> HIDE DEF R
  <2>1. IsWellFoundedOn(R, Nat)
    BY NatLessThanWellFounded DEF R
  <2> QED
    BY <2>1, WFMin
<1>2. n \in Nat /\ n # 0
  OBVIOUS
<1>3. n - 1 \in Nat /\ n - 1 < n
  BY <1>2
<1>4. n - 1 \in S
  <2>1. <<n - 1, n>> \in R
    BY <1>2, <1>3 DEF OpToRel
  <2> QED
    BY <1>1, <1>3, <2>1
<1>5. (n - 1) + 1 \in S
  BY <1>4
<1> QED
  BY <1>2, <1>5

\* One packet more.
Extended(frames, p) ==
    IF LastData(p) THEN Append(frames, p.ntb.total - TOTAL_HEADER_SIZE) ELSE frames

\* The recursive function of FramesOn, and its equation for the first n packets.
FramesUpTo(s) ==
    CHOOSE f : f = [i \in 0 .. Len(s) |->
                      IF i = 0 THEN <<>>
                      ELSE IF LastData(s[i])
                             THEN Append(f[i - 1], s[i].ntb.total - TOTAL_HEADER_SIZE)
                             ELSE f[i - 1]]
IsFramesUpTo(s, n, f) ==
    f = [i \in 0 .. n |->
           IF i = 0 THEN <<>>
           ELSE IF LastData(s[i])
                  THEN Append(f[i - 1], s[i].ntb.total - TOTAL_HEADER_SIZE)
                  ELSE f[i - 1]]

\* FramesOn is its value for the last packet.
LEMMA FramesOnDef == ASSUME NEW s PROVE FramesOn(s) = FramesUpTo(s)[Len(s)]
  BY DEF FramesOn, FramesUpTo

\* Such a function exists: it is built packet by packet.
LEMMA FramesUpToExists ==
  ASSUME NEW s, NEW n \in Nat
  PROVE  \E f : IsFramesUpTo(s, n, f)
<1> DEFINE S == {m \in Nat : \E f : IsFramesUpTo(s, m, f)}
<1>1. 0 \in S
  <2> DEFINE f == [i \in 0 .. 0 |-> <<>>]
  <2>1. IsFramesUpTo(s, 0, f)
    BY DEF IsFramesUpTo
  <2> QED
    BY <2>1
<1>2. ASSUME NEW m \in S PROVE m + 1 \in S
  <2>1. PICK f : IsFramesUpTo(s, m, f)
    BY <1>2
  <2> DEFINE g == [i \in 0 .. m + 1 |-> IF i = m + 1 THEN Extended(f[m], s[m + 1]) ELSE f[i]]
  <2>2. ASSUME NEW i \in 0 .. m + 1
        PROVE  g[i] = IF i = 0 THEN <<>>
                      ELSE IF LastData(s[i])
                             THEN Append(g[i - 1], s[i].ntb.total - TOTAL_HEADER_SIZE)
                             ELSE g[i - 1]
    <3>1. CASE i = m + 1
      <4>1. i # 0 /\ i - 1 = m /\ m \in 0 .. m + 1 /\ m # m + 1
        BY <3>1
      <4>2. g[i] = Extended(f[m], s[i]) /\ g[i - 1] = f[m]
        BY <3>1, <4>1
      <4> HIDE DEF g
      <4> QED
        BY <4>1, <4>2 DEF Extended
    <3>2. CASE i # m + 1
      <4>1. i \in 0 .. m /\ (i # 0 => i - 1 \in 0 .. m + 1 /\ i - 1 # m + 1)
        BY <3>2
      <4>2. g[i] = f[i] /\ (i # 0 => g[i - 1] = f[i - 1])
        BY <3>2, <4>1
      <4>3. f[i] = IF i = 0 THEN <<>>
                   ELSE IF LastData(s[i])
                          THEN Append(f[i - 1], s[i].ntb.total - TOTAL_HEADER_SIZE)
                          ELSE f[i - 1]
        BY <2>1, <4>1 DEF IsFramesUpTo
      <4> HIDE DEF g
      <4> QED
        BY <4>2, <4>3
    <3> QED
      BY <3>1, <3>2
  <2>3. IsFramesUpTo(s, m + 1, g)
    <3>1. g = [i \in 0 .. m + 1 |-> g[i]]
      OBVIOUS
    <3> HIDE DEF g
    <3> QED
      BY <2>2, <3>1 DEF IsFramesUpTo
  <2> QED
    BY <2>3
<1>3. Nat \subseteq S
  <2> HIDE DEF S
  <2>1. S \subseteq Nat
    BY DEF S
  <2> QED
    BY <2>1, <1>1, <1>2, Induction
<1> QED
  BY <1>3

\* The recursive equation of FramesOn.
LEMMA FramesUpToDef ==
  ASSUME NEW s, Len(s) \in Nat
  PROVE  /\ FramesUpTo(s)[0] = <<>>
         /\ \A i \in 1 .. Len(s) : FramesUpTo(s)[i] = Extended(FramesUpTo(s)[i - 1], s[i])
<1> DEFINE f == FramesUpTo(s)
<1>1. IsFramesUpTo(s, Len(s), f)
  <2>1. \E g : IsFramesUpTo(s, Len(s), g)
    BY FramesUpToExists
  <2> QED
    BY <2>1 DEF IsFramesUpTo, FramesUpTo
<1> HIDE DEF f
<1>2. f[0] = <<>>
  <2>1. 0 \in 0 .. Len(s)
    OBVIOUS
  <2> QED
    BY <1>1, <2>1 DEF IsFramesUpTo
<1>3. ASSUME NEW i \in 1 .. Len(s) PROVE f[i] = Extended(f[i - 1], s[i])
  <2>1. i \in 0 .. Len(s) /\ i # 0
    OBVIOUS
  <2> QED
    BY <1>1, <2>1 DEF IsFramesUpTo, Extended
<1> QED
  BY <1>2, <1>3 DEF f

\* Lengths of frames, as packets give them.
Lengths == Int

\* A packet gives the length of its frame.
LEMMA PacketLength ==
  ASSUME NEW p \in Packet PROVE p.ntb.total - TOTAL_HEADER_SIZE \in Lengths
  BY NcmTxAssumption DEF Packet, Block, BlockLens, Lengths

\* It is added once, by the last packet with data.
LEMMA ExtendedType ==
  ASSUME NEW p \in Packet, NEW f \in Seq(Lengths)
  PROVE  /\ Extended(f, p) \in Seq(Lengths)
         /\ Len(Extended(f, p)) = IF LastData(p) THEN Len(f) + 1 ELSE Len(f)
<1>1. p.ntb.total - TOTAL_HEADER_SIZE \in Lengths
  BY PacketLength
<1> DEFINE n == p.ntb.total - TOTAL_HEADER_SIZE
<1>2. Append(f, n) \in Seq(Lengths) /\ Len(Append(f, n)) = Len(f) + 1
  <2> HIDE DEF n
  <2> QED
    BY <1>1 DEF n
<1> QED
  BY <1>2 DEF Extended

\* A frame is added at the end, whatever comes before.
LEMMA ExtendedAfter ==
  ASSUME NEW a \in Seq(Lengths), NEW b \in Seq(Lengths), NEW p \in Packet
  PROVE  Extended(a \o b, p) = a \o Extended(b, p)
<1> DEFINE n == p.ntb.total - TOTAL_HEADER_SIZE
           last == <<n>>
<1>1. n \in Lengths
  BY PacketLength
<1> HIDE DEF n
<1>2. last \in Seq(Lengths) /\ a \o b \in Seq(Lengths)
  BY <1>1
<1>3. Append(a \o b, n) = (a \o b) \o last
  BY <1>1, <1>2, AppendIsConcat
<1>4. Append(b, n) = b \o last
  BY <1>1, AppendIsConcat
<1> HIDE DEF last
<1>5. (a \o b) \o last = a \o (b \o last)
  BY <1>2, ConcatAssociative
<1>6. Append(a \o b, n) = a \o Append(b, n)
  BY <1>3, <1>4, <1>5
<1> QED
  BY <1>6 DEF Extended, n

\* No more frames than packets.
LEMMA FramesUpToType ==
  ASSUME NEW s \in Seq(Packet), NEW n \in 0 .. Len(s)
  PROVE  FramesUpTo(s)[n] \in Seq(Lengths) /\ Len(FramesUpTo(s)[n]) <= n
<1> DEFINE f == FramesUpTo(s)
           S == {m \in Nat : m <= Len(s) => f[m] \in Seq(Lengths) /\ Len(f[m]) <= m}
<1>1. Len(s) \in Nat /\ n \in Nat /\ \A i \in 1 .. Len(s) : s[i] \in Packet
  OBVIOUS
<1>2. f[0] = <<>> /\ \A i \in 1 .. Len(s) : f[i] = Extended(f[i - 1], s[i])
  BY <1>1, FramesUpToDef
<1> HIDE DEF f
<1>3. 0 \in S
  <2>1. f[0] \in Seq(Lengths) /\ Len(f[0]) = 0
    BY <1>2
  <2> QED
    BY <2>1
<1>4. ASSUME NEW m \in S PROVE m + 1 \in S
  <2> SUFFICES ASSUME m + 1 <= Len(s)
               PROVE  f[m + 1] \in Seq(Lengths) /\ Len(f[m + 1]) <= m + 1
    OBVIOUS
  <2>1. f[m] \in Seq(Lengths) /\ Len(f[m]) <= m /\ m \in Nat
    BY <1>1
  <2>2. m + 1 \in 1 .. Len(s) /\ (m + 1) - 1 = m
    BY <1>1, <2>1
  <2>3. f[m + 1] = Extended(f[m], s[m + 1]) /\ s[m + 1] \in Packet
    BY <1>1, <1>2, <2>2
  <2>4. /\ f[m + 1] \in Seq(Lengths)
        /\ Len(f[m + 1]) = IF LastData(s[m + 1]) THEN Len(f[m]) + 1 ELSE Len(f[m])
    BY <2>1, <2>3, ExtendedType
  <2>5. Len(f[m]) \in Nat
    BY <2>1
  <2> QED
    BY <2>1, <2>4, <2>5
<1>5. Nat \subseteq S
  <2> HIDE DEF S
  <2>1. S \subseteq Nat
    BY DEF S
  <2> QED
    BY <2>1, <1>3, <1>4, Induction
<1>6. n \in S
  BY <1>1, <1>5
<1> QED
  BY <1>6 DEF f

\* The same of a whole ring.
LEMMA FramesOnType ==
  ASSUME NEW s \in Seq(Packet)
  PROVE  FramesOn(s) \in Seq(Lengths) /\ Len(FramesOn(s)) \in Nat /\ Len(FramesOn(s)) <= Len(s)
<1>1. Len(s) \in 0 .. Len(s)
  OBVIOUS
<1>2. FramesOn(s) \in Seq(Lengths) /\ Len(FramesOn(s)) <= Len(s)
  BY <1>1, FramesUpToType, FramesOnDef
<1> QED
  BY <1>2

\* The frames of a prefix do not depend on what follows it.
LEMMA FramesAgree ==
  ASSUME NEW s \in Seq(Packet), NEW t \in Seq(Packet), NEW n \in Nat,
         n <= Len(s), n <= Len(t), \A i \in 1 .. n : s[i] = t[i]
  PROVE  FramesUpTo(s)[n] = FramesUpTo(t)[n]
<1> DEFINE f == FramesUpTo(s)
           g == FramesUpTo(t)
           S == {m \in Nat : m <= n => f[m] = g[m]}
<1>1. /\ Len(s) \in Nat /\ f[0] = <<>> /\ \A i \in 1 .. Len(s) : f[i] = Extended(f[i - 1], s[i])
      /\ Len(t) \in Nat /\ g[0] = <<>> /\ \A i \in 1 .. Len(t) : g[i] = Extended(g[i - 1], t[i])
  <2>1. Len(s) \in Nat /\ Len(t) \in Nat
    OBVIOUS
  <2> QED
    BY <2>1, FramesUpToDef
<1> HIDE DEF f, g
<1>2. 0 \in S
  BY <1>1
<1>3. ASSUME NEW m \in S PROVE m + 1 \in S
  <2> SUFFICES ASSUME m + 1 <= n PROVE f[m + 1] = g[m + 1]
    OBVIOUS
  <2>1. /\ m \in Nat /\ f[m] = g[m] /\ (m + 1) - 1 = m
        /\ m + 1 \in 1 .. n /\ m + 1 \in 1 .. Len(s) /\ m + 1 \in 1 .. Len(t)
    BY <1>1
  <2>2. f[m + 1] = Extended(f[m], s[m + 1]) /\ g[m + 1] = Extended(g[m], t[m + 1])
    BY <1>1, <2>1
  <2> QED
    BY <2>1, <2>2
<1>4. Nat \subseteq S
  <2> HIDE DEF S
  <2>1. S \subseteq Nat
    BY DEF S
  <2> QED
    BY <2>1, <1>2, <1>3, Induction
<1> QED
  BY <1>4 DEF f, g

\* An empty ring holds no frame.
LEMMA FramesOnNothing == FramesOn(<<>>) = <<>>
<1>1. <<>> \in Seq(Packet) /\ Len(<<>>) = 0
  OBVIOUS
<1> QED
  BY <1>1, FramesUpToDef, FramesOnDef

\* A packet pushed on a ring adds the frame it completes, and no other does.
LEMMA FramesOnAppend ==
  ASSUME NEW s \in Seq(Packet), NEW p \in Packet
  PROVE  FramesOn(Append(s, p)) = Extended(FramesOn(s), p)
<1> DEFINE t == Append(s, p)
<1>1. /\ t \in Seq(Packet) /\ Len(s) \in Nat /\ Len(t) = Len(s) + 1
      /\ t[Len(s) + 1] = p /\ \A i \in 1 .. Len(s) : s[i] = t[i]
  OBVIOUS
<1> HIDE DEF t
<1>2. FramesUpTo(s)[Len(s)] = FramesUpTo(t)[Len(s)]
  BY <1>1, FramesAgree
<1>3. Len(t) \in 1 .. Len(t) /\ Len(t) - 1 = Len(s) /\ Len(t) \in Nat
  BY <1>1
<1>4. FramesUpTo(t)[Len(t)] = Extended(FramesUpTo(t)[Len(t) - 1], t[Len(t)])
  BY <1>3, FramesUpToDef
<1>5. FramesOn(t) = Extended(FramesOn(s), p)
  BY <1>1, <1>2, <1>3, <1>4, FramesOnDef
<1> QED
  BY <1>5 DEF t

\* A ring without its oldest packet has lost the frame that packet completed.
LEMMA FramesOnTail ==
  ASSUME NEW s \in Seq(Packet), s # <<>>
  PROVE  FramesOn(s) = Extended(<<>>, Head(s)) \o FramesOn(Tail(s))
<1> DEFINE t == Tail(s)
           f == FramesUpTo(s)
           g == FramesUpTo(t)
           first == Extended(<<>>, Head(s))
           S == {m \in Nat : m <= Len(t) => f[m + 1] = first \o g[m]}
<1>1. /\ Len(s) \in Nat /\ Len(t) \in Nat /\ Len(s) = Len(t) + 1 /\ t \in Seq(Packet)
      /\ \A i \in 1 .. Len(t) : t[i] = s[i + 1] /\ t[i] \in Packet
      /\ Head(s) = s[1] /\ Head(s) \in Packet
  OBVIOUS
<1>2. first \in Seq(Lengths)
  <2>1. <<>> \in Seq(Lengths)
    OBVIOUS
  <2> QED
    BY <2>1, <1>1, ExtendedType
<1>3. \A m \in 0 .. Len(t) : g[m] \in Seq(Lengths)
  BY <1>1, FramesUpToType
<1>4. /\ f[0] = <<>> /\ \A i \in 1 .. Len(s) : f[i] = Extended(f[i - 1], s[i])
      /\ g[0] = <<>> /\ \A i \in 1 .. Len(t) : g[i] = Extended(g[i - 1], t[i])
  BY <1>1, FramesUpToDef
<1> HIDE DEF t, f, g, first
<1>5. 0 \in S
  <2>1. 0 + 1 \in 1 .. Len(s) /\ (0 + 1) - 1 = 0 /\ 0 + 1 = 1
    BY <1>1
  <2>2. f[0 + 1] = first
    BY <1>1, <1>4, <2>1 DEF first
  <2>3. first \o <<>> = first
    BY <1>2
  <2> QED
    BY <1>4, <2>2, <2>3
<1>6. ASSUME NEW m \in S PROVE m + 1 \in S
  <2> SUFFICES ASSUME m + 1 <= Len(t) PROVE f[(m + 1) + 1] = first \o g[m + 1]
    OBVIOUS
  <2>1. /\ m \in Nat /\ m <= Len(t) /\ m \in 0 .. Len(t) /\ m + 1 \in 1 .. Len(t)
        /\ (m + 1) + 1 \in 1 .. Len(s) /\ ((m + 1) + 1) - 1 = m + 1 /\ (m + 1) - 1 = m
    BY <1>1
  <2>2. f[m + 1] = first \o g[m]
    BY <2>1
  <2> DEFINE p == t[m + 1]
  <2>3. p \in Packet /\ p = s[(m + 1) + 1]
    BY <1>1, <2>1
  <2> HIDE DEF p
  <2>4. f[(m + 1) + 1] = Extended(f[m + 1], p) /\ g[m + 1] = Extended(g[m], p)
    BY <1>4, <2>1, <2>3 DEF p
  <2>5. g[m] \in Seq(Lengths)
    BY <1>3, <2>1
  <2> HIDE DEF S
  <2>6. Extended(first \o g[m], p) = first \o Extended(g[m], p)
    BY <1>2, <2>3, <2>5, ExtendedAfter
  <2> QED
    BY <2>2, <2>4, <2>6
<1>7. Nat \subseteq S
  <2> HIDE DEF S
  <2>1. S \subseteq Nat
    BY DEF S
  <2> QED
    BY <2>1, <1>5, <1>6, Induction
<1>8. f[Len(t) + 1] = first \o g[Len(t)]
  <2>1. Len(t) \in S /\ Len(t) <= Len(t)
    BY <1>1, <1>7
  <2> QED
    BY <2>1
<1> QED
  BY <1>1, <1>8, FramesOnDef DEF f, g, t, first

-----------------------------------------------------------------------------
(* The transmit path as a channel of frames.                               *)

\* The frames in the ring, the one being cut up, those of the IP stack's ring.
Joined(a, b, c) == (a \o b) \o c
JoinedRight(a, b, c) == a \o (b \o c)
BeingCut == IF txstate \in {"Header", "Sending"} THEN <<currtxdatalen>> ELSE <<>>

\* Associativity, for the ends of a queue.
LEMMA JoinAssociative ==
  ASSUME NEW S, NEW a \in Seq(S), NEW b \in Seq(S), NEW c \in Seq(S)
  PROVE  Joined(a, b, c) = JoinedRight(a, b, c)
  BY ConcatAssociative DEF Joined, JoinedRight

\* A frame accepted at the end.
LEMMA JoinAppend ==
  ASSUME NEW S, NEW a \in Seq(S), NEW b \in Seq(S), NEW c \in Seq(S), NEW x \in S
  PROVE  Joined(a, b, Append(c, x)) = Append(Joined(a, b, c), x)
<1> DEFINE ab == a \o b
           last == <<x>>
<1>1. ab \in Seq(S) /\ last \in Seq(S)
  OBVIOUS
<1>2. Append(ab \o c, x) = (ab \o c) \o last
  <2>1. ab \o c \in Seq(S)
    OBVIOUS
  <2> QED
    BY <2>1, AppendIsConcat
<1>3. Append(c, x) = c \o last
  BY AppendIsConcat
<1> HIDE DEF last, ab
<1>4. (ab \o c) \o last = ab \o (c \o last)
  <2>1. Joined(ab, c, last) = JoinedRight(ab, c, last)
    BY <1>1, JoinAssociative
  <2> QED
    BY <2>1, Zenon DEF Joined, JoinedRight
<1>5. ab \o Append(c, x) = Append(ab \o c, x)
  BY <1>2, <1>3, <1>4
<1> QED
  BY <1>5 DEF Joined, ab

\* A frame taken from the IP stack's ring to be cut up.
LEMMA JoinTaken ==
  ASSUME NEW S, NEW a \in Seq(S), NEW c \in Seq(S), c # <<>>
  PROVE  Joined(a, <<Head(c)>>, Tail(c)) = Joined(a, <<>>, c)
<1> DEFINE h == <<Head(c)>>
           t == Tail(c)
<1>1. h \in Seq(S) /\ t \in Seq(S)
  <2>1. Head(c) \in S /\ t \in Seq(S)
    OBVIOUS
  <2>2. h \in Seq(S)
    BY <2>1
  <2> QED
    BY <2>1, <2>2
<1>0. h \o t = c
  OBVIOUS
<1>2. a \o <<>> = a
  OBVIOUS
<1> HIDE DEF h, t
<1>3. Joined(a, h, t) = JoinedRight(a, h, t)
  BY <1>1, JoinAssociative
<1>4. Joined(a, <<>>, c) = a \o c
  BY <1>2 DEF Joined
<1> QED
  BY <1>0, <1>3, <1>4 DEF JoinedRight, h, t

\* A frame completely in the ring of packets.
LEMMA JoinMoved ==
  ASSUME NEW S, NEW a \in Seq(S), NEW c \in Seq(S), NEW x \in S
  PROVE  Joined(Append(a, x), <<>>, c) = Joined(a, <<x>>, c)
<1>1. Append(a, x) = a \o <<x>>
  BY AppendIsConcat
<1>2. Append(a, x) \in Seq(S)
  OBVIOUS
<1>3. Append(a, x) \o <<>> = Append(a, x)
  BY <1>2
<1> QED
  BY <1>1, <1>3 DEF Joined

\* A frame completely popped.
LEMMA JoinPopped ==
  ASSUME NEW S, NEW a \in Seq(S), NEW b \in Seq(S), NEW c \in Seq(S), NEW x \in S
  PROVE  /\ Joined(<<x>> \o a, b, c) # <<>>
         /\ Tail(Joined(<<x>> \o a, b, c)) = Joined(a, b, c)
<1> DEFINE first == <<x>>
           abc == Joined(a, b, c)
<1>1. first \in Seq(S) /\ a \o b \in Seq(S)
  OBVIOUS
<1>2. abc \in Seq(S)
  BY <1>1 DEF Joined
<1> HIDE DEF first
<1>3. Joined(first, a, b) = JoinedRight(first, a, b)
  BY <1>1, JoinAssociative
<1> DEFINE ab == a \o b
<1>4. ab \in Seq(S)
  BY <1>1
<1> HIDE DEF ab
<1>5. Joined(first, ab, c) = JoinedRight(first, ab, c)
  BY <1>1, <1>4, JoinAssociative
<1>6. Joined(first \o a, b, c) = first \o abc
  BY <1>3, <1>5, Zenon DEF Joined, JoinedRight, ab, abc
<1> HIDE DEF abc
<1>7. first \o abc # <<>> /\ Tail(first \o abc) = abc
  BY <1>2 DEF first
<1> QED
  BY <1>6, <1>7 DEF first, abc

\* Their number.
LEMMA JoinLength ==
  ASSUME NEW S, NEW a \in Seq(S), NEW b \in Seq(S), NEW c \in Seq(S)
  PROVE  Len(Joined(a, b, c)) = Len(a) + Len(b) + Len(c)
<1> DEFINE ab == a \o b
<1>1. ab \in Seq(S)
  OBVIOUS
<1>2. Len(ab) = Len(a) + Len(b)
  OBVIOUS
<1> HIDE DEF ab
<1>3. Len(ab \o c) = Len(ab) + Len(c)
  BY <1>1
<1> QED
  BY <1>2, <1>3 DEF Joined, ab

\* The parts of Inflight are lengths.
LEMMA PartsType ==
  ASSUME IInv
  PROVE  /\ Inflight = Joined(FramesOn(usbtxring), BeingCut, txq)
         /\ FramesOn(usbtxring) \in Seq(Lengths) /\ BeingCut \in Seq(Lengths)
         /\ txq \in Seq(Lengths) /\ currtxdatalen \in Lengths
         /\ usbtxring \in Seq(Packet)
<1>1. usbtxring \in Seq(Packet) /\ txq \in Seq(FrameLens) /\ currtxdatalen \in Nat
  BY DEF IInv, TypeOK
<1>2. currtxdatalen \in Lengths /\ FrameLens \subseteq Lengths
  BY <1>1, NcmTxAssumption DEF Lengths
<1>3. BeingCut \in Seq(Lengths)
  <2>1. <<currtxdatalen>> \in Seq(Lengths) /\ <<>> \in Seq(Lengths)
    BY <1>2
  <2> QED
    BY <2>1 DEF BeingCut
<1>4. txq \in Seq(Lengths)
  BY <1>1, <1>2, SeqMonotonic
<1>5. Inflight = Joined(FramesOn(usbtxring), BeingCut, txq)
  BY DEF Inflight, Joined, BeingCut
<1> QED
  BY <1>1, <1>2, <1>3, <1>4, <1>5, FramesOnType

\* The oldest packet leaves a ring: the frame it completes, and no other, is gone.
LEMMA PopFrames ==
  ASSUME NEW ring \in Seq(Packet), ring # <<>>,
         NEW b \in Seq(Lengths), NEW c \in Seq(Lengths)
  PROVE  \/ Joined(FramesOn(Tail(ring)), b, c) = Joined(FramesOn(ring), b, c)
         \/ /\ Joined(FramesOn(ring), b, c) # <<>>
            /\ Joined(FramesOn(Tail(ring)), b, c) = Tail(Joined(FramesOn(ring), b, c))
<1> DEFINE p == Head(ring)
           rest == FramesOn(Tail(ring))
<1>1. p \in Packet /\ Tail(ring) \in Seq(Packet)
  OBVIOUS
<1>2. rest \in Seq(Lengths)
  BY <1>1, FramesOnType
<1>3. FramesOn(ring) = Extended(<<>>, p) \o rest
  BY FramesOnTail
<1>4. p.ntb.total - TOTAL_HEADER_SIZE \in Lengths
  BY <1>1, PacketLength
<1> HIDE DEF p, rest
<1>5. CASE LastData(p)
  <2> DEFINE n == p.ntb.total - TOTAL_HEADER_SIZE
  <2>1. Extended(<<>>, p) = <<n>>
    <3>1. Extended(<<>>, p) = Append(<<>>, n)
      BY <1>5 DEF Extended
    <3> HIDE DEF n
    <3> QED BY <3>1
  <2> HIDE DEF n
  <2>2. n \in Lengths
    BY <1>4 DEF n
  <2>3. FramesOn(ring) = <<n>> \o rest
    BY <1>3, <2>1
  <2>4. /\ Joined(<<n>> \o rest, b, c) # <<>>
        /\ Tail(Joined(<<n>> \o rest, b, c)) = Joined(rest, b, c)
    BY <1>2, <2>2, JoinPopped
  <2> QED BY <2>3, <2>4 DEF rest
<1>6. CASE ~LastData(p)
  <2>1. Extended(<<>>, p) = <<>>
    BY <1>6 DEF Extended
  <2>2. <<>> \o rest = rest
    BY <1>2
  <2> QED BY <1>3, <2>1, <2>2 DEF rest
<1> QED BY <1>5, <1>6

\* What a call of process_messages does to the frames under way, whatever frames a
\* are before the ones it works on: at most one packet is pushed, and together
\* with the frame it completes they are the same as before.
SameFrames == \A a \in Seq(Lengths) : Joined(a, BeingCut', txq') = Joined(a, BeingCut, txq)
SameFramesWith(p) ==
    \A a \in Seq(Lengths) :
        Joined(Extended(a, p), BeingCut', txq') = Joined(a, BeingCut, txq)

\* Ready: the frame is taken over from the IP stack's ring.
LEMMA TxReadyFrames ==
  ASSUME IInv, TxReady
  PROVE  usbtxring' = usbtxring /\ SameFrames
<1>1. BeingCut = <<>> /\ BeingCut' = <<Head(txq)>>
  BY DEF TxReady, BeingCut
<1>2. txq # <<>> /\ txq' = Tail(txq) /\ usbtxring' = usbtxring
  BY DEF TxReady
<1>3. ASSUME NEW a \in Seq(Lengths)
      PROVE  Joined(a, <<Head(txq)>>, Tail(txq)) = Joined(a, <<>>, txq)
  BY <1>2, <1>3, PartsType, JoinTaken
<1> QED BY <1>1, <1>2, <1>3 DEF SameFrames

\* A packet that does not complete a block with data.
LEMMA PushWithin ==
  ASSUME NEW p \in Packet, ~LastData(p), UNCHANGED txq, BeingCut' = BeingCut
  PROVE  SameFramesWith(p)
  BY DEF SameFramesWith, Extended

\* Header: bytes of the frame are still to come.
LEMMA TxHeaderFrames ==
  ASSUME IInv, TxHeader
  PROVE  \E p \in Packet : usbtxring' = Append(usbtxring, p) /\ SameFramesWith(p)
<1> DEFINE p == PacketOf(ncmmsgtxbuf, 0, TOTAL_HEADER_SIZE)
<1>1. /\ usbmsgtotlen = ncmmsgtxbuf.total /\ ncmmsgtxbuf \in Block
      /\ usbmsgtotlen # TOTAL_HEADER_SIZE
  BY NcmTxAssumption DEF TxHeader, IInv, Cursor, TypeOK
<1>2. p \in Packet
  BY <1>1, PacketOfType, NcmTxAssumption
<1>3. ~LastData(p)
  BY <1>1, NcmTxAssumption DEF LastData, EndsBlock, PacketOf
<1>4. BeingCut' = BeingCut
  BY <1>1 DEF TxHeader, BeingCut
<1> HIDE DEF p
<1>5. usbtxring' = Append(usbtxring, p) /\ UNCHANGED txq
  BY DEF TxHeader, Push, p
<1> QED BY <1>2, <1>3, <1>4, <1>5, PushWithin

\* Sending: the last bytes of the block hand its frame over to the ring.
LEMMA TxSendingFrames ==
  ASSUME IInv, TxSending
  PROVE  \E p \in Packet : usbtxring' = Append(usbtxring, p) /\ SameFramesWith(p)
<1> DEFINE n == MinOf(usbmsgtotlen - txtransactioncnt, EP_DATA_BUF_SIZE)
           p == PacketOf(ncmmsgtxbuf, txtransactioncnt, n)
<1>1. /\ usbmsgtotlen = ncmmsgtxbuf.total /\ ncmmsgtxbuf \in Block
      /\ usbmsgtotlen \in Nat /\ txtransactioncnt \in Nat /\ txtransactioncnt < usbmsgtotlen
      /\ usbmsgtotlen - TOTAL_HEADER_SIZE = currtxdatalen
  <2>1. /\ usbmsgtotlen = ncmmsgtxbuf.total /\ ncmmsgtxbuf \in Block
        /\ usbmsgtotlen \in Nat /\ txtransactioncnt \in Nat /\ currtxdatalen \in Nat \ {0}
        /\ usbmsgtotlen = TOTAL_HEADER_SIZE + currtxdatalen
    BY DEF TxSending, IInv, Cursor, TypeOK
  <2>2. txtransactioncnt < usbmsgtotlen
    BY <2>1, NcmTxAssumption DEF TxSending, IInv, Cursor, Fresh, BetweenBlocks
  <2>3. usbmsgtotlen - TOTAL_HEADER_SIZE = currtxdatalen
    BY <2>1, NcmTxAssumption
  <2> QED BY <2>1, <2>2, <2>3
<1>2. n \in 1 .. EP_DATA_BUF_SIZE
  <2>1. usbmsgtotlen - txtransactioncnt \in Nat \ {0} /\ EP_DATA_BUF_SIZE \in Nat \ {0}
    BY <1>1, NcmTxAssumption
  <2> QED BY <2>1 DEF MinOf
<1>3. p \in Packet
  <2> HIDE DEF n
  <2>1. n \in 0 .. EP_DATA_BUF_SIZE
    BY <1>2, NcmTxAssumption
  <2> QED BY <2>1, <1>1, PacketOfType
<1>4. /\ usbtxring' = Append(usbtxring, p) /\ txtransactioncnt' = txtransactioncnt + n
      /\ UNCHANGED <<txq, currtxdatalen>>
  BY DEF TxSending, Push
<1>5. txstate = "Sending"
      /\ txstate' = IF txtransactioncnt' = usbmsgtotlen THEN "Zlp" ELSE "Sending"
  BY DEF TxSending
<1>6. BeingCut = <<currtxdatalen>>
  BY <1>5 DEF BeingCut
<1>7. LastData(p) <=> txtransactioncnt + n = usbmsgtotlen
  <2> HIDE DEF n
  <2> QED BY <1>1, <1>2, NcmTxAssumption DEF LastData, EndsBlock, PacketOf
<1>8. p.ntb.total - TOTAL_HEADER_SIZE = currtxdatalen
  BY <1>1 DEF PacketOf
<1> HIDE DEF p, n
<1>9. CASE LastData(p)
  <2>1. BeingCut' = <<>>
    BY <1>4, <1>5, <1>7, <1>9 DEF BeingCut
  <2>2. ASSUME NEW a \in Seq(Lengths)
        PROVE  Joined(Append(a, currtxdatalen), <<>>, txq) = Joined(a, <<currtxdatalen>>, txq)
    BY <2>2, PartsType, JoinMoved
  <2>3. ASSUME NEW a \in Seq(Lengths) PROVE Extended(a, p) = Append(a, currtxdatalen)
    BY <1>8, <1>9 DEF Extended
  <2>4. SameFramesWith(p)
    BY <1>4, <1>6, <2>1, <2>2, <2>3 DEF SameFramesWith
  <2> QED BY <1>3, <1>4, <2>4
<1>10. CASE ~LastData(p)
  <2>1. BeingCut' = BeingCut
    BY <1>4, <1>5, <1>6, <1>7, <1>10 DEF BeingCut
  <2> QED BY <2>1, <1>3, <1>4, <1>10, PushWithin
<1> QED BY <1>9, <1>10

\* Zlp: the frame is already in the ring.
LEMMA TxZlpFrames ==
  ASSUME IInv, TxZlp
  PROVE  \/ usbtxring' = usbtxring /\ SameFrames
         \/ \E p \in Packet : usbtxring' = Append(usbtxring, p) /\ SameFramesWith(p)
<1>1. UNCHANGED txq /\ BeingCut' = BeingCut
  BY DEF TxZlp, BeingCut
<1>2. CASE NeedsZlp
  <2> DEFINE p == PacketOf(ncmmsgtxbuf, usbmsgtotlen, 0)
  <2>1. p \in Packet
    BY PacketOfType, NcmTxAssumption DEF IInv, TypeOK
  <2>2. ~LastData(p)
    BY DEF LastData, PacketOf
  <2> HIDE DEF p
  <2>3. usbtxring' = Append(usbtxring, p)
    BY <1>2 DEF TxZlp, Push, p
  <2> QED BY <1>1, <2>1, <2>2, <2>3, PushWithin
<1>3. CASE ~NeedsZlp
  <2>1. usbtxring' = usbtxring
    BY <1>3 DEF TxZlp
  <2> QED BY <1>1, <2>1 DEF SameFrames
<1> QED BY <1>2, <1>3

\* Any call.
LEMMA ProcessTxFrames ==
  ASSUME IInv, ProcessTx
  PROVE  \/ usbtxring' = usbtxring /\ SameFrames
         \/ \E p \in Packet : usbtxring' = Append(usbtxring, p) /\ SameFramesWith(p)
  BY TxReadyFrames, TxHeaderFrames, TxSendingFrames, TxZlpFrames DEF ProcessTx

\* A frame of the IP stack is accepted at the end, or refused without a trace.
LEMMA ConsumeTxTokenFrames ==
  ASSUME IInv, NEW len \in FrameLens, ConsumeTxToken(len), NEW a \in Seq(Lengths)
  PROVE  \/ Joined(a, BeingCut', txq') = Joined(a, BeingCut, txq)
         \/ /\ Joined(a, BeingCut', txq') = Append(Joined(a, BeingCut, txq), len)
            /\ Len(Joined(a, BeingCut, txq)) < Len(a) + 1 + ETH_TXQ_CAP
<1>1. BeingCut' = BeingCut
  BY DEF ConsumeTxToken, BeingCut
<1>2. CASE Len(txq) < ETH_TXQ_CAP
  <2>1. txq' = Append(txq, len)
    BY <1>2 DEF ConsumeTxToken
  <2>2. len \in Lengths
    BY NcmTxAssumption DEF Lengths
  <2>3. Joined(a, BeingCut, Append(txq, len)) = Append(Joined(a, BeingCut, txq), len)
    <3>1. BeingCut \in Seq(Lengths) /\ txq \in Seq(Lengths)
      BY PartsType
    <3>2. ASSUME NEW b \in Seq(Lengths), NEW c \in Seq(Lengths)
          PROVE  Joined(a, b, Append(c, len)) = Append(Joined(a, b, c), len)
      BY <2>2, <3>2, JoinAppend
    <3> QED BY <3>1, <3>2, Zenon
  <2>4. Len(Joined(a, BeingCut, txq)) = Len(a) + Len(BeingCut) + Len(txq)
    BY PartsType, JoinLength
  <2>5. Len(BeingCut) \in 0 .. 1 /\ Len(a) \in Nat /\ Len(txq) \in Nat
    BY DEF BeingCut, IInv, TypeOK
  <2>6. Len(Joined(a, BeingCut, txq)) < Len(a) + 1 + ETH_TXQ_CAP
    <3>1. ASSUME NEW i \in Nat, NEW j \in 0 .. 1, NEW k \in Nat, k < ETH_TXQ_CAP
          PROVE  i + j + k < i + 1 + ETH_TXQ_CAP
      BY <3>1, NcmTxAssumption
    <3> QED BY <1>2, <2>4, <2>5, <3>1
  <2> QED BY <1>1, <2>1, <2>3, <2>6
<1>3. CASE ~(Len(txq) < ETH_TXQ_CAP)
  BY <1>1, <1>3 DEF ConsumeTxToken
<1> QED BY <1>2, <1>3

\* What a step may do to the frames under way.
LEMMA InflightStep ==
  ASSUME IInv, [Next]_vars
  PROVE  \/ Inflight' = Inflight
         \/ \E len \in FrameLens : /\ Inflight' = Append(Inflight, len)
                                   /\ Len(Inflight) < ETH_TXQ_CAP + 1 + USB_TXQ_CAP
         \/ Inflight # <<>> /\ Inflight' = Tail(Inflight)
<1> DEFINE a == FramesOn(usbtxring)
<1>1. /\ Inflight = Joined(FramesOn(usbtxring), BeingCut, txq)
      /\ Inflight' = Joined(FramesOn(usbtxring'), BeingCut', txq')
  BY DEF Inflight, Joined, BeingCut
<1>2. a \in Seq(Lengths) /\ Len(a) \in Nat /\ Len(a) <= USB_TXQ_CAP
  <2>1. Len(usbtxring) \in Nat /\ Len(usbtxring) <= USB_TXQ_CAP
    BY DEF IInv, TypeOK
  <2>2. a \in Seq(Lengths) /\ Len(a) \in Nat /\ Len(a) <= Len(usbtxring)
    BY PartsType, FramesOnType
  <2> HIDE DEF a
  <2> QED BY <2>1, <2>2, NcmTxAssumption
<1>3. CASE UNCHANGED vars
  BY <1>1, <1>3 DEF vars, BeingCut
<1>4. CASE ProcessTx
  <2>1. CASE usbtxring' = usbtxring /\ SameFrames
    BY <1>1, <1>2, <2>1 DEF SameFrames
  <2>2. ASSUME NEW p \in Packet, usbtxring' = Append(usbtxring, p), SameFramesWith(p)
        PROVE  Inflight' = Inflight
    <3>1. FramesOn(usbtxring') = Extended(FramesOn(usbtxring), p)
      BY <2>2, PartsType, FramesOnAppend
    <3> QED BY <1>1, <1>2, <2>2, <3>1 DEF SameFramesWith
  <2> QED BY <1>4, <2>1, <2>2, ProcessTxFrames
<1>5. CASE UsbPop
  <2>1. usbtxring # <<>> /\ usbtxring' = Tail(usbtxring) /\ txq' = txq /\ BeingCut' = BeingCut
    BY <1>5 DEF UsbPop, BeingCut
  <2> QED BY <1>1, <2>1, PartsType, PopFrames
<1>6. ASSUME NEW len \in FrameLens, ConsumeTxToken(len)
      PROVE  \/ Inflight' = Inflight
             \/ /\ Inflight' = Append(Inflight, len)
                /\ Len(Inflight) < ETH_TXQ_CAP + 1 + USB_TXQ_CAP
  <2>1. usbtxring' = usbtxring
    BY <1>6 DEF ConsumeTxToken
  <2> HIDE DEF a
  <2>2. \/ Joined(a, BeingCut', txq') = Joined(a, BeingCut, txq)
        \/ /\ Joined(a, BeingCut', txq') = Append(Joined(a, BeingCut, txq), len)
           /\ Len(Joined(a, BeingCut, txq)) < Len(a) + 1 + ETH_TXQ_CAP
    BY <1>2, <1>6, ConsumeTxTokenFrames
  <2>3. Inflight = Joined(a, BeingCut, txq) /\ Inflight' = Joined(a, BeingCut', txq')
    BY <1>1, <2>1 DEF a
  <2>4. Len(Inflight) \in Nat
    <3>1. Joined(a, BeingCut, txq) \in Seq(Lengths)
      BY <1>2, PartsType DEF Joined
    <3> QED BY <2>3, <3>1
  <2>5. Len(a) + 1 + ETH_TXQ_CAP <= ETH_TXQ_CAP + 1 + USB_TXQ_CAP
    BY <1>2, NcmTxAssumption
  <2> QED BY <1>2, <2>2, <2>3, <2>4, <2>5, NcmTxAssumption
<1> QED BY <1>3, <1>4, <1>5, <1>6 DEF Next

-----------------------------------------------------------------------------
(* What a reader should know.                                              *)

\* Type correctness of the transmit half of process_messages.
THEOREM TypeCorrect == Spec => []TypeOK
<1>1. IInv => TypeOK
  BY DEF IInv
<1> QED BY <1>1, Invariance, PTL

\* The packets popped by process_usb and those of its ring tile consecutive
\* blocks, however process_messages, the IP stack and the host interleave.
THEOREM StreamIsTiled == Spec => []PacketStream
<1>1. IInv => PacketStream
  BY DEF IInv
<1> QED BY <1>1, Invariance, PTL

\* Wherever process_messages was left, the cursor is at the end of what was pushed
\* of the block, and the pointer table has its two entries or none.
THEOREM CursorFollows == Spec => []Cursor
<1>1. IInv => Cursor
  BY DEF IInv
<1> QED BY <1>1, Invariance, PTL

\* Neither copy_from_slice on the pointer table nor "ncm api tx sender sent too
\* many bytes!" can stop the firmware, as long as no frame is empty.
THEOREM NeverPanics == Spec => []NoPanic
<1>1. IInv => NoPanic
  BY DEF IInv
<1> QED BY <1>1, Invariance, PTL

\* A block whose frame and whose own length are both multiples of the packet size,
\* or both not, is followed by a zero-length packet exactly if its last packet is
\* full: tx_zlp is about the others and no more.
THEOREM OthersAreDelimited == Spec => []AgreedDelimited
<1>1. DInv => AgreedDelimited
  BY DEF DInv
<1> QED BY <1>1, InitDInv, NextDInv, PTL DEF Spec

\* Step by step the transmit path is the abstract channel: it accepts a frame, hands
\* over the oldest complete and in order, or nothing changes.
THEOREM RefinesChannel == Spec => Channel!Spec
<1>1. Init => Channel!Init
  <2> SUFFICES ASSUME Init PROVE Inflight = <<>>
    BY DEF Channel!Init
  <2>1. usbtxring = <<>> /\ txq = <<>> /\ txstate = "Ready"
    BY DEF Init
  <2> QED BY <2>1, FramesOnNothing DEF Inflight
<1>2. IInv /\ [Next]_vars => [Channel!Next]_(Channel!vars)
  <2> SUFFICES ASSUME IInv, [Next]_vars PROVE [Channel!Next]_(Channel!vars)
    OBVIOUS
  <2>1. CASE Inflight' = Inflight
    BY <2>1 DEF Channel!vars
  <2>2. CASE \E len \in FrameLens : /\ Inflight' = Append(Inflight, len)
                                    /\ Len(Inflight) < ETH_TXQ_CAP + 1 + USB_TXQ_CAP
    BY <2>2 DEF Channel!Next, Channel!Accept
  <2>3. CASE Inflight # <<>> /\ Inflight' = Tail(Inflight)
    BY <2>3 DEF Channel!Next, Channel!HandOver
  <2> QED BY <2>1, <2>2, <2>3, InflightStep
<1> QED BY <1>1, <1>2, Invariance, PTL DEF Spec, Channel!Spec
=============================================================================
