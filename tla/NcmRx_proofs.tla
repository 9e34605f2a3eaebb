---------------------------- MODULE NcmRx_proofs ----------------------------
(***************************************************************************)
(* What the buffer of the receive path holds, when it panics, when it is   *)
(* in step with the host and when it is a channel of frames, for every     *)
(* packet size, block size and set of blocks.                              *)
(***************************************************************************)
EXTENDS NcmRx, SequenceTheorems, TLAPS

\* Hosts whose datagrams fit a buffer of the IP stack.
FramesFit == \A b \in HostBlocks : b.len <= MTU

\* A panic needs a frame that does not fit, or the torn block of such a host.
PanicFree ==
    FramesFit /\ panicked => currheader.shape \in HostBlocks /\ PanicsOnlyTorn

\* The inductive invariant: TornBound alone does not say when a torn frame is
\* still under construction; Reassembly says which block the buffer holds.
IInv == TypeOK /\ Reassembly /\ PanicFree

\* A host that is safe after an abandoned transfer is one of those, and never
\* panics the receive path.
LEMMA SafeIsPanicFree ==
  ASSUME SafeHost
  PROVE  (IInv => panicked = FALSE) /\ (IInv' => panicked' = FALSE)
<1>1. FramesFit /\ \A s \in HostBlocks : ~(s.ndp + NDP_SIZE > EP_DATA_BUF_SIZE)
  <2>1. \A s \in HostBlocks : s.ndp \in Nat /\ s.ndp + NDP_SIZE <= EP_DATA_BUF_SIZE
    BY NcmRxAssumption DEF SafeHost, Shape
  <2> QED BY <2>1, NcmRxAssumption DEF SafeHost, FramesFit
<1>2. IInv => panicked = FALSE
  BY <1>1 DEF IInv, TypeOK, PanicFree, PanicsOnlyTorn
<1>3. IInv' => panicked' = FALSE
  BY <1>1 DEF IInv, TypeOK, PanicFree, PanicsOnlyTorn, FramesFit
<1> QED BY <1>2, <1>3

-----------------------------------------------------------------------------
(* Facts about the operators of the model.                                 *)

\* min of two naturals.
LEMMA MinOfFacts ==
  ASSUME NEW a \in Nat, NEW b \in Nat
  PROVE  /\ MinOf(a, b) \in Nat /\ MinOf(a, b) <= a /\ MinOf(a, b) <= b
         /\ MinOf(a, b) \in {a, b}
  BY DEF MinOf

\* The fields of a shape are naturals within the block buffer.
LEMMA HostBlockFacts ==
  ASSUME NEW s \in HostBlocks
  PROVE  /\ s \in Shape
         /\ s.block \in Nat /\ s.ndp \in Nat /\ s.index \in Nat /\ s.len \in Nat
         /\ 0 < s.block /\ s.block <= NCM_MAX_IN_SIZE
         /\ s.ndp + NDP_SIZE <= s.block /\ s.index + s.len <= s.block
         /\ FirstLen(s) \in Nat /\ 0 < FirstLen(s)
         /\ FirstLen(s) <= s.block /\ FirstLen(s) <= EP_DATA_BUF_SIZE
         /\ FirstLen(s) \in {s.block, EP_DATA_BUF_SIZE}
<1>1. s \in Shape /\ WellFormed(s)
  BY NcmRxAssumption, HostAssumption
<1>2. s.block \in Nat /\ s.ndp \in Nat /\ s.index \in Nat /\ s.len \in Nat
  BY <1>1 DEF Shape
<1>3. 0 < s.block
  BY <1>1, <1>2, NcmRxAssumption DEF WellFormed
<1>4. EP_DATA_BUF_SIZE \in Nat /\ 0 < EP_DATA_BUF_SIZE
  BY NcmRxAssumption
<1> QED BY <1>1, <1>2, <1>3, <1>4 DEF WellFormed, FirstLen, MinOf

\* The bytes of a datagram of len bytes from index on lie below top.
LEMMA Positions ==
  ASSUME NEW index \in Nat, NEW len \in Nat, NEW top \in Nat, index + len <= top,
         NEW i \in 1 .. len
  PROVE  index + i - 1 \in 0 .. top - 1
  OBVIOUS

\* A copy writes the packet's bytes in order and leaves the rest alone.
LEMMA CopyInFacts ==
  ASSUME NEW p \in Packet, NEW at \in Nat, NEW n \in Nat, ncmmsgrxbuf \in Buffer,
         NEW i \in 0 .. NCM_MAX_IN_SIZE - 1
  PROVE  /\ CopyIn(p, at, n) \in Buffer
         /\ i < at => CopyIn(p, at, n)[i] = ncmmsgrxbuf[i]
         /\ at <= i /\ i < at + n => CopyIn(p, at, n)[i] = ByteAt(p.of, p.off + (i - at))
<1>1. p.of \in NumberedBlock /\ p.off \in Nat
  BY DEF Packet
<1>2. ASSUME NEW j \in 0 .. NCM_MAX_IN_SIZE - 1
      PROVE  (IF at <= j /\ j < at + n THEN ByteAt(p.of, p.off + (j - at))
                                       ELSE ncmmsgrxbuf[j]) \in Byte
  <2>1. CASE at <= j /\ j < at + n
    <3>1. p.off + (j - at) \in Nat
      BY <2>1, <1>1, NcmRxAssumption
    <3> QED BY <2>1, <3>1, <1>1 DEF ByteAt, Byte
  <2>2. CASE ~(at <= j /\ j < at + n)
    BY <2>2 DEF Buffer
  <2> QED BY <2>1, <2>2
<1>3. CopyIn(p, at, n) \in Buffer
  BY <1>2 DEF CopyIn, Buffer
<1> QED BY <1>3, NcmRxAssumption DEF CopyIn

-----------------------------------------------------------------------------
\* Nothing is collected and nothing was abandoned in the beginning.
LEMMA InitIInv == Init => IInv
<1> SUFFICES ASSUME Init PROVE IInv
  OBVIOUS
<1> USE DEF Init
<1>1. Nothing \in NumberedBlock
  BY DEF Nothing, NumberedBlock, Shape
<1>2. ncmmsgrxbuf \in Buffer
  BY <1>1 DEF Buffer, Byte, ByteAt
<1>3. TypeOK
  <2>1. usbrxring \in Seq(Packet) /\ Len(usbrxring) <= 1
    OBVIOUS
  <2>2. ethrxq \in Seq(RxMsg) /\ Len(ethrxq) <= ETH_RXQ_CAP
    BY NcmRxAssumption
  <2>3. rxbufready \in BOOLEAN /\ panicked \in BOOLEAN
    OBVIOUS
  <2>4. tears \in 0 .. MaxTears
    BY NcmRxAssumption
  <2> QED BY <1>1, <1>2, <2>1, <2>2, <2>3, <2>4 DEF TypeOK, IpRxState
<1>4. Reassembly
  BY DEF Reassembly, TornBound, HostOrder, Collecting, HeadKept
<1> QED BY <1>3, <1>4 DEF IInv, PanicFree

\* A step that is no panic, and leaves alone what a panic depends on.
LEMMA SamePanic ==
  ASSUME PanicFree, UNCHANGED <<panicked, currheader, tears, torn>>
  PROVE  PanicFree'
  BY DEF PanicFree, PanicsOnlyTorn, Owed

\* The receiver's part of the invariant depends on the receiver only.
LEMMA SameReceiver ==
  ASSUME UNCHANGED <<ncmmsgrxbuf, currheader>>, NEW n
  PROVE  Collected(n)' <=> Collected(n)
  BY DEF Collected, ByteAt

-----------------------------------------------------------------------------
(* The environment.                                                        *)

\* A packet that begins a block, or continues it where the host left off,
\* keeps the invariant.
LEMMA ReachesStep ==
  ASSUME IInv, NEW b \in NumberedBlock, NEW off \in Nat,
         b.shape \in HostBlocks, off <= b.shape.block,
         \/ HostDone /\ off = 0
         \/ ~HostDone /\ b = hostblock /\ off = hostoff,
         Reaches(PacketFrom(b, off))
  PROVE  IInv'
<1> USE DEF IInv, LoopIsIdle, Reaches, HostSent
<1> DEFINE p == PacketFrom(b, off)
<1>1. /\ p.of = b /\ p.off = off /\ p \in Packet
      /\ p.len \in 0 .. EP_DATA_BUF_SIZE /\ off + p.len <= b.shape.block
      /\ off = 0 => p.len = FirstLen(b.shape)
      /\ p.len = 0 => off = b.shape.block
  <2>1. b.shape.block \in Nat /\ b.shape.block - off \in Nat
    BY HostBlockFacts
  <2>2. EP_DATA_BUF_SIZE \in Nat /\ 0 < EP_DATA_BUF_SIZE
    BY NcmRxAssumption
  <2> QED BY <2>1, <2>2 DEF PacketFrom, MinOf, FirstLen, Packet
<1> HIDE DEF p
<1>2. /\ usbrxring = <<>> /\ usbrxring' = <<p>> /\ hostblock' = b
      /\ hostoff' = IF p.len = 0 THEN off + 1 ELSE off + p.len
      /\ hostid' \in {hostid, (hostid + 1) % Ids}
      /\ ~rxbufready
  BY <1>1 DEF p
<1>3. hostoff' \in Nat /\ hostid' \in Nat
  BY <1>1, <1>2, NcmRxAssumption DEF TypeOK
<1>4. TypeOK'
  BY <1>1, <1>2, <1>3 DEF TypeOK
<1>5. TornBound'
  BY DEF Reassembly, TornBound
<1>6. HostOrder'
  <2>1. off + p.len \in {b.shape.block, hostoff'}
    BY <1>1, <1>2
  <2> QED BY <1>1, <1>2, <2>1 DEF HostOrder
<1>7. rxstate = "CopyEntireMsg" =>
        \/ Collected(currcnt) /\ ((b = currheader /\ off = currcnt) \/ currcnt = currheader.shape.block)
        \/ Owed
  <2>1. SUFFICES ASSUME rxstate = "CopyEntireMsg", ~Owed, Collected(currcnt), InSync,
                        HostDone, off = 0
                 PROVE  currcnt = currheader.shape.block
    BY <1>2 DEF Reassembly, Collecting, InSync, NextOff
  <2>2. /\ currheader.shape \in HostBlocks /\ currcnt <= currheader.shape.block
        /\ currcnt \in Nat
    BY <2>1, HostBlockFacts DEF Reassembly, Collecting, HeadKept, TypeOK
  <2>3. 0 < currcnt
    <3>1. currcnt \in FirstLen(currheader.shape) .. currheader.shape.block
      BY <2>1 DEF Reassembly, Collecting
    <3> QED BY <2>2, <3>1, HostBlockFacts
  <2>4. hostblock = currheader /\ hostoff = currcnt
    BY <2>1, <1>2 DEF InSync, NextOff
  <2> QED BY <2>1, <2>2, <2>3, <2>4, HostBlockFacts DEF HostDone
<1>8. Collecting'
  <2>1. NextOff' = off
    BY <1>1, <1>2 DEF NextOff
  <2> QED BY <1>2, <1>7, <2>1, SameReceiver DEF Reassembly, Collecting, InSync, Owed
<1>9. HeadKept'
  BY SameReceiver DEF Reassembly, HeadKept
<1>10. PanicFree'
  BY SamePanic
<1> QED BY <1>4, <1>5, <1>6, <1>8, <1>9, <1>10 DEF Reassembly

\* The first packet of a block reaches an idle loop.
LEMMA HostBeginsStep == ASSUME IInv, HostBegins PROVE IInv'
<1>1. PICK s \in HostBlocks : HostDone /\ Reaches(PacketFrom([id |-> hostid, shape |-> s], 0))
  BY DEF HostBegins, FirstPackets
<1> DEFINE b == [id |-> hostid, shape |-> s]
<1>2. b \in NumberedBlock /\ b.shape \in HostBlocks /\ 0 <= b.shape.block
  BY HostBlockFacts DEF NumberedBlock, IInv, TypeOK
<1> QED BY <1>1, <1>2, ReachesStep

\* The next packet of a block reaches an idle loop.
LEMMA HostContinuesStep == ASSUME IInv, HostContinues PROVE IInv'
<1>1. ~HostDone /\ Reaches(PacketFrom(hostblock, hostoff))
  BY DEF HostContinues, NextPacket
<1>2. hostblock.shape \in HostBlocks /\ hostblock \in NumberedBlock /\ hostoff \in Nat
  BY <1>1 DEF IInv, Reassembly, HostOrder, HostDone, Nothing, TypeOK
<1>3. hostoff <= hostblock.shape.block
  BY <1>1, <1>2, HostBlockFacts DEF HostDone
<1> QED BY <1>1, <1>2, <1>3, ReachesStep

\* An abandoned transfer may cost one frame from now on.
LEMMA HostAbandonsStep == ASSUME IInv, HostAbandons PROVE IInv'
<1> USE DEF IInv, HostAbandons, devvars
<1>1. hostblock.shape \in HostBlocks
  BY DEF Reassembly, HostOrder, HostDone, Nothing
<1>2. hostoff' \in Nat /\ tears' \in 0 .. MaxTears
  BY <1>1, HostBlockFacts, NcmRxAssumption DEF TypeOK
<1>3. TypeOK'
  BY <1>2 DEF TypeOK
<1>4. TornBound' /\ Owed'
  BY DEF Reassembly, TornBound, Owed, TypeOK
<1>5. HostOrder'
  BY <1>1, <1>4 DEF Reassembly, HostOrder
<1>6. Collecting'
  BY <1>4 DEF Reassembly, Collecting
<1>7. HeadKept'
  BY SameReceiver DEF Reassembly, HeadKept
<1>8. PanicFree'
  BY <1>4 DEF PanicFree, PanicsOnlyTorn
<1> QED BY <1>3, <1>4, <1>5, <1>6, <1>7, <1>8 DEF Reassembly

\* The IP stack takes a frame; nothing else changes.
LEMMA ConsumeRxTokenStep == ASSUME IInv, ConsumeRxToken PROVE IInv'
<1> USE DEF IInv, ConsumeRxToken, hostvars
<1>1. ethrxq' \in Seq(RxMsg) /\ Len(ethrxq') <= ETH_RXQ_CAP
  <2>1. ethrxq \in Seq(RxMsg) /\ ethrxq # <<>> /\ Len(ethrxq) <= ETH_RXQ_CAP
    BY DEF TypeOK
  <2>2. ethrxq' \in Seq(RxMsg) /\ Len(ethrxq') = Len(ethrxq) - 1 /\ Len(ethrxq) \in Nat
    BY <2>1
  <2> QED BY <2>1, <2>2, NcmRxAssumption
<1>2. TypeOK'
  BY <1>1 DEF TypeOK
<1>3. Reassembly'
  BY SameReceiver DEF Reassembly, TornBound, HostOrder, Collecting, HeadKept, InSync,
                      NextOff, Owed
<1>4. PanicFree'
  BY SamePanic
<1> QED BY <1>2, <1>3, <1>4

-----------------------------------------------------------------------------
(* process_messages.                                                       *)

\* The packet at the head of the ring, as the host left it.
LEMMA HeadPacket ==
  ASSUME IInv, usbrxring # <<>>
  PROVE  LET p == Head(usbrxring) IN
         /\ p \in Packet /\ p.of \in NumberedBlock /\ p.off \in Nat /\ p.len \in Nat
         /\ p.len <= EP_DATA_BUF_SIZE
         /\ ~rxbufready
         /\ p.of = hostblock /\ p.of.shape \in HostBlocks
         /\ p.off + p.len <= p.of.shape.block
         /\ p.off = 0 => p.len = FirstLen(p.of.shape)
         /\ p.off + p.len \in {p.of.shape.block, hostoff} \/ Owed
         /\ Tail(usbrxring) = <<>>
<1>1. usbrxring \in Seq(Packet) /\ Len(usbrxring) <= 1
  BY DEF IInv, TypeOK
<1>2. Head(usbrxring) \in Packet /\ Tail(usbrxring) = <<>>
  BY <1>1
<1> QED BY <1>2, NcmRxAssumption DEF Packet, IInv, Reassembly, HostOrder

\* A packet that begins no block is dropped.
LEMMA RxSkipStep == ASSUME IInv, RxSkip PROVE IInv'
<1> USE DEF IInv, RxSkip, hostvars
<1>1. usbrxring' = <<>>
  BY HeadPacket
<1>2. TypeOK'
  BY <1>1 DEF TypeOK
<1>3. Collecting'
  BY SameReceiver DEF Reassembly, Collecting, Owed
<1>4. Reassembly'
  BY <1>1, <1>3, SameReceiver DEF Reassembly, TornBound, HostOrder, HeadKept
<1>5. PanicFree'
  BY SamePanic
<1> QED BY <1>2, <1>4, <1>5

\* The packet that begins a block is collected whole.
LEMMA RxHeaderStep == ASSUME IInv, ~panicked, RxHeader PROVE IInv'
<1> USE DEF IInv, RxHeader, hostvars
<1> DEFINE p == Head(usbrxring)
<1>1. /\ p \in Packet /\ p.of \in NumberedBlock /\ p.of = hostblock
      /\ p.of.shape \in HostBlocks /\ usbrxring' = <<>>
      /\ p.off = 0 /\ p.len = FirstLen(p.of.shape) /\ ~rxbufready
      /\ p.len \in {p.of.shape.block, hostoff} \/ Owed
  BY HeadPacket DEF StartsBlock
<1>2. /\ p.of.shape.block \in Nat /\ p.of.shape.block <= NCM_MAX_IN_SIZE
      /\ p.len \in Nat /\ p.len <= p.of.shape.block
  BY <1>1, HostBlockFacts
<1>3. currcnt = 0 /\ currcnt' = p.len /\ currheader' = p.of /\ ~rxbufready'
  BY <1>1, <1>2 DEF Reassembly, Collecting, TypeOK
<1>4. ncmmsgrxbuf' \in Buffer
  <2>1. 0 \in 0 .. NCM_MAX_IN_SIZE - 1
    BY NcmRxAssumption
  <2> QED BY <2>1, <1>1, <1>2, CopyInFacts DEF TypeOK
<1>5. ~panicked'
  <2>1. ~(p.of.shape.block > NCM_MAX_IN_SIZE)
    BY <1>2, NcmRxAssumption
  <2> QED BY <2>1
<1>6. TypeOK'
  BY <1>1, <1>2, <1>3, <1>4, <1>5 DEF TypeOK, IpRxState
<1>7. Collected(currcnt)'
  <2>1. ASSUME NEW i \in 0 .. p.len - 1
        PROVE  ncmmsgrxbuf'[i] = ByteAt(p.of, i)
    <3> HIDE DEF p, IInv, RxHeader
    <3>1. i \in 0 .. NCM_MAX_IN_SIZE - 1 /\ 0 <= i /\ i < 0 + p.len /\ p.off + (i - 0) = i
      BY <1>1, <1>2, NcmRxAssumption
    <3>2. ncmmsgrxbuf \in Buffer /\ ncmmsgrxbuf' = CopyIn(p, 0, p.len)
      BY DEF IInv, TypeOK, RxHeader, p
    <3>3. p \in Packet /\ p.len \in Nat
      BY <1>1, <1>2
    <3>4. ncmmsgrxbuf'[i] = ByteAt(p.of, p.off + (i - 0))
      BY <3>1, <3>2, <3>3, CopyInFacts
    <3> QED BY <3>1, <3>4
  <2> QED BY <2>1, <1>3 DEF Collected, ByteAt
<1>8. Collecting'
  <2>1. currcnt' \in FirstLen(currheader'.shape) .. currheader'.shape.block
    BY <1>1, <1>2, <1>3
  <2>2. (InSync \/ currcnt = currheader.shape.block)' \/ Owed'
    BY <1>1, <1>3 DEF InSync, NextOff, Owed
  <2> QED BY <1>3, <1>7, <2>1, <2>2 DEF Collecting, FirstLen, MinOf
<1>9. HeadKept'
  BY <1>1, <1>3, <1>7 DEF HeadKept, FirstLen, MinOf
<1>10. TornBound' /\ HostOrder'
  BY <1>1 DEF Reassembly, TornBound, HostOrder
<1> QED BY <1>5, <1>6, <1>8, <1>9, <1>10 DEF Reassembly, PanicFree

\* A packet continues the block, and may complete it.
LEMMA RxCopyStep == ASSUME IInv, ~panicked, RxCopy PROVE IInv'
<1> USE DEF IInv, RxCopy, RestartRx, Completes, hostvars
<1> DEFINE p == Head(usbrxring)
           total == currheader.shape.block
           n == MinOf(total - currcnt, p.len)
           first == FirstLen(currheader.shape)
           Kept(m) == \A j \in 0 .. m - 1 : ncmmsgrxbuf'[j] = ByteAt(currheader, j)
<1>1. /\ p \in Packet /\ p.of \in NumberedBlock /\ p.of = hostblock
      /\ p.off \in Nat /\ p.len \in Nat /\ p.len <= EP_DATA_BUF_SIZE
      /\ p.off + p.len <= p.of.shape.block /\ usbrxring' = <<>> /\ ~rxbufready
      /\ p.off + p.len \in {p.of.shape.block, hostoff} \/ Owed
  BY HeadPacket
<1>2. /\ currheader.shape \in HostBlocks
      /\ currcnt \in first .. total
      /\ total \in Nat /\ total <= NCM_MAX_IN_SIZE /\ first \in Nat /\ 0 < first
      /\ Collected(first)
  BY HostBlockFacts DEF Reassembly, Collecting, HeadKept
<1>3. /\ currcnt \in Nat /\ currcnt <= total /\ total - currcnt \in Nat /\ n \in Nat
      /\ n <= p.len /\ currcnt + n <= total
      /\ n \in {total - currcnt, p.len}
  <2>1. currcnt \in Nat /\ currcnt <= total /\ total - currcnt \in Nat
    BY <1>2
  <2>2. /\ n \in Nat /\ n <= total - currcnt /\ n <= p.len
        /\ n \in {total - currcnt, p.len}
    BY <2>1, <1>1 DEF MinOf
  <2> HIDE DEF n
  <2> QED BY <1>2, <2>1, <2>2
<1>4. /\ ncmmsgrxbuf' = CopyIn(p, currcnt, n) /\ panicked' = panicked
      /\ currheader' = currheader
      /\ IF currcnt + n = total
           THEN rxstate' = "AwaitHeader" /\ currcnt' = 0 /\ rxbufready' = TRUE
           ELSE /\ currcnt' = currcnt + n
                /\ rxstate' = rxstate /\ rxbufready' = rxbufready
  <2>1. ~(currcnt > total)
    BY <1>2, <1>3
  <2> QED BY <2>1
<1>5. ncmmsgrxbuf' \in Buffer
  <2>1. 0 \in 0 .. NCM_MAX_IN_SIZE - 1
    BY NcmRxAssumption
  <2> QED BY <2>1, <1>1, <1>3, <1>4, CopyInFacts DEF TypeOK
<1>6. TypeOK'
  <2>1. CASE currcnt + n = total
    BY <2>1, <1>1, <1>4, <1>5 DEF TypeOK, IpRxState
  <2>2. CASE currcnt + n # total
    BY <2>2, <1>1, <1>3, <1>4, <1>5 DEF TypeOK
  <2> QED BY <2>1, <2>2
<1>7. ASSUME NEW m \in 0 .. currcnt, Collected(m)
      PROVE  Kept(m)
  <2>1. ASSUME NEW j \in 0 .. m - 1
        PROVE  ncmmsgrxbuf'[j] = ByteAt(currheader, j)
    <3>1. j \in 0 .. NCM_MAX_IN_SIZE - 1 /\ j < currcnt
      BY <1>2, <1>3, NcmRxAssumption
    <3>2. ncmmsgrxbuf'[j] = ncmmsgrxbuf[j]
      BY <3>1, <1>1, <1>3, <1>4, CopyInFacts DEF TypeOK
    <3> QED BY <3>2, <1>7 DEF Collected
  <2> QED BY <2>1
<1>8. HeadKept'
  <2>1. Kept(first)
    BY <1>2, <1>7
  <2> QED BY <2>1, <1>2, <1>4 DEF HeadKept, Collected, ByteAt, FirstLen, MinOf
<1>9. ASSUME ~Owed
      PROVE  /\ Kept(currcnt + n)
             /\ currcnt + n = total \/ (hostblock = currheader /\ hostoff = currcnt + n)
  <2>1. Collected(currcnt) /\ (InSync \/ currcnt = total)
    BY <1>9 DEF Reassembly, Collecting
  <2>2. CASE currcnt = total
    <3>1. currcnt + n = currcnt
      BY <2>2, <1>1, <1>2, <1>3
    <3>2. Kept(currcnt)
      BY <2>1, <1>3, <1>7
    <3> HIDE DEF n, total
    <3>3. Kept(currcnt + n)
      BY <3>1, <3>2
    <3> QED BY <3>1, <3>3, <2>2
  <2>3. CASE InSync /\ currcnt # total
    <3>1. hostblock = currheader /\ p.off = currcnt /\ p.of = currheader
      BY <2>3, <1>1 DEF InSync, NextOff
    <3>2. n = p.len
      <4>1. currcnt + p.len <= total
        BY <3>1, <1>1
      <4> QED BY <4>1, <1>1, <1>2, <1>3
    <3>3. currcnt + n = total \/ hostoff = currcnt + n
      BY <3>1, <3>2, <1>9, <1>1
    <3>4. ASSUME NEW j \in 0 .. currcnt + n - 1
          PROVE  ncmmsgrxbuf'[j] = ByteAt(currheader, j)
      <4> HIDE DEF p, n, total, first, Kept, IInv, RxCopy
      <4>1. j \in 0 .. NCM_MAX_IN_SIZE - 1
        BY <1>2, <1>3, NcmRxAssumption
      <4>0. ncmmsgrxbuf \in Buffer
        BY DEF IInv, TypeOK
      <4>2. CASE j < currcnt
        <5>1. ncmmsgrxbuf'[j] = ncmmsgrxbuf[j]
          BY <4>0, <4>1, <4>2, <1>1, <1>3, <1>4, CopyInFacts
        <5>2. j \in 0 .. currcnt - 1
          BY <4>2, <1>3
        <5> QED BY <5>1, <5>2, <2>1 DEF Collected
      <4>3. CASE currcnt <= j
        <5>1. j < currcnt + n /\ p.off + (j - currcnt) = j
          BY <4>3, <3>1, <1>3
        <5>2. ncmmsgrxbuf'[j] = ByteAt(p.of, p.off + (j - currcnt))
          BY <4>0, <4>1, <4>3, <5>1, <1>1, <1>3, <1>4, CopyInFacts
        <5> QED BY <5>1, <5>2, <3>1
      <4> QED BY <4>2, <4>3, <1>3
    <3> HIDE DEF n
    <3>5. Kept(currcnt + n)
      BY <3>4, <1>3
    <3> HIDE DEF n, total, Kept
    <3> QED BY <3>1, <3>3, <3>5
  <2> QED BY <2>1, <2>2, <2>3
<1>10. Collecting'
  <2>1. Owed' <=> Owed
    BY DEF Owed
  <2>2. CASE currcnt + n = total
    <3>1. Owed \/ Kept(total)
      BY <2>2, <1>9
    <3> QED BY <2>1, <2>2, <3>1, <1>4 DEF Collecting, Collected, ByteAt
  <2>3. CASE currcnt + n # total
    <3>1. currcnt' \in first .. total
      BY <2>3, <1>2, <1>3, <1>4
    <3>2. Owed \/ (Kept(currcnt') /\ hostblock = currheader /\ hostoff = currcnt')
      BY <2>3, <1>4, <1>9
    <3>3. \/ Owed'
          \/ Collected(currcnt)' /\ InSync'
      BY <2>1, <3>2, <1>1, <1>4 DEF InSync, NextOff, Collected, ByteAt
    <3> QED BY <2>3, <3>1, <3>3, <1>1, <1>4 DEF Collecting, FirstLen, MinOf
  <2> QED BY <2>2, <2>3
<1>11. TornBound' /\ HostOrder'
  BY <1>1 DEF Reassembly, TornBound, HostOrder
<1>12. PanicFree'
  BY <1>4, SamePanic
<1> QED BY <1>6, <1>8, <1>10, <1>11, <1>12 DEF Reassembly

\* A complete block, or one whose table came with its header, has its own table at
\* ndpindex.
LEMMA OwnTable ==
  ASSUME IInv, currheader.shape \in HostBlocks, NEW m \in Nat, Collected(m),
         currheader.shape.ndp + NDP_SIZE <= m
  PROVE  Table = currheader /\ Entries = {Entry(currheader)}
<1> DEFINE h == currheader.shape
<1>1. h.ndp \in Nat /\ NDP_SIZE \in Nat /\ 0 < NDP_SIZE
  BY HostBlockFacts, NcmRxAssumption
<1>2. \A i \in 0 .. NDP_SIZE - 1 : ncmmsgrxbuf[h.ndp + i] = ByteAt(currheader, h.ndp + i)
  BY <1>1 DEF Collected
<1>3. ncmmsgrxbuf[h.ndp] = ByteAt(currheader, h.ndp)
  BY <1>1 DEF Collected
<1>4. Table = currheader
  BY <1>3 DEF Table, ByteAt
<1> QED BY <1>2, <1>4 DEF TableAt, Entries

\* What process_ndp parses is an index and a length.
LEMMA EntriesType ==
  ASSUME IInv, currheader.shape \in HostBlocks
  PROVE  Entries \subseteq Datagram16
<1> DEFINE h == currheader.shape
<1>1. h.ndp \in 0 .. NCM_MAX_IN_SIZE - 1
  <2>1. /\ h.ndp \in Nat /\ h.block \in Nat /\ h.block <= NCM_MAX_IN_SIZE
        /\ h.ndp + NDP_SIZE <= h.block
    BY HostBlockFacts
  <2> HIDE DEF h
  <2> QED BY <2>1, NcmRxAssumption
<1>2. Table \in NumberedBlock
  BY <1>1 DEF IInv, TypeOK, Buffer, Byte, Table
<1>3. Table.shape.index \in Nat /\ Table.shape.len \in Nat
  BY <1>2 DEF NumberedBlock, Shape
<1>4. Entry(Table) \in Datagram16
  BY <1>3 DEF Entry, Datagram16
<1> QED BY <1>4, NcmRxAssumption DEF Entries

\* The frame of a datagram within bounds goes to the ring of the IP stack.
LEMMA PushedType ==
  ASSUME IInv, NEW d \in Datagram16, Fits(d)
  PROVE  Pushed(d) \in Seq(RxMsg) /\ Len(Pushed(d)) <= ETH_RXQ_CAP
<1>1. /\ d.len \in Nat /\ d.index \in Nat /\ d.index + d.len <= NCM_MAX_IN_SIZE
      /\ NCM_MAX_IN_SIZE \in Nat
  BY NcmRxAssumption DEF Datagram16, Fits
<1>2. Frame(d) \in RxMsg
  <2>1. ASSUME NEW i \in 1 .. d.len PROVE ncmmsgrxbuf[d.index + i - 1] \in Byte
    <3>1. d.index + i - 1 \in 0 .. NCM_MAX_IN_SIZE - 1
      BY <1>1, Positions
    <3> QED BY <3>1 DEF IInv, TypeOK, Buffer
  <2>2. Frame(d) \in [1 .. d.len -> Byte]
    BY <2>1 DEF Frame
  <2> QED BY <2>2, <1>1, SeqDef DEF RxMsg
<1>3. /\ ethrxq \in Seq(RxMsg) /\ Len(ethrxq) \in Nat /\ Len(ethrxq) <= ETH_RXQ_CAP
      /\ ETH_RXQ_CAP \in Nat
  BY NcmRxAssumption DEF IInv, TypeOK
<1>4. CASE Pushed(d) = ethrxq
  BY <1>3, <1>4
<1>5. CASE Pushed(d) # ethrxq
  <2>1. Pushed(d) = Append(ethrxq, Frame(d)) /\ Len(ethrxq) < ETH_RXQ_CAP
    BY <1>5 DEF Pushed
  <2>2. Len(Pushed(d)) = Len(ethrxq) + 1 /\ Pushed(d) \in Seq(RxMsg)
    BY <2>1, <1>2, <1>3
  <2> QED BY <2>1, <2>2, <1>3
<1> QED BY <1>4, <1>5

\* The datagram of a block that was collected completely is whole.
LEMMA OwnFrame ==
  ASSUME IInv, currheader.shape \in HostBlocks, Collected(currheader.shape.block)
  PROVE  Whole(Frame(Entry(currheader)))
<1> DEFINE h == currheader.shape
           d == Entry(currheader)
<1>1. /\ h.index \in Nat /\ h.len \in Nat /\ h.block \in Nat
      /\ h.index + h.len <= h.block /\ d.index = h.index /\ d.len = h.len
  BY HostBlockFacts DEF Entry
<1> HIDE DEF d
<1>2. ASSUME NEW i \in 1 .. h.len
      PROVE  ncmmsgrxbuf[h.index + i - 1] = ByteAt(currheader, h.index + i - 1)
  <2>1. h.index + i - 1 \in 0 .. h.block - 1
    <3> HIDE DEF h
    <3> QED BY <1>1, Positions
  <2> QED BY <2>1 DEF Collected
<1>3. Len(Frame(d)) = h.len /\ \A i \in 1 .. h.len : Frame(d)[i] = ncmmsgrxbuf[h.index + i - 1]
  BY <1>1 DEF Frame
<1>4. h.len > 0 => Frame(d)[1].of = currheader
  <2>1. SUFFICES ASSUME h.len > 0 PROVE Frame(d)[1].of = currheader
    OBVIOUS
  <2>2. 1 \in 1 .. h.len
    BY <2>1, <1>1
  <2> HIDE DEF h
  <2>3. Frame(d)[1] = ByteAt(currheader, h.index + 1 - 1)
    BY <2>2, <1>2, <1>3
  <2> QED BY <2>3 DEF ByteAt
<1>5. Whole(Frame(d))
  BY <1>1, <1>2, <1>3, <1>4 DEF Whole
<1> QED BY <1>5 DEF d

\* A complete block is delivered; a torn one pays for an abandoned transfer, or
\* panics if its table is torn too.
LEMMA RxDeliverStep == ASSUME IInv, ~panicked, RxDeliver PROVE IInv'
<1> DEFINE h == currheader.shape
<1>1. /\ rxbufready /\ usbrxring = <<>> /\ rxbufready' = FALSE
      /\ UNCHANGED <<usbrxring, rxstate, currheader, currcnt, ncmmsgrxbuf>>
      /\ UNCHANGED <<hostblock, hostoff, hostid, tears>>
  BY DEF RxDeliver, hostvars
<1>2. h \in HostBlocks /\ Collected(FirstLen(h)) /\ (Collected(h.block) \/ Owed)
  BY <1>1 DEF IInv, Reassembly, HeadKept, Collecting
<1>3. /\ h.block \in Nat /\ h.ndp \in Nat /\ h.index \in Nat /\ h.len \in Nat
      /\ h.block <= NCM_MAX_IN_SIZE /\ h.ndp + NDP_SIZE <= h.block
      /\ h.index + h.len <= h.block
      /\ FirstLen(h) \in Nat /\ FirstLen(h) \in {h.block, EP_DATA_BUF_SIZE}
  BY <1>2, HostBlockFacts
<1>4. NDP_SIZE \in Nat /\ EP_DATA_BUF_SIZE \in Nat /\ NCM_MAX_IN_SIZE \in Nat /\ MTU \in Nat
  BY NcmRxAssumption
<1>5. torn \in Nat /\ tears \in Nat /\ torn <= tears
  BY NcmRxAssumption DEF IInv, TypeOK, Reassembly, TornBound
<1>6. HostOrder'
  BY <1>1 DEF IInv, Reassembly, HostOrder
<1>7. Collecting' /\ HeadKept'
  <2>1. rxstate = "AwaitHeader"
    BY <1>1 DEF IInv, Reassembly, Collecting
  <2> QED BY <1>1, <2>1 DEF IInv, Reassembly, Collecting, HeadKept
<1>8. CASE \E d \in Entries : /\ Fits(d) /\ ethrxq' = Pushed(d) /\ UNCHANGED panicked
                              /\ torn' = IF Whole(Frame(d)) THEN torn ELSE torn + 1
  <2>1. PICK d \in Entries : /\ Fits(d) /\ ethrxq' = Pushed(d) /\ UNCHANGED panicked
                             /\ torn' = IF Whole(Frame(d)) THEN torn ELSE torn + 1
    BY <1>8
  <2>2. ethrxq' \in Seq(RxMsg) /\ Len(ethrxq') <= ETH_RXQ_CAP
    BY <2>1, <1>2, EntriesType, PushedType
  <2>3. Collected(h.block) => Whole(Frame(d))
    BY <2>1, <1>2, <1>3, OwnTable, OwnFrame
  <2>4. torn' \in Nat /\ torn' <= tears
    <3>1. CASE Whole(Frame(d))
      BY <3>1, <2>1, <1>5
    <3>2. CASE ~Whole(Frame(d))
      <4>1. Owed /\ torn' = torn + 1
        BY <3>2, <2>1, <2>3, <1>2
      <4> QED BY <4>1, <1>5 DEF Owed
    <3> QED BY <3>1, <3>2
  <2>5. TypeOK'
    BY <1>1, <2>1, <2>2, <2>4 DEF IInv, TypeOK
  <2>6. TornBound'
    BY <1>1, <2>4 DEF TornBound
  <2>7. PanicFree'
    BY <2>1 DEF PanicFree
  <2> QED BY <1>6, <1>7, <2>5, <2>6, <2>7 DEF IInv, Reassembly
<1>9. CASE /\ Entries = {} \/ \E d \in Entries : ~Fits(d)
           /\ panicked' = TRUE /\ UNCHANGED <<ethrxq, torn>>
  <2>1. TypeOK'
    BY <1>1, <1>9 DEF IInv, TypeOK
  <2>2. TornBound'
    BY <1>1, <1>5, <1>9 DEF TornBound
  <2>3. ASSUME FramesFit PROVE Owed /\ h.ndp + NDP_SIZE > EP_DATA_BUF_SIZE
    <3>1. Fits(Entry(currheader))
      BY <1>2, <1>3, <1>4, <2>3 DEF Fits, Entry, FramesFit
    <3>2. Entries # {Entry(currheader)}
      BY <1>9, <3>1
    <3>3. ~Collected(h.block)
      BY <3>2, <1>2, <1>3, OwnTable
    <3>4. ~(h.ndp + NDP_SIZE <= FirstLen(h))
      BY <3>2, <1>2, <1>3, OwnTable
    <3> HIDE DEF h
    <3> QED BY <3>3, <3>4, <1>2, <1>3, <1>4
  <2>4. PanicFree'
    BY <1>1, <1>2, <1>9, <2>3 DEF PanicFree, PanicsOnlyTorn, Owed, FramesFit
  <2> QED BY <1>6, <1>7, <2>1, <2>2, <2>4 DEF IInv, Reassembly
<1> QED BY <1>8, <1>9 DEF RxDeliver

\* Every step keeps the invariant.
LEMMA NextIInv == IInv /\ [Next]_vars => IInv'
<1> SUFFICES ASSUME IInv, [Next]_vars PROVE IInv'
  OBVIOUS
<1>1. CASE UNCHANGED vars
  <2> USE <1>1 DEF vars, devvars, hostvars, IInv
  <2>1. TypeOK'
    BY DEF TypeOK
  <2>2. Reassembly'
    BY SameReceiver DEF Reassembly, TornBound, HostOrder, Collecting, HeadKept, InSync,
                        NextOff, Owed
  <2>3. PanicFree'
    BY SamePanic
  <2> QED BY <2>1, <2>2, <2>3
<1>2. CASE ProcessRx
  BY <1>2, RxSkipStep, RxHeaderStep, RxCopyStep, RxDeliverStep DEF ProcessRx
<1>3. CASE ConsumeRxToken
  BY <1>3, ConsumeRxTokenStep
<1>4. CASE Host
  BY <1>4, HostBeginsStep, HostContinuesStep, HostAbandonsStep DEF Host
<1> QED BY <1>1, <1>2, <1>3, <1>4 DEF Next

\* Every reachable state of the receive path satisfies the invariant.
THEOREM Invariance == Spec => []IInv
<1> QED BY InitIInv, NextIInv, PTL DEF Spec

-----------------------------------------------------------------------------
(* The receive path as a channel of frames, while no transfer was abandoned. *)

\* Hosts for which no frame is lost: a block that fits in one packet is not
\* completed by it, and takes the first packet of the next block instead.
OrdinaryHost == \A b \in HostBlocks : EP_DATA_BUF_SIZE < b.block /\ b.len <= MTU

\* The packet in the ring ends where the host goes on, and a receiver that
\* waits for a header is only given one, or the zero-length packet.
PacketInStep ==
    usbrxring # <<>> =>
        LET p == Head(usbrxring) IN
        /\ hostoff = IF p.len = 0 THEN p.off + 1 ELSE p.off + p.len
        /\ p.len = 0 => p.off = p.of.shape.block
        /\ rxstate = "AwaitHeader" => p.off = 0 \/ p.len = 0

\* Receiver and host are at the same byte of the same block.
ReceiverInStep ==
    /\ rxstate = "CopyEntireMsg" => InSync /\ currcnt < currheader.shape.block
    /\ rxstate = "AwaitHeader" /\ usbrxring = <<>> => hostblock.shape.block <= hostoff
    /\ rxbufready => hostblock = currheader

\* What the channel needs: a block is received into an empty ring of the IP
\* stack, and its bytes follow the host's.
InStep ==
    /\ hostid \in 0 .. Ids - 1
    /\ usbrxring # <<>> \/ rxbufready => ethrxq = <<>>
    /\ tears = 0 => PacketInStep /\ ReceiverInStep

CInv == IInv /\ InStep

\* Nothing was abandoned in the beginning, and the host is at the end of nothing.
LEMMA InitInStep == Init => InStep
  BY NcmRxAssumption DEF Init, InStep, PacketInStep, ReceiverInStep, Nothing

\* A host that abandoned nothing has had nothing damaged.
LEMMA NotOwed == ASSUME IInv, tears = 0 PROVE ~Owed
  BY NcmRxAssumption DEF IInv, TypeOK, Owed

\* What a host that is done, or goes on, says of its place in the block.
LEMMA HostPlace ==
  ASSUME IInv
  PROVE  /\ hostblock.shape.block \in Nat /\ hostoff \in Nat
         /\ HostDone => hostblock.shape.block <= hostoff
         /\ ~HostDone => hostblock.shape \in HostBlocks /\ hostoff <= hostblock.shape.block
<1>1. hostblock.shape.block \in Nat /\ hostoff \in Nat
  BY DEF IInv, TypeOK, NumberedBlock, Shape
<1>2. HostDone => hostblock.shape.block <= hostoff
  BY <1>1 DEF HostDone
<1>3. ~HostDone => hostoff <= hostblock.shape.block
  BY <1>1 DEF HostDone
<1>4. ~HostDone => hostblock.shape \in HostBlocks
  BY DEF IInv, Reassembly, HostOrder, HostDone, Nothing
<1> QED BY <1>1, <1>2, <1>3, <1>4

\* A packet that reaches the ring.
LEMMA ReachesFacts ==
  ASSUME IInv, NEW b, NEW off \in Nat, b.shape \in HostBlocks, off <= b.shape.block,
         Reaches(PacketFrom(b, off))
  PROVE  LET p == PacketFrom(b, off) IN
         /\ p.of = b /\ p.off = off /\ p.len \in Nat
         /\ p.len = 0 <=> off = b.shape.block
         /\ usbrxring = <<>> /\ usbrxring' = <<p>> /\ Head(usbrxring') = p
         /\ hostblock' = b
         /\ hostoff' = IF p.len = 0 THEN off + 1 ELSE off + p.len
         /\ hostid' = IF off = 0 THEN (hostid + 1) % Ids ELSE hostid
         /\ ~rxbufready /\ ethrxq = <<>> /\ tears' = tears
         /\ UNCHANGED <<rxstate, currheader, currcnt, rxbufready, ethrxq>>
<1> DEFINE p == PacketFrom(b, off)
<1>1. b.shape.block \in Nat /\ b.shape.block - off \in Nat
  BY HostBlockFacts
<1>2. EP_DATA_BUF_SIZE \in Nat /\ 0 < EP_DATA_BUF_SIZE
  BY NcmRxAssumption
<1>3. p.of = b /\ p.off = off /\ p.len = MinOf(b.shape.block - off, EP_DATA_BUF_SIZE)
  BY DEF PacketFrom
<1>4. p.len \in Nat /\ (p.len = 0 <=> off = b.shape.block)
  BY <1>1, <1>2, <1>3 DEF MinOf
<1> HIDE DEF p
<1>5. usbrxring = <<>> /\ usbrxring' = <<p>>
  BY DEF Reaches, LoopIsIdle, p
<1>6. Head(usbrxring') = p
  BY <1>5
<1>7. /\ hostblock' = p.of
      /\ hostoff' = IF p.len = 0 THEN p.off + 1 ELSE p.off + p.len
      /\ hostid' = IF p.off = 0 THEN (hostid + 1) % Ids ELSE hostid
      /\ tears' = tears
  BY DEF Reaches, HostSent, p
<1>8. /\ ~rxbufready /\ ethrxq = <<>>
      /\ UNCHANGED <<rxstate, currheader, currcnt, rxbufready, ethrxq>>
  BY DEF Reaches, LoopIsIdle
<1> QED BY <1>3, <1>4, <1>5, <1>6, <1>7, <1>8 DEF p

\* The number of the next block stays in its range.
LEMMA NextId == ASSUME NEW i \in 0 .. Ids - 1 PROVE (i + 1) % Ids \in 0 .. Ids - 1
  BY NcmRxAssumption

\* A sequence with at most one element.
LEMMA AtMostOne ==
  ASSUME NEW S, NEW x \in S, NEW s, s = <<>> \/ s = <<x>>
  PROVE  s \in Seq(S)
<1>1. <<x>> \in Seq(S) /\ <<>> \in Seq(S)
  OBVIOUS
<1> QED BY <1>1

\* The channel is empty for good after an abandoned transfer; until then it holds
\* what the IP stack's ring does and the block under way.
LEMMA InflightIs ==
  ASSUME IInv
  PROVE  /\ tears > 0 => Inflight = <<>>
         /\ tears = 0 /\ ethrxq = <<>> =>
              Inflight = IF Undelivered /\ hostblock.shape.len > 0
                           THEN <<FrameOf(hostblock)>> ELSE <<>>
<1>1. tears > 0 => Inflight = <<>>
  BY DEF Inflight
<1>2. ASSUME tears = 0, ethrxq = <<>>
      PROVE  Inflight = IF Undelivered /\ hostblock.shape.len > 0
                          THEN <<FrameOf(hostblock)>> ELSE <<>>
  <2> DEFINE arrived == [i \in 1 .. Len(ethrxq) |-> Received(ethrxq[i])]
             coming == IF Undelivered /\ hostblock.shape.len > 0
                         THEN <<FrameOf(hostblock)>> ELSE <<>>
  <2>1. arrived = <<>>
    BY <1>2
  <2>2. Inflight = arrived \o coming
    BY <1>2 DEF Inflight
  <2> DEFINE f == FrameOf(hostblock)
  <2>3. coming \in Seq({f})
    <3> HIDE DEF f
    <3>1. coming = <<>> \/ coming = <<f>>
      BY DEF f
    <3> HIDE DEF coming
    <3> QED BY <3>1, AtMostOne
  <2> HIDE DEF arrived, coming
  <2>4. <<>> \o coming = coming
    BY <2>3
  <2>5. Inflight = coming
    BY <2>1, <2>2, <2>4
  <2> QED BY <2>5 DEF coming
<1> QED BY <1>1, <1>2

\* A step that moves no frame: the ring of the IP stack is the same, and what the
\* host has under way is still under way.
LEMMA SameInflight ==
  ASSUME UNCHANGED <<ethrxq, tears>>, tears \in Nat,
         tears = 0 => hostblock' = hostblock /\ (Undelivered' <=> Undelivered)
  PROVE  Inflight' = Inflight
<1>1. CASE tears > 0
  BY <1>1 DEF Inflight
<1>2. CASE tears = 0
  BY <1>2 DEF Inflight
<1> QED BY <1>1, <1>2

\* The first packet of a block: the channel accepts its frame, unless it is empty
\* or the channel is broken.
LEMMA HostBeginsInStep ==
  ASSUME OrdinaryHost, CInv, HostBegins
  PROVE  /\ InStep' /\ tears' = tears
         /\ \/ Inflight' = Inflight
            \/ \E i \in 0 .. Ids - 1, s \in HostBlocks :
                 /\ tears = 0 /\ Inflight = <<>>
                 /\ Inflight' = <<[id |-> i, len |-> s.len]>>
<1>1. PICK s \in HostBlocks : HostDone /\ Reaches(PacketFrom([id |-> hostid, shape |-> s], 0))
  BY DEF HostBegins, FirstPackets
<1> DEFINE b == [id |-> hostid, shape |-> s]
           p == PacketFrom(b, 0)
<1>2. b.id = hostid /\ b.shape = s /\ 0 < s.block /\ s.block \in Nat /\ s.len \in Nat
  BY HostBlockFacts
<1>3. /\ p.of = b /\ p.off = 0 /\ p.len \in Nat /\ 0 < p.len
      /\ usbrxring = <<>> /\ usbrxring' # <<>> /\ Head(usbrxring') = p
      /\ hostblock' = b /\ hostoff' = p.len /\ hostid' = (hostid + 1) % Ids
      /\ ~rxbufready /\ ethrxq = <<>> /\ ethrxq' = <<>> /\ tears' = tears
      /\ UNCHANGED <<rxstate, currheader, currcnt, rxbufready>>
  <2>1. Reaches(p) /\ 0 <= b.shape.block /\ b.shape \in HostBlocks
    BY <1>1, <1>2
  <2> HIDE DEF b, p
  <2>2. IInv /\ (0 = b.shape.block => FALSE)
    BY <1>2 DEF CInv
  <2>3. Reaches(PacketFrom(b, 0))
    BY <2>1 DEF p
  <2> QED BY <1>2, <2>1, <2>2, <2>3, ReachesFacts DEF p
<1> HIDE DEF b, p
<1>4. IInv'
  BY <1>1, HostBeginsStep DEF CInv
<1>5. hostid' \in 0 .. Ids - 1
  BY <1>3, NextId DEF CInv, InStep
<1>6. tears = 0 => rxstate # "CopyEntireMsg"
  <2>1. SUFFICES ASSUME tears = 0, rxstate = "CopyEntireMsg" PROVE FALSE
    OBVIOUS
  <2>2. hostblock.shape.block > hostoff
    BY <2>1, <1>3, HostPlace DEF CInv, InStep, ReceiverInStep, InSync, NextOff
  <2> QED BY <2>2, <1>1, HostPlace DEF CInv
<1>7. InStep'
  BY <1>3, <1>5, <1>6 DEF InStep, PacketInStep, ReceiverInStep
<1>8. tears = 0 => Inflight = <<>>
  <2>1. SUFFICES ASSUME tears = 0 PROVE Inflight = <<>>
    OBVIOUS
  <2>2. ~Undelivered
    BY <1>1, <1>3, HostPlace DEF CInv, Undelivered
  <2> QED BY <2>1, <2>2, <1>3, InflightIs DEF CInv
<1>9. /\ tears > 0 => Inflight' = <<>>
      /\ tears = 0 => Inflight' = IF s.len > 0 THEN <<[id |-> hostid, len |-> s.len]>> ELSE <<>>
  <2>1. Undelivered'
    BY <1>3 DEF Undelivered
  <2> QED BY <2>1, <1>2, <1>3, <1>4 DEF Inflight, FrameOf
<1>10. tears \in Nat
  BY NcmRxAssumption DEF CInv, IInv, TypeOK
<1>11. hostid \in 0 .. Ids - 1
  BY DEF CInv, InStep
<1>12. CASE tears > 0
  BY <1>12, <1>3, <1>7, <1>9, InflightIs DEF CInv
<1>13. CASE tears = 0
  BY <1>13, <1>3, <1>7, <1>8, <1>9, <1>11
<1> QED BY <1>10, <1>12, <1>13

\* The next packet of a block, or the zero-length one after it.
LEMMA HostContinuesInStep ==
  ASSUME OrdinaryHost, CInv, HostContinues
  PROVE  InStep' /\ tears' = tears /\ Inflight' = Inflight
<1> DEFINE b == hostblock
           p == PacketFrom(b, hostoff)
<1>1. ~HostDone /\ Reaches(p)
  BY DEF HostContinues, NextPacket
<1>2. b.shape \in HostBlocks /\ hostoff \in Nat /\ hostoff <= b.shape.block /\ b.shape.block \in Nat
  BY <1>1, HostPlace DEF CInv
<1>3. /\ p.of = b /\ p.off = hostoff /\ p.len \in Nat
      /\ p.len = 0 <=> hostoff = b.shape.block
      /\ usbrxring = <<>> /\ usbrxring' # <<>> /\ Head(usbrxring') = p
      /\ hostblock' = b
      /\ hostoff' = IF p.len = 0 THEN hostoff + 1 ELSE hostoff + p.len
      /\ hostid' = IF hostoff = 0 THEN (hostid + 1) % Ids ELSE hostid
      /\ ~rxbufready /\ ethrxq = <<>> /\ tears' = tears
      /\ UNCHANGED <<rxstate, currheader, currcnt, rxbufready, ethrxq>>
  BY <1>1, <1>2, ReachesFacts DEF CInv
<1> HIDE DEF p
<1>4. hostid' \in 0 .. Ids - 1
  BY <1>3, NextId DEF CInv, InStep
<1>5. tears = 0 =>
        /\ rxstate = "CopyEntireMsg" =>
             b = currheader /\ hostoff = currcnt /\ currcnt < currheader.shape.block
        /\ rxstate = "AwaitHeader" => p.len = 0
  BY <1>2, <1>3 DEF CInv, InStep, ReceiverInStep, InSync, NextOff
<1>6. PacketInStep' \/ tears' # 0
  BY <1>3, <1>5 DEF PacketInStep
<1>7. ReceiverInStep' \/ tears' # 0
  BY <1>3, <1>5 DEF ReceiverInStep, InSync, NextOff
<1>8. InStep'
  BY <1>3, <1>4, <1>6, <1>7 DEF InStep
<1>9. Undelivered' <=> Undelivered
  <2>1. Undelivered <=> hostoff < b.shape.block
    BY <1>3 DEF Undelivered
  <2>2. CASE p.len = 0
    BY <2>1, <2>2, <1>2, <1>3 DEF Undelivered
  <2>3. CASE p.len # 0
    BY <2>1, <2>3, <1>2, <1>3 DEF Undelivered
  <2> QED BY <2>2, <2>3
<1>10. tears \in Nat
  BY NcmRxAssumption DEF CInv, IInv, TypeOK
<1> QED BY <1>3, <1>8, <1>9, <1>10, SameInflight

\* The channel breaks when the first transfer is abandoned.
LEMMA HostAbandonsInStep ==
  ASSUME CInv, HostAbandons
  PROVE  /\ InStep' /\ tears \in Nat /\ tears' = tears + 1 /\ Inflight' = <<>>
<1>1. tears \in Nat /\ tears' = tears + 1
  BY NcmRxAssumption DEF CInv, IInv, TypeOK, HostAbandons
<1>2. Inflight' = <<>>
  BY <1>1 DEF Inflight
<1>3. InStep'
  BY <1>1 DEF CInv, InStep, HostAbandons, devvars
<1> QED BY <1>1, <1>2, <1>3

\* The IP stack takes the oldest frame.
LEMMA ConsumeRxTokenInStep ==
  ASSUME CInv, ConsumeRxToken
  PROVE  /\ InStep' /\ tears' = tears
         /\ \/ Inflight' = Inflight
            \/ Inflight # <<>> /\ Inflight' = Tail(Inflight) /\ Len(ethrxq') < Len(ethrxq)
<1> DEFINE arrived(q) == [i \in 1 .. Len(q) |-> Received(q[i])]
           coming == IF Undelivered /\ hostblock.shape.len > 0
                       THEN <<FrameOf(hostblock)>> ELSE <<>>
<1>1. /\ ethrxq # <<>> /\ ethrxq' = Tail(ethrxq) /\ ethrxq \in Seq(RxMsg) /\ tears \in Nat
      /\ UNCHANGED <<usbrxring, rxstate, currheader, currcnt, rxbufready, hostvars>>
  BY NcmRxAssumption DEF CInv, IInv, TypeOK, ConsumeRxToken
<1>2. UNCHANGED <<hostblock, hostoff, hostid, tears>>
  BY <1>1 DEF hostvars
<1>3. usbrxring = <<>> /\ ~rxbufready
  BY <1>1 DEF CInv, InStep
<1>4. InStep'
  BY <1>1, <1>2, <1>3 DEF CInv, InStep, PacketInStep, ReceiverInStep, InSync, NextOff
<1>5. CASE tears > 0
  BY <1>5, <1>2, <1>4 DEF Inflight
<1>6. CASE tears = 0
  <2>1. Inflight = arrived(ethrxq) \o coming
    BY <1>6 DEF Inflight
  <2>2. coming' = coming
    BY <1>1, <1>2 DEF Undelivered, FrameOf
  <2>3. Inflight' = arrived(ethrxq') \o coming
    BY <1>2, <1>6, <2>2 DEF Inflight
  <2>4. Len(ethrxq) \in Nat /\ Len(ethrxq) > 0 /\ Len(ethrxq') = Len(ethrxq) - 1
    BY <1>1
  <2>5. \A i \in 1 .. Len(ethrxq') : ethrxq'[i] = ethrxq[i + 1]
    BY <1>1
  <2> DEFINE Any == {Received(ethrxq[i]) : i \in 1 .. Len(ethrxq)} \cup {FrameOf(hostblock)}
  <2>6. /\ arrived(ethrxq) \in Seq(Any) /\ Len(arrived(ethrxq)) = Len(ethrxq)
        /\ \A i \in 1 .. Len(ethrxq) : arrived(ethrxq)[i] = Received(ethrxq[i])
    BY <2>4
  <2>7. /\ Len(arrived(ethrxq')) = Len(ethrxq) - 1
        /\ \A i \in 1 .. Len(ethrxq) - 1 : arrived(ethrxq')[i] = Received(ethrxq[i + 1])
        /\ arrived(ethrxq') \in Seq(Any)
    <3>1. \A i \in 1 .. Len(ethrxq') : Received(ethrxq'[i]) \in Any
      BY <2>4, <2>5
    <3> HIDE DEF Any
    <3> QED BY <2>4, <2>5, <3>1
  <2>8. coming \in Seq(Any)
    <3>1. coming = <<>> \/ coming = <<FrameOf(hostblock)>>
      OBVIOUS
    <3>2. FrameOf(hostblock) \in Any
      OBVIOUS
    <3> HIDE DEF coming, Any
    <3> QED BY <3>1, <3>2, AtMostOne
  <2> HIDE DEF Any, coming, arrived
  <2>9. arrived(ethrxq') = Tail(arrived(ethrxq))
    BY <2>4, <2>6, <2>7
  <2>10. arrived(ethrxq) # <<>>
    BY <2>4, <2>6
  <2>11. Tail(arrived(ethrxq) \o coming) = Tail(arrived(ethrxq)) \o coming
         /\ arrived(ethrxq) \o coming # <<>>
    BY <2>6, <2>8, <2>10
  <2>12. Inflight # <<>> /\ Inflight' = Tail(Inflight)
    BY <2>1, <2>3, <2>9, <2>11
  <2>13. Len(ethrxq') < Len(ethrxq)
    BY <2>4
  <2> QED BY <2>12, <2>13, <1>2, <1>4
<1> QED BY <1>1, <1>5, <1>6

\* What a step of the receive loop leaves alone: the IP stack's ring, which is
\* empty, and the host; and it leaves the ring of packets empty.
LEMMA LoopFacts ==
  ASSUME CInv, usbrxring # <<>>, usbrxring' = Tail(usbrxring), UNCHANGED <<ethrxq, hostvars>>
  PROVE  /\ usbrxring' = <<>> /\ ethrxq = <<>> /\ ethrxq' = <<>> /\ ~rxbufready
         /\ UNCHANGED <<hostblock, hostoff, hostid, tears>>
         /\ hostid' \in 0 .. Ids - 1 /\ tears \in Nat
         /\ hostoff \in Nat /\ hostblock.shape.block \in Nat
<1>1. usbrxring' = <<>> /\ ~rxbufready
  BY HeadPacket DEF CInv
<1>2. ethrxq = <<>> /\ hostid \in 0 .. Ids - 1
  BY DEF CInv, InStep
<1>3. UNCHANGED <<hostblock, hostoff, hostid, tears>>
  BY DEF hostvars
<1>4. tears \in Nat
  BY NcmRxAssumption DEF CInv, IInv, TypeOK
<1> QED BY <1>1, <1>2, <1>3, <1>4, HostPlace DEF CInv

\* While nothing was abandoned only a zero-length packet is dropped.
LEMMA RxSkipInStep ==
  ASSUME OrdinaryHost, CInv, RxSkip
  PROVE  InStep' /\ tears' = tears /\ Inflight' = Inflight
<1> DEFINE p == Head(usbrxring)
<1>1. /\ usbrxring # <<>> /\ ~StartsBlock(p) /\ rxstate = "AwaitHeader"
      /\ usbrxring' = Tail(usbrxring)
      /\ UNCHANGED <<rxstate, currheader, currcnt, rxbufready, ethrxq, hostvars>>
  BY DEF RxSkip
<1>2. /\ usbrxring' = <<>> /\ ethrxq = <<>> /\ ethrxq' = <<>> /\ ~rxbufready
      /\ UNCHANGED <<hostblock, hostoff, hostid, tears>>
      /\ hostid' \in 0 .. Ids - 1 /\ tears \in Nat
      /\ hostoff \in Nat /\ hostblock.shape.block \in Nat
  BY <1>1, LoopFacts
<1>3. /\ p.of = hostblock /\ p.of.shape \in HostBlocks /\ p.len \in Nat
      /\ p.off = 0 => p.len = FirstLen(p.of.shape)
  BY <1>1, HeadPacket DEF CInv
<1> HIDE DEF p
<1>4. p.off = 0 => StartsBlock(p)
  <2>1. NTH_SIZE <= FirstLen(p.of.shape)
    <3>1. p.of.shape.block \in Nat /\ NTH_SIZE <= p.of.shape.block
      BY <1>3, HostBlockFacts, NcmRxAssumption, HostAssumption DEF WellFormed
    <3> QED BY <3>1, NcmRxAssumption DEF FirstLen, MinOf
  <2>2. FirstLen(p.of.shape) \in Nat
    BY <1>3, HostBlockFacts
  <2> QED BY <2>1, <2>2, <1>3, NcmRxAssumption DEF StartsBlock
<1>5. tears = 0 => p.len = 0 /\ hostoff = hostblock.shape.block + 1
  BY <1>1, <1>3, <1>4 DEF CInv, InStep, PacketInStep, p
<1>6. tears = 0 => (Undelivered' <=> Undelivered)
  BY <1>1, <1>2, <1>5 DEF Undelivered, p
<1>7. InStep'
  BY <1>1, <1>2, <1>5 DEF InStep, PacketInStep, ReceiverInStep
<1> QED BY <1>2, <1>6, <1>7, SameInflight

\* The header packet of a block leaves more of it to come.
LEMMA RxHeaderInStep ==
  ASSUME OrdinaryHost, CInv, RxHeader
  PROVE  InStep' /\ tears' = tears /\ Inflight' = Inflight
<1> DEFINE p == Head(usbrxring)
<1>1. /\ usbrxring # <<>> /\ StartsBlock(p) /\ rxstate = "AwaitHeader"
      /\ usbrxring' = Tail(usbrxring) /\ rxstate' = "CopyEntireMsg"
      /\ currheader' = p.of /\ currcnt' = currcnt + p.len
      /\ UNCHANGED <<rxbufready, ethrxq, hostvars>>
  BY DEF RxHeader
<1>2. /\ usbrxring' = <<>> /\ ethrxq = <<>> /\ ethrxq' = <<>> /\ ~rxbufready
      /\ UNCHANGED <<hostblock, hostoff, hostid, tears>>
      /\ hostid' \in 0 .. Ids - 1 /\ tears \in Nat
      /\ hostoff \in Nat /\ hostblock.shape.block \in Nat
  BY <1>1, LoopFacts
<1>3. /\ p.of = hostblock /\ hostblock.shape \in HostBlocks
      /\ p.off = 0 /\ p.len = FirstLen(hostblock.shape)
  BY <1>1, HeadPacket DEF CInv, StartsBlock
<1>4. tears = 0 => hostoff = IF p.len = 0 THEN p.off + 1 ELSE p.off + p.len
  BY <1>1 DEF CInv, InStep, PacketInStep
<1> HIDE DEF p
<1>5. p.len = EP_DATA_BUF_SIZE /\ p.len \in Nat /\ 0 < p.len /\ p.len < hostblock.shape.block
  <2>1. EP_DATA_BUF_SIZE < hostblock.shape.block
    BY <1>3 DEF OrdinaryHost
  <2> QED BY <2>1, <1>2, <1>3, NcmRxAssumption DEF FirstLen, MinOf
<1>6. currcnt' = p.len
  <2>1. currcnt = 0
    BY <1>1 DEF CInv, IInv, Reassembly, Collecting
  <2> QED BY <2>1, <1>1, <1>5
<1>7. tears = 0 => hostoff = p.len
  BY <1>3, <1>4, <1>5
<1>8. tears = 0 => Undelivered /\ Undelivered'
  <2>1. tears = 0 => hostoff < hostblock.shape.block
    BY <1>5, <1>7
  <2> QED BY <2>1, <1>2 DEF Undelivered
<1>9. tears = 0 => ReceiverInStep'
  <2>1. SUFFICES ASSUME tears = 0 PROVE ReceiverInStep'
    OBVIOUS
  <2>2. NextOff' = hostoff'
    BY <1>2 DEF NextOff
  <2>3. InSync'
    BY <2>1, <2>2, <1>1, <1>2, <1>3, <1>6, <1>7 DEF InSync
  <2>4. currcnt' < currheader'.shape.block
    BY <1>1, <1>3, <1>5, <1>6
  <2> QED BY <2>3, <2>4, <1>1, <1>2 DEF ReceiverInStep
<1>10. InStep'
  BY <1>2, <1>9 DEF InStep, PacketInStep
<1> QED BY <1>2, <1>8, <1>10, SameInflight

\* A further packet of the block the host is sending; the last one completes it.
LEMMA RxCopyInStep ==
  ASSUME OrdinaryHost, CInv, ~panicked, RxCopy
  PROVE  InStep' /\ tears' = tears /\ Inflight' = Inflight
<1> DEFINE p == Head(usbrxring)
           total == currheader.shape.block
           n == MinOf(total - currcnt, p.len)
<1>1. /\ usbrxring # <<>> /\ rxstate = "CopyEntireMsg" /\ usbrxring' = Tail(usbrxring)
      /\ UNCHANGED <<currheader, ethrxq, hostvars>>
  BY DEF RxCopy
<1>2. /\ usbrxring' = <<>> /\ ethrxq = <<>> /\ ethrxq' = <<>> /\ ~rxbufready
      /\ UNCHANGED <<hostblock, hostoff, hostid, tears>>
      /\ hostid' \in 0 .. Ids - 1 /\ tears \in Nat
      /\ hostoff \in Nat /\ hostblock.shape.block \in Nat
  BY <1>1, LoopFacts
<1>3. CASE tears # 0
  <2>1. InStep'
    BY <1>2, <1>3 DEF InStep
  <2> QED BY <2>1, <1>2, <1>3, SameInflight
<1>4. CASE tears = 0
  <2>1. /\ p.of = hostblock /\ p.off \in Nat /\ p.len \in Nat
        /\ p.off + p.len <= hostblock.shape.block
    BY <1>1, HeadPacket DEF CInv
  <2>2. /\ hostblock = currheader /\ p.off = currcnt /\ currcnt < total
        /\ hostoff = IF p.len = 0 THEN p.off + 1 ELSE p.off + p.len
        /\ p.len = 0 => p.off = p.of.shape.block
    BY <1>1, <1>4 DEF CInv, InStep, ReceiverInStep, PacketInStep, InSync, NextOff
  <2>3. total \in Nat /\ currcnt \in Nat /\ 0 < p.len /\ hostoff = currcnt + p.len
        /\ currcnt + p.len <= total
    BY <2>1, <2>2, <1>2
  <2>4. n = p.len /\ ~(currcnt > total)
    <3>1. n = MinOf(total - currcnt, p.len)
      OBVIOUS
    <3> HIDE DEF p, total, n
    <3> QED BY <2>1, <2>2, <2>3, <3>1 DEF MinOf
  <2>5. IF currcnt + p.len = total
          THEN rxstate' = "AwaitHeader" /\ currcnt' = 0 /\ rxbufready' = TRUE
          ELSE currcnt' = currcnt + p.len /\ rxstate' = rxstate /\ rxbufready' = rxbufready
    BY <2>4 DEF RxCopy, RestartRx, Completes
  <2>6. Undelivered
    BY <1>1, <2>3 DEF Undelivered
  <2> HIDE DEF p, total, n
  <2>7. CASE currcnt + p.len = total
    <3>1. Undelivered'
      BY <2>5, <2>7 DEF Undelivered
    <3>2. InStep'
      BY <1>1, <1>2, <2>2, <2>3, <2>5, <2>7
         DEF InStep, PacketInStep, ReceiverInStep, total
    <3> QED BY <3>1, <3>2, <2>6, <1>2, SameInflight
  <2>8. CASE currcnt + p.len # total
    <3>1. currcnt' = currcnt + p.len /\ currcnt' < total /\ rxstate' = "CopyEntireMsg"
          /\ ~rxbufready'
      BY <1>1, <1>2, <2>3, <2>5, <2>8
    <3>2. Undelivered'
      BY <1>2, <2>2, <2>3, <3>1 DEF Undelivered, total
    <3>3. InSync'
      BY <1>1, <1>2, <2>2, <2>3, <3>1 DEF InSync, NextOff
    <3>4. InStep'
      BY <1>1, <1>2, <3>1, <3>3 DEF InStep, PacketInStep, ReceiverInStep, total
    <3> QED BY <3>2, <3>4, <2>6, <1>2, SameInflight
  <2> QED BY <2>7, <2>8
<1> QED BY <1>3, <1>4

\* A complete block goes to the empty ring of the IP stack, whole.
LEMMA RxDeliverInStep ==
  ASSUME OrdinaryHost, CInv, RxDeliver
  PROVE  InStep' /\ tears' = tears /\ Inflight' = Inflight
<1> DEFINE h == currheader.shape
<1>1. /\ usbrxring = <<>> /\ rxbufready /\ rxbufready' = FALSE /\ ethrxq = <<>>
      /\ UNCHANGED <<usbrxring, rxstate, currheader, currcnt, hostvars>>
  BY DEF RxDeliver, CInv, InStep
<1>2. /\ UNCHANGED <<hostblock, hostoff, hostid, tears>> /\ tears \in Nat
      /\ rxstate = "AwaitHeader"
  BY <1>1, NcmRxAssumption DEF hostvars, CInv, IInv, TypeOK, Reassembly, Collecting
<1>3. CASE tears # 0
  <2>1. InStep'
    BY <1>1, <1>2, <1>3 DEF CInv, InStep
  <2>2. Inflight = <<>> /\ Inflight' = <<>>
    BY <1>2, <1>3 DEF Inflight
  <2> QED BY <2>1, <2>2, <1>2
<1>4. CASE tears = 0
  <2>1. /\ hostblock = currheader /\ hostblock.shape.block <= hostoff
    BY <1>1, <1>2, <1>4 DEF CInv, InStep, ReceiverInStep
  <2>2. InStep'
    BY <1>1, <1>2, <2>1 DEF CInv, InStep, PacketInStep, ReceiverInStep
  <2>3. Undelivered /\ ~Undelivered'
    <3>1. ~(hostoff < hostblock.shape.block)
      BY <2>1, HostPlace DEF CInv
    <3> QED BY <3>1, <1>1, <1>2 DEF Undelivered
  <2>4. IInv /\ h \in HostBlocks /\ Collected(h.block)
    BY <1>1, <1>4, NotOwed DEF CInv, IInv, Reassembly, HeadKept, Collecting
  <2>5. /\ h.block \in Nat /\ h.ndp \in Nat /\ h.index \in Nat /\ h.len \in Nat
        /\ h.block <= NCM_MAX_IN_SIZE /\ h.ndp + NDP_SIZE <= h.block
        /\ h.index + h.len <= h.block /\ h.len <= MTU
    BY <2>4, HostBlockFacts DEF OrdinaryHost
  <2> DEFINE d == Entry(currheader)
  <2>6. Entries = {d}
    BY <2>4, <2>5, OwnTable
  <2>7. Fits(d) /\ d.len = h.len
    BY <2>5, NcmRxAssumption DEF Fits, Entry
  <2> HIDE DEF d
  <2>8. ethrxq' = IF h.len > 0 THEN <<Frame(d)>> ELSE <<>>
    <3>1. ethrxq' = Pushed(d)
      BY <2>6, <2>7 DEF RxDeliver
    <3>2. Len(ethrxq) < ETH_RXQ_CAP
      BY <1>1, NcmRxAssumption
    <3> QED BY <2>7, <3>1, <3>2, <1>1 DEF Pushed
  <2>9. h.len > 0 => Received(Frame(d)) = FrameOf(currheader)
    <3>1. SUFFICES ASSUME h.len > 0 PROVE Received(Frame(d)) = FrameOf(currheader)
      OBVIOUS
    <3>2. Whole(Frame(d))
      BY <2>4, OwnFrame DEF d
    <3>3. Len(Frame(d)) = h.len
      BY <2>5, <2>7 DEF Frame
    <3>4. Frame(d)[1] = ncmmsgrxbuf[h.index]
      <4>1. 1 \in 1 .. d.len /\ h.index + 1 - 1 = h.index /\ d.index = h.index
        BY <2>5, <2>7, <3>1 DEF d, Entry
      <4> HIDE DEF h
      <4>2. Frame(d)[1] = ncmmsgrxbuf[d.index + 1 - 1]
        BY <4>1 DEF Frame
      <4> QED BY <4>1, <4>2
    <3>5. ncmmsgrxbuf[h.index] = ByteAt(currheader, h.index)
      <4>1. h.index \in 0 .. h.block - 1
        BY <2>5, <3>1
      <4> QED BY <4>1, <2>4 DEF Collected
    <3>6. Frame(d)[1].of = currheader
      BY <3>4, <3>5 DEF ByteAt
    <3> QED BY <3>2, <3>3, <3>6 DEF Received
  <2>10. Inflight = IF h.len > 0 THEN <<FrameOf(currheader)>> ELSE <<>>
    BY <1>1, <1>4, <2>1, <2>3, InflightIs DEF CInv
  <2>11. Inflight' = [i \in 1 .. Len(ethrxq') |-> Received(ethrxq'[i])]
    <3> DEFINE arrived == [i \in 1 .. Len(ethrxq') |-> Received(ethrxq'[i])]
    <3>1. Inflight' = arrived \o <<>>
      BY <1>2, <1>4, <2>3 DEF Inflight
    <3>2. Len(ethrxq') \in Nat
      BY <2>8
    <3>3. arrived \in Seq({arrived[i] : i \in 1 .. Len(ethrxq')})
      BY <3>2
    <3> HIDE DEF arrived
    <3>4. arrived \o <<>> = arrived
      BY <3>3
    <3> QED BY <3>1, <3>4 DEF arrived
  <2>12. Inflight' = Inflight
    <3>1. CASE h.len > 0
      <4>1. ethrxq' = <<Frame(d)>>
        BY <2>8, <3>1
      <4>2. Len(ethrxq') = 1 /\ ethrxq'[1] = Frame(d)
        BY <4>1
      <4>3. Inflight' = [i \in 1 .. 1 |-> Received(Frame(d))]
        BY <2>11, <4>2
      <4>4. Inflight' = <<Received(Frame(d))>>
        BY <4>3
      <4> QED BY <4>4, <2>9, <2>10, <3>1
    <3>2. CASE ~(h.len > 0)
      <4>1. ethrxq' = <<>>
        BY <2>8, <3>2
      <4> QED BY <4>1, <2>10, <2>11, <3>2
    <3> QED BY <3>1, <3>2
  <2> QED BY <2>2, <2>12, <1>2
<1> QED BY <1>3, <1>4

\* Every step keeps in step, and moves frames only as the channel does.
LEMMA InflightStep ==
  ASSUME OrdinaryHost, CInv, [Next]_vars
  PROVE  /\ CInv'
         /\ \/ Inflight' = Inflight /\ tears' = tears
            \/ \E i \in 0 .. Ids - 1, s \in HostBlocks :
                 /\ tears' = tears /\ tears = 0 /\ Inflight = <<>>
                 /\ Inflight' = <<[id |-> i, len |-> s.len]>>
            \/ /\ tears' = tears /\ Inflight # <<>> /\ Inflight' = Tail(Inflight)
               /\ Len(ethrxq') < Len(ethrxq)
            \/ tears \in Nat /\ tears' = tears + 1 /\ Inflight' = <<>>
<1>1. IInv'
  BY NextIInv DEF CInv
<1>2. CASE UNCHANGED vars
  <2> USE <1>2 DEF vars, devvars, hostvars
  <2>1. InStep'
    BY DEF CInv, InStep, PacketInStep, ReceiverInStep, InSync, NextOff
  <2>2. tears \in Nat
    BY NcmRxAssumption DEF CInv, IInv, TypeOK
  <2>3. Inflight' = Inflight
    BY <2>2, SameInflight DEF Undelivered
  <2> QED BY <2>1, <2>3, <1>1 DEF CInv
<1>3. CASE ProcessRx
  BY <1>1, <1>3, RxSkipInStep, RxHeaderInStep, RxCopyInStep, RxDeliverInStep
     DEF ProcessRx, CInv
<1>4. CASE ConsumeRxToken
  BY <1>1, <1>4, ConsumeRxTokenInStep DEF CInv
<1>5. CASE HostBegins
  BY <1>1, <1>5, HostBeginsInStep DEF CInv
<1>6. CASE HostContinues
  BY <1>1, <1>6, HostContinuesInStep DEF CInv
<1>7. CASE HostAbandons
  BY <1>1, <1>7, HostAbandonsInStep DEF CInv
<1> QED BY <1>2, <1>3, <1>4, <1>5, <1>6, <1>7 DEF Next, Host

\* The frames under way are a sequence, and what the channel counts are naturals.
LEMMA InflightType ==
  ASSUME CInv
  PROVE  tears \in Nat /\ Len(ethrxq) \in Nat /\ Len(Inflight) \in Nat
<1>1. tears \in Nat /\ ethrxq \in Seq(RxMsg) /\ Len(ethrxq) \in Nat
  BY NcmRxAssumption DEF CInv, IInv, TypeOK
<1>2. Len(Inflight) \in Nat
  <2>1. CASE tears > 0
    BY <2>1 DEF Inflight
  <2>2. CASE tears = 0
    <3> DEFINE arrived == [i \in 1 .. Len(ethrxq) |-> Received(ethrxq[i])]
               coming == IF Undelivered /\ hostblock.shape.len > 0
                           THEN <<FrameOf(hostblock)>> ELSE <<>>
               Any == {Received(ethrxq[i]) : i \in 1 .. Len(ethrxq)} \cup {FrameOf(hostblock)}
    <3>1. Inflight = arrived \o coming
      BY <2>2 DEF Inflight
    <3>2. arrived \in Seq(Any)
      <4>1. \A i \in 1 .. Len(ethrxq) : Received(ethrxq[i]) \in Any
        OBVIOUS
      <4> HIDE DEF Any
      <4> QED BY <1>1, <4>1
    <3>3. coming \in Seq(Any)
      <4>1. FrameOf(hostblock) \in Any /\ (coming = <<>> \/ coming = <<FrameOf(hostblock)>>)
        OBVIOUS
      <4> HIDE DEF coming, Any
      <4> QED BY <4>1, AtMostOne
    <3> HIDE DEF arrived, coming, Any
    <3> QED BY <3>1, <3>2, <3>3
  <2> QED BY <1>1, <2>1, <2>2
<1> QED BY <1>1, <1>2

\* The channel begins empty.
LEMMA InitCInv == Init => CInv
  BY InitIInv, InitInStep DEF CInv

\* The same of the abstract one.
LEMMA InitChannel == Init => Channel!Init
<1> SUFFICES ASSUME Init PROVE Channel!Init
  OBVIOUS
<1>1. IInv
  BY InitIInv
<1>2. ~Undelivered /\ tears = 0 /\ ethrxq = <<>>
  BY DEF Init, Undelivered, Nothing
<1>3. Inflight = <<>>
  BY <1>1, <1>2, InflightIs
<1> QED BY <1>2, <1>3 DEF Channel!Init

\* A frame leaves the channel only to the IP stack, or with all of it.
LEMMA HandedStep ==
  ASSUME OrdinaryHost, CInv, [Next]_vars
  PROVE  Len(Inflight') < Len(Inflight) => Len(ethrxq') < Len(ethrxq) \/ tears' > tears
<1>1. tears \in Nat /\ Len(ethrxq) \in Nat
  BY InflightType
<1>2. CASE Inflight' = Inflight
  <2>1. ~(Len(Inflight') < Len(Inflight))
    <3>1. Len(Inflight) \in Nat
      BY InflightType
    <3> QED BY <3>1, <1>2
  <2> QED BY <2>1
<1>3. ASSUME NEW x, Inflight = <<>>, Inflight' = <<x>>
      PROVE  ~(Len(Inflight') < Len(Inflight))
  BY <1>3
<1> QED BY <1>1, <1>2, <1>3, InflightStep

\* A step of the receive path is a step of the abstract channel.
LEMMA ChannelStep ==
  ASSUME OrdinaryHost, CInv, [Next]_vars
  PROVE  [Channel!Next]_(Channel!vars)
<1>1. tears \in Nat
  BY InflightType
<1>2. CASE Inflight' = Inflight /\ tears' = tears
  BY <1>2, InflightStep DEF Channel!vars
<1>3. ASSUME NEW i \in 0 .. Ids - 1, NEW s \in HostBlocks,
             tears' = tears, tears = 0, Inflight = <<>>,
             Inflight' = <<[id |-> i, len |-> s.len]>>
      PROVE  Channel!Next
  <2> DEFINE f == [id |-> i, len |-> s.len]
  <2>1. f \in {[id |-> j, len |-> t.len] : j \in 0 .. Ids - 1, t \in HostBlocks}
    OBVIOUS
  <2> HIDE DEF f
  <2>2. Inflight' = Append(Inflight, f) /\ Len(Inflight) < ETH_RXQ_CAP + 1
    <3>1. Append(<<>>, f) = <<f>> /\ Len(<<>>) = 0
      OBVIOUS
    <3> QED BY <3>1, <1>3, NcmRxAssumption DEF f
  <2>3. Channel!Accept(f)
    BY <1>3, <2>2 DEF Channel!Accept
  <2> QED BY <2>1, <2>3 DEF Channel!Next
<1>4. CASE tears' = tears /\ Inflight # <<>> /\ Inflight' = Tail(Inflight)
  BY <1>4 DEF Channel!Next, Channel!HandOver
<1>5. CASE tears' = tears + 1 /\ Inflight' = <<>>
  <2>1. CASE tears = 0
    BY <1>5, <2>1 DEF Channel!Next, Channel!Break
  <2>2. CASE tears > 0
    <3>1. Inflight = <<>>
      BY <2>2, InflightIs DEF CInv
    <3> QED BY <3>1, <2>2, <1>1, <1>5 DEF Channel!vars
  <2> QED BY <1>1, <2>1, <2>2
<1> QED BY <1>2, <1>3, <1>4, <1>5, InflightStep

\* A host whose blocks are longer than a packet never completes one with its header,
\* so a receiver in the middle of a block has bytes of it to come.
LongBlocks == \A b \in HostBlocks : EP_DATA_BUF_SIZE < b.block
Unfinished == rxstate = "CopyEntireMsg" => currcnt < currheader.shape.block

\* The receive loop leaves no complete block behind.
LEMMA NextUnfinished ==
  ASSUME LongBlocks, IInv, Unfinished, [Next]_vars PROVE Unfinished'
<1>1. CASE RxHeader
  <2> DEFINE p == Head(usbrxring)
  <2>1. /\ p.of.shape \in HostBlocks /\ p.len = FirstLen(p.of.shape)
        /\ currheader' = p.of /\ currcnt' = currcnt + p.len /\ currcnt = 0
    BY <1>1, HeadPacket DEF RxHeader, StartsBlock, IInv, Reassembly, Collecting
  <2> HIDE DEF p
  <2>2. /\ p.of.shape.block \in Nat /\ EP_DATA_BUF_SIZE < p.of.shape.block
        /\ EP_DATA_BUF_SIZE \in Nat
    BY <2>1, HostBlockFacts, NcmRxAssumption DEF LongBlocks
  <2>3. p.len = EP_DATA_BUF_SIZE
    BY <2>1, <2>2 DEF FirstLen, MinOf
  <2> QED BY <2>1, <2>2, <2>3 DEF Unfinished
<1>2. CASE RxCopy
  <2> DEFINE p == Head(usbrxring)
             total == currheader.shape.block
             n == MinOf(total - currcnt, p.len)
  <2>1. /\ currcnt \in Nat /\ total \in Nat /\ currcnt < total /\ p.len \in Nat
    BY <1>2, HeadPacket DEF RxCopy, Unfinished, IInv, TypeOK, NumberedBlock, Shape
  <2>2. n \in Nat /\ currcnt + n <= total
    <3> HIDE DEF p, total
    <3> QED BY <2>1 DEF MinOf
  <2>3. /\ currheader' = currheader
        /\ rxstate' = "AwaitHeader" \/ (currcnt' = currcnt + n /\ currcnt + n # total)
    <3>1. ~(currcnt > total)
      BY <2>1
    <3> QED BY <1>2, <3>1 DEF RxCopy, RestartRx, Completes
  <2> HIDE DEF n
  <2> QED BY <2>1, <2>2, <2>3 DEF Unfinished
<1>3. CASE RxSkip \/ RxDeliver \/ ConsumeRxToken \/ HostBegins \/ HostContinues
           \/ HostAbandons \/ UNCHANGED vars
  BY <1>3 DEF Unfinished, RxSkip, RxDeliver, ConsumeRxToken, HostBegins, HostContinues,
              Reaches, HostAbandons, devvars, vars
<1> QED BY <1>1, <1>2, <1>3 DEF Next, ProcessRx, Host

\* What the receiver is collecting, when no damage is owed, is what the host is
\* sending: it is not done.
LEMMA StepsTogether == ASSUME IInv, Unfinished PROVE BackInStep
<1> SUFFICES ASSUME ~Owed, LoopIsIdle, HostDone PROVE rxstate = "AwaitHeader"
  BY DEF BackInStep, TransferComplete
<1>1. hostblock.shape.block \in Nat /\ hostoff \in Nat /\ hostblock.shape.block <= hostoff
  BY HostPlace
<1>2. CASE rxstate = "CopyEntireMsg"
  <2>1. currcnt \in Nat /\ currcnt < currheader.shape.block /\ currheader.shape.block \in Nat
    BY <1>2 DEF Unfinished, IInv, TypeOK, NumberedBlock, Shape
  <2>2. InSync
    BY <1>2, <2>1 DEF IInv, Reassembly, Collecting
  <2>3. hostblock = currheader /\ hostoff = currcnt
    BY <2>2 DEF InSync, NextOff, LoopIsIdle
  <2> QED BY <1>1, <2>1, <2>3
<1> QED BY <1>2 DEF IInv, TypeOK, IpRxState

\* A host that abandoned nothing and is done has a receiver that waits for a
\* header.
StartsTogether == tears = 0 => TransferComplete

\* A block that is being collected is one the host has not come to the end of.
LEMMA DoneTogether == ASSUME CInv PROVE StartsTogether
<1> SUFFICES ASSUME tears = 0, LoopIsIdle, HostDone PROVE rxstate = "AwaitHeader"
  BY DEF StartsTogether, TransferComplete
<1>1. hostblock.shape.block \in Nat /\ hostoff \in Nat /\ hostblock.shape.block <= hostoff
  BY HostPlace DEF CInv
<1>2. CASE rxstate = "CopyEntireMsg"
  <2>1. InSync /\ currcnt < currheader.shape.block
    BY <1>2 DEF CInv, InStep, ReceiverInStep
  <2>2. hostblock = currheader /\ hostoff = currcnt
    BY <2>1 DEF InSync, NextOff, LoopIsIdle
  <2> QED BY <1>1, <2>1, <2>2
<1> QED BY <1>2 DEF CInv, IInv, TypeOK, IpRxState

-----------------------------------------------------------------------------
(* What a reader should know.                                              *)

\* Type correctness of the receive half of process_messages.
THEOREM TypeCorrect == Spec => []TypeOK
<1>1. IInv => TypeOK
  BY DEF IInv
<1> QED BY <1>1, Invariance, PTL

\* What the buffer holds while a block is being reassembled.
THEOREM BufferIsTheBlock == Spec => []Reassembly
<1>1. IInv => Reassembly
  BY DEF IInv
<1> QED BY <1>1, Invariance, PTL

\* No more frames are delivered damaged than transfers were abandoned (the blocks
\* swallowed on the way are not counted).
THEOREM DamageIsBounded == Spec => []TornBound
<1>1. IInv => TornBound
  BY DEF IInv, Reassembly
<1> QED BY <1>1, Invariance, PTL

\* For every host whose blocks are longer than a packet, a receiver that owes no
\* damaged frame has finished with each block when the host has.
THEOREM StepIsRegained == ASSUME LongBlocks PROVE Spec => []BackInStep
<1>1. Init => Unfinished
  BY DEF Init, Unfinished
<1>2. IInv /\ Unfinished /\ [Next]_vars => Unfinished'
  BY NextUnfinished
<1>3. IInv /\ Unfinished => BackInStep
  BY StepsTogether
<1> QED BY <1>1, <1>2, <1>3, InitIInv, NextIInv, PTL DEF Spec

\* Whatever a host with frames within MTU sends and abandons, none of the panics,
\* slices and subtractions of the receive path fails but for the unwrap, or a
\* slice, on a torn pointer table, of a block that has it outside its first packet.
THEOREM PanicsAreTorn == ASSUME FramesFit PROVE Spec => []PanicsOnlyTorn
<1>1. IInv => PanicsOnlyTorn
  BY DEF IInv, PanicFree, PanicsOnlyTorn
<1> QED BY <1>1, Invariance, PTL

\* A host that abandons nothing, with frames within MTU, reaches no panic at all;
\* nor does one that has every pointer table in the first packet.
THEOREM NeverPanics == ASSUME SafeHost \/ (FramesFit /\ MaxTears = 0) PROVE Spec => []NoPanic
<1>1. IInv => NoPanic
  <2>1. SUFFICES ASSUME IInv, panicked PROVE FALSE
    BY DEF NoPanic
  <2>2. CASE SafeHost
    BY <2>1, <2>2, SafeIsPanicFree
  <2>3. CASE FramesFit /\ MaxTears = 0
    <3>1. Owed
      BY <2>1, <2>3 DEF IInv, PanicFree, PanicsOnlyTorn
    <3>2. tears = 0 /\ torn \in Nat
      BY <2>1, <2>3 DEF IInv, TypeOK
    <3> QED BY <3>1, <3>2 DEF Owed
  <2> QED BY <2>2, <2>3
<1> QED BY <1>1, Invariance, PTL

\* For a host whose blocks are longer than a packet and whose frames fit, no
\* frame is dropped between the ring of packets and the IP stack: the channel is
\* left only through ConsumeRxToken, or broken by an abandoned transfer.
THEOREM FramesReachTheStack == ASSUME OrdinaryHost PROVE Spec => NothingLost
<1> DEFINE Handed == Len(Inflight') < Len(Inflight) =>
                       Len(ethrxq') < Len(ethrxq) \/ tears' > tears
<1>1. CInv /\ [Next]_vars => CInv' /\ [Handed]_vars
  BY InflightStep, HandedStep
<1> QED BY <1>1, InitCInv, PTL DEF Spec, NothingLost

\* Step by step the receive path is the abstract channel for such a host, until it
\* abandons a transfer: it accepts a frame, hands over the oldest complete and in
\* order, or nothing changes.
THEOREM RefinesChannel == ASSUME OrdinaryHost PROVE Spec => Channel!Spec
<1>1. CInv /\ [Next]_vars => CInv' /\ [Channel!Next]_(Channel!vars)
  BY InflightStep, ChannelStep
<1> QED BY <1>1, InitCInv, InitChannel, PTL DEF Spec, Channel!Spec

\* Such a host and the receive path come to the end of a block together, until it
\* abandons a transfer: what Resynchronises says of the time after, said of the
\* time before.
THEOREM BlocksEndTogether == ASSUME OrdinaryHost PROVE Spec => []StartsTogether
<1>1. CInv /\ [Next]_vars => CInv'
  BY InflightStep
<1> QED BY <1>1, InitCInv, DoneTogether, PTL DEF Spec
=============================================================================
