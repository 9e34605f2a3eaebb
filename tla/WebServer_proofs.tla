-------------------------- MODULE WebServer_proofs --------------------------
(***************************************************************************)
(* Proofs about WebServer, for every set of requests, page length, size of *)
(* the socket's buffers and of the heap, number of connections, and for    *)
(* every way in which TCP may cut the stream.                              *)
(***************************************************************************)
EXTENDS WebServer, Integers, SequenceTheorems, WellFoundedInduction, TLAPS

-----------------------------------------------------------------------------
(* The operators of the parser and of the socket.                          *)

\* An index of an empty line that no other precedes exists as soon as one was
\* received: req.find("\r\n\r\n").
LEMMA FirstEndExists ==
    ASSUME NEW s \in Seq(Part), Ends(s) # {}
    PROVE  FirstEnd(s) \in Ends(s) /\ \A j \in Ends(s) : FirstEnd(s) <= j
<1> DEFINE R == OpToRel(<, Nat)
<1>1. Ends(s) \subseteq Nat
  BY DEF Ends
<1>2. PICK i \in Ends(s) : \A j \in Ends(s) : ~(<<j, i>> \in R)
  <2> HIDE DEF R
  <2>1. IsWellFoundedOn(R, Nat)
    BY NatLessThanWellFounded DEF R
  <2> QED
    BY <2>1, <1>1, WFMin
<1>3. \A j \in Ends(s) : i <= j
  <2> SUFFICES ASSUME NEW j \in Ends(s), ~(i <= j) PROVE FALSE
    OBVIOUS
  <2>1. j < i /\ i \in Nat /\ j \in Nat
    BY <1>1
  <2>2. <<j, i>> \in R
    BY <2>1 DEF OpToRel
  <2> QED
    BY <2>2, <1>2
<1> QED
  BY <1>3 DEF FirstEnd

\* The parts of a request, in the order in which they are sent.
LEMMA PartsShape ==
    ASSUME NEW c \in 0 .. Conns - 1, NEW r \in Requests
    PROVE  /\ PartsOf(c, r) \in Seq(Part)
           /\ Len(PartsOf(c, r)) = IF r.method = "POST" THEN 5 ELSE 4
           /\ \A i \in 1 .. Len(PartsOf(c, r)) :
                PartsOf(c, r)[i].conn = c /\ PartsOf(c, r)[i].req = r
           /\ PartsOf(c, r)[1].kind = "method"
           /\ \A i \in 1 .. Len(PartsOf(c, r)) : PartsOf(c, r)[i].kind = "end" <=> i = 4
           /\ r.method = "POST" => PartsOf(c, r)[5].kind = "body"
<1> DEFINE kinds == <<"method", "path", "fields", "end">>
                    \o (IF r.method = "POST" THEN <<"body">> ELSE <<>>)
           n == IF r.method = "POST" THEN 5 ELSE 4
<1>0. n \in {4, 5} /\ (r.method = "POST" <=> n = 5)
  OBVIOUS
<1>1. /\ kinds \in Seq(Parts) /\ Len(kinds) = n
      /\ kinds[1] = "method" /\ kinds[2] = "path" /\ kinds[3] = "fields" /\ kinds[4] = "end"
      /\ r.method = "POST" => kinds[5] = "body"
  <2> DEFINE line == <<"method", "path", "fields", "end">>
             rest == IF r.method = "POST" THEN <<"body">> ELSE <<>>
  <2>1. /\ line \in Seq(Parts) /\ Len(line) = 4
        /\ line[1] = "method" /\ line[2] = "path" /\ line[3] = "fields" /\ line[4] = "end"
    BY DEF Parts
  <2>2. rest \in Seq(Parts) /\ Len(rest) = n - 4 /\ (r.method = "POST" => rest[1] = "body")
    <3>1. CASE r.method = "POST"
      <4>1. rest = <<"body">> /\ n = 5
        BY <3>1
      <4> HIDE DEF rest
      <4>2. rest \in Seq(Parts) /\ Len(rest) = 1 /\ rest[1] = "body"
        BY <4>1 DEF Parts
      <4> QED
        BY <4>1, <4>2
    <3>2. CASE r.method # "POST"
      <4>1. rest = <<>> /\ n = 4
        BY <3>2
      <4> QED
        BY <4>1, <3>2 DEF Parts
    <3> QED
      BY <3>1, <3>2
  <2>3. kinds = line \o rest
    OBVIOUS
  <2> HIDE DEF line, rest, kinds, n
  <2>4. /\ kinds \in Seq(Parts) /\ Len(kinds) = Len(line) + Len(rest)
        /\ \A i \in 1 .. Len(line) + Len(rest) :
             kinds[i] = IF i <= Len(line) THEN line[i] ELSE rest[i - Len(line)]
    BY <2>1, <2>2, <2>3, ConcatProperties
  <2>5. /\ kinds[1] = line[1] /\ kinds[2] = line[2] /\ kinds[3] = line[3] /\ kinds[4] = line[4]
        /\ n = 5 => kinds[5] = rest[1]
    BY <2>1, <2>2, <2>4, <1>0
  <2> QED
    BY <2>1, <2>2, <2>4, <2>5, <1>0
<1>2. PartsOf(c, r) = [i \in 1 .. Len(kinds) |-> [conn |-> c, req |-> r, kind |-> kinds[i]]]
  BY DEF PartsOf
<1> HIDE DEF kinds, n
<1>3. \A i \in 1 .. n : [conn |-> c, req |-> r, kind |-> kinds[i]] \in Part
  BY <1>1 DEF Part
<1>4. PartsOf(c, r) \in Seq(Part) /\ Len(PartsOf(c, r)) = n
  BY <1>1, <1>2, <1>3
<1>5. \A i \in 1 .. n : PartsOf(c, r)[i] = [conn |-> c, req |-> r, kind |-> kinds[i]]
  BY <1>1, <1>2
<1>6. \A i \in 1 .. n : kinds[i] = "end" <=> i = 4
  BY <1>0, <1>1
<1>7. 1 \in 1 .. n /\ (r.method = "POST" => 5 \in 1 .. n)
  BY <1>0
<1>8. PartsOf(c, r)[1].kind = "method" /\ (r.method = "POST" => PartsOf(c, r)[5].kind = "body")
  <2>1. PartsOf(c, r)[1] = [conn |-> c, req |-> r, kind |-> kinds[1]]
    BY <1>5, <1>7
  <2>2. r.method = "POST" => PartsOf(c, r)[5] = [conn |-> c, req |-> r, kind |-> kinds[5]]
    BY <1>5, <1>7
  <2> QED
    BY <1>1, <2>1, <2>2
<1>9. \A i \in 1 .. n : /\ PartsOf(c, r)[i].conn = c /\ PartsOf(c, r)[i].req = r
                        /\ (PartsOf(c, r)[i].kind = "end" <=> i = 4)
  <2> SUFFICES ASSUME NEW i \in 1 .. n
               PROVE  /\ PartsOf(c, r)[i].conn = c /\ PartsOf(c, r)[i].req = r
                      /\ PartsOf(c, r)[i].kind = kinds[i]
    BY <1>6
  <2>1. PartsOf(c, r)[i] = [conn |-> c, req |-> r, kind |-> kinds[i]]
    BY <1>5
  <2> QED
    BY <2>1
<1> QED
  BY <1>4, <1>8, <1>9 DEF n

\* A reply is not empty, and made of chunks of that reply.
LEMMA ReplyShape ==
    ASSUME NEW c \in 0 .. Conns - 1, NEW r \in Requests
    PROVE  /\ Reply(c, r) \in Seq(Chunk)
           /\ Len(Reply(c, r)) = ReplyLen(r)
           /\ ReplyLen(r) \in Nat \ {0}
           /\ \A i \in 1 .. ReplyLen(r) : Reply(c, r)[i].conn = c
<1>1. ReplyLen(r) \in 1 .. PageChunks
  BY WebServerAssumption DEF ReplyLen
<1>2. \A i \in 1 .. ReplyLen(r) : [conn |-> c, req |-> r, no |-> i] \in Chunk
  BY <1>1, WebServerAssumption DEF Chunk
<1>3. Reply(c, r) = [i \in 1 .. ReplyLen(r) |-> [conn |-> c, req |-> r, no |-> i]]
  BY DEF Reply
<1> QED
  BY <1>1, <1>2, <1>3, WebServerAssumption

\* send_slice takes no more than there is, nor than there is room for, and what
\* it does not take is kept.
LEMMA SentShape ==
    ASSUME TypeOK
    PROVE  /\ Sent \in 0 .. Len(msgtosend)
           /\ Sent <= SOCK_TX_CAP - Len(socktx)
           /\ sock # "Established" => Sent = 0
           /\ SubSeq(msgtosend, 1, Sent) \in Seq(Chunk) /\ Len(SubSeq(msgtosend, 1, Sent)) = Sent
           /\ Rest \in Seq(Chunk) /\ Len(Rest) = Len(msgtosend) - Sent
           /\ SubSeq(msgtosend, 1, Sent) \o Rest = msgtosend
<1>1. Len(msgtosend) \in Nat /\ Len(socktx) \in Nat /\ Len(socktx) <= SOCK_TX_CAP
      /\ SOCK_TX_CAP \in Nat /\ msgtosend \in Seq(Chunk)
  BY WebServerAssumption DEF TypeOK
<1>2. /\ Sent \in 0 .. Len(msgtosend) /\ Sent <= SOCK_TX_CAP - Len(socktx)
      /\ sock # "Established" => Sent = 0
  BY <1>1 DEF Sent, MinOf
<1>3. \A i \in 1 .. Len(msgtosend) : msgtosend[i] \in Chunk
  BY <1>1
<1>4. SubSeq(msgtosend, 1, Sent) \in Seq(Chunk) /\ Len(SubSeq(msgtosend, 1, Sent)) = Sent
  BY <1>1, <1>2, <1>3, SubSeqProperties
<1>5. Rest \in Seq(Chunk) /\ Len(Rest) = Len(msgtosend) - Sent
  BY <1>1, <1>2, <1>3, SubSeqProperties DEF Rest
<1>6. SubSeq(msgtosend, 1, Sent) \o Rest = SubSeq(msgtosend, 1, Len(msgtosend))
  <2>1. /\ 1 \in 1 .. Len(msgtosend) + 1 /\ Sent \in 1 - 1 .. Len(msgtosend)
        /\ Len(msgtosend) \in Sent .. Len(msgtosend)
    BY <1>1, <1>2
  <2> QED
    BY <1>1, <2>1, ConcatAdjacentSubSeq DEF Rest
<1> QED
  BY <1>1, <1>2, <1>4, <1>5, <1>6, SubSeqFull

-----------------------------------------------------------------------------
(* Types.                                                                  *)

LEMMA InitType == ASSUME Init PROVE TypeOK
<1>1. panicked \in BOOLEAN /\ gone \in BOOLEAN
  BY DEF Init
<1>2. 0 \in 0 .. Conns - 1 /\ 0 \in 0 .. U8MAX /\ U8MAX \in 0 .. U8MAX
  BY WebServerAssumption DEF U8MAX
<1> QED
  BY <1>1, <1>2, WebServerAssumption DEF Init, TypeOK

\* What the parser leaves, answers and sets, of any bytes received.
LEMMA ReceiveType ==
    ASSUME TypeOK, NEW buf \in Seq(Part), buf # <<>>, Receive(buf)
    PROVE  /\ rxbytes' \in Seq(Part) /\ msgtosend' \in Seq(Chunk)
           /\ rgb' \in 0 .. U8MAX /\ panicked' \in BOOLEAN
<1>0. /\ rgb \in 0 .. U8MAX /\ panicked \in BOOLEAN /\ <<>> \in Seq(Part) /\ <<>> \in Seq(Chunk)
  BY DEF TypeOK
<1>1. CASE ParsePanics(buf) /\ panicked' = TRUE /\ rxbytes' = buf /\ msgtosend' = <<>> /\ UNCHANGED rgb
  BY <1>0, <1>1
<1>2. CASE /\ ~ParsePanics(buf) /\ Unfinished(buf)
           /\ rxbytes' = buf /\ msgtosend' = <<>>
           /\ UNCHANGED <<rgb, panicked>>
  BY <1>0, <1>2
<1>3. CASE /\ ~ParsePanics(buf) /\ ~Unfinished(buf)
           /\ rxbytes' = Leftover(buf)
           /\ msgtosend' = Reply(buf[1].conn, buf[1].req)
           /\ rgb' = IF SetsColour(buf) THEN buf[FirstEnd(buf) + 1].req.colour ELSE rgb
           /\ UNCHANGED panicked
  <2>1. Len(buf) \in Nat \ {0} /\ \A i \in 1 .. Len(buf) : buf[i] \in Part
    BY EmptySeq, ElementOfSeq
  <2>2. buf[1].conn \in 0 .. Conns - 1 /\ buf[1].req \in Requests
    BY <2>1 DEF Part
  <2>3. msgtosend' \in Seq(Chunk)
    BY <1>3, <2>2, ReplyShape
  <2>4. ASSUME SetsColour(buf)
        PROVE  buf[FirstEnd(buf) + 1].req.colour \in 0 .. U8MAX
    <3>1. Ends(buf) # {} /\ HasColour(buf)
      <4>0. Supported(buf)
        BY <1>3 DEF Unfinished
      <4>1. Len(buf) # 1
        BY <1>3, <4>0 DEF ParsePanics
      <4>2. Len(buf) > 1
        <5> DEFINE n == Len(buf)
        <5>1. n \in Nat \ {0} /\ n # 1
          BY <4>1, <2>1
        <5> HIDE DEF n
        <5>2. n > 1
          BY <5>1
        <5> QED
          BY <5>2 DEF n
      <4>3. Ends(buf) # {}
        BY <1>3, <4>0, <4>2 DEF Unfinished
      <4> QED
        BY <1>3, <2>4, <4>0, <4>3 DEF ParsePanics
    <3>2. FirstEnd(buf) + 1 \in 1 .. Len(buf)
      BY <3>1, <2>1, FirstEndExists DEF HasColour, Ends
    <3>3. buf[FirstEnd(buf) + 1].req \in Requests
      BY <3>2, <2>1 DEF Part
    <3> QED
      BY <3>3, WebServerAssumption DEF U8MAX
  <2>5. rgb' \in 0 .. U8MAX
    BY <1>3, <1>0, <2>4
  <2> QED
    BY <1>0, <1>3, <2>3, <2>5 DEF Leftover
<1> QED
  BY <1>1, <1>2, <1>3 DEF Receive

LEMMA RunWebserverType == ASSUME TypeOK, RunWebserver PROVE TypeOK'
<1> USE DEF RunWebserver
<1>1. sock' \in {"Closed", "Listen", "Established", "CloseWait", "LastAck"}
  BY DEF TypeOK, Serviced
<1>2. socktx' \in Seq(Chunk) /\ Len(socktx') <= SOCK_TX_CAP
  <2> DEFINE taken == SubSeq(msgtosend, 1, Sent)
  <2>1. /\ socktx \in Seq(Chunk) /\ Len(socktx) \in Nat /\ SOCK_TX_CAP \in Nat
        /\ taken \in Seq(Chunk) /\ Len(taken) = Sent
        /\ Sent \in Int /\ Sent <= SOCK_TX_CAP - Len(socktx)
        /\ socktx' = <<>> \/ socktx' = socktx \o taken
    <3>1. socktx \in Seq(Chunk) /\ Len(socktx) \in Nat /\ SOCK_TX_CAP \in Nat
      BY WebServerAssumption DEF TypeOK
    <3>2. Len(msgtosend) \in Nat
      BY DEF TypeOK
    <3>3. /\ taken \in Seq(Chunk) /\ Len(taken) = Sent
          /\ Sent \in 0 .. Len(msgtosend) /\ Sent <= SOCK_TX_CAP - Len(socktx)
      BY SentShape
    <3>4. socktx' = <<>> \/ socktx' = socktx \o taken
      OBVIOUS
    <3> HIDE DEF taken, RunWebserver
    <3>5. Sent \in Int
      BY <3>2, <3>3
    <3> QED
      BY <3>1, <3>3, <3>4, <3>5
  <2> HIDE DEF taken, RunWebserver
  <2>2. socktx \o taken \in Seq(Chunk) /\ Len(socktx \o taken) = Len(socktx) + Len(taken)
    BY <2>1, ConcatProperties
  <2>3. <<>> \in Seq(Chunk) /\ Len(<<>>) = 0
    OBVIOUS
  <2>4. CASE socktx' = <<>>
    BY <2>1, <2>3, <2>4
  <2>5. CASE socktx' = socktx \o taken
    BY <2>1, <2>2, <2>5
  <2> QED
    BY <2>1, <2>4, <2>5
<1>3. sockrx' \in Seq(Part) /\ Len(sockrx') <= SOCK_RX_CAP
  BY WebServerAssumption DEF TypeOK
<1>4. /\ rxbytes' \in Seq(Part) /\ msgtosend' \in Seq(Chunk)
      /\ rgb' \in 0 .. U8MAX /\ panicked' \in BOOLEAN
  <2>1. CASE sock # "Closed" /\ sockrx # <<>> /\ Rest = <<>>
    <3>1. rxbytes \o sockrx \in Seq(Part) /\ rxbytes \o sockrx # <<>>
      BY <2>1, ConcatProperties, ConcatEqualIffEmpty DEF TypeOK
    <3>2. Receive(rxbytes \o sockrx)
      BY <2>1
    <3> QED
      BY <3>1, <3>2, ReceiveType
  <2>2. CASE ~(sock # "Closed" /\ sockrx # <<>> /\ Rest = <<>>)
    <3>1. msgtosend' = Rest /\ UNCHANGED <<rxbytes, rgb, panicked>>
      BY <2>2
    <3>2. Rest \in Seq(Chunk)
      BY SentShape
    <3> QED
      BY <3>1, <3>2 DEF TypeOK
  <2> QED
    BY <2>1, <2>2
<1>5. UNCHANGED <<duty, conn, request, unsent, got, gone>> /\ pc' = "led"
  BY DEF clientvars
<1>6. gone' \in BOOLEAN
  BY <1>5 DEF TypeOK
<1> QED
  BY <1>1, <1>2, <1>3, <1>4, <1>5, <1>6 DEF TypeOK

LEMMA HandleRgbType == ASSUME TypeOK, HandleRgb PROVE TypeOK'
<1>1. U8MAX - rgb \in 0 .. U8MAX
  BY DEF TypeOK, U8MAX
<1>2. panicked' \in BOOLEAN /\ gone' \in BOOLEAN
  BY DEF TypeOK, HandleRgb, clientvars
<1> QED
  BY <1>1, <1>2 DEF HandleRgb, clientvars, TypeOK

\* The poll leaves the variables of the device alone.
LEMMA PollsKeepsTypes ==
    ASSUME TypeOK, Polls
    PROVE  /\ rxbytes' \in Seq(Part) /\ msgtosend' \in Seq(Chunk)
           /\ rgb' \in 0 .. U8MAX /\ duty' \in 0 .. U8MAX
           /\ pc' \in {"poll", "led"} /\ panicked' \in BOOLEAN
<1>1. panicked' \in BOOLEAN
  BY DEF TypeOK, Polls, devvars
<1> QED
  BY <1>1 DEF TypeOK, Polls, devvars

LEMMA ClientConnectsType == ASSUME TypeOK, ClientConnects PROVE TypeOK'
<1> USE DEF ClientConnects
<1>1. (conn + 1) % Conns \in 0 .. Conns - 1
  BY WebServerAssumption DEF TypeOK
<1>2. gone' \in BOOLEAN
  BY DEF TypeOK
<1> QED
  BY <1>1, <1>2, PollsKeepsTypes DEF TypeOK

LEMMA ClientAsksType == ASSUME TypeOK, ClientAsks PROVE TypeOK'
<1> USE DEF ClientAsks
<1>1. gone' \in BOOLEAN
  BY DEF TypeOK
<1>2. PICK r \in Requests : request' = <<r>> /\ unsent' = PartsOf(conn, r)
  OBVIOUS
<1>3. conn \in 0 .. Conns - 1
  BY DEF TypeOK
<1>4. unsent' \in Seq(Part)
  BY <1>2, <1>3, PartsShape
<1>5. request' \in Seq(Requests) /\ Len(request') <= 1
  BY <1>2
<1> QED
  BY <1>1, <1>4, <1>5, PollsKeepsTypes DEF TypeOK

LEMMA ClientSendsType == ASSUME TypeOK, ClientSends PROVE TypeOK'
<1>1. /\ Polls /\ UNCHANGED <<sock, socktx, conn, request, got>>
      /\ gone' \in BOOLEAN
  BY DEF ClientSends, TypeOK
<1>2. PICK n \in 1 .. MinOf(Len(unsent), SOCK_RX_CAP - Len(sockrx)) :
        /\ sockrx' = sockrx \o SubSeq(unsent, 1, n)
        /\ unsent' = SubSeq(unsent, n + 1, Len(unsent))
  BY DEF ClientSends
<1>3. /\ unsent \in Seq(Part) /\ Len(unsent) \in Nat /\ sockrx \in Seq(Part) /\ Len(sockrx) \in Nat
      /\ SOCK_RX_CAP \in Nat
  BY WebServerAssumption DEF TypeOK
<1>4. n \in 1 .. Len(unsent) /\ n <= SOCK_RX_CAP - Len(sockrx)
  BY <1>2, <1>3 DEF MinOf
<1>5. \A i \in 1 .. Len(unsent) : unsent[i] \in Part
  BY <1>3
<1>6. SubSeq(unsent, 1, n) \in Seq(Part) /\ Len(SubSeq(unsent, 1, n)) = n
  BY <1>3, <1>4, <1>5, SubSeqProperties
<1>7. SubSeq(unsent, n + 1, Len(unsent)) \in Seq(Part)
  BY <1>3, <1>4, <1>5, SubSeqProperties
<1>8. sockrx' \in Seq(Part) /\ Len(sockrx') = Len(sockrx) + n
  <2> DEFINE segment == SubSeq(unsent, 1, n)
  <2>1. sockrx' = sockrx \o segment /\ segment \in Seq(Part) /\ Len(segment) = n
    BY <1>2, <1>6
  <2> HIDE DEF segment
  <2> QED
    BY <1>3, <2>1, ConcatProperties
<1>9. Len(sockrx') <= SOCK_RX_CAP
  BY <1>3, <1>4, <1>8
<1> QED
  BY <1>1, <1>2, <1>7, <1>8, <1>9, PollsKeepsTypes DEF TypeOK

LEMMA ClientReadsType == ASSUME TypeOK, ClientReads PROVE TypeOK'
<1> USE DEF ClientReads
<1>1. gone' \in BOOLEAN
  BY DEF TypeOK
<1>2. Head(socktx) \in Chunk /\ Tail(socktx) \in Seq(Chunk) /\ Len(Tail(socktx)) = Len(socktx) - 1
  BY HeadTailProperties DEF TypeOK
<1>3. Len(socktx') <= SOCK_TX_CAP
  BY <1>2, WebServerAssumption DEF TypeOK
<1>4. Append(got, Head(socktx)) \in Seq(Chunk)
  BY <1>2 DEF TypeOK
<1>5. /\ got' \in Seq(Chunk) /\ unsent' \in Seq(Part)
      /\ request' \in Seq(Requests) /\ Len(request') <= 1
  <2>1. CASE request # <<>> /\ Len(got) + 1 = ReplyLen(request[1])
    <3>1. got' = <<>> /\ unsent' = <<>> /\ request' = <<>>
      BY <2>1
    <3> QED
      BY <3>1
  <2>2. CASE ~(request # <<>> /\ Len(got) + 1 = ReplyLen(request[1]))
    BY <1>4, <2>2 DEF TypeOK
  <2> QED
    BY <2>1, <2>2
<1> QED
  BY <1>1, <1>2, <1>3, <1>5, PollsKeepsTypes DEF TypeOK

\* A close, a reset, the end of a close or the loss of a client.
LEMMA LeavesType ==
    ASSUME TypeOK, ClientCloses \/ ClosesDown \/ ClientResets \/ ClientVanishes
    PROVE  TypeOK'
<1> USE DEF ClientCloses, ClosesDown, ClientResets, ClientVanishes, clientvars
<1>1. gone' \in BOOLEAN
  BY DEF TypeOK
<1>2. Polls /\ sock' \in {"Closed", "CloseWait", "LastAck", "Established"}
      /\ UNCHANGED <<sockrx, socktx, conn, request, unsent, got>>
  OBVIOUS
<1> QED
  BY <1>1, <1>2, PollsKeepsTypes DEF TypeOK

LEMMA NextType == TypeOK /\ [Next]_vars => TypeOK'
<1> SUFFICES ASSUME TypeOK, [Next]_vars PROVE TypeOK'
  OBVIOUS
<1>1. CASE UNCHANGED vars
  <2>1. panicked' \in BOOLEAN /\ gone' \in BOOLEAN
    BY <1>1 DEF TypeOK, vars, devvars, clientvars
  <2> QED
    BY <1>1, <2>1 DEF TypeOK, vars, devvars, clientvars
<1> QED
  BY <1>1, RunWebserverType, HandleRgbType, ClientConnectsType, ClientAsksType,
     ClientSendsType, ClientReadsType, LeavesType DEF Next

\* The socket's buffers keep within their size, the colour and the duty cycle
\* within a byte, and the parser only ever makes parts and chunks of requests
\* that were made, whatever the bytes it was given.
THEOREM TypeCorrect == Spec => []TypeOK
<1>1. Init => TypeOK
  BY InitType
<1> QED
  BY <1>1, NextType, PTL DEF Spec

-----------------------------------------------------------------------------
(* Sequences that are cut and moved along.                                 *)

Left(a, b, c)  == (a \o b) \o c
Right(a, b, c) == a \o (b \o c)
Moved(a, b, c, d)   == (a \o (b \o c)) \o d
Unmoved(a, b, c, d) == (a \o b) \o (c \o d)

LEMMA Associates ==
    ASSUME NEW S, NEW a \in Seq(S), NEW b \in Seq(S), NEW c \in Seq(S)
    PROVE  Left(a, b, c) = Right(a, b, c)
  BY ConcatAssociative DEF Left, Right

\* Taking from the front of one sequence and adding to the end of another
\* leaves their concatenation as it was.
LEMMA Regroup ==
    ASSUME NEW S, NEW a \in Seq(S), NEW b \in Seq(S), NEW c \in Seq(S), NEW d \in Seq(S)
    PROVE  Moved(a, b, c, d) = Unmoved(a, b, c, d)
<1>1. a \o b \in Seq(S)
  BY ConcatProperties
<1>2. Left(a, b, c) = Right(a, b, c)
  BY Associates
<1>3. Left(a \o b, c, d) = Right(a \o b, c, d)
  BY <1>1, Associates
<1> QED
  BY <1>2, <1>3, Zenon DEF Left, Right, Moved, Unmoved

LEMMA MoveHead ==
    ASSUME NEW S, NEW a \in Seq(S), NEW b \in Seq(S), NEW c \in Seq(S), b # <<>>
    PROVE  (Append(a, Head(b)) \o Tail(b)) \o c = (a \o b) \o c
<1>1. Head(b) \in S /\ Tail(b) \in Seq(S) /\ <<Head(b)>> \in Seq(S) /\ Len(b) \in Nat \ {0}
  BY HeadTailProperties, EmptySeq
<1>2. Append(a, Head(b)) = a \o <<Head(b)>>
  BY <1>1, AppendIsConcat
<1>3. <<Head(b)>> \o Tail(b) = b
  <2>1. SubSeq(b, 1, Len(b)) = <<b[1]>> \o SubSeq(b, 2, Len(b))
    <3>1. 1 \in 1 .. Len(b) /\ Len(b) \in 1 .. Len(b)
      BY <1>1
    <3>2. SubSeq(b, 1, Len(b)) = <<b[1]>> \o SubSeq(b, 1 + 1, Len(b))
      BY <3>1, SubSeqRecursiveFirst
    <3> QED
      BY <3>2
  <2>2. SubSeq(b, 1, Len(b)) = b /\ Tail(b) = SubSeq(b, 2, Len(b))
    BY SubSeqFull, TailIsSubSeq
  <2>3. Head(b) = b[1]
    BY <1>1
  <2> QED
    BY <2>1, <2>2, <2>3
<1>4. (a \o <<Head(b)>>) \o Tail(b) = a \o (<<Head(b)>> \o Tail(b))
  BY <1>1, ConcatAssociative
<1> QED
  BY <1>2, <1>3, <1>4

\* The beginning of a stream decides what the parser takes all of it for.
Junk(s) == s # <<>> /\ ~Supported(s)

LEMMA JunkPrefix ==
    ASSUME NEW a \in Seq(Part), NEW b \in Seq(Part)
    PROVE  /\ Junk(a) => Junk(a \o b)
           /\ Junk(a \o b) => a = <<>> \/ Junk(a)
           /\ a # <<>> => (Supported(a \o b) <=> Supported(a))
<1>1. CASE a = <<>>
  BY <1>1 DEF Junk
<1>2. CASE a # <<>>
  <2>1. Len(a) \in Nat \ {0} /\ Len(b) \in Nat
    BY <1>2, EmptySeq
  <2>2. 1 \in 1 .. Len(a) + Len(b) /\ 1 <= Len(a)
    BY <2>1
  <2>3. (a \o b)[1] = a[1]
    BY <2>2, ConcatProperties
  <2>4. a \o b # <<>>
    BY <1>2, ConcatEqualIffEmpty
  <2>5. Supported(a \o b) <=> Supported(a)
    BY <2>3 DEF Supported
  <2> QED
    BY <1>2, <2>4, <2>5 DEF Junk
<1> QED
  BY <1>1, <1>2

\* The beginning of a request, and what is still to come of it.
CutOf(c, r, a, b) ==
    /\ Len(a) \in Nat \ {0} /\ Len(a) + Len(b) = IF r.method = "POST" THEN 5 ELSE 4
    /\ \A i \in 1 .. Len(a) : a[i] = PartsOf(c, r)[i] /\ a[i].req = r /\ a[i].conn = c
    /\ \A i \in 1 .. Len(b) : b[i] = PartsOf(c, r)[Len(a) + i]
    /\ a[1].kind = "method"
    /\ Ends(a) # {} => 4 \in 1 .. Len(a) /\ Ends(a) = {4} /\ FirstEnd(a) = 4

LEMMA RequestCut ==
    ASSUME NEW c \in 0 .. Conns - 1, NEW r \in Requests,
           NEW a \in Seq(Part), NEW b \in Seq(Part), a # <<>>, a \o b = PartsOf(c, r)
    PROVE  CutOf(c, r, a, b)
<1> DEFINE p == PartsOf(c, r)
<1>0. /\ Len(p) \in {4, 5} /\ Len(p) = IF r.method = "POST" THEN 5 ELSE 4
      /\ p[1].kind = "method"
      /\ \A i \in 1 .. Len(p) : p[i].conn = c /\ p[i].req = r
      /\ \A i \in 1 .. Len(p) : p[i].kind = "end" <=> i = 4
  BY PartsShape
<1>1. Len(a) \in Nat \ {0} /\ Len(b) \in Nat
  BY EmptySeq
<1>2. /\ Len(p) = Len(a) + Len(b)
      /\ \A i \in 1 .. Len(a) + Len(b) : p[i] = IF i <= Len(a) THEN a[i] ELSE b[i - Len(a)]
  BY ConcatProperties
<1> HIDE DEF p
<1>3. \A i \in 1 .. Len(a) : i \in 1 .. Len(p) /\ a[i] = p[i]
  BY <1>1, <1>2
<1>4. \A i \in 1 .. Len(b) : b[i] = p[Len(a) + i]
  <2> SUFFICES ASSUME NEW i \in 1 .. Len(b) PROVE b[i] = p[Len(a) + i]
    OBVIOUS
  <2> DEFINE j == Len(a) + i
  <2>1. j \in 1 .. Len(a) + Len(b) /\ ~(j <= Len(a)) /\ j - Len(a) = i
    BY <1>1
  <2> HIDE DEF j
  <2>2. p[j] = b[j - Len(a)]
    BY <2>1, <1>2
  <2> QED
    BY <2>1, <2>2 DEF j
<1>5. \A i \in 1 .. Len(a) : a[i].kind = "end" <=> i = 4
  BY <1>0, <1>3
<1>6. ASSUME Ends(a) # {}
      PROVE  4 \in 1 .. Len(a) /\ Ends(a) = {4} /\ FirstEnd(a) = 4
  <2>1. 4 \in 1 .. Len(a) /\ Ends(a) = {4}
    BY <1>5, <1>6 DEF Ends
  <2>2. FirstEnd(a) \in Ends(a)
    BY <1>6, FirstEndExists
  <2> QED
    BY <2>1, <2>2
<1>7. 1 \in 1 .. Len(a)
  BY <1>1
<1>8. a[1].kind = "method"
  BY <1>0, <1>3, <1>7
<1>9. \A i \in 1 .. Len(a) : a[i].req = r /\ a[i].conn = c
  BY <1>0, <1>3
<1> QED
  BY <1>0, <1>1, <1>2, <1>3, <1>4, <1>6, <1>8, <1>9 DEF p, CutOf

-----------------------------------------------------------------------------
(* The invariant of the patient client.                                    *)

\* What the client read, what TCP holds and what the server still has to send;
\* and the bytes of requests, from the parser's to those not sent yet.
Stream  == got \o socktx \o msgtosend
Arrived == rxbytes \o sockrx
Pending == Arrived \o unsent

IsColour(r) == r.method = "POST" /\ r.path = "/rgb"

\* A client that waits is connected.
WaitsOnline == Waits => sock = "Established"

\* There is a reply only to a client that waits for it, and it is that one.
StreamIsReply == Stream = <<>> \/ (Waits /\ Stream = Reply(conn, request[1]))

\* The client only has parts left of the request it waits for.
UnsentIsRequest ==
    unsent # <<>> => request # <<>> /\ \A i \in 1 .. Len(unsent) : unsent[i].req = request[1]

\* The parser has before it nothing, bytes it will never take, or the whole of
\* the request the client waits for, which has no reply yet.
PendingIsRequest ==
    \/ Pending = <<>>
    \/ Junk(Pending)
    \/ Waits /\ Stream = <<>> /\ Pending = PartsOf(conn, request[1])

\* From the reply to a colour on, that colour is set; it is shown as well,
\* unless the reply was only just made.
ColourIsSet ==
    Stream # <<>> /\ IsColour(request[1]) =>
        /\ rgb = request[1].colour
        /\ duty = U8MAX - rgb \/ (pc = "led" /\ socktx = <<>>)

IInv == /\ TypeOK /\ WaitsOnline /\ StreamIsReply /\ UnsentIsRequest
        /\ PendingIsRequest /\ ColourIsSet

LEMMA StreamType ==
    ASSUME TypeOK
    PROVE  /\ got \in Seq(Chunk) /\ socktx \in Seq(Chunk) /\ msgtosend \in Seq(Chunk)
           /\ got \o socktx \in Seq(Chunk) /\ Stream \in Seq(Chunk)
           /\ Stream = <<>> <=> got = <<>> /\ socktx = <<>> /\ msgtosend = <<>>
           /\ Len(Stream) = Len(got) + Len(socktx) + Len(msgtosend)
<1>1. got \in Seq(Chunk) /\ socktx \in Seq(Chunk) /\ msgtosend \in Seq(Chunk)
  BY DEF TypeOK
<1>2. got \o socktx \in Seq(Chunk) /\ Len(got \o socktx) = Len(got) + Len(socktx)
      /\ (got \o socktx = <<>> <=> got = <<>> /\ socktx = <<>>)
  BY <1>1, ConcatProperties, ConcatEqualIffEmpty
<1>3. Stream \in Seq(Chunk) /\ Len(Stream) = Len(got \o socktx) + Len(msgtosend)
      /\ (Stream = <<>> <=> got \o socktx = <<>> /\ msgtosend = <<>>)
  BY <1>1, <1>2, ConcatProperties, ConcatEqualIffEmpty DEF Stream
<1> QED
  BY <1>1, <1>2, <1>3

LEMMA PendingType ==
    ASSUME TypeOK
    PROVE  /\ rxbytes \in Seq(Part) /\ sockrx \in Seq(Part) /\ unsent \in Seq(Part)
           /\ Arrived \in Seq(Part) /\ Pending \in Seq(Part)
           /\ Arrived = <<>> <=> rxbytes = <<>> /\ sockrx = <<>>
           /\ Pending = <<>> <=> Arrived = <<>> /\ unsent = <<>>
<1>1. rxbytes \in Seq(Part) /\ sockrx \in Seq(Part) /\ unsent \in Seq(Part)
  BY DEF TypeOK
<1>2. Arrived \in Seq(Part) /\ (Arrived = <<>> <=> rxbytes = <<>> /\ sockrx = <<>>)
  BY <1>1, ConcatProperties, ConcatEqualIffEmpty DEF Arrived
<1>3. Pending \in Seq(Part) /\ (Pending = <<>> <=> Arrived = <<>> /\ unsent = <<>>)
  BY <1>1, <1>2, ConcatProperties, ConcatEqualIffEmpty DEF Pending
<1> QED
  BY <1>1, <1>2, <1>3

LEMMA RequestType ==
    ASSUME TypeOK, request # <<>>
    PROVE  request[1] \in Requests /\ conn \in 0 .. Conns - 1
<1>1. 1 \in 1 .. Len(request) /\ request \in Seq(Requests)
  BY EmptySeq DEF TypeOK
<1> QED
  BY <1>1, ElementOfSeq DEF TypeOK

\* Once nobody waits, nothing is said and nothing is left to answer.
LEMMA Quiet ==
    ASSUME IInv, ~Waits
    PROVE  /\ Stream = <<>> /\ got = <<>> /\ socktx = <<>> /\ msgtosend = <<>>
           /\ Pending = <<>> \/ Junk(Pending)
           /\ Arrived = <<>> \/ Junk(Arrived)
           /\ unsent = <<>> \/ Junk(unsent)
<1>1. Stream = <<>>
  BY DEF IInv, StreamIsReply
<1>2. got = <<>> /\ socktx = <<>> /\ msgtosend = <<>>
  BY <1>1, StreamType DEF IInv
<1>3. Pending = <<>> \/ Junk(Pending)
  BY DEF IInv, PendingIsRequest
<1>4. Arrived = <<>> \/ Junk(Arrived)
  <2>1. Arrived \in Seq(Part) /\ unsent \in Seq(Part) /\ (Pending = <<>> => Arrived = <<>>)
    BY PendingType DEF IInv
  <2> QED
    BY <1>3, <2>1, JunkPrefix DEF Pending
<1>5. ASSUME unsent # <<>> PROVE Junk(unsent)
  <2>1. request # <<>> /\ request[1].method \notin {"GET", "POST"}
    BY <1>5 DEF IInv, UnsentIsRequest, Waits
  <2>2. 1 \in 1 .. Len(unsent)
    BY <1>5, EmptySeq DEF IInv, TypeOK
  <2>3. unsent[1].req = request[1]
    BY <1>5, <2>2 DEF IInv, UnsentIsRequest
  <2> QED
    BY <1>5, <2>1, <2>3 DEF Junk, Supported
<1> QED
  BY <1>1, <1>2, <1>3, <1>4, <1>5

\* One call of run_webserver: it listens again; it moves the reply and the bytes
\* along; the parser panics; or the parser answers a request.
ListensStep ==
    /\ sock = "Closed"
    /\ socktx' = <<>> /\ msgtosend' = <<>> /\ sockrx' = <<>> /\ rxbytes' = rxbytes
    /\ rgb' = rgb /\ panicked' = panicked
MovesStep ==
    /\ Stream' = Stream /\ Arrived' = Arrived
    /\ rgb' = rgb /\ panicked' = panicked
PanicStep ==
    /\ Arrived # <<>> /\ ParsePanics(Arrived)
    /\ Stream' = Stream /\ Arrived' = Arrived
    /\ rgb' = rgb
AnswerStep ==
    /\ Arrived # <<>> /\ ~ParsePanics(Arrived) /\ ~Unfinished(Arrived)
    /\ got \o socktx' = Stream
    /\ msgtosend' = Reply(Arrived[1].conn, Arrived[1].req)
    /\ rxbytes' = <<>> /\ sockrx' = <<>>
    /\ rgb' = IF SetsColour(Arrived) THEN Arrived[FirstEnd(Arrived) + 1].req.colour ELSE rgb
    /\ panicked' = panicked

LEMMA RunWebserverSteps ==
    ASSUME IInv, RunWebserver
    PROVE  ListensStep \/ MovesStep \/ PanicStep \/ AnswerStep
<1> DEFINE taken == SubSeq(msgtosend, 1, Sent)
<1>0. TypeOK
  BY DEF IInv
<1>1. /\ taken \in Seq(Chunk) /\ Rest \in Seq(Chunk) /\ taken \o Rest = msgtosend
      /\ Len(Rest) = Len(msgtosend) - Sent /\ (sock # "Established" => Sent = 0)
  BY <1>0, SentShape
<1>2. /\ rxbytes \in Seq(Part) /\ sockrx \in Seq(Part) /\ Arrived \in Seq(Part)
      /\ Arrived = <<>> <=> rxbytes = <<>> /\ sockrx = <<>>
  BY <1>0, PendingType
<1>3. got \in Seq(Chunk) /\ socktx \in Seq(Chunk) /\ msgtosend \in Seq(Chunk)
      /\ got' = got
  BY <1>0, StreamType DEF RunWebserver, clientvars
<1>4. CASE sock = "Closed"
  <2>1. msgtosend = <<>>
    BY <1>4, Quiet DEF IInv, WaitsOnline
  <2>2. Rest = <<>>
    <3>1. Len(Rest) = 0
      BY <1>1, <1>4, <2>1
    <3> QED
      BY <1>1, <3>1, EmptySeq
  <2> QED
    BY <1>4, <2>2 DEF RunWebserver, ListensStep
<1>5. CASE sock # "Closed"
  <2>1. socktx' = socktx \o taken
    BY <1>5 DEF RunWebserver
  <2> HIDE DEF taken
  <2>2. (got \o (socktx \o taken)) \o Rest = Stream
    <3>1. (got \o (socktx \o taken)) \o Rest = (got \o socktx) \o (taken \o Rest)
      <4>1. /\ taken \in Seq(Chunk) /\ Rest \in Seq(Chunk)
            /\ got \in Seq(Chunk) /\ socktx \in Seq(Chunk)
        BY <1>1, <1>3
      <4>2. Moved(got, socktx, taken, Rest) = Unmoved(got, socktx, taken, Rest)
        BY <4>1, Regroup
      <4> QED
        BY <4>2, Zenon DEF Moved, Unmoved
    <3> QED
      BY <1>1, <3>1 DEF Stream
  <2>3. socktx' \in Seq(Chunk) /\ got \o socktx' \in Seq(Chunk)
    BY <1>1, <1>3, <2>1, ConcatProperties
  <2>4. CASE ~(sockrx # <<>> /\ Rest = <<>>)
    <3>1. msgtosend' = Rest /\ rxbytes' = rxbytes /\ rgb' = rgb /\ panicked' = panicked
      BY <1>5, <2>4 DEF RunWebserver
    <3>2. sockrx' = sockrx
      BY <1>5, <2>4 DEF RunWebserver
    <3>3. Stream' = Stream
      BY <1>3, <2>1, <2>2, <3>1 DEF Stream
    <3> QED
      BY <3>1, <3>2, <3>3 DEF MovesStep, Arrived
  <2>5. CASE sockrx # <<>> /\ Rest = <<>>
    <3>1. Receive(Arrived) /\ sockrx' = <<>>
      BY <1>5, <2>5 DEF RunWebserver, Arrived
    <3>2. Arrived # <<>>
      BY <1>2, <2>5
    <3>3. got \o socktx' = Stream
      BY <2>1, <2>2, <2>3, <2>5, ConcatEmptySeq
    <3>4. msgtosend' = <<>> => Stream' = Stream
      BY <1>3, <2>3, <3>3, ConcatEmptySeq DEF Stream
    <3>5. rxbytes' = Arrived => Arrived' = Arrived
      BY <1>2, <3>1, ConcatEmptySeq DEF Arrived
    <3> QED
      BY <3>1, <3>2, <3>3, <3>4, <3>5
      DEF Receive, Leftover, MovesStep, PanicStep, AnswerStep
  <2> QED
    BY <2>4, <2>5
<1> QED
  BY <1>4, <1>5

\* The bytes before the parser are the beginning of that request.
LEMMA ArrivedShape ==
    ASSUME TypeOK, Waits, Pending = PartsOf(conn, request[1]), Arrived # <<>>
    PROVE  /\ Len(Arrived) \in Nat \ {0} /\ Len(unsent) \in Nat
           /\ Len(Arrived) + Len(unsent) = IF request[1].method = "POST" THEN 5 ELSE 4
           /\ Len(PartsOf(conn, request[1])) = Len(Arrived) + Len(unsent)
           /\ \A i \in 1 .. Len(Arrived) : /\ Arrived[i] = PartsOf(conn, request[1])[i]
                                          /\ Arrived[i].req = request[1]
                                          /\ Arrived[i].conn = conn
           /\ \A i \in 1 .. Len(unsent) : unsent[i] = PartsOf(conn, request[1])[Len(Arrived) + i]
           /\ Arrived[1].kind = "method"
           /\ Ends(Arrived) # {} =>
                4 \in 1 .. Len(Arrived) /\ Ends(Arrived) = {4} /\ FirstEnd(Arrived) = 4
<1>1. request[1] \in Requests /\ conn \in 0 .. Conns - 1
  BY RequestType DEF Waits
<1>2. Arrived \in Seq(Part) /\ unsent \in Seq(Part) /\ Len(unsent) \in Nat
  BY PendingType, EmptySeq
<1>3. Arrived \o unsent = PartsOf(conn, request[1])
  BY DEF Pending
<1>4. Len(PartsOf(conn, request[1])) = IF request[1].method = "POST" THEN 5 ELSE 4
  BY <1>1, PartsShape
<1>5. CutOf(conn, request[1], Arrived, unsent)
  BY <1>1, <1>2, <1>3, RequestCut
<1> QED
  BY <1>2, <1>4, <1>5 DEF CutOf

\* The answer is to the request the client waits for.
LEMMA AnswersRequest ==
    ASSUME IInv, Arrived # <<>>, ~ParsePanics(Arrived), ~Unfinished(Arrived)
    PROVE  /\ Waits /\ Stream = <<>> /\ Pending = PartsOf(conn, request[1])
           /\ conn \in 0 .. Conns - 1 /\ request # <<>> /\ request[1] \in Requests
           /\ Arrived[1].conn = conn /\ Arrived[1].req = request[1]
           /\ 4 \in 1 .. Len(Arrived) /\ Ends(Arrived) = {4} /\ FirstEnd(Arrived) = 4
<1>1. Arrived \in Seq(Part) /\ unsent \in Seq(Part) /\ Pending # <<>> /\ Len(Arrived) \in Nat \ {0}
  BY PendingType, EmptySeq DEF IInv
<1>2. Supported(Arrived)
  BY DEF Unfinished
<1>3. ~Junk(Pending)
  BY <1>1, <1>2, JunkPrefix DEF Pending, Junk
<1>4. Waits /\ Stream = <<>> /\ Pending = PartsOf(conn, request[1])
  BY <1>1, <1>3 DEF IInv, PendingIsRequest
<1>5. request # <<>> /\ request[1] \in Requests /\ conn \in 0 .. Conns - 1
  BY <1>4, RequestType DEF IInv, Waits
<1>6. /\ \A i \in 1 .. Len(Arrived) : Arrived[i].req = request[1] /\ Arrived[i].conn = conn
      /\ Ends(Arrived) # {} =>
           4 \in 1 .. Len(Arrived) /\ Ends(Arrived) = {4} /\ FirstEnd(Arrived) = 4
  BY <1>4, ArrivedShape DEF IInv
<1>7. 1 \in 1 .. Len(Arrived)
  BY <1>1
<1>8. Ends(Arrived) # {}
  <2> DEFINE n == Len(Arrived)
  <2>1. n # 1
    BY <1>2 DEF ParsePanics
  <2>2. n \in Nat \ {0}
    BY <1>1
  <2>3. n > 1
    <3> HIDE DEF n
    <3> QED
      BY <2>1, <2>2
  <2> QED
    BY <2>3 DEF Unfinished
<1> QED
  BY <1>4, <1>5, <1>6, <1>7, <1>8

LEMMA RunWebserverInv == ASSUME IInv, RunWebserver PROVE IInv'
<1>0. TypeOK /\ TypeOK'
  BY RunWebserverType DEF IInv
<1>1. /\ pc = "poll" /\ pc' = "led" /\ sock' = Serviced(sock)
      /\ UNCHANGED <<duty, conn, request, unsent, got>>
  BY DEF RunWebserver, clientvars
<1>2. (Waits' <=> Waits) /\ WaitsOnline' /\ UnsentIsRequest'
  BY <1>1 DEF IInv, Waits, WaitsOnline, Serviced, UnsentIsRequest
<1>3. CASE ListensStep
  <2>1. ~Waits /\ rxbytes' = rxbytes /\ rgb' = rgb
    BY <1>3 DEF ListensStep, IInv, WaitsOnline
  <2>2. Stream' = <<>>
    BY <1>0, <1>1, <1>3, <2>1, Quiet, StreamType DEF ListensStep, Stream
  <2>3. StreamIsReply' /\ ColourIsSet'
    BY <2>2 DEF StreamIsReply, ColourIsSet
  <2>4. PendingIsRequest'
    <3>1. rxbytes \in Seq(Part) /\ sockrx \in Seq(Part) /\ unsent \in Seq(Part)
      BY <1>0, PendingType
    <3>2. Arrived' = rxbytes
      BY <1>3, <3>1, ConcatEmptySeq DEF ListensStep, Arrived
    <3>3. Pending' = rxbytes \o unsent
      BY <1>1, <3>2 DEF Pending
    <3>4. CASE rxbytes = <<>>
      <4>1. Pending' = unsent
        BY <3>1, <3>3, <3>4, ConcatEmptySeq
      <4> QED
        BY <2>1, <4>1, Quiet DEF PendingIsRequest
    <3>5. CASE rxbytes # <<>>
      <4>1. Arrived # <<>>
        BY <1>0, <3>5, PendingType
      <4>2. Junk(Arrived)
        BY <2>1, <4>1, Quiet
      <4>3. Junk(rxbytes)
        BY <3>1, <3>5, <4>2, JunkPrefix DEF Arrived
      <4>4. Junk(Pending')
        BY <3>1, <3>3, <4>3, JunkPrefix
      <4> QED
        BY <4>4 DEF PendingIsRequest
    <3> QED
      BY <3>4, <3>5
  <2> QED
    BY <1>0, <1>2, <2>3, <2>4 DEF IInv
<1>4. CASE MovesStep \/ PanicStep
  <2>1. Stream' = Stream /\ Arrived' = Arrived /\ rgb' = rgb
    BY <1>4 DEF MovesStep, PanicStep
  <2>2. Pending' = Pending
    BY <1>1, <2>1 DEF Pending
  <2>3. StreamIsReply'
    BY <1>1, <1>2, <2>1 DEF IInv, StreamIsReply
  <2>4. PendingIsRequest'
    BY <1>1, <1>2, <2>1, <2>2 DEF IInv, PendingIsRequest
  <2>5. ColourIsSet'
    BY <1>1, <2>1 DEF IInv, ColourIsSet
  <2> QED
    BY <1>0, <1>2, <2>3, <2>4, <2>5 DEF IInv
<1>5. CASE AnswerStep
  <2>1. /\ Waits /\ Stream = <<>> /\ Pending = PartsOf(conn, request[1])
        /\ conn \in 0 .. Conns - 1 /\ request # <<>> /\ request[1] \in Requests
        /\ Arrived[1].conn = conn /\ Arrived[1].req = request[1]
        /\ 4 \in 1 .. Len(Arrived) /\ Ends(Arrived) = {4} /\ FirstEnd(Arrived) = 4
    BY <1>5, AnswersRequest DEF AnswerStep
  <2>2. /\ Arrived \in Seq(Part) /\ unsent \in Seq(Part) /\ Arrived # <<>>
        /\ Len(Arrived) \in Nat /\ Len(unsent) \in Nat
    BY <1>0, <1>5, PendingType DEF AnswerStep
  <2>3. Stream' = Reply(conn, request[1]) /\ socktx' = <<>>
    <3>1. got \o socktx' = <<>> /\ msgtosend' = Reply(conn, request[1])
      BY <1>5, <2>1 DEF AnswerStep
    <3>2. socktx' = <<>>
      BY <1>0, <1>1, <3>1, StreamType, ConcatEqualIffEmpty DEF TypeOK
    <3>3. Reply(conn, request[1]) \in Seq(Chunk)
      BY <2>1, ReplyShape
    <3>4. Stream' = <<>> \o Reply(conn, request[1])
      BY <1>1, <3>1 DEF Stream
    <3> QED
      BY <3>2, <3>3, <3>4, ConcatEmptySeq
  <2>4. StreamIsReply'
    BY <1>1, <1>2, <2>1, <2>3 DEF StreamIsReply
  <2>5. PendingIsRequest'
    <3>1. Pending' = unsent
      BY <1>1, <1>5, <2>2, ConcatEmptySeq DEF AnswerStep, Pending, Arrived
    <3>2. ASSUME unsent # <<>> PROVE Junk(unsent)
      <4>1. /\ Len(Arrived) + Len(unsent) \in {4, 5}
            /\ \A i \in 1 .. Len(unsent) : unsent[i] = PartsOf(conn, request[1])[Len(Arrived) + i]
            /\ Len(PartsOf(conn, request[1])) = Len(Arrived) + Len(unsent)
        BY <1>0, <2>1, <2>2, ArrivedShape
      <4>2. Len(unsent) # 0
        BY <2>2, <3>2, EmptySeq
      <4>3. Len(Arrived) = 4 /\ 1 \in 1 .. Len(unsent) /\ Len(Arrived) + Len(unsent) = 5
        <5> DEFINE n == Len(Arrived)
                   m == Len(unsent)
        <5>1. n \in Nat /\ m \in Nat /\ 4 \in 1 .. n /\ m # 0 /\ n + m \in {4, 5}
          BY <2>1, <2>2, <4>1, <4>2
        <5> HIDE DEF n, m
        <5>2. n = 4 /\ 1 \in 1 .. m /\ n + m = 5
          BY <5>1
        <5> QED
          BY <5>2 DEF n, m
      <4>4. unsent[1] = PartsOf(conn, request[1])[5] /\ Len(PartsOf(conn, request[1])) = 5
        BY <4>1, <4>3
      <4>5. request[1].method = "POST" => PartsOf(conn, request[1])[5].kind = "body"
        BY <2>1, PartsShape
      <4>6. Len(PartsOf(conn, request[1])) = IF request[1].method = "POST" THEN 5 ELSE 4
        BY <2>1, PartsShape
      <4>7. unsent[1].kind = "body"
        BY <4>4, <4>5, <4>6
      <4> QED
        BY <3>2, <4>7 DEF Junk, Supported
    <3> QED
      BY <3>1, <3>2 DEF PendingIsRequest
  <2>6. ColourIsSet'
    <3>1. ASSUME IsColour(request[1]) PROVE rgb' = request[1].colour
      <4>1. SetsColour(Arrived)
        BY <2>1, <3>1 DEF SetsColour, IsPost, IsColour
      <4>2. HasColour(Arrived)
        <5>1. Ends(Arrived) # {} /\ Supported(Arrived)
          BY <1>5, <2>1 DEF AnswerStep, Unfinished
        <5> QED
          BY <1>5, <4>1, <5>1 DEF AnswerStep, ParsePanics
      <4>3. 5 \in 1 .. Len(Arrived)
        BY <2>1, <2>2, <4>2 DEF HasColour
      <4>4. Arrived[5].req = request[1]
        BY <1>0, <2>1, <2>2, <4>3, ArrivedShape
      <4>5. rgb' = Arrived[FirstEnd(Arrived) + 1].req.colour
        BY <1>5, <4>1 DEF AnswerStep
      <4>6. FirstEnd(Arrived) + 1 = 5
        BY <2>1
      <4> QED
        BY <4>4, <4>5, <4>6
    <3> QED
      BY <1>1, <2>3, <3>1 DEF ColourIsSet
  <2> QED
    BY <1>0, <1>2, <2>4, <2>5, <2>6 DEF IInv
<1> QED
  BY <1>3, <1>4, <1>5, RunWebserverSteps

LEMMA HandleRgbInv == ASSUME IInv, HandleRgb PROVE IInv'
<1>1. /\ TypeOK' /\ UNCHANGED <<sock, sockrx, socktx, rxbytes, msgtosend, rgb, conn, request, unsent, got>>
      /\ duty' = U8MAX - rgb
  BY HandleRgbType DEF IInv, HandleRgb, clientvars
<1>2. Stream' = Stream /\ Pending' = Pending /\ (Waits' <=> Waits)
  BY <1>1 DEF Stream, Pending, Arrived, Waits
<1> QED
  BY <1>1, <1>2 DEF IInv, WaitsOnline, StreamIsReply, UnsentIsRequest, PendingIsRequest, ColourIsSet

\* The next client finds no reply, and at most bytes the parser never takes.
LEMMA ClientConnectsInv == ASSUME IInv, ClientConnects PROVE IInv'
<1>1. /\ TypeOK' /\ UNCHANGED <<sockrx, socktx, rxbytes, msgtosend>>
      /\ request' = <<>> /\ unsent' = <<>> /\ got' = <<>>
  BY ClientConnectsType DEF IInv, ClientConnects, Polls, devvars
<1>2. ~Waits /\ ~Waits'
  BY <1>1 DEF IInv, ClientConnects, WaitsOnline, Waits
<1>3. socktx' = <<>> /\ msgtosend' = <<>>
  BY <1>1, <1>2, Quiet
<1>4. Stream' = <<>>
  BY <1>1, <1>3 DEF Stream
<1>5. Pending' = Arrived
  BY <1>1, PendingType, ConcatEmptySeq DEF IInv, Pending, Arrived
<1>6. PendingIsRequest'
  BY <1>2, <1>5, Quiet DEF PendingIsRequest
<1> QED
  BY <1>1, <1>2, <1>4, <1>6 DEF IInv, WaitsOnline, StreamIsReply, UnsentIsRequest, ColourIsSet

LEMMA ClientAsksInv == ASSUME IInv, ClientAsks PROVE IInv'
<1>1. PICK r \in Requests : request' = <<r>> /\ unsent' = PartsOf(conn, r)
  BY DEF ClientAsks
<1>2. /\ TypeOK' /\ UNCHANGED <<sock, sockrx, socktx, rxbytes, msgtosend, conn, got>>
      /\ sock = "Established" /\ request = <<>> /\ request' # <<>> /\ request'[1] = r
  BY <1>1, ClientAsksType DEF IInv, ClientAsks, Polls, devvars
<1>3. ~Waits
  BY <1>2 DEF Waits
<1>4. Stream' = <<>>
  BY <1>2, <1>3, Quiet DEF Stream
<1>5. /\ PartsOf(conn, r) \in Seq(Part) /\ PartsOf(conn, r) # <<>>
      /\ \A i \in 1 .. Len(PartsOf(conn, r)) : PartsOf(conn, r)[i].req = r
      /\ PartsOf(conn, r)[1].kind = "method" /\ PartsOf(conn, r)[1].req = r
  <2> DEFINE p == PartsOf(conn, r)
  <2>1. /\ p \in Seq(Part) /\ Len(p) \in {4, 5}
        /\ \A i \in 1 .. Len(p) : p[i].req = r
        /\ p[1].kind = "method"
    BY PartsShape DEF IInv, TypeOK
  <2> HIDE DEF p
  <2>2. p # <<>> /\ 1 \in 1 .. Len(p)
    BY <2>1
  <2> QED
    BY <2>1, <2>2 DEF p
<1>6. UnsentIsRequest'
  BY <1>1, <1>2, <1>5 DEF UnsentIsRequest
<1>7. PendingIsRequest'
  <2>1. Arrived \in Seq(Part) /\ Pending' = Arrived \o PartsOf(conn, r)
    BY <1>1, <1>2, PendingType DEF IInv, Pending, Arrived
  <2>2. CASE Arrived = <<>>
    <3>1. Pending' = PartsOf(conn, r)
      BY <1>5, <2>1, <2>2, ConcatEmptySeq
    <3>2. CASE r.method \in {"GET", "POST"}
      BY <1>2, <1>4, <3>1, <3>2 DEF PendingIsRequest, Waits
    <3>3. CASE r.method \notin {"GET", "POST"}
      <4>1. Junk(PartsOf(conn, r))
        BY <1>5, <3>3 DEF Junk, Supported
      <4> QED
        BY <3>1, <4>1 DEF PendingIsRequest
    <3> QED
      BY <3>2, <3>3
  <2>3. CASE Arrived # <<>>
    <3>1. Junk(Arrived)
      BY <1>3, <2>3, Quiet
    <3>2. Junk(Pending')
      BY <1>5, <2>1, <3>1, JunkPrefix
    <3> QED
      BY <3>2 DEF PendingIsRequest
  <2> QED
    BY <2>2, <2>3
<1>8. WaitsOnline'
  BY <1>2 DEF WaitsOnline
<1> QED
  BY <1>2, <1>4, <1>6, <1>7, <1>8 DEF IInv, StreamIsReply, ColourIsSet

\* A segment moves from the client to the socket, wherever it is cut.
LEMMA ClientSendsMoves ==
    ASSUME TypeOK, ClientSends
    PROVE  /\ UNCHANGED <<sock, socktx, rxbytes, msgtosend, rgb, duty, pc, panicked, conn, request, got>>
           /\ unsent # <<>> /\ Pending' = Pending
           /\ \E n \in 1 .. Len(unsent) :
                /\ unsent[n].kind \in SegmentEnds \/ n = Len(unsent)
                /\ Len(unsent') = Len(unsent) - n
                /\ \A i \in 1 .. Len(unsent') : i + n \in 1 .. Len(unsent) /\ unsent'[i] = unsent[i + n]
                /\ Arrived'[Len(Arrived')] = unsent[n]
<1>1. UNCHANGED <<sock, socktx, rxbytes, msgtosend, rgb, duty, pc, panicked, conn, request, got>>
  BY DEF ClientSends, Polls, devvars
<1>2. PICK n \in 1 .. MinOf(Len(unsent), SOCK_RX_CAP - Len(sockrx)) :
        /\ unsent[n].kind \in SegmentEnds \/ n = Len(unsent)
        /\ sockrx' = sockrx \o SubSeq(unsent, 1, n)
        /\ unsent' = SubSeq(unsent, n + 1, Len(unsent))
  BY DEF ClientSends
<1>3. /\ unsent \in Seq(Part) /\ Len(unsent) \in Nat /\ sockrx \in Seq(Part) /\ Len(sockrx) \in Nat
      /\ SOCK_RX_CAP \in Nat /\ rxbytes \in Seq(Part) /\ Len(rxbytes) \in Nat
  BY WebServerAssumption DEF TypeOK
<1>4. n \in 1 .. Len(unsent)
  BY <1>2, <1>3 DEF MinOf
<1>5. unsent # <<>>
  BY <1>3, <1>4
<1> DEFINE segment == SubSeq(unsent, 1, n)
           rest    == SubSeq(unsent, n + 1, Len(unsent))
<1>6. \A i \in 1 .. Len(unsent) : unsent[i] \in Part
  BY <1>3
<1>7. segment \in Seq(Part) /\ Len(segment) = n
  BY <1>3, <1>4, <1>6, SubSeqProperties
<1>8. /\ rest \in Seq(Part) /\ Len(rest) = Len(unsent) - n
      /\ \A i \in 1 .. Len(rest) : rest[i] = unsent[i + n]
  BY <1>3, <1>4, <1>6, SubSeqProperties
<1>9. segment \o rest = unsent
  <2>1. 1 \in 1 .. Len(unsent) + 1 /\ n \in 1 - 1 .. Len(unsent) /\ Len(unsent) \in n .. Len(unsent)
    BY <1>3, <1>4
  <2>2. segment \o rest = SubSeq(unsent, 1, Len(unsent))
    BY <1>3, <2>1, ConcatAdjacentSubSeq
  <2> QED
    BY <1>3, <2>2, SubSeqFull
<1>10. sockrx' = sockrx \o segment /\ unsent' = rest
  BY <1>2
<1> HIDE DEF segment, rest
<1>11. Pending' = Pending
  <2>1. (rxbytes \o (sockrx \o segment)) \o rest = (rxbytes \o sockrx) \o (segment \o rest)
    <3>1. /\ rxbytes \in Seq(Part) /\ sockrx \in Seq(Part)
          /\ segment \in Seq(Part) /\ rest \in Seq(Part)
      BY <1>3, <1>7, <1>8
    <3>2. Moved(rxbytes, sockrx, segment, rest) = Unmoved(rxbytes, sockrx, segment, rest)
      BY <3>1, Regroup
    <3> QED
      BY <3>2, Zenon DEF Moved, Unmoved
  <2> QED
    BY <1>1, <1>9, <1>10, <2>1 DEF Pending, Arrived
<1>12. Arrived'[Len(Arrived')] = unsent[n]
  <2> DEFINE t == sockrx \o segment
             k == Len(sockrx) + n
             m == Len(rxbytes) + k
  <2>1. /\ t \in Seq(Part) /\ Len(t) = k
        /\ \A i \in 1 .. k : t[i] = IF i <= Len(sockrx) THEN sockrx[i] ELSE segment[i - Len(sockrx)]
    BY <1>3, <1>7, ConcatProperties
  <2>2. k \in 1 .. k /\ ~(k <= Len(sockrx)) /\ k - Len(sockrx) = n
    BY <1>3, <1>4
  <2>3. t[k] = segment[n]
    BY <2>1, <2>2
  <2>4. segment[n] = unsent[n]
    BY <1>3, <1>4, <1>6 DEF segment
  <2>5. Arrived' = rxbytes \o t
    BY <1>1, <1>10 DEF Arrived
  <2>6. m \in 1 .. m /\ ~(m <= Len(rxbytes)) /\ m - Len(rxbytes) = k
    BY <1>3, <2>2
  <2> HIDE DEF t, k
  <2>7. /\ Len(rxbytes \o t) = m
        /\ \A i \in 1 .. m : (rxbytes \o t)[i] = IF i <= Len(rxbytes) THEN rxbytes[i]
                                                                  ELSE t[i - Len(rxbytes)]
    BY <1>3, <2>1, ConcatProperties
  <2> HIDE DEF m
  <2>8. (rxbytes \o t)[m] = t[k]
    BY <2>6, <2>7
  <2> QED
    BY <2>3, <2>4, <2>5, <2>7, <2>8
<1>13. \A i \in 1 .. Len(unsent') : i + n \in 1 .. Len(unsent) /\ unsent'[i] = unsent[i + n]
  BY <1>3, <1>4, <1>8, <1>10
<1> QED
  BY <1>1, <1>2, <1>4, <1>5, <1>8, <1>10, <1>11, <1>12, <1>13

LEMMA ClientSendsInv == ASSUME IInv, ClientSends PROVE IInv'
<1>1. /\ TypeOK' /\ Pending' = Pending /\ unsent # <<>>
      /\ UNCHANGED <<sock, socktx, msgtosend, rgb, duty, pc, conn, request, got>>
  BY ClientSendsType, ClientSendsMoves DEF IInv
<1>2. Stream' = Stream /\ (Waits' <=> Waits)
  BY <1>1 DEF Stream, Waits
<1>3. PICK n \in 1 .. Len(unsent) :
        \A i \in 1 .. Len(unsent') : i + n \in 1 .. Len(unsent) /\ unsent'[i] = unsent[i + n]
  BY ClientSendsMoves DEF IInv
<1>4. UnsentIsRequest'
  BY <1>1, <1>3 DEF IInv, UnsentIsRequest
<1> QED
  BY <1>1, <1>2, <1>4 DEF IInv, WaitsOnline, StreamIsReply, PendingIsRequest, ColourIsSet

\* The client reads on, or is done with all there was to read.
LEMMA ClientReadsInv == ASSUME IInv, ClientReads PROVE IInv'
<1>1. /\ TypeOK /\ TypeOK'
      /\ UNCHANGED <<sock, sockrx, rxbytes, msgtosend, rgb, duty, pc, conn>>
      /\ socktx # <<>> /\ socktx' = Tail(socktx) /\ pc = "poll"
  BY ClientReadsType DEF IInv, ClientReads, Polls, devvars
<1>2. /\ got \in Seq(Chunk) /\ socktx \in Seq(Chunk) /\ msgtosend \in Seq(Chunk)
      /\ Len(Stream) = Len(got) + Len(socktx) + Len(msgtosend) /\ Stream # <<>>
  BY <1>1, StreamType
<1>3. /\ Waits /\ Stream = Reply(conn, request[1]) /\ sock = "Established" /\ request # <<>>
  BY <1>2 DEF IInv, StreamIsReply, WaitsOnline, Waits
<1>4. Len(Stream) = ReplyLen(request[1])
  BY <1>1, <1>3, RequestType, ReplyShape
<1>5. CASE Len(got) + 1 = ReplyLen(request[1])
  <2>1. got' = <<>> /\ request' = <<>> /\ unsent' = <<>>
    BY <1>3, <1>5 DEF ClientReads
  <2>2. Len(socktx) = 1 /\ Len(msgtosend) = 0
    <3>1. Len(got) \in Nat /\ Len(socktx) \in Nat \ {0} /\ Len(msgtosend) \in Nat
      BY <1>1, <1>2, EmptySeq
    <3> DEFINE l == Len(got)
               m == Len(socktx)
               n == Len(msgtosend)
    <3>2. l + m + n = l + 1
      BY <1>2, <1>4, <1>5
    <3> HIDE DEF l, m, n
    <3>3. l \in Nat /\ m \in Nat \ {0} /\ n \in Nat
      BY <3>1 DEF l, m, n
    <3>4. m = 1 /\ n = 0
      BY <3>2, <3>3
    <3> QED
      BY <3>4 DEF m, n
  <2>3. socktx' = <<>> /\ msgtosend' = <<>>
    BY <1>1, <1>2, <2>2
  <2>4. Stream' = <<>> /\ ~Waits'
    BY <2>1, <2>3 DEF Stream, Waits
  <2>5. PendingIsRequest'
    <3>1. Pending = <<>> \/ Junk(Pending)
      BY <1>2 DEF IInv, PendingIsRequest
    <3>2. Arrived \in Seq(Part) /\ unsent \in Seq(Part) /\ (Pending = <<>> => Arrived = <<>>)
      BY <1>1, PendingType
    <3>3. Arrived = <<>> \/ Junk(Arrived)
      BY <3>1, <3>2, JunkPrefix DEF Pending
    <3>4. Pending' = Arrived
      BY <1>1, <2>1, <3>2, ConcatEmptySeq DEF Pending, Arrived
    <3> QED
      BY <3>3, <3>4 DEF PendingIsRequest
  <2> QED
    BY <1>1, <2>1, <2>4, <2>5 DEF IInv, WaitsOnline, StreamIsReply, UnsentIsRequest, ColourIsSet
<1>6. CASE Len(got) + 1 # ReplyLen(request[1])
  <2>1. got' = Append(got, Head(socktx)) /\ UNCHANGED <<request, unsent>>
    BY <1>6 DEF ClientReads
  <2>2. Stream' = Stream
    <3>1. (Append(got, Head(socktx)) \o Tail(socktx)) \o msgtosend = (got \o socktx) \o msgtosend
      BY <1>1, <1>2, MoveHead
    <3> QED
      BY <1>1, <2>1, <3>1 DEF Stream
  <2>3. Pending' = Pending /\ (Waits' <=> Waits)
    BY <1>1, <2>1 DEF Pending, Arrived, Waits
  <2> QED
    BY <1>1, <2>1, <2>2, <2>3
    DEF IInv, WaitsOnline, StreamIsReply, UnsentIsRequest, PendingIsRequest, ColourIsSet
<1> QED
  BY <1>5, <1>6

\* A patient client leaves only without a request the server could answer.
LEMMA LeavesInv ==
    ASSUME Patient, IInv, ClientCloses \/ ClosesDown \/ ClientResets \/ ClientVanishes
    PROVE  IInv'
<1>1. /\ TypeOK' /\ UNCHANGED <<sockrx, socktx, rxbytes, msgtosend, rgb, duty, pc, conn, request, unsent, got>>
      /\ (sock = "Established" => ~Waits) \/ sock' = sock
  BY LeavesType
  DEF IInv, ClientCloses, ClosesDown, ClientResets, ClientVanishes, Polls, devvars, clientvars, MayLeave
<1>2. Stream' = Stream /\ Pending' = Pending /\ (Waits' <=> Waits)
  BY <1>1 DEF Stream, Pending, Arrived, Waits
<1> QED
  BY <1>1, <1>2 DEF IInv, WaitsOnline, StreamIsReply, UnsentIsRequest, PendingIsRequest, ColourIsSet

LEMMA InitInv == ASSUME Init PROVE IInv
<1>1. TypeOK
  BY InitType
<1>2. Stream = <<>> /\ Pending = <<>> /\ ~Waits
  BY DEF Init, Stream, Pending, Arrived, Waits
<1> QED
  BY <1>1, <1>2 DEF Init, IInv, WaitsOnline, StreamIsReply, UnsentIsRequest, PendingIsRequest, ColourIsSet

LEMMA NextInv == Patient /\ IInv /\ [Next]_vars => IInv'
<1> SUFFICES ASSUME Patient, IInv, [Next]_vars PROVE IInv'
  OBVIOUS
<1>1. CASE UNCHANGED vars
  <2>1. /\ TypeOK' /\ UNCHANGED <<sock, sockrx, socktx, rxbytes, msgtosend, rgb, duty, pc>>
        /\ UNCHANGED <<conn, request, unsent, got>>
    BY <1>1, NextType DEF IInv, vars, devvars, clientvars
  <2>2. Stream' = Stream /\ Pending' = Pending /\ (Waits' <=> Waits)
    BY <2>1 DEF Stream, Pending, Arrived, Waits
  <2> QED
    BY <2>1, <2>2
    DEF IInv, WaitsOnline, StreamIsReply, UnsentIsRequest, PendingIsRequest, ColourIsSet
<1> QED
  BY <1>1, RunWebserverInv, HandleRgbInv, ClientConnectsInv, ClientAsksInv,
     ClientSendsInv, ClientReadsInv, LeavesInv DEF Next

\* A duty cycle counts down from dark.
LEMMA DarkToBright == \A x \in 0 .. U8MAX : U8MAX - (U8MAX - x) = x
  BY DEF U8MAX

LEMMA IInvImplies == IInv => ReplyIntact /\ OwnReplies /\ ColourShown
<1> SUFFICES ASSUME IInv PROVE ReplyIntact /\ OwnReplies /\ ColourShown
  OBVIOUS
<1>1. ReplyIntact
  BY DEF IInv, StreamIsReply, Waits, Stream, ReplyIntact
<1>2. /\ got \in Seq(Chunk) /\ socktx \in Seq(Chunk) /\ msgtosend \in Seq(Chunk)
      /\ got \o socktx \in Seq(Chunk) /\ (socktx # <<>> => Stream # <<>>)
  BY StreamType DEF IInv
<1>3. OwnReplies
  <2> SUFFICES ASSUME NEW i \in 1 .. Len(socktx) PROVE socktx[i].conn = conn
    BY DEF OwnReplies
  <2> DEFINE k == Len(got) + i
             sent == got \o socktx
  <2>1. Len(got) \in Nat /\ Len(socktx) \in Nat /\ Len(msgtosend) \in Nat /\ socktx # <<>>
    BY <1>2
  <2>2. Waits /\ Stream = Reply(conn, request[1])
    BY <1>2, <2>1 DEF IInv, StreamIsReply
  <2>3. request[1] \in Requests /\ conn \in 0 .. Conns - 1
    BY <2>2, RequestType DEF IInv, Waits
  <2>4. Len(sent) = Len(got) + Len(socktx) /\ (k \in 1 .. Len(sent) => sent[k] = socktx[k - Len(got)])
    BY <1>2, <2>1, ConcatProperties
  <2>5. k \in 1 .. Len(sent) /\ k - Len(got) = i
    BY <2>1, <2>4
  <2>6. Stream[k] = sent[k] /\ k \in 1 .. Len(Stream)
    <3>1. /\ Len(Stream) = Len(sent) + Len(msgtosend)
          /\ \A j \in 1 .. Len(sent) + Len(msgtosend) :
               Stream[j] = IF j <= Len(sent) THEN sent[j] ELSE msgtosend[j - Len(sent)]
      BY <1>2, ConcatProperties DEF Stream
    <3> HIDE DEF k, sent
    <3> QED
      BY <2>1, <2>4, <2>5, <3>1
  <2>7. \A j \in 1 .. Len(Stream) : Stream[j].conn = conn
    BY <2>2, <2>3, ReplyShape
  <2> QED
    BY <2>4, <2>5, <2>6, <2>7
<1>4. ColourShown
  <2> SUFFICES ASSUME socktx # <<>>, request # <<>>,
                      request[1].method = "POST", request[1].path = "/rgb"
               PROVE  U8MAX - duty = request[1].colour
    BY DEF ColourShown
  <2>1. rgb = request[1].colour /\ duty = U8MAX - rgb
    BY <1>2 DEF IInv, ColourIsSet, IsColour
  <2>2. rgb \in 0 .. U8MAX
    BY DEF IInv, TypeOK
  <2>3. duty = U8MAX - request[1].colour /\ request[1].colour \in 0 .. U8MAX
    BY <2>1, <2>2
  <2> QED
    BY <2>3, DarkToBright
<1> QED
  BY <1>1, <1>3, <1>4

LEMMA IInvAlways == ASSUME Patient PROVE Spec => []IInv
<1>1. Init => IInv
  BY InitInv
<1>2. IInv /\ [Next]_vars => IInv'
  BY NextInv
<1> QED
  BY <1>1, <1>2, PTL DEF Spec

\* With clients that wait for their answer, every reply is whole and goes to
\* the request it answers, however both are cut up: also when some requests use a
\* method the server does not know, and their clients leave before or after the
\* next one comes.
THEOREM ReplyIsIntact == ASSUME Patient PROVE Spec => []ReplyIntact
  BY IInvAlways, IInvImplies, PTL

\* With such clients a connection carries replies of its own only.
THEOREM RepliesAreOwn == ASSUME Patient PROVE Spec => []OwnReplies
  BY IInvAlways, IInvImplies, PTL

\* With such clients the LED shows a colour before its answer can be read.
THEOREM ColourIsShown == ASSUME Patient PROVE Spec => []ColourShown
  BY IInvAlways, IInvImplies, PTL

-----------------------------------------------------------------------------
(* Requests that are well formed, and cut where the parser can take it.    *)

\* Clients wait, use the methods the server knows, and neither end a segment
\* after the method nor between the fields and the body; the heap has room for a
\* request.
WellFormed ==
    /\ Patient
    /\ SegmentEnds \cap {"method", "end"} = {}
    /\ HEAP_CAP >= 5
    /\ \A r \in Requests : r.method \in {"GET", "POST"}

\* There is nothing to parse but the request the client waits for.
OnlyRequest ==
    \/ Pending = <<>>
    \/ Waits /\ Stream = <<>> /\ Pending = PartsOf(conn, request[1])

\* The parser has all of it, or the beginning up to where a segment may end.
CutWell ==
    \/ Arrived = <<>>
    \/ unsent = <<>>
    \/ Arrived[Len(Arrived)].kind \in SegmentEnds

NInv == IInv /\ OnlyRequest /\ CutWell /\ panicked = FALSE

\* With the empty line, all of the request has arrived.
LEMMA EndIsLast ==
    ASSUME WellFormed, NInv, Arrived # <<>>, Ends(Arrived) # {}
    PROVE  unsent = <<>>
<1>1. Waits /\ Pending = PartsOf(conn, request[1])
  BY PendingType DEF NInv, IInv, OnlyRequest
<1>2. /\ Len(Arrived) \in Nat \ {0} /\ Len(unsent) \in Nat
      /\ Len(Arrived) + Len(unsent) = IF request[1].method = "POST" THEN 5 ELSE 4
      /\ 4 \in 1 .. Len(Arrived) /\ Ends(Arrived) = {4}
  BY <1>1, ArrivedShape DEF NInv, IInv
<1>3. SUFFICES ASSUME unsent # <<>> PROVE FALSE
  OBVIOUS
<1>4. Len(unsent) # 0 /\ Arrived[Len(Arrived)].kind \in SegmentEnds
  BY <1>3, EmptySeq DEF NInv, IInv, TypeOK, CutWell
<1>5. Len(Arrived) = 4
  <2> DEFINE n == Len(Arrived)
             m == Len(unsent)
  <2>1. n \in Nat /\ m \in Nat /\ n + m \in {4, 5} /\ 4 \in 1 .. n /\ m # 0
    BY <1>2, <1>4
  <2> HIDE DEF n, m
  <2>2. n = 4
    BY <2>1
  <2> QED
    BY <2>2 DEF n
<1>6. Arrived[4].kind = "end"
  BY <1>2 DEF Ends
<1> QED
  BY <1>4, <1>5, <1>6 DEF WellFormed

LEMMA NoParsePanic ==
    ASSUME WellFormed, NInv, Arrived # <<>>
    PROVE  ~ParsePanics(Arrived)
<1>1. Waits /\ Pending = PartsOf(conn, request[1]) /\ request[1] \in Requests /\ conn \in 0 .. Conns - 1
  BY PendingType, RequestType DEF NInv, IInv, OnlyRequest, Waits
<1>2. /\ Len(Arrived) \in Nat \ {0} /\ Len(unsent) \in Nat
      /\ Len(Arrived) + Len(unsent) = IF request[1].method = "POST" THEN 5 ELSE 4
      /\ \A i \in 1 .. Len(Arrived) : /\ Arrived[i] = PartsOf(conn, request[1])[i]
                                     /\ Arrived[i].req = request[1]
      /\ Arrived[1].kind = "method"
      /\ Ends(Arrived) # {} =>
           4 \in 1 .. Len(Arrived) /\ Ends(Arrived) = {4} /\ FirstEnd(Arrived) = 4
  BY <1>1, ArrivedShape DEF NInv, IInv
<1> DEFINE n == Len(Arrived)
           m == Len(unsent)
<1>3. n \in Nat \ {0} /\ m \in Nat /\ n + m \in {4, 5} /\ HEAP_CAP \in Nat /\ HEAP_CAP >= 5
  BY <1>2, WebServerAssumption DEF WellFormed
<1>4. unsent = <<>> => m = 0
  OBVIOUS
<1>5. ~(Len(Arrived) > HEAP_CAP)
  <2> HIDE DEF n, m
  <2>1. ~(n > HEAP_CAP)
    BY <1>3
  <2> QED
    BY <2>1 DEF n
<1>6. Len(Arrived) # 1
  <2> SUFFICES ASSUME n = 1 PROVE FALSE
    OBVIOUS
  <2>1. Arrived[Len(Arrived)].kind = "method"
    BY <1>2
  <2>2. unsent = <<>>
    BY <2>1 DEF WellFormed, NInv, CutWell
  <2> HIDE DEF n, m
  <2> QED
    BY <1>3, <1>4, <2>2
<1>7. ASSUME Ends(Arrived) # {}, SetsColour(Arrived)
      PROVE  HasColour(Arrived)
  <2>1. m = 0
    BY <1>4, <1>7, EndIsLast
  <2>2. 1 \in 1 .. Len(Arrived)
    BY <1>2
  <2>3. request[1].method = "POST"
    BY <1>2, <1>7, <2>2 DEF SetsColour, IsPost
  <2>4. Len(Arrived) = 5
    <3>1. n + m = 5
      BY <1>2, <2>3
    <3> HIDE DEF n, m
    <3>2. n = 5
      BY <1>3, <2>1, <3>1
    <3> QED
      BY <3>2 DEF n
  <2>5. Arrived[5] = PartsOf(conn, request[1])[5]
    BY <1>2, <2>4
  <2>6. Arrived[5].kind = "body"
    BY <1>1, <2>3, <2>5, PartsShape
  <2>7. FirstEnd(Arrived) = 4
    BY <1>2, <1>7
  <2> QED
    BY <2>4, <2>6, <2>7 DEF HasColour
<1> QED
  BY <1>5, <1>6, <1>7 DEF ParsePanics

LEMMA RunWebserverNInv == ASSUME WellFormed, NInv, RunWebserver PROVE NInv'
<1>0. TypeOK /\ IInv /\ IInv'
  BY RunWebserverInv DEF NInv, IInv
<1>1. UNCHANGED <<conn, request, unsent, got>> /\ (Waits' <=> Waits) /\ panicked = FALSE
  BY DEF RunWebserver, clientvars, Waits, NInv
<1>2. CASE ListensStep
  <2>1. ~Waits
    BY <1>0, <1>2 DEF ListensStep, IInv, WaitsOnline
  <2>2. rxbytes = <<>> /\ unsent = <<>>
    BY <1>0, <2>1, PendingType DEF NInv, OnlyRequest
  <2>3. Arrived' = <<>> /\ Pending' = <<>> /\ panicked' = FALSE
    BY <1>1, <1>2, <2>2 DEF ListensStep, Arrived, Pending
  <2> QED
    BY <1>0, <2>3 DEF NInv, OnlyRequest, CutWell
<1>3. CASE MovesStep
  <2>1. Stream' = Stream /\ Arrived' = Arrived /\ Pending' = Pending /\ panicked' = FALSE
    BY <1>1, <1>3 DEF MovesStep, Pending
  <2> QED
    BY <1>0, <1>1, <2>1 DEF NInv, OnlyRequest, CutWell
<1>4. CASE PanicStep
  BY <1>4, NoParsePanic DEF PanicStep
<1>5. CASE AnswerStep
  <2>1. unsent = <<>>
    BY <1>0, <1>5, AnswersRequest, EndIsLast DEF AnswerStep
  <2>2. Arrived' = <<>> /\ Pending' = <<>> /\ panicked' = FALSE
    BY <1>1, <1>5, <2>1 DEF AnswerStep, Arrived, Pending
  <2> QED
    BY <1>0, <2>2 DEF NInv, OnlyRequest, CutWell
<1> QED
  BY <1>0, <1>2, <1>3, <1>4, <1>5, RunWebserverSteps

LEMMA ClientSendsNInv == ASSUME NInv, ClientSends PROVE NInv'
<1>1. /\ IInv' /\ Pending' = Pending /\ UNCHANGED <<socktx, msgtosend, panicked, conn, request, got>>
  BY ClientSendsInv, ClientSendsMoves DEF NInv, IInv
<1>2. Stream' = Stream /\ (Waits' <=> Waits)
  BY <1>1 DEF Stream, Waits
<1>3. PICK n \in 1 .. Len(unsent) :
        /\ unsent[n].kind \in SegmentEnds \/ n = Len(unsent)
        /\ Len(unsent') = Len(unsent) - n
        /\ Arrived'[Len(Arrived')] = unsent[n]
  BY ClientSendsMoves DEF NInv, IInv
<1>4. CutWell'
  <2>1. CASE unsent[n].kind \in SegmentEnds
    BY <1>3, <2>1 DEF CutWell
  <2>2. CASE n = Len(unsent)
    <3>1. Len(unsent) \in Nat
      BY DEF NInv, IInv, TypeOK
    <3>2. Len(unsent') = 0 /\ unsent' \in Seq(Part)
      BY <1>1, <1>3, <2>2, <3>1 DEF IInv, TypeOK
    <3>3. unsent' = <<>>
      BY <3>2, EmptySeq
    <3> QED
      BY <3>3 DEF CutWell
  <2> QED
    BY <1>3, <2>1, <2>2
<1> QED
  BY <1>1, <1>2, <1>4 DEF NInv, OnlyRequest

LEMMA ClientAsksNInv == ASSUME WellFormed, NInv, ClientAsks PROVE NInv'
<1>1. PICK r \in Requests : request' = <<r>> /\ unsent' = PartsOf(conn, r)
  BY DEF ClientAsks
<1>2. /\ IInv' /\ UNCHANGED <<sockrx, socktx, rxbytes, msgtosend, panicked, conn, got>>
      /\ request' # <<>> /\ request'[1] = r /\ ~Waits
  BY <1>1, ClientAsksInv DEF NInv, ClientAsks, Polls, devvars, Waits
<1>3. Stream' = <<>>
  BY <1>2, Quiet DEF NInv, Stream
<1>4. rxbytes = <<>> /\ sockrx = <<>>
  BY <1>2, PendingType DEF NInv, IInv, OnlyRequest
<1>5. Arrived' = <<>>
  BY <1>2, <1>4 DEF Arrived
<1>6. PartsOf(conn, r) \in Seq(Part)
  BY PartsShape DEF NInv, IInv, TypeOK
<1>7. Pending' = PartsOf(conn, r)
  BY <1>1, <1>5, <1>6, ConcatEmptySeq DEF Pending
<1>8. Waits'
  BY <1>1, <1>2 DEF WellFormed, Waits
<1> QED
  BY <1>2, <1>3, <1>5, <1>7, <1>8 DEF NInv, OnlyRequest, CutWell

\* When a client comes or is done reading, there is nothing to parse.
LEMMA ClientConnectsNInv == ASSUME NInv, ClientConnects PROVE NInv'
<1>1. /\ IInv' /\ UNCHANGED <<sockrx, rxbytes, panicked>> /\ unsent' = <<>>
      /\ ~Waits
  BY ClientConnectsInv DEF NInv, IInv, ClientConnects, Polls, devvars, WaitsOnline
<1>2. rxbytes = <<>> /\ sockrx = <<>>
  BY <1>1, PendingType DEF NInv, IInv, OnlyRequest
<1>3. Arrived' = <<>> /\ Pending' = <<>>
  BY <1>1, <1>2 DEF Arrived, Pending
<1> QED
  BY <1>1, <1>3 DEF NInv, OnlyRequest, CutWell

LEMMA ClientReadsNInv == ASSUME NInv, ClientReads PROVE NInv'
<1>1. /\ IInv' /\ UNCHANGED <<sockrx, rxbytes, panicked>> /\ socktx # <<>>
      /\ unsent' = unsent \/ unsent' = <<>>
  BY ClientReadsInv DEF NInv, ClientReads, Polls, devvars
<1>2. Stream # <<>>
  BY <1>1, StreamType DEF NInv, IInv
<1>3. rxbytes = <<>> /\ sockrx = <<>> /\ unsent = <<>>
  BY <1>2, PendingType DEF NInv, IInv, OnlyRequest
<1>4. Arrived' = <<>> /\ Pending' = <<>>
  BY <1>1, <1>3 DEF Arrived, Pending
<1> QED
  BY <1>1, <1>4 DEF NInv, OnlyRequest, CutWell

\* The LED and the end of a connection do not touch what there is to parse.
LEMMA OthersNInv ==
    ASSUME Patient, NInv, HandleRgb \/ ClientCloses \/ ClosesDown \/ ClientResets \/ ClientVanishes
    PROVE  NInv'
<1>1. /\ IInv'
      /\ UNCHANGED <<sockrx, socktx, rxbytes, msgtosend, panicked, conn, request, unsent, got>>
  BY HandleRgbInv, LeavesInv
  DEF NInv, HandleRgb, ClientCloses, ClosesDown, ClientResets, ClientVanishes, Polls, devvars, clientvars
<1>2. Stream' = Stream /\ Arrived' = Arrived /\ Pending' = Pending /\ (Waits' <=> Waits)
  BY <1>1 DEF Stream, Pending, Arrived, Waits
<1> QED
  BY <1>1, <1>2 DEF NInv, OnlyRequest, CutWell

LEMMA InitNInv == ASSUME Init PROVE NInv
<1>1. Arrived = <<>> /\ Pending = <<>> /\ panicked = FALSE
  BY DEF Init, Arrived, Pending
<1> QED
  BY <1>1, InitInv DEF NInv, OnlyRequest, CutWell

LEMMA NextNInv == WellFormed /\ NInv /\ [Next]_vars => NInv'
<1> SUFFICES ASSUME WellFormed, NInv, [Next]_vars PROVE NInv'
  OBVIOUS
<1>0. Patient
  BY DEF WellFormed
<1>1. CASE UNCHANGED vars
  <2>1. /\ IInv'
        /\ UNCHANGED <<sockrx, socktx, rxbytes, msgtosend, panicked, conn, request, unsent, got>>
    BY <1>0, <1>1, NextInv DEF NInv, vars, devvars, clientvars
  <2>2. Stream' = Stream /\ Arrived' = Arrived /\ Pending' = Pending /\ (Waits' <=> Waits)
    BY <2>1 DEF Stream, Pending, Arrived, Waits
  <2> QED
    BY <2>1, <2>2 DEF NInv, OnlyRequest, CutWell
<1> QED
  BY <1>0, <1>1, RunWebserverNInv, ClientConnectsNInv, ClientAsksNInv, ClientSendsNInv,
     ClientReadsNInv, OthersNInv DEF Next

\* No well-formed request panics the firmware, provided it is cut nowhere that
\* the parser cannot take; the run that drops that proviso shows it is needed.
THEOREM NeverPanics == ASSUME WellFormed PROVE Spec => []NoPanic
<1>1. Init => NInv
  BY InitNInv
<1>2. NInv /\ [Next]_vars => NInv'
  BY NextNInv
<1>3. NInv => NoPanic
  BY DEF NInv, NoPanic
<1> QED
  BY <1>1, <1>2, <1>3, PTL DEF Spec
=============================================================================
