------------------------- MODULE DhcpService_proofs -------------------------
(***************************************************************************)
(* The DHCP server keeps what LeaseService promises, as long as its clients*)
(* are no more than the addresses from addrstart to the end of the octet,  *)
(* each waits for the reply to it before it asks again, and each sends     *)
(* messages whose first option can be read.  Of its panics only that of a  *)
(* full transmit buffer is left, and it takes two clients.                 *)
(***************************************************************************)
EXTENDS Dhcp_proofs, FiniteSetTheorems

\* The clients the server is safe for.
SafeClients ==
    /\ IsFiniteSet(Macs)
    /\ Cardinality(Macs) < Octet /\ addrstart + Cardinality(Macs) <= Octet
    /\ ~Pipelining
    /\ "Other" \notin FirstOptions

\* A client has one question in the socket, or one that is answered, or neither.
OneEach ==
    /\ \A i, j \in 1 .. Len(udprx) : udprx[i].mac = udprx[j].mac => i = j
    /\ \A i \in 1 .. Len(udprx) : \A j \in 1 .. Len(udptx) : udprx[i].mac # udptx[j].mac

\* A panic is that of a full buffer, between two clients.
Crowded == panicked => /\ Len(udptx) = UDP_TX_CAP
                       /\ \E c, d \in Macs : c # d

SafeInv == IInv /\ OneEach /\ Crowded

-----------------------------------------------------------------------------
(* The leases.                                                             *)

\* There are no more leases than clients, and fewer while one has none.
LEMMA LeasesFit ==
  ASSUME SafeClients, IInv
  PROVE  /\ Len(allocated) <= Cardinality(Macs)
         /\ \A mac \in Macs : IsNew(mac) => Len(allocated) < Cardinality(Macs)
<1> DEFINE n == Len(allocated)
<1>1. allocated \in Seq(Macs) /\ n \in Nat
  BY DEF IInv, TypeOK
<1>2. IsFiniteSet(Macs) /\ Cardinality(Macs) \in Nat
  BY FS_CardinalityType DEF SafeClients
<1>3. Cardinality(1 .. n) = n
  <2> HIDE DEF n
  <2>1. n \in Int /\ 1 \in Int
    BY <1>1
  <2>2. Cardinality(1 .. n) = IF 1 > n THEN 0 ELSE n - 1 + 1
    BY <2>1, FS_Interval
  <2> QED
    BY <1>1, <2>2
<1>4. ASSUME NEW S \in SUBSET Macs, IsFiniteSet(S), \A i \in 1 .. n : allocated[i] \in S
      PROVE  n <= Cardinality(S)
  <2>1. allocated \in [1 .. n -> S]
    BY <1>1, <1>4
  <2>2. \A i, j \in 1 .. n : allocated[i] = allocated[j] => i = j
    BY DEF IInv, OneLeasePerMac
  <2>3. allocated \in Injection(1 .. n, S)
    BY <2>1, <2>2 DEF Injection, IsInjective
  <2> QED
    BY <1>3, <1>4, <2>3, FS_Injection
<1>5. n <= Cardinality(Macs)
  <2>1. \A i \in 1 .. n : allocated[i] \in Macs
    BY <1>1
  <2> QED
    BY <1>2, <1>4, <2>1
<1>6. ASSUME NEW mac \in Macs, IsNew(mac) PROVE n < Cardinality(Macs)
  <2>1. \A i \in 1 .. n : allocated[i] \in Macs \ {mac}
    BY <1>1, <1>6 DEF IsNew, IndicesOf
  <2>2. IsFiniteSet(Macs \ {mac}) /\ Cardinality(Macs \ {mac}) = Cardinality(Macs) - 1
    BY <1>2, FS_RemoveElement
  <2>3. n <= Cardinality(Macs \ {mac})
    BY <1>4, <2>1, <2>2
  <2> QED
    BY <1>1, <1>2, <2>2, <2>3
<1> QED
  BY <1>5, <1>6

\* The addresses of the leases, counted from addrstart without wrapping.
LEMMA NoWrap ==
  ASSUME SafeClients, NEW k \in Nat, k < Cardinality(Macs)
  PROVE  /\ k % Octet = k /\ AddrAt(k) = addrstart + k /\ AddrAt(k % Octet) = addrstart + k
         /\ ~Overflows(k) /\ k + 1 < Octet
<1>1. Octet \in Nat \ {0} /\ addrstart \in Nat /\ Cardinality(Macs) \in Nat
  BY DhcpAssumption, FS_CardinalityType DEF SafeClients
<1>2. k \in 0 .. Octet - 1 /\ addrstart + k \in 0 .. Octet - 1 /\ k + 1 < Octet
  BY <1>1 DEF SafeClients
<1>3. k % Octet = k /\ (addrstart + k) % Octet = addrstart + k
  BY <1>1, <1>2, ModSmall
<1> QED
  BY <1>1, <1>2, <1>3 DEF AddrAt, Overflows

\* The address of a client by a list of leases, and Octet without one: lease of
\* LeaseService.
AddressIn(leases, mac) ==
    IF {i \in 1 .. Len(leases) : leases[i] = mac} = {} THEN Octet
    ELSE LET i == CHOOSE i \in {k \in 1 .. Len(leases) : leases[k] = mac} : TRUE
         IN AddrAt((i - 1) % Octet)

\* It is the one address the list has for the client.
LEMMA AddressOfLease ==
  ASSUME SafeClients, NEW s \in Seq(Macs), Len(s) <= Cardinality(Macs),
         \A i, j \in 1 .. Len(s) : s[i] = s[j] => i = j
  PROVE  /\ \A i \in 1 .. Len(s) : AddressIn(s, s[i]) = addrstart + (i - 1)
         /\ \A mac \in Macs : (\A i \in 1 .. Len(s) : s[i] # mac) => AddressIn(s, mac) = Octet
<1>1. Cardinality(Macs) \in Nat /\ Len(s) \in Nat
  BY FS_CardinalityType DEF SafeClients
<1>2. ASSUME NEW i \in 1 .. Len(s) PROVE AddressIn(s, s[i]) = addrstart + (i - 1)
  <2>1. {k \in 1 .. Len(s) : s[k] = s[i]} = {i}
    OBVIOUS
  <2>2. (CHOOSE k \in {i} : TRUE) = i
    OBVIOUS
  <2>3. AddressIn(s, s[i]) = AddrAt((i - 1) % Octet)
    BY <2>1, <2>2 DEF AddressIn
  <2>4. i - 1 \in Nat /\ i - 1 < Cardinality(Macs)
    BY <1>1
  <2> QED
    BY <2>3, <2>4, NoWrap
<1>3. ASSUME NEW mac \in Macs, \A i \in 1 .. Len(s) : s[i] # mac
      PROVE  AddressIn(s, mac) = Octet
  BY <1>3 DEF AddressIn
<1> QED
  BY <1>2, <1>3

-----------------------------------------------------------------------------
(* The questions in the socket.                                            *)

\* Who waits: a question of its own is to be served, or an answer to be sent.
LEMMA WhoWaits ==
  ASSUME NEW mac
  PROVE  mac \in Waiting <=> \/ \E i \in 1 .. Len(udprx) : Asks(udprx[i]) /\ udprx[i].mac = mac
                             \/ \E i \in 1 .. Len(udptx) : udptx[i].mac = mac
  BY DEF Waiting

\* The same after a step.
LEMMA WhoWaitsNext ==
  ASSUME NEW mac
  PROVE  mac \in Waiting' <=> \/ \E i \in 1 .. Len(udprx') : Asks(udprx'[i]) /\ udprx'[i].mac = mac
                              \/ \E i \in 1 .. Len(udptx') : udptx'[i].mac = mac
  BY DEF Waiting, Asks, Unreadable, TypeRead

\* A question that reaches the socket makes its sender wait; nothing else does.
LEMMA WaitingArrives ==
  ASSUME IInv, NEW m \in Msg, Arrives(m)
  PROVE  Waiting' = Waiting \/ Waiting' = Waiting \cup {m.mac}
<1>1. udprx \in Seq(Msg) /\ udptx' = udptx
  BY DEF IInv, TypeOK, Arrives
<1>2. CASE udprx' = udprx
  BY <1>1, <1>2 DEF Waiting, Asks, Unreadable, TypeRead
<1>3. CASE udprx' = Append(udprx, m)
  <2>1. /\ Len(udprx') = Len(udprx) + 1 /\ Len(udprx) \in Nat
        /\ \A i \in 1 .. Len(udprx) : udprx'[i] = udprx[i]
        /\ udprx'[Len(udprx) + 1] = m
    BY <1>1, <1>3
  <2> DEFINE new == IF Asks(m) THEN {m.mac} ELSE {}
  <2>2. ASSUME NEW mac PROVE mac \in Waiting' <=> mac \in Waiting \cup new
    <3>1. (\E i \in 1 .. Len(udprx') : Asks(udprx'[i]) /\ udprx'[i].mac = mac)
          <=> \/ \E i \in 1 .. Len(udprx) : Asks(udprx[i]) /\ udprx[i].mac = mac
              \/ Asks(m) /\ m.mac = mac
      BY <2>1
    <3> QED
      BY <1>1, <3>1, WhoWaits, WhoWaitsNext
  <2>3. Waiting' = Waiting \cup new
    BY <2>2
  <2> QED
    BY <2>3
<1> QED
  BY <1>2, <1>3 DEF Arrives

\* Reading a message that is not answered changes nothing for its sender; an
\* answer takes the place of the question.
LEMMA WaitingServe ==
  ASSUME IInv, udprx # <<>>, udprx' = Tail(udprx),
         IF Asks(Head(udprx))
           THEN \E r \in Reply : udptx' = Append(udptx, r) /\ r.mac = Head(udprx).mac
           ELSE udptx' = udptx
  PROVE  Waiting' = Waiting
<1> DEFINE msg == Head(udprx)
<1>1. /\ udprx \in Seq(Msg) /\ Len(udprx) \in Nat \ {0} /\ Len(udprx') = Len(udprx) - 1
      /\ udprx[1] = msg
      /\ \A i \in 1 .. Len(udprx') : udprx'[i] = udprx[i + 1]
  BY DEF IInv, TypeOK
<1>2. udptx \in Seq(Reply)
  BY DEF IInv, TypeOK
<1> HIDE DEF msg
<1>3. ASSUME NEW mac PROVE mac \in Waiting' <=> mac \in Waiting
  <2>1. (\E i \in 1 .. Len(udprx) : Asks(udprx[i]) /\ udprx[i].mac = mac)
        <=> \/ Asks(msg) /\ msg.mac = mac
            \/ \E i \in 1 .. Len(udprx') : Asks(udprx'[i]) /\ udprx'[i].mac = mac
    <3>1. \A i \in 1 .. Len(udprx) : i = 1 \/ i - 1 \in 1 .. Len(udprx')
      BY <1>1
    <3>2. \A i \in 1 .. Len(udprx) : i = 1 \/ udprx'[i - 1] = udprx[i]
      BY <1>1, <3>1
    <3>3. \A i \in 1 .. Len(udprx') : i + 1 \in 1 .. Len(udprx)
      BY <1>1
    <3>4. 1 \in 1 .. Len(udprx)
      BY <1>1
    <3>5. ASSUME NEW i \in 1 .. Len(udprx), Asks(udprx[i]), udprx[i].mac = mac
          PROVE  \/ Asks(msg) /\ msg.mac = mac
                 \/ \E k \in 1 .. Len(udprx') : Asks(udprx'[k]) /\ udprx'[k].mac = mac
      BY <1>1, <3>1, <3>2, <3>5
    <3>6. ASSUME NEW i \in 1 .. Len(udprx'), Asks(udprx'[i]), udprx'[i].mac = mac
          PROVE  \E k \in 1 .. Len(udprx) : Asks(udprx[k]) /\ udprx[k].mac = mac
      BY <1>1, <3>3, <3>6
    <3>7. Asks(msg) /\ msg.mac = mac
            => \E k \in 1 .. Len(udprx) : Asks(udprx[k]) /\ udprx[k].mac = mac
      BY <1>1, <3>4
    <3> QED
      BY <3>5, <3>6, <3>7
  <2>2. (\E i \in 1 .. Len(udptx') : udptx'[i].mac = mac)
        <=> \/ \E i \in 1 .. Len(udptx) : udptx[i].mac = mac
            \/ Asks(msg) /\ msg.mac = mac
    <3>1. CASE Asks(msg)
      <4>1. PICK r \in Reply : udptx' = Append(udptx, r) /\ r.mac = msg.mac
        BY <3>1 DEF msg
      <4>2. /\ Len(udptx') = Len(udptx) + 1 /\ Len(udptx) \in Nat
            /\ \A i \in 1 .. Len(udptx) : udptx'[i] = udptx[i]
            /\ udptx'[Len(udptx) + 1] = r
        BY <1>2, <4>1
      <4> QED
        BY <3>1, <4>1, <4>2
    <3>2. CASE ~Asks(msg)
      BY <3>2 DEF msg
    <3> QED
      BY <3>1, <3>2
  <2> QED
    BY <2>1, <2>2, WhoWaits, WhoWaitsNext
<1> QED
  BY <1>3

\* A client that reads its answer waits no more, unless it has asked again.
LEMMA WaitingLeaves ==
  ASSUME IInv, Leaves
  PROVE  /\ Head(udptx).mac \in Waiting
         /\ Waiting' \in {Waiting, Waiting \ {Head(udptx).mac}}
<1> DEFINE c == Head(udptx).mac
<1>1. /\ udptx \in Seq(Reply) /\ Len(udptx) \in Nat \ {0} /\ Len(udptx') = Len(udptx) - 1
      /\ udptx[1].mac = c /\ udprx' = udprx
      /\ \A i \in 1 .. Len(udptx') : udptx'[i] = udptx[i + 1]
  BY DEF IInv, TypeOK, Leaves
<1> HIDE DEF c
<1>2. c \in Waiting
  BY <1>1, WhoWaits
<1>3. ASSUME NEW mac PROVE /\ mac \in Waiting' => mac \in Waiting
                           /\ mac \in Waiting /\ mac # c => mac \in Waiting'
  <2>1. (\E i \in 1 .. Len(udptx) : udptx[i].mac = mac)
        <=> \/ c = mac
            \/ \E i \in 1 .. Len(udptx') : udptx'[i].mac = mac
    <3>1. \A i \in 1 .. Len(udptx) : i = 1 \/ i - 1 \in 1 .. Len(udptx')
      BY <1>1
    <3>2. \A i \in 1 .. Len(udptx) : i = 1 \/ udptx'[i - 1] = udptx[i]
      BY <1>1, <3>1
    <3>3. \A i \in 1 .. Len(udptx') : i + 1 \in 1 .. Len(udptx)
      BY <1>1
    <3> QED
      BY <1>1, <3>1, <3>2, <3>3
  <2> QED
    BY <1>1, <2>1, WhoWaits, WhoWaitsNext
<1>4. Waiting' = Waiting \/ Waiting' = Waiting \ {c}
  BY <1>3
<1> QED
  BY <1>2, <1>4 DEF c

\* A server that stops at a question has taken it from the socket.
LEMMA WaitingStops ==
  ASSUME IInv, udprx # <<>>, udprx' = Tail(udprx), udptx' = udptx
  PROVE  Waiting' \in {Waiting, Waiting \ {Head(udprx).mac}}
<1> DEFINE c == Head(udprx).mac
<1>1. /\ udprx \in Seq(Msg) /\ Len(udprx) \in Nat \ {0} /\ Len(udprx') = Len(udprx) - 1
      /\ udprx[1].mac = c
      /\ \A i \in 1 .. Len(udprx') : udprx'[i] = udprx[i + 1]
  BY DEF IInv, TypeOK
<1> HIDE DEF c
<1>2. ASSUME NEW mac PROVE /\ mac \in Waiting' => mac \in Waiting
                           /\ mac \in Waiting /\ mac # c => mac \in Waiting'
  <2>1. (\E i \in 1 .. Len(udprx') : Asks(udprx'[i]) /\ udprx'[i].mac = mac)
        => \E i \in 1 .. Len(udprx) : Asks(udprx[i]) /\ udprx[i].mac = mac
    <3>1. \A i \in 1 .. Len(udprx') : i + 1 \in 1 .. Len(udprx)
      BY <1>1
    <3> QED
      BY <1>1, <3>1
  <2>2. ASSUME NEW i \in 1 .. Len(udprx), Asks(udprx[i]), udprx[i].mac = mac, mac # c
        PROVE  \E k \in 1 .. Len(udprx') : Asks(udprx'[k]) /\ udprx'[k].mac = mac
    <3>1. i # 1
      BY <1>1, <2>2
    <3>2. i - 1 \in 1 .. Len(udprx')
      BY <1>1, <3>1
    <3>3. udprx'[i - 1] = udprx[i]
      BY <1>1, <3>2
    <3> QED
      BY <2>2, <3>2, <3>3
  <2> QED
    BY <2>1, <2>2, WhoWaits, WhoWaitsNext
<1>3. Waiting' = Waiting \/ Waiting' = Waiting \ {c}
  BY <1>2
<1> QED
  BY <1>3 DEF c

-----------------------------------------------------------------------------
(* One request.                                                            *)

\* The reply to a client goes into the socket, or the server stops: it is full.
Replies(mac) == /\ panicked' = panicked
                /\ \E r \in Reply : udptx' = Append(udptx, r) /\ r.mac = mac

Stops == panicked' = TRUE /\ udptx' = udptx /\ Len(udptx) = UDP_TX_CAP

\* There is room for the reply or there is none.
LEMMA ReplyIsSent ==
  ASSUME SafeInv, NEW r \in Reply, SendReply(r)
  PROVE  Replies(r.mac) \/ Stops
<1>1. Len(udptx) \in Nat /\ UDP_TX_CAP \in Nat /\ Len(udptx) <= UDP_TX_CAP
  BY DhcpAssumption DEF SafeInv, IInv, TypeOK
<1> QED
  BY <1>1 DEF SendReply, Replies, Stops

\* A new client gets a lease and a known one none, and both a reply if it fits.
LEMMA QuestionServed ==
  ASSUME SafeClients, SafeInv, udprx # <<>>, NEW msg \in Msg, msg.mac \in Macs,
         ServeNew(msg) \/ ServeKnown(msg)
  PROVE  /\ Replies(msg.mac) \/ Stops
         /\ \/ IsNew(msg.mac) /\ allocated' = Append(allocated, msg.mac)
            \/ allocated' = allocated
<1> DEFINE n == Len(allocated)
<1>1. /\ n \in Nat /\ allocated \in Seq(Macs) /\ addrcnt = n % Octet
      /\ Octet \in Nat \ {0} /\ addrstart \in Nat
      /\ n <= Cardinality(Macs) /\ Cardinality(Macs) \in Nat
  BY LeasesFit, FS_CardinalityType, DhcpAssumption
     DEF SafeClients, SafeInv, IInv, TypeOK, LeaseCount
<1>2. ASSUME NEW a \in Addresses, SendReply(Answer(msg, a))
      PROVE  Replies(msg.mac) \/ Stops
  <2>1. Answer(msg, a) \in Reply /\ Answer(msg, a).mac = msg.mac
    BY AnswerType
  <2> QED
    BY <1>2, <2>1, ReplyIsSent
<1>3. CASE ServeNew(msg)
  <2>1. IsNew(msg.mac) /\ n < Cardinality(Macs)
    BY <1>3, LeasesFit DEF ServeNew, SafeInv
  <2>2. addrcnt = n /\ ~Overflows(n) /\ n + 1 < Octet
    BY <1>1, <2>1, NoWrap
  <2>3. AddrAt(n) \in Addresses
    BY <1>1, AddrAtType
  <2> HIDE DEF n
  <2>4. TakeAddress(msg.mac) /\ SendReply(Answer(msg, AddrAt(n)))
    BY <1>1, <1>3, <2>2 DEF ServeNew
  <2> QED
    BY <1>2, <2>1, <2>3, <2>4 DEF TakeAddress
<1>4. CASE ServeKnown(msg)
  <2> DEFINE i == CHOOSE k \in IndicesOf(msg.mac) : TRUE
  <2>1. i \in 1 .. n /\ allocated[i] = msg.mac
    BY <1>4 DEF ServeKnown, IsNew, IndicesOf
  <2>2. IndicesOf(msg.mac) = {i}
    BY <2>1 DEF IndicesOf, SafeInv, IInv, OneLeasePerMac
  <2>3. LeaseOf(msg.mac) = i - 1
    BY DEF LeaseOf
  <2> HIDE DEF i
  <2>4. Cardinality(IndicesOf(msg.mac)) = 1
    BY <2>2, FS_Singleton
  <2>5. i - 1 \in Nat /\ i - 1 < Cardinality(Macs)
    BY <1>1, <2>1
  <2>6. LeaseOf(msg.mac) % Octet = i - 1 /\ ~Overflows(i - 1)
    BY <2>3, <2>5, NoWrap
  <2>7. SendReply(Answer(msg, AddrAt(i - 1))) /\ allocated' = allocated
    BY <1>4, <2>4, <2>6 DEF ServeKnown
  <2>8. AddrAt(i - 1) \in Addresses
    BY <2>5, AddrAtType
  <2> QED
    BY <1>2, <2>7, <2>8
<1> QED
  BY <1>3, <1>4

\* One call of run_dhcpserver.
LEMMA ServeEffect ==
  ASSUME SafeClients, SafeInv, Serve
  PROVE  /\ Head(udprx) \in Msg /\ Head(udprx).mac \in Macs
         /\ IF Asks(Head(udprx)) THEN Replies(Head(udprx).mac) \/ Stops
                                 ELSE UNCHANGED <<udptx, panicked>>
         /\ \/ /\ Asks(Head(udprx)) /\ IsNew(Head(udprx).mac)
               /\ allocated' = Append(allocated, Head(udprx).mac)
            \/ allocated' = allocated
<1> DEFINE msg == Head(udprx)
<1>1. udprx # <<>> /\ udprx' = Tail(udprx)
  BY DEF Serve
<1>2. msg \in Msg /\ msg.mac \in Macs
  BY <1>1, RequestType DEF SafeInv
<1>3. ~Unreadable(msg)
  BY <1>2 DEF Unreadable, SafeClients, Msg
<1>4. CASE Asks(msg)
  <2>1. ServeNew(msg) \/ ServeKnown(msg)
    BY <1>3, <1>4 DEF Serve
  <2> HIDE DEF msg
  <2>2. /\ Replies(msg.mac) \/ Stops
        /\ \/ IsNew(msg.mac) /\ allocated' = Append(allocated, msg.mac)
           \/ allocated' = allocated
    BY <1>1, <1>2, <2>1, QuestionServed
  <2> QED
    BY <1>2, <1>4, <2>2 DEF msg
<1>5. CASE ~Asks(msg)
  <2>1. UNCHANGED <<addrcnt, allocated, udptx, panicked>>
    BY <1>3, <1>5 DEF Serve
  <2> QED
    BY <1>2, <1>5, <2>1
<1> QED
  BY <1>4, <1>5

\* The reply that fills the socket is another client's.
LEMMA AnotherWaits ==
  ASSUME SafeInv, udprx # <<>>, Len(udptx) = UDP_TX_CAP
  PROVE  \E d \in Macs : d \in Waiting /\ d # Head(udprx).mac
<1>1. /\ 1 \in 1 .. Len(udptx) /\ udptx \in Seq(Reply)
      /\ 1 \in 1 .. Len(udprx) /\ udprx[1] = Head(udprx)
  BY DhcpAssumption DEF SafeInv, IInv, TypeOK
<1>2. udptx[1].mac \in Waiting /\ udptx[1].mac # Head(udprx).mac
  BY <1>1, WhoWaits DEF SafeInv, OneEach
<1>3. udptx[1].mac \in Macs
  <2>1. udptx[1] \in Reply
    BY <1>1
  <2> QED
    BY <2>1 DEF Reply
<1> QED
  BY <1>2, <1>3

\* A question that is asked is the only one of its client.
LEMMA ArrivesOneEach ==
  ASSUME SafeClients, SafeInv, NEW m \in Msg, Arrives(m)
  PROVE  OneEach' /\ Crowded'
<1>1. udprx \in Seq(Msg) /\ udptx' = udptx /\ ~panicked' /\ Idle(m.mac)
  BY DEF SafeInv, IInv, TypeOK, Arrives, SafeClients
<1>2. CASE udprx' = udprx
  BY <1>1, <1>2 DEF SafeInv, OneEach, Crowded
<1>3. CASE udprx' = Append(udprx, m)
  <2>1. /\ Len(udprx') = Len(udprx) + 1 /\ Len(udprx) \in Nat
        /\ \A i \in 1 .. Len(udprx) : udprx'[i] = udprx[i]
        /\ udprx'[Len(udprx) + 1] = m
    BY <1>1, <1>3
  <2>2. \A i \in 1 .. Len(udprx') : i \in 1 .. Len(udprx) \/ i = Len(udprx) + 1
    BY <2>1
  <2> QED
    BY <1>1, <2>1, <2>2 DEF SafeInv, OneEach, Crowded, Idle
<1> QED
  BY <1>2, <1>3 DEF Arrives

\* A reply that is sent leaves the others as they are.
LEMMA LeavesOneEach ==
  ASSUME SafeInv, Leaves
  PROVE  OneEach' /\ Crowded'
<1>1. /\ udptx \in Seq(Reply) /\ Len(udptx) \in Nat \ {0} /\ Len(udptx') = Len(udptx) - 1
      /\ udprx' = udprx /\ ~panicked'
      /\ \A i \in 1 .. Len(udptx') : udptx'[i] = udptx[i + 1]
  BY DEF SafeInv, IInv, TypeOK, Leaves
<1>2. \A i \in 1 .. Len(udptx') : i + 1 \in 1 .. Len(udptx)
  BY <1>1
<1> QED
  BY <1>1, <1>2 DEF SafeInv, OneEach, Crowded

\* The reply takes the place of the question; only a full socket stops the server.
LEMMA ServeOneEach ==
  ASSUME SafeClients, SafeInv, Serve
  PROVE  OneEach' /\ Crowded'
<1> DEFINE msg == Head(udprx)
<1>1. /\ udprx # <<>> /\ ~panicked
      /\ udprx \in Seq(Msg) /\ Len(udprx) \in Nat \ {0} /\ Len(udprx') = Len(udprx) - 1
      /\ udprx[1] = msg /\ udptx \in Seq(Reply)
      /\ \A i \in 1 .. Len(udprx') : udprx'[i] = udprx[i + 1]
  BY DEF SafeInv, IInv, TypeOK, Serve
<1>2. 1 \in 1 .. Len(udprx) /\ \A i \in 1 .. Len(udprx') : i + 1 \in 1 .. Len(udprx) /\ i + 1 # 1
  BY <1>1
<1>3. /\ msg.mac \in Macs
      /\ UNCHANGED <<udptx, panicked>> \/ Replies(msg.mac) \/ Stops
  BY ServeEffect
<1> HIDE DEF msg
<1>r. ASSUME NEW i \in 1 .. Len(udprx')
      PROVE  /\ udprx'[i].mac # msg.mac
             /\ \A j \in 1 .. Len(udprx') : udprx'[i].mac = udprx'[j].mac => i = j
             /\ \A j \in 1 .. Len(udptx) : udprx'[i].mac # udptx[j].mac
  <2>1. i + 1 \in 1 .. Len(udprx) /\ i + 1 # 1 /\ udprx'[i] = udprx[i + 1]
    BY <1>1, <1>2
  <2>2. udprx[i + 1].mac # udprx[1].mac
    BY <1>2, <2>1 DEF SafeInv, OneEach
  <2>3. ASSUME NEW j \in 1 .. Len(udprx'), udprx'[i].mac = udprx'[j].mac PROVE i = j
    <3>1. j + 1 \in 1 .. Len(udprx) /\ udprx'[j] = udprx[j + 1]
      BY <1>1, <1>2
    <3>2. i + 1 = j + 1
      BY <2>1, <2>3, <3>1 DEF SafeInv, OneEach
    <3> QED
      BY <1>1, <3>2
  <2>4. \A j \in 1 .. Len(udptx) : udprx[i + 1].mac # udptx[j].mac
    BY <2>1 DEF SafeInv, OneEach
  <2> QED
    BY <1>1, <2>1, <2>2, <2>3, <2>4
<1>4. CASE UNCHANGED <<udptx, panicked>>
  BY <1>1, <1>r, <1>4 DEF OneEach, Crowded
<1>5. CASE Replies(msg.mac)
  <2>1. PICK r \in Reply : udptx' = Append(udptx, r) /\ r.mac = msg.mac /\ panicked' = panicked
    BY <1>5 DEF Replies
  <2>2. /\ Len(udptx') = Len(udptx) + 1 /\ Len(udptx) \in Nat
        /\ \A i \in 1 .. Len(udptx) : udptx'[i] = udptx[i]
        /\ udptx'[Len(udptx) + 1] = r
    BY <1>1, <2>1
  <2>3. \A i \in 1 .. Len(udptx') : i \in 1 .. Len(udptx) \/ i = Len(udptx) + 1
    BY <2>2
  <2> QED
    BY <1>1, <1>r, <2>1, <2>2, <2>3 DEF OneEach, Crowded
<1>6. CASE Stops
  <2>1. \E c, d \in Macs : c # d
    <3>1. PICK d \in Macs : d # Head(udprx).mac
      BY <1>1, <1>6, AnotherWaits DEF Stops
    <3>2. msg.mac # d
      BY <3>1 DEF msg
    <3> QED
      BY <1>3, <3>2
  <2> QED
    BY <1>6, <1>r, <2>1 DEF OneEach, Crowded, Stops
<1> QED
  BY <1>3, <1>4, <1>5, <1>6

\* Every step keeps the invariant.
LEMMA SafeStep == ASSUME SafeClients, SafeInv, [Next]_vars PROVE SafeInv'
<1>1. IInv'
  BY NextIInv DEF SafeInv
<1>2. ASSUME NEW m \in Msg, Arrives(m) PROVE OneEach' /\ Crowded'
  BY <1>2, ArrivesOneEach
<1>3. ASSUME Leaves PROVE OneEach' /\ Crowded'
  BY <1>3, LeavesOneEach
<1>4. ASSUME Serve PROVE OneEach' /\ Crowded'
  BY <1>4, ServeOneEach
<1>5. ASSUME UNCHANGED vars PROVE OneEach' /\ Crowded'
  BY <1>5 DEF vars, SafeInv, OneEach, Crowded
<1> QED
  BY <1>1, <1>2, <1>3, <1>4, <1>5 DEF Next, SafeInv

-----------------------------------------------------------------------------
(* The promise.                                                            *)

\* A lease is in the list of the client it belongs to, and nobody else's.
LEMMA LeaseIsAddress ==
  /\ Lease = [mac \in Macs |-> AddressIn(allocated, mac)]
  /\ Lease' = [mac \in Macs |-> AddressIn(allocated', mac)]
  BY DEF Lease, AddressIn, IsNew, IndicesOf, AddrAt

\* A step that appends a lease leases an address nobody has.
LEMMA LeaseIsGranted ==
  ASSUME SafeClients, SafeInv, SafeInv', NEW c \in Macs, IsNew(c),
         allocated' = Append(allocated, c)
  PROVE  \E a \in Addresses : Service!Leased(c, a)
<1> DEFINE n == Len(allocated)
           a == addrstart + n
<1>1. /\ allocated \in Seq(Macs) /\ allocated' \in Seq(Macs) /\ n \in Nat
      /\ Len(allocated') = n + 1 /\ allocated'[n + 1] = c
      /\ \A i \in 1 .. n : allocated'[i] = allocated[i]
  BY DEF SafeInv, IInv, TypeOK
<1>2. n < Cardinality(Macs) /\ Cardinality(Macs) \in Nat /\ addrstart \in Nat /\ Octet \in Nat
  BY LeasesFit, FS_CardinalityType, DhcpAssumption DEF SafeInv, SafeClients
<1>3. /\ \A i, j \in 1 .. n : allocated[i] = allocated[j] => i = j
      /\ \A i, j \in 1 .. n + 1 : allocated'[i] = allocated'[j] => i = j
  BY <1>1 DEF SafeInv, IInv, OneLeasePerMac
<1>4. /\ \A i \in 1 .. n : AddressIn(allocated, allocated[i]) = addrstart + (i - 1)
      /\ \A d \in Macs : (\A i \in 1 .. n : allocated[i] # d) => AddressIn(allocated, d) = Octet
  BY <1>1, <1>2, <1>3, AddressOfLease
<1>5. /\ \A i \in 1 .. n + 1 : AddressIn(allocated', allocated'[i]) = addrstart + (i - 1)
      /\ \A d \in Macs : (\A i \in 1 .. n + 1 : allocated'[i] # d) => AddressIn(allocated', d) = Octet
  <2>1. \A i, j \in 1 .. Len(allocated') : allocated'[i] = allocated'[j] => i = j
    BY <1>1, <1>3
  <2>2. Len(allocated') <= Cardinality(Macs)
    BY <1>1, <1>2
  <2> HIDE DEF n
  <2>3. /\ \A i \in 1 .. Len(allocated') : AddressIn(allocated', allocated'[i]) = addrstart + (i - 1)
        /\ \A d \in Macs : (\A i \in 1 .. Len(allocated') : allocated'[i] # d)
                            => AddressIn(allocated', d) = Octet
    BY <1>1, <2>1, <2>2, AddressOfLease
  <2> QED
    BY <1>1, <2>3
<1>6. \A i \in 1 .. n : allocated[i] # c
  BY DEF IsNew, IndicesOf
<1>7. AddressIn(allocated, c) = Octet
  BY <1>4, <1>6
<1>8. a \in Addresses /\ a # Octet
  BY <1>1, <1>2 DEF SafeClients, Addresses
<1>9. \A d \in Macs : AddressIn(allocated, d) # a
  <2> SUFFICES ASSUME NEW d \in Macs PROVE AddressIn(allocated, d) # a
    OBVIOUS
  <2>1. CASE \A i \in 1 .. n : allocated[i] # d
    BY <1>4, <1>8, <2>1
  <2>2. ASSUME NEW i \in 1 .. n, allocated[i] = d PROVE AddressIn(allocated, d) # a
    BY <1>1, <1>2, <1>4, <2>2
  <2> QED
    BY <2>1, <2>2
<1>10. AddressIn(allocated', c) = a
  <2>1. n + 1 \in 1 .. n + 1 /\ addrstart + ((n + 1) - 1) = addrstart + n
    BY <1>1, <1>2
  <2>2. AddressIn(allocated', allocated'[n + 1]) = addrstart + ((n + 1) - 1)
    BY <1>5, <2>1
  <2> QED
    BY <1>1, <2>1, <2>2
<1>11. \A d \in Macs \ {c} : AddressIn(allocated', d) = AddressIn(allocated, d)
  <2> SUFFICES ASSUME NEW d \in Macs \ {c}
               PROVE  AddressIn(allocated', d) = AddressIn(allocated, d)
    OBVIOUS
  <2>1. CASE \A i \in 1 .. n : allocated[i] # d
    <3>1. \A i \in 1 .. n + 1 : allocated'[i] # d
      BY <1>1, <2>1
    <3> QED
      BY <1>4, <1>5, <2>1, <3>1
  <2>2. ASSUME NEW i \in 1 .. n, allocated[i] = d
        PROVE  AddressIn(allocated', d) = AddressIn(allocated, d)
    BY <1>1, <1>4, <1>5, <2>2
  <2> QED
    BY <2>1, <2>2
<1> HIDE DEF a, n
<1>12. Lease[c] = Octet /\ \A d \in Macs : Lease[d] # a
  BY <1>7, <1>9, LeaseIsAddress
<1>13. Lease' = [Lease EXCEPT ![c] = a]
  BY <1>10, <1>11, LeaseIsAddress
<1> QED
  BY <1>8, <1>12, <1>13 DEF Service!Leased

\* A client hears of the lease it has.
LEMMA LeaseIsTold ==
  ASSUME SafeClients, SafeInv, Leaves
  PROVE  \E c \in Macs : Service!Tell(c)
<1> DEFINE r == Head(udptx)
           c == r.mac
<1>1. /\ udptx # <<>> /\ udptx \in Seq(Reply) /\ r = udptx[1] /\ 1 \in 1 .. Len(udptx)
      /\ heard' = [heard EXCEPT ![c] = @ \cup {r.yiaddr}] /\ allocated' = allocated
      /\ ~panicked /\ panicked' = panicked
  BY DEF Leaves, SafeInv, IInv, TypeOK
<1>2. c \in Macs
  <2>1. r \in Reply
    BY <1>1
  <2> QED
    BY <2>1 DEF Reply
<1>3. c \in Waiting /\ Waiting' \in {Waiting, Waiting \ {c}}
  BY WaitingLeaves DEF SafeInv
<1>4. PICK i \in 1 .. Len(allocated) : allocated[i] = c /\ r.yiaddr = AddrAt((i - 1) % Octet)
  BY <1>1 DEF SafeInv, IInv, RepliesNamed, Named
<1>5. /\ allocated \in Seq(Macs) /\ Len(allocated) <= Cardinality(Macs)
      /\ \A j, k \in 1 .. Len(allocated) : allocated[j] = allocated[k] => j = k
      /\ Len(allocated) \in Nat /\ Cardinality(Macs) \in Nat /\ addrstart \in Nat /\ Octet \in Nat
  BY LeasesFit, FS_CardinalityType, DhcpAssumption
     DEF SafeInv, SafeClients, IInv, TypeOK, OneLeasePerMac
<1>6. AddressIn(allocated, c) = addrstart + (i - 1)
  BY <1>4, <1>5, AddressOfLease
<1>7. i - 1 \in Nat /\ i - 1 < Cardinality(Macs)
  BY <1>5
<1>8. r.yiaddr = addrstart + (i - 1)
  BY <1>4, <1>7, NoWrap
<1>9. addrstart + (i - 1) # Octet
  BY <1>5, <1>7 DEF SafeClients
<1> HIDE DEF r, c
<1>10. Lease[c] = r.yiaddr /\ Lease[c] # Octet /\ Lease' = Lease
  BY <1>1, <1>2, <1>6, <1>8, <1>9, LeaseIsAddress
<1> QED
  BY <1>1, <1>2, <1>3, <1>10 DEF Service!Tell

\* Every step is one of the service's, or none.
LEMMA ServiceStep ==
  ASSUME SafeClients, SafeInv, [Next]_vars
  PROVE  [Service!Next]_(Service!vars)
<1>0. SafeInv'
  BY SafeStep
<1>1. allocated' = allocated => Lease' = Lease
  BY LeaseIsAddress
<1>2. ASSUME NEW m \in Msg, Arrives(m) PROVE [Service!Next]_(Service!vars)
  <2>1. Waiting' = Waiting \/ Waiting' = Waiting \cup {m.mac}
    BY <1>2, WaitingArrives DEF SafeInv
  <2>2. /\ heard' = heard /\ Lease' = Lease /\ m.mac \in Macs
        /\ ~panicked /\ panicked' = panicked
    BY <1>1, <1>2 DEF Arrives, Msg
  <2> QED
    BY <2>1, <2>2 DEF Service!Next, Service!Ask, Service!vars
<1>3. CASE Leaves
  BY <1>3, LeaseIsTold DEF SafeInv, Service!Next
<1>4. CASE Serve
  <2> DEFINE msg == Head(udprx)
  <2>1. udprx # <<>> /\ udprx' = Tail(udprx) /\ heard' = heard /\ ~panicked
    BY <1>4 DEF Serve
  <2>2. /\ msg = udprx[1] /\ 1 \in 1 .. Len(udprx) /\ msg.mac \in Macs
        /\ Asks(msg) => msg.mac \in Waiting
    <3>1. msg = udprx[1] /\ 1 \in 1 .. Len(udprx) /\ msg.mac \in Macs
      BY <1>4, <2>1, ServeEffect DEF SafeInv, IInv, TypeOK
    <3> QED
      BY <3>1, WhoWaits
  <2>3. \/ UNCHANGED Lease
        \/ Asks(msg) /\ \E a \in Addresses : Service!Leased(msg.mac, a)
    BY <1>0, <1>1, <1>4, <2>2, ServeEffect, LeaseIsGranted
  <2>4. CASE ~Asks(msg)
    <3>1. UNCHANGED <<udptx, panicked>>
      BY <1>4, <2>4, ServeEffect
    <3>2. Waiting' = Waiting
      BY <2>1, <2>4, <3>1, WaitingServe DEF SafeInv
    <3> QED
      BY <2>1, <2>3, <2>4, <3>1, <3>2 DEF Service!vars
  <2>5. CASE Asks(msg) /\ Replies(msg.mac)
    <3>1. Waiting' = Waiting /\ panicked' = panicked
      BY <2>1, <2>5, WaitingServe DEF SafeInv, Replies
    <3>2. CASE UNCHANGED Lease
      BY <2>1, <3>1, <3>2 DEF Service!vars
    <3>3. CASE \E a \in Addresses : Service!Leased(msg.mac, a)
      <4>1. \E a \in Addresses : Service!Grant(msg.mac, a)
        BY <2>1, <2>2, <2>5, <3>1, <3>3 DEF Service!Grant
      <4> QED
        BY <2>2, <4>1 DEF Service!Next
    <3> QED
      BY <2>3, <3>2, <3>3
  <2>6. CASE Asks(msg) /\ Stops
    <3>1. Waiting' \in {Waiting, Waiting \ {msg.mac}}
      BY <2>1, <2>6, WaitingStops DEF SafeInv, Stops
    <3>2. Waiting # {msg.mac}
      BY <2>1, <2>6, AnotherWaits DEF Stops
    <3>3. Service!Fail(msg.mac)
      BY <2>1, <2>2, <2>3, <2>6, <3>1, <3>2 DEF Service!Fail, Stops
    <3> QED
      BY <2>2, <3>3 DEF Service!Next
  <2> QED
    BY <1>4, <2>4, <2>5, <2>6, ServeEffect
<1>5. CASE UNCHANGED vars
  <2>1. Waiting' = Waiting
    BY <1>5 DEF vars, Waiting, Asks, Unreadable, TypeRead
  <2> QED
    BY <1>1, <1>5, <2>1 DEF vars, Service!vars
<1> QED
  BY <1>2, <1>3, <1>4, <1>5 DEF Next

-----------------------------------------------------------------------------
(* The theorems.                                                           *)

\* Nobody waits and nobody has an address in the beginning.
LEMMA InitSafe ==
  ASSUME Init
  PROVE  SafeInv /\ Service!Init
<1>1. IInv
  BY InitInv
<1>2. ~panicked /\ OneEach /\ Crowded
  BY DEF Init, OneEach, Crowded
<1>3. Waiting = {} /\ heard = [c \in Macs |-> {}]
  BY DEF Init, Waiting
<1>4. Lease = [c \in Macs |-> Octet]
  <2>1. \A mac : AddressIn(allocated, mac) = Octet
    BY DEF Init, AddressIn
  <2> QED
    BY <2>1, LeaseIsAddress
<1> QED
  BY <1>1, <1>2, <1>3, <1>4 DEF SafeInv, Service!Init

\* The one panic of run_dhcpserver in reach of safe clients is that of a reply
\* without room: the octet does not overflow, and a client has one lease.
THEOREM OnlyFullBuffers == ASSUME SafeClients PROVE Spec => []OnlyFullPanics
<1>1. Init => SafeInv
  BY InitSafe
<1>2. SafeInv /\ [Next]_vars => SafeInv'
  BY SafeStep
<1>3. SafeInv => OnlyFullPanics
  BY DEF SafeInv, Crowded, OnlyFullPanics
<1> QED
  BY <1>1, <1>2, <1>3, PTL DEF Spec

\* And it takes two clients: run_dhcpserver never panics for the one at the other
\* end of the USB cable.
THEOREM OneClientNeverPanics ==
  ASSUME SafeClients, \A c, d \in Macs : c = d
  PROVE  Spec => []NoPanic
<1>1. Init => SafeInv
  BY InitSafe
<1>2. SafeInv /\ [Next]_vars => SafeInv'
  BY SafeStep
<1>3. SafeInv => NoPanic
  BY DEF SafeInv, Crowded, NoPanic
<1> QED
  BY <1>1, <1>2, <1>3, PTL DEF Spec

\* The server implements the service, but for its liveness: each step grants an
\* address that nobody has, tells a client the one it has, stops between two
\* clients that wait, or does none of it.
THEOREM ImplementsLeases == ASSUME SafeClients PROVE Spec => Service!Spec
<1>1. Init => SafeInv /\ Service!Init
  BY InitSafe
<1>2. SafeInv /\ [Next]_vars => SafeInv' /\ [Service!Next]_(Service!vars)
  BY SafeStep, ServiceStep
<1> QED
  BY <1>1, <1>2, PTL DEF Spec, Service!Spec
=============================================================================
