---------------------------- MODULE Dhcp_proofs ----------------------------
(***************************************************************************)
(* The leases of the DHCP server, for any set of clients, any size of the  *)
(* octet and both kinds of builds: a client has one lease, every reply to  *)
(* it names that lease's address, and a build that checks overflow never   *)
(* gives one address to two clients.                                       *)
(***************************************************************************)
EXTENDS Dhcp, TLAPS

\* The inductive invariant.  StableLease is split into the replies a client has
\* read and those on their way, which the steps disturb separately.
Named(leases, mac, a) ==
    \E i \in 1 .. Len(leases) : leases[i] = mac /\ a = AddrAt((i - 1) % Octet)
HeardNamed   == \A mac \in Macs : \A a \in heard[mac] : Named(allocated, mac, a)
RepliesNamed ==
    \A k \in 1 .. Len(udptx) : Named(allocated, udptx[k].mac, udptx[k].yiaddr)

IInv == TypeOK /\ OneLeasePerMac /\ LeaseCount /\ HeardNamed /\ RepliesNamed

-----------------------------------------------------------------------------
(* Arithmetic of the u8 counter.                                           *)

\* Quotient and remainder.
LEMMA ModBasic ==
  ASSUME NEW o \in Nat \ {0}, NEW l \in Nat
  PROVE  l % o \in 0 .. o - 1 /\ l = o * (l \div o) + (l % o) /\ l \div o \in Nat
  OBVIOUS

\* A number below the modulus is its own remainder.
LEMMA ModSmall == ASSUME NEW o \in Nat \ {0}, NEW l \in 0 .. o - 1 PROVE l % o = l
  OBVIOUS

\* The remainder is the only one.
LEMMA ModUnique ==
  ASSUME NEW o \in Nat \ {0}, NEW q \in Nat, NEW r \in 0 .. o - 1
  PROVE  (o * q + r) % o = r
<1> DEFINE l == o * q + r
           p == l \div o
           s == l % o
<1>1. l \in Nat
  OBVIOUS
<1>2. l = o * p + s /\ p \in Nat /\ s \in 0 .. o - 1
  BY <1>1, ModBasic
<1>3. o * (p - q) = r - s
  BY <1>1, <1>2
<1>4. p = q
  <2>1. ASSUME p > q PROVE FALSE
    <3>1. o * (p - q) >= o
      BY <2>1, <1>2
    <3> QED
      BY <3>1, <1>2, <1>3
  <2>2. ASSUME p < q PROVE FALSE
    <3>1. o * (p - q) <= 0 - o
      BY <2>2, <1>2
    <3> QED
      BY <3>1, <1>2, <1>3
  <2> QED
    BY <2>1, <2>2, <1>2
<1> QED
  BY <1>2, <1>4

\* Counting on a wrapped counter is counting and then wrapping.
LEMMA ModNext ==
  ASSUME NEW o \in Nat \ {0}, NEW l \in Nat
  PROVE  ((l % o) + 1) % o = (l + 1) % o
<1> DEFINE q == l \div o
           r == l % o
<1>1. l = o * q + r /\ q \in Nat /\ r \in 0 .. o - 1
  BY ModBasic
<1>2. CASE r + 1 < o
  <2>1. (r + 1) % o = r + 1
    BY <1>1, <1>2, ModSmall
  <2>2. l + 1 = o * q + (r + 1)
    BY <1>1
  <2> HIDE DEF q, r
  <2>3. (o * q + (r + 1)) % o = r + 1
    BY <1>1, <1>2, ModUnique
  <2> QED
    BY <2>1, <2>2, <2>3 DEF r
<1>3. CASE r + 1 = o
  <2>1. (r + 1) % o = 0
    BY <1>3, <1>1
  <2>2. l + 1 = o * (q + 1) + 0
    BY <1>1, <1>3
  <2> HIDE DEF q, r
  <2>3. (o * (q + 1) + 0) % o = 0
    BY <1>1, ModUnique
  <2> QED
    BY <2>1, <2>2, <2>3 DEF r
<1> QED
  BY <1>1, <1>2, <1>3

-----------------------------------------------------------------------------
(* Facts about the operators of the model.                                 *)

\* An address is an octet.
LEMMA AddrAtType == ASSUME NEW n \in Nat PROVE AddrAt(n) \in Addresses
  BY DhcpAssumption DEF AddrAt, Addresses

\* The leases of a step: none, or one more.
Grows(s, t) == t = s \/ \E m \in Macs : t = Append(s, m)

\* A lease stays where it is when another is appended.
LEMMA NamedStays ==
  ASSUME NEW s \in Seq(Macs), NEW t, Grows(s, t), NEW mac, NEW a, Named(s, mac, a)
  PROVE  Named(t, mac, a)
<1>1. PICK i \in 1 .. Len(s) : s[i] = mac /\ a = AddrAt((i - 1) % Octet)
  BY DEF Named
<1>2. i \in 1 .. Len(t) /\ t[i] = mac
  BY <1>1 DEF Grows
<1> QED
  BY <1>1, <1>2 DEF Named

\* The answer to a message goes to its sender, with the address.
LEMMA AnswerType ==
  ASSUME NEW msg \in Msg, NEW a \in Addresses
  PROVE  /\ Answer(msg, a) \in Reply
         /\ Answer(msg, a).mac = msg.mac
         /\ Answer(msg, a).yiaddr = a
  BY DEF Answer, Reply, Msg, TypeRead

\* What the clients have read stays named while the leases grow.
LEMMA HeardStays ==
  ASSUME TypeOK, HeardNamed, Grows(allocated, allocated'), heard' = heard
  PROVE  HeardNamed'
<1>1. allocated \in Seq(Macs)
  BY DEF TypeOK
<1>2. ASSUME NEW mac \in Macs, NEW a \in heard[mac]
      PROVE  Named(allocated', mac, a)
  <2>1. Named(allocated, mac, a)
    BY DEF HeardNamed
  <2> QED
    BY <2>1, <1>1, NamedStays
<1> QED
  BY <1>2 DEF HeardNamed

\* So do the replies on their way.
LEMMA RepliesStay ==
  ASSUME TypeOK, RepliesNamed, Grows(allocated, allocated')
  PROVE  \A k \in 1 .. Len(udptx) : Named(allocated', udptx[k].mac, udptx[k].yiaddr)
<1>1. allocated \in Seq(Macs)
  BY DEF TypeOK
<1>2. ASSUME NEW k \in 1 .. Len(udptx)
      PROVE  Named(allocated', udptx[k].mac, udptx[k].yiaddr)
  <2>1. Named(allocated, udptx[k].mac, udptx[k].yiaddr)
    BY DEF RepliesNamed
  <2> QED
    BY <2>1, <1>1, NamedStays
<1> QED
  BY <1>2

\* send_slice keeps the replies typed and named when the new one is.
LEMMA SendReplyKeeps ==
  ASSUME TypeOK, RepliesNamed, Grows(allocated, allocated'),
         NEW r \in Reply, SendReply(r), Named(allocated', r.mac, r.yiaddr)
  PROVE  /\ udptx' \in Seq(Reply) /\ Len(udptx') <= UDP_TX_CAP
         /\ panicked' \in BOOLEAN
         /\ RepliesNamed'
<1>1. CASE Len(udptx) < UDP_TX_CAP
  <2>1. /\ udptx' = Append(udptx, r)
        /\ panicked' = panicked
    BY <1>1 DEF SendReply
  <2>2. /\ udptx \in Seq(Reply) /\ Len(udptx') = Len(udptx) + 1
        /\ \A k \in 1 .. Len(udptx) : udptx'[k] = udptx[k]
        /\ udptx'[Len(udptx) + 1] = r
    BY <2>1 DEF TypeOK
  <2>3. ASSUME NEW k \in 1 .. Len(udptx')
        PROVE  Named(allocated', udptx'[k].mac, udptx'[k].yiaddr)
    <3>1. CASE k \in 1 .. Len(udptx)
      BY <3>1, <2>2, RepliesStay
    <3>2. CASE k = Len(udptx) + 1
      BY <3>2, <2>2
    <3> QED
      BY <3>1, <3>2, <2>2
  <2>4. udptx' \in Seq(Reply)
    BY <2>1, <2>2
  <2>5. Len(udptx') <= UDP_TX_CAP
    BY <2>2, <1>1, DhcpAssumption
  <2>6. panicked' \in BOOLEAN
    BY <2>1 DEF TypeOK
  <2>7. RepliesNamed'
    BY <2>3 DEF RepliesNamed
  <2> QED
    BY <2>4, <2>5, <2>6, <2>7
<1>2. CASE ~(Len(udptx) < UDP_TX_CAP)
  <2>1. udptx' = udptx /\ panicked' = TRUE
    BY <1>2 DEF SendReply
  <2> QED
    BY <2>1, RepliesStay DEF TypeOK, RepliesNamed
<1> QED
  BY <1>1, <1>2

\* A step that leaves the leases and the replies alone keeps the invariant.
LEMMA NothingServed ==
  ASSUME IInv, addrcnt' = addrcnt, allocated' = allocated, udptx' = udptx,
         heard' = heard, udprx' \in Seq(Msg), Len(udprx') <= UDP_RX_CAP,
         panicked' \in BOOLEAN
  PROVE  IInv'
  BY DEF IInv, TypeOK, OneLeasePerMac, LeaseCount, HeardNamed, RepliesNamed, Named,
         AddrAt, IndicesOf

-----------------------------------------------------------------------------
(* The steps.                                                              *)

\* A datagram of a client changes neither leases nor replies.
LEMMA ArrivesStep == ASSUME IInv, NEW m \in Msg, Arrives(m) PROVE IInv'
<1>1. udprx' \in Seq(Msg) /\ Len(udprx') <= UDP_RX_CAP
  BY DhcpAssumption DEF Arrives, IInv, TypeOK
<1> QED
  BY <1>1, NothingServed DEF Arrives, IInv, TypeOK

\* A client reads the reply that was on its way to it.
LEMMA LeavesStep == ASSUME IInv, Leaves PROVE IInv'
<1> DEFINE r == Head(udptx)
<1>1. /\ udptx \in Seq(Reply) /\ udptx # <<>> /\ r \in Reply /\ r = udptx[1]
      /\ udptx' \in Seq(Reply) /\ Len(udptx') = Len(udptx) - 1
      /\ \A k \in 1 .. Len(udptx') : udptx'[k] = udptx[k + 1]
  BY DEF Leaves, IInv, TypeOK
<1>2. r.mac \in Macs /\ r.yiaddr \in Addresses
  BY <1>1 DEF Reply
<1>3. Named(allocated, r.mac, r.yiaddr)
  BY <1>1 DEF IInv, RepliesNamed
<1>4. /\ heard' = [heard EXCEPT ![r.mac] = @ \cup {r.yiaddr}]
      /\ UNCHANGED <<addrcnt, allocated, udprx, panicked>>
  BY DEF Leaves
<1> HIDE DEF r
<1>5. heard' \in [Macs -> SUBSET Addresses]
  BY <1>2, <1>4 DEF IInv, TypeOK
<1>6. TypeOK'
  BY <1>1, <1>4, <1>5, DhcpAssumption DEF IInv, TypeOK
<1>7. HeardNamed'
  <2> SUFFICES ASSUME NEW mac \in Macs, NEW a \in heard'[mac]
               PROVE  Named(allocated, mac, a)
    BY <1>4 DEF HeardNamed
  <2>1. a \in heard[mac] \/ (mac = r.mac /\ a = r.yiaddr)
    BY <1>4, <1>2 DEF IInv, TypeOK
  <2> QED
    BY <2>1, <1>3 DEF IInv, HeardNamed
<1>8. RepliesNamed'
  <2> SUFFICES ASSUME NEW k \in 1 .. Len(udptx')
               PROVE  Named(allocated, udptx'[k].mac, udptx'[k].yiaddr)
    BY <1>4 DEF RepliesNamed
  <2>1. udptx'[k] = udptx[k + 1] /\ k + 1 \in 1 .. Len(udptx)
    BY <1>1
  <2> QED
    BY <2>1 DEF IInv, RepliesNamed
<1>9. OneLeasePerMac' /\ LeaseCount'
  BY <1>4 DEF IInv, OneLeasePerMac, LeaseCount
<1> QED
  BY <1>6, <1>7, <1>8, <1>9 DEF IInv

\* What serving a request takes from the buffer.
LEMMA RequestType ==
  ASSUME IInv, udprx # <<>>, udprx' = Tail(udprx)
  PROVE  /\ Head(udprx) \in Msg /\ Head(udprx).mac \in Macs
         /\ udprx' \in Seq(Msg) /\ Len(udprx') <= UDP_RX_CAP
<1>1. /\ udprx \in Seq(Msg) /\ Len(udprx) <= UDP_RX_CAP
      /\ UDP_RX_CAP \in Nat
  BY DhcpAssumption DEF IInv, TypeOK
<1>2. Head(udprx) \in Msg /\ udprx' \in Seq(Msg) /\ Len(udprx') = Len(udprx) - 1
  BY <1>1
<1> QED
  BY <1>1, <1>2 DEF Msg

\* A new lease is the last one, and the reply names its address.
LEMMA ServeNewStep ==
  ASSUME IInv, NEW msg \in Msg, msg.mac \in Macs, ServeNew(msg), heard' = heard,
         udprx' \in Seq(Msg), Len(udprx') <= UDP_RX_CAP
  PROVE  IInv'
<1> DEFINE n == Len(allocated)
           a == AddrAt(addrcnt)
<1>t. /\ allocated \in Seq(Macs) /\ n \in Nat /\ addrcnt \in Addresses
      /\ addrcnt = n % Octet /\ Octet \in Nat \ {0} /\ addrstart \in 0 .. Octet - 1
      /\ OverflowChecks \in BOOLEAN
  BY DhcpAssumption DEF IInv, TypeOK, LeaseCount
<1>1. CASE Overflows(addrcnt) \/ (OverflowChecks /\ addrcnt + 1 >= Octet)
  <2>1. Panic
    BY <1>1 DEF ServeNew
  <2> QED
    BY <2>1, NothingServed DEF Panic
<1>2. CASE ~(Overflows(addrcnt) \/ (OverflowChecks /\ addrcnt + 1 >= Octet))
  <2>1. /\ addrcnt' = (addrcnt + 1) % Octet
        /\ allocated' = Append(allocated, msg.mac)
        /\ SendReply(Answer(msg, a))
        /\ IsNew(msg.mac)
    BY <1>2 DEF ServeNew, TakeAddress
  <2>2. a \in Addresses /\ Answer(msg, a) \in Reply
        /\ Answer(msg, a).mac = msg.mac /\ Answer(msg, a).yiaddr = a
    <3>1. a \in Addresses
      BY <1>t, AddrAtType DEF Addresses
    <3> QED
      BY <3>1, AnswerType
  <2>3. /\ allocated' \in Seq(Macs) /\ Len(allocated') = n + 1
        /\ \A i \in 1 .. n : allocated'[i] = allocated[i]
        /\ allocated'[n + 1] = msg.mac
    BY <2>1, <1>t
  <2>4. Grows(allocated, allocated')
    BY <2>1 DEF Grows
  <2>5. Named(allocated', msg.mac, a)
    BY <2>3, <1>t DEF Named
  <2>6. OneLeasePerMac'
    <3>1. \A i \in 1 .. n : allocated[i] # msg.mac
      BY <2>1 DEF IsNew, IndicesOf
    <3>2. \A i, j \in 1 .. n : allocated[i] = allocated[j] => i = j
      BY DEF IInv, OneLeasePerMac
    <3> HIDE DEF n
    <3>3. ASSUME NEW i \in 1 .. n + 1, NEW j \in 1 .. n + 1, allocated'[i] = allocated'[j]
          PROVE  i = j
      <4>1. CASE i \in 1 .. n /\ j \in 1 .. n
        BY <4>1, <3>2, <3>3, <2>3
      <4>2. CASE i = n + 1 \/ j = n + 1
        BY <4>2, <3>1, <3>3, <2>3, <1>t
      <4> QED
        BY <4>1, <4>2, <1>t
    <3> QED
      BY <3>3, <2>3 DEF OneLeasePerMac
  <2>7. LeaseCount'
    <3>1. addrcnt' = Len(allocated') % Octet
      BY <2>1, <2>3, <1>t, ModNext
    <3>2. ASSUME OverflowChecks
          PROVE  n + 1 < Octet /\ addrstart + (n + 1) <= Octet
      <4>1. n < Octet
        BY <3>2 DEF IInv, LeaseCount
      <4>2. addrcnt = n
        BY <4>1, <1>t, ModSmall
      <4>3. addrcnt + 1 < Octet /\ addrstart + addrcnt < Octet
        BY <1>2, <3>2, <1>t DEF Overflows, Addresses
      <4> QED
        BY <4>2, <4>3, <1>t
    <3> QED
      BY <3>1, <3>2, <2>3 DEF LeaseCount
  <2>8. HeardNamed'
    BY <2>4, HeardStays DEF IInv
  <2>9. /\ udptx' \in Seq(Reply) /\ Len(udptx') <= UDP_TX_CAP
        /\ panicked' \in BOOLEAN
        /\ RepliesNamed'
    <3> DEFINE r == Answer(msg, a)
    <3>1. SendReply(r) /\ r \in Reply /\ r.mac = msg.mac /\ r.yiaddr = a
      BY <2>1, <2>2
    <3> HIDE DEF r, a
    <3>2. Named(allocated', r.mac, r.yiaddr)
      BY <3>1, <2>5
    <3>3. TypeOK /\ RepliesNamed
      BY DEF IInv
    <3> QED
      BY <3>1, <3>2, <3>3, <2>4, SendReplyKeeps
  <2>10. addrcnt' \in Addresses
    <3>1. addrcnt + 1 \in Nat
      BY <1>t DEF Addresses
    <3>2. (addrcnt + 1) % Octet \in 0 .. Octet - 1
      BY <3>1, <1>t, ModBasic
    <3> QED
      BY <3>2, <2>1 DEF Addresses
  <2>11. TypeOK'
    BY <2>3, <2>9, <2>10 DEF TypeOK, IInv
  <2> QED
    BY <2>6, <2>7, <2>8, <2>9, <2>11 DEF IInv
<1> QED
  BY <1>1, <1>2

\* A known client is told the address of its lease again.
LEMMA ServeKnownStep ==
  ASSUME IInv, NEW msg \in Msg, msg.mac \in Macs, ServeKnown(msg), heard' = heard,
         udprx' \in Seq(Msg), Len(udprx') <= UDP_RX_CAP
  PROVE  IInv'
<1> DEFINE n == LeaseOf(msg.mac) % Octet
           i == CHOOSE k \in IndicesOf(msg.mac) : TRUE
<1>1. i \in 1 .. Len(allocated) /\ allocated[i] = msg.mac
  BY DEF ServeKnown, IsNew, IndicesOf
<1>2. /\ n = (i - 1) % Octet /\ n \in Nat
      /\ Octet \in Nat \ {0}
  <2>1. i - 1 \in Nat /\ Octet \in Nat \ {0}
    BY <1>1, DhcpAssumption DEF IInv, TypeOK
  <2>2. n = (i - 1) % Octet
    BY DEF LeaseOf
  <2> HIDE DEF i, n
  <2>3. (i - 1) % Octet \in 0 .. Octet - 1
    BY <2>1, ModBasic
  <2> QED
    BY <2>1, <2>2, <2>3
<1>3. CASE Cardinality(IndicesOf(msg.mac)) > 1 \/ Overflows(n)
  <2>1. Panic
    BY <1>3 DEF ServeKnown
  <2> QED
    BY <2>1, NothingServed DEF Panic
<1>4. CASE ~(Cardinality(IndicesOf(msg.mac)) > 1 \/ Overflows(n))
  <2> DEFINE a == AddrAt(n)
  <2>1. SendReply(Answer(msg, a)) /\ UNCHANGED <<addrcnt, allocated>>
    BY <1>4 DEF ServeKnown
  <2> HIDE DEF n, i
  <2>2. a \in Addresses
    BY <1>2, AddrAtType
  <2>3. Named(allocated', msg.mac, a)
    BY <2>1, <1>1, <1>2 DEF Named
  <2> HIDE DEF a
  <2>4. /\ Answer(msg, a) \in Reply
        /\ Answer(msg, a).mac = msg.mac /\ Answer(msg, a).yiaddr = a
    BY <2>2, AnswerType
  <2>5. Grows(allocated, allocated')
    BY <2>1 DEF Grows
  <2>6. /\ udptx' \in Seq(Reply) /\ Len(udptx') <= UDP_TX_CAP
        /\ panicked' \in BOOLEAN
        /\ RepliesNamed'
    BY <2>1, <2>3, <2>4, <2>5, SendReplyKeeps DEF IInv
  <2>7. HeardNamed'
    BY <2>5, HeardStays DEF IInv
  <2> QED
    BY <2>1, <2>6, <2>7 DEF IInv, TypeOK, OneLeasePerMac, LeaseCount
<1> QED
  BY <1>3, <1>4

\* Serve: a message that cannot be read, a request that is answered, or another
\* message that is only read.
LEMMA ServeStep == ASSUME IInv, Serve PROVE IInv'
<1> DEFINE msg == Head(udprx)
<1>1. udprx # <<>> /\ udprx' = Tail(udprx) /\ heard' = heard
  BY DEF Serve
<1>2. /\ msg \in Msg /\ msg.mac \in Macs
      /\ udprx' \in Seq(Msg) /\ Len(udprx') <= UDP_RX_CAP
  BY <1>1, RequestType
<1>3. CASE Asks(msg)
  <2>1. ServeNew(msg) \/ ServeKnown(msg)
    BY <1>3 DEF Serve, Asks
  <2> HIDE DEF msg
  <2> QED
    BY <2>1, <1>1, <1>2, ServeNewStep, ServeKnownStep
<1>4. CASE ~Unreadable(msg) /\ ~Asks(msg)
  <2>1. UNCHANGED <<addrcnt, allocated, udptx, panicked>>
    BY <1>4 DEF Serve, Asks
  <2> QED
    BY <2>1, <1>1, <1>2, NothingServed DEF IInv, TypeOK
<1>5. CASE Unreadable(msg)
  <2>1. Panic
    BY <1>5 DEF Serve, Asks
  <2> QED
    BY <2>1, <1>1, <1>2, NothingServed DEF Panic
<1> QED
  BY <1>3, <1>4, <1>5

-----------------------------------------------------------------------------
(* The theorems.                                                           *)

\* The server starts without leases.
LEMMA InitInv == ASSUME Init PROVE IInv
<1>1. 0 % Octet = 0 /\ Octet \in Nat \ {0} /\ addrstart \in 0 .. Octet - 1
  BY DhcpAssumption, ModSmall
<1>2. TypeOK
  <2>1. heard \in [Macs -> SUBSET Addresses]
    BY DEF Init
  <2>2. addrcnt \in Addresses
    BY <1>1 DEF Init, Addresses
  <2>4. panicked \in BOOLEAN
    BY DEF Init
  <2>3. /\ allocated \in Seq(Macs) /\ udprx \in Seq(Msg) /\ udptx \in Seq(Reply)
        /\ Len(udprx) = 0 /\ Len(udptx) = 0
    BY DEF Init
  <2> QED
    BY <2>1, <2>2, <2>3, <2>4, DhcpAssumption DEF TypeOK
<1>3. OneLeasePerMac /\ HeardNamed /\ RepliesNamed
  BY DEF Init, OneLeasePerMac, HeardNamed, RepliesNamed
<1>4. LeaseCount
  <2>1. addrcnt = 0 /\ Len(allocated) = 0
    BY DEF Init
  <2> QED
    BY <2>1, <1>1 DEF LeaseCount
<1> QED
  BY <1>2, <1>3, <1>4 DEF IInv

\* Every step keeps the invariant.
LEMMA NextIInv == IInv /\ [Next]_vars => IInv'
<1> SUFFICES ASSUME IInv, [Next]_vars PROVE IInv'
  OBVIOUS
<1>1. CASE Next
  BY <1>1, ServeStep, LeavesStep, ArrivesStep DEF Next
<1>2. CASE UNCHANGED vars
  BY <1>2, NothingServed DEF vars, IInv, TypeOK
<1> QED
  BY <1>1, <1>2

\* IInv holds in every reachable state.
THEOREM Invariance == Spec => []IInv
<1>1. Init => IInv
  BY InitInv
<1> QED
  BY <1>1, NextIInv, PTL DEF Spec

\* Type correctness of run_dhcpserver and its socket.
THEOREM TypeCorrect == Spec => []TypeOK
<1>1. IInv => TypeOK
  BY DEF IInv
<1> QED
  BY <1>1, Invariance, PTL

\* create_lease never gives a client a second lease, whatever the clients send
\* and in whatever order: its panic is unreachable.
THEOREM OneLease == Spec => []OneLeasePerMac
<1>1. IInv => OneLeasePerMac
  BY DEF IInv
<1> QED
  BY <1>1, Invariance, PTL

\* addrcnt is the number of leases, and a build with overflow checks stops before
\* it leaves the octet.
THEOREM CounterCounts == Spec => []LeaseCount
<1>1. IInv => LeaseCount
  BY DEF IInv
<1> QED
  BY <1>1, Invariance, PTL

\* All a client was given or will read from the socket is named by its lease.
LEMMA GivenNamed ==
  ASSUME IInv, NEW mac \in Macs, NEW a \in Given(mac)
  PROVE  Named(allocated, mac, a)
<1>1. a \in heard[mac] \/ \E k \in 1 .. Len(udptx) : udptx[k].mac = mac /\ a = udptx[k].yiaddr
  BY DEF Given
<1> QED
  BY <1>1 DEF IInv, HeardNamed, RepliesNamed

\* Every reply to a client, ever, names the address of its one lease.
THEOREM LeasesAreStable == Spec => []StableLease
<1>1. IInv => StableLease
  <2> SUFFICES ASSUME IInv, NEW mac \in Macs, NEW a \in Given(mac)
               PROVE  \E i \in IndicesOf(mac) : a = AddrAt((i - 1) % Octet)
    BY DEF StableLease
  <2> QED
    BY GivenNamed DEF Named, IndicesOf
<1> QED
  BY <1>1, Invariance, PTL

\* A build that checks overflow panics rather than give one address to two
\* clients.  (A release build wraps, and shares addresses after Octet leases.)
THEOREM LeasesAreUnique == ASSUME OverflowChecks PROVE Spec => []UniqueLeases
<1>1. IInv => UniqueLeases
  <2> SUFFICES ASSUME IInv, NEW m1 \in Macs, NEW m2 \in Macs, m1 # m2,
                      NEW a \in Given(m1), a \in Given(m2)
               PROVE  FALSE
    BY DEF UniqueLeases
  <2>1. PICK i \in 1 .. Len(allocated) :
            allocated[i] = m1 /\ a = AddrAt((i - 1) % Octet)
    BY GivenNamed DEF Named
  <2>2. PICK j \in 1 .. Len(allocated) :
            allocated[j] = m2 /\ a = AddrAt((j - 1) % Octet)
    BY GivenNamed DEF Named
  <2>3. /\ Octet \in Nat \ {0} /\ addrstart \in Nat /\ Len(allocated) \in Nat
        /\ Len(allocated) < Octet /\ addrstart + Len(allocated) <= Octet
    BY DhcpAssumption DEF IInv, LeaseCount, TypeOK
  <2>4. \A k \in 1 .. Len(allocated) : AddrAt((k - 1) % Octet) = addrstart + (k - 1)
    <3> SUFFICES ASSUME NEW k \in 1 .. Len(allocated)
                 PROVE  AddrAt((k - 1) % Octet) = addrstart + (k - 1)
      OBVIOUS
    <3>0. k - 1 \in 0 .. Octet - 1 /\ addrstart + (k - 1) \in 0 .. Octet - 1
      BY <2>3
    <3>1. (k - 1) % Octet = k - 1
      BY <3>0, <2>3, ModSmall
    <3>2. (addrstart + (k - 1)) % Octet = addrstart + (k - 1)
      BY <3>0, <2>3, ModSmall
    <3> QED
      BY <3>1, <3>2 DEF AddrAt
  <2> QED
    BY <2>1, <2>2, <2>3, <2>4
<1> QED
  BY <1>1, Invariance, PTL
=============================================================================
