# stamrust in TLA+

stamrust is firmware for an STM32L412 board that enumerates as a USB network
adapter (CDC-NCM), runs an IP stack (smoltcp) behind it, hands out addresses by
DHCP and serves a small web page with which an RGB LED is set. It is a single
polling loop without an operating system; the only interrupt counts
milliseconds. These modules model the loop, everything that moves data in it and
the interrupt, check the models with TLC and prove the data path, the DHCP server
and the statistics with TLAPS.

## The system

| Part | Source | State | Operations |
|---|---|---|---|
| Main loop | `main.rs` | order of the calls | `run_loop`, `process_messages`, `eth_task`, statistics |
| USB manager | `usbipserver.rs` | `bootstate`, rings `rxq` (4) and `txq` (8), `currtxbuf`, `msghandled` | `run_loop`, `process_usb`, `get_bufs` |
| CDC-NCM class | `cdc_ncm.rs` | descriptors, endpoints | `read_packet`, `write_packet`, notifications, control requests |
| NCM transmit | `ncm_api.rs` | `txstate`, `txtransactioncnt`, `ncmmsgtxbuf`, `txheader`, `txdatagram` | first half of `process_messages` |
| NCM receive | `ncm_api.rs` | `rxstate`, `currcnt`, `currheader`, `ncmmsgrxbuf`, `rxbufready` | second half of `process_messages`, `process_ndp`, `restart_rx` |
| Network device | `ncm_netif.rs` | rings `rxq` and `txq` of one frame | `receive`, `transmit`, `consume` |
| DHCP server | `dhcp.rs`, `server.rs` | `allocated`, `addrcnt` | `run_dhcpserver`, `recv`, `create_dhcp_reply`, `create_lease` |
| Web server | `server.rs`, `http.rs` | `rxbytes`, `msgtosend`, `RGB`, one TCP socket | `run_webserver`, `parse_request`, callbacks |
| Clock and statistics | `main.rs` | `TICKS`, `STATS`, `perfcounter`, `lastlooptime` | `SysTick`, `get_counter`, `finalize_perfcounter` |
| LED, ADC | `main.rs` | timer and converter registers | `handle_incoming_rgb_requests`, `get_temperature_int` |

A frame of the IP stack goes `StmPhy.txq` → `NcmApiManager` (one NTB) →
`UsbIpManager.txq` (64-byte packets) → bulk IN endpoint → host. A frame of the
host goes bulk OUT endpoint → `UsbIpManager.rxq` → `NcmApiManager` →
`StmPhy.rxq` → smoltcp. All of these are bounded rings shared by reference;
every hand-over may find the next ring full or empty, and each state machine
advances by one packet per iteration, so all of them are always caught in the
middle of something.

What is hard here, and hard to test on the board:

* a ring or an endpoint that refuses a packet in the middle of a block, and
  what happens at the next call;
* variables that must have been reset several calls ago (`datagrams`,
  `currcnt`, `txtransactioncnt`, `msghandled`, `msgtosend`);
* a host that leaves: a transfer abandoned half-way, a bus reset, a browser
  that closes its connection;
* the order of the calls in the main loop, which alone keeps the receive rings
  from overflowing;
* boundaries: blocks that end with a full packet, frames against `MTU`, the last
  address of the DHCP octet;
* requests cut into TCP segments at any place, replies larger than the socket's
  buffer;
* control requests and resets between any two steps of the boot sequence;
* the interrupt between any two steps of the loop, and the wrap of its counter.

What makes each part correct: packets tile blocks and blocks are numbered
consecutively (transmit); a delivered frame is the datagram of one block, or
the damage is bounded by the faults (receive); each packet reaches the endpoint
once and in order (USB manager); nothing is dropped between the parts (main
loop); a client has one address that nobody else has (DHCP); a client reads
the reply to its own request, in full, and the only socket becomes free again
(web); a published number is that of one second (statistics). `PROJECT.json` lists, line by line,
what could break these, and the properties that would show it.

## Modules

| Module | Models | Remarks |
|---|---|---|
| `FrameChannel` | what a direction of the bridge promises | abstract specification: accept, hand over, in order, eventually; `Break` ends the promise |
| `LeaseService` | what the DHCP server promises | abstract specification: a lease each, told to who asks; it may go down between two clients that wait |
| `NcmTx` | transmit half of `process_messages`, `TxToken::consume` | a packet names the bytes of the block it carries |
| `NcmRx` | receive half of `process_messages`, `RxToken::consume`, an external host | a byte is its block and its position |
| `UsbIp` | `run_loop`, `process_usb`, the control requests of `cdc_ncm.rs`, an external bus and endpoints | packets are opaque; a request is its kind |
| `Firmware` | the main loop | composes the three by `INSTANCE`, with a program counter over the calls |
| `Dhcp` | `run_dhcpserver` and `DhcpServer` | a message is its type, first option and MAC, an address its last octet |
| `WebServer` | `run_webserver`, `parse_request`, callbacks, the TCP socket, the LED | a request is a sequence of parts, a reply one of chunks |
| `Statistics` | `SysTick`, the clock readings of the loop, `finalize_perfcounter` | both kinds of builds, any width |
| `NcmTx_proofs`, `NcmRx_proofs`, `UsbIp_proofs`, `Firmware_proofs` | theorems | the last cites the other three through `INSTANCE` |
| `Dhcp_proofs`, `DhcpService_proofs`, `Statistics_proofs`, `WebServer_proofs` | theorems | |
| `MC*` | instances for TLC | |

Variables and operators carry the names of the code. An action is a call, or one
arm of a `match` in it: `TxReady`, `TxHeader`, `TxSending`, `TxZlp` are the
arms of `IpTxState`; `RxSkip`, `RxHeader`, `RxCopy` one turn of the receive
loop, `RxDeliver` what follows the loop; `RunLoop` one call of `run_loop`;
`Serve` one of `run_dhcpserver`; `RunWebserver` one of `run_webserver`;
`BeginLoop` the top of the loop and `FinalizePerfcounter` its end. A call
that finds nothing to do is a stuttering step, except in `Firmware`, where it
still moves on to the next call. A panic sets `panicked`, after which the
firmware does nothing more (the panic handler loops).

`NcmTx`, `NcmRx` and `UsbIp` each state what they assume of their neighbours as
actions of the environment, generous where possible: in `NcmTx` frames come and
packets go at any time. `Firmware` uses the same actions, but in the order of
the loop; the properties `RefinesNcmTx` and `RefinesNcmRx` say that its behaviours
are behaviours of those specifications, so what is proved there holds here.
The other parts share no state with the data path but the order of the calls, and
keep what they need of it: in `WebServer`, `pc` says that the socket changes in
the poll only and that the LED follows the server; in `Statistics`, that the clock
is read once per iteration.

In `UsbIp` each call of `run_loop` begins with the poll of the USB device, which
serves the pending control request before the boot notification or the data of the
same call; SET_CONFIGURATION is such a request, answered by the library, and what
opens the endpoints. `Answer` is the table of `control_in`, `control_out` and the
alternate settings; it depends on no state, so what is checked is when requests are
answered, and what they let happen next.

Definitions whose comment says *mutant* are not used by the specifications:
they are small plausible errors, kept to see that a property notices them.

## Model checking

| Run | Question | Answer |
|---|---|---|
| `tx` | Does any interleaving of the IP stack, `process_messages` and the USB manager, with rings full at any time, break a block, panic or stall? | No. `PacketStream`, `NoPanic`; implements `FrameChannel`; and `AgreedDelimited`: whether a zero-length packet follows a block is wrong only for the lengths of `tx_zlp` |
| `tx_zlp` | Is a zero-length packet sent exactly when a block ends with a full packet? | **No**: it is decided on the frame's length |
| `rx` | Does every layout of a block of more than one packet arrive, and what does an abandoned transfer cost? | Yes: implements `FrameChannel` until a transfer is abandoned, and `NothingLost`. Then the receiver may swallow blocks or deliver a damaged frame. `BackInStep`: once it has delivered one for each abandoned transfer it is in step again; `Resynchronises`: if the host goes on it is so in the end, in any case; `PanicsOnlyTorn`: or it panics on a pointer table that was still to come. `Reassembly` is the inductive invariant |
| `rx_mtu` | Does a long frame survive? | **No**: above 576 bytes it panics |
| `usb` | Is each packet offered until it is taken, and once, through bus resets, and each control request answered? | Yes; and on a fresh bus the host learns speed, then link |
| `usb_ntbsize` | Does a driver that sets the input size survive? | **No**: the request panics |
| `firmware` | End to end, is each direction a reliable channel, do the rings of the loop suffice, and do the assumptions of `NcmTx` and `NcmRx` hold, also through a reset and an abandoned transfer? | Yes; the channels until the fault, the rest also after it |
| `dhcp` | Does each client keep one address that no other has, and is everybody answered? | Yes, up to the last address: implements `LeaseService`; `LeaseCount` ties the counter to the leases. The server may stop, but only between two clients that wait (`OnlyFullPanics`) |
| `web` | Is each GET and POST answered in full, however the reply is cut up, and is the socket free again after each client? | Yes, for a client that waits, and cuts its request after the request line or the fields only; the LED shows a colour before the client reads the acknowledgement; and the socket listens again unless the client vanished before the end of the connection |
| `web_hangup` | Does a connection only carry replies to its own requests? | **No**: the rest of an abandoned reply goes to the next client |
| `web_split` | Does any cut of a well-formed POST panic? | **Yes**: between the empty line and the body |
| `stats` | Does the published number count the iterations of one second, and how old may it be, wherever the interrupt falls? | It does, with the slack of one iteration; an interval and two iterations, until the clock wraps |

`FrameChannel` says which frames leave a path and in which order, but not where
to: a path that swallowed the oldest frame would still be a channel. So the runs
`rx`, `usb` and `firmware` check it together with `NothingLost`, which says that a
frame or a packet only leaves by the step of the receiver (in `tx` this is
`PacketStream`: the packets tile the blocks).

### Bounds

* `tx`: packet size (64) and header (28) are the code's. Frames of 36 (exactly
  one packet; smoltcp emits none that short, but `consume` would take it), 42, 64,
  100 and 576 bytes cover each residue the state machine distinguishes: shorter
  than a packet, ending in a full packet, a multiple of the packet, the MTU. The USB ring
  has 4 places instead of 8: blocks of 10 packets fill either. Sequence numbers
  are modulo 4, more than there are blocks in flight.
* `rx`: sizes are scaled by about 8 (packets of 8, buffer of 24), so that bytes can be
  tracked one by one. Shapes: full packets with a zero-length packet, the whole
  buffer without one, a block one byte longer than a packet with an empty datagram and
  its pointer table across the two packets, the table behind the datagram in the second
  packet. Two block identities are enough, since at
  most two blocks are distinguishable at a time in a reliable channel of capacity
  two. Two transfers may be abandoned, so the second hits the recovery of the first.
  Bytes that begin with a table's signature and go on with others are read as one of
  `Garbled`: an entry within bounds or one out of range.
* `usb`: rings of 2 (full, partly full, empty), two packet values, two resets, every
  request of a driver but the two that panic.
* `firmware`: the sizes of `rx` with two frame lengths (one needs the zero-length
  packet, one fills its packets), rings of two places, one reset and one abandoned
  transfer. The driver's requests are left to `usb`: they touch nothing here.
* `dhcp`: an octet of 8 with `addrstart` 5: exactly three addresses for three
  clients, so the boundary is reached. A UDP buffer of 380 bytes holds one
  message of a client and one reply of 308 bytes. Each client waits for its own reply
  and nobody else's. Messages begin with the type or with option 52, whose three values
  are read as types.
* `web`: a page of three chunks against a transmit buffer of two; a receive
  buffer of four parts against requests of four and five; the heap holds six parts,
  more than any request. Two connection numbers tell a connection from the last.
* `stats`: a clock of 16 with an interval of 3 publishes several times before it
  wraps, and goes on after it. `MaxLag` = 2 lets an iteration begin in one tick and
  end in another, also across the interval's end and the wrap; two iterations per
  tick tell the number of iterations from that of ticks. The theorems hold for any
  of these numbers.

Deadlock is checked in every run whose property no panic is part of: there no state
stops the loop. In `rx` and `dhcp` the firmware can stop in a panic, which `PanicsOnlyTorn` and
`OnlyFullPanics` speak of, so the check is off.

### Fairness

The main loop is `loop { ... }` without a condition, and no call in it waits:
weak fairness of the device's own steps (`ProcessTx`, `ProcessRx`, `RunLoop`,
`MainLoop`, `RunWebserver`) is what the code does. The host's side is
assumed: a configured USB host polls its IN endpoints (`HostReadsIn`,
`HostReadsNotification`), configures a device that was reset, and continues a
transfer it began; TCP delivers what was sent, while the client is there. In `WebServer`
the socket changes in the poll only, once per iteration, so that delivery is
enabled again and again and has strong fairness. `ImplementsService` needs that
`run_dhcpserver` and the poll are called for ever. `Statistics` has no fairness: its
properties are about safety, and need the bound `MaxLag` on an iteration, which is
an assumption about the board. In `Firmware` the device looks for a
packet in one step of each iteration only, so a host with a packet ready is
enabled again and again but not continuously: `TransferGoesOn` has strong
fairness, which is the assumption that a packet offered forever is eventually
read by a device that looks forever. No fairness is put on a client asking, on a
frame being sent, or on faults.

## Proofs

The proofs hold for every packet size, header size, ring capacity, set of
frame lengths or block shapes that satisfies the named assumptions of the
constants; TLC evaluates the same assumptions in each run.

**`NcmTx_proofs`** proves `TypeOK`, `PacketStream`, `NoPanic`, `AgreedDelimited`
and that the steps are those of `FrameChannel` (`RefinesChannel`). `PacketStream`
is about packets already pushed; it is not inductive, because nothing in it says
that the next packet will fit behind the last one. The strengthening is `Cursor` (a theorem of
its own, which no run needs to check again):
in each state of `IpTxState` it relates the newest packet of the stream (`Tip`),
the block in `ncmmsgtxbuf`, `txtransactioncnt` and `usbmsgtotlen` (the block is
untouched, or partly sent up to the cursor, or complete). `Cursor` also says that
`datagrams` is two outside `Ready` and zero in it, which is why the
`copy_from_slice` of two table entries cannot panic. Popping a packet only
shortens the stream at its other end.

The frames under way are those whose last bytes are in the ring of packets, the one
that is being cut up and those of the IP stack's ring. The first are `FramesOn`, a
recursive function over the packets. What it gives for a longer or a shorter
sequence of packets (`FramesOnAppend`, `FramesOnTail`) is proved by induction, as
the absence of a least counterexample, since the library's own induction theorems
take an operator. Each arm of the state machine is then shown to move a frame from
one part to the next (`SameFrames`, or `SameFramesWith` the packet it pushes) for any
packets before it, so that `Firmware_proofs` can use the same lemmas with the endpoint
in front. `AgreedDelimited` needs two facts more: the cursor counts whole packets in a
long block (`Paced`), so the last packet is full exactly if the length of the block
is a multiple of the packet size; and the newest packet needs a zero-length one after
it only in `Zlp`, and there, where the lengths agree, exactly if `NeedsZlp`
(`TipIsClosed`). The arithmetic is for any packet size (`NextMultiple`).

**`NcmRx_proofs`** proves `TypeOK`, `TornBound`, `Reassembly`, `PanicsOnlyTorn`,
`NoPanic`, for blocks longer than a packet `BackInStep`, and for an
`OrdinaryHost` `NothingLost`, the steps of `FrameChannel` and that host and receiver
end a block together. The
invariant `Reassembly` has four parts: `TornBound` itself; `HostOrder` (the packet
in the ring is the one the host sent last); `Collecting` (the bytes in the buffer
are the first `currcnt` ones of the block whose header was read, and the next
packet continues them — or a transfer was abandoned whose damage has not been
delivered yet, `Owed`); and `HeadKept` (even in that case, what arrived with the
header packet is still in place). The crucial step is the completion of a block:
while nothing is owed it is whole, and delivering a damaged one uses up one
abandoned transfer. Blocks that are swallowed on the way are not counted.

From that, `PanicsAreTorn` shows that frames of at most `MTU` panic the receive path
only while something is owed, and only with a pointer table past the first packet: a
table that came with the header is kept (`HeadKept`). Its consequence `NeverPanics`
has two sufficient conditions: `SafeHost`, pointer tables in the header packet (as
Linux and Windows lay them out), or no transfer abandoned. The disagreements below
and `rx_mtu` show what happens without. `StepIsRegained` proves `BackInStep`: while nothing is owed
the receiver is at the host's byte of the host's block, so when the host has ended it,
so has the receiver. It needs blocks longer than a packet, see below.

The channel needs one more invariant, `InStep`: while no transfer was abandoned, a
receiver in the middle of a block is at the host's byte of the host's block, short of
its end; one that waits for a header gets a header or the zero-length packet; and
while a block is received the IP stack's ring is empty, so its frame is not dropped
for want of room. It holds for an `OrdinaryHost`, whose blocks are longer than a
packet and whose datagrams are at most `MTU`. The first is true of every block with a
frame in it (28 bytes of headers and a frame of 42 or more, against packets of 64), and
without it the code waits for the next block, see below; the second is `rx_mtu` again.
`TransferComplete`, which `Resynchronises` says of the time after the last abandoned
transfer, follows from `InStep` for the time before the first (`BlocksEndTogether`).

**`UsbIp_proofs`** proves `TypeOK`, `NothingLost`, `SpeedBeforeUp` and that the
steps are those of `FrameChannel` (`RefinesChannel`), for rings of any size. The
type invariant says that a packet on offer is one that was popped, not the
buffer's first content. `BootOrder` relates the boot state, the notification
endpoint and what the host knows until the first reset: a state of the boot
sequence has sent exactly the notifications of those before it.

**`Firmware_proofs`** proves `RingsEmptyAtUsb`, `RefinesNcmTx`, `RefinesNcmRx`,
`NothingLost`, the steps of both end-to-end channels, and that the loop refines `UsbIp`
and never panics. `LoopOrder` says which buffers are empty at each call.
The refinements hang together: a panic of the receive path would be a step that
`NcmTx` does not have, and the other way round. So the invariant holds the inductive
invariants of both halves (`TxP` and `RxP`, instances of their proofs): each step
is first shown to be one of the half it belongs to, whose own theorem then
excludes a panic, and only therefore one of the other half's environment. The
hypothesis is `SafeHost`, as for `NcmRx`; `FirmwareAssumption` implies the
assumptions of both. With that, a push finds room and the loop drains a ring of one
packet, which is what `UsbIp` assumes of its neighbours (`LoopRefinesUsbIp`), and what was
proved of the three parts holds of the whole loop (`PartsKeepTheirPromises`).

End to end, the frames to the host are those of `Bulk` (the packet in the endpoint, the
popped one and the ring) in place of the ring alone: `run_loop` only moves packets
within `Bulk` (`RunLoopBulk`), `process_messages` pushes at its end, and the host's read
takes its head, so the lemmas of `NcmTx_proofs` about `FramesOn` carry over
(`LoopRefinesToHostChannel`). The frames to the IP stack are those of `NcmRx`
(`LoopRefinesToStackChannel`). `NoFrameIsLost` takes both together.

**`Dhcp_proofs`** proves `TypeOK`, `OneLeasePerMac`, `StableLease` and `LeaseCount`
for any set of clients and either build, and `UniqueLeases` for builds that check
overflow. The invariant splits `StableLease` into the addresses clients have read
and the replies still in the socket, and needs `LeaseCount`: only because
`addrcnt` is the number of leases, wrapped with it, does a repeated request find
the address that the first one was given. `UniqueLeases` follows because the
checked additions keep every lease inside the octet, where `AddrAt` is one-to-one.

**`DhcpService_proofs`** proves `OnlyFullPanics` and that the steps are those of
`LeaseService` (`ImplementsLeases`) for `SafeClients`: no more clients than
addresses from `addrstart` to the end of the octet (the boundary included), each of
which waits for the reply to it before it asks again and sends messages whose first
option can be read. Leases are
an injection into the clients, so there are no more leases than clients, and
fewer while a client without one asks; therefore the octet is not left. What remains
is a reply without room. `OneEach`, the other half of the invariant, says that a client
has at most one question or reply in the socket; so the reply that fills it is another
client's, the server only stops between two clients that wait (`Fail` of
`LeaseService`), and for one client alone, as at the other end of a USB cable, it never
panics (`OneClientNeverPanics`). Each hypothesis is needed: see the disagreements below.

**`Statistics_proofs`** proves `TypeOK`, `NeverStale` and the action property
`CountsASecond`, for any width, interval, lag and either build. The invariant orders
the three readings of the clock (`lastlooptime`, `looptime`, `TICKS`) while the clock
has not wrapped and bounds the distance of each from the next; the one between the
two stored readings depends on `pc`, since only the end of an iteration compares
them. That the counter and the number of iterations begun differ by exactly what
`pc` says, modulo the word, is its other half. Across the wrap only the second half
survives, which is why `CountsASecond` still promises the count there.

**`WebServer_proofs`** proves `TypeOK`, `ReplyIntact`, `OwnReplies`, `ColourShown` and
`NoPanic`, for any requests, cuts, sizes of the page and the buffers. The first needs no
hypothesis. The next three hold for clients that are `Patient`, that is, close and ask
again only when they have read their answer (they may vanish at any point of a
connection); `web_hangup` shows what happens otherwise, and the run `web` leaves out
`OwnReplies`, which `ReplyIntact` implies for such clients. `NoPanic` holds for `WellFormed` requests: patient, GET or POST only, not cut
within the request line nor before the body (`web_split`), and a heap that holds one
request; see also the methods below. The invariant says, for each stage of an exchange, where the
request and the reply are: what the parser holds, the socket's two buffers and the
client's make up one request or one reply, never parts of two.

Only model-checked: everything with fairness (`Resynchronises`, `ControlServed`,
`Answered`, `ListensAgain`, and the liveness of `ImplementsChannel`, `DeliversTo*`,
`ImplementsService` and `LinkAnnounced`), since the prover has no rules for liveness
here. Every invariant and every action property of a passing run has a theorem, with
the hypotheses above where it needs one.

## Disagreements between the code and what it says

Five have a run (`tx_zlp`, `rx_mtu`, `usb_ntbsize`, `web_hangup`, `web_split`), see
the table. Others were met while modelling; a changed constant or property reproduces
those in the model:

* A transfer that is abandoned between the header and the pointer table leaves the
  receiver to fill the block with bytes of later ones, and `process_ndp` unwraps the
  error that its own conversion reports for what then lies at `ndpindex`
  (`ncm_api.rs:224`). `rx` with `HostBlocks <- LateTable` violates `NoPanic`;
  `PanicsOnlyTorn` says that nothing else panics.
* A block that fits in one packet is not completed by its header packet; the
  receiver takes the rest from the next block. `rx` with
  `HostBlocks <- OnePacket` and `MaxTears = 0` violates `BackInStep`.
* Two DHCP clients that both wait for their replies panic the server, if the second
  asks before the reply to the first has left the socket (`server.rs:221`): the
  transmit buffer has two slots, but bytes for one reply. `dhcp` violates `NoPanic`. One
  client does the same if it asks again too early: a single client in `Macs`, with
  `Pipelining = TRUE`.
* A block of at most 64 bytes (a frame of 36 or less) is cut after its headers, into a
  packet of 28 bytes and the rest (`ncm_api.rs:277`). A short packet ends a USB
  transfer, so such a block arrives in two. smoltcp emits no frame that short.
* A client that vanishes while it is connected, or before it acknowledged the server's
  FIN, keeps the only socket for good: it has no timeout. `web` with
  `ListensAgain` without `gone` is violated.
* The replies announce `Connection: close` (`http.rs:61`), but the server never
  closes first: a client that waits for it keeps the only socket.
* Bytes that begin with neither GET nor POST stay in `rxbytes` for good: `web`
  with `Requests <- WithHead`, a larger `HEAP_CAP` and no check for deadlock (the
  heap runs out in the end) violates `Answered`.
* After a bus reset the boot notifications are not sent again. `usb` with the
  condition `resets = 0` removed violates `LinkAnnounced`.
* GET_NTB_INPUT_SIZE copies two bytes into three (`cdc_ncm.rs:359`): `usb_ntbsize`
  with that request panics as well. GET_INTERFACE reports alternate setting 1 from
  the start, and setting 0, the default of the class, is refused.
* A message whose first option is unknown or longer than four bytes panics the
  DHCP server: `dhcp` with `"Other"` in `FirstOptions` violates `OnlyFullPanics`.
* The millisecond counter wraps after 49.7 days: a dev build panics (`stats` with
  `OverflowChecks = TRUE` ends in that state), a release build publishes nothing more.
* `maxaddr` is never compared. `dhcp` with one address fewer (`addrstart = 6`)
  violates `OnlyFullPanics`. A release build wraps instead: .0 and the server's own .1
  are handed out, and from the 257th lease on addresses are shared.
* Not in the model: the lease time option is written in little-endian order
  (`dhcp.rs:261`).

## What is abstracted or left out

* Payloads. A payload is not looked at, so one that happens to start a packet with
  the signature `NCMH` in a transfer whose header was lost is not modelled:
  `StartsBlock` holds of first packets only.
* Field layout of NTH, NDP, notifications, DHCP messages and HTTP headers; DHCP
  messages cut short; non-UTF-8 and pipelined requests; content of the pages.
* A block has one datagram, as the descriptor advertises
  (`ntb_out_max_datagrams = 1`).
* Constants of a build: dev builds check overflow, release builds wrap; this is
  `OverflowChecks` in `Dhcp` and `Statistics`. In `NcmRx` the checked subtraction panics; the
  theorem that it never does covers both builds.
* smoltcp, the USB device library, the endpoints and the host are external,
  modelled from how the code uses them.
* Not modelled: LED and ADC registers and the arithmetic on their values, start-up,
  descriptors, the JavaScript of the page. No state of the program depends on them;
  `PROJECT.json` gives the reasons.

## Plan

Order of work: the data path first, because everything else rides on it.

1. Done: `FrameChannel`, `NcmTx` with proofs, `NcmRx` with proofs, `UsbIp`,
   `Firmware`, `Dhcp` with proofs, `WebServer`, with their runs.
2. Done: control requests in `UsbIp`; faults in the channel specification and the
   runs of `rx` and `firmware`; `Statistics` with proofs; the LED, the end of
   connections and vanishing clients in `WebServer`; the first option in `Dhcp`, and
   `LeaseService`; the proofs of `UsbIp`, of `Firmware` over those of its parts, and
   of `Dhcp` against `LeaseService`.
3. Done: the proofs of `WebServer`; the step parts of the channels of `NcmTx`,
   `NcmRx` and `Firmware`; `NothingLost` of `NcmRx` and `Firmware`; the refinement of `UsbIp`
   by the loop; which blocks are delimited.
4. Done: what an abandoned transfer and two DHCP clients at once really do
   (`PanicsOnlyTorn`, `BackInStep`, `OnlyFullPanics`), clients
   that vanish at the end of a connection.
5. Next: the closure that `Resynchronises` rests on, as an action property; clients of
   the DHCP server and of the web server over the frames of `Firmware`.
