----------------------------- MODULE WebServer -----------------------------
(***************************************************************************)
(* run_webserver (server.rs) with its parser and callbacks (http.rs,       *)
(* server.rs), over the one TCP socket of the device.  Each call listens   *)
(* again, answers a close, moves on the reply it is sending and parses     *)
(* what has been received so far.  The loop calls it between the poll of   *)
(* the IP stack, in which the socket changes, and the update of the LED.   *)
(*                                                                         *)
(* A request is a sequence of parts: the method, the rest of the request   *)
(* line, the fields, the empty line that ends them and, for a POST, the    *)
(* body.  A reply is a sequence of chunks, each tagged with the request it *)
(* answers and the connection that request began on.  smoltcp's socket and *)
(* the client are external: TCP may cut the stream between any two parts.  *)
(***************************************************************************)
EXTENDS Naturals, Sequences

CONSTANTS Requests,     \* [method, path, colour]
          PageChunks,   \* size of a page, in chunks
          SOCK_RX_CAP,  \* parts the socket's receive buffer holds
          SOCK_TX_CAP,  \* chunks the socket's transmit buffer holds
          HEAP_CAP,     \* parts of requests the heap has room for
          SegmentEnds,  \* parts a segment may end with
          Conns,        \* 0 .. Conns - 1 tells connections apart
          Patient       \* clients wait for the whole reply before they go on

Methods == {"GET", "POST", "HEAD"}
Paths   == {"/", "/stats", "/rgb", "/other"}
Parts   == {"method", "path", "fields", "end", "body"}

ASSUME WebServerAssumption ==
    /\ \A r \in Requests : r.method \in Methods /\ r.path \in Paths /\ r.colour \in 0 .. 255
    /\ PageChunks \in Nat \ {0} /\ SOCK_RX_CAP \in Nat \ {0} /\ SOCK_TX_CAP \in Nat \ {0}
    /\ HEAP_CAP \in Nat
    /\ SegmentEnds \subseteq Parts
    /\ Conns \in Nat \ {0}
    /\ Patient \in BOOLEAN

VARIABLES sock,       \* state of the TCP socket
          sockrx, socktx,
          rxbytes, msgtosend,
          rgb,        \* RGB, the colour last set
          duty,       \* of the LED's timer channel
          pc,         \* "poll" (and run_webserver after it) or "led"
          panicked,
          conn,       \* number of the connection
          request,    \* the request the client is waiting for, at most one
          unsent,     \* its parts not handed to TCP yet
          got,        \* chunks the client has read since it asked
          gone        \* the client has vanished without closing

devvars    == <<rxbytes, msgtosend, rgb, duty, pc, panicked>>
clientvars == <<conn, request, unsent, got, gone>>
vars       == <<sock, sockrx, socktx, devvars, clientvars>>

\* The parts of a request made on connection c.
PartsOf(c, r) ==
    LET kinds == <<"method", "path", "fields", "end">>
                 \o (IF r.method = "POST" THEN <<"body">> ELSE <<>>) IN
    [i \in 1 .. Len(kinds) |-> [conn |-> c, req |-> r, kind |-> kinds[i]]]

Part  == [conn : 0 .. Conns - 1, req : Requests, kind : Parts]
Chunk == [conn : 0 .. Conns - 1, req : Requests, no : 1 .. PageChunks]

\* gen_http_header and the data, or HTTP_404_RESPONSE.
ReplyLen(r)  == IF r.method = "GET" /\ r.path = "/" THEN PageChunks ELSE 1
Reply(c, r)  == [i \in 1 .. ReplyLen(r) |-> [conn |-> c, req |-> r, no |-> i]]

MinOf(a, b) == IF a < b THEN a ELSE b

\* A colour is one of its components.
U8MAX == 255

Init ==
    /\ sock = "Closed"
    /\ sockrx = <<>> /\ socktx = <<>>
    /\ rxbytes = <<>> /\ msgtosend = <<>>
    /\ rgb = 0 /\ duty = U8MAX
    /\ pc = "poll"
    /\ panicked = FALSE
    /\ conn = 0
    /\ request = <<>> /\ unsent = <<>> /\ got = <<>>
    /\ gone = FALSE

-----------------------------------------------------------------------------
(* parse_request and the callbacks, on the bytes received so far.          *)

\* SUPPORTED_METHODS.  Mutant: without POST.
SupportedGet(buf) == buf[1].kind = "method" /\ buf[1].req.method = "GET"
Supported(buf) == buf[1].kind = "method" /\ buf[1].req.method \in {"GET", "POST"}

Ends(buf) == {i \in 1 .. Len(buf) : buf[i].kind = "end"}
FirstEnd(buf) == CHOOSE i \in Ends(buf) : \A j \in Ends(buf) : i <= j

IsPost(buf) == buf[1].req.method = "POST"
SetsColour(buf) == IsPost(buf) /\ buf[1].req.path = "/rgb"

\* request.body[1..7] are hexadecimal digits.  Mutant: off by one.
HasColourOffByOne(buf) == FirstEnd(buf) + 1 < Len(buf)
HasColour(buf) == /\ FirstEnd(buf) < Len(buf)
                  /\ buf[FirstEnd(buf) + 1].kind = "body"

\* The heap is exhausted, the request line ends after the method
\* (nth(1).unwrap()), or the body of a colour is not there to be sliced.
ParsePanics(buf) ==
    \/ Len(buf) > HEAP_CAP
    \/ /\ Supported(buf)
       /\ \/ Len(buf) = 1
          \/ Ends(buf) # {} /\ SetsColour(buf) /\ ~HasColour(buf)

\* Err(Unsupported), or Err(ParseError) before the empty line: keep the bytes.
Unfinished(buf) == ~Supported(buf) \/ (Len(buf) > 1 /\ Ends(buf) = {})

\* self.rxbytes.clear().  Mutant: it is missing.
LeftoverAll(buf) == buf
Leftover(buf)    == <<>>

\* One recv_slice and what the parser makes of all bytes since the last request.
Receive(buf) ==
    \/ /\ ParsePanics(buf)
       /\ panicked' = TRUE /\ rxbytes' = buf /\ msgtosend' = <<>>
       /\ UNCHANGED rgb
    \/ /\ ~ParsePanics(buf) /\ Unfinished(buf)
       /\ rxbytes' = buf /\ msgtosend' = <<>>
       /\ UNCHANGED <<rgb, panicked>>
    \/ /\ ~ParsePanics(buf) /\ ~Unfinished(buf)
       /\ rxbytes' = Leftover(buf)
       /\ msgtosend' = Reply(buf[1].conn, buf[1].req)
       /\ rgb' = IF SetsColour(buf) THEN buf[FirstEnd(buf) + 1].req.colour ELSE rgb
       /\ UNCHANGED panicked

\* What is left of msgtosend after send_slice took what fits.  Mutants: the
\* buffer has no limit; whatever send_slice returns, all of it was sent.
SentAll     == IF sock = "Established" THEN Len(msgtosend) ELSE 0
RestDropped == <<>>
Sent  == IF sock = "Established" THEN MinOf(Len(msgtosend), SOCK_TX_CAP - Len(socktx)) ELSE 0
Rest  == SubSeq(msgtosend, Sent + 1, Len(msgtosend))

\* listen(80) on a closed socket, close() of one the client has closed.  Mutant:
\* it is not answered.
ServicedHalf(s) == IF s = "Closed" THEN "Listen" ELSE s
Serviced(s) == CASE s = "Closed" -> "Listen" [] s = "CloseWait" -> "LastAck" [] OTHER -> s

\* listen() empties the buffers of the socket, and nothing of the server.
RunWebserver ==
    /\ ~panicked
    /\ pc = "poll"
    /\ pc' = "led"
    /\ sock' = Serviced(sock)
    /\ socktx' = IF sock = "Closed" THEN <<>> ELSE socktx \o SubSeq(msgtosend, 1, Sent)
    /\ sockrx' = IF sock = "Closed" \/ Rest = <<>> THEN <<>> ELSE sockrx
    /\ IF sock # "Closed" /\ sockrx # <<>> /\ Rest = <<>>
         THEN Receive(rxbytes \o sockrx)
         ELSE msgtosend' = Rest /\ UNCHANGED <<rxbytes, rgb, panicked>>
    /\ UNCHANGED <<duty, clientvars>>

\* handle_incoming_rgb_requests: the LED is dark at full duty.
HandleRgb ==
    /\ ~panicked
    /\ pc = "led"
    /\ pc' = "poll"
    /\ duty' = U8MAX - rgb
    /\ UNCHANGED <<sock, sockrx, socktx, rxbytes, msgtosend, rgb, panicked, clientvars>>

-----------------------------------------------------------------------------
(* iface.poll: the socket and the client at its other end.                 *)

Polls == ~panicked /\ pc = "poll" /\ ~gone /\ UNCHANGED devvars

ClientConnects ==
    /\ Polls
    /\ sock = "Listen"
    /\ sock' = "Established"
    /\ conn' = (conn + 1) % Conns
    /\ request' = <<>> /\ unsent' = <<>> /\ got' = <<>>
    /\ UNCHANGED <<sockrx, socktx, gone>>

ClientAsks ==
    /\ Polls
    /\ sock = "Established"
    /\ request = <<>>
    /\ \E r \in Requests : request' = <<r>> /\ unsent' = PartsOf(conn, r)
    /\ UNCHANGED <<sock, sockrx, socktx, conn, got, gone>>

\* A segment of n parts arrives.
ClientSends ==
    /\ Polls
    /\ sock = "Established"
    /\ \E n \in 1 .. MinOf(Len(unsent), SOCK_RX_CAP - Len(sockrx)) :
         /\ unsent[n].kind \in SegmentEnds \/ n = Len(unsent)
         /\ sockrx' = sockrx \o SubSeq(unsent, 1, n)
         /\ unsent' = SubSeq(unsent, n + 1, Len(unsent))
    /\ UNCHANGED <<sock, socktx, conn, request, got, gone>>

\* The client reads a chunk, and is done with the last one of the reply.
ClientReads ==
    /\ Polls
    /\ socktx # <<>>
    /\ socktx' = Tail(socktx)
    /\ IF request # <<>> /\ Len(got) + 1 = ReplyLen(request[1])
         THEN got' = <<>> /\ request' = <<>> /\ unsent' = <<>>
         ELSE got' = Append(got, Head(socktx)) /\ UNCHANGED <<request, unsent>>
    /\ UNCHANGED <<sock, sockrx, conn, gone>>

\* A patient client only gives up on a method the server does not know.
Waits    == request # <<>> /\ request[1].method \in {"GET", "POST"}
MayLeave == ~(Patient /\ Waits)

\* FIN, perhaps with a request under way.
ClientCloses ==
    /\ Polls
    /\ sock = "Established"
    /\ MayLeave
    /\ sock' = "CloseWait"
    /\ UNCHANGED <<sockrx, socktx, clientvars>>

\* Everything the server sent, and its FIN, is acknowledged.
ClosesDown ==
    /\ Polls
    /\ sock = "LastAck" /\ socktx = <<>>
    /\ sock' = "Closed"
    /\ UNCHANGED <<sockrx, socktx, clientvars>>

\* RST
ClientResets ==
    /\ Polls
    /\ sock = "Established"
    /\ MayLeave
    /\ sock' = "Closed"
    /\ UNCHANGED <<sockrx, socktx, clientvars>>

\* The client is unplugged, before or after its FIN, and the server is not told:
\* the socket has no timeout and no keep-alive.
ClientVanishes ==
    /\ Polls
    /\ sock \in {"Established", "CloseWait", "LastAck"}
    /\ gone' = TRUE
    /\ UNCHANGED <<sock, sockrx, socktx, conn, request, unsent, got>>

Next == \/ RunWebserver \/ HandleRgb
        \/ ClientConnects \/ ClientAsks \/ ClientSends \/ ClientReads
        \/ ClientCloses \/ ClosesDown \/ ClientResets \/ ClientVanishes

Spec == Init /\ [][Next]_vars

\* The main loop never stops.  TCP delivers what was sent, while a client is
\* there to take part in it: strong, since the socket changes only in the poll.
Fairness == /\ WF_vars(RunWebserver \/ HandleRgb)
            /\ SF_vars(ClientSends) /\ SF_vars(ClientReads) /\ SF_vars(ClosesDown)
FairSpec == Spec /\ Fairness

-----------------------------------------------------------------------------
(* Properties.                                                             *)

\* Every variable stays in its type.
TypeOK ==
    /\ sock \in {"Closed", "Listen", "Established", "CloseWait", "LastAck"}
    /\ sockrx \in Seq(Part) /\ Len(sockrx) <= SOCK_RX_CAP
    /\ socktx \in Seq(Chunk) /\ Len(socktx) <= SOCK_TX_CAP
    /\ rxbytes \in Seq(Part) /\ msgtosend \in Seq(Chunk)
    /\ rgb \in 0 .. U8MAX /\ duty \in 0 .. U8MAX
    /\ pc \in {"poll", "led"}
    /\ panicked \in BOOLEAN /\ gone \in BOOLEAN
    /\ conn \in 0 .. Conns - 1
    /\ request \in Seq(Requests) /\ Len(request) <= 1
    /\ unsent \in Seq(Part) /\ got \in Seq(Chunk)

\* However the request and the reply were cut up, what the client read, what
\* TCP holds and what the server still has to send are together the reply to
\* the client's own request, or nothing yet.
ReplyIntact ==
    LET stream == got \o socktx \o msgtosend IN
    \/ stream = <<>>
    \/ request # <<>> /\ stream = Reply(conn, request[1])

\* "if socket was closed, reset the write pointer": a connection only carries
\* replies to requests made on it.
OwnReplies == \A i \in 1 .. Len(socktx) : socktx[i].conn = conn

\* The answer to a colour leaves only after the LED shows that colour, although
\* the request is answered before the loop gets to the LED.
ColourShown ==
    socktx # <<>> /\ request # <<>> /\ request[1].method = "POST" /\ request[1].path = "/rgb"
        => U8MAX - duty = request[1].colour

\* A request that is cut where SegmentEnds allows does not panic the firmware.
NoPanic == ~panicked

\* Every request of a kind the server supports is answered in full, to a client
\* that is still there.
Answered == Waits ~> (request = <<>> \/ gone)

\* Whatever a client leaves behind when it closes or resets its connection, the
\* only socket listens again, unless the client is gone before it acknowledged the
\* server's FIN: then the socket is its own for good.
ListensAgain == sock \in {"CloseWait", "LastAck", "Closed"} ~> (sock = "Listen" \/ gone)
=============================================================================
