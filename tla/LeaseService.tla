---------------------------- MODULE LeaseService ----------------------------
(***************************************************************************)
(* What the DHCP server promises its clients: who asks is told an address, *)
(* every client one address and always the same, and no two clients the    *)
(* same.  It may go down, but only between two clients that wait.          *)
(* Abstract: no messages, no buffers, no counter.                          *)
(***************************************************************************)
CONSTANTS Clients, Addresses,
          None           \* no address

VARIABLES lease,   \* address of each client, or None
          waiting, \* clients that asked and were not told yet
          told,    \* what each client was ever told
          down     \* the server has stopped

vars == <<lease, waiting, told, down>>

Init == /\ lease = [c \in Clients |-> None]
        /\ waiting = {}
        /\ told = [c \in Clients |-> {}]
        /\ down = FALSE

Ask(c) == /\ ~down
          /\ waiting' = waiting \cup {c}
          /\ UNCHANGED <<lease, told, down>>

\* An address nobody has, for as long as the server runs.
Leased(c, a) == /\ lease[c] = None
                /\ \A d \in Clients : lease[d] # a
                /\ lease' = [lease EXCEPT ![c] = a]

Grant(c, a) ==
    /\ ~down
    /\ c \in waiting
    /\ Leased(c, a)
    /\ UNCHANGED <<waiting, told, down>>

\* The client hears of its lease; it may have asked again meanwhile.
Tell(c) ==
    /\ ~down
    /\ c \in waiting /\ lease[c] # None
    /\ told' = [told EXCEPT ![c] = @ \cup {lease[c]}]
    /\ waiting' \in {waiting, waiting \ {c}}
    /\ UNCHANGED <<lease, down>>

\* The server stops at the question of one client, with the lease perhaps already
\* made, while another still waits.
Fail(c) ==
    /\ ~down
    /\ c \in waiting /\ waiting # {c}
    /\ down' = TRUE
    /\ waiting' \in {waiting, waiting \ {c}}
    /\ UNCHANGED lease \/ \E a \in Addresses : Leased(c, a)
    /\ UNCHANGED told

Next == \E c \in Clients : \/ Ask(c) \/ Tell(c) \/ Fail(c)
                           \/ \E a \in Addresses : Grant(c, a)

Spec == Init /\ [][Next]_vars

\* Nobody waits for ever, as long as the server runs.
FairSpec == Spec /\ \A c \in Clients : []<>(down \/ c \notin waiting)
=============================================================================
