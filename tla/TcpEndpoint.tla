---------------------------- MODULE TcpEndpoint ----------------------------
(***************************************************************************)
(* BTL tcp: the endpoint that each of two processes keeps for the other,   *)
(* the handshake when either or both of them connect, and the fragments    *)
(* queued behind it (openmpi-1.4.2/ompi/mca/btl/tcp).  One action per      *)
(* event callback: the default build runs them one at a time, from the     *)
(* progress loop.  A fragment is its number among those its sender sends.  *)
(* Establishing, refusing and breaking a connection belong to the kernels. *)
(***************************************************************************)
EXTENDS Naturals, Sequences

CONSTANTS
    Proc,           \* the two processes
    Lower,          \* the one whose name compares lower
    MaxFrags,       \* bound: fragments each process sends
    MaxFailures,    \* bound: connects that fail
    MaxBreaks       \* bound: established connections that break

ASSUME ProcAssumption ==
    \E p, q \in Proc : p # q /\ Proc = {p, q} /\ Lower = p
ASSUME BoundAssumption ==
    /\ MaxFrags \in Nat \ {0}
    /\ MaxFailures \in Nat
    /\ MaxBreaks \in Nat

VARIABLES
    endpoint,   \* struct mca_btl_base_endpoint_t of each process
    conn,       \* the connections, by the process that started them
    sent,       \* fragments handed to mca_btl_tcp_endpoint_send()
    delivered,  \* fragments passed up by the receive handler, in order
    failures,   \* connects that failed so far
    breaks      \* connections that broke so far

vars == <<endpoint, conn, sent, delivered, failures, breaks>>

Peer(p) == CHOOSE q \in Proc : q # p

NoFrag == 0                                     \* NULL
Frag == 1..MaxFrags
Guid == MaxFrags + 1                            \* orte_process_name_t on the wire
Conn == Proc \X (1..MaxFrags + 1)               \* sockets that are in use
NoSd == <<>>                                    \* endpoint_sd < 0

\* A socket that is not in use.
Idle == [st |-> "free",
         open |-> [p \in Proc |-> FALSE],
         inbox |-> [p \in Proc |-> <<>>]]

TypeOK ==
    /\ endpoint \in [Proc ->
         [state : {"CLOSED", "CONNECTING", "CONNECT_ACK", "CONNECTED"},
          sd : Conn \cup {NoSd},
          frags : Seq(Frag), send_frag : Frag \cup {NoFrag},
          send_event : BOOLEAN]]
    /\ conn \in [Conn ->
         [st : {"free", "connecting", "refused", "backlog", "accepted", "broken"},
          open : [Proc -> BOOLEAN], inbox : [Proc -> Seq(Frag \cup {Guid})]]]
    /\ sent \in [Proc -> 0..MaxFrags]
    /\ delivered \in [Proc -> Seq(Frag)]
    /\ failures \in 0..MaxFailures
    /\ breaks \in 0..MaxBreaks

Init ==
    /\ endpoint = [p \in Proc |->
         [state |-> "CLOSED", sd |-> NoSd, frags |-> <<>>,
          send_frag |-> NoFrag, send_event |-> FALSE]]
    /\ conn = [c \in Conn |-> Idle]
    /\ sent = [p \in Proc |-> 0]
    /\ delivered = [p \in Proc |-> <<>>]
    /\ failures = 0
    /\ breaks = 0

----------------------------------------------------------------------------
(* Sockets *)

\* The table of connections after p closes its end of c: a socket closed at
\* both ends, or before it was established, is free again.
Shut(cn, p, c) ==
    IF c = NoSd THEN cn
    ELSE LET other == cn[c].open[Peer(p)]
         IN  [cn EXCEPT ![c] = IF other THEN [@ EXCEPT !.open[p] = FALSE,
                                                       !.inbox[p] = <<>>]
                               ELSE Idle]

\* ... and after p writes m on c: nobody reads what is sent to a closed end.
Write(cn, p, c, m) ==
    IF cn[c].open[Peer(p)]
    THEN [cn EXCEPT ![c].inbox[Peer(p)] = Append(@, m)]
    ELSE cn

Read(cn, p, c) == [cn EXCEPT ![c].inbox[p] = Tail(@)]

\* send() and writev() on c succeed: the connection has not been reset.
Writable(c) == conn[c].st # "broken"

HasData(p, c) == conn[c].inbox[p] # <<>>

\* read() on c returns 0 or an error.
AtEnd(p, c) ==
    /\ ~HasData(p, c)
    /\ \/ conn[c].st = "broken"
       \/ conn[c].st = "accepted" /\ ~conn[c].open[Peer(p)]

----------------------------------------------------------------------------
(* What the functions that handlers share do to an endpoint e *)

\* Mutation of Close: the fragments queued are dropped.
CloseFlushing(e) ==
    IF e.sd = NoSd THEN e
    ELSE [e EXCEPT !.state = "CLOSED", !.sd = NoSd, !.send_event = FALSE,
                   !.frags = <<>>]

\* mca_btl_tcp_endpoint_close(): the fragments stay queued.
Close(e) ==
    IF e.sd = NoSd THEN e
    ELSE [e EXCEPT !.state = "CLOSED", !.sd = NoSd, !.send_event = FALSE]

\* Mutation of Connected: the send event is set and not added.
ConnectedWithoutEvent(e) ==
    LET f == [e EXCEPT !.state = "CONNECTED", !.send_event = FALSE]
    IN  IF f.frags = <<>> \/ f.send_frag # NoFrag THEN f
        ELSE [f EXCEPT !.send_frag = Head(f.frags), !.frags = Tail(f.frags)]

\* mca_btl_tcp_endpoint_connected(): the send event is set anew, and added
\* when there are fragments in the list.
Connected(e) ==
    LET f == [e EXCEPT !.state = "CONNECTED", !.send_event = FALSE]
    IN  IF f.frags = <<>> THEN f
        ELSE IF f.send_frag # NoFrag THEN [f EXCEPT !.send_event = TRUE]
        ELSE [f EXCEPT !.send_frag = Head(f.frags), !.frags = Tail(f.frags),
                       !.send_event = TRUE]

Queued(e, n) == [e EXCEPT !.frags = Append(@, n)]

\* A socket for p, which connects once for each fragment sent at most.
FreeSocket(p) ==
    LET k == CHOOSE k \in 1..sent[p] + 1 : conn[<<p, k>>] = Idle
    IN  <<p, k>>

\* p closes its socket.
CloseEndpoint(p) ==
    /\ endpoint' = [endpoint EXCEPT ![p] = Close(@)]
    /\ conn' = Shut(conn, p, endpoint[p].sd)

\* mca_btl_tcp_endpoint_start_connect() on e, the endpoint of p with a
\* fragment just queued: the connect is under way, completes at once and the
\* name of the process is sent, or fails (as socket() may).
StartConnect(p, e) ==
    LET c == FreeSocket(p)
        new == [Idle EXCEPT !.open[p] = TRUE]
    IN  \/ /\ endpoint' = [endpoint EXCEPT ![p] =
                [e EXCEPT !.state = "CONNECTING", !.sd = c, !.send_event = TRUE]]
           /\ conn' = [conn EXCEPT ![c] = [new EXCEPT !.st = "connecting"]]
           /\ UNCHANGED failures
        \/ /\ endpoint' = [endpoint EXCEPT ![p] =
                [e EXCEPT !.state = "CONNECT_ACK", !.sd = c, !.send_event = FALSE]]
           /\ conn' = [conn EXCEPT ![c] =
                [new EXCEPT !.st = "backlog", !.open[Peer(p)] = TRUE,
                            !.inbox[Peer(p)] = <<Guid>>]]
           /\ UNCHANGED failures
        \/ /\ failures < MaxFailures
           /\ failures' = failures + 1
           /\ \E event \in {e.send_event, FALSE} :
                endpoint' = [endpoint EXCEPT ![p] = [e EXCEPT !.send_event = event]]
           /\ UNCHANGED conn

----------------------------------------------------------------------------
(* mca_btl_tcp_endpoint_send() *)

SendClosed(p, n) ==
    /\ endpoint[p].state = "CLOSED"
    /\ StartConnect(p, Queued(endpoint[p], n))

SendConnecting(p, n) ==
    /\ endpoint[p].state \in {"CONNECTING", "CONNECT_ACK"}
    /\ endpoint' = [endpoint EXCEPT ![p] = Queued(@, n)]
    /\ UNCHANGED <<conn, failures>>

\* Mutation of SendNow: a fragment with priority does not look at the queue.
SendNowOvertaking(p, n) ==
    LET c == endpoint[p].sd
    IN  /\ endpoint[p].state = "CONNECTED"
        /\ Writable(c)
        /\ conn' = Write(conn, p, c, n)
        /\ UNCHANGED <<endpoint, failures>>

\* The queue is empty and the fragment has priority: it is written at once.
SendNow(p, n) ==
    LET c == endpoint[p].sd
    IN  /\ endpoint[p].state = "CONNECTED"
        /\ endpoint[p].send_frag = NoFrag
        /\ Writable(c)
        /\ conn' = Write(conn, p, c, n)
        /\ UNCHANGED <<endpoint, failures>>

\* The queue is empty, and the fragment has no priority or the socket no room.
SendFirst(p, n) ==
    /\ endpoint[p].state = "CONNECTED"
    /\ endpoint[p].send_frag = NoFrag
    /\ endpoint' = [endpoint EXCEPT ![p].send_frag = n, ![p].send_event = TRUE]
    /\ UNCHANGED <<conn, failures>>

\* The write of a fragment with priority finds the connection broken, closes
\* the socket, and the fragment becomes the current one all the same.
SendBroken(p, n) ==
    LET c == endpoint[p].sd
    IN  /\ endpoint[p].state = "CONNECTED"
        /\ endpoint[p].send_frag = NoFrag
        /\ ~Writable(c)
        /\ endpoint' = [endpoint EXCEPT ![p] =
             [Close(@) EXCEPT !.send_frag = n, !.send_event = TRUE]]
        /\ conn' = Shut(conn, p, c)
        /\ UNCHANGED failures

SendBehind(p, n) ==
    /\ endpoint[p].state = "CONNECTED"
    /\ endpoint[p].send_frag # NoFrag
    /\ endpoint' = [endpoint EXCEPT ![p] = Queued(@, n)]
    /\ UNCHANGED <<conn, failures>>

Send(p) ==
    LET n == sent[p] + 1
    IN  /\ n \in Frag
        /\ sent' = [sent EXCEPT ![p] = n]
        /\ \/ SendClosed(p, n) \/ SendConnecting(p, n)
           \/ SendNow(p, n) \/ SendFirst(p, n) \/ SendBroken(p, n)
           \/ SendBehind(p, n)
        /\ UNCHANGED <<delivered, breaks>>

----------------------------------------------------------------------------
(* mca_btl_tcp_endpoint_send_handler() *)

\* complete_connect(): the handler runs once the connect has an outcome.
CompleteConnect(p) ==
    LET c == endpoint[p].sd
    IN  /\ endpoint[p].state = "CONNECTING"
        /\ conn[c].st # "connecting"
        /\ IF conn[c].st \in {"refused", "broken"} THEN CloseEndpoint(p)
           ELSE /\ endpoint' = [endpoint EXCEPT ![p].state = "CONNECT_ACK",
                                                ![p].send_event = FALSE]
                /\ conn' = Write(conn, p, c, Guid)

\* One fragment is written; the event is deleted after the last one.  The
\* loop may stop after any of them, when the socket has no room.
SendCurrent(p) ==
    LET e == endpoint[p]
    IN  /\ e.state = "CONNECTED"
        /\ e.send_frag # NoFrag
        /\ IF ~Writable(e.sd) THEN CloseEndpoint(p)
           ELSE /\ endpoint' = [endpoint EXCEPT ![p] =
                     IF e.frags = <<>>
                     THEN [@ EXCEPT !.send_frag = NoFrag, !.send_event = FALSE]
                     ELSE [@ EXCEPT !.send_frag = Head(e.frags),
                                    !.frags = Tail(e.frags)]]
                /\ conn' = Write(conn, p, e.sd, e.send_frag)

\* The event was added to a socket already closed.
SendInvalid(p) ==
    /\ endpoint[p].state = "CLOSED"
    /\ endpoint' = [endpoint EXCEPT ![p].send_event = FALSE]
    /\ UNCHANGED conn

SendHandler(p) ==
    /\ endpoint[p].send_event
    /\ CompleteConnect(p) \/ SendCurrent(p) \/ SendInvalid(p)
    /\ UNCHANGED <<sent, delivered, failures, breaks>>

----------------------------------------------------------------------------
(* mca_btl_tcp_endpoint_recv_handler() *)

\* recv_connect_ack(): the peer sent its name, or closed or lost the socket.
RecvConnectAck(p) ==
    LET c == endpoint[p].sd
    IN  /\ endpoint[p].state = "CONNECT_ACK"
        /\ \/ /\ HasData(p, c)
              /\ endpoint' = [endpoint EXCEPT ![p] = Connected(@)]
              /\ conn' = Read(conn, p, c)
           \/ AtEnd(p, c) /\ CloseEndpoint(p)
        /\ UNCHANGED delivered

RecvFrag(p) ==
    LET c == endpoint[p].sd
    IN  /\ endpoint[p].state = "CONNECTED"
        /\ \/ /\ HasData(p, c)
              /\ delivered' = [delivered EXCEPT ![p] = Append(@, Head(conn[c].inbox[p]))]
              /\ conn' = Read(conn, p, c)
              /\ UNCHANGED endpoint
           \/ AtEnd(p, c) /\ CloseEndpoint(p) /\ UNCHANGED delivered

RecvHandler(p) ==
    /\ RecvConnectAck(p) \/ RecvFrag(p)
    /\ UNCHANGED <<sent, failures, breaks>>

----------------------------------------------------------------------------
(* The component: connections that come in *)

\* mca_btl_tcp_component_accept_handler()
AcceptHandler(p) ==
    /\ \E c \in Conn :
         /\ conn[c].st = "backlog" /\ c[1] = Peer(p)
         /\ conn' = [conn EXCEPT ![c].st = "accepted"]
    /\ UNCHANGED <<endpoint, sent, delivered, failures, breaks>>

\* Mutations of Accepts: names are not compared; an endpoint with a socket
\* keeps it.
AcceptsUnlessConnected(p) ==
    endpoint[p].sd = NoSd \/ endpoint[p].state # "CONNECTED"
AcceptsWithoutSocket(p) == endpoint[p].sd = NoSd

\* The condition of mca_btl_tcp_endpoint_accept().
Accepts(p) ==
    \/ endpoint[p].sd = NoSd
    \/ endpoint[p].state # "CONNECTED" /\ Peer(p) = Lower

\* Mutation of Accept: the name of the process is left in the socket.
AcceptUnread(p, c) ==
    LET e == Close(endpoint[p])
        cn == Shut(conn, p, endpoint[p].sd)
    IN  IF Writable(c)
        THEN /\ endpoint' = [endpoint EXCEPT ![p] = Connected([e EXCEPT !.sd = c])]
             /\ conn' = Write(cn, p, c, Guid)
        ELSE /\ endpoint' = [endpoint EXCEPT ![p] = Close([e EXCEPT !.sd = c])]
             /\ conn' = Shut(cn, p, c)

\* c replaces the socket of p, which sends its name on it and is connected;
\* when the name cannot be sent p has no socket.
Accept(p, c) ==
    LET e == Close(endpoint[p])
        cn == Shut(Read(conn, p, c), p, endpoint[p].sd)
    IN  IF Writable(c)
        THEN /\ endpoint' = [endpoint EXCEPT ![p] = Connected([e EXCEPT !.sd = c])]
             /\ conn' = Write(cn, p, c, Guid)
        ELSE /\ endpoint' = [endpoint EXCEPT ![p] = Close([e EXCEPT !.sd = c])]
             /\ conn' = Shut(cn, p, c)

\* mca_btl_tcp_component_recv_handler(): the name of the process that
\* connected is there, or the connection is over before it came.
ComponentRecvHandler(p) ==
    /\ \E c \in Conn :
         /\ c[1] = Peer(p) /\ c # endpoint[p].sd
         /\ conn[c].st \in {"accepted", "broken"} /\ conn[c].open[p]
         /\ HasData(p, c) \/ AtEnd(p, c)
         /\ IF HasData(p, c) /\ Accepts(p) THEN Accept(p, c)
            ELSE conn' = Shut(conn, p, c) /\ UNCHANGED endpoint
    /\ UNCHANGED <<sent, delivered, failures, breaks>>

----------------------------------------------------------------------------
(* The kernels *)

Establish ==
    /\ \E c \in Conn :
         /\ conn[c].st = "connecting"
         /\ conn' = [conn EXCEPT ![c].st = "backlog", ![c].open[Peer(c[1])] = TRUE]
    /\ UNCHANGED <<endpoint, sent, delivered, failures, breaks>>

Refuse ==
    /\ failures < MaxFailures
    /\ failures' = failures + 1
    /\ \E c \in Conn :
         conn[c].st = "connecting" /\ conn' = [conn EXCEPT ![c].st = "refused"]
    /\ UNCHANGED <<endpoint, sent, delivered, breaks>>

\* A connection is reset: what had not arrived at either end is lost.
Break ==
    /\ breaks < MaxBreaks
    /\ breaks' = breaks + 1
    /\ \E c \in Conn, arrived \in [Proc -> 0..MaxFrags + 1] :
         /\ conn[c].st = "accepted"
         /\ \A p \in Proc : arrived[p] <= Len(conn[c].inbox[p])
         /\ conn' = [conn EXCEPT ![c].st = "broken",
              ![c].inbox = [p \in Proc |-> SubSeq(@[p], 1, arrived[p])]]
    /\ UNCHANGED <<endpoint, sent, delivered, failures>>

----------------------------------------------------------------------------

Callback(p) ==
    SendHandler(p) \/ RecvHandler(p) \/ AcceptHandler(p) \/ ComponentRecvHandler(p)

Next ==
    \/ \E p \in Proc : Send(p) \/ Callback(p)
    \/ Establish \/ Refuse \/ Break

Spec == Init /\ [][Next]_vars

\* Every process keeps calling the progress loop, and the kernels connect.
FairSpec ==
    /\ Spec
    /\ WF_vars(Establish)
    /\ \A p \in Proc :
         /\ WF_vars(SendHandler(p))
         /\ WF_vars(RecvHandler(p))
         /\ WF_vars(AcceptHandler(p))
         /\ WF_vars(ComponentRecvHandler(p))

----------------------------------------------------------------------------
(* Properties *)

\* While no connection has broken, the two ends agree on the connection: the
\* socket of an endpoint that is connected is the one its peer has settled on
\* too, so neither end closes or ignores the one the other uses
\* (btl_tcp_endpoint.c:328, the two rules of mca_btl_tcp_endpoint_accept).
AgreedConnection ==
    breaks = 0 =>
        \A p \in Proc : endpoint[p].state = "CONNECTED" =>
            /\ endpoint[Peer(p)].sd = endpoint[p].sd
            /\ endpoint[Peer(p)].state \in {"CONNECT_ACK", "CONNECTED"}

\* The fragments in an inbox, before which there may be a name.
Fragments(s) == IF s # <<>> /\ Head(s) = Guid THEN Tail(s) ELSE s

\* Fragments of p on their way to its peer on the socket they agree on.
InFlight(p) ==
    LET c == endpoint[p].sd
    IN  IF c = NoSd THEN <<>> ELSE Fragments(conn[c].inbox[Peer(p)])

\* Fragments p still has.
Pending(p) ==
    (IF endpoint[p].send_frag = NoFrag THEN <<>> ELSE <<endpoint[p].send_frag>>)
        \o endpoint[p].frags

\* While no connection has broken, every fragment is delivered, on its way or
\* queued, once and in its place: none is written to a socket that the other
\* end drops in the handshake (btl_tcp_endpoint.c:358, :431).
NoFragmentLost ==
    breaks = 0 =>
        \A p \in Proc :
            delivered[Peer(p)] \o InFlight(p) \o Pending(p) = [i \in 1..sent[p] |-> i]

\* Even when connections break and are made again, no fragment is delivered
\* twice or after a later one (btl_tcp_endpoint.c:257-264, :782-785).  After a
\* break it rests on fragments being written whole: the rest of one that was
\* partly written would go out on the next connection.
NoFragmentOvertaken ==
    \A p \in Proc :
        LET line == delivered[Peer(p)] \o Pending(p)
        IN  \A i, j \in 1..Len(line) : i < j => line[i] < line[j]

\* While no connection has broken, a connected endpoint with a fragment has
\* its send event in the loop (btl_tcp_endpoint.c:428).
PendingIsScheduled ==
    breaks = 0 =>
        \A p \in Proc :
            endpoint[p].state = "CONNECTED" /\ Pending(p) # <<>> => endpoint[p].send_event

\* As long as no connect fails and no connection breaks, each fragment is
\* delivered: connects that cross never leave both ends without a connection
\* (btl_tcp_endpoint.c:356-378, :449).
EveryFragmentDelivered ==
    [](failures = 0 /\ breaks = 0) =>
        \A p \in Proc : \A n \in Frag :
            sent[p] >= n ~> Len(delivered[Peer(p)]) >= n
=============================================================================
