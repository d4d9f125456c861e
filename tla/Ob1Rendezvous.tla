--------------------------- MODULE Ob1Rendezvous ---------------------------
(***************************************************************************)
(* PML ob1: how the data of one long message moves, once it is matched,    *)
(* and when the requests at its two ends complete                          *)
(* (openmpi-1.4.2/ompi/mca/pml/ob1).  The receiver asks for the part that  *)
(* goes by RDMA with PUT and learns from FIN that it is there; the rest is *)
(* copied in FRAGs after an ACK; or the receiver gets all of it.  Several  *)
(* contexts work on a request at once, threads or callbacks that run       *)
(* inside a send: nobody waits for another; req_lock counts who came.      *)
(***************************************************************************)
EXTENDS Integers, Sequences, FiniteSets

CONSTANTS
    Length,             \* the message, in fragments
    Context,            \* at each end, what may work on the request at once
    send_pipeline_depth, recv_pipeline_depth, rdma_put_retries_limit,
    MaxFailures,        \* bound: times that a transport has no resources
    MaxErrors           \* bound: PUTs that the transport does not accept

ASSUME RendezvousAssumption ==
    /\ Length \in Nat \ {0} /\ Context # {} /\ IsFiniteSet(Context)
    /\ send_pipeline_depth \in Nat \ {0} /\ recv_pipeline_depth \in Nat \ {0}
    /\ rdma_put_retries_limit \in Nat
    /\ MaxFailures \in Nat /\ MaxErrors \in Nat

Frag == 0..Length - 1                           \* by their offset

VARIABLES
    eager,          \* fragments that came with the first header
    sendreq,        \* mca_pml_ob1_send_request_t
    recvreq,        \* mca_pml_ob1_recv_request_t
    network,        \* headers on their way, in no order
    due,            \* local completions that the sender's transports owe it
    rdma_pending,   \* at the sender: PUTs to try again
    spc, rpc,       \* where each context is
    written,        \* fragments in the receiver's buffer, as often as they came
    failures, errors

sendVars == <<sendreq, due, rdma_pending, spc>>
recvVars == <<recvreq, rpc, written>>
vars == <<eager, sendVars, recvVars, network, failures, errors>>

Header ==
    [type : {"RNDV", "RGET", "FINGET"}]
    \cup [type : {"ACK"}, offset : 0..Length, nordma : BOOLEAN]
    \cup [type : {"PUT"}, offset : Frag, ack : BOOLEAN]
    \cup [type : {"FIN"}, offset : Frag, fail : BOOLEAN]
    \cup [type : {"FRAG"}, offset : Frag]

Completion == [type : {"rndv", "frag", "put"}, offset : Frag]

\* The counter of a lock, and a size_t that may go below 0 for a moment.
Lock == Nat
Depth == -1..Length

TypeOK ==
    /\ eager \in 0..Length
    /\ sendreq \in [state : 0..2, lock : Lock, throttle_sends : BOOLEAN,
                    pipeline_depth : Depth, bytes_delivered : 0..Length,
                    recv : BOOLEAN, ranges : Seq(Frag), pending : BOOLEAN,
                    complete : 0..2]
    /\ recvreq \in [lock : Lock, pipeline_depth : Depth, bytes_received : 0..Length,
                    rdma_offset : 0..Length, send_offset : 0..Length,
                    match_received : BOOLEAN, ack_sent : BOOLEAN, pending : BOOLEAN,
                    get : {"none", "pending", "started", "done"}, complete : 0..2]
    /\ network \subseteq Header
    /\ due \subseteq Completion
    /\ rdma_pending \subseteq [offset : Frag, retries : 0..MaxFailures]
    /\ spc \in [Context -> {"idle", "ack", "fallback", "check", "checkSchedule",
                            "schedule", "once", "sent", "unlock"}]
    /\ rpc \in [Context -> {"idle", "rndv", "check", "checkSchedule", "schedule",
                            "once", "sent", "unlock"}]
    /\ written \in [Frag -> 0..2]
    /\ failures \in 0..MaxFailures /\ errors \in 0..MaxErrors

\* The first header has been sent: with some of the data and for an ACK, or
\* with where the receiver can get the data.
Init ==
    /\ \/ /\ eager \in 0..Length
          /\ network = {[type |-> "RNDV"]}
       \/ eager = 0 /\ network = {[type |-> "RGET"]}
    /\ LET rndv == [type |-> "RNDV"] \in network
       IN  /\ sendreq = [state |-> IF rndv THEN 2 ELSE 0, lock |-> 0,
                         throttle_sends |-> FALSE, pipeline_depth |-> 0,
                         bytes_delivered |-> 0, recv |-> FALSE, ranges |-> <<>>,
                         pending |-> FALSE, complete |-> 0]
           /\ due = IF rndv THEN {[type |-> "rndv", offset |-> 0]} ELSE {}
    /\ recvreq = [lock |-> 0, pipeline_depth |-> 0, bytes_received |-> 0,
                  rdma_offset |-> 0, send_offset |-> 0, match_received |-> FALSE,
                  ack_sent |-> FALSE, pending |-> FALSE, get |-> "none",
                  complete |-> 0]
    /\ rdma_pending = {}
    /\ spc = [t \in Context |-> "idle"] /\ rpc = [t \in Context |-> "idle"]
    /\ written = [b \in Frag |-> 0]
    /\ failures = 0 /\ errors = 0

----------------------------------------------------------------------------
(* Locks and lists that both ends use *)

\* lock_send_request(), lock_recv_request(): the first has it; the count says
\* how many more came.
TryLock(req) == req.lock = 0

\* Mutation of Locked: who does not get the lock leaves no trace.
LockedByFirst(req) == [req EXCEPT !.lock = 1]
Locked(req) == [req EXCEPT !.lock = @ + 1]
Unlocked(req) == [req EXCEPT !.lock = @ - 1]

\* Mutation of Below: one more.
BelowOrAt(depth, limit) == depth >= 0 /\ depth <= limit

\* size_t: a depth below 0 is a large one.
Below(depth, limit) == depth >= 0 /\ depth < limit

\* A transport has no resources.
Fails == failures < MaxFailures /\ failures' = failures + 1

Succession(from) == [i \in 1..Length - from |-> from + i - 1]

SendGoto(t, label) == spc' = [spc EXCEPT ![t] = label]
RecvGoto(t, label) == rpc' = [rpc EXCEPT ![t] = label]

----------------------------------------------------------------------------
(* The sender: completion *)

\* Mutation of SendFinished: the ACK and the first completion do not count.
SendFinishedByData(s) == s.bytes_delivered >= Length
SendFinished(s) == s.state = 0 /\ s.bytes_delivered >= Length

\* send_request_pml_complete_check(), and what follows when it fails.
SendCheck(t) ==
    /\ spc[t] \in {"check", "checkSchedule"}
    /\ IF SendFinished(sendreq)
       THEN sendreq' = IF TryLock(sendreq)
                       THEN [Locked(sendreq) EXCEPT !.complete = @ + 1]
                       ELSE Locked(sendreq)
       ELSE UNCHANGED sendreq
    /\ SendGoto(t, IF /\ spc[t] = "checkSchedule"
                      /\ ~(SendFinished(sendreq) /\ TryLock(sendreq))
                   THEN "schedule" ELSE "idle")
    /\ UNCHANGED <<eager, due, rdma_pending, recvVars, network, failures, errors>>

\* mca_pml_ob1_rndv_completion(): the first header is on its way.
RndvCompletion(t) ==
    /\ spc[t] = "idle"
    /\ \E c \in due :
         /\ c.type = "rndv"
         /\ due' = due \ {c}
         /\ sendreq' = [sendreq EXCEPT !.bytes_delivered = @ + eager, !.state = @ - 1]
    /\ SendGoto(t, "check")
    /\ UNCHANGED <<eager, rdma_pending, recvVars, network, failures, errors>>

\* mca_pml_ob1_frag_completion()
FragCompletion(t) ==
    /\ spc[t] = "idle"
    /\ \E c \in due :
         /\ c.type = "frag"
         /\ due' = due \ {c}
         /\ sendreq' = [sendreq EXCEPT !.pipeline_depth = @ - 1,
                                       !.bytes_delivered = @ + 1]
    /\ SendGoto(t, "checkSchedule")
    /\ UNCHANGED <<eager, rdma_pending, recvVars, network, failures, errors>>

\* The fragment is in the receiver's buffer.
Writes(frags) == written' = [b \in Frag |-> written[b] + IF b \in frags THEN 1 ELSE 0]

\* mca_pml_ob1_put_completion(): the receiver is told.
PutCompletion(t) ==
    /\ spc[t] = "idle"
    /\ \E c \in due :
         /\ c.type = "put"
         /\ due' = due \ {c}
         /\ Writes({c.offset})
         /\ network' = network \cup {[type |-> "FIN", offset |-> c.offset, fail |-> FALSE]}
         /\ sendreq' = [sendreq EXCEPT !.bytes_delivered = @ + 1]
    /\ SendGoto(t, "check")
    /\ UNCHANGED <<eager, rdma_pending, recvreq, rpc, failures, errors>>

\* mca_pml_ob1_rget_completion(): the receiver has got the data.
RgetDelivered(t) ==
    /\ spc[t] = "idle"
    /\ [type |-> "FINGET"] \in network
    /\ network' = network \ {[type |-> "FINGET"]}
    /\ sendreq' = [sendreq EXCEPT !.bytes_delivered = @ + Length]
    /\ SendGoto(t, "check")
    /\ UNCHANGED <<eager, due, rdma_pending, recvVars, failures, errors>>

----------------------------------------------------------------------------
(* The sender: copy in and out *)

\* mca_pml_ob1_recv_frag_callback_ack(): the receiver is known, and what it
\* does not ask for is to be sent.
RecvAck(t) ==
    /\ spc[t] = "idle"
    /\ \E m \in network :
         /\ m.type = "ACK"
         /\ network' = network \ {m}
         /\ sendreq' = [sendreq EXCEPT !.recv = TRUE,
                          !.throttle_sends = @ \/ m.nordma,
                          !.ranges = @ \o Succession(m.offset)]
    /\ SendGoto(t, "ack")
    /\ UNCHANGED <<eager, due, rdma_pending, recvVars, failures, errors>>

\* A request that began as a get waits for no ACK.
AckState(t) ==
    /\ spc[t] = "ack"
    /\ sendreq' = [sendreq EXCEPT !.state = IF @ # 0 THEN @ - 1 ELSE 0]
    /\ SendGoto(t, "checkSchedule")
    /\ UNCHANGED <<eager, due, rdma_pending, recvVars, network, failures, errors>>

\* mca_pml_ob1_send_request_schedule()
SendSchedule(t) ==
    /\ spc[t] = "schedule"
    /\ sendreq' = Locked(sendreq)
    /\ SendGoto(t, IF TryLock(sendreq) THEN "once" ELSE "idle")
    /\ UNCHANGED <<eager, due, rdma_pending, recvVars, network, failures, errors>>

\* The condition of the loop of mca_pml_ob1_send_request_schedule_once().
MaySend(s) ==
    /\ s.ranges # <<>>
    /\ s.throttle_sends => Below(s.pipeline_depth, send_pipeline_depth)

\* A fragment is sent, which may be completed before the counters are moved.
SendFrag(t) ==
    /\ spc[t] = "once" /\ MaySend(sendreq)
    /\ LET b == Head(sendreq.ranges)
       IN  /\ network' = network \cup {[type |-> "FRAG", offset |-> b]}
           /\ due' = due \cup {[type |-> "frag", offset |-> b]}
    /\ SendGoto(t, "sent")
    /\ UNCHANGED <<eager, sendreq, rdma_pending, recvVars, failures, errors>>

FragSent(t) ==
    /\ spc[t] = "sent"
    /\ sendreq' = [sendreq EXCEPT !.ranges = Tail(@), !.pipeline_depth = @ + 1]
    /\ SendGoto(t, IF Len(sendreq.ranges) > 1 THEN "once" ELSE "unlock")
    /\ UNCHANGED <<eager, due, rdma_pending, recvVars, network, failures, errors>>

\* Mutation of PutOff: the request is put on the list unlocked.
PutOffUnlocked(req) == [Unlocked(req) EXCEPT !.pending = TRUE]

\* No transport has room: the request goes to send_pending or recv_pending,
\* and "remains locked".
PutOff(req) == [req EXCEPT !.pending = TRUE]

SendPutOff(t) ==
    /\ spc[t] = "once" /\ MaySend(sendreq)
    /\ Fails
    /\ sendreq' = PutOff(sendreq)
    /\ SendGoto(t, "idle")
    /\ UNCHANGED <<eager, due, rdma_pending, recvVars, network, errors>>

SendStop(t) ==
    /\ spc[t] = "once" /\ ~MaySend(sendreq)
    /\ SendGoto(t, "unlock")
    /\ UNCHANGED <<eager, sendreq, due, rdma_pending, recvVars, network, failures, errors>>

\* unlock_send_request(): once more for whoever came meanwhile.
SendUnlock(t) ==
    /\ spc[t] = "unlock"
    /\ sendreq' = Unlocked(sendreq)
    /\ SendGoto(t, IF sendreq.lock = 1 THEN "check" ELSE "once")
    /\ UNCHANGED <<eager, due, rdma_pending, recvVars, network, failures, errors>>

\* mca_pml_ob1_send_request_process_pending()
SendPending(t) ==
    /\ spc[t] = "idle"
    /\ sendreq.pending
    /\ sendreq' = [sendreq EXCEPT !.pending = FALSE]
    /\ SendGoto(t, "once")
    /\ UNCHANGED <<eager, due, rdma_pending, recvVars, network, failures, errors>>

----------------------------------------------------------------------------
(* The sender: PUT *)

WithoutPut(b) == {m \in network : m.type = "PUT" => m.offset # b}
PendingWithout(b) == {x \in rdma_pending : x.offset # b}

\* Mutation of GiveUp: the PUT is tried again besides.
GiveUpAndRetry(s, b) ==
    /\ network' = WithoutPut(b) \cup {[type |-> "FIN", offset |-> b, fail |-> TRUE]}
    /\ sendreq' = [s EXCEPT !.ranges = Append(@, b)]
    /\ rdma_pending' = PendingWithout(b) \cup {[offset |-> b, retries |-> 0]}

\* The receiver is told, and the fragment is to be copied.
GiveUp(s, b) ==
    /\ network' = WithoutPut(b) \cup {[type |-> "FIN", offset |-> b, fail |-> TRUE]}
    /\ sendreq' = [s EXCEPT !.ranges = Append(@, b)]
    /\ rdma_pending' = PendingWithout(b)

\* mca_pml_ob1_send_request_put_frag(): the put is started; or it waits, for a
\* descriptor or for the transport; or it has waited for a descriptor enough.
PutFrag(t, s, b, retries) ==
    \/ /\ due' = due \cup {[type |-> "put", offset |-> b]}
       /\ sendreq' = s
       /\ network' = WithoutPut(b)
       /\ rdma_pending' = PendingWithout(b)
       /\ UNCHANGED <<spc, failures>>
    \/ /\ Fails
       /\ sendreq' = s
       /\ network' = WithoutPut(b)
       /\ rdma_pending' = PendingWithout(b) \cup {[offset |-> b, retries |-> retries]}
       /\ UNCHANGED <<spc, due>>
    \/ /\ retries >= rdma_put_retries_limit
       /\ Fails
       /\ GiveUp(s, b)
       /\ SendGoto(t, "fallback")
       /\ UNCHANGED due

\* mca_pml_ob1_send_request_put()
RecvPut(t) ==
    /\ spc[t] = "idle"
    /\ \E m \in network :
         /\ m.type = "PUT"
         /\ PutFrag(t, [sendreq EXCEPT !.state = IF m.ack THEN @ - 1 ELSE @], m.offset, 0)
    /\ UNCHANGED <<eager, recvVars, errors>>

\* mca_pml_ob1_process_pending_rdma(), for a put.
RetryPut(t) ==
    /\ spc[t] = "idle"
    /\ \E x \in rdma_pending : PutFrag(t, sendreq, x.offset, x.retries + 1)
    /\ UNCHANGED <<eager, recvVars, errors>>

\* "Don't schedule sends before ACK": the ACK says where to send.
Fallback(t) ==
    /\ spc[t] = "fallback"
    /\ SendGoto(t, IF sendreq.recv THEN "schedule" ELSE "idle")
    /\ UNCHANGED <<eager, sendreq, due, rdma_pending, recvVars, network, failures, errors>>

----------------------------------------------------------------------------
(* The receiver: the first header *)

\* mca_pml_ob1_recv_request_ack_send(): an ACK put off keeps its offset, not
\* its flag.
SendAck(rest, offset, nordma) ==
    \/ /\ network' = rest \cup {[type |-> "ACK", offset |-> offset, nordma |-> nordma]}
       /\ UNCHANGED failures
    \/ /\ Fails
       /\ \E flag \in BOOLEAN :
            network' = rest \cup {[type |-> "ACK", offset |-> offset, nordma |-> flag]}

\* mca_pml_ob1_recv_request_progress_rndv() and recv_request_ack(): what is
\* beyond send_offset is copied; how much that is depends on the transports
\* and on the memory registered.
RecvRndv(t) ==
    /\ rpc[t] = "idle"
    /\ [type |-> "RNDV"] \in network
    /\ \E offset \in eager..Length :
         LET acks == offset < Length \/ eager = Length
             rest == network \ {[type |-> "RNDV"]}
         IN  /\ recvreq' = [recvreq EXCEPT !.match_received = TRUE, !.rdma_offset = eager,
                              !.send_offset = offset, !.ack_sent = acks]
             /\ IF acks THEN SendAck(rest, offset, offset = eager)
                        ELSE network' = rest /\ UNCHANGED failures
    /\ RecvGoto(t, "rndv")
    /\ UNCHANGED <<eager, sendVars, written, errors>>

\* What came with the header.
AddEager(t) ==
    /\ rpc[t] = "rndv"
    /\ recvreq' = [recvreq EXCEPT !.bytes_received = @ + eager]
    /\ Writes(0..eager - 1)
    /\ RecvGoto(t, "checkSchedule")
    /\ UNCHANGED <<eager, sendVars, network, failures, errors>>

\* mca_pml_ob1_recv_request_get_frag()
GetFrag(req) ==
    \/ recvreq' = [req EXCEPT !.get = "started"] /\ UNCHANGED failures
    \/ Fails /\ recvreq' = [req EXCEPT !.get = "pending"]

\* mca_pml_ob1_recv_request_progress_rget(): into a buffer that is not
\* contiguous everything is copied.
RecvRget(t) ==
    /\ rpc[t] = "idle"
    /\ [type |-> "RGET"] \in network
    /\ LET req == [recvreq EXCEPT !.match_received = TRUE]
           rest == network \ {[type |-> "RGET"]}
       IN  \/ GetFrag(req) /\ network' = rest
           \/ recvreq' = [req EXCEPT !.ack_sent = TRUE] /\ SendAck(rest, 0, TRUE)
    /\ UNCHANGED <<eager, sendVars, rpc, written, errors>>

\* mca_pml_ob1_process_pending_rdma(), for a get.
RetryGet(t) ==
    /\ rpc[t] = "idle"
    /\ recvreq.get = "pending"
    /\ GetFrag(recvreq)
    /\ UNCHANGED <<eager, sendVars, rpc, written, network, errors>>

\* mca_pml_ob1_rget_completion(): the sender is told.
RgetCompletion(t) ==
    /\ rpc[t] = "idle"
    /\ recvreq.get = "started"
    /\ recvreq' = [recvreq EXCEPT !.get = "done", !.bytes_received = @ + Length]
    /\ Writes(Frag)
    /\ network' = network \cup {[type |-> "FINGET"]}
    /\ RecvGoto(t, "check")
    /\ UNCHANGED <<eager, sendVars, failures, errors>>

----------------------------------------------------------------------------
(* The receiver: completion *)

\* mca_pml_ob1_recv_request_progress_frag()
RecvFrag(t) ==
    /\ rpc[t] = "idle"
    /\ \E m \in network :
         /\ m.type = "FRAG"
         /\ network' = network \ {m}
         /\ Writes({m.offset})
    /\ recvreq' = [recvreq EXCEPT !.bytes_received = @ + 1]
    /\ RecvGoto(t, "checkSchedule")
    /\ UNCHANGED <<eager, sendVars, failures, errors>>

\* Mutation of BytesOf: what the sender gave up counts as well.
BytesOfAny(fin) == 1
BytesOf(fin) == IF fin.fail THEN 0 ELSE 1

\* put_completion() at the receiver, from mca_pml_ob1_recv_frag_callback_fin().
RecvFin(t) ==
    /\ rpc[t] = "idle"
    /\ \E m \in network :
         /\ m.type = "FIN"
         /\ network' = network \ {m}
         /\ recvreq' = [recvreq EXCEPT !.pipeline_depth = @ - 1,
                                       !.bytes_received = @ + BytesOf(m)]
    /\ RecvGoto(t, "checkSchedule")
    /\ UNCHANGED <<eager, sendVars, written, failures, errors>>

RecvFinished(r) == r.match_received /\ r.bytes_received >= Length

\* recv_request_pml_complete_check(), and what follows when it fails.
RecvCheck(t) ==
    /\ rpc[t] \in {"check", "checkSchedule"}
    /\ IF RecvFinished(recvreq)
       THEN recvreq' = IF TryLock(recvreq)
                       THEN [Locked(recvreq) EXCEPT !.complete = @ + 1]
                       ELSE Locked(recvreq)
       ELSE UNCHANGED recvreq
    /\ RecvGoto(t, IF /\ rpc[t] = "checkSchedule"
                      /\ ~(RecvFinished(recvreq) /\ TryLock(recvreq))
                      /\ recvreq.rdma_offset < recvreq.send_offset
                   THEN "schedule" ELSE "idle")
    /\ UNCHANGED <<eager, sendVars, written, network, failures, errors>>

----------------------------------------------------------------------------
(* The receiver: asking for puts *)

\* mca_pml_ob1_recv_request_schedule()
RecvSchedule(t) ==
    /\ rpc[t] = "schedule"
    /\ recvreq' = Locked(recvreq)
    /\ RecvGoto(t, IF TryLock(recvreq) THEN "once" ELSE "idle")
    /\ UNCHANGED <<eager, sendVars, written, network, failures, errors>>

\* The condition of the loop of mca_pml_ob1_recv_request_schedule_once().
MayAsk(r) == /\ r.rdma_offset < r.send_offset
             /\ Below(r.pipeline_depth, recv_pipeline_depth)

\* A PUT is sent, the first one in place of an ACK ...
AskPut(t) ==
    /\ rpc[t] = "once" /\ MayAsk(recvreq)
    /\ network' = network \cup {[type |-> "PUT", offset |-> recvreq.rdma_offset,
                                 ack |-> ~recvreq.ack_sent]}
    /\ recvreq' = [recvreq EXCEPT !.ack_sent = TRUE]
    /\ RecvGoto(t, "sent")
    /\ UNCHANGED <<eager, sendVars, written, failures, errors>>

PutSent(t) ==
    /\ rpc[t] = "sent"
    /\ recvreq' = [recvreq EXCEPT !.rdma_offset = @ + 1, !.pipeline_depth = @ + 1]
    /\ RecvGoto(t, "once")
    /\ UNCHANGED <<eager, sendVars, written, network, failures, errors>>

\* ... or the transport does not accept it.
AskRefused(t) ==
    /\ rpc[t] = "once" /\ MayAsk(recvreq)
    /\ errors < MaxErrors /\ errors' = errors + 1
    /\ recvreq' = [recvreq EXCEPT !.ack_sent = TRUE]
    /\ UNCHANGED <<eager, sendVars, rpc, written, network, failures>>

RecvPutOff(t) ==
    /\ rpc[t] = "once" /\ MayAsk(recvreq)
    /\ Fails
    /\ recvreq' = PutOff(recvreq)
    /\ RecvGoto(t, "idle")
    /\ UNCHANGED <<eager, sendVars, written, network, errors>>

RecvStop(t) ==
    /\ rpc[t] = "once" /\ ~MayAsk(recvreq)
    /\ RecvGoto(t, "unlock")
    /\ UNCHANGED <<eager, sendVars, recvreq, written, network, failures, errors>>

\* unlock_recv_request()
RecvUnlock(t) ==
    /\ rpc[t] = "unlock"
    /\ recvreq' = Unlocked(recvreq)
    /\ RecvGoto(t, IF recvreq.lock = 1 THEN "check" ELSE "once")
    /\ UNCHANGED <<eager, sendVars, written, network, failures, errors>>

\* mca_pml_ob1_recv_request_process_pending()
RecvPending(t) ==
    /\ rpc[t] = "idle"
    /\ recvreq.pending
    /\ recvreq' = [recvreq EXCEPT !.pending = FALSE]
    /\ RecvGoto(t, "once")
    /\ UNCHANGED <<eager, sendVars, written, network, failures, errors>>

----------------------------------------------------------------------------
(* What a context begins when it is idle, and what it goes on with *)

SendEvent(t) ==
    \/ RndvCompletion(t) \/ FragCompletion(t) \/ PutCompletion(t) \/ RgetDelivered(t)
    \/ RecvAck(t) \/ RecvPut(t) \/ RetryPut(t) \/ SendPending(t)

SendStep(t) ==
    \/ SendCheck(t) \/ AckState(t) \/ Fallback(t) \/ SendSchedule(t)
    \/ SendFrag(t) \/ FragSent(t) \/ SendPutOff(t) \/ SendStop(t) \/ SendUnlock(t)

RecvEvent(t) ==
    \/ RecvRndv(t) \/ RecvRget(t) \/ RetryGet(t) \/ RgetCompletion(t)
    \/ RecvFrag(t) \/ RecvFin(t) \/ RecvPending(t)

RecvStep(t) ==
    \/ AddEager(t) \/ RecvCheck(t) \/ RecvSchedule(t) \/ AskPut(t) \/ PutSent(t)
    \/ AskRefused(t) \/ RecvPutOff(t) \/ RecvStop(t) \/ RecvUnlock(t)

Next == \E t \in Context : SendEvent(t) \/ SendStep(t) \/ RecvEvent(t) \/ RecvStep(t)

Spec == Init /\ [][Next]_vars

\* A context goes on to its end; some context looks at what there is: at what
\* arrives, in opal_progress() at every turn of whoever waits for a request; at
\* what waits for resources, when a transport returns some
\* (MCA_PML_OB1_PROGRESS_PENDING() in every completion).
FairSpec ==
    /\ Spec
    /\ \A t \in Context : WF_vars(SendStep(t)) /\ WF_vars(RecvStep(t))
    /\ WF_vars(\E t \in Context : SendEvent(t))
    /\ WF_vars(\E t \in Context : RecvEvent(t))

----------------------------------------------------------------------------
(* Properties *)

Is(condition) == IF condition THEN 1 ELSE 0

InNetwork(type, b) == \E m \in network : m.type = type /\ m.offset = b

\* What is still to be asked for, and to be sent: what is just being sent is not.
ToAsk == recvreq.rdma_offset + Is(\E t \in Context : rpc[t] = "sent")
         ..recvreq.send_offset - 1
ToSend == IF \E t \in Context : spc[t] = "sent" THEN Tail(sendreq.ranges)
                                               ELSE sendreq.ranges

\* How many ways lead fragment b, or have led it, to the receiver's buffer.
Paths(b) ==
    written[b]
    + Is(b < eager /\ \E t \in Context : rpc[t] = "rndv")
    + Is(recvreq.get \in {"pending", "started"})
    + Is(b \in ToAsk) + Is(InNetwork("PUT", b))
    + Cardinality({x \in rdma_pending : x.offset = b})
    + Is([type |-> "put", offset |-> b] \in due)
    + Is(\E m \in network : m.type = "ACK" /\ m.offset <= b)
    + Cardinality({i \in DOMAIN ToSend : ToSend[i] = b})
    + Is(InNetwork("FRAG", b))

\* Once a message is matched every fragment of it is on exactly one way to the
\* buffer: eager, get, put, put that waits, or copy; also while a put that
\* failed becomes a copy, and while the ACK and the PUTs cross.  (Offsets:
\* recv_request_ack(), schedule_once() and put_frag() split the message among
\* themselves, each at its end.)
EveryFragmentOnOneWay == recvreq.match_received => \A b \in Frag : Paths(b) = 1

\* A request that the receiver completes has all of the message, once: FINs
\* and FRAGs come in any order, and a FIN may tell of a put that never was
\* (recv_request_pml_complete_check() only counts bytes).
ReceivedBeforeComplete == recvreq.complete > 0 => \A b \in Frag : written[b] = 1

\* When the send completes, the application may write to its buffer: no put or
\* fragment still reads it, and none is to be started (req_bytes_delivered and
\* req_state of send_request_pml_complete_check()).
BufferFreeOnComplete ==
    sendreq.complete > 0 =>
        /\ due = {} /\ rdma_pending = {} /\ ToSend = <<>>
        /\ \A m \in network : m.type \notin {"PUT", "ACK", "RNDV", "RGET"}
        /\ recvreq.get \in {"none", "done"}

Holders(req, pc) ==
    Cardinality({t \in Context : pc[t] \in {"once", "sent", "unlock"}})
    + Is(req.pending) + req.complete

\* One context at most schedules a request, and not while it is on the list of
\* pending ones; it completes once, and not while it is in either place (the
\* asserts that req_pml_complete is false in send_request_pml_complete() and
\* recv_request_pml_complete(); "Only allow one thread in this routine").  It does
\* not follow that nobody touches it afterwards: the FIN of a put that failed may
\* find the receive complete, and lowers its pipeline_depth (pml_ob1_recvreq.c:189),
\* though it "cannot be accessed" by then (pml_ob1_recvreq.h:136).
InOneHand == Holders(sendreq, spc) <= 1 /\ Holders(recvreq, rpc) <= 1

Asked == {b \in Frag : \/ InNetwork("PUT", b) \/ InNetwork("FIN", b)
                       \/ \E x \in rdma_pending : x.offset = b
                       \/ [type |-> "put", offset |-> b] \in due}

\* The receiver has no more memory registered for puts than its pipeline is
\* deep, and a sender whose message is all copied has no more fragments under
\* way than its own, though both count a fragment after it is sent.
PipelineBounded ==
    /\ Cardinality(Asked) <= recv_pipeline_depth
    /\ sendreq.throttle_sends /\ recvreq.send_offset = eager =>
         Cardinality({c \in due : c.type = "frag"}) <= send_pipeline_depth

BothComplete == sendreq.complete > 0 /\ recvreq.complete > 0

\* What the sender waits for will not come: the PUT that stood for the ACK was
\* not accepted.
AckLost ==
    /\ recvreq.ack_sent
    /\ sendreq.state > Is(\E c \in due : c.type = "rndv")
    /\ \A m \in network : m.type # "ACK" /\ (m.type = "PUT" => ~m.ack)
    /\ \A t \in Context : spc[t] # "ack"

\* Fragments to be copied, to a receiver that sends no ACK.
Stranded ==
    /\ sendreq.ranges # <<>> /\ ~sendreq.recv
    /\ recvreq.match_received /\ recvreq.send_offset = Length /\ eager < Length

\* Both requests complete, whatever context finds the lock taken and leaves its
\* work to the holder, whatever waits for resources, and in whatever order the
\* headers come; but for the two cases above.
EveryTransferEnds == <>(BothComplete \/ AckLost \/ Stranded)

\* What the comment of mca_pml_ob1_send_request_put_frag() implies: a fragment
\* to be copied before the ACK came waits for the ACK, and then goes.
FallbackIsSent == sendreq.ranges # <<>> ~> sendreq.ranges = <<>>
=============================================================================
