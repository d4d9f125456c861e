------------------------ MODULE Ob1RendezvousProofs ------------------------
(***************************************************************************)
(* For a message of any length, any number of contexts at its ends and any *)
(* depth of the pipelines: each request is in one hand, and each fragment  *)
(* on one way to the receiver's buffer.                                    *)
(***************************************************************************)
EXTENDS Ob1Rendezvous, FiniteSetTheorems, SequenceTheorems, TLAPS

USE RendezvousAssumption DEF RendezvousAssumption

----------------------------------------------------------------------------
(* What the variables are, but for the ranges of the counters *)

FragSeq == Seq(Frag)

SendReq ==
    [state : Int, lock : Int, throttle_sends : BOOLEAN, pipeline_depth : Int,
     bytes_delivered : Int, recv : BOOLEAN, ranges : FragSeq, pending : BOOLEAN,
     complete : Int]

RecvReq ==
    [lock : Int, pipeline_depth : Int, bytes_received : Int, rdma_offset : Nat,
     send_offset : 0..Length, match_received : BOOLEAN, ack_sent : BOOLEAN,
     pending : BOOLEAN, get : {"none", "pending", "started", "done"}, complete : Int]

SendPc == {"idle", "ack", "fallback", "check", "checkSchedule", "schedule", "once",
           "sent", "unlock"}
RecvPc == {"idle", "rndv", "check", "checkSchedule", "schedule", "once", "sent", "unlock"}

Types ==
    /\ eager \in 0..Length
    /\ sendreq \in SendReq /\ recvreq \in RecvReq
    /\ network \subseteq Header
    /\ due \subseteq Completion
    /\ rdma_pending \subseteq [offset : Frag, retries : Nat]
    /\ spc \in [Context -> SendPc] /\ rpc \in [Context -> RecvPc]
    /\ written \in [Frag -> Nat]
    /\ failures \in 0..MaxFailures /\ errors \in 0..MaxErrors

\* A request stays one when fields of it change.
LEMMA SendReqFields ==
    ASSUME NEW s \in SendReq
    PROVE  /\ s.lock \in Int /\ s.state \in Int /\ s.complete \in Int
           /\ s.bytes_delivered \in Int /\ s.pipeline_depth \in Int
           /\ s.ranges \in FragSeq /\ s.pending \in BOOLEAN
           /\ s.recv \in BOOLEAN /\ s.throttle_sends \in BOOLEAN
  BY DEF SendReq

LEMMA SendReqWith ==
    ASSUME NEW s \in SendReq
    PROVE  /\ \A x \in Int : /\ [s EXCEPT !.lock = x] \in SendReq
                             /\ [s EXCEPT !.state = x] \in SendReq
                             /\ [s EXCEPT !.complete = x] \in SendReq
                             /\ [s EXCEPT !.bytes_delivered = x] \in SendReq
           /\ \A x, y \in Int :
                /\ [s EXCEPT !.bytes_delivered = x, !.state = y] \in SendReq
                /\ [s EXCEPT !.pipeline_depth = x, !.bytes_delivered = y] \in SendReq
           /\ \A x \in FragSeq : [s EXCEPT !.ranges = x] \in SendReq
           /\ \A x \in FragSeq, y \in Int :
                [s EXCEPT !.ranges = x, !.pipeline_depth = y] \in SendReq
           /\ \A x \in BOOLEAN : [s EXCEPT !.pending = x] \in SendReq
           /\ \A x, y \in BOOLEAN, z \in FragSeq :
                [s EXCEPT !.recv = x, !.throttle_sends = y, !.ranges = z] \in SendReq
  BY DEF SendReq

LEMMA RecvReqFields ==
    ASSUME NEW r \in RecvReq
    PROVE  /\ r.lock \in Int /\ r.pipeline_depth \in Int /\ r.bytes_received \in Int
           /\ r.rdma_offset \in Nat /\ r.send_offset \in 0..Length
           /\ r.match_received \in BOOLEAN /\ r.ack_sent \in BOOLEAN
           /\ r.pending \in BOOLEAN /\ r.get \in {"none", "pending", "started", "done"}
           /\ r.complete \in Int
  BY DEF RecvReq

LEMMA RecvReqWith ==
    ASSUME NEW r \in RecvReq
    PROVE  /\ \A x \in Int : /\ [r EXCEPT !.lock = x] \in RecvReq
                             /\ [r EXCEPT !.complete = x] \in RecvReq
                             /\ [r EXCEPT !.bytes_received = x] \in RecvReq
           /\ \A x, y \in Int :
                [r EXCEPT !.pipeline_depth = x, !.bytes_received = y] \in RecvReq
           /\ \A x \in {"none", "pending", "started", "done"}, y \in Int :
                /\ [r EXCEPT !.get = x, !.bytes_received = y] \in RecvReq
                /\ [r EXCEPT !.get = x] \in RecvReq
           /\ \A x \in Nat, y \in Int :
                [r EXCEPT !.rdma_offset = x, !.pipeline_depth = y] \in RecvReq
           /\ \A x \in BOOLEAN : /\ [r EXCEPT !.pending = x] \in RecvReq
                                 /\ [r EXCEPT !.ack_sent = x] \in RecvReq
                                 /\ [r EXCEPT !.match_received = x] \in RecvReq
           /\ \A x, a \in BOOLEAN, y \in Nat, z \in 0..Length :
                [r EXCEPT !.match_received = x, !.rdma_offset = y,
                          !.send_offset = z, !.ack_sent = a] \in RecvReq
  BY DEF RecvReq

\* The fields of a header depend on its type.
LEMMA HeaderFields ==
    ASSUME NEW m \in Header
    PROVE  /\ m.type \in {"RNDV", "RGET", "FINGET", "ACK", "PUT", "FIN", "FRAG"}
           /\ m.type \in {"RNDV", "RGET", "FINGET"} => m = [type |-> m.type]
           /\ m.type = "ACK" => /\ m.offset \in 0..Length /\ m.nordma \in BOOLEAN
                                /\ m = [type |-> "ACK", offset |-> m.offset,
                                        nordma |-> m.nordma]
           /\ m.type = "PUT" => /\ m.offset \in Frag /\ m.ack \in BOOLEAN
                                /\ m = [type |-> "PUT", offset |-> m.offset, ack |-> m.ack]
           /\ m.type = "FIN" => /\ m.offset \in Frag /\ m.fail \in BOOLEAN
                                /\ m = [type |-> "FIN", offset |-> m.offset,
                                        fail |-> m.fail]
           /\ m.type = "FRAG" => m.offset \in Frag /\ m = [type |-> "FRAG", offset |-> m.offset]
  BY DEF Header

\* Headers that are sent are headers.
LEMMA HeaderMade ==
    /\ [type |-> "FINGET"] \in Header
    /\ \A b \in Frag : [type |-> "FRAG", offset |-> b] \in Header
    /\ \A b \in Frag, f \in BOOLEAN : [type |-> "FIN", offset |-> b, fail |-> f] \in Header
    /\ \A b \in Frag, f \in BOOLEAN : [type |-> "PUT", offset |-> b, ack |-> f] \in Header
    /\ \A b \in 0..Length, f \in BOOLEAN :
         [type |-> "ACK", offset |-> b, nordma |-> f] \in Header
  BY DEF Header

LEMMA CompletionMade ==
    /\ \A b \in Frag : /\ [type |-> "frag", offset |-> b] \in Completion
                       /\ [type |-> "put", offset |-> b] \in Completion
    /\ [type |-> "rndv", offset |-> 0] \in Completion
    /\ \A c \in Completion : c = [type |-> c.type, offset |-> c.offset] /\ c.offset \in Frag
  BY DEF Completion, Frag

\* What is left to copy is a sequence of fragments, each once.
LEMMA SuccessionIs ==
    ASSUME NEW from \in 0..Length
    PROVE  /\ Succession(from) \in Seq(Frag) /\ Len(Succession(from)) = Length - from
           /\ \A i \in 1..Length - from : Succession(from)[i] = from + i - 1
  BY DEF Succession, Frag

LEMMA TypesInit == Init => Types
<1>. SUFFICES ASSUME Init PROVE Types
  OBVIOUS
<1>1. sendreq \in SendReq
  <2>1. <<>> \in FragSeq
    BY DEF FragSeq
  <2>. QED  BY <2>1 DEF Init, SendReq
<1>2. recvreq \in RecvReq
  BY DEF Init, RecvReq
<1>3. eager \in 0..Length /\ network \subseteq Header /\ due \subseteq Completion
  BY CompletionMade DEF Init, Header
<1>4. /\ spc \in [Context -> SendPc] /\ rpc \in [Context -> RecvPc]
      /\ written \in [Frag -> Nat] /\ rdma_pending \subseteq [offset : Frag, retries : Nat]
  BY DEF Init, SendPc, RecvPc
<1>. QED  BY <1>1, <1>2, <1>3, <1>4 DEF Init, Types

LEMMA TypesSend ==
    ASSUME Types, NEW t \in Context, SendEvent(t) \/ SendStep(t),
           spc[t] = "sent" => sendreq.ranges # <<>>
    PROVE  Types'
<1>. USE DEF SendGoto, SendPc, recvVars
<1>0. sendreq \in SendReq /\ eager \in Int
  BY DEF Types
<1>f. /\ sendreq.lock + 1 \in Int /\ sendreq.lock - 1 \in Int
      /\ sendreq.complete + 1 \in Int
      /\ sendreq.state - 1 \in Int /\ (IF sendreq.state # 0 THEN sendreq.state - 1 ELSE 0) \in Int
      /\ sendreq.bytes_delivered + 1 \in Int /\ sendreq.bytes_delivered + Length \in Int
      /\ sendreq.bytes_delivered + eager \in Int
      /\ sendreq.pipeline_depth + 1 \in Int /\ sendreq.pipeline_depth - 1 \in Int
      /\ TRUE \in BOOLEAN /\ FALSE \in BOOLEAN
  <2>1. /\ sendreq.lock \in Int /\ sendreq.state \in Int /\ sendreq.complete \in Int
        /\ sendreq.bytes_delivered \in Int /\ sendreq.pipeline_depth \in Int
    BY <1>0, SendReqFields
  <2>2. Length \in Int /\ eager \in Int
    BY <1>0
  <2>3. (IF sendreq.state # 0 THEN sendreq.state - 1 ELSE 0) \in Int
    BY <2>1
  <2>4. TRUE \in BOOLEAN /\ FALSE \in BOOLEAN
    OBVIOUS
  <2>5. /\ sendreq.lock + 1 \in Int /\ sendreq.lock - 1 \in Int
        /\ sendreq.complete + 1 \in Int /\ sendreq.state - 1 \in Int
    BY <2>1
  <2>6. /\ sendreq.bytes_delivered + 1 \in Int /\ sendreq.bytes_delivered + Length \in Int
        /\ sendreq.bytes_delivered + eager \in Int
        /\ sendreq.pipeline_depth + 1 \in Int /\ sendreq.pipeline_depth - 1 \in Int
    BY <2>1, <2>2
  <2>. QED  BY <2>3, <2>4, <2>5, <2>6
<1>1. CASE SendCheck(t)
  <2>1. sendreq' \in {sendreq, [sendreq EXCEPT !.lock = @ + 1],
                      [[sendreq EXCEPT !.lock = @ + 1] EXCEPT !.complete = @ + 1]}
    BY <1>1 DEF SendCheck, Locked
  <2>2. [sendreq EXCEPT !.lock = @ + 1] \in SendReq
    BY <1>0, <1>f, SendReqWith
  <2>3. [[sendreq EXCEPT !.lock = @ + 1] EXCEPT !.complete = @ + 1] \in SendReq
    <3>. DEFINE s == [sendreq EXCEPT !.lock = @ + 1]
    <3>1. s \in SendReq
      BY <2>2
    <3>. HIDE DEF s
    <3>2. s.complete + 1 \in Int
      BY <3>1, SendReqFields
    <3>3. [s EXCEPT !.complete = @ + 1] \in SendReq
      BY <3>1, <3>2, SendReqWith
    <3>. QED  BY <3>3 DEF s
  <2>4. sendreq' \in SendReq
    BY <1>0, <2>1, <2>2, <2>3
  <2>. QED  BY <1>1, <2>4 DEF Types, SendCheck
<1>2. CASE RndvCompletion(t)
  <2>1. sendreq' = [sendreq EXCEPT !.bytes_delivered = @ + eager, !.state = @ - 1]
    BY <1>2 DEF RndvCompletion
  <2>2. sendreq' \in SendReq
    BY <1>0, <1>f, <2>1, SendReqWith
  <2>. QED  BY <1>2, <2>2 DEF Types, RndvCompletion
<1>3. CASE FragCompletion(t)
  <2>1. sendreq' = [sendreq EXCEPT !.pipeline_depth = @ - 1, !.bytes_delivered = @ + 1]
    BY <1>3 DEF FragCompletion
  <2>2. sendreq' \in SendReq
    BY <1>0, <1>f, <2>1, SendReqWith
  <2>. QED  BY <1>3, <2>2 DEF Types, FragCompletion
<1>4. CASE PutCompletion(t)
  <2>1. PICK c \in due :
          /\ due' = due \ {c}
          /\ Writes({c.offset})
          /\ network' = network \cup {[type |-> "FIN", offset |-> c.offset, fail |-> FALSE]}
          /\ sendreq' = [sendreq EXCEPT !.bytes_delivered = @ + 1]
    BY <1>4 DEF PutCompletion
  <2>2. sendreq' \in SendReq
    BY <1>0, <1>f, <2>1, SendReqWith
  <2>3. network' \subseteq Header
    <3>1. c.offset \in Frag
      BY CompletionMade DEF Types
    <3>2. [type |-> "FIN", offset |-> c.offset, fail |-> FALSE] \in Header
      BY <3>1, HeaderMade
    <3>. QED  BY <2>1, <3>2 DEF Types
  <2>4. written' \in [Frag -> Nat]
    BY <2>1 DEF Types, Writes
  <2>. QED  BY <1>4, <2>1, <2>2, <2>3, <2>4 DEF Types, PutCompletion
<1>5. CASE RgetDelivered(t)
  <2>1. sendreq' = [sendreq EXCEPT !.bytes_delivered = @ + Length]
    BY <1>5 DEF RgetDelivered
  <2>2. sendreq' \in SendReq
    BY <1>0, <1>f, <2>1, SendReqWith
  <2>. QED  BY <1>5, <2>2 DEF Types, RgetDelivered
<1>6. CASE RecvAck(t)
  <2>1. PICK m \in network :
          /\ m.type = "ACK"
          /\ network' = network \ {m}
          /\ sendreq' = [sendreq EXCEPT !.recv = TRUE,
                           !.throttle_sends = @ \/ m.nordma,
                           !.ranges = @ \o Succession(m.offset)]
    BY <1>6 DEF RecvAck
  <2>2. /\ sendreq.ranges \o Succession(m.offset) \in FragSeq
        /\ (sendreq.throttle_sends \/ m.nordma) \in BOOLEAN
    BY <1>0, <2>1, HeaderFields, SuccessionIs, SendReqFields DEF Types, FragSeq
  <2>3. sendreq' \in SendReq
    BY <1>0, <1>f, <2>1, <2>2, SendReqWith
  <2>. QED  BY <1>6, <2>1, <2>3 DEF Types, RecvAck
<1>7. CASE AckState(t)
  <2>1. sendreq' = [sendreq EXCEPT !.state = IF @ # 0 THEN @ - 1 ELSE 0]
    BY <1>7 DEF AckState
  <2>2. sendreq' \in SendReq
    BY <1>0, <1>f, <2>1, SendReqWith
  <2>. QED  BY <1>7, <2>2 DEF Types, AckState
<1>8. CASE SendSchedule(t)
  <2>1. sendreq' = [sendreq EXCEPT !.lock = @ + 1]
    BY <1>8 DEF SendSchedule, Locked
  <2>2. sendreq' \in SendReq
    BY <1>0, <1>f, <2>1, SendReqWith
  <2>. QED  BY <1>8, <2>2 DEF Types, SendSchedule
<1>9. CASE SendFrag(t)
  <2>1. Head(sendreq.ranges) \in Frag
    BY <1>0, <1>9, SendReqFields DEF FragSeq, SendFrag, MaySend
  <2>2. network' \subseteq Header /\ due' \subseteq Completion
    BY <1>9, <2>1, HeaderMade, CompletionMade DEF Types, SendFrag
  <2>. QED  BY <1>9, <2>2 DEF Types, SendFrag
<1>10. CASE FragSent(t)
  <2>1. sendreq' = [sendreq EXCEPT !.ranges = Tail(@), !.pipeline_depth = @ + 1]
    BY <1>10 DEF FragSent
  <2>2. Tail(sendreq.ranges) \in FragSeq
    BY <1>0, <1>10, SendReqFields DEF FragSeq, FragSent
  <2>3. sendreq' \in SendReq
    BY <1>0, <1>f, <2>1, <2>2, SendReqWith
  <2>. QED  BY <1>10, <2>3 DEF Types, FragSent
<1>11. CASE SendPutOff(t)
  <2>1. sendreq' = [sendreq EXCEPT !.pending = TRUE]
    BY <1>11 DEF SendPutOff, PutOff
  <2>2. sendreq' \in SendReq
    BY <1>0, <1>f, <2>1, SendReqWith
  <2>. QED  BY <1>11, <2>2 DEF Types, SendPutOff, Fails
<1>12. CASE SendStop(t) \/ Fallback(t)
  BY <1>12 DEF Types, SendStop, Fallback
<1>13. CASE SendUnlock(t)
  <2>1. sendreq' = [sendreq EXCEPT !.lock = @ - 1]
    BY <1>13 DEF SendUnlock, Unlocked
  <2>2. sendreq' \in SendReq
    BY <1>0, <1>f, <2>1, SendReqWith
  <2>. QED  BY <1>13, <2>2 DEF Types, SendUnlock
<1>14. CASE SendPending(t)
  <2>1. sendreq' = [sendreq EXCEPT !.pending = FALSE]
    BY <1>14 DEF SendPending
  <2>2. sendreq' \in SendReq
    BY <1>0, <1>f, <2>1, SendReqWith
  <2>. QED  BY <1>14, <2>2 DEF Types, SendPending
<1>15. CASE RecvPut(t) \/ RetryPut(t)
  <2>1. PICK s \in {sendreq, [sendreq EXCEPT !.state = @ - 1]}, b \in Frag, n \in Nat :
          PutFrag(t, s, b, n)
    <3>1. CASE RecvPut(t)
      <4>1. PICK m \in network : /\ m.type = "PUT"
                                 /\ PutFrag(t, [sendreq EXCEPT !.state =
                                      IF m.ack THEN @ - 1 ELSE @], m.offset, 0)
        BY <3>1 DEF RecvPut
      <4>2. m.offset \in Frag
        BY <4>1, HeaderFields DEF Types
      <4>3. [sendreq EXCEPT !.state = IF m.ack THEN @ - 1 ELSE @]
              \in {sendreq, [sendreq EXCEPT !.state = @ - 1]}
        BY <1>0 DEF SendReq
      <4>. QED  BY <4>1, <4>2, <4>3
    <3>2. CASE RetryPut(t)
      BY <3>2 DEF RetryPut, Types
    <3>. QED  BY <1>15, <3>1, <3>2
  <2>2. s \in SendReq
    BY <1>0 DEF SendReq
  <2>3. sendreq' \in SendReq
    <3>1. sendreq' = s \/ sendreq' = [s EXCEPT !.ranges = Append(@, b)]
      BY <2>1 DEF PutFrag, GiveUp
    <3>2. Append(s.ranges, b) \in FragSeq
      BY <2>2, SendReqFields DEF FragSeq
    <3>. QED  BY <2>2, <3>1, <3>2, SendReqWith
  <2>4. network' \subseteq Header /\ due' \subseteq Completion
    BY <2>1, HeaderMade, CompletionMade DEF Types, PutFrag, GiveUp, WithoutPut
  <2>5. rdma_pending' \subseteq [offset : Frag, retries : Nat]
    BY <2>1 DEF Types, PutFrag, GiveUp, PendingWithout
  <2>6. spc' \in [Context -> SendPc] /\ failures' \in 0..MaxFailures
    <3>1. failures \in 0..MaxFailures /\ MaxFailures \in Nat
      BY DEF Types
    <3>2. failures' = failures \/ Fails
      BY <2>1 DEF PutFrag
    <3>3. failures' \in 0..MaxFailures
      BY <3>1, <3>2 DEF Fails
    <3>4. spc' \in [Context -> SendPc]
      BY <2>1 DEF Types, PutFrag
    <3>. QED  BY <3>3, <3>4
  <2>7. UNCHANGED <<eager, recvVars, errors>>
    BY <1>15 DEF RecvPut, RetryPut
  <2>. QED  BY <2>3, <2>4, <2>5, <2>6, <2>7 DEF Types
<1>. QED  BY <1>1, <1>2, <1>3, <1>4, <1>5, <1>6, <1>7, <1>8, <1>9, <1>10, <1>11, <1>12,
             <1>13, <1>14, <1>15 DEF SendEvent, SendStep
LEMMA TypesRecv ==
    ASSUME Types, NEW t \in Context, RecvEvent(t) \/ RecvStep(t)
    PROVE  Types'
<1>. USE DEF RecvGoto, RecvPc, sendVars
<1>0. recvreq \in RecvReq /\ eager \in 0..Length
  BY DEF Types
<1>f. /\ recvreq.lock + 1 \in Int /\ recvreq.lock - 1 \in Int
      /\ recvreq.complete + 1 \in Int
      /\ recvreq.bytes_received + 1 \in Int /\ recvreq.bytes_received + 0 \in Int
      /\ recvreq.bytes_received + Length \in Int /\ recvreq.bytes_received + eager \in Int
      /\ recvreq.pipeline_depth + 1 \in Int /\ recvreq.pipeline_depth - 1 \in Int
      /\ recvreq.rdma_offset + 1 \in Nat
      /\ TRUE \in BOOLEAN /\ FALSE \in BOOLEAN
  <2>1. /\ recvreq.lock \in Int /\ recvreq.complete \in Int
        /\ recvreq.bytes_received \in Int /\ recvreq.pipeline_depth \in Int
        /\ recvreq.rdma_offset \in Nat
    BY <1>0, RecvReqFields
  <2>. QED  BY <1>0, <2>1
<1>1. CASE RecvCheck(t)
  <2>1. recvreq' \in {recvreq, [recvreq EXCEPT !.lock = @ + 1],
                      [[recvreq EXCEPT !.lock = @ + 1] EXCEPT !.complete = @ + 1]}
    BY <1>1 DEF RecvCheck, Locked
  <2>2. [recvreq EXCEPT !.lock = @ + 1] \in RecvReq
    BY <1>0, <1>f, RecvReqWith
  <2>3. [[recvreq EXCEPT !.lock = @ + 1] EXCEPT !.complete = @ + 1] \in RecvReq
    <3>. DEFINE r == [recvreq EXCEPT !.lock = @ + 1]
    <3>1. r \in RecvReq
      BY <2>2
    <3>. HIDE DEF r
    <3>2. r.complete + 1 \in Int
      BY <3>1, RecvReqFields
    <3>3. [r EXCEPT !.complete = @ + 1] \in RecvReq
      BY <3>1, <3>2, RecvReqWith
    <3>. QED  BY <3>3 DEF r
  <2>4. recvreq' \in RecvReq
    BY <1>0, <2>1, <2>2, <2>3
  <2>. QED  BY <1>1, <2>4 DEF Types, RecvCheck
<1>2. CASE RecvRndv(t)
  <2>1. PICK offset \in eager..Length :
          LET acks == offset < Length \/ eager = Length
              rest == network \ {[type |-> "RNDV"]}
          IN  /\ recvreq' = [recvreq EXCEPT !.match_received = TRUE, !.rdma_offset = eager,
                               !.send_offset = offset, !.ack_sent = acks]
              /\ IF acks THEN SendAck(rest, offset, offset = eager)
                         ELSE network' = rest /\ UNCHANGED failures
    BY <1>2 DEF RecvRndv
  <2>2. /\ offset \in 0..Length /\ eager \in Nat
        /\ (offset < Length \/ eager = Length) \in BOOLEAN
        /\ (offset = eager) \in BOOLEAN
    BY <1>0, <2>1
  <2>3. recvreq' \in RecvReq
    BY <1>0, <1>f, <2>1, <2>2, RecvReqWith
  <2>4. network' \subseteq Header
    <3>1. \A flag \in BOOLEAN : [type |-> "ACK", offset |-> offset, nordma |-> flag] \in Header
      BY <2>2, HeaderMade
    <3>2. (offset = eager) \in BOOLEAN /\ (network \ {[type |-> "RNDV"]}) \subseteq Header
      BY DEF Types
    <3>3. \/ network' = network \ {[type |-> "RNDV"]}
          \/ \E flag \in BOOLEAN : network' = (network \ {[type |-> "RNDV"]})
               \cup {[type |-> "ACK", offset |-> offset, nordma |-> flag]}
      BY <2>1, <3>2 DEF SendAck
    <3>. QED  BY <3>1, <3>2, <3>3
  <2>5. failures' \in 0..MaxFailures
    BY <2>1 DEF SendAck, Fails, Types
  <2>. QED  BY <1>2, <2>3, <2>4, <2>5 DEF Types, RecvRndv
<1>3. CASE RecvRget(t) \/ RetryGet(t)
  <2>0. PICK r \in {recvreq, [recvreq EXCEPT !.match_received = TRUE]} :
          \/ GetFrag(r) /\ network' \subseteq network
          \/ /\ recvreq' = [r EXCEPT !.ack_sent = TRUE]
             /\ SendAck(network \ {[type |-> "RGET"]}, 0, TRUE)
    BY <1>3 DEF RecvRget, RetryGet
  <2>1. r \in RecvReq
    BY <1>0, <1>f, <2>0, RecvReqWith
  <2>2. recvreq' \in RecvReq
    <3>1. recvreq' \in {[r EXCEPT !.get = "started"], [r EXCEPT !.get = "pending"],
                        [r EXCEPT !.ack_sent = TRUE]}
      BY <2>0 DEF GetFrag
    <3>2. "started" \in {"none", "pending", "started", "done"}
          /\ "pending" \in {"none", "pending", "started", "done"} /\ 0 \in Int
      OBVIOUS
    <3>. QED  BY <1>f, <2>1, <3>1, <3>2, RecvReqWith
  <2>3. network' \subseteq Header
    <3>1. \A flag \in BOOLEAN : [type |-> "ACK", offset |-> 0, nordma |-> flag] \in Header
      BY HeaderMade
    <3>. QED  BY <2>0, <3>1 DEF SendAck, Types
  <2>4. failures' \in 0..MaxFailures
    BY <2>0 DEF SendAck, GetFrag, Fails, Types
  <2>5. UNCHANGED <<eager, sendVars, rpc, written, errors>>
    BY <1>3 DEF RecvRget, RetryGet
  <2>. QED  BY <2>2, <2>3, <2>4, <2>5 DEF Types
<1>4. CASE RgetCompletion(t)
  <2>1. recvreq' = [recvreq EXCEPT !.get = "done", !.bytes_received = @ + Length]
    BY <1>4 DEF RgetCompletion
  <2>2. "done" \in {"none", "pending", "started", "done"}
    OBVIOUS
  <2>3. recvreq' \in RecvReq
    BY <1>0, <1>f, <2>1, <2>2, RecvReqWith
  <2>4. network' \subseteq Header /\ written' \in [Frag -> Nat]
    BY <1>4, HeaderMade DEF RgetCompletion, Writes, Types
  <2>. QED  BY <1>4, <2>3, <2>4 DEF Types, RgetCompletion
<1>5. CASE RecvFrag(t)
  <2>1. recvreq' = [recvreq EXCEPT !.bytes_received = @ + 1]
    BY <1>5 DEF RecvFrag
  <2>2. recvreq' \in RecvReq
    BY <1>0, <1>f, <2>1, RecvReqWith
  <2>3. network' \subseteq Header /\ written' \in [Frag -> Nat]
    BY <1>5 DEF RecvFrag, Writes, Types
  <2>. QED  BY <1>5, <2>2, <2>3 DEF Types, RecvFrag
<1>6. CASE RecvFin(t)
  <2>1. PICK m \in network :
          /\ network' = network \ {m}
          /\ recvreq' = [recvreq EXCEPT !.pipeline_depth = @ - 1,
                                        !.bytes_received = @ + BytesOf(m)]
    BY <1>6 DEF RecvFin
  <2>2. recvreq.bytes_received + BytesOf(m) \in Int
    BY <1>f DEF BytesOf
  <2>3. recvreq' \in RecvReq
    BY <1>0, <1>f, <2>1, <2>2, RecvReqWith
  <2>. QED  BY <1>6, <2>1, <2>3 DEF Types, RecvFin
<1>7. CASE RecvPending(t)
  <2>1. recvreq' = [recvreq EXCEPT !.pending = FALSE]
    BY <1>7 DEF RecvPending
  <2>2. recvreq' \in RecvReq
    BY <1>0, <1>f, <2>1, RecvReqWith
  <2>. QED  BY <1>7, <2>2 DEF Types, RecvPending
<1>8. CASE AddEager(t)
  <2>1. recvreq' = [recvreq EXCEPT !.bytes_received = @ + eager]
    BY <1>8 DEF AddEager
  <2>2. recvreq' \in RecvReq
    BY <1>0, <1>f, <2>1, RecvReqWith
  <2>3. written' \in [Frag -> Nat]
    BY <1>8 DEF AddEager, Writes, Types
  <2>. QED  BY <1>8, <2>2, <2>3 DEF Types, AddEager
<1>9. CASE RecvSchedule(t)
  <2>1. recvreq' = [recvreq EXCEPT !.lock = @ + 1]
    BY <1>9 DEF RecvSchedule, Locked
  <2>2. recvreq' \in RecvReq
    BY <1>0, <1>f, <2>1, RecvReqWith
  <2>. QED  BY <1>9, <2>2 DEF Types, RecvSchedule
<1>10. CASE AskPut(t)
  <2>1. recvreq' = [recvreq EXCEPT !.ack_sent = TRUE]
    BY <1>10 DEF AskPut
  <2>2. recvreq' \in RecvReq
    BY <1>0, <1>f, <2>1, RecvReqWith
  <2>3. recvreq.rdma_offset \in Frag /\ (~recvreq.ack_sent) \in BOOLEAN
    BY <1>0, <1>10, RecvReqFields DEF AskPut, MayAsk, Frag
  <2>4. network' \subseteq Header
    BY <1>10, <2>3, HeaderMade DEF AskPut, Types
  <2>. QED  BY <1>10, <2>2, <2>4 DEF Types, AskPut
<1>11. CASE PutSent(t)
  <2>1. recvreq' = [recvreq EXCEPT !.rdma_offset = @ + 1, !.pipeline_depth = @ + 1]
    BY <1>11 DEF PutSent
  <2>2. recvreq' \in RecvReq
    BY <1>0, <1>f, <2>1, RecvReqWith
  <2>. QED  BY <1>11, <2>2 DEF Types, PutSent
<1>12. CASE AskRefused(t)
  <2>1. recvreq' = [recvreq EXCEPT !.ack_sent = TRUE]
    BY <1>12 DEF AskRefused
  <2>2. recvreq' \in RecvReq
    BY <1>0, <1>f, <2>1, RecvReqWith
  <2>. QED  BY <1>12, <2>2 DEF Types, AskRefused
<1>13. CASE RecvPutOff(t)
  <2>1. recvreq' = [recvreq EXCEPT !.pending = TRUE]
    BY <1>13 DEF RecvPutOff, PutOff
  <2>2. recvreq' \in RecvReq
    BY <1>0, <1>f, <2>1, RecvReqWith
  <2>. QED  BY <1>13, <2>2 DEF Types, RecvPutOff, Fails
<1>14. CASE RecvStop(t)
  BY <1>14 DEF Types, RecvStop
<1>15. CASE RecvUnlock(t)
  <2>1. recvreq' = [recvreq EXCEPT !.lock = @ - 1]
    BY <1>15 DEF RecvUnlock, Unlocked
  <2>2. recvreq' \in RecvReq
    BY <1>0, <1>f, <2>1, RecvReqWith
  <2>. QED  BY <1>15, <2>2 DEF Types, RecvUnlock
<1>. QED  BY <1>1, <1>2, <1>3, <1>4, <1>5, <1>6, <1>7, <1>8, <1>9, <1>10, <1>11, <1>12,
             <1>13, <1>14, <1>15 DEF RecvEvent, RecvStep
----------------------------------------------------------------------------
(* A request is in one hand *)

Busy == {"once", "sent", "unlock"}

Pc == SendPc \cup RecvPc

\* The lock counts whoever came since it was free: it is free when nobody has
\* the request, no list, no context, and not the application.
Hand(lock, pending, complete, pc) ==
    /\ lock \in Nat
    /\ complete \in {0, 1}
    /\ \A t, u \in Context : pc[t] \in Busy /\ pc[u] \in Busy => t = u
    /\ pending => \A t \in Context : pc[t] \notin Busy
    /\ complete = 1 => ~pending /\ \A t \in Context : pc[t] \notin Busy
    /\ lock = 0 <=> /\ ~pending /\ complete = 0
                    /\ \A t \in Context : pc[t] \notin Busy

Hands == /\ Hand(sendreq.lock, sendreq.pending, sendreq.complete, spc)
         /\ Hand(recvreq.lock, recvreq.pending, recvreq.complete, rpc)

\* A context that has not got the request: it comes and goes; or it comes for
\* the lock, for scheduling or to complete the request; or it takes the request
\* off the list.
LEMMA HandOutside ==
    ASSUME NEW pc \in [Context -> Pc], NEW t \in Context, pc[t] \notin Busy,
           NEW lock, NEW pending \in BOOLEAN, NEW complete,
           Hand(lock, pending, complete, pc), NEW l \in Pc
    PROVE  /\ l \notin Busy => Hand(lock, pending, complete, [pc EXCEPT ![t] = l])
           /\ l \in Busy /\ lock = 0
                => Hand(lock + 1, pending, complete, [pc EXCEPT ![t] = l])
           /\ l \notin Busy /\ lock # 0
                => Hand(lock + 1, pending, complete, [pc EXCEPT ![t] = l])
           /\ l \notin Busy /\ lock = 0
                => Hand(lock + 1, pending, complete + 1, [pc EXCEPT ![t] = l])
           /\ l \in Busy /\ pending
                => Hand(lock, FALSE, complete, [pc EXCEPT ![t] = l])
<1>. DEFINE qc == [pc EXCEPT ![t] = l]
<1>1. qc[t] = l /\ \A u \in Context : u # t => qc[u] = pc[u]
  OBVIOUS
<1>2. /\ lock \in Nat /\ complete \in {0, 1}
      /\ \A v, u \in Context : pc[v] \in Busy /\ pc[u] \in Busy => v = u
      /\ pending => \A v \in Context : pc[v] \notin Busy
      /\ complete = 1 => ~pending /\ \A v \in Context : pc[v] \notin Busy
      /\ lock = 0 <=> /\ ~pending /\ complete = 0
                      /\ \A v \in Context : pc[v] \notin Busy
  BY DEF Hand
<1>. HIDE DEF qc, Busy
<1>3. l \notin Busy => Hand(lock, pending, complete, qc)
  <2>. SUFFICES ASSUME l \notin Busy PROVE Hand(lock, pending, complete, qc)
    OBVIOUS
  <2>1. \A v \in Context : qc[v] \in Busy <=> pc[v] \in Busy
    BY <1>1
  <2>. QED  BY <1>2, <2>1 DEF Hand
<1>4. l \in Busy /\ lock = 0 => Hand(lock + 1, pending, complete, qc)
  <2>. SUFFICES ASSUME l \in Busy, lock = 0 PROVE Hand(lock + 1, pending, complete, qc)
    OBVIOUS
  <2>1. \A v \in Context : qc[v] \in Busy <=> v = t
    BY <1>1, <1>2
  <2>. QED  BY <1>2, <2>1 DEF Hand
<1>5. l \notin Busy /\ lock # 0 => Hand(lock + 1, pending, complete, qc)
  <2>. SUFFICES ASSUME l \notin Busy, lock # 0 PROVE Hand(lock + 1, pending, complete, qc)
    OBVIOUS
  <2>1. \A v \in Context : qc[v] \in Busy <=> pc[v] \in Busy
    BY <1>1
  <2>2. lock + 1 # 0 /\ lock + 1 \in Nat
    BY <1>2
  <2>. QED  BY <1>2, <2>1, <2>2 DEF Hand
<1>6. l \notin Busy /\ lock = 0 => Hand(lock + 1, pending, complete + 1, qc)
  <2>. SUFFICES ASSUME l \notin Busy, lock = 0 PROVE Hand(lock + 1, pending, complete + 1, qc)
    OBVIOUS
  <2>1. \A v \in Context : qc[v] \notin Busy
    BY <1>1, <1>2
  <2>. QED  BY <1>2, <2>1 DEF Hand
<1>7. l \in Busy /\ pending => Hand(lock, FALSE, complete, qc)
  <2>. SUFFICES ASSUME l \in Busy, pending PROVE Hand(lock, FALSE, complete, qc)
    OBVIOUS
  <2>1. \A v \in Context : qc[v] \in Busy <=> v = t
    BY <1>1, <1>2
  <2>. QED  BY <1>2, <2>1 DEF Hand
<1>. QED  BY <1>3, <1>4, <1>5, <1>6, <1>7 DEF qc

\* A context that has the request: it goes on with it; or it puts it on the
\* list; or it gives up the lock, if nobody came meanwhile.
LEMMA HandInside ==
    ASSUME NEW pc \in [Context -> Pc], NEW t \in Context, pc[t] \in Busy,
           NEW lock, NEW pending \in BOOLEAN, NEW complete,
           Hand(lock, pending, complete, pc), NEW l \in Pc
    PROVE  /\ l \in Busy => Hand(lock, pending, complete, [pc EXCEPT ![t] = l])
           /\ l \notin Busy => Hand(lock, TRUE, complete, [pc EXCEPT ![t] = l])
           /\ l \notin Busy /\ lock = 1
                => Hand(lock - 1, pending, complete, [pc EXCEPT ![t] = l])
           /\ l \in Busy /\ lock # 1
                => Hand(lock - 1, pending, complete, [pc EXCEPT ![t] = l])
<1>. DEFINE qc == [pc EXCEPT ![t] = l]
<1>1. qc[t] = l /\ \A u \in Context : u # t => qc[u] = pc[u]
  OBVIOUS
<1>2. /\ lock \in Nat /\ lock # 0 /\ complete = 0 /\ ~pending
      /\ \A v \in Context : pc[v] \in Busy <=> v = t
  BY DEF Hand
<1>. HIDE DEF qc, Busy
<1>3. l \in Busy => \A v \in Context : qc[v] \in Busy <=> v = t
  BY <1>1, <1>2
<1>4. l \notin Busy => \A v \in Context : qc[v] \notin Busy
  BY <1>1, <1>2
<1>5. l \in Busy => Hand(lock, pending, complete, qc)
  BY <1>2, <1>3 DEF Hand
<1>6. l \notin Busy => Hand(lock, TRUE, complete, qc)
  BY <1>2, <1>4 DEF Hand
<1>7. l \notin Busy /\ lock = 1 => Hand(lock - 1, pending, complete, qc)
  <2>1. lock = 1 => lock - 1 = 0
    OBVIOUS
  <2>. QED  BY <1>2, <1>4, <2>1 DEF Hand
<1>8. l \in Busy /\ lock # 1 => Hand(lock - 1, pending, complete, qc)
  <2>1. lock # 1 => lock - 1 \in Nat /\ lock - 1 # 0
    BY <1>2
  <2>. QED  BY <1>2, <1>3, <2>1 DEF Hand
<1>. QED  BY <1>5, <1>6, <1>7, <1>8 DEF qc
LEMMA HandsInit == Init => Hands
  BY DEF Init, Hands, Hand, Busy

LEMMA HandsSend ==
    ASSUME Types, Hands, NEW t \in Context, SendEvent(t) \/ SendStep(t)
    PROVE  Hands'
<1>. DEFINE H(lock, pending, complete, l) ==
              Hand(lock, pending, complete, [spc EXCEPT ![t] = l])
<1>0. /\ sendreq \in SendReq /\ sendreq.pending \in BOOLEAN
      /\ sendreq.lock \in Int /\ sendreq.complete \in Int
      /\ spc \in [Context -> Pc] /\ spc[t] \in Pc
      /\ Hand(sendreq.lock, sendreq.pending, sendreq.complete, spc)
  BY DEF Types, SendReq, Pc, Hands
<1>1. recvreq' = recvreq /\ rpc' = rpc
  BY DEF SendEvent, SendStep, SendCheck, RndvCompletion, FragCompletion, PutCompletion,
         RgetDelivered, RecvAck, AckState, SendSchedule, SendFrag, FragSent, SendPutOff,
         SendStop, SendUnlock, SendPending, RecvPut, RetryPut, Fallback, recvVars
<1>2. SUFFICES Hand(sendreq'.lock, sendreq'.pending, sendreq'.complete, spc')
  BY <1>1 DEF Hands
<1>3. PICK l \in Pc : spc' = [spc EXCEPT ![t] = l]
  <2>1. spc' = [spc EXCEPT ![t] = spc'[t]] /\ spc'[t] \in Pc
    BY <1>0 DEF Pc, SendPc, RecvPc, SendEvent, SendStep, SendCheck, RndvCompletion, FragCompletion, PutCompletion,
           RgetDelivered, RecvAck, AckState, SendSchedule, SendFrag, FragSent, SendPutOff,
           SendStop, SendUnlock, SendPending, RecvPut, RetryPut, Fallback, SendGoto, PutFrag
  <2>. QED  BY <2>1
<1>l. spc'[t] = l
  BY <1>0, <1>3
<1>. DEFINE lock == sendreq'.lock
            pending == sendreq'.pending
            complete == sendreq'.complete
<1>m. SUFFICES H(lock, pending, complete, l)
  BY <1>2, <1>3
<1>. HIDE DEF lock, pending, complete
<1>4. ASSUME spc[t] \notin Busy, l \notin Busy, lock = sendreq.lock,
             pending = sendreq.pending, complete = sendreq.complete
      PROVE  H(lock, pending, complete, l)
  BY <1>0, <1>4, HandOutside
<1>5. CASE SendCheck(t)
  <2>1. spc[t] \notin Busy
    BY <1>5 DEF SendCheck, Busy
  <2>2. CASE SendFinished(sendreq)
    <3>1. lock = sendreq.lock + 1 /\ pending = sendreq.pending
          /\ complete = IF sendreq.lock = 0 THEN sendreq.complete + 1 ELSE sendreq.complete
      BY <1>0, <1>5, <2>2 DEF lock, pending, complete, SendCheck, Locked, TryLock, SendReq
    <3>2. l \notin Busy
      BY <1>0, <1>l, <1>5 DEF SendCheck, SendGoto, Busy
    <3>. QED  BY <1>0, <2>1, <3>1, <3>2, HandOutside
  <2>3. CASE ~SendFinished(sendreq)
    <3>1. l \notin Busy
      BY <1>0, <1>l, <1>5 DEF SendCheck, SendGoto, Busy
    <3>. QED  BY <1>4, <1>5, <2>1, <2>3, <3>1 DEF lock, pending, complete, SendCheck
  <2>. QED  BY <2>2, <2>3
<1>6. CASE \/ RndvCompletion(t) \/ FragCompletion(t) \/ PutCompletion(t)
           \/ RgetDelivered(t) \/ RecvAck(t) \/ AckState(t)
  <2>1. spc[t] \notin Busy /\ l \notin Busy
    BY <1>0, <1>l, <1>6 DEF RndvCompletion, FragCompletion, PutCompletion, RgetDelivered,
                            RecvAck, AckState, SendGoto, Busy
  <2>2. lock = sendreq.lock /\ pending = sendreq.pending /\ complete = sendreq.complete
    BY <1>0, <1>6 DEF lock, pending, complete, RndvCompletion, FragCompletion, PutCompletion, RgetDelivered,
                            RecvAck, AckState, SendReq
  <2>. QED  BY <1>4, <2>1, <2>2
<1>7. CASE RecvPut(t) \/ RetryPut(t)
  <2>1. spc[t] \notin Busy /\ l \notin Busy
    BY <1>0, <1>l, <1>7 DEF RecvPut, RetryPut, PutFrag, SendGoto, Busy
  <2>2. lock = sendreq.lock /\ pending = sendreq.pending /\ complete = sendreq.complete
    BY <1>0, <1>7 DEF lock, pending, complete, RecvPut, RetryPut, PutFrag, GiveUp, SendReq
  <2>. QED  BY <1>4, <2>1, <2>2
<1>8. CASE Fallback(t)
  <2>1. spc[t] \notin Busy /\ l \notin Busy
    BY <1>0, <1>l, <1>8 DEF Fallback, SendGoto, Busy
  <2>. QED  BY <1>4, <1>8, <2>1 DEF lock, pending, complete, Fallback
<1>9. CASE SendSchedule(t)
  <2>1. spc[t] \notin Busy /\ l = IF sendreq.lock = 0 THEN "once" ELSE "idle"
    BY <1>0, <1>l, <1>9 DEF SendSchedule, SendGoto, Busy, TryLock
  <2>2. lock = sendreq.lock + 1 /\ pending = sendreq.pending /\ complete = sendreq.complete
    BY <1>0, <1>9 DEF lock, pending, complete, SendSchedule, Locked, SendReq
  <2>3. "once" \in Busy /\ "idle" \notin Busy
    BY DEF Busy
  <2>. QED  BY <1>0, <2>1, <2>2, <2>3, HandOutside
<1>10. CASE SendFrag(t) \/ FragSent(t) \/ SendStop(t)
  <2>1. spc[t] \in Busy /\ l \in Busy
    BY <1>0, <1>l, <1>10 DEF SendFrag, FragSent, SendStop, SendGoto, Busy
  <2>2. lock = sendreq.lock /\ pending = sendreq.pending /\ complete = sendreq.complete
    BY <1>0, <1>10 DEF lock, pending, complete, SendFrag, FragSent, SendStop, SendReq
  <2>. QED  BY <1>0, <2>1, <2>2, HandInside
<1>11. CASE SendPutOff(t)
  <2>1. spc[t] \in Busy /\ l \notin Busy
    BY <1>0, <1>l, <1>11 DEF SendPutOff, SendGoto, Busy
  <2>2. lock = sendreq.lock /\ pending = TRUE /\ complete = sendreq.complete
    BY <1>0, <1>11 DEF lock, pending, complete, SendPutOff, PutOff, SendReq
  <2>. QED  BY <1>0, <2>1, <2>2, HandInside
<1>12. CASE SendUnlock(t)
  <2>1. spc[t] \in Busy /\ l = IF sendreq.lock = 1 THEN "check" ELSE "once"
    BY <1>0, <1>l, <1>12 DEF SendUnlock, SendGoto, Busy
  <2>2. lock = sendreq.lock - 1 /\ pending = sendreq.pending /\ complete = sendreq.complete
    BY <1>0, <1>12 DEF lock, pending, complete, SendUnlock, Unlocked, SendReq
  <2>3. "once" \in Busy /\ "check" \notin Busy
    BY DEF Busy
  <2>. QED  BY <1>0, <2>1, <2>2, <2>3, HandInside
<1>13. CASE SendPending(t)
  <2>1. spc[t] \notin Busy /\ l \in Busy /\ sendreq.pending
    BY <1>0, <1>l, <1>13 DEF SendPending, SendGoto, Busy
  <2>2. lock = sendreq.lock /\ pending = FALSE /\ complete = sendreq.complete
    BY <1>0, <1>13 DEF lock, pending, complete, SendPending, SendReq
  <2>. QED  BY <1>0, <2>1, <2>2, HandOutside
<1>. QED  BY <1>5, <1>6, <1>7, <1>8, <1>9, <1>10, <1>11, <1>12, <1>13
          DEF SendEvent, SendStep

LEMMA HandsRecv ==
    ASSUME Types, Hands, NEW t \in Context, RecvEvent(t) \/ RecvStep(t)
    PROVE  Hands'
<1>. DEFINE H(lock, pending, complete, l) ==
              Hand(lock, pending, complete, [rpc EXCEPT ![t] = l])
<1>0. /\ recvreq \in RecvReq /\ recvreq.pending \in BOOLEAN
      /\ recvreq.lock \in Int /\ recvreq.complete \in Int
      /\ rpc \in [Context -> Pc] /\ rpc[t] \in Pc
      /\ Hand(recvreq.lock, recvreq.pending, recvreq.complete, rpc)
  BY DEF Types, RecvReq, Pc, Hands
<1>1. sendreq' = sendreq /\ spc' = spc
  BY DEF RecvEvent, RecvStep, RecvRndv, RecvRget, RetryGet, RgetCompletion, RecvFrag,
         RecvFin, RecvPending, AddEager, RecvCheck, RecvSchedule, AskPut, PutSent,
         AskRefused, RecvPutOff, RecvStop, RecvUnlock, sendVars
<1>2. SUFFICES Hand(recvreq'.lock, recvreq'.pending, recvreq'.complete, rpc')
  BY <1>1 DEF Hands
<1>3. PICK l \in Pc : rpc' = [rpc EXCEPT ![t] = l]
  <2>1. rpc' = [rpc EXCEPT ![t] = rpc'[t]] /\ rpc'[t] \in Pc
    BY <1>0 DEF Pc, SendPc, RecvPc, RecvEvent, RecvStep, RecvRndv, RecvRget, RetryGet, RgetCompletion, RecvFrag,
           RecvFin, RecvPending, AddEager, RecvCheck, RecvSchedule, AskPut, PutSent,
           AskRefused, RecvPutOff, RecvStop, RecvUnlock, RecvGoto
  <2>. QED  BY <2>1
<1>l. rpc'[t] = l
  BY <1>0, <1>3
<1>. DEFINE lock == recvreq'.lock
            pending == recvreq'.pending
            complete == recvreq'.complete
<1>m. SUFFICES H(lock, pending, complete, l)
  BY <1>2, <1>3
<1>. HIDE DEF lock, pending, complete
<1>4. ASSUME rpc[t] \notin Busy, l \notin Busy, lock = recvreq.lock,
             pending = recvreq.pending, complete = recvreq.complete
      PROVE  H(lock, pending, complete, l)
  BY <1>0, <1>4, HandOutside
<1>5. CASE RecvCheck(t)
  <2>1. rpc[t] \notin Busy
    BY <1>5 DEF RecvCheck, Busy
  <2>2. CASE RecvFinished(recvreq)
    <3>1. lock = recvreq.lock + 1 /\ pending = recvreq.pending
          /\ complete = IF recvreq.lock = 0 THEN recvreq.complete + 1 ELSE recvreq.complete
      BY <1>0, <1>5, <2>2 DEF lock, pending, complete, RecvCheck, Locked, TryLock, RecvReq
    <3>2. l \notin Busy
      BY <1>0, <1>l, <1>5 DEF RecvCheck, RecvGoto, Busy
    <3>. QED  BY <1>0, <2>1, <3>1, <3>2, HandOutside
  <2>3. CASE ~RecvFinished(recvreq)
    <3>1. l \notin Busy
      BY <1>0, <1>l, <1>5 DEF RecvCheck, RecvGoto, Busy
    <3>. QED  BY <1>4, <1>5, <2>1, <2>3, <3>1 DEF lock, pending, complete, RecvCheck
  <2>. QED  BY <2>2, <2>3
<1>6. CASE RecvRndv(t) \/ RgetCompletion(t) \/ RecvFrag(t) \/ RecvFin(t) \/ AddEager(t)
  <2>1. rpc[t] \notin Busy /\ l \notin Busy
    BY <1>0, <1>l, <1>6 DEF RecvRndv, RgetCompletion, RecvFrag, RecvFin, AddEager,
                            RecvGoto, Busy
  <2>2. lock = recvreq.lock /\ pending = recvreq.pending /\ complete = recvreq.complete
    BY <1>0, <1>6 DEF lock, pending, complete, RecvRndv, RgetCompletion, RecvFrag, RecvFin, AddEager, RecvReq
  <2>. QED  BY <1>4, <2>1, <2>2
<1>7. CASE RecvRget(t) \/ RetryGet(t)
  <2>1. rpc[t] = "idle" /\ l = "idle"
    BY <1>0, <1>l, <1>7 DEF RecvRget, RetryGet
  <2>2. lock = recvreq.lock /\ pending = recvreq.pending /\ complete = recvreq.complete
    BY <1>0, <1>7 DEF lock, pending, complete, RecvRget, RetryGet, GetFrag, RecvReq
  <2>. QED  BY <1>4, <2>1, <2>2 DEF Busy
<1>9. CASE RecvSchedule(t)
  <2>1. rpc[t] \notin Busy /\ l = IF recvreq.lock = 0 THEN "once" ELSE "idle"
    BY <1>0, <1>l, <1>9 DEF RecvSchedule, RecvGoto, Busy, TryLock
  <2>2. lock = recvreq.lock + 1 /\ pending = recvreq.pending /\ complete = recvreq.complete
    BY <1>0, <1>9 DEF lock, pending, complete, RecvSchedule, Locked, RecvReq
  <2>3. "once" \in Busy /\ "idle" \notin Busy
    BY DEF Busy
  <2>. QED  BY <1>0, <2>1, <2>2, <2>3, HandOutside
<1>10. CASE AskPut(t) \/ PutSent(t) \/ RecvStop(t) \/ AskRefused(t)
  <2>1. rpc[t] \in Busy /\ l \in Busy
    BY <1>0, <1>l, <1>10 DEF AskPut, PutSent, RecvStop, AskRefused, RecvGoto, Busy
  <2>2. lock = recvreq.lock /\ pending = recvreq.pending /\ complete = recvreq.complete
    BY <1>0, <1>10 DEF lock, pending, complete, AskPut, PutSent, RecvStop, AskRefused, RecvReq
  <2>. QED  BY <1>0, <2>1, <2>2, HandInside
<1>11. CASE RecvPutOff(t)
  <2>1. rpc[t] \in Busy /\ l \notin Busy
    BY <1>0, <1>l, <1>11 DEF RecvPutOff, RecvGoto, Busy
  <2>2. lock = recvreq.lock /\ pending = TRUE /\ complete = recvreq.complete
    BY <1>0, <1>11 DEF lock, pending, complete, RecvPutOff, PutOff, RecvReq
  <2>. QED  BY <1>0, <2>1, <2>2, HandInside
<1>12. CASE RecvUnlock(t)
  <2>1. rpc[t] \in Busy /\ l = IF recvreq.lock = 1 THEN "check" ELSE "once"
    BY <1>0, <1>l, <1>12 DEF RecvUnlock, RecvGoto, Busy
  <2>2. lock = recvreq.lock - 1 /\ pending = recvreq.pending /\ complete = recvreq.complete
    BY <1>0, <1>12 DEF lock, pending, complete, RecvUnlock, Unlocked, RecvReq
  <2>3. "once" \in Busy /\ "check" \notin Busy
    BY DEF Busy
  <2>. QED  BY <1>0, <2>1, <2>2, <2>3, HandInside
<1>13. CASE RecvPending(t)
  <2>1. rpc[t] \notin Busy /\ l \in Busy /\ recvreq.pending
    BY <1>0, <1>l, <1>13 DEF RecvPending, RecvGoto, Busy
  <2>2. lock = recvreq.lock /\ pending = FALSE /\ complete = recvreq.complete
    BY <1>0, <1>13 DEF lock, pending, complete, RecvPending, RecvReq
  <2>. QED  BY <1>0, <2>1, <2>2, HandOutside
<1>. QED  BY <1>5, <1>6, <1>7, <1>9, <1>10, <1>11, <1>12, <1>13 DEF RecvEvent, RecvStep
----------------------------------------------------------------------------
(* The invariant *)

\* A fragment that is just being sent is still the first of the ranges.
SentHasRanges == (\E t \in Context : spc[t] = "sent") => sendreq.ranges # <<>>

HandInv == Types /\ Hands /\ SentHasRanges

LEMMA RangesInit == Init => SentHasRanges
  BY DEF Init, SentHasRanges

LEMMA RangesSend ==
    ASSUME HandInv, NEW t \in Context, SendEvent(t) \/ SendStep(t)
    PROVE  SentHasRanges'
<1>0. /\ sendreq \in SendReq /\ sendreq.ranges \in FragSeq
      /\ spc \in [Context -> SendPc]
  BY DEF HandInv, Types, SendReq
<1>. SUFFICES ASSUME NEW u \in Context, spc'[u] = "sent"
              PROVE  sendreq'.ranges # <<>>
  BY DEF SentHasRanges
<1>1. CASE SendFrag(t)
  BY <1>1 DEF SendFrag, MaySend
<1>2. CASE FragSent(t)
  <2>1. u # t /\ spc[u] = "sent"
    BY <1>0, <1>2 DEF FragSent, SendGoto
  <2>. QED  BY <1>2, <2>1 DEF HandInv, Hands, Hand, Busy, FragSent
<1>3. CASE RecvAck(t)
  <2>1. spc[u] = "sent"
    BY <1>0, <1>3 DEF RecvAck, SendGoto
  <2>2. PICK m \in network : m.type = "ACK"
                             /\ sendreq'.ranges = sendreq.ranges \o Succession(m.offset)
    BY <1>0, <1>3 DEF RecvAck, SendReq
  <2>3. Succession(m.offset) \in Seq(Frag)
    BY <2>2, HeaderFields, SuccessionIs DEF HandInv, Types
  <2>. QED  BY <1>0, <2>1, <2>2, <2>3 DEF HandInv, SentHasRanges, FragSeq
<1>4. CASE RecvPut(t) \/ RetryPut(t)
  <2>1. spc[u] = "sent"
    BY <1>0, <1>4 DEF RecvPut, RetryPut, PutFrag, SendGoto
  <2>2. sendreq.ranges # <<>>
    BY <2>1 DEF HandInv, SentHasRanges
  <2>3. sendreq'.ranges = sendreq.ranges
        \/ \E b : sendreq'.ranges = Append(sendreq.ranges, b)
    BY ZenonT(40), <1>0, <1>4 DEF RecvPut, RetryPut, PutFrag, GiveUp, SendReq
  <2>4. \A b : Append(sendreq.ranges, b) # <<>>
    BY <1>0 DEF FragSeq
  <2>. QED  BY <2>2, <2>3, <2>4
<1>5. CASE \/ SendCheck(t) \/ RndvCompletion(t) \/ FragCompletion(t) \/ PutCompletion(t)
           \/ RgetDelivered(t) \/ AckState(t) \/ SendSchedule(t) \/ SendPutOff(t)
           \/ SendStop(t) \/ SendUnlock(t) \/ SendPending(t) \/ Fallback(t)
  <2>1. spc[u] = "sent"
    BY <1>0, <1>5 DEF SendCheck, RndvCompletion, FragCompletion, PutCompletion,
         RgetDelivered, AckState, SendSchedule, SendPutOff, SendStop, SendUnlock,
         SendPending, Fallback, SendGoto
  <2>2. sendreq'.ranges = sendreq.ranges
    BY <1>0, <1>5 DEF SendCheck, RndvCompletion, FragCompletion, PutCompletion,
         RgetDelivered, AckState, SendSchedule, SendPutOff, SendStop, SendUnlock,
         SendPending, Fallback, Locked, Unlocked, PutOff, SendReq
  <2>. QED  BY <2>1, <2>2 DEF HandInv, SentHasRanges
<1>. QED  BY <1>1, <1>2, <1>3, <1>4, <1>5 DEF SendEvent, SendStep

LEMMA RangesRecv ==
    ASSUME SentHasRanges, NEW t \in Context, RecvEvent(t) \/ RecvStep(t)
    PROVE  SentHasRanges'
<1>1. UNCHANGED <<sendreq, spc>>
  BY DEF RecvEvent, RecvStep, RecvRndv, RecvRget, RetryGet, RgetCompletion, RecvFrag,
         RecvFin, RecvPending, AddEager, RecvCheck, RecvSchedule, AskPut, PutSent,
         AskRefused, RecvPutOff, RecvStop, RecvUnlock, sendVars
<1>. QED  BY <1>1 DEF SentHasRanges

LEMMA HandInvNext == HandInv /\ [Next]_vars => HandInv'
<1>. SUFFICES ASSUME HandInv, [Next]_vars PROVE HandInv'
  OBVIOUS
<1>1. CASE UNCHANGED vars
  BY <1>1 DEF HandInv, Types, Hands, SentHasRanges, vars, sendVars, recvVars
<1>2. ASSUME NEW t \in Context, SendEvent(t) \/ SendStep(t) PROVE HandInv'
  <2>1. spc[t] = "sent" => sendreq.ranges # <<>>
    BY DEF HandInv, SentHasRanges
  <2>. QED  BY <1>2, <2>1, TypesSend, HandsSend, RangesSend DEF HandInv
<1>3. ASSUME NEW t \in Context, RecvEvent(t) \/ RecvStep(t) PROVE HandInv'
  BY <1>3, TypesRecv, HandsRecv, RangesRecv DEF HandInv
<1>. QED  BY <1>1, <1>2, <1>3 DEF Next

THEOREM HandInvariant == Spec => []HandInv
<1>1. Init => HandInv
  BY TypesInit, HandsInit, RangesInit DEF HandInv
<1>. QED  BY <1>1, HandInvNext, PTL DEF Spec

\* Of scheduling, waiting on a list and being complete a request does one at
\* most, and it is completed once: the counts of InOneHand.
LEMMA HoldersOfHand ==
    ASSUME NEW req, req.pending \in BOOLEAN, NEW pc,
           Hand(req.lock, req.pending, req.complete, pc)
    PROVE  Holders(req, pc) <= 1
<1>. DEFINE Here == {t \in Context : pc[t] \in Busy}
<1>1. CASE Here = {}
  <2>1. Cardinality(Here) = 0
    BY <1>1, FS_EmptySet, Zenon
  <2>. QED  BY <2>1 DEF Holders, Hand, Is, Busy
<1>2. CASE Here # {}
  <2>1. PICK t \in Here : TRUE
    BY <1>2
  <2>2. Here = {t}
    BY <2>1 DEF Hand
  <2>3. Cardinality(Here) = 1
    BY <2>2, FS_Singleton, Zenon
  <2>4. req.complete = 0 /\ ~req.pending
    BY <2>1 DEF Hand
  <2>. QED  BY <2>3, <2>4 DEF Holders, Is, Busy
<1>. QED  BY <1>1, <1>2

\* Whatever comes while a request is scheduled, one context at most schedules it,
\* and it completes once, with no context at it (the lock of lock_send_request() and
\* lock_recv_request(), "Only allow one thread in this routine").
THEOREM InOneHandInvariant == Spec => []InOneHand
<1>1. HandInv => InOneHand
  <2>. SUFFICES ASSUME HandInv PROVE InOneHand
    OBVIOUS
  <2>1. sendreq.pending \in BOOLEAN /\ recvreq.pending \in BOOLEAN
    BY DEF HandInv, Types, SendReq, RecvReq
  <2>2. Holders(sendreq, spc) <= 1
    BY <2>1, HoldersOfHand DEF HandInv, Hands
  <2>3. Holders(recvreq, rpc) <= 1
    BY <2>1, HoldersOfHand DEF HandInv, Hands
  <2>. QED  BY <2>2, <2>3 DEF InOneHand
<1>. QED  BY <1>1, HandInvariant, PTL

----------------------------------------------------------------------------
(* Sequences of fragments *)

Lists(s, c) == \E i \in DOMAIN s : s[i] = c
Distinct(s) == \A i, j \in DOMAIN s : s[i] = s[j] => i = j

LEMMA AppendLists ==
    ASSUME NEW s \in FragSeq, NEW b \in Frag
    PROVE  /\ Append(s, b) \in FragSeq
           /\ \A c : Lists(Append(s, b), c) <=> Lists(s, c) \/ c = b
           /\ Distinct(s) /\ ~Lists(s, b) => Distinct(Append(s, b))
           /\ s # <<>> => Tail(Append(s, b)) = Append(Tail(s), b)
<1>1. /\ Append(s, b) \in FragSeq /\ Len(Append(s, b)) = Len(s) + 1
      /\ \A i \in 1..Len(s) : Append(s, b)[i] = s[i]
      /\ Append(s, b)[Len(s) + 1] = b
      /\ DOMAIN s = 1..Len(s) /\ Len(s) \in Nat
      /\ DOMAIN Append(s, b) = 1..Len(s) + 1
  BY DEF FragSeq
<1>2. \A c : Lists(Append(s, b), c) <=> Lists(s, c) \/ c = b
  <2>. TAKE c
  <2>1. Lists(Append(s, b), c) => Lists(s, c) \/ c = b
    <3>. SUFFICES ASSUME NEW i \in 1..Len(s) + 1, Append(s, b)[i] = c
                  PROVE  Lists(s, c) \/ c = b
      BY <1>1 DEF Lists
    <3>. QED  BY <1>1 DEF Lists
  <2>2. Lists(s, c) => Lists(Append(s, b), c)
    BY <1>1 DEF Lists
  <2>3. c = b => Lists(Append(s, b), c)
    BY <1>1 DEF Lists
  <2>. QED  BY <2>1, <2>2, <2>3
<1>3. Distinct(s) /\ ~Lists(s, b) => Distinct(Append(s, b))
  BY <1>1 DEF Distinct, Lists
<1>4. s # <<>> => Tail(Append(s, b)) = Append(Tail(s), b)
  BY DEF FragSeq
<1>. QED  BY <1>1, <1>2, <1>3, <1>4

LEMMA SuccessionLists ==
    ASSUME NEW s \in FragSeq, NEW o \in 0..Length
    PROVE  /\ s \o Succession(o) \in FragSeq
           /\ \A c \in Frag : Lists(s \o Succession(o), c) <=> Lists(s, c) \/ o <= c
           /\ Distinct(s) /\ (\A c \in Frag : Lists(s, c) => c < o)
                => Distinct(s \o Succession(o))
           /\ s # <<>> => Tail(s \o Succession(o)) = Tail(s) \o Succession(o)
<1>. DEFINE q == Succession(o)
<1>1. q \in Seq(Frag) /\ Len(q) = Length - o /\ \A i \in 1..Length - o : q[i] = o + i - 1
  BY SuccessionIs
<1>. HIDE DEF q
<1>2. /\ s \o q \in FragSeq /\ Len(s) \in Nat /\ DOMAIN s = 1..Len(s)
      /\ DOMAIN (s \o q) = 1..Len(s) + (Length - o)
      /\ \A i \in 1..Len(s) : (s \o q)[i] = s[i] /\ s[i] \in Frag
      /\ \A i \in 1..Length - o : (s \o q)[Len(s) + i] = o + i - 1
  BY <1>1 DEF FragSeq
<1>3. \A i \in Len(s) + 1..Len(s) + (Length - o) : (s \o q)[i] = o + i - Len(s) - 1
  <2>. TAKE i \in Len(s) + 1..Len(s) + (Length - o)
  <2>1. i - Len(s) \in 1..Length - o /\ Len(s) + (i - Len(s)) = i
    BY <1>2
  <2>. QED  BY <1>2, <2>1
<1>4. \A c \in Frag : Lists(s \o q, c) <=> Lists(s, c) \/ o <= c
  <2>. TAKE c \in Frag
  <2>1. Lists(s \o q, c) => Lists(s, c) \/ o <= c
    <3>. SUFFICES ASSUME NEW i \in 1..Len(s) + (Length - o), (s \o q)[i] = c
                  PROVE  Lists(s, c) \/ o <= c
      BY <1>2 DEF Lists
    <3>1. CASE i <= Len(s)
      BY <1>2, <3>1 DEF Lists
    <3>2. CASE i > Len(s)
      BY <1>2, <1>3, <3>2
    <3>. QED  BY <1>2, <3>1, <3>2
  <2>2. Lists(s, c) => Lists(s \o q, c)
    BY <1>2 DEF Lists
  <2>3. o <= c => Lists(s \o q, c)
    <3>. SUFFICES ASSUME o <= c PROVE Lists(s \o q, c)
      OBVIOUS
    <3>1. c - o + 1 \in 1..Length - o /\ o + (c - o + 1) - 1 = c
      BY DEF Frag
    <3>2. Len(s) + (c - o + 1) \in DOMAIN (s \o q)
      BY <1>2, <3>1
    <3>. QED  BY <1>2, <3>1, <3>2 DEF Lists
  <2>. QED  BY <2>1, <2>2, <2>3
<1>5. Distinct(s) /\ (\A c \in Frag : Lists(s, c) => c < o) => Distinct(s \o q)
  <2>. SUFFICES ASSUME Distinct(s), \A c \in Frag : Lists(s, c) => c < o,
                       NEW i \in 1..Len(s) + (Length - o), NEW j \in 1..Len(s) + (Length - o),
                       (s \o q)[i] = (s \o q)[j]
                PROVE  i = j
    BY <1>2 DEF Distinct
  <2>1. \A k \in 1..Len(s) : s[k] < o
    BY <1>2 DEF Lists
  <2>2. \A k \in 1..Len(s) + (Length - o) :
          k <= Len(s) => (s \o q)[k] = s[k] /\ s[k] < o /\ s[k] \in Int
    BY <1>2, <2>1 DEF Frag
  <2>3. \A k \in 1..Len(s) + (Length - o) :
          k > Len(s) => (s \o q)[k] = o + k - Len(s) - 1
    BY <1>2, <1>3
  <2>4. CASE i <= Len(s) /\ j <= Len(s)
    <3>1. i \in DOMAIN s /\ j \in DOMAIN s
      BY <1>2, <2>4
    <3>2. s[i] = s[j]
      BY <2>2, <2>4
    <3>. QED  BY <3>1, <3>2 DEF Distinct
  <2>5. CASE i > Len(s) /\ j > Len(s)
    <3>1. o + i - Len(s) - 1 = o + j - Len(s) - 1
      BY <2>3, <2>5
    <3>. QED  BY <1>2, <3>1
  <2>6. CASE i <= Len(s) /\ j > Len(s)
    <3>1. (s \o q)[i] < o /\ (s \o q)[j] >= o
      BY <1>2, <2>2, <2>3, <2>6
    <3>. QED  BY <1>2, <2>2, <2>6, <3>1
  <2>7. CASE i > Len(s) /\ j <= Len(s)
    <3>1. (s \o q)[j] < o /\ (s \o q)[i] >= o
      BY <1>2, <2>2, <2>3, <2>7
    <3>. QED  BY <1>2, <2>2, <2>7, <3>1
  <2>. QED  BY <1>2, <2>4, <2>5, <2>6, <2>7
<1>6. s # <<>> => Tail(s \o q) = Tail(s) \o q
  BY <1>1 DEF FragSeq
<1>. QED  BY <1>2, <1>4, <1>5, <1>6 DEF q

LEMMA TailLists ==
    ASSUME NEW s \in FragSeq, s # <<>>
    PROVE  /\ Tail(s) \in FragSeq /\ Head(s) \in Frag
           /\ \A c : Lists(s, c) <=> c = Head(s) \/ Lists(Tail(s), c)
           /\ Distinct(s) => Distinct(Tail(s)) /\ ~Lists(Tail(s), Head(s))
<1>1. /\ Tail(s) \in FragSeq /\ Head(s) \in Frag /\ Head(s) = s[1]
      /\ Len(s) \in Nat \ {0} /\ DOMAIN s = 1..Len(s) /\ DOMAIN Tail(s) = 1..Len(s) - 1
      /\ \A i \in 1..Len(s) - 1 : Tail(s)[i] = s[i + 1]
  BY DEF FragSeq
<1>2. \A c : Lists(s, c) <=> c = Head(s) \/ Lists(Tail(s), c)
  <2>. TAKE c
  <2>1. Lists(s, c) => c = Head(s) \/ Lists(Tail(s), c)
    <3>. SUFFICES ASSUME NEW i \in 1..Len(s), s[i] = c, i # 1 PROVE Lists(Tail(s), c)
      BY <1>1 DEF Lists
    <3>1. i - 1 \in 1..Len(s) - 1 /\ (i - 1) + 1 = i
      BY <1>1
    <3>. QED  BY <1>1, <3>1 DEF Lists
  <2>2. c = Head(s) => Lists(s, c)
    BY <1>1 DEF Lists
  <2>3. Lists(Tail(s), c) => Lists(s, c)
    <3>. SUFFICES ASSUME NEW i \in 1..Len(s) - 1, Tail(s)[i] = c PROVE Lists(s, c)
      BY <1>1 DEF Lists
    <3>1. i + 1 \in 1..Len(s)
      BY <1>1
    <3>. QED  BY <1>1, <3>1 DEF Lists
  <2>. QED  BY <2>1, <2>2, <2>3
<1>3. Distinct(s) => Distinct(Tail(s)) /\ ~Lists(Tail(s), Head(s))
  <2>1. \A i \in 1..Len(s) - 1 : i + 1 \in 1..Len(s)
    BY <1>1
  <2>. QED  BY <1>1, <2>1 DEF Distinct, Lists
<1>. QED  BY <1>1, <1>2, <1>3
----------------------------------------------------------------------------
(* The ways *)

Asking == \E t \in Context : rpc[t] = "sent"
Sending == \E t \in Context : spc[t] = "sent"
Opening == \E t \in Context : rpc[t] = "rndv"

ViaRndv(b) == b < eager /\ Opening
ViaGet == recvreq.get \in {"pending", "started"}
ViaAsk(b) == recvreq.rdma_offset + Is(Asking) <= b /\ b < recvreq.send_offset
ViaPut(b) == InNetwork("PUT", b)
ViaRetry(b) == \E x \in rdma_pending : x.offset = b
ViaDue(b) == [type |-> "put", offset |-> b] \in due
ViaAck(b) == \E m \in network : m.type = "ACK" /\ m.offset <= b
ViaSend(b) == Lists(ToSend, b)
ViaFrag(b) == InNetwork("FRAG", b)

Ways(b) ==
    written[b] + Is(ViaRndv(b)) + Is(ViaGet) + Is(ViaAsk(b)) + Is(ViaPut(b))
    + Is(ViaRetry(b)) + Is(ViaDue(b)) + Is(ViaAck(b)) + Is(ViaSend(b)) + Is(ViaFrag(b))

\* Before the match there is no way yet.
OneWay == \A b \in Frag : Ways(b) = Is(recvreq.match_received)

\* What leads a fragment along a way does so once.
Once ==
    /\ \A x, y \in rdma_pending : x.offset = y.offset => x = y
    /\ Distinct(ToSend)
    /\ \A t, u \in Context : rpc[t] = "rndv" /\ rpc[u] = "rndv" => t = u
    /\ Asking => recvreq.rdma_offset < recvreq.send_offset
    /\ \A m, n \in network : m.type = "ACK" /\ n.type = "ACK" => m = n

\* The first header is what the match consumes.
Before ==
    /\ ~recvreq.match_received =>
         /\ network \in {{[type |-> "RNDV"]}, {[type |-> "RGET"]}}
         /\ ~recvreq.pending /\ \A t \in Context : rpc[t] = "idle"
    /\ recvreq.match_received =>
         [type |-> "RNDV"] \notin network /\ [type |-> "RGET"] \notin network

WayInv == HandInv /\ OneWay /\ Once /\ Before

\* What an action leaves alone.
LEMMA RecvWaysSame ==
    ASSUME UNCHANGED <<eager, recvreq, rpc>>, NEW b
    PROVE  /\ ViaRndv(b)' <=> ViaRndv(b)
           /\ ViaGet' <=> ViaGet
           /\ ViaAsk(b)' <=> ViaAsk(b)
           /\ Asking' <=> Asking
  BY DEF ViaRndv, ViaGet, ViaAsk, Opening, Asking, Is

LEMMA PutsSame ==
    ASSUME \A m : m.type = "PUT" => (m \in network' <=> m \in network), NEW b
    PROVE  ViaPut(b)' <=> ViaPut(b)
  BY DEF ViaPut, InNetwork

LEMMA AcksSame ==
    ASSUME \A m : m.type = "ACK" => (m \in network' <=> m \in network), NEW b
    PROVE  ViaAck(b)' <=> ViaAck(b)
  BY DEF ViaAck

LEMMA FragsSame ==
    ASSUME \A m : m.type = "FRAG" => (m \in network' <=> m \in network), NEW b
    PROVE  ViaFrag(b)' <=> ViaFrag(b)
  BY DEF ViaFrag, InNetwork

LEMMA SendWaysSame ==
    ASSUME UNCHANGED <<sendreq, due, rdma_pending, spc>>, NEW b
    PROVE  /\ ViaRetry(b)' <=> ViaRetry(b)
           /\ ViaDue(b)' <=> ViaDue(b)
           /\ ViaSend(b)' <=> ViaSend(b)
           /\ ToSend' = ToSend
<1>1. ToSend' = ToSend
  BY DEF ToSend
<1>. QED  BY <1>1 DEF ViaRetry, ViaDue, ViaSend

\* What is left to send is a sequence of fragments.
LEMMA ToSendIs ==
    ASSUME HandInv
    PROVE  ToSend \in FragSeq
<1>1. sendreq.ranges \in FragSeq
  BY DEF HandInv, Types, SendReq
<1>2. Sending => sendreq.ranges # <<>>
  BY DEF HandInv, SentHasRanges, Sending
<1>. QED  BY <1>1, <1>2, TailLists DEF ToSend, Sending

----------------------------------------------------------------------------
(* The ways of a fragment, when the sender does something *)

\* Only a context that just sends changes what is left to send.
LEMMA ToSendSame ==
    ASSUME HandInv, NEW t \in Context,
           \/ SendCheck(t) \/ RndvCompletion(t) \/ FragCompletion(t) \/ PutCompletion(t)
           \/ RgetDelivered(t) \/ AckState(t) \/ SendSchedule(t) \/ SendPutOff(t)
           \/ SendStop(t) \/ SendUnlock(t) \/ SendPending(t) \/ Fallback(t)
    PROVE  ToSend' = ToSend /\ sendreq'.ranges = sendreq.ranges
<1>0. sendreq \in SendReq /\ spc \in [Context -> SendPc]
  BY DEF HandInv, Types
<1>1. sendreq'.ranges = sendreq.ranges
  BY <1>0 DEF SendCheck, RndvCompletion, FragCompletion, PutCompletion,
         RgetDelivered, AckState, SendSchedule, SendPutOff, SendStop, SendUnlock,
         SendPending, Fallback, Locked, Unlocked, PutOff, SendReq
<1>2. \A u \in Context : spc'[u] = "sent" <=> spc[u] = "sent"
  BY <1>0 DEF SendCheck, RndvCompletion, FragCompletion, PutCompletion,
         RgetDelivered, AckState, SendSchedule, SendPutOff, SendStop, SendUnlock,
         SendPending, Fallback, SendGoto
<1>. QED  BY <1>1, <1>2 DEF ToSend

LEMMA WaysSendSame ==
    ASSUME WayInv, NEW t \in Context,
           \/ SendCheck(t) \/ RndvCompletion(t) \/ FragCompletion(t)
           \/ RgetDelivered(t) \/ AckState(t) \/ SendSchedule(t) \/ SendPutOff(t)
           \/ SendStop(t) \/ SendUnlock(t) \/ SendPending(t) \/ Fallback(t)
    PROVE  OneWay'
<1>. SUFFICES ASSUME NEW b \in Frag PROVE Ways(b)' = Is(recvreq.match_received)'
  BY DEF OneWay
<1>1. UNCHANGED <<eager, recvreq, rpc, written, rdma_pending>>
  BY DEF SendCheck, RndvCompletion, FragCompletion, RgetDelivered, AckState, SendSchedule,
         SendPutOff, SendStop, SendUnlock, SendPending, Fallback, recvVars
<1>2. ViaSend(b)' <=> ViaSend(b)
  BY ToSendSame DEF WayInv, ViaSend
<1>3. /\ ViaDue(b)' <=> ViaDue(b)
      /\ ViaRetry(b)' <=> ViaRetry(b)
  BY <1>1 DEF SendCheck, RndvCompletion, FragCompletion, RgetDelivered, AckState, SendSchedule,
         SendPutOff, SendStop, SendUnlock, SendPending, Fallback, ViaDue, ViaRetry
<1>4. \A m : m.type \in {"PUT", "ACK", "FRAG"} => (m \in network' <=> m \in network)
  BY DEF SendCheck, RndvCompletion, FragCompletion, RgetDelivered, AckState, SendSchedule,
         SendPutOff, SendStop, SendUnlock, SendPending, Fallback
<1>5. /\ ViaPut(b)' <=> ViaPut(b)
      /\ ViaAck(b)' <=> ViaAck(b)
      /\ ViaFrag(b)' <=> ViaFrag(b)
  BY <1>4, PutsSame, AcksSame, FragsSame
<1>6. Ways(b) = Is(recvreq.match_received)
  BY DEF WayInv, OneWay
<1>. QED  BY <1>1, <1>2, <1>3, <1>5, <1>6, RecvWaysSame DEF Ways, Is

LEMMA WaysPutCompletion ==
    ASSUME WayInv, NEW t \in Context, PutCompletion(t)
    PROVE  OneWay'
<1>. SUFFICES ASSUME NEW b \in Frag PROVE Ways(b)' = Is(recvreq.match_received)'
  BY DEF OneWay
<1>0. PICK c \in due :
        /\ c.type = "put"
        /\ due' = due \ {c}
        /\ Writes({c.offset})
        /\ network' = network \cup {[type |-> "FIN", offset |-> c.offset, fail |-> FALSE]}
  BY DEF PutCompletion
<1>1. UNCHANGED <<eager, recvreq, rpc, rdma_pending>>
  BY DEF PutCompletion
<1>2. /\ ViaSend(b)' <=> ViaSend(b)
      /\ ViaRetry(b)' <=> ViaRetry(b)
  BY <1>1, ToSendSame DEF WayInv, ViaSend, ViaRetry
<1>3. c = [type |-> "put", offset |-> c.offset] /\ c.offset \in Frag
  BY <1>0, CompletionMade DEF WayInv, HandInv, Types
<1>4. /\ written'[b] = written[b] + Is(b = c.offset)
      /\ ViaDue(b) <=> ViaDue(b)' \/ b = c.offset
      /\ b = c.offset => ~ViaDue(b)'
      /\ written[b] \in Nat
  BY <1>0, <1>3 DEF Writes, ViaDue, Is, WayInv, HandInv, Types
<1>5. /\ ViaPut(b)' <=> ViaPut(b)
      /\ ViaAck(b)' <=> ViaAck(b)
      /\ ViaFrag(b)' <=> ViaFrag(b)
  <2>1. \A m : m.type \in {"PUT", "ACK", "FRAG"} => (m \in network' <=> m \in network)
    BY <1>0
  <2>. QED  BY <2>1, PutsSame, AcksSame, FragsSame
<1>6. Ways(b) = Is(recvreq.match_received)
  BY DEF WayInv, OneWay
<1>. QED  BY <1>1, <1>2, <1>4, <1>5, <1>6, RecvWaysSame DEF Ways, Is

LEMMA WaysRecvAck ==
    ASSUME WayInv, NEW t \in Context, RecvAck(t)
    PROVE  OneWay' /\ Distinct(ToSend)'
<1>0. PICK m \in network :
        /\ m.type = "ACK"
        /\ network' = network \ {m}
        /\ sendreq' = [sendreq EXCEPT !.recv = TRUE,
                         !.throttle_sends = @ \/ m.nordma,
                         !.ranges = @ \o Succession(m.offset)]
  BY DEF RecvAck
<1>1. UNCHANGED <<eager, recvreq, rpc, rdma_pending, due, written>>
  BY DEF RecvAck, recvVars
<1>2. /\ sendreq \in SendReq /\ spc \in [Context -> SendPc]
      /\ sendreq.ranges \in FragSeq /\ ToSend \in FragSeq
      /\ m.offset \in 0..Length
  BY <1>0, HeaderFields, ToSendIs DEF WayInv, HandInv, Types, SendReq
<1>3. ToSend' = ToSend \o Succession(m.offset)
  <2>1. sendreq'.ranges = sendreq.ranges \o Succession(m.offset)
    BY <1>0, <1>2 DEF SendReq
  <2>2. Sending' <=> Sending
    BY <1>2 DEF RecvAck, SendGoto, Sending
  <2>3. Sending => sendreq.ranges # <<>>
    BY DEF WayInv, HandInv, SentHasRanges, Sending
  <2>. QED  BY <1>2, <2>1, <2>2, <2>3, SuccessionLists DEF ToSend, Sending
<1>4. \A b \in Frag : /\ ViaSend(b)' <=> ViaSend(b) \/ m.offset <= b
                      /\ ViaAck(b) <=> m.offset <= b
                      /\ ~ViaAck(b)'
  <2>1. \A n \in network : n.type = "ACK" => n = m
    BY <1>0 DEF WayInv, Once
  <2>. QED  BY <1>0, <1>2, <1>3, <2>1, SuccessionLists DEF ViaSend, ViaAck
<1>5. \A b \in Frag : Ways(b) = Is(recvreq.match_received) /\ written[b] \in Nat
  BY DEF WayInv, OneWay, HandInv, Types
<1>6. \A b \in Frag : ViaSend(b) => b < m.offset
  <2>. TAKE b \in Frag
  <2>1. ViaAck(b) => ~ViaSend(b)
    BY <1>5 DEF Ways, Is
  <2>. QED  BY <1>2, <1>4, <2>1 DEF Frag
<1>7. ASSUME NEW b \in Frag PROVE Ways(b)' = Is(recvreq.match_received)'
  <2>1. /\ ViaPut(b)' <=> ViaPut(b)
        /\ ViaFrag(b)' <=> ViaFrag(b)
    <3>1. \A n : n.type \in {"PUT", "FRAG"} => (n \in network' <=> n \in network)
      BY <1>0
    <3>. QED  BY <3>1, PutsSame, FragsSame
  <2>2. /\ ViaRetry(b)' <=> ViaRetry(b)
        /\ ViaDue(b)' <=> ViaDue(b)
    BY <1>1 DEF ViaRetry, ViaDue
  <2>3. ViaAck(b) <=> m.offset <= b
    BY <1>4
  <2>. QED  BY <1>1, <1>4, <1>5, <2>1, <2>2, <2>3, RecvWaysSame DEF Ways, Is
<1>8. Distinct(ToSend)'
  <2>1. Distinct(ToSend)
    BY DEF WayInv, Once
  <2>2. \A b \in Frag : Lists(ToSend, b) => b < m.offset
    BY <1>6 DEF ViaSend
  <2>. QED  BY <1>2, <1>3, <2>1, <2>2, SuccessionLists
<1>. QED  BY <1>7, <1>8 DEF OneWay
LEMMA WaysSendFrag ==
    ASSUME WayInv, NEW t \in Context, SendFrag(t)
    PROVE  OneWay' /\ Distinct(ToSend)'
<1>. DEFINE h == Head(sendreq.ranges)
<1>0. /\ sendreq \in SendReq /\ spc \in [Context -> SendPc]
      /\ sendreq.ranges \in FragSeq /\ sendreq.ranges # <<>>
      /\ \A b \in Frag : written[b] \in Nat
  BY DEF WayInv, HandInv, Types, SendReq, SendFrag, MaySend
<1>1. /\ UNCHANGED <<eager, recvreq, rpc, rdma_pending, written, sendreq>>
      /\ network' = network \cup {[type |-> "FRAG", offset |-> h]}
      /\ due' = due \cup {[type |-> "frag", offset |-> h]}
  BY DEF SendFrag, recvVars
<1>2. ~Sending /\ Sending'
  <2>1. ~Sending
    BY DEF WayInv, HandInv, Hands, Hand, Busy, SendFrag, Sending
  <2>. QED  BY <1>0, <2>1 DEF SendFrag, SendGoto, Sending
<1>3. ToSend = sendreq.ranges /\ ToSend' = Tail(sendreq.ranges)
  BY <1>1, <1>2 DEF ToSend, Sending
<1>4. h \in Frag /\ Distinct(ToSend) /\ ~Lists(ToSend', h)
      /\ \A b : Lists(ToSend, b) <=> b = h \/ Lists(ToSend', b)
  BY <1>0, <1>3, TailLists DEF WayInv, Once
<1>5. Distinct(ToSend)'
  BY <1>0, <1>3, <1>4, TailLists
<1>6. ASSUME NEW b \in Frag PROVE Ways(b)' = Is(recvreq.match_received)'
  <2>1. /\ ViaPut(b)' <=> ViaPut(b)
        /\ ViaAck(b)' <=> ViaAck(b)
    <3>1. \A n : n.type \in {"PUT", "ACK"} => (n \in network' <=> n \in network)
      BY <1>1
    <3>. QED  BY <3>1, PutsSame, AcksSame
  <2>2. /\ ViaRetry(b)' <=> ViaRetry(b)
        /\ ViaDue(b)' <=> ViaDue(b)
    BY <1>1 DEF ViaRetry, ViaDue
  <2>3. /\ ViaSend(b) <=> ViaSend(b)' \/ b = h
        /\ b = h => ~ViaSend(b)'
    BY <1>4 DEF ViaSend
  <2>4. Ways(b) = Is(recvreq.match_received)
    BY DEF WayInv, OneWay
  <2>. HIDE DEF h
  <2>5. ViaFrag(b)' <=> ViaFrag(b) \/ b = h
    <3>1. \A m : m \in network' <=> \/ m \in network
                                    \/ m = [type |-> "FRAG", offset |-> h]
      BY <1>1
    <3>2. /\ [type |-> "FRAG", offset |-> h].offset = h
          /\ [type |-> "FRAG", offset |-> h].type = "FRAG"
      OBVIOUS
    <3>3. ViaFrag(b)' => ViaFrag(b) \/ b = h
      BY <3>1, <3>2 DEF ViaFrag, InNetwork
    <3>4. b = h => ViaFrag(b)'
      BY <3>1, <3>2 DEF ViaFrag, InNetwork
    <3>5. ViaFrag(b) => ViaFrag(b)'
      BY <3>1 DEF ViaFrag, InNetwork
    <3>. QED  BY <3>3, <3>4, <3>5
  <2>6. /\ ViaRndv(b)' <=> ViaRndv(b)
        /\ ViaGet' <=> ViaGet
        /\ ViaAsk(b)' <=> ViaAsk(b)
    BY <1>1, RecvWaysSame
  <2>7. written[b] \in Nat /\ written' = written /\ recvreq' = recvreq
    BY <1>0, <1>1
  <2>. QED  BY <2>1, <2>2, <2>3, <2>4, <2>5, <2>6, <2>7 DEF Ways, Is
<1>. QED  BY <1>5, <1>6 DEF OneWay

LEMMA WaysFragSent ==
    ASSUME WayInv, NEW t \in Context, FragSent(t)
    PROVE  OneWay' /\ Distinct(ToSend)'
<1>0. /\ sendreq \in SendReq /\ spc \in [Context -> SendPc]
      /\ \A b \in Frag : written[b] \in Nat
  BY DEF WayInv, HandInv, Types
<1>1. /\ UNCHANGED <<eager, recvreq, rpc, rdma_pending, written, due, network>>
      /\ sendreq'.ranges = Tail(sendreq.ranges)
  BY <1>0 DEF FragSent, recvVars, SendReq
<1>2. Sending /\ ~Sending'
  <2>1. \A u \in Context : spc[u] = "sent" => u = t
    BY DEF WayInv, HandInv, Hands, Hand, Busy, FragSent
  <2>. QED  BY <1>0, <2>1 DEF FragSent, SendGoto, Sending
<1>3. ToSend' = ToSend
  BY <1>1, <1>2 DEF ToSend, Sending
<1>4. ASSUME NEW b \in Frag PROVE Ways(b)' = Is(recvreq.match_received)'
  <2>1. /\ ViaPut(b)' <=> ViaPut(b)
        /\ ViaAck(b)' <=> ViaAck(b)
        /\ ViaFrag(b)' <=> ViaFrag(b)
    BY <1>1, PutsSame, AcksSame, FragsSame
  <2>2. /\ ViaRetry(b)' <=> ViaRetry(b)
        /\ ViaDue(b)' <=> ViaDue(b)
        /\ ViaSend(b)' <=> ViaSend(b)
    BY <1>1, <1>3 DEF ViaRetry, ViaDue, ViaSend
  <2>3. Ways(b) = Is(recvreq.match_received)
    BY DEF WayInv, OneWay
  <2>. QED  BY <1>1, <2>1, <2>2, <2>3, RecvWaysSame DEF Ways, Is
<1>. QED  BY <1>3, <1>4 DEF OneWay, WayInv, Once

\* A PUT that is carried out, that waits, or that becomes a copy.
LEMMA WaysPutFrag ==
    ASSUME WayInv, NEW t \in Context, NEW s \in SendReq, s.ranges = sendreq.ranges,
           NEW h \in Frag, ViaPut(h) \/ ViaRetry(h), NEW n \in Nat,
           spc[t] = "idle", PutFrag(t, s, h, n), UNCHANGED <<eager, recvVars>>
    PROVE  /\ OneWay' /\ Distinct(ToSend)'
           /\ \A x, y \in rdma_pending' : x.offset = y.offset => x = y
<1>0. /\ sendreq \in SendReq /\ spc \in [Context -> SendPc]
      /\ sendreq.ranges \in FragSeq /\ ToSend \in FragSeq
      /\ \A b \in Frag : written[b] \in Nat
  BY ToSendIs DEF WayInv, HandInv, Types, SendReq
<1>1. UNCHANGED <<eager, recvreq, rpc, written>>
  BY DEF recvVars
<1>2. Distinct(ToSend) /\ \A x, y \in rdma_pending : x.offset = y.offset => x = y
  BY DEF WayInv, Once
<1>3. \A b \in Frag : Ways(b) = Is(recvreq.match_received)
  BY DEF WayInv, OneWay
<1>4. Sending' <=> Sending
  BY <1>0 DEF PutFrag, SendGoto, Sending
<1>5. ASSUME NEW b \in Frag
      PROVE  /\ ViaPut(b)' <=> ViaPut(b) /\ b # h
             /\ ViaAck(b)' <=> ViaAck(b)
             /\ ViaFrag(b)' <=> ViaFrag(b)
  <2>1. /\ \A m : m.type \in {"ACK", "FRAG"} => (m \in network' <=> m \in network)
        /\ \A m : m.type = "PUT" => (m \in network' <=> m \in network /\ m.offset # h)
    BY DEF PutFrag, GiveUp, WithoutPut
  <2>2. ViaPut(b)' <=> ViaPut(b) /\ b # h
    BY <2>1 DEF ViaPut, InNetwork
  <2>. QED  BY <2>1, <2>2, AcksSame, FragsSame
<1>6. CASE /\ due' = due \cup {[type |-> "put", offset |-> h]}
           /\ sendreq' = s
           /\ rdma_pending' = PendingWithout(h)
  <2>1. ToSend' = ToSend
    BY <1>4, <1>6 DEF ToSend, Sending
  <2>2. ASSUME NEW b \in Frag
        PROVE  /\ ViaDue(b)' <=> ViaDue(b) \/ b = h
               /\ ViaRetry(b)' <=> ViaRetry(b) /\ b # h
               /\ ViaSend(b)' <=> ViaSend(b)
    BY <1>6, <2>1 DEF ViaDue, ViaRetry, ViaSend, PendingWithout
  <2>3. ASSUME NEW b \in Frag PROVE Ways(b)' = Is(recvreq.match_received)'
    <3>1. b = h => ViaPut(b) \/ ViaRetry(b)
      OBVIOUS
    <3>. QED  BY <1>0, <1>1, <1>3, <1>5, <2>2, <3>1, RecvWaysSame DEF Ways, Is
  <2>4. \A x, y \in rdma_pending' : x.offset = y.offset => x = y
    BY <1>2, <1>6 DEF PendingWithout
  <2>. QED  BY <1>2, <2>1, <2>3, <2>4 DEF OneWay
<1>7. CASE /\ due' = due
           /\ sendreq' = s
           /\ rdma_pending' = PendingWithout(h) \cup {[offset |-> h, retries |-> n]}
  <2>1. ToSend' = ToSend
    BY <1>4, <1>7 DEF ToSend, Sending
  <2>2. ASSUME NEW b \in Frag
        PROVE  /\ ViaDue(b)' <=> ViaDue(b)
               /\ ViaRetry(b)' <=> ViaRetry(b) \/ b = h
               /\ ViaSend(b)' <=> ViaSend(b)
    <3>1. ViaRetry(b)' <=> ViaRetry(b) \/ b = h
      <4>1. \A x : x \in rdma_pending' <=> \/ x \in rdma_pending /\ x.offset # h
                                           \/ x = [offset |-> h, retries |-> n]
        BY <1>7 DEF PendingWithout
      <4>2. [offset |-> h, retries |-> n].offset = h
        OBVIOUS
      <4>3. ViaRetry(b)' => ViaRetry(b) \/ b = h
        BY <4>1, <4>2 DEF ViaRetry
      <4>4. b = h => ViaRetry(b)'
        BY <4>1, <4>2 DEF ViaRetry
      <4>5. ViaRetry(b) /\ b # h => ViaRetry(b)'
        BY <4>1 DEF ViaRetry
      <4>. QED  BY <4>3, <4>4, <4>5
    <3>. QED  BY <1>7, <2>1, <3>1 DEF ViaDue, ViaSend
  <2>3. ASSUME NEW b \in Frag PROVE Ways(b)' = Is(recvreq.match_received)'
    <3>1. b = h => ViaPut(b) \/ ViaRetry(b)
      OBVIOUS
    <3>. QED  BY <1>0, <1>1, <1>3, <1>5, <2>2, <3>1, RecvWaysSame DEF Ways, Is
  <2>4. \A x, y \in rdma_pending' : x.offset = y.offset => x = y
    BY <1>2, <1>7 DEF PendingWithout
  <2>. QED  BY <1>2, <2>1, <2>3, <2>4 DEF OneWay
<1>8. CASE /\ due' = due
           /\ sendreq' = [s EXCEPT !.ranges = Append(@, h)]
           /\ rdma_pending' = PendingWithout(h)
  <2>0. sendreq'.ranges = Append(sendreq.ranges, h)
    BY <1>8 DEF SendReq
  <2>1. ToSend' = Append(ToSend, h)
    <3>1. Sending => sendreq.ranges # <<>>
      BY DEF WayInv, HandInv, SentHasRanges, Sending
    <3>. QED  BY <1>0, <1>4, <2>0, <3>1, AppendLists DEF ToSend, Sending
  <2>2. ASSUME NEW b \in Frag
        PROVE  /\ ViaDue(b)' <=> ViaDue(b)
               /\ ViaRetry(b)' <=> ViaRetry(b) /\ b # h
               /\ ViaSend(b)' <=> ViaSend(b) \/ b = h
    <3>1. ViaSend(b)' <=> ViaSend(b) \/ b = h
      BY <1>0, <2>1, AppendLists DEF ViaSend
    <3>. QED  BY <1>8, <3>1 DEF ViaDue, ViaRetry, PendingWithout
  <2>3. ASSUME NEW b \in Frag PROVE Ways(b)' = Is(recvreq.match_received)'
    <3>1. b = h => ViaPut(b) \/ ViaRetry(b)
      OBVIOUS
    <3>. QED  BY <1>0, <1>1, <1>3, <1>5, <2>2, <3>1, RecvWaysSame DEF Ways, Is
  <2>4. \A x, y \in rdma_pending' : x.offset = y.offset => x = y
    BY <1>2, <1>8 DEF PendingWithout
  <2>5. ~ViaSend(h)
    BY <1>0, <1>3 DEF Ways, Is
  <2>6. Distinct(ToSend)'
    BY <1>0, <1>2, <2>1, <2>5, AppendLists DEF ViaSend
  <2>. QED  BY <2>3, <2>4, <2>6 DEF OneWay
<1>. QED  BY <1>6, <1>7, <1>8 DEF PutFrag, GiveUp
\* The sender says what is done and sends copies.
LEMMA SendNetwork ==
    ASSUME NEW t \in Context, SendEvent(t) \/ SendStep(t)
    PROVE  \A m \in network' : m \in network \/ m.type \in {"FIN", "FRAG"}
<1>1. CASE PutCompletion(t)
  BY <1>1 DEF PutCompletion
<1>2. CASE SendFrag(t)
  BY <1>2 DEF SendFrag
<1>3. CASE RecvPut(t)
  BY <1>3 DEF RecvPut, PutFrag, GiveUp, WithoutPut
<1>4. CASE RetryPut(t)
  BY <1>4 DEF RetryPut, PutFrag, GiveUp, WithoutPut
<1>5. CASE \/ SendCheck(t) \/ RndvCompletion(t) \/ FragCompletion(t)
           \/ RgetDelivered(t) \/ RecvAck(t) \/ AckState(t) \/ SendSchedule(t)
           \/ FragSent(t) \/ SendPutOff(t) \/ SendStop(t) \/ SendUnlock(t)
           \/ SendPending(t) \/ Fallback(t)
  <2>1. network' \subseteq network
    BY <1>5 DEF SendCheck, RndvCompletion, FragCompletion, RgetDelivered, RecvAck, AckState,
         SendSchedule, FragSent, SendPutOff, SendStop, SendUnlock, SendPending, Fallback
  <2>. QED  BY <2>1
<1>. QED  BY <1>1, <1>2, <1>3, <1>4, <1>5 DEF SendEvent, SendStep

\* Whatever the sender does, before the match there is nothing to do it with.
LEMMA BeforeSend ==
    ASSUME WayInv, NEW t \in Context, SendEvent(t) \/ SendStep(t)
    PROVE  Before'
<1>1. UNCHANGED <<recvreq, rpc>>
  BY DEF SendEvent, SendStep, SendCheck, RndvCompletion, FragCompletion, PutCompletion,
         RgetDelivered, RecvAck, AckState, SendSchedule, SendFrag, FragSent, SendPutOff,
         SendStop, SendUnlock, SendPending, RecvPut, RetryPut, Fallback, recvVars
<1>2. CASE recvreq.match_received
  <2>1. \A m \in network' : m \in network \/ m.type \in {"FIN", "FRAG"}
    BY SendNetwork
  <2>2. [type |-> "RNDV"] \notin network /\ [type |-> "RGET"] \notin network
    BY <1>2 DEF WayInv, Before
  <2>. QED  BY <1>1, <1>2, <2>1, <2>2 DEF Before
<1>3. CASE ~recvreq.match_received
  <2>1. /\ network \in {{[type |-> "RNDV"]}, {[type |-> "RGET"]}}
        /\ ~recvreq.pending /\ \A u \in Context : rpc[u] = "idle"
    BY <1>3 DEF WayInv, Before
  <2>2. \A m \in network : m.type \in {"RNDV", "RGET"}
    BY <2>1
  <2>3. \A b \in Frag : ~ViaDue(b) /\ ~ViaRetry(b) /\ ~ViaSend(b)
    <3>1. \A b \in Frag : Ways(b) = 0 /\ written[b] \in Nat
      BY <1>3 DEF WayInv, OneWay, HandInv, Types, Is
    <3>. QED  BY <3>1 DEF Ways, Is
  <2>4. ~PutCompletion(t)
    <3>. SUFFICES ASSUME NEW c \in due, c.type = "put" PROVE FALSE
      BY DEF PutCompletion
    <3>1. c = [type |-> "put", offset |-> c.offset] /\ c.offset \in Frag
      BY CompletionMade DEF WayInv, HandInv, Types
    <3>. QED  BY <2>3, <3>1 DEF ViaDue
  <2>5. ~RgetDelivered(t) /\ ~RecvAck(t) /\ ~RecvPut(t)
    BY <2>2 DEF RgetDelivered, RecvAck, RecvPut
  <2>6. ~RetryPut(t)
    BY <2>3 DEF RetryPut, ViaRetry, WayInv, HandInv, Types
  <2>7. ~SendFrag(t)
    <3>. SUFFICES ASSUME SendFrag(t) PROVE FALSE
      OBVIOUS
    <3>1. sendreq.ranges \in FragSeq /\ sendreq.ranges # <<>>
      BY DEF WayInv, HandInv, Types, SendReq, SendFrag, MaySend
    <3>2. ToSend = sendreq.ranges
      BY DEF WayInv, HandInv, Hands, Hand, Busy, SendFrag, ToSend
    <3>. QED  BY <2>3, <3>1, <3>2, TailLists DEF ViaSend
  <2>8. network' = network
    BY <2>4, <2>5, <2>6, <2>7
       DEF SendEvent, SendStep, SendCheck, RndvCompletion, FragCompletion,
         AckState, SendSchedule, FragSent, SendPutOff,
         SendStop, SendUnlock, SendPending, Fallback
  <2>. QED  BY <1>1, <1>3, <2>1, <2>8 DEF Before
<1>. QED  BY <1>2, <1>3

LEMMA WaysSend ==
    ASSUME WayInv, NEW t \in Context, SendEvent(t) \/ SendStep(t)
    PROVE  OneWay' /\ Once'
<1>1. UNCHANGED <<eager, recvreq, rpc>>
  BY DEF SendEvent, SendStep, SendCheck, RndvCompletion, FragCompletion, PutCompletion,
         RgetDelivered, RecvAck, AckState, SendSchedule, SendFrag, FragSent, SendPutOff,
         SendStop, SendUnlock, SendPending, RecvPut, RetryPut, Fallback, recvVars
<1>2. \A m, n \in network' : m.type = "ACK" /\ n.type = "ACK" => m = n
  <2>1. \A m \in network' : m.type = "ACK" => m \in network
    BY SendNetwork
  <2>. QED  BY <2>1 DEF WayInv, Once
<1>3. SUFFICES /\ OneWay' /\ Distinct(ToSend)'
               /\ \A x, y \in rdma_pending' : x.offset = y.offset => x = y
  BY <1>1, <1>2 DEF WayInv, Once, Asking
<1>4. /\ Distinct(ToSend)
      /\ \A x, y \in rdma_pending : x.offset = y.offset => x = y
  BY DEF WayInv, Once
<1>5. CASE \/ SendCheck(t) \/ RndvCompletion(t) \/ FragCompletion(t)
           \/ RgetDelivered(t) \/ AckState(t) \/ SendSchedule(t) \/ SendPutOff(t)
           \/ SendStop(t) \/ SendUnlock(t) \/ SendPending(t) \/ Fallback(t)
  <2>1. rdma_pending' = rdma_pending
    BY <1>5 DEF SendCheck, RndvCompletion, FragCompletion, RgetDelivered, AckState,
         SendSchedule, SendPutOff, SendStop, SendUnlock, SendPending, Fallback
  <2>2. ToSend' = ToSend
    BY <1>5, ToSendSame DEF WayInv
  <2>. QED  BY <1>4, <1>5, <2>1, <2>2, WaysSendSame
<1>6. CASE PutCompletion(t)
  <2>1. rdma_pending' = rdma_pending
    BY <1>6 DEF PutCompletion
  <2>2. ToSend' = ToSend
    BY <1>6, ToSendSame DEF WayInv
  <2>. QED  BY <1>4, <1>6, <2>1, <2>2, WaysPutCompletion
<1>7. CASE RecvAck(t) \/ SendFrag(t) \/ FragSent(t)
  <2>1. rdma_pending' = rdma_pending
    BY <1>7 DEF RecvAck, SendFrag, FragSent
  <2>. QED  BY <1>4, <1>7, <2>1, WaysRecvAck, WaysSendFrag, WaysFragSent
<1>8. CASE RecvPut(t)
  <2>0. sendreq \in SendReq /\ sendreq.state \in Int
    BY DEF WayInv, HandInv, Types, SendReq
  <2>1. PICK m \in network : /\ m.type = "PUT"
                             /\ PutFrag(t, [sendreq EXCEPT !.state =
                                  IF m.ack THEN @ - 1 ELSE @], m.offset, 0)
    BY <1>8 DEF RecvPut
  <2>2. m.offset \in Frag /\ ViaPut(m.offset)
    BY <2>1, HeaderFields DEF WayInv, HandInv, Types, ViaPut, InNetwork
  <2>3. PICK s \in SendReq : /\ s = [sendreq EXCEPT !.state = IF m.ack THEN @ - 1 ELSE @]
                             /\ s.ranges = sendreq.ranges
    <3>1. (IF m.ack THEN sendreq.state - 1 ELSE sendreq.state) \in Int
      BY <2>0
    <3>2. [sendreq EXCEPT !.state = IF m.ack THEN @ - 1 ELSE @] \in SendReq
      BY <2>0, <3>1, SendReqWith
    <3>. QED  BY <2>0, <3>2 DEF SendReq
  <2>4. PutFrag(t, s, m.offset, 0) /\ spc[t] = "idle"
    BY <1>8, <2>1, <2>3 DEF RecvPut
  <2>5. UNCHANGED <<eager, recvVars>>
    BY <1>8 DEF RecvPut
  <2>. QED  BY <2>2, <2>3, <2>4, <2>5, WaysPutFrag
<1>9. CASE RetryPut(t)
  <2>1. PICK x \in rdma_pending : PutFrag(t, sendreq, x.offset, x.retries + 1)
    BY <1>9 DEF RetryPut
  <2>2. /\ x.offset \in Frag /\ x.retries + 1 \in Nat /\ ViaRetry(x.offset)
        /\ sendreq \in SendReq /\ spc[t] = "idle"
    BY <1>9 DEF WayInv, HandInv, Types, ViaRetry, RetryPut
  <2>3. UNCHANGED <<eager, recvVars>>
    BY <1>9 DEF RetryPut
  <2>. QED  BY <2>1, <2>2, <2>3, WaysPutFrag
<1>. QED  BY <1>5, <1>6, <1>7, <1>8, <1>9 DEF SendEvent, SendStep
----------------------------------------------------------------------------
(* The ways of a fragment, when the receiver does something *)

LEMMA RecvSendSame ==
    ASSUME NEW t \in Context, RecvEvent(t) \/ RecvStep(t)
    PROVE  UNCHANGED <<eager, sendreq, due, rdma_pending, spc>>
  BY DEF RecvEvent, RecvStep, RecvRndv, RecvRget, RetryGet, RgetCompletion, RecvFrag,
         RecvFin, RecvPending, AddEager, RecvCheck, RecvSchedule, AskPut, PutSent,
         AskRefused, RecvPutOff, RecvStop, RecvUnlock, sendVars

\* Only the match happens before the match.
LEMMA RecvMatched ==
    ASSUME WayInv, NEW t \in Context, RecvEvent(t) \/ RecvStep(t),
           ~RecvRndv(t), ~RecvRget(t)
    PROVE  recvreq.match_received
<1>. SUFFICES ASSUME ~recvreq.match_received PROVE FALSE
  OBVIOUS
<1>1. /\ network \in {{[type |-> "RNDV"]}, {[type |-> "RGET"]}}
      /\ ~recvreq.pending /\ rpc[t] = "idle"
  BY DEF WayInv, Before
<1>2. \A m \in network : m.type \in {"RNDV", "RGET"}
  BY <1>1
<1>3. ~ViaGet
  <2>1. 0 \in Frag
    BY DEF Frag
  <2>2. Ways(0) = 0 /\ written[0] \in Nat
    BY <2>1 DEF WayInv, OneWay, HandInv, Types, Is
  <2>. QED  BY <2>2 DEF Ways, Is
<1>4. ~RecvStep(t)
  BY <1>1 DEF RecvStep, AddEager, RecvCheck, RecvSchedule, AskPut, PutSent,
         AskRefused, RecvPutOff, RecvStop, RecvUnlock
<1>5. ~RetryGet(t) /\ ~RgetCompletion(t)
  BY <1>3 DEF RetryGet, RgetCompletion, ViaGet
<1>6. ~RecvFrag(t) /\ ~RecvFin(t) /\ ~RecvPending(t)
  BY <1>1, <1>2 DEF RecvFrag, RecvFin, RecvPending
<1>. QED  BY <1>4, <1>5, <1>6 DEF RecvEvent

\* What most steps leave as it is.
LEMMA RecvFieldsSame ==
    ASSUME HandInv, NEW t \in Context,
           \/ RecvFrag(t) \/ RecvFin(t) \/ RecvPending(t) \/ RecvCheck(t) \/ RecvSchedule(t)
           \/ AskRefused(t) \/ RecvPutOff(t) \/ RecvStop(t) \/ RecvUnlock(t)
    PROVE  /\ recvreq'.rdma_offset = recvreq.rdma_offset
           /\ recvreq'.send_offset = recvreq.send_offset
           /\ recvreq'.get = recvreq.get
           /\ recvreq'.match_received = recvreq.match_received
           /\ \A u \in Context : rpc'[u] = "sent" <=> rpc[u] = "sent"
           /\ \A u \in Context : rpc'[u] = "rndv" <=> rpc[u] = "rndv"
<1>0. recvreq \in RecvReq /\ rpc \in [Context -> RecvPc]
  BY DEF HandInv, Types
<1>1. /\ recvreq'.rdma_offset = recvreq.rdma_offset
      /\ recvreq'.send_offset = recvreq.send_offset
      /\ recvreq'.get = recvreq.get
      /\ recvreq'.match_received = recvreq.match_received
  BY <1>0 DEF RecvFrag, RecvFin, RecvPending, RecvCheck, RecvSchedule, AskRefused, RecvPutOff,
         RecvStop, RecvUnlock, Locked, Unlocked, PutOff, RecvReq
<1>2. /\ \A u \in Context : rpc'[u] = "sent" <=> rpc[u] = "sent"
      /\ \A u \in Context : rpc'[u] = "rndv" <=> rpc[u] = "rndv"
  BY <1>0 DEF RecvFrag, RecvFin, RecvPending, RecvCheck, RecvSchedule, AskRefused, RecvPutOff,
         RecvStop, RecvUnlock, RecvGoto
<1>. QED  BY <1>1, <1>2

LEMMA WaysRecvSame ==
    ASSUME WayInv, NEW t \in Context,
           \/ RecvFin(t) \/ RecvPending(t) \/ RecvCheck(t) \/ RecvSchedule(t)
           \/ AskRefused(t) \/ RecvPutOff(t) \/ RecvStop(t) \/ RecvUnlock(t)
    PROVE  OneWay' /\ Once'
<1>1. UNCHANGED <<eager, sendreq, due, rdma_pending, spc, written>>
  BY DEF RecvFin, RecvPending, RecvCheck, RecvSchedule, AskRefused, RecvPutOff,
         RecvStop, RecvUnlock, sendVars
<1>2. /\ recvreq'.rdma_offset = recvreq.rdma_offset
      /\ recvreq'.send_offset = recvreq.send_offset
      /\ recvreq'.get = recvreq.get
      /\ recvreq'.match_received = recvreq.match_received
      /\ \A u \in Context : rpc'[u] = "sent" <=> rpc[u] = "sent"
      /\ \A u \in Context : rpc'[u] = "rndv" <=> rpc[u] = "rndv"
  BY RecvFieldsSame DEF WayInv
<1>3. \A m : m.type \in {"PUT", "ACK", "FRAG"} => (m \in network' <=> m \in network)
  BY DEF RecvFin, RecvPending, RecvCheck, RecvSchedule, AskRefused, RecvPutOff,
         RecvStop, RecvUnlock
<1>4. ToSend' = ToSend /\ (Asking' <=> Asking) /\ (Opening' <=> Opening)
  BY <1>1, <1>2, SendWaysSame DEF Asking, Opening
<1>5. ASSUME NEW b \in Frag PROVE Ways(b)' = Is(recvreq.match_received)'
  <2>1. /\ ViaPut(b)' <=> ViaPut(b)
        /\ ViaAck(b)' <=> ViaAck(b)
        /\ ViaFrag(b)' <=> ViaFrag(b)
    BY <1>3, PutsSame, AcksSame, FragsSame
  <2>2. /\ ViaRetry(b)' <=> ViaRetry(b)
        /\ ViaDue(b)' <=> ViaDue(b)
        /\ ViaSend(b)' <=> ViaSend(b)
    BY <1>1, SendWaysSame
  <2>3. /\ ViaRndv(b)' <=> ViaRndv(b)
        /\ ViaGet' <=> ViaGet
        /\ ViaAsk(b)' <=> ViaAsk(b)
    BY <1>1, <1>2, <1>4 DEF ViaRndv, ViaGet, ViaAsk, Is
  <2>4. Ways(b) = Is(recvreq.match_received)
    BY DEF WayInv, OneWay
  <2>. QED  BY <1>1, <1>2, <2>1, <2>2, <2>3, <2>4 DEF Ways, Is
<1>6. Once'
  <2>1. \A m, n \in network' : m.type = "ACK" /\ n.type = "ACK" => m = n
    BY <1>3 DEF WayInv, Once
  <2>. QED  BY <1>1, <1>2, <1>4, <2>1 DEF WayInv, Once
<1>. QED  BY <1>5, <1>6 DEF OneWay

LEMMA WaysRecvRndv ==
    ASSUME WayInv, NEW t \in Context, RecvRndv(t)
    PROVE  OneWay' /\ Once' /\ Before'
<1>0. /\ recvreq \in RecvReq /\ rpc \in [Context -> RecvPc] /\ eager \in 0..Length
      /\ \A b \in Frag : written[b] \in Nat
  BY DEF WayInv, HandInv, Types
<1>1. UNCHANGED <<eager, sendreq, due, rdma_pending, spc, written>>
  BY DEF RecvRndv, sendVars
<1>2. /\ ~recvreq.match_received /\ network = {[type |-> "RNDV"]}
      /\ \A u \in Context : rpc[u] = "idle"
  <2>1. [type |-> "RNDV"] \in network
    BY DEF RecvRndv
  <2>2. ~recvreq.match_received
    BY <2>1 DEF WayInv, Before
  <2>3. network \in {{[type |-> "RNDV"]}, {[type |-> "RGET"]}}
        /\ \A u \in Context : rpc[u] = "idle"
    BY <2>2 DEF WayInv, Before
  <2>4. [type |-> "RNDV"] # [type |-> "RGET"]
    <3>1. [type |-> "RNDV"].type # [type |-> "RGET"].type
      OBVIOUS
    <3>. QED  BY <3>1
  <2>. QED  BY <2>1, <2>2, <2>3, <2>4
<1>3. PICK offset \in eager..Length :
        LET acks == offset < Length \/ eager = Length
            rest == network \ {[type |-> "RNDV"]}
        IN  /\ recvreq' = [recvreq EXCEPT !.match_received = TRUE, !.rdma_offset = eager,
                             !.send_offset = offset, !.ack_sent = acks]
            /\ IF acks THEN SendAck(rest, offset, offset = eager)
                       ELSE network' = rest /\ UNCHANGED failures
  BY DEF RecvRndv
<1>4. /\ recvreq'.match_received = TRUE /\ recvreq'.rdma_offset = eager
      /\ recvreq'.send_offset = offset /\ recvreq'.get = recvreq.get
  BY <1>0, <1>3 DEF RecvReq
<1>5. /\ \A m \in network' : m.type = "ACK" /\ m.offset = offset
      /\ \A m, n \in network' : m = n
      /\ offset < Length => \E m \in network' : m.type = "ACK" /\ m.offset = offset
  <2>1. network \ {[type |-> "RNDV"]} = {}
    BY <1>2
  <2>2. \/ network' = {} /\ ~(offset < Length)
        \/ \E flag : network' = {[type |-> "ACK", offset |-> offset, nordma |-> flag]}
    BY <1>3, <2>1 DEF SendAck
  <2>3. CASE network' = {} /\ ~(offset < Length)
    BY <2>3
  <2>4. ASSUME NEW flag, network' = {[type |-> "ACK", offset |-> offset, nordma |-> flag]}
        PROVE  /\ \A m \in network' : m.type = "ACK" /\ m.offset = offset
               /\ \A m, n \in network' : m = n
               /\ \E m \in network' : m.type = "ACK" /\ m.offset = offset
    BY <2>4
  <2>. QED  BY <2>2, <2>3, <2>4
<1>6. /\ \A u \in Context : rpc'[u] = "rndv" <=> u = t
      /\ Opening' /\ ~Asking'
  BY <1>0, <1>2 DEF RecvRndv, RecvGoto, Opening, Asking
<1>7. ASSUME NEW b \in Frag PROVE Ways(b)' = Is(recvreq.match_received)'
  <2>1. b \in Int /\ 0 <= b /\ b < Length
    BY DEF Frag
  <2>2. /\ ViaRndv(b)' <=> b < eager
        /\ ViaAsk(b)' <=> eager <= b /\ b < offset
        /\ ViaGet' <=> ViaGet
    BY <1>0, <1>1, <1>4, <1>6, <2>1 DEF ViaRndv, ViaAsk, ViaGet, Is
  <2>3. ~ViaPut(b)' /\ ~ViaFrag(b)'
    BY <1>5 DEF ViaPut, ViaFrag, InNetwork
  <2>4. ViaAck(b)' <=> offset <= b
    BY <1>0, <1>5, <2>1 DEF ViaAck
  <2>5. /\ ViaRetry(b)' <=> ViaRetry(b)
        /\ ViaDue(b)' <=> ViaDue(b)
        /\ ViaSend(b)' <=> ViaSend(b)
    BY <1>1, SendWaysSame
  <2>6. Ways(b) = 0 /\ written[b] \in Nat
    BY <1>0, <1>2 DEF WayInv, OneWay, Is
  <2>7. written[b] = 0 /\ ~ViaGet /\ ~ViaRetry(b) /\ ~ViaDue(b) /\ ~ViaSend(b)
    BY <2>6 DEF Ways, Is
  <2>. QED  BY <1>0, <1>1, <1>4, <2>1, <2>2, <2>3, <2>4, <2>5, <2>7 DEF Ways, Is
<1>8. Once'
  <2>1. ToSend' = ToSend
    BY <1>1, SendWaysSame
  <2>. QED  BY <1>1, <1>5, <1>6, <2>1 DEF WayInv, Once
<1>9. Before'
  BY <1>4, <1>5 DEF Before
<1>. QED  BY <1>7, <1>8, <1>9 DEF OneWay

LEMMA WaysRecvRget ==
    ASSUME WayInv, NEW t \in Context, RecvRget(t)
    PROVE  OneWay' /\ Once' /\ Before'
<1>0. /\ recvreq \in RecvReq /\ rpc \in [Context -> RecvPc]
      /\ \A b \in Frag : written[b] \in Nat
  BY DEF WayInv, HandInv, Types
<1>1. UNCHANGED <<eager, sendreq, due, rdma_pending, spc, written, rpc>>
  BY DEF RecvRget, sendVars
<1>2. ~recvreq.match_received /\ network = {[type |-> "RGET"]}
  <2>1. [type |-> "RGET"] \in network
    BY DEF RecvRget
  <2>2. ~recvreq.match_received
    BY <2>1 DEF WayInv, Before
  <2>3. network \in {{[type |-> "RNDV"]}, {[type |-> "RGET"]}}
    BY <2>2 DEF WayInv, Before
  <2>4. [type |-> "RNDV"] # [type |-> "RGET"]
    <3>1. [type |-> "RNDV"].type # [type |-> "RGET"].type
      OBVIOUS
    <3>. QED  BY <3>1
  <2>. QED  BY <2>1, <2>2, <2>3, <2>4
<1>3. /\ recvreq'.match_received = TRUE /\ recvreq'.rdma_offset = recvreq.rdma_offset
      /\ recvreq'.send_offset = recvreq.send_offset
  BY <1>0 DEF RecvRget, GetFrag, RecvReq
<1>4. network \ {[type |-> "RGET"]} = {}
  BY <1>2
<1>5. \/ /\ network' = {}
         /\ recvreq'.get \in {"pending", "started"}
      \/ /\ \E flag : network' = {[type |-> "ACK", offset |-> 0, nordma |-> flag]}
         /\ recvreq'.get = recvreq.get
  BY ZenonT(40), <1>0, <1>4 DEF RecvRget, GetFrag, SendAck, RecvReq
<1>6. (Asking' <=> Asking) /\ (Opening' <=> Opening) /\ ToSend' = ToSend
  BY <1>1, SendWaysSame DEF Asking, Opening
<1>7. ASSUME NEW b \in Frag PROVE Ways(b)' = Is(recvreq.match_received)'
  <2>1. /\ ViaRndv(b)' <=> ViaRndv(b)
        /\ ViaAsk(b)' <=> ViaAsk(b)
    BY <1>1, <1>3, <1>6 DEF ViaRndv, ViaAsk, Is
  <2>2. ~ViaPut(b)' /\ ~ViaFrag(b)' /\ (ViaAck(b)' <=> network' # {})
    <3>1. \A m \in network' : m.type = "ACK" /\ m.offset = 0
      BY <1>5
    <3>. QED  BY <3>1 DEF ViaPut, ViaFrag, ViaAck, InNetwork, Frag
  <2>3. /\ ViaRetry(b)' <=> ViaRetry(b)
        /\ ViaDue(b)' <=> ViaDue(b)
        /\ ViaSend(b)' <=> ViaSend(b)
    BY <1>1, SendWaysSame
  <2>4. Ways(b) = 0 /\ written[b] \in Nat
    BY <1>0, <1>2 DEF WayInv, OneWay, Is
  <2>5. /\ written[b] = 0 /\ ~ViaGet /\ ~ViaRetry(b) /\ ~ViaDue(b) /\ ~ViaSend(b)
        /\ ~ViaRndv(b) /\ ~ViaAsk(b)
    BY <2>4 DEF Ways, Is
  <2>6. ViaGet' <=> network' = {}
    BY <1>5, <2>5 DEF ViaGet
  <2>. QED  BY <1>1, <1>3, <2>1, <2>2, <2>3, <2>5, <2>6 DEF Ways, Is
<1>8. Once'
  <2>1. \A m, n \in network' : m = n
    BY <1>5
  <2>. QED  BY <1>1, <1>3, <1>6, <2>1 DEF WayInv, Once
<1>9. Before'
  <2>1. \A m \in network' : m.type = "ACK"
    BY <1>5
  <2>. QED  BY <1>3, <2>1 DEF Before
<1>. QED  BY <1>7, <1>8, <1>9 DEF OneWay
LEMMA WaysAddEager ==
    ASSUME WayInv, NEW t \in Context, AddEager(t)
    PROVE  OneWay' /\ Once'
<1>0. /\ recvreq \in RecvReq /\ rpc \in [Context -> RecvPc] /\ eager \in 0..Length
      /\ \A b \in Frag : written[b] \in Nat
  BY DEF WayInv, HandInv, Types
<1>1. UNCHANGED <<eager, sendreq, due, rdma_pending, spc, network>>
  BY DEF AddEager, sendVars
<1>2. /\ recvreq'.match_received = recvreq.match_received
      /\ recvreq'.rdma_offset = recvreq.rdma_offset
      /\ recvreq'.send_offset = recvreq.send_offset /\ recvreq'.get = recvreq.get
  BY <1>0 DEF AddEager, RecvReq
<1>3. /\ \A u \in Context : rpc'[u] = "sent" <=> rpc[u] = "sent"
      /\ \A u \in Context : rpc[u] = "rndv" => u = t
      /\ \A u \in Context : rpc'[u] # "rndv"
      /\ rpc[t] = "rndv"
  <2>1. \A u \in Context : rpc[u] = "rndv" => u = t
    BY DEF AddEager, WayInv, Once
  <2>. QED  BY <1>0, <2>1 DEF AddEager, RecvGoto
<1>4. (Asking' <=> Asking) /\ Opening /\ ~Opening' /\ ToSend' = ToSend
  BY <1>1, <1>3, SendWaysSame DEF Asking, Opening
<1>5. ASSUME NEW b \in Frag PROVE Ways(b)' = Is(recvreq.match_received)'
  <2>1. /\ ViaPut(b)' <=> ViaPut(b)
        /\ ViaAck(b)' <=> ViaAck(b)
        /\ ViaFrag(b)' <=> ViaFrag(b)
    BY <1>1, PutsSame, AcksSame, FragsSame
  <2>2. /\ ViaRetry(b)' <=> ViaRetry(b)
        /\ ViaDue(b)' <=> ViaDue(b)
        /\ ViaSend(b)' <=> ViaSend(b)
    BY <1>1, SendWaysSame
  <2>3. /\ ViaGet' <=> ViaGet
        /\ ViaAsk(b)' <=> ViaAsk(b)
        /\ ~ViaRndv(b)'
        /\ ViaRndv(b) <=> b < eager
    BY <1>1, <1>2, <1>4 DEF ViaRndv, ViaGet, ViaAsk, Is
  <2>4. written'[b] = written[b] + Is(b < eager)
    BY <1>0 DEF AddEager, Writes, Frag, Is
  <2>5. Ways(b) = Is(recvreq.match_received)
    BY DEF WayInv, OneWay
  <2>. QED  BY <1>0, <1>2, <2>1, <2>2, <2>3, <2>4, <2>5 DEF Ways, Is
<1>6. Once'
  BY <1>1, <1>2, <1>3, <1>4 DEF WayInv, Once
<1>. QED  BY <1>5, <1>6 DEF OneWay

\* A get begins, or waits again; its end brings every fragment.
LEMMA WaysGet ==
    ASSUME WayInv, NEW t \in Context, RetryGet(t) \/ RgetCompletion(t)
    PROVE  OneWay' /\ Once'
<1>0. /\ recvreq \in RecvReq /\ rpc \in [Context -> RecvPc]
      /\ \A b \in Frag : written[b] \in Nat
  BY DEF WayInv, HandInv, Types
<1>1. UNCHANGED <<eager, sendreq, due, rdma_pending, spc>>
  BY DEF RetryGet, RgetCompletion, sendVars
<1>2. /\ recvreq'.match_received = recvreq.match_received
      /\ recvreq'.rdma_offset = recvreq.rdma_offset
      /\ recvreq'.send_offset = recvreq.send_offset
  BY <1>0 DEF RetryGet, RgetCompletion, GetFrag, RecvReq
<1>3. /\ \A u \in Context : rpc'[u] = "sent" <=> rpc[u] = "sent"
      /\ \A u \in Context : rpc'[u] = "rndv" <=> rpc[u] = "rndv"
  BY <1>0 DEF RetryGet, RgetCompletion, RecvGoto
<1>4. (Asking' <=> Asking) /\ (Opening' <=> Opening) /\ ToSend' = ToSend
  BY <1>1, <1>3, SendWaysSame DEF Asking, Opening
<1>5. \A m : m.type \in {"PUT", "ACK", "FRAG"} => (m \in network' <=> m \in network)
  BY DEF RetryGet, RgetCompletion
<1>6. ASSUME NEW b \in Frag PROVE Ways(b)' = Is(recvreq.match_received)'
  <2>1. /\ ViaPut(b)' <=> ViaPut(b)
        /\ ViaAck(b)' <=> ViaAck(b)
        /\ ViaFrag(b)' <=> ViaFrag(b)
    BY <1>5, PutsSame, AcksSame, FragsSame
  <2>2. /\ ViaRetry(b)' <=> ViaRetry(b)
        /\ ViaDue(b)' <=> ViaDue(b)
        /\ ViaSend(b)' <=> ViaSend(b)
    BY <1>1, SendWaysSame
  <2>3. /\ ViaRndv(b)' <=> ViaRndv(b)
        /\ ViaAsk(b)' <=> ViaAsk(b)
    BY <1>1, <1>2, <1>4 DEF ViaRndv, ViaAsk, Is
  <2>4. ViaGet /\ written'[b] + Is(ViaGet') = written[b] + 1
    <3>1. CASE RetryGet(t)
      BY <1>0, <3>1 DEF RetryGet, GetFrag, ViaGet, Is, RecvReq
    <3>2. CASE RgetCompletion(t)
      BY <1>0, <3>2 DEF RgetCompletion, Writes, ViaGet, Is, RecvReq
    <3>. QED  BY <3>1, <3>2
  <2>5. Ways(b) = Is(recvreq.match_received)
    BY DEF WayInv, OneWay
  <2>6. written'[b] \in Int
    BY <1>0, <2>4 DEF RetryGet, RgetCompletion, Writes
  <2>. QED  BY <1>0, <1>2, <2>1, <2>2, <2>3, <2>4, <2>5, <2>6 DEF Ways, Is
<1>7. Once'
  <2>1. \A m, n \in network' : m.type = "ACK" /\ n.type = "ACK" => m = n
    BY <1>5 DEF WayInv, Once
  <2>. QED  BY <1>1, <1>2, <1>3, <1>4, <2>1 DEF WayInv, Once
<1>. QED  BY <1>6, <1>7 DEF OneWay

LEMMA WaysRecvFrag ==
    ASSUME WayInv, NEW t \in Context, RecvFrag(t)
    PROVE  OneWay' /\ Once'
<1>0. \A b \in Frag : written[b] \in Nat
  BY DEF WayInv, HandInv, Types
<1>1. UNCHANGED <<eager, sendreq, due, rdma_pending, spc>>
  BY DEF RecvFrag, sendVars
<1>2. /\ recvreq'.rdma_offset = recvreq.rdma_offset
      /\ recvreq'.send_offset = recvreq.send_offset
      /\ recvreq'.get = recvreq.get
      /\ recvreq'.match_received = recvreq.match_received
      /\ \A u \in Context : rpc'[u] = "sent" <=> rpc[u] = "sent"
      /\ \A u \in Context : rpc'[u] = "rndv" <=> rpc[u] = "rndv"
  BY RecvFieldsSame DEF WayInv
<1>3. PICK m \in network : /\ m.type = "FRAG"
                           /\ network' = network \ {m}
                           /\ Writes({m.offset})
  BY DEF RecvFrag
<1>4. ToSend' = ToSend /\ (Asking' <=> Asking) /\ (Opening' <=> Opening)
  BY <1>1, <1>2, SendWaysSame DEF Asking, Opening
<1>5. m.offset \in Frag /\ \A n \in network : n.type = "FRAG" /\ n.offset = m.offset => n = m
  BY <1>3, HeaderFields DEF WayInv, HandInv, Types
<1>6. ASSUME NEW b \in Frag PROVE Ways(b)' = Is(recvreq.match_received)'
  <2>1. /\ ViaPut(b)' <=> ViaPut(b)
        /\ ViaAck(b)' <=> ViaAck(b)
    <3>1. \A n : n.type \in {"PUT", "ACK"} => (n \in network' <=> n \in network)
      BY <1>3
    <3>. QED  BY <3>1, PutsSame, AcksSame
  <2>2. /\ ViaFrag(b) <=> ViaFrag(b)' \/ b = m.offset
        /\ b = m.offset => ~ViaFrag(b)'
    BY <1>3, <1>5 DEF ViaFrag, InNetwork
  <2>3. /\ ViaRetry(b)' <=> ViaRetry(b)
        /\ ViaDue(b)' <=> ViaDue(b)
        /\ ViaSend(b)' <=> ViaSend(b)
    BY <1>1, SendWaysSame
  <2>4. /\ ViaRndv(b)' <=> ViaRndv(b)
        /\ ViaGet' <=> ViaGet
        /\ ViaAsk(b)' <=> ViaAsk(b)
    BY <1>1, <1>2, <1>4 DEF ViaRndv, ViaGet, ViaAsk, Is
  <2>5. written'[b] = written[b] + Is(b = m.offset)
    BY <1>3 DEF Writes, Is
  <2>6. Ways(b) = Is(recvreq.match_received) /\ written[b] \in Nat
    BY <1>0 DEF WayInv, OneWay
  <2>. QED  BY <1>2, <2>1, <2>2, <2>3, <2>4, <2>5, <2>6 DEF Ways, Is
<1>7. Once'
  BY <1>1, <1>2, <1>3, <1>4 DEF WayInv, Once
<1>. QED  BY <1>6, <1>7 DEF OneWay

LEMMA WaysAskPut ==
    ASSUME WayInv, NEW t \in Context, AskPut(t)
    PROVE  OneWay' /\ Once'
<1>0. /\ recvreq \in RecvReq /\ rpc \in [Context -> RecvPc]
      /\ \A b \in Frag : written[b] \in Nat
  BY DEF WayInv, HandInv, Types
<1>. DEFINE h == recvreq.rdma_offset
<1>1. /\ UNCHANGED <<eager, sendreq, due, rdma_pending, spc, written>>
      /\ network' = network \cup {[type |-> "PUT", offset |-> h, ack |-> ~recvreq.ack_sent]}
  BY DEF AskPut, sendVars
<1>2. /\ recvreq'.match_received = recvreq.match_received
      /\ recvreq'.rdma_offset = recvreq.rdma_offset
      /\ recvreq'.send_offset = recvreq.send_offset /\ recvreq'.get = recvreq.get
      /\ h < recvreq.send_offset /\ h \in Nat /\ recvreq.send_offset \in 0..Length
  BY <1>0 DEF AskPut, RecvReq, MayAsk
<1>3. /\ \A u \in Context : rpc[u] # "sent"
      /\ \A u \in Context : rpc'[u] = "rndv" <=> rpc[u] = "rndv"
      /\ rpc'[t] = "sent"
  <2>1. \A u \in Context : rpc[u] # "sent"
    BY DEF AskPut, WayInv, HandInv, Hands, Hand, Busy
  <2>. QED  BY <1>0, <2>1 DEF AskPut, RecvGoto
<1>4. ~Asking /\ Asking' /\ (Opening' <=> Opening) /\ ToSend' = ToSend
  BY <1>1, <1>3, SendWaysSame DEF Asking, Opening
<1>5. ASSUME NEW b \in Frag PROVE Ways(b)' = Is(recvreq.match_received)'
  <2>0. b \in Int
    BY DEF Frag
  <2>1. /\ ViaAck(b)' <=> ViaAck(b)
        /\ ViaFrag(b)' <=> ViaFrag(b)
    <3>1. \A n : n.type \in {"ACK", "FRAG"} => (n \in network' <=> n \in network)
      BY <1>1
    <3>. QED  BY <3>1, AcksSame, FragsSame
  <2>2. /\ ViaRetry(b)' <=> ViaRetry(b)
        /\ ViaDue(b)' <=> ViaDue(b)
        /\ ViaSend(b)' <=> ViaSend(b)
    BY <1>1, SendWaysSame
  <2>3. /\ ViaGet' <=> ViaGet
        /\ ViaRndv(b)' <=> ViaRndv(b)
    BY <1>1, <1>2, <1>4 DEF ViaRndv, ViaGet
  <2>4. /\ ViaAsk(b) <=> ViaAsk(b)' \/ b = h
        /\ b = h => ~ViaAsk(b)'
    BY <1>2, <1>4, <2>0 DEF ViaAsk, Is
  <2>5. ViaPut(b)' <=> ViaPut(b) \/ b = h
    <3>. DEFINE p == [type |-> "PUT", offset |-> h, ack |-> ~recvreq.ack_sent]
    <3>1. p.type = "PUT" /\ p.offset = h
      OBVIOUS
    <3>2. network' = network \cup {p}
      BY <1>1
    <3>. HIDE DEF p, h
    <3>. QED  BY <3>1, <3>2 DEF ViaPut, InNetwork
  <2>6. Ways(b) = Is(recvreq.match_received) /\ written[b] \in Nat /\ written' = written
    BY <1>0, <1>1 DEF WayInv, OneWay
  <2>. HIDE DEF h
  <2>. QED  BY <1>2, <2>1, <2>2, <2>3, <2>4, <2>5, <2>6 DEF Ways, Is
<1>6. Once'
  <2>1. \A m \in network' : m.type = "ACK" => m \in network
    BY <1>1
  <2>2. rdma_pending' = rdma_pending
    BY <1>1
  <2>. QED  BY <1>2, <1>3, <1>4, <2>1, <2>2 DEF WayInv, Once
<1>. QED  BY <1>5, <1>6 DEF OneWay

LEMMA WaysPutSent ==
    ASSUME WayInv, NEW t \in Context, PutSent(t)
    PROVE  OneWay' /\ Once'
<1>0. /\ recvreq \in RecvReq /\ rpc \in [Context -> RecvPc]
      /\ \A b \in Frag : written[b] \in Nat
  BY DEF WayInv, HandInv, Types
<1>1. UNCHANGED <<eager, sendreq, due, rdma_pending, spc, written, network>>
  BY DEF PutSent, sendVars
<1>2. /\ recvreq'.match_received = recvreq.match_received
      /\ recvreq'.rdma_offset = recvreq.rdma_offset + 1
      /\ recvreq'.send_offset = recvreq.send_offset /\ recvreq'.get = recvreq.get
      /\ recvreq.rdma_offset \in Nat
  BY <1>0 DEF PutSent, RecvReq
<1>3. /\ \A u \in Context : rpc[u] = "sent" => u = t
      /\ \A u \in Context : rpc'[u] # "sent"
      /\ \A u \in Context : rpc'[u] = "rndv" <=> rpc[u] = "rndv"
      /\ rpc[t] = "sent"
  <2>1. \A u \in Context : rpc[u] = "sent" => u = t
    BY DEF PutSent, WayInv, HandInv, Hands, Hand, Busy
  <2>. QED  BY <1>0, <2>1 DEF PutSent, RecvGoto
<1>4. Asking /\ ~Asking' /\ (Opening' <=> Opening) /\ ToSend' = ToSend
  BY <1>1, <1>3, SendWaysSame DEF Asking, Opening
<1>5. ASSUME NEW b \in Frag PROVE Ways(b)' = Is(recvreq.match_received)'
  <2>1. /\ ViaPut(b)' <=> ViaPut(b)
        /\ ViaAck(b)' <=> ViaAck(b)
        /\ ViaFrag(b)' <=> ViaFrag(b)
    BY <1>1, PutsSame, AcksSame, FragsSame
  <2>2. /\ ViaRetry(b)' <=> ViaRetry(b)
        /\ ViaDue(b)' <=> ViaDue(b)
        /\ ViaSend(b)' <=> ViaSend(b)
    BY <1>1, SendWaysSame
  <2>3. /\ ViaGet' <=> ViaGet
        /\ ViaRndv(b)' <=> ViaRndv(b)
        /\ ViaAsk(b)' <=> ViaAsk(b)
    BY <1>1, <1>2, <1>4 DEF ViaRndv, ViaGet, ViaAsk, Is
  <2>4. Ways(b) = Is(recvreq.match_received)
    BY DEF WayInv, OneWay
  <2>. QED  BY <1>0, <1>1, <1>2, <2>1, <2>2, <2>3, <2>4 DEF Ways, Is
<1>6. Once'
  BY <1>1, <1>2, <1>3, <1>4 DEF WayInv, Once
<1>. QED  BY <1>5, <1>6 DEF OneWay

LEMMA WaysRecv ==
    ASSUME WayInv, NEW t \in Context, RecvEvent(t) \/ RecvStep(t)
    PROVE  OneWay' /\ Once' /\ Before'
<1>1. CASE RecvRndv(t) \/ RecvRget(t)
  BY <1>1, WaysRecvRndv, WaysRecvRget
<1>2. CASE ~RecvRndv(t) /\ ~RecvRget(t)
  <2>1. OneWay' /\ Once'
    BY <1>2, WaysAddEager, WaysGet, WaysRecvFrag, WaysAskPut, WaysPutSent, WaysRecvSame
       DEF RecvEvent, RecvStep
  <2>2. recvreq.match_received
    BY <1>2, RecvMatched
  <2>3. recvreq'.match_received
    <3>1. recvreq \in RecvReq
      BY DEF WayInv, HandInv, Types
    <3>2. CASE \/ RecvFrag(t) \/ RecvFin(t) \/ RecvPending(t) \/ RecvCheck(t)
               \/ RecvSchedule(t) \/ AskRefused(t) \/ RecvPutOff(t) \/ RecvStop(t)
               \/ RecvUnlock(t)
      BY <2>2, <3>2, RecvFieldsSame DEF WayInv
    <3>3. CASE \/ RetryGet(t) \/ RgetCompletion(t) \/ AddEager(t) \/ AskPut(t) \/ PutSent(t)
      BY <2>2, <3>1, <3>3 DEF RetryGet, RgetCompletion, AddEager, AskPut, PutSent,
                              GetFrag, RecvReq
    <3>. QED  BY <1>2, <3>2, <3>3 DEF RecvEvent, RecvStep
  <2>4. \A m \in network' : m \in network \/ m.type \in {"FINGET", "PUT"}
    <3>1. CASE AskPut(t) \/ RgetCompletion(t)
      BY <3>1 DEF AskPut, RgetCompletion
    <3>2. CASE ~AskPut(t) /\ ~RgetCompletion(t)
      <4>1. network' \subseteq network
        BY <1>2, <3>2
           DEF RecvEvent, RecvStep, RetryGet, RecvFrag, RecvFin, RecvPending, AddEager,
               RecvCheck, RecvSchedule, PutSent, AskRefused, RecvPutOff, RecvStop, RecvUnlock
      <4>. QED  BY <4>1
    <3>. QED  BY <3>1, <3>2
  <2>5. [type |-> "RNDV"] \notin network /\ [type |-> "RGET"] \notin network
    BY <2>2 DEF WayInv, Before
  <2>. QED  BY <2>1, <2>3, <2>4, <2>5 DEF Before
<1>. QED  BY <1>1, <1>2
----------------------------------------------------------------------------
(* The theorem *)

LEMMA WaysInit == Init => OneWay /\ Once /\ Before
<1>. SUFFICES ASSUME Init PROVE OneWay /\ Once /\ Before
  OBVIOUS
<1>1. ~Asking /\ ~Sending /\ ~Opening /\ ToSend = <<>>
  BY DEF Init, Asking, Sending, Opening, ToSend
<1>2. network \in {{[type |-> "RNDV"]}, {[type |-> "RGET"]}}
  BY DEF Init
<1>3. \A m \in network : m.type \in {"RNDV", "RGET"}
  BY <1>2
<1>4. ASSUME NEW b \in Frag PROVE Ways(b) = 0
  <2>1. ~ViaRndv(b) /\ ~ViaGet /\ ~ViaAsk(b) /\ ~ViaRetry(b)
    BY <1>1 DEF Init, ViaRndv, ViaGet, ViaAsk, ViaRetry, Is, Frag
  <2>2. ~ViaPut(b) /\ ~ViaAck(b) /\ ~ViaFrag(b)
    BY <1>3 DEF ViaPut, ViaAck, ViaFrag, InNetwork
  <2>3. ~ViaDue(b)
    BY DEF Init, ViaDue
  <2>4. ~ViaSend(b)
    BY <1>1 DEF ViaSend, Lists
  <2>5. written[b] = 0
    BY DEF Init
  <2>. QED  BY <2>1, <2>2, <2>3, <2>4, <2>5 DEF Ways, Is
<1>5. OneWay
  BY <1>4 DEF Init, OneWay, Is
<1>6. Once
  BY <1>1, <1>3 DEF Init, Once, Distinct
<1>7. Before
  BY <1>2 DEF Init, Before
<1>. QED  BY <1>5, <1>6, <1>7

LEMMA WayInvNext == WayInv /\ [Next]_vars => WayInv'
<1>. SUFFICES ASSUME WayInv, [Next]_vars PROVE WayInv'
  OBVIOUS
<1>1. HandInv'
  BY HandInvNext DEF WayInv
<1>2. CASE UNCHANGED vars
  <2>1. UNCHANGED <<eager, sendreq, recvreq, network, due, rdma_pending, spc, rpc, written>>
    BY <1>2 DEF vars, sendVars, recvVars
  <2>2. ToSend' = ToSend /\ (Asking' <=> Asking)
    BY <2>1 DEF ToSend, Asking
  <2>3. ASSUME NEW b \in Frag PROVE Ways(b)' = Ways(b)
    <3>1. /\ ViaRndv(b)' <=> ViaRndv(b)
          /\ ViaGet' <=> ViaGet
          /\ ViaAsk(b)' <=> ViaAsk(b)
      BY <2>1, RecvWaysSame
    <3>2. /\ ViaPut(b)' <=> ViaPut(b)
          /\ ViaAck(b)' <=> ViaAck(b)
          /\ ViaFrag(b)' <=> ViaFrag(b)
      BY <2>1, PutsSame, AcksSame, FragsSame
    <3>3. /\ ViaRetry(b)' <=> ViaRetry(b)
          /\ ViaDue(b)' <=> ViaDue(b)
          /\ ViaSend(b)' <=> ViaSend(b)
      BY <2>1, SendWaysSame
    <3>. QED  BY <2>1, <3>1, <3>2, <3>3 DEF Ways, Is
  <2>4. OneWay'
    BY <2>1, <2>3 DEF WayInv, OneWay, Is
  <2>5. Once' /\ Before'
    BY <2>1, <2>2 DEF WayInv, Once, Before
  <2>. QED  BY <1>1, <2>4, <2>5 DEF WayInv
<1>3. ASSUME NEW t \in Context, SendEvent(t) \/ SendStep(t) PROVE WayInv'
  BY <1>1, <1>3, WaysSend, BeforeSend DEF WayInv
<1>4. ASSUME NEW t \in Context, RecvEvent(t) \/ RecvStep(t) PROVE WayInv'
  BY <1>1, <1>4, WaysRecv DEF WayInv
<1>. QED  BY <1>2, <1>3, <1>4 DEF Next

THEOREM WayInvariant == Spec => []WayInv
<1>1. Init => WayInv
  BY TypesInit, HandsInit, RangesInit, WaysInit DEF WayInv, HandInv
<1>. QED  BY <1>1, WayInvNext, PTL DEF Spec

LEMMA AtMostOne ==
    ASSUME NEW S, \A x, y \in S : x = y
    PROVE  Cardinality(S) = Is(S # {})
<1>1. CASE S = {}
  <2>1. Cardinality(S) = 0
    BY <1>1, FS_EmptySet, Zenon
  <2>. QED  BY <1>1, <2>1 DEF Is
<1>2. CASE S # {}
  <2>1. PICK x : x \in S
    BY <1>2
  <2>2. S = {x}
    BY <2>1
  <2>3. Cardinality(S) = 1
    BY <2>2, FS_Singleton, Zenon
  <2>. QED  BY <1>2, <2>3 DEF Is
<1>. QED  BY <1>1, <1>2

\* The paths that the property counts are the ways of the invariant.
LEMMA PathsAreWays ==
    ASSUME WayInv, NEW b \in Frag
    PROVE  Paths(b) = Ways(b)
<1>0. /\ recvreq.rdma_offset \in Nat /\ recvreq.send_offset \in 0..Length /\ b \in Int
      /\ ToSend \in FragSeq
  BY ToSendIs DEF WayInv, HandInv, Types, RecvReq, Frag
<1>1. b \in ToAsk <=> ViaAsk(b)
  BY <1>0 DEF ToAsk, ViaAsk, Asking, Is
<1>2. Cardinality({x \in rdma_pending : x.offset = b}) = Is(ViaRetry(b))
  <2>. DEFINE S == {x \in rdma_pending : x.offset = b}
  <2>1. \A x, y \in S : x = y
    BY DEF WayInv, Once
  <2>2. S # {} <=> ViaRetry(b)
    BY DEF ViaRetry
  <2>. HIDE DEF S
  <2>3. Cardinality(S) = Is(ViaRetry(b))
    BY <2>1, <2>2, AtMostOne DEF Is
  <2>. QED  BY <2>3 DEF S
<1>3. Cardinality({i \in DOMAIN ToSend : ToSend[i] = b}) = Is(ViaSend(b))
  <2>. DEFINE S == {i \in DOMAIN ToSend : ToSend[i] = b}
  <2>1. \A x, y \in S : x = y
    BY DEF WayInv, Once, Distinct
  <2>2. S # {} <=> ViaSend(b)
    BY DEF ViaSend, Lists
  <2>. HIDE DEF S
  <2>3. Cardinality(S) = Is(ViaSend(b))
    BY <2>1, <2>2, AtMostOne DEF Is
  <2>. QED  BY <2>3 DEF S
<1>4. /\ ViaRndv(b) <=> b < eager /\ \E t \in Context : rpc[t] = "rndv"
      /\ ViaGet <=> recvreq.get \in {"pending", "started"}
      /\ ViaPut(b) <=> InNetwork("PUT", b)
      /\ ViaDue(b) <=> [type |-> "put", offset |-> b] \in due
      /\ ViaAck(b) <=> \E m \in network : m.type = "ACK" /\ m.offset <= b
      /\ ViaFrag(b) <=> InNetwork("FRAG", b)
  BY DEF ViaRndv, ViaGet, ViaPut, ViaDue, ViaAck, ViaFrag, Opening
<1>. QED  BY <1>1, <1>2, <1>3, <1>4 DEF Paths, Ways, Is

\* However the receiver divides the message, whatever the transports accept and
\* in whatever order PUT, ACK, FIN and FRAG cross, each fragment of a matched
\* message is on exactly one way to the buffer (recv_request_ack(),
\* recv_request_schedule_once(), send_request_put_frag()).
THEOREM EveryFragmentOnOneWayInvariant == Spec => []EveryFragmentOnOneWay
<1>1. WayInv => EveryFragmentOnOneWay
  BY PathsAreWays DEF WayInv, OneWay, EveryFragmentOnOneWay, Is
<1>. QED  BY <1>1, WayInvariant, PTL
=============================================================================
