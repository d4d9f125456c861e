--------------------------- MODULE Ob1CountProofs ---------------------------
(***************************************************************************)
(* What the two ends of a long message count: a request completes when     *)
(* enough bytes are counted, and a pipeline is full when enough fragments  *)
(* are.  For every length of the message, number of contexts and depth of  *)
(* the pipelines the counts are those of the fragments they stand for, and *)
(* what is asked for and not arrived, or sent and not confirmed, never     *)
(* outgrows the depths that the parameters set.                            *)
(***************************************************************************)
EXTENDS Ob1RendezvousProofs

USE RendezvousAssumption DEF RendezvousAssumption

----------------------------------------------------------------------------
(* Counting fragments *)

LEMMA FragSets ==
    ASSUME NEW S, S \subseteq Frag
    PROVE  /\ IsFiniteSet(S) /\ Cardinality(S) \in 0..Length
           /\ Cardinality(S) = Length => S = Frag
<1>1. IsFiniteSet(Frag) /\ Cardinality(Frag) = Length
  BY FS_Interval DEF Frag
<1>2. /\ IsFiniteSet(S) /\ Cardinality(S) <= Length
      /\ Cardinality(S) = Length => S = Frag
  BY <1>1, FS_Subset
<1>3. Cardinality(S) \in Nat
  BY <1>2, FS_CardinalityType
<1>. QED  BY <1>2, <1>3

LEMMA OneMore ==
    ASSUME NEW S, NEW T, NEW b \in Frag, S \subseteq Frag, T \subseteq Frag,
           \A c \in Frag : c \in T <=> c \in S \/ c = b
    PROVE  Cardinality(T) = Cardinality(S) + Is(b \notin S)
<1>1. T = S \cup {b}
  OBVIOUS
<1>2. IsFiniteSet(S) /\ Cardinality(S) \in Int
  BY FragSets
<1>3. Cardinality(T) = IF b \in S THEN Cardinality(S) ELSE Cardinality(S) + 1
  BY <1>1, <1>2, FS_AddElement
<1>. QED  BY <1>2, <1>3 DEF Is

LEMMA EagerMore ==
    ASSUME NEW S, NEW T, NEW n \in 0..Length, S \subseteq Frag, T \subseteq Frag,
           \A c \in Frag : c \in T <=> c \in S \/ c < n,
           \A c \in S : c >= n
    PROVE  Cardinality(T) = Cardinality(S) + n
<1>. DEFINE E == 0..n - 1
<1>1. IsFiniteSet(E) /\ Cardinality(E) = n
  BY FS_Interval
<1>2. T = S \cup E /\ S \cap E = {}
  <2>1. \A c \in Frag : c < n <=> c \in E
    BY DEF Frag
  <2>2. E \subseteq Frag
    BY DEF Frag
  <2>3. S \cap E = {}
    BY <2>1
  <2>. HIDE DEF E
  <2>4. T = S \cup E
    BY <2>1, <2>2
  <2>. QED  BY <2>3, <2>4
<1>3. IsFiniteSet(S) /\ Cardinality(S) \in Int
  BY FragSets
<1>4. Cardinality(S \cap E) = 0
  BY <1>2, FS_EmptySet
<1>5. Cardinality(S \cup E) = Cardinality(S) + Cardinality(E) - Cardinality(S \cap E)
  BY <1>1, <1>3, FS_Union
<1>. HIDE DEF E
<1>. QED  BY <1>1, <1>2, <1>3, <1>4, <1>5

----------------------------------------------------------------------------
(* What the receiver is told, and what it counts *)

FinOk(b) == [type |-> "FIN", offset |-> b, fail |-> FALSE] \in network
FinFail(b) == [type |-> "FIN", offset |-> b, fail |-> TRUE] \in network
FragDue(b) == [type |-> "frag", offset |-> b] \in due

\* A FIN tells of a fragment that is there, or of one that will be copied; a
\* fragment whose completion is due has been sent.
Told ==
    \A b \in Frag :
      /\ FinOk(b) => written[b] = 1
      /\ FinFail(b) => /\ ~FinOk(b) /\ ~ViaAsk(b) /\ ~ViaPut(b)
                       /\ ~ViaRetry(b) /\ ~ViaDue(b)
      /\ FragDue(b) => written[b] = 1 \/ ViaFrag(b)

Arrived == {b \in Frag : written[b] = 1}
Untold == {b \in Frag : FinOk(b)}

\* What has come by put counts when its FIN comes.
Received == recvreq.bytes_received + Cardinality(Untold) = Cardinality(Arrived)

RecvComplete == recvreq.complete > 0 => recvreq.bytes_received >= Length

ReceivedInv == WayInv /\ Told /\ Received /\ RecvComplete

\* A fragment is written once, and stays.
NoneTwice == \A b \in Frag : written[b] \in {0, 1}

LEMMA WrittenOnce == WayInv => NoneTwice
<1>. SUFFICES ASSUME WayInv, NEW b \in Frag PROVE written[b] \in {0, 1}
  BY DEF NoneTwice
<1>1. Ways(b) = Is(recvreq.match_received) /\ written[b] \in Nat
  BY DEF WayInv, OneWay, HandInv, Types
<1>. QED  BY <1>1 DEF Ways, Is

LEMMA WrittenStays ==
    ASSUME WayInv, WayInv', [Next]_vars, NEW c \in Frag
    PROVE  written[c] = 1 => written'[c] = 1
<1>1. written[c] \in {0, 1} /\ written'[c] \in {0, 1}
  <2>1. WayInv' => NoneTwice'
    BY WrittenOnce, PTL
  <2>. QED  BY <2>1, WrittenOnce DEF NoneTwice
<1>2. written' = written \/ \E S : Writes(S)
  <2>1. CASE UNCHANGED vars
    BY <2>1 DEF vars, recvVars
  <2>2. ASSUME NEW t \in Context, SendEvent(t) \/ SendStep(t)
        PROVE  written' = written \/ \E S : Writes(S)
    BY <2>2 DEF SendEvent, SendStep, SendCheck, RndvCompletion, FragCompletion, PutCompletion,
         RgetDelivered, RecvAck, AckState, SendSchedule, SendFrag, FragSent, SendPutOff,
         SendStop, SendUnlock, SendPending, RecvPut, RetryPut, Fallback, recvVars
  <2>3. ASSUME NEW t \in Context, RecvEvent(t) \/ RecvStep(t)
        PROVE  written' = written \/ \E S : Writes(S)
    BY <2>3 DEF RecvEvent, RecvStep, RecvRndv, RecvRget, RetryGet, RgetCompletion, RecvFrag,
         RecvFin, RecvPending, AddEager, RecvCheck, RecvSchedule, AskPut, PutSent,
         AskRefused, RecvPutOff, RecvStop, RecvUnlock
  <2>. QED  BY <2>1, <2>2, <2>3 DEF Next
<1>. QED  BY <1>1, <1>2 DEF Writes

LEMMA FinsSame ==
    ASSUME \A m : m.type = "FIN" => (m \in network' <=> m \in network), NEW b
    PROVE  /\ FinOk(b)' <=> FinOk(b)
           /\ FinFail(b)' <=> FinFail(b)
<1>1. /\ [type |-> "FIN", offset |-> b, fail |-> FALSE].type = "FIN"
      /\ [type |-> "FIN", offset |-> b, fail |-> TRUE].type = "FIN"
  OBVIOUS
<1>. QED  BY <1>1 DEF FinOk, FinFail

\* Before the match nothing is told, and nothing is due but the first header.
LEMMA ToldBefore ==
    ASSUME WayInv, Told, ~recvreq.match_received, NEW b \in Frag
    PROVE  /\ written[b] = 0 /\ ~FinOk(b) /\ ~FinFail(b) /\ ~FragDue(b)
           /\ ~ViaFrag(b) /\ ~ViaSend(b) /\ ~ViaDue(b) /\ ~ViaRetry(b) /\ ~ViaPut(b)
<1>1. Ways(b) = 0 /\ written[b] \in Nat
  BY DEF WayInv, OneWay, HandInv, Types, Is
<1>2. written[b] = 0 /\ ~ViaFrag(b) /\ ~ViaSend(b) /\ ~ViaDue(b) /\ ~ViaRetry(b) /\ ~ViaPut(b)
  BY <1>1 DEF Ways, Is
<1>3. \A m \in network : m.type \in {"RNDV", "RGET"}
  BY DEF WayInv, Before
<1>4. ~FinOk(b) /\ ~FinFail(b)
  BY <1>3 DEF FinOk, FinFail
<1>. QED  BY <1>2, <1>4 DEF Told
----------------------------------------------------------------------------
(* A PUT that came, or that waited, is started, waits or is given up *)

LEMMA PutFragSplit ==
    ASSUME WayInv, NEW t \in Context, RecvPut(t) \/ RetryPut(t)
    PROVE  \E h \in Frag, s \in SendReq, n \in Nat :
             /\ ViaPut(h) \/ ViaRetry(h)
             /\ PutFrag(t, s, h, n)
             /\ n = 0 \/ \E x \in rdma_pending : n = x.retries + 1
             /\ s = sendreq \/ /\ s = [sendreq EXCEPT !.state = @ - 1]
                               /\ [type |-> "PUT", offset |-> h, ack |-> TRUE] \in network
<1>0. sendreq \in SendReq /\ sendreq.state \in Int
  BY DEF WayInv, HandInv, Types, SendReq
<1>1. CASE RecvPut(t)
  <2>1. PICK m \in network : /\ m.type = "PUT"
                             /\ PutFrag(t, [sendreq EXCEPT !.state =
                                  IF m.ack THEN @ - 1 ELSE @], m.offset, 0)
    BY <1>1 DEF RecvPut
  <2>2. /\ m.offset \in Frag /\ m.ack \in BOOLEAN /\ ViaPut(m.offset)
        /\ m = [type |-> "PUT", offset |-> m.offset, ack |-> m.ack]
    BY <2>1, HeaderFields DEF WayInv, HandInv, Types, ViaPut, InNetwork
  <2>3. CASE m.ack
    <3>1. [sendreq EXCEPT !.state = @ - 1] \in SendReq
      <4>1. sendreq.state - 1 \in Int
        BY <1>0
      <4>. QED  BY <1>0, <4>1, SendReqWith
    <3>2. PutFrag(t, [sendreq EXCEPT !.state = @ - 1], m.offset, 0)
      BY <2>1, <2>3
    <3>3. [type |-> "PUT", offset |-> m.offset, ack |-> TRUE] \in network
      BY <2>2, <2>3
    <3>. QED  BY <2>2, <3>1, <3>2, <3>3
  <2>4. CASE ~m.ack
    <3>1. [sendreq EXCEPT !.state = IF m.ack THEN @ - 1 ELSE @] = sendreq
      BY <1>0, <2>4 DEF SendReq
    <3>2. PutFrag(t, sendreq, m.offset, 0)
      BY <2>1, <3>1
    <3>. QED  BY <1>0, <2>2, <3>2
  <2>. QED  BY <2>2, <2>3, <2>4
<1>2. CASE RetryPut(t)
  <2>1. PICK x \in rdma_pending : PutFrag(t, sendreq, x.offset, x.retries + 1)
    BY <1>2 DEF RetryPut
  <2>2. x.offset \in Frag /\ x.retries + 1 \in Nat /\ ViaRetry(x.offset)
    BY DEF WayInv, HandInv, Types, ViaRetry
  <2>. QED  BY <1>0, <2>1, <2>2
<1>. QED  BY <1>1, <1>2

\* What it does to the fragments: to h, of which it was, and to the others.
LEMMA PutFragWays ==
    ASSUME WayInv, WayInv', NEW t \in Context, NEW s \in SendReq, NEW h \in Frag,
           NEW n \in Nat, ViaPut(h) \/ ViaRetry(h), PutFrag(t, s, h, n),
           written' = written, NEW b \in Frag
    PROVE  /\ ViaPut(b)' => ViaPut(b)
           /\ ViaRetry(b)' => ViaRetry(b) \/ b = h
           /\ ViaDue(b)' => ViaDue(b) \/ b = h
           /\ FinOk(b)' <=> FinOk(b)
           /\ FinFail(b)' => FinFail(b) \/ b = h
           /\ FinFail(h)' => \/ FinFail(h)
                             \/ ~ViaPut(h)' /\ ~ViaRetry(h)' /\ ~ViaDue(h)'
           /\ FragDue(b)' <=> FragDue(b)
           /\ ViaFrag(b)' <=> ViaFrag(b)
           /\ written[h] = 0 /\ ~ViaAsk(h) /\ ~ViaDue(h) /\ ~ViaFrag(h) /\ ~ViaSend(h)
<1>0. /\ written[h] = 0 /\ ~ViaAsk(h) /\ ~ViaDue(h) /\ ~ViaFrag(h) /\ ~ViaSend(h)
  <2>1. Ways(h) = Is(recvreq.match_received) /\ written[h] \in Nat
    BY DEF WayInv, OneWay, HandInv, Types
  <2>. QED  BY <2>1 DEF Ways, Is
<1>1. /\ \A m : m.type = "FRAG" => (m \in network' <=> m \in network)
      /\ \A m : m.type = "PUT" => (m \in network' <=> m \in network /\ m.offset # h)
  BY DEF PutFrag, GiveUp, WithoutPut
<1>2. /\ ViaPut(b)' => ViaPut(b)
      /\ ~ViaPut(h)'
  BY <1>1 DEF ViaPut, InNetwork
<1>3. ViaFrag(b)' <=> ViaFrag(b)
  BY <1>1, FragsSame
<1>4. \A c : /\ [type |-> "FIN", offset |-> c, fail |-> FALSE].type = "FIN"
             /\ [type |-> "FIN", offset |-> c, fail |-> TRUE].type = "FIN"
             /\ [type |-> "FIN", offset |-> c, fail |-> FALSE].fail = FALSE
             /\ [type |-> "FIN", offset |-> c, fail |-> TRUE].fail = TRUE
             /\ [type |-> "FIN", offset |-> c, fail |-> TRUE].offset = c
             /\ [type |-> "put", offset |-> c].offset = c
             /\ [type |-> "frag", offset |-> c].type = "frag"
  OBVIOUS
<1>5. /\ FinOk(b)' <=> FinOk(b)
      /\ FinFail(b)' => FinFail(b) \/ b = h
  <2>1. \A m \in network' : \/ m \in network
                            \/ m = [type |-> "FIN", offset |-> h, fail |-> TRUE]
    BY DEF PutFrag, GiveUp, WithoutPut
  <2>2. \A m \in network : m.type = "FIN" => m \in network'
    BY DEF PutFrag, GiveUp, WithoutPut
  <2>3. FinOk(b)' <=> FinOk(b)
    BY <1>4, <2>1, <2>2 DEF FinOk
  <2>4. FinFail(b)' => FinFail(b) \/ b = h
    BY <1>4, <2>1 DEF FinFail
  <2>. QED  BY <2>3, <2>4
<1>6. CASE /\ due' = due \cup {[type |-> "put", offset |-> h]}
           /\ network' = WithoutPut(h)
           /\ rdma_pending' = PendingWithout(h)
  <2>1. FinFail(h)' => FinFail(h)
    BY <1>6 DEF FinFail, WithoutPut
  <2>2. ViaRetry(b)' => ViaRetry(b)
    BY <1>6 DEF ViaRetry, PendingWithout
  <2>3. /\ ViaDue(b)' => ViaDue(b) \/ b = h
        /\ FragDue(b)' <=> FragDue(b)
    <3>1. \A c : c \in due' <=> c \in due \/ c = [type |-> "put", offset |-> h]
      BY <1>6
    <3>2. ViaDue(b)' => ViaDue(b) \/ b = h
      BY <1>4, <3>1 DEF ViaDue
    <3>3. FragDue(b)' <=> FragDue(b)
      BY <1>4, <3>1 DEF FragDue
    <3>. QED  BY <3>2, <3>3
  <2>. QED  BY <1>0, <1>2, <1>3, <1>5, <2>1, <2>2, <2>3
<1>7. CASE /\ due' = due
           /\ network' = WithoutPut(h)
           /\ rdma_pending' = PendingWithout(h) \cup {[offset |-> h, retries |-> n]}
  <2>1. FinFail(h)' => FinFail(h)
    BY <1>7 DEF FinFail, WithoutPut
  <2>2. ViaRetry(b)' => ViaRetry(b) \/ b = h
    <3>1. \A x \in rdma_pending' : x \in rdma_pending \/ x.offset = h
      BY <1>7 DEF PendingWithout
    <3>. QED  BY <3>1 DEF ViaRetry
  <2>3. /\ ViaDue(b)' <=> ViaDue(b)
        /\ FragDue(b)' <=> FragDue(b)
    BY <1>7 DEF ViaDue, FragDue
  <2>. QED  BY <1>0, <1>2, <1>3, <1>5, <2>1, <2>2, <2>3
<1>8. CASE /\ due' = due
           /\ rdma_pending' = PendingWithout(h)
  <2>1. ViaRetry(b)' => ViaRetry(b)
    BY <1>8 DEF ViaRetry, PendingWithout
  <2>2. ~ViaRetry(h)'
    BY <1>8 DEF ViaRetry, PendingWithout
  <2>3. /\ ViaDue(b)' <=> ViaDue(b)
        /\ ViaDue(h)' <=> ViaDue(h)
        /\ FragDue(b)' <=> FragDue(b)
    BY <1>8 DEF ViaDue, FragDue
  <2>. QED  BY <1>0, <1>2, <1>3, <1>5, <2>1, <2>2, <2>3
<1>. QED  BY <1>6, <1>7, <1>8 DEF PutFrag, GiveUp

\* What most steps of the sender leave as it is.
LEMMA SendCountsSame ==
    ASSUME NEW t \in Context,
           \/ SendCheck(t) \/ RndvCompletion(t) \/ FragCompletion(t) \/ RgetDelivered(t)
           \/ RecvAck(t) \/ AckState(t) \/ SendSchedule(t) \/ FragSent(t) \/ SendPutOff(t)
           \/ SendStop(t) \/ SendUnlock(t) \/ SendPending(t) \/ Fallback(t),
           NEW b
    PROVE  /\ ViaPut(b)' <=> ViaPut(b)
           /\ ViaRetry(b)' <=> ViaRetry(b)
           /\ ViaDue(b)' <=> ViaDue(b)
           /\ FinOk(b)' <=> FinOk(b)
           /\ FinFail(b)' <=> FinFail(b)
           /\ FragDue(b)' => FragDue(b)
           /\ ViaFrag(b)' <=> ViaFrag(b)
           /\ UNCHANGED <<eager, recvreq, rpc, written, rdma_pending>>
<1>1. /\ UNCHANGED <<eager, recvreq, rpc, written, rdma_pending>>
      /\ due' \subseteq due /\ \A c : c.type = "put" => (c \in due' <=> c \in due)
  <2>1. UNCHANGED <<eager, recvreq, rpc, written, rdma_pending>>
    BY DEF SendCheck, RndvCompletion, FragCompletion, RgetDelivered, RecvAck, AckState,
         SendSchedule, FragSent, SendPutOff, SendStop, SendUnlock, SendPending, Fallback,
         recvVars
  <2>2. due' = due \/ \E c \in due : c.type \in {"rndv", "frag"} /\ due' = due \ {c}
    BY DEF SendCheck, RndvCompletion, FragCompletion, RgetDelivered, RecvAck, AckState,
         SendSchedule, FragSent, SendPutOff, SendStop, SendUnlock, SendPending, Fallback
  <2>. QED  BY <2>1, <2>2
<1>2. \A m : m.type \in {"PUT", "FIN", "FRAG"} => (m \in network' <=> m \in network)
  <2>1. \/ network' = network
        \/ \E m \in network : m.type \in {"ACK", "FINGET"} /\ network' = network \ {m}
    <3>1. CASE RgetDelivered(t)
      <4>1. [type |-> "FINGET"].type = "FINGET"
        OBVIOUS
      <4>. QED  BY <3>1, <4>1 DEF RgetDelivered
    <3>2. CASE RecvAck(t)
      BY <3>2 DEF RecvAck
    <3>. QED
      BY <3>1, <3>2
         DEF SendCheck, RndvCompletion, FragCompletion, AckState, SendSchedule,
             FragSent, SendPutOff, SendStop, SendUnlock, SendPending, Fallback
  <2>. QED  BY <2>1
<1>3. [type |-> "put", offset |-> b].type = "put"
  OBVIOUS
<1>. QED  BY <1>1, <1>2, <1>3, PutsSame, FragsSame, FinsSame DEF ViaRetry, ViaDue, FragDue

LEMMA ToldSend ==
    ASSUME WayInv, WayInv', Told, NEW t \in Context, SendEvent(t) \/ SendStep(t)
    PROVE  Told'
<1>0. [Next]_vars
  BY DEF Next
<1>r. UNCHANGED <<eager, recvreq, rpc>>
  BY DEF SendEvent, SendStep, SendCheck, RndvCompletion, FragCompletion, PutCompletion,
         RgetDelivered, RecvAck, AckState, SendSchedule, SendFrag, FragSent, SendPutOff,
         SendStop, SendUnlock, SendPending, RecvPut, RetryPut, Fallback, recvVars
<1>. SUFFICES ASSUME NEW b \in Frag
     PROVE  /\ FinOk(b)' => written'[b] = 1
            /\ FinFail(b)' => /\ ~FinOk(b)' /\ ~ViaAsk(b)' /\ ~ViaPut(b)'
                              /\ ~ViaRetry(b)' /\ ~ViaDue(b)'
            /\ FragDue(b)' => written'[b] = 1 \/ ViaFrag(b)'
  BY DEF Told
<1>t. /\ FinOk(b) => written[b] = 1
      /\ FinFail(b) => /\ ~FinOk(b) /\ ~ViaAsk(b) /\ ~ViaPut(b)
                       /\ ~ViaRetry(b) /\ ~ViaDue(b)
      /\ FragDue(b) => written[b] = 1 \/ ViaFrag(b)
  BY DEF Told
<1>a. ViaAsk(b)' <=> ViaAsk(b)
  BY <1>r, RecvWaysSame
<1>1. CASE \/ SendCheck(t) \/ RndvCompletion(t) \/ FragCompletion(t) \/ RgetDelivered(t)
           \/ RecvAck(t) \/ AckState(t) \/ SendSchedule(t) \/ FragSent(t) \/ SendPutOff(t)
           \/ SendStop(t) \/ SendUnlock(t) \/ SendPending(t) \/ Fallback(t)
  <2>1. /\ ViaPut(b)' <=> ViaPut(b)
        /\ ViaRetry(b)' <=> ViaRetry(b)
        /\ ViaDue(b)' <=> ViaDue(b)
        /\ FinOk(b)' <=> FinOk(b)
        /\ FinFail(b)' <=> FinFail(b)
        /\ FragDue(b)' => FragDue(b)
        /\ ViaFrag(b)' <=> ViaFrag(b)
        /\ written' = written
    BY <1>1, SendCountsSame
  <2>. QED  BY <1>t, <1>a, <2>1
<1>2. CASE PutCompletion(t)
  <2>1. PICK c \in due :
          /\ c.type = "put"
          /\ due' = due \ {c}
          /\ Writes({c.offset})
          /\ network' = network \cup {[type |-> "FIN", offset |-> c.offset, fail |-> FALSE]}
    BY <1>2 DEF PutCompletion
  <2>2. c = [type |-> "put", offset |-> c.offset] /\ c.offset \in Frag
    BY <2>1, CompletionMade DEF WayInv, HandInv, Types
  <2>3. ViaDue(c.offset)
    BY <2>2 DEF ViaDue
  <2>4. written[b] = 1 => written'[b] = 1
    BY <1>0, WrittenStays
  <2>5. /\ FinOk(b)' => FinOk(b) \/ b = c.offset
        /\ FinFail(b)' => FinFail(b)
        /\ FinOk(b) /\ FinFail(b) => b # c.offset
    <3>1. \A m : m \in network' <=>
                   m \in network \/ m = [type |-> "FIN", offset |-> c.offset, fail |-> FALSE]
      BY <2>1
    <3>2. /\ [type |-> "FIN", offset |-> b, fail |-> FALSE].offset = b
          /\ [type |-> "FIN", offset |-> c.offset, fail |-> FALSE].offset = c.offset
          /\ [type |-> "FIN", offset |-> b, fail |-> TRUE].fail = TRUE
          /\ [type |-> "FIN", offset |-> c.offset, fail |-> FALSE].fail = FALSE
      OBVIOUS
    <3>3. FinOk(b)' => FinOk(b) \/ b = c.offset
      BY <3>1, <3>2 DEF FinOk
    <3>4. FinFail(b)' => FinFail(b)
      BY <3>1, <3>2 DEF FinFail
    <3>. QED  BY <1>t, <3>3, <3>4
  <2>6. /\ ViaPut(b)' <=> ViaPut(b)
        /\ ViaFrag(b)' <=> ViaFrag(b)
    <3>1. \A m : m.type \in {"PUT", "FRAG"} => (m \in network' <=> m \in network)
      BY <2>1
    <3>. QED  BY <3>1, PutsSame, FragsSame
  <2>7. /\ ViaRetry(b)' <=> ViaRetry(b)
        /\ ViaDue(b)' => ViaDue(b)
        /\ FragDue(b)' => FragDue(b)
    BY <1>2, <2>1 DEF PutCompletion, ViaRetry, ViaDue, FragDue
  <2>8. b = c.offset => written'[b] = 1
    <3>1. Ways(c.offset) = Is(recvreq.match_received) /\ written[c.offset] \in Nat
      BY <2>2 DEF WayInv, OneWay, HandInv, Types
    <3>2. written[c.offset] = 0
      BY <2>3, <3>1 DEF Ways, Is
    <3>. QED  BY <2>1, <3>2 DEF Writes
  <2>. QED  BY <1>t, <1>a, <2>3, <2>4, <2>5, <2>6, <2>7, <2>8
<1>3. CASE SendFrag(t)
  <2>. DEFINE h == Head(sendreq.ranges)
  <2>1. /\ UNCHANGED <<rdma_pending, written>>
        /\ network' = network \cup {[type |-> "FRAG", offset |-> h]}
        /\ due' = due \cup {[type |-> "frag", offset |-> h]}
    BY <1>3 DEF SendFrag, recvVars
  <2>. HIDE DEF h
  <2>2. /\ ViaPut(b)' <=> ViaPut(b)
        /\ FinOk(b)' <=> FinOk(b)
        /\ FinFail(b)' <=> FinFail(b)
    <3>1. \A n : n.type \in {"PUT", "FIN"} => (n \in network' <=> n \in network)
      BY <2>1
    <3>. QED  BY <3>1, PutsSame, FinsSame
  <2>3. /\ ViaRetry(b)' <=> ViaRetry(b)
        /\ ViaDue(b)' <=> ViaDue(b)
    BY <2>1 DEF ViaRetry, ViaDue
  <2>4. /\ ViaFrag(b) => ViaFrag(b)'
        /\ b = h => ViaFrag(b)'
        /\ FragDue(b)' => FragDue(b) \/ b = h
    <3>1. \A m : m \in network' <=> \/ m \in network
                                    \/ m = [type |-> "FRAG", offset |-> h]
      BY <2>1
    <3>2. /\ [type |-> "FRAG", offset |-> h].offset = h
          /\ [type |-> "FRAG", offset |-> h].type = "FRAG"
          /\ [type |-> "frag", offset |-> h].offset = h
          /\ [type |-> "frag", offset |-> b].offset = b
      OBVIOUS
    <3>3. ViaFrag(b) => ViaFrag(b)'
      BY <3>1 DEF ViaFrag, InNetwork
    <3>4. b = h => ViaFrag(b)'
      BY <3>1, <3>2 DEF ViaFrag, InNetwork
    <3>5. FragDue(b)' => FragDue(b) \/ b = h
      BY <2>1, <3>2 DEF FragDue
    <3>. QED  BY <3>3, <3>4, <3>5
  <2>. QED  BY <1>t, <1>a, <2>1, <2>2, <2>3, <2>4
<1>4. CASE RecvPut(t) \/ RetryPut(t)
  <2>1. PICK h \in Frag, s \in SendReq, n \in Nat :
          (ViaPut(h) \/ ViaRetry(h)) /\ PutFrag(t, s, h, n)
    BY <1>4, PutFragSplit
  <2>2. written' = written
    BY <1>4 DEF RecvPut, RetryPut, recvVars
  <2>3. /\ ViaPut(b)' => ViaPut(b)
        /\ ViaRetry(b)' => ViaRetry(b) \/ b = h
        /\ ViaDue(b)' => ViaDue(b) \/ b = h
        /\ FinOk(b)' <=> FinOk(b)
        /\ FinFail(b)' => FinFail(b) \/ b = h
        /\ FinFail(h)' => \/ FinFail(h)
                          \/ ~ViaPut(h)' /\ ~ViaRetry(h)' /\ ~ViaDue(h)'
        /\ FragDue(b)' <=> FragDue(b)
        /\ ViaFrag(b)' <=> ViaFrag(b)
        /\ written[h] = 0 /\ ~ViaAsk(h)
    BY <2>1, <2>2, PutFragWays
  <2>4. ~FinFail(h) /\ ~FinOk(h)
    BY <2>1, <2>3 DEF Told
  <2>. QED  BY <1>t, <1>a, <2>1, <2>2, <2>3, <2>4
<1>. QED  BY <1>1, <1>2, <1>3, <1>4 DEF SendEvent, SendStep
\* What is asked for leaves what is to be asked for.
LEMMA AskingOnly ==
    ASSUME WayInv, NEW t \in Context, RecvEvent(t) \/ RecvStep(t),
           ~RecvRndv(t), ~RecvRget(t), NEW b \in Frag
    PROVE  /\ ViaAsk(b)' => ViaAsk(b)
           /\ ViaPut(b)' => ViaPut(b) \/ (ViaAsk(b) /\ ~ViaAsk(b)')
<1>0. recvreq \in RecvReq /\ rpc \in [Context -> RecvPc] /\ b \in Int
  BY DEF WayInv, HandInv, Types, Frag
<1>1. CASE AskPut(t)
  <2>. DEFINE h == recvreq.rdma_offset
  <2>1. /\ network' = network \cup {[type |-> "PUT", offset |-> h, ack |-> ~recvreq.ack_sent]}
        /\ recvreq'.rdma_offset = h /\ recvreq'.send_offset = recvreq.send_offset
        /\ h < recvreq.send_offset /\ h \in Nat /\ recvreq.send_offset \in 0..Length
        /\ Asking'
    BY <1>0, <1>1 DEF AskPut, RecvReq, MayAsk, RecvGoto, Asking
  <2>2. ~Asking
    BY <1>1 DEF AskPut, WayInv, HandInv, Hands, Hand, Busy, Asking
  <2>3. /\ ViaAsk(b)' => ViaAsk(b)
        /\ b = h => ViaAsk(b) /\ ~ViaAsk(b)'
    BY <1>0, <2>1, <2>2 DEF ViaAsk, Is
  <2>4. ViaPut(b)' => ViaPut(b) \/ b = h
    <3>1. \A m \in network' : \/ m \in network
                              \/ m = [type |-> "PUT", offset |-> h, ack |-> ~recvreq.ack_sent]
      BY <2>1
    <3>. HIDE DEF h
    <3>2. [type |-> "PUT", offset |-> h, ack |-> ~recvreq.ack_sent].offset = h
      OBVIOUS
    <3>. QED  BY <3>1, <3>2 DEF ViaPut, InNetwork
  <2>. QED  BY <2>3, <2>4
<1>2. CASE PutSent(t)
  <2>1. /\ recvreq'.rdma_offset = recvreq.rdma_offset + 1
        /\ recvreq'.send_offset = recvreq.send_offset /\ recvreq.rdma_offset \in Nat
        /\ network' = network
    BY <1>0, <1>2 DEF PutSent, RecvReq
  <2>2. Asking /\ ~Asking'
    <3>1. \A u \in Context : rpc[u] = "sent" => u = t
      BY <1>2 DEF PutSent, WayInv, HandInv, Hands, Hand, Busy
    <3>. QED  BY <1>0, <1>2, <3>1 DEF PutSent, RecvGoto, Asking
  <2>3. ViaAsk(b)' <=> ViaAsk(b)
    BY <1>0, <2>1, <2>2 DEF ViaAsk, Is
  <2>4. ViaPut(b)' <=> ViaPut(b)
    BY <2>1, PutsSame
  <2>. QED  BY <2>3, <2>4
<1>3. CASE \/ RecvFrag(t) \/ RecvFin(t) \/ RecvPending(t) \/ RecvCheck(t) \/ RecvSchedule(t)
           \/ AskRefused(t) \/ RecvPutOff(t) \/ RecvStop(t) \/ RecvUnlock(t)
  <2>1. /\ recvreq'.rdma_offset = recvreq.rdma_offset
        /\ recvreq'.send_offset = recvreq.send_offset
        /\ \A u \in Context : rpc'[u] = "sent" <=> rpc[u] = "sent"
    BY <1>3, RecvFieldsSame DEF WayInv
  <2>2. ViaAsk(b)' <=> ViaAsk(b)
    BY <2>1 DEF ViaAsk, Asking, Is
  <2>3. network' \subseteq network
    BY <1>3 DEF RecvFrag, RecvFin, RecvPending, RecvCheck, RecvSchedule, AskRefused,
                RecvPutOff, RecvStop, RecvUnlock
  <2>. QED  BY <2>2, <2>3 DEF ViaPut, InNetwork
<1>4. CASE RetryGet(t) \/ RgetCompletion(t) \/ AddEager(t)
  <2>1. /\ recvreq'.rdma_offset = recvreq.rdma_offset
        /\ recvreq'.send_offset = recvreq.send_offset
        /\ \A u \in Context : rpc'[u] = "sent" <=> rpc[u] = "sent"
    BY <1>0, <1>4 DEF RetryGet, RgetCompletion, AddEager, GetFrag, RecvGoto, RecvReq
  <2>2. ViaAsk(b)' <=> ViaAsk(b)
    BY <2>1 DEF ViaAsk, Asking, Is
  <2>3. \A m : m.type = "PUT" => (m \in network' <=> m \in network)
    BY <1>4 DEF RetryGet, RgetCompletion, AddEager
  <2>. QED  BY <2>2, <2>3, PutsSame
<1>. QED  BY <1>1, <1>2, <1>3, <1>4 DEF RecvEvent, RecvStep

LEMMA ToldRecv ==
    ASSUME WayInv, WayInv', Told, NEW t \in Context, RecvEvent(t) \/ RecvStep(t)
    PROVE  Told'
<1>0. [Next]_vars
  BY DEF Next
<1>s. UNCHANGED <<eager, sendreq, due, rdma_pending, spc>>
  BY RecvSendSame
<1>. SUFFICES ASSUME NEW b \in Frag
     PROVE  /\ FinOk(b)' => written'[b] = 1
            /\ FinFail(b)' => /\ ~FinOk(b)' /\ ~ViaAsk(b)' /\ ~ViaPut(b)'
                              /\ ~ViaRetry(b)' /\ ~ViaDue(b)'
            /\ FragDue(b)' => written'[b] = 1 \/ ViaFrag(b)'
  BY DEF Told
<1>t. /\ FinOk(b) => written[b] = 1
      /\ FinFail(b) => /\ ~FinOk(b) /\ ~ViaAsk(b) /\ ~ViaPut(b)
                       /\ ~ViaRetry(b) /\ ~ViaDue(b)
      /\ FragDue(b) => written[b] = 1 \/ ViaFrag(b)
  BY DEF Told
<1>d. /\ ViaRetry(b)' <=> ViaRetry(b)
      /\ ViaDue(b)' <=> ViaDue(b)
      /\ FragDue(b)' <=> FragDue(b)
  BY <1>s, SendWaysSame DEF FragDue
<1>w. written[b] = 1 => written'[b] = 1
  BY <1>0, WrittenStays
<1>1. CASE RecvRndv(t) \/ RecvRget(t)
  <2>1. [type |-> "RNDV"] \in network \/ [type |-> "RGET"] \in network
    BY <1>1 DEF RecvRndv, RecvRget
  <2>2. ~recvreq.match_received
    BY <2>1 DEF WayInv, Before
  <2>3. ~FragDue(b) /\ ~FinOk(b) /\ ~FinFail(b)
    BY <2>2, ToldBefore
  <2>4. \A m \in network' : m \in network \/ m.type = "ACK"
    <3>1. CASE RecvRndv(t)
      <4>1. PICK o : \/ network' = network \ {[type |-> "RNDV"]}
                     \/ \E x : SendAck(network \ {[type |-> "RNDV"]}, o, x)
        BY <3>1 DEF RecvRndv
      <4>. QED  BY <4>1 DEF SendAck
    <3>2. CASE RecvRget(t)
      <4>1. \/ network' = network \ {[type |-> "RGET"]}
            \/ SendAck(network \ {[type |-> "RGET"]}, 0, TRUE)
        BY <3>2 DEF RecvRget
      <4>. QED  BY <4>1 DEF SendAck
    <3>. QED  BY <1>1, <3>1, <3>2
  <2>5. ~FinOk(b)' /\ ~FinFail(b)'
    BY <2>3, <2>4 DEF FinOk, FinFail
  <2>. QED  BY <1>d, <2>3, <2>5
<1>2. CASE ~RecvRndv(t) /\ ~RecvRget(t)
  <2>1. /\ ViaAsk(b)' => ViaAsk(b)
        /\ ViaPut(b)' => ViaPut(b) \/ (ViaAsk(b) /\ ~ViaAsk(b)')
    BY <1>2, AskingOnly
  <2>2. (FinOk(b)' => FinOk(b)) /\ (FinFail(b)' => FinFail(b))
    <3>1. \A m \in network' : m \in network \/ m.type \in {"FINGET", "PUT"}
      <4>1. CASE AskPut(t) \/ RgetCompletion(t)
        BY <4>1 DEF AskPut, RgetCompletion
      <4>2. CASE ~AskPut(t) /\ ~RgetCompletion(t)
        <5>1. network' \subseteq network
          BY <1>2, <4>2
             DEF RecvEvent, RecvStep, RetryGet, RecvFrag, RecvFin, RecvPending, AddEager,
                 RecvCheck, RecvSchedule, PutSent, AskRefused, RecvPutOff, RecvStop, RecvUnlock
        <5>. QED  BY <5>1
      <4>. QED  BY <4>1, <4>2
    <3>. QED  BY <3>1 DEF FinOk, FinFail
  <2>3. ViaFrag(b) => ViaFrag(b)' \/ written'[b] = 1
    <3>1. CASE RecvFrag(t)
      <4>1. PICK m \in network : /\ m.type = "FRAG" /\ network' = network \ {m}
                                 /\ Writes({m.offset})
        BY <3>1 DEF RecvFrag
      <4>2. CASE b = m.offset
        <5>1. ViaFrag(b)
          BY <4>1, <4>2 DEF ViaFrag, InNetwork
        <5>2. Ways(b) = Is(recvreq.match_received) /\ written[b] \in Nat
          BY DEF WayInv, OneWay, HandInv, Types
        <5>3. written[b] = 0
          BY <5>1, <5>2 DEF Ways, Is
        <5>. QED  BY <4>1, <4>2, <5>3 DEF Writes
      <4>3. CASE b # m.offset
        BY <4>1, <4>3 DEF ViaFrag, InNetwork
      <4>. QED  BY <4>2, <4>3
    <3>2. CASE ~RecvFrag(t)
      <4>1. \A m : m.type = "FRAG" => (m \in network' <=> m \in network)
        <5>1. CASE AskPut(t) \/ RgetCompletion(t) \/ RecvFin(t)
          <6>1. CASE RecvFin(t)
            <7>1. PICK m \in network : m.type = "FIN" /\ network' = network \ {m}
              BY <6>1 DEF RecvFin
            <7>. QED  BY <7>1
          <6>2. CASE AskPut(t) \/ RgetCompletion(t)
            BY <6>2 DEF AskPut, RgetCompletion
          <6>. QED  BY <5>1, <6>1, <6>2
        <5>2. CASE ~AskPut(t) /\ ~RgetCompletion(t) /\ ~RecvFin(t)
          <6>1. network' = network
            BY <1>2, <3>2, <5>2
               DEF RecvEvent, RecvStep, RetryGet, RecvPending, AddEager,
                   RecvCheck, RecvSchedule, PutSent, AskRefused, RecvPutOff, RecvStop, RecvUnlock
          <6>. QED  BY <6>1
        <5>. QED  BY <5>1, <5>2
      <4>. QED  BY <4>1, FragsSame
    <3>. QED  BY <3>1, <3>2
  <2>. QED  BY <1>t, <1>d, <1>w, <2>1, <2>2, <2>3
<1>. QED  BY <1>1, <1>2
----------------------------------------------------------------------------
(* The receiver counts what it has *)

LEMMA CountsAre ==
    /\ Arrived \subseteq Frag /\ Untold \subseteq Frag
    /\ Cardinality(Arrived) \in 0..Length /\ Cardinality(Untold) \in 0..Length
<1>1. Arrived \subseteq Frag /\ Untold \subseteq Frag
  BY DEF Arrived, Untold
<1>. QED  BY <1>1, FragSets

LEMMA ReceivedSend ==
    ASSUME WayInv, WayInv', Told, Received, NEW t \in Context, SendEvent(t) \/ SendStep(t)
    PROVE  Received'
<1>1. CASE PutCompletion(t)
  <2>1. PICK c \in due :
          /\ c.type = "put"
          /\ Writes({c.offset})
          /\ network' = network \cup {[type |-> "FIN", offset |-> c.offset, fail |-> FALSE]}
    BY <1>1 DEF PutCompletion
  <2>. DEFINE h == c.offset
  <2>2. c = [type |-> "put", offset |-> h] /\ h \in Frag
    BY <2>1, CompletionMade DEF WayInv, HandInv, Types
  <2>3. written[h] = 0
    <3>1. ViaDue(h)
      BY <2>2 DEF ViaDue
    <3>2. Ways(h) = Is(recvreq.match_received) /\ written[h] \in Nat
      BY <2>2 DEF WayInv, OneWay, HandInv, Types
    <3>. QED  BY <3>1, <3>2 DEF Ways, Is
  <2>4. \A b \in Frag : FinOk(b)' <=> FinOk(b) \/ b = h
    <3>. TAKE b \in Frag
    <3>1. \A m : m \in network' <=>
                   m \in network \/ m = [type |-> "FIN", offset |-> h, fail |-> FALSE]
      BY <2>1
    <3>2. /\ [type |-> "FIN", offset |-> b, fail |-> FALSE].offset = b
          /\ [type |-> "FIN", offset |-> h, fail |-> FALSE].offset = h
      OBVIOUS
    <3>. HIDE DEF h
    <3>. QED  BY <3>1, <3>2 DEF FinOk
  <2>5. \A b \in Frag : written'[b] = 1 <=> written[b] = 1 \/ b = h
    <3>. TAKE b \in Frag
    <3>1. written'[b] = written[b] + IF b = h THEN 1 ELSE 0
      BY <2>1 DEF Writes
    <3>2. written[b] \in {0, 1}
      BY WrittenOnce DEF NoneTwice
    <3>. HIDE DEF h
    <3>. QED  BY <2>3, <3>1, <3>2
  <2>6. h \notin Arrived /\ h \notin Untold
    BY <2>2, <2>3 DEF Arrived, Untold, Told
  <2>. HIDE DEF h
  <2>7. Cardinality(Arrived') = Cardinality(Arrived) + 1
    <3>1. Arrived \subseteq Frag /\ Arrived' \subseteq Frag
          /\ \A b \in Frag : b \in Arrived' <=> b \in Arrived \/ b = h
      BY <2>5 DEF Arrived
    <3>. QED  BY <2>2, <2>6, <3>1, OneMore DEF Is
  <2>8. Cardinality(Untold') = Cardinality(Untold) + 1
    <3>1. Untold \subseteq Frag /\ Untold' \subseteq Frag
          /\ \A b \in Frag : b \in Untold' <=> b \in Untold \/ b = h
      BY <2>4 DEF Untold
    <3>. QED  BY <2>2, <2>6, <3>1, OneMore DEF Is
  <2>9. recvreq' = recvreq /\ recvreq.bytes_received \in Int
    BY <1>1 DEF PutCompletion, WayInv, HandInv, Types, RecvReq
  <2>. QED  BY <2>7, <2>8, <2>9, CountsAre DEF Received
<1>2. CASE ~PutCompletion(t)
  <2>1. recvreq' = recvreq /\ written' = written
    BY <1>2 DEF SendEvent, SendStep, SendCheck, RndvCompletion, FragCompletion,
         RgetDelivered, RecvAck, AckState, SendSchedule, SendFrag, FragSent, SendPutOff,
         SendStop, SendUnlock, SendPending, RecvPut, RetryPut, Fallback, recvVars
  <2>2. ASSUME NEW b \in Frag PROVE FinOk(b)' <=> FinOk(b)
    <3>1. CASE SendFrag(t)
      <4>1. \A m : m.type = "FIN" => (m \in network' <=> m \in network)
        BY <3>1 DEF SendFrag
      <4>. QED  BY <4>1, FinsSame
    <3>2. CASE RecvPut(t) \/ RetryPut(t)
      <4>1. PICK h \in Frag, s \in SendReq, n \in Nat :
              (ViaPut(h) \/ ViaRetry(h)) /\ PutFrag(t, s, h, n)
        BY <3>2, PutFragSplit
      <4>. QED  BY <2>1, <4>1, PutFragWays
    <3>3. CASE ~SendFrag(t) /\ ~RecvPut(t) /\ ~RetryPut(t)
      BY <1>2, <3>3, SendCountsSame DEF SendEvent, SendStep
    <3>. QED  BY <3>1, <3>2, <3>3
  <2>3. Arrived' = Arrived /\ Untold' = Untold
    BY <2>1, <2>2 DEF Arrived, Untold
  <2>. QED  BY <2>1, <2>3 DEF Received
<1>. QED  BY <1>1, <1>2

LEMMA ReceivedRecv ==
    ASSUME WayInv, WayInv', Told, Received, NEW t \in Context, RecvEvent(t) \/ RecvStep(t)
    PROVE  Received' /\ recvreq'.bytes_received >= recvreq.bytes_received
<1>0. /\ recvreq \in RecvReq /\ recvreq.bytes_received \in Int
      /\ eager \in 0..Length /\ \A b \in Frag : written[b] \in {0, 1}
  BY WrittenOnce DEF WayInv, HandInv, Types, RecvReq, NoneTwice
<1>1. CASE RecvFin(t)
  <2>1. PICK m \in network :
          /\ m.type = "FIN"
          /\ network' = network \ {m}
          /\ recvreq' = [recvreq EXCEPT !.pipeline_depth = @ - 1,
                                        !.bytes_received = @ + BytesOf(m)]
    BY <1>1 DEF RecvFin
  <2>2. /\ m = [type |-> "FIN", offset |-> m.offset, fail |-> m.fail]
        /\ m.offset \in Frag /\ m.fail \in BOOLEAN
    BY <2>1, HeaderFields DEF WayInv, HandInv, Types
  <2>. DEFINE h == m.offset
  <2>3. recvreq'.bytes_received = recvreq.bytes_received + Is(~m.fail)
    BY <1>0, <2>1 DEF RecvReq, BytesOf, Is
  <2>4. Arrived' = Arrived
    BY <1>1 DEF RecvFin, Arrived
  <2>5. CASE m.fail
    <3>1. Untold' = Untold
      <4>1. \A b : [type |-> "FIN", offset |-> b, fail |-> FALSE].fail = FALSE
        OBVIOUS
      <4>2. ASSUME NEW b \in Frag PROVE FinOk(b)' <=> FinOk(b)
        BY <2>1, <2>5, <4>1 DEF FinOk
      <4>. QED  BY <4>2 DEF Untold
    <3>. QED  BY <1>0, <2>3, <2>4, <2>5, <3>1 DEF Received, Is
  <2>6. CASE ~m.fail
    <3>1. m = [type |-> "FIN", offset |-> h, fail |-> FALSE]
      BY <2>2, <2>6
    <3>2. ASSUME NEW b \in Frag
          PROVE  /\ FinOk(b) <=> FinOk(b)' \/ b = h
                 /\ b = h => ~FinOk(b)'
      <4>1. /\ [type |-> "FIN", offset |-> b, fail |-> FALSE].offset = b
            /\ [type |-> "FIN", offset |-> h, fail |-> FALSE].offset = h
        OBVIOUS
      <4>2. network' = network \ {[type |-> "FIN", offset |-> h, fail |-> FALSE]}
            /\ [type |-> "FIN", offset |-> h, fail |-> FALSE] \in network
        BY <2>1, <3>1
      <4>. HIDE DEF h
      <4>. QED  BY <4>1, <4>2 DEF FinOk
    <3>. HIDE DEF h
    <3>3. /\ Untold \subseteq Frag /\ Untold' \subseteq Frag
          /\ \A b \in Frag : b \in Untold <=> b \in Untold' \/ b = h
      BY <3>2 DEF Untold
    <3>4. h \in Frag /\ h \notin Untold'
      BY <2>2, <3>2 DEF Untold, h
    <3>5. Cardinality(Untold) = Cardinality(Untold') + 1
      BY <3>3, <3>4, OneMore DEF Is
    <3>6. Cardinality(Untold') \in Int
      BY <3>3, FragSets
    <3>. QED  BY <1>0, <2>3, <2>4, <2>6, <3>5, <3>6, CountsAre DEF Received, Is
  <2>. QED  BY <2>2, <2>5, <2>6
<1>2. CASE ~RecvFin(t)
  <2>1. Untold' = Untold
    <3>1. \A m : m.type = "FIN" => (m \in network' <=> m \in network)
      <4>1. CASE RecvRndv(t)
        <5>1. PICK o : \/ network' = network \ {[type |-> "RNDV"]}
                       \/ \E x : SendAck(network \ {[type |-> "RNDV"]}, o, x)
          BY <4>1 DEF RecvRndv
        <5>. QED  BY <5>1 DEF SendAck
      <4>2. CASE RecvRget(t)
        <5>1. \/ network' = network \ {[type |-> "RGET"]}
              \/ SendAck(network \ {[type |-> "RGET"]}, 0, TRUE)
          BY <4>2 DEF RecvRget
        <5>. QED  BY <5>1 DEF SendAck
      <4>3. CASE AskPut(t) \/ RgetCompletion(t)
        BY <4>3 DEF AskPut, RgetCompletion
      <4>4. CASE RecvFrag(t)
        BY <4>4 DEF RecvFrag
      <4>5. CASE \/ RetryGet(t) \/ RecvPending(t) \/ AddEager(t) \/ RecvCheck(t)
                 \/ RecvSchedule(t) \/ PutSent(t) \/ AskRefused(t) \/ RecvPutOff(t)
                 \/ RecvStop(t) \/ RecvUnlock(t)
        <5>1. network' = network
          BY <4>5 DEF RetryGet, RecvPending, AddEager, RecvCheck, RecvSchedule, PutSent,
                      AskRefused, RecvPutOff, RecvStop, RecvUnlock
        <5>. QED  BY <5>1
      <4>. QED  BY <1>2, <4>1, <4>2, <4>3, <4>4, <4>5 DEF RecvEvent, RecvStep
    <3>. QED  BY <3>1, FinsSame DEF Untold
  <2>2. CASE AddEager(t)
    <3>1. /\ recvreq'.bytes_received = recvreq.bytes_received + eager
          /\ Writes(0..eager - 1) /\ rpc[t] = "rndv"
      BY <1>0, <2>2 DEF AddEager, RecvReq
    <3>2. ASSUME NEW b \in Frag, b < eager PROVE written[b] = 0
      <4>1. ViaRndv(b)
        BY <3>1, <3>2 DEF ViaRndv, Opening
      <4>2. Ways(b) = Is(recvreq.match_received) /\ written[b] \in Nat
        BY DEF WayInv, OneWay, HandInv, Types
      <4>. QED  BY <4>1, <4>2 DEF Ways, Is
    <3>3. \A b \in Frag : written'[b] = 1 <=> written[b] = 1 \/ b < eager
      BY <1>0, <3>1, <3>2 DEF Writes, Frag
    <3>4. /\ Arrived \subseteq Frag /\ Arrived' \subseteq Frag
          /\ \A b \in Frag : b \in Arrived' <=> b \in Arrived \/ b < eager
          /\ \A b \in Arrived : b >= eager
      BY <1>0, <3>2, <3>3 DEF Arrived, Frag
    <3>5. Cardinality(Arrived') = Cardinality(Arrived) + eager
      BY <1>0, <3>4, EagerMore
    <3>. QED  BY <1>0, <2>1, <3>1, <3>5, CountsAre DEF Received
  <2>3. CASE RgetCompletion(t)
    <3>1. /\ recvreq'.bytes_received = recvreq.bytes_received + Length
          /\ Writes(Frag) /\ recvreq.get = "started"
      BY <1>0, <2>3 DEF RgetCompletion, RecvReq
    <3>2. \A b \in Frag : written[b] = 0
      <4>. TAKE b \in Frag
      <4>1. ViaGet
        BY <3>1 DEF ViaGet
      <4>2. Ways(b) = Is(recvreq.match_received) /\ written[b] \in Nat
        BY DEF WayInv, OneWay, HandInv, Types
      <4>. QED  BY <4>1, <4>2 DEF Ways, Is
    <3>3. Arrived' = Frag /\ Arrived = {}
      BY <3>1, <3>2 DEF Writes, Arrived
    <3>4. Cardinality(Arrived') = Length
      BY <3>3, FS_Interval DEF Frag
    <3>5. Cardinality(Arrived) = 0
      BY <3>3, FS_EmptySet
    <3>. QED  BY <1>0, <2>1, <3>1, <3>4, <3>5, CountsAre DEF Received
  <2>4. CASE RecvFrag(t)
    <3>1. PICK m \in network : m.type = "FRAG" /\ Writes({m.offset})
      BY <2>4 DEF RecvFrag
    <3>. DEFINE h == m.offset
    <3>2. h \in Frag /\ ViaFrag(h)
      BY <3>1, HeaderFields DEF WayInv, HandInv, Types, ViaFrag, InNetwork
    <3>3. written[h] = 0
      <4>1. Ways(h) = Is(recvreq.match_received) /\ written[h] \in Nat
        BY <3>2 DEF WayInv, OneWay, HandInv, Types
      <4>. QED  BY <3>2, <4>1 DEF Ways, Is
    <3>4. /\ Arrived \subseteq Frag /\ Arrived' \subseteq Frag
          /\ \A b \in Frag : b \in Arrived' <=> b \in Arrived \/ b = h
          /\ h \notin Arrived
      BY <1>0, <3>1, <3>3 DEF Arrived, Writes
    <3>. HIDE DEF h
    <3>5. Cardinality(Arrived') = Cardinality(Arrived) + 1
      BY <3>2, <3>4, OneMore DEF Is
    <3>6. recvreq'.bytes_received = recvreq.bytes_received + 1
      BY <1>0, <2>4 DEF RecvFrag, RecvReq
    <3>. QED  BY <1>0, <2>1, <3>5, <3>6, CountsAre DEF Received
  <2>5. CASE \/ RecvRndv(t) \/ RecvRget(t) \/ RetryGet(t) \/ RecvPending(t) \/ RecvCheck(t)
             \/ RecvSchedule(t) \/ AskPut(t) \/ PutSent(t) \/ AskRefused(t)
             \/ RecvPutOff(t) \/ RecvStop(t) \/ RecvUnlock(t)
    <3>1. written' = written
      BY <2>5 DEF RecvRndv, RecvRget, RetryGet, RecvPending, RecvCheck, RecvSchedule, AskPut,
                  PutSent, AskRefused, RecvPutOff, RecvStop, RecvUnlock
    <3>2. recvreq'.bytes_received = recvreq.bytes_received
      BY <1>0, <2>5 DEF RecvRndv, RecvRget, RetryGet, RecvPending, RecvCheck, RecvSchedule,
                  AskPut, PutSent, AskRefused, RecvPutOff, RecvStop, RecvUnlock,
                  GetFrag, Locked, Unlocked, PutOff, RecvReq
    <3>3. Arrived' = Arrived
      BY <3>1 DEF Arrived
    <3>. QED  BY <1>0, <2>1, <3>2, <3>3 DEF Received
  <2>. QED  BY <1>2, <2>2, <2>3, <2>4, <2>5 DEF RecvEvent, RecvStep
<1>. QED  BY <1>1, <1>2

LEMMA ReceivedInvInit == Init => ReceivedInv
<1>. SUFFICES ASSUME Init PROVE ReceivedInv
  OBVIOUS
<1>1. WayInv
  BY TypesInit, HandsInit, RangesInit, WaysInit DEF WayInv, HandInv
<1>2. /\ \A m \in network : m.type \in {"RNDV", "RGET"}
      /\ \A c \in due : c.type = "rndv"
      /\ \A b \in Frag : written[b] = 0
      /\ recvreq.bytes_received = 0 /\ recvreq.complete = 0
  BY DEF Init
<1>3. \A b \in Frag : ~FinOk(b) /\ ~FinFail(b) /\ ~FragDue(b)
  BY <1>2 DEF FinOk, FinFail, FragDue
<1>4. Arrived = {} /\ Untold = {}
  BY <1>2, <1>3 DEF Arrived, Untold
<1>5. Cardinality(Arrived) = 0 /\ Cardinality(Untold) = 0
  BY <1>4, FS_EmptySet
<1>. QED  BY <1>1, <1>2, <1>3, <1>5 DEF ReceivedInv, Told, Received, RecvComplete

\* A request completes only in the check, which compares the count.
LEMMA RecvCompleteRecv ==
    ASSUME WayInv, WayInv', RecvComplete,
           recvreq'.bytes_received >= recvreq.bytes_received,
           NEW t \in Context, RecvEvent(t) \/ RecvStep(t)
    PROVE  RecvComplete'
<1>0. /\ recvreq \in RecvReq /\ recvreq' \in RecvReq
      /\ recvreq.bytes_received \in Int /\ recvreq'.bytes_received \in Int
  BY DEF WayInv, HandInv, Types, RecvReq
<1>1. recvreq'.complete = recvreq.complete \/ recvreq.bytes_received >= Length
  <2>1. CASE RecvCheck(t)
    BY <1>0, <2>1 DEF RecvCheck, RecvFinished, RecvReq
  <2>2. CASE ~RecvCheck(t)
    BY <1>0, <2>2
       DEF RecvEvent, RecvStep, RecvRndv, RecvRget, RetryGet, RgetCompletion, RecvFrag, RecvFin,
           RecvPending, AddEager, RecvSchedule, AskPut, PutSent, AskRefused, RecvPutOff,
           RecvStop, RecvUnlock, GetFrag, Locked, Unlocked, PutOff, RecvReq
  <2>. QED  BY <2>1, <2>2
<1>. QED  BY <1>0, <1>1 DEF RecvComplete

LEMMA ReceivedInvNext == ReceivedInv /\ WayInv' /\ [Next]_vars => ReceivedInv'
<1>. SUFFICES ASSUME ReceivedInv, WayInv', [Next]_vars PROVE ReceivedInv'
  OBVIOUS
<1>0. WayInv /\ Told /\ Received /\ RecvComplete
  BY DEF ReceivedInv
<1>1. CASE UNCHANGED vars
  BY <1>0, <1>1 DEF vars, sendVars, recvVars, ReceivedInv, Told, Received, RecvComplete,
     FinOk, FinFail, FragDue, Arrived, Untold, ViaAsk, ViaPut, ViaRetry, ViaDue, ViaFrag,
     InNetwork, Asking
<1>2. ASSUME NEW t \in Context, SendEvent(t) \/ SendStep(t) PROVE ReceivedInv'
  <2>1. recvreq' = recvreq
    BY <1>2 DEF SendEvent, SendStep, SendCheck, RndvCompletion, FragCompletion, PutCompletion,
         RgetDelivered, RecvAck, AckState, SendSchedule, SendFrag, FragSent, SendPutOff,
         SendStop, SendUnlock, SendPending, RecvPut, RetryPut, Fallback, recvVars
  <2>2. Told' /\ Received'
    BY <1>0, <1>2, ToldSend, ReceivedSend
  <2>. QED  BY <1>0, <2>1, <2>2 DEF ReceivedInv, RecvComplete
<1>3. ASSUME NEW t \in Context, RecvEvent(t) \/ RecvStep(t) PROVE ReceivedInv'
  <2>1. Told'
    BY <1>0, <1>3, ToldRecv
  <2>2. Received' /\ recvreq'.bytes_received >= recvreq.bytes_received
    BY <1>0, <1>3, ReceivedRecv
  <2>3. RecvComplete'
    BY <1>0, <1>3, <2>2, RecvCompleteRecv
  <2>. QED  BY <2>1, <2>2, <2>3 DEF ReceivedInv
<1>. QED  BY <1>1, <1>2, <1>3 DEF Next

\* In every behaviour the FINs under way are the puts that the receiver has not
\* counted yet, and no FIN that tells of a failure has a put beside it.
THEOREM ReceivedInvariant == Spec => []ReceivedInv
<1>1. ReceivedInv /\ WayInv' /\ [Next]_vars => ReceivedInv'
  BY ReceivedInvNext
<1>. QED  BY ReceivedInvInit, <1>1, WayInvariant, PTL DEF Spec

\* A receive request that is complete has every fragment of the message, once:
\* enough bytes are only counted when all of them came (recv_request_pml_
\* complete_check() compares a sum).
THEOREM ReceivedBeforeCompleteInvariant == Spec => []ReceivedBeforeComplete
<1>1. ReceivedInv => ReceivedBeforeComplete
  <2>. SUFFICES ASSUME ReceivedInv, recvreq.complete > 0
       PROVE  \A b \in Frag : written[b] = 1
    BY DEF ReceivedBeforeComplete
  <2>1. recvreq.bytes_received >= Length /\ recvreq.bytes_received \in Int
    BY DEF ReceivedInv, RecvComplete, WayInv, HandInv, Types, RecvReq
  <2>2. Cardinality(Arrived) = Length
    BY <2>1, CountsAre DEF ReceivedInv, Received
  <2>3. Arrived = Frag
    BY <2>2, CountsAre, FragSets
  <2>. QED  BY <2>3 DEF Arrived
<1>. QED  BY ReceivedInvariant, <1>1, PTL

----------------------------------------------------------------------------
(* The two ways in which a request may begin *)

RndvDue == \E c \in due : c.type = "rndv"
CarriesAck(m) == m.type = "ACK" \/ (m.type = "PUT" /\ m.ack)
AckNet == \E m \in network : CarriesAck(m)
AckAt == \E t \in Context : spc[t] = "ack"

\* With data and for an ACK.  The eager part is in the buffer or about to be;
RndvData ==
    /\ recvreq.get = "none"
    /\ \A m \in network : m.type \notin {"RGET", "FINGET"}
    /\ recvreq.match_received =>
         \A b \in Frag : b < eager => written[b] = 1 \/ ViaRndv(b)
    /\ \A b \in Frag : FragDue(b) => b >= eager

\* and the sender waits for the first completion and for the one ACK, which the
\* receiver has not sent, or is on its way, or is being looked at, or is lost.
RndvAck ==
    /\ sendreq.state \in 0..2
    /\ sendreq.state >= Is(RndvDue) + Is(~recvreq.ack_sent \/ AckNet \/ AckAt)
    /\ recvreq.ack_sent => recvreq.match_received
    /\ ~recvreq.ack_sent => ~AckNet /\ ~AckAt
    /\ ~(AckNet /\ AckAt)
    /\ \A m, n \in network : CarriesAck(m) /\ CarriesAck(n) => m = n
    /\ \A t, u \in Context : spc[t] = "ack" /\ spc[u] = "ack" => t = u
    /\ \A c \in due : c.type = "rndv" => c.offset = 0

\* With where the data is: it is got, or all of it is copied.
RgetMode ==
    /\ eager = 0 /\ sendreq.state = 0 /\ rdma_pending = {}
    /\ \A m \in network : /\ m.type \in {"RGET", "FINGET", "ACK", "FRAG"}
                          /\ m.type = "ACK" => m.offset = 0
                          /\ m.type = "FINGET" => recvreq.get = "done"
    /\ \A c \in due : c.type = "frag"
    /\ recvreq.rdma_offset = 0 /\ recvreq.send_offset = 0
    /\ \A t \in Context : rpc[t] # "rndv"
    /\ recvreq.get = "done" => \A b \in Frag : written[b] = 1
    /\ recvreq.get # "none" => recvreq.match_received /\ \A b \in Frag : ~FragDue(b)

Mode == (RndvData /\ RndvAck) \/ RgetMode

LEMMA SendRecvSame ==
    ASSUME NEW t \in Context, SendEvent(t) \/ SendStep(t)
    PROVE  UNCHANGED <<eager, recvreq, rpc>>
  BY DEF SendEvent, SendStep, SendCheck, RndvCompletion, FragCompletion, PutCompletion,
         RgetDelivered, RecvAck, AckState, SendSchedule, SendFrag, FragSent, SendPutOff,
         SendStop, SendUnlock, SendPending, RecvPut, RetryPut, Fallback, recvVars

\* The fragment that is sent was to be sent.
LEMMA SendFragIs ==
    ASSUME WayInv, NEW t \in Context, SendFrag(t)
    PROVE  \E h \in Frag :
             /\ network' = network \cup {[type |-> "FRAG", offset |-> h]}
             /\ due' = due \cup {[type |-> "frag", offset |-> h]}
             /\ written[h] = 0 /\ ~ViaRndv(h) /\ ~ViaGet /\ ~ViaFrag(h)
             /\ recvreq.match_received
<1>. DEFINE h == Head(sendreq.ranges)
<1>1. sendreq.ranges \in FragSeq /\ sendreq.ranges # <<>>
  BY DEF WayInv, HandInv, Types, SendReq, SendFrag, MaySend
<1>2. ToSend = sendreq.ranges
  BY DEF WayInv, HandInv, Hands, Hand, Busy, SendFrag, ToSend
<1>3. h \in Frag /\ ViaSend(h)
  BY <1>1, <1>2, TailLists DEF ViaSend, WayInv, Once
<1>4. Ways(h) = Is(recvreq.match_received) /\ written[h] \in Nat
  BY <1>3 DEF WayInv, OneWay, HandInv, Types
<1>5. written[h] = 0 /\ ~ViaRndv(h) /\ ~ViaGet /\ ~ViaFrag(h) /\ recvreq.match_received
  BY <1>3, <1>4 DEF Ways, Is
<1>. QED  BY <1>3, <1>5 DEF SendFrag

\* What the sender does to what is due.
LEMMA DueSend ==
    ASSUME WayInv, NEW t \in Context, SendEvent(t) \/ SendStep(t)
    PROVE  \A c \in due' : \/ c \in due
                           \/ SendFrag(t) /\ c.type = "frag"
                           \/ (RecvPut(t) \/ RetryPut(t)) /\ c.type = "put"
<1>1. CASE SendFrag(t)
  BY <1>1 DEF SendFrag
<1>2. CASE RecvPut(t) \/ RetryPut(t)
  <2>1. PICK h \in Frag, s \in SendReq, n \in Nat : PutFrag(t, s, h, n)
    BY <1>2, PutFragSplit
  <2>. QED  BY <1>2, <2>1 DEF PutFrag
<1>3. CASE ~SendFrag(t) /\ ~RecvPut(t) /\ ~RetryPut(t)
  <2>1. due' \subseteq due
    BY <1>3 DEF SendEvent, SendStep, SendCheck, RndvCompletion, FragCompletion, PutCompletion,
         RgetDelivered, RecvAck, AckState, SendSchedule, FragSent, SendPutOff,
         SendStop, SendUnlock, SendPending, Fallback
  <2>. QED  BY <2>1
<1>. QED  BY <1>1, <1>2, <1>3

LEMMA RndvDataSend ==
    ASSUME WayInv, WayInv', RndvData, NEW t \in Context, SendEvent(t) \/ SendStep(t)
    PROVE  RndvData'
<1>0. [Next]_vars
  BY DEF Next
<1>1. UNCHANGED <<eager, recvreq, rpc>>
  BY SendRecvSame
<1>2. \A m \in network' : m.type \notin {"RGET", "FINGET"}
  BY SendNetwork DEF RndvData
<1>3. ASSUME recvreq.match_received, NEW b \in Frag, b < eager
      PROVE  written'[b] = 1 \/ ViaRndv(b)'
  <2>1. written[b] = 1 => written'[b] = 1
    BY <1>0, WrittenStays
  <2>. QED  BY <1>1, <1>3, <2>1, RecvWaysSame DEF RndvData
<1>4. ASSUME NEW b \in Frag, FragDue(b)' PROVE b >= eager
  <2>1. [type |-> "frag", offset |-> b].type = "frag"
    OBVIOUS
  <2>2. FragDue(b) \/ SendFrag(t)
    BY <1>4, <2>1, DueSend DEF FragDue
  <2>3. CASE FragDue(b)
    BY <2>3 DEF RndvData
  <2>4. CASE SendFrag(t) /\ ~FragDue(b)
    <3>1. PICK h \in Frag : /\ due' = due \cup {[type |-> "frag", offset |-> h]}
                            /\ written[h] = 0 /\ ~ViaRndv(h) /\ recvreq.match_received
      BY <2>4, SendFragIs
    <3>2. b = h
      <4>1. /\ [type |-> "frag", offset |-> h].offset = h
            /\ [type |-> "frag", offset |-> b].offset = b
        OBVIOUS
      <4>. QED  BY <1>4, <2>4, <3>1, <4>1 DEF FragDue
    <3>3. ~(h < eager)
      BY <3>1 DEF RndvData
    <3>. QED  BY <3>2, <3>3 DEF WayInv, HandInv, Types, Frag
  <2>. QED  BY <2>2, <2>3, <2>4
<1>. QED  BY <1>1, <1>2, <1>3, <1>4 DEF RndvData

\* What the sender does to what it waits for.
LEMMA RndvAckSend ==
    ASSUME WayInv, WayInv', RndvData, RndvAck, NEW t \in Context,
           SendEvent(t) \/ SendStep(t)
    PROVE  RndvAck' /\ (sendreq.state = 0 => sendreq'.state = 0)
<1>. DEFINE Awaited == ~recvreq.ack_sent \/ AckNet \/ AckAt
<1>0. /\ sendreq \in SendReq /\ sendreq.state \in 0..2 /\ spc \in [Context -> SendPc]
      /\ network \subseteq Header /\ due \subseteq Completion
  BY DEF WayInv, HandInv, Types, RndvAck
<1>1. recvreq' = recvreq
  BY SendRecvSame
<1>2. \A m \in network' : CarriesAck(m) => m \in network
  BY SendNetwork DEF CarriesAck
<1>3. AckNet' => AckNet
  BY <1>2 DEF AckNet, CarriesAck
<1>4. \A m, n \in network' : CarriesAck(m) /\ CarriesAck(n) => m = n
  BY <1>2 DEF RndvAck
<1>5. /\ \A c \in due' : c.type = "rndv" => c \in due
      /\ RndvDue' => RndvDue
  <2>1. \A c \in due' : c.type = "rndv" => c \in due
    BY DueSend
  <2>. QED  BY <2>1 DEF RndvDue
<1>6. SUFFICES /\ sendreq'.state \in 0..2
               /\ sendreq'.state >= Is(RndvDue)' + Is(Awaited)'
               /\ ~recvreq.ack_sent => ~AckAt'
               /\ ~(AckNet' /\ AckAt')
               /\ \A u, v \in Context : spc'[u] = "ack" /\ spc'[v] = "ack" => u = v
               /\ sendreq.state = 0 => sendreq'.state = 0
  BY <1>1, <1>2, <1>3, <1>4, <1>5 DEF RndvAck, CarriesAck
<1>7. /\ sendreq.state >= Is(RndvDue) + Is(Awaited)
      /\ ~recvreq.ack_sent => ~AckNet /\ ~AckAt
      /\ ~(AckNet /\ AckAt)
      /\ \A m, n \in network : CarriesAck(m) /\ CarriesAck(n) => m = n
      /\ \A u, v \in Context : spc[u] = "ack" /\ spc[v] = "ack" => u = v
      /\ \A c \in due : c.type = "rndv" => c.offset = 0
  BY DEF RndvAck
<1>8. CASE RecvAck(t)
  <2>1. PICK m \in network : m.type = "ACK" /\ network' = network \ {m}
    BY <1>8 DEF RecvAck
  <2>2. CarriesAck(m) /\ AckNet
    BY <2>1 DEF CarriesAck, AckNet
  <2>3. ~AckNet'
    BY <1>7, <2>1, <2>2 DEF AckNet, CarriesAck
  <2>4. sendreq'.state = sendreq.state /\ due' = due
    BY <1>0, <1>8 DEF RecvAck, SendReq
  <2>5. /\ \A u \in Context : spc'[u] = "ack" => u = t \/ spc[u] = "ack"
    BY <1>0, <1>8 DEF RecvAck, SendGoto
  <2>6. \A u \in Context : spc'[u] = "ack" => u = t
    BY <1>7, <2>2, <2>5 DEF AckAt
  <2>. QED  BY <1>0, <1>1, <1>5, <1>7, <2>2, <2>3, <2>4, <2>6 DEF Is
<1>9. CASE AckState(t)
  <2>1. AckAt /\ sendreq.state >= 1
    BY <1>0, <1>7, <1>9 DEF AckState, AckAt, Is
  <2>2. sendreq'.state = sendreq.state - 1 /\ due' = due
    BY <1>0, <1>9, <2>1 DEF AckState, SendReq
  <2>3. \A u \in Context : spc'[u] # "ack"
    BY <1>0, <1>7, <1>9 DEF AckState, SendGoto
  <2>4. ~AckAt'
    BY <2>3 DEF AckAt
  <2>5. RndvDue' <=> RndvDue
    BY <2>2 DEF RndvDue
  <2>. QED  BY <1>0, <1>1, <1>3, <1>7, <2>1, <2>2, <2>3, <2>4, <2>5 DEF Is
<1>10. ASSUME ~RecvAck(t), ~AckState(t)
       PROVE  \A u \in Context : spc'[u] = "ack" => spc[u] = "ack"
  <2>1. CASE RecvPut(t) \/ RetryPut(t)
    <3>1. PICK h \in Frag, s \in SendReq, n \in Nat : PutFrag(t, s, h, n)
      BY <2>1, PutFragSplit
    <3>. QED  BY <1>0, <3>1 DEF PutFrag, SendGoto
  <2>2. CASE ~RecvPut(t) /\ ~RetryPut(t)
    BY <1>0, <1>10, <2>2
       DEF SendEvent, SendStep, SendCheck, RndvCompletion, FragCompletion, PutCompletion,
           RgetDelivered, SendSchedule, SendFrag, FragSent, SendPutOff,
           SendStop, SendUnlock, SendPending, Fallback, SendGoto
  <2>. QED  BY <2>1, <2>2
<1>11. ~RecvAck(t) /\ ~AckState(t) => (AckAt' => AckAt)
  BY <1>10 DEF AckAt
<1>12. CASE RndvCompletion(t)
  <2>1. PICK c \in due : c.type = "rndv" /\ due' = due \ {c}
    BY <1>12 DEF RndvCompletion
  <2>2. RndvDue /\ ~RndvDue'
    <3>1. \A d \in due : d.type = "rndv" => d = c
      BY <1>0, <1>7, <2>1, CompletionMade
    <3>. QED  BY <2>1, <3>1 DEF RndvDue
  <2>3. sendreq'.state = sendreq.state - 1
    BY <1>0, <1>12 DEF RndvCompletion, SendReq
  <2>4. ~RecvAck(t) /\ ~AckState(t)
    BY <1>12 DEF RndvCompletion, RecvAck, AckState, SendGoto
  <2>. QED  BY <1>0, <1>1, <1>3, <1>7, <1>10, <1>11, <2>2, <2>3, <2>4 DEF Is
<1>13. CASE RecvPut(t) \/ RetryPut(t)
  <2>1. PICK h \in Frag, s \in SendReq, n \in Nat :
          /\ PutFrag(t, s, h, n)
          /\ s = sendreq \/ /\ s = [sendreq EXCEPT !.state = @ - 1]
                            /\ [type |-> "PUT", offset |-> h, ack |-> TRUE] \in network
    BY <1>13, PutFragSplit
  <2>2. s.state = sendreq'.state
    BY <2>1 DEF PutFrag, GiveUp, SendReq
  <2>3. CASE s = sendreq
    BY <1>0, <1>1, <1>3, <1>5, <1>7, <1>8, <1>9, <1>10, <1>11, <2>2, <2>3 DEF Is
  <2>4. CASE /\ s = [sendreq EXCEPT !.state = @ - 1]
             /\ [type |-> "PUT", offset |-> h, ack |-> TRUE] \in network
    <3>. DEFINE m == [type |-> "PUT", offset |-> h, ack |-> TRUE]
    <3>1. m.type = "PUT" /\ m.ack /\ m.offset = h /\ m \in network
      BY <2>4
    <3>. HIDE DEF m
    <3>2. CarriesAck(m) /\ AckNet
      BY <3>1 DEF CarriesAck, AckNet
    <3>3. m \notin network'
      <4>1. m \notin WithoutPut(h)
        BY <3>1 DEF WithoutPut
      <4>2. m # [type |-> "FIN", offset |-> h, fail |-> TRUE]
        BY <3>1
      <4>. QED  BY <2>1, <4>1, <4>2 DEF PutFrag, GiveUp
    <3>4. ~AckNet'
      BY <1>2, <1>7, <3>1, <3>2, <3>3 DEF AckNet, CarriesAck
    <3>5. s.state = sendreq.state - 1
      BY <1>0, <2>4 DEF SendReq
    <3>. QED  BY <1>0, <1>1, <1>5, <1>7, <1>8, <1>9, <1>10, <1>11, <2>2, <3>2, <3>4, <3>5 DEF Is
  <2>. QED  BY <2>1, <2>3, <2>4
<1>14. CASE /\ ~RecvAck(t) /\ ~AckState(t) /\ ~RndvCompletion(t)
            /\ ~RecvPut(t) /\ ~RetryPut(t)
  <2>1. sendreq'.state = sendreq.state
    BY <1>0, <1>14
       DEF SendEvent, SendStep, SendCheck, FragCompletion, PutCompletion,
           RgetDelivered, SendSchedule, SendFrag, FragSent, SendPutOff,
           SendStop, SendUnlock, SendPending, Fallback, Locked, Unlocked, PutOff, SendReq
  <2>. QED  BY <1>0, <1>1, <1>3, <1>5, <1>7, <1>10, <1>11, <1>14, <2>1 DEF Is
<1>. QED  BY <1>8, <1>9, <1>12, <1>13, <1>14

\* The receiver sends the ACK once, with the first PUT or alone.
LEMMA RndvRecv ==
    ASSUME WayInv, WayInv', RndvData, RndvAck, NEW t \in Context,
           RecvEvent(t) \/ RecvStep(t)
    PROVE  RndvData' /\ RndvAck'
<1>0. /\ recvreq \in RecvReq /\ rpc \in [Context -> RecvPc] /\ eager \in 0..Length
      /\ network \subseteq Header
      /\ [Next]_vars
  BY DEF WayInv, HandInv, Types, Next
<1>1. UNCHANGED <<eager, sendreq, due, rdma_pending, spc>>
  BY RecvSendSame
<1>2. /\ RndvDue' <=> RndvDue
      /\ AckAt' <=> AckAt
      /\ \A b : FragDue(b)' <=> FragDue(b)
  BY <1>1 DEF RndvDue, AckAt, FragDue
<1>3. ~RecvRget(t) /\ ~RetryGet(t) /\ ~RgetCompletion(t)
  <2>1. [type |-> "RGET"].type = "RGET"
    OBVIOUS
  <2>. QED  BY <2>1 DEF RndvData, RecvRget, RetryGet, RgetCompletion
<1>4. CASE RecvRndv(t)
  <2>1. ~recvreq.match_received
    BY <1>4 DEF WayInv, Before, RecvRndv
  <2>2. ~recvreq.ack_sent /\ ~AckNet /\ ~AckAt
    BY <2>1 DEF RndvAck
  <2>3. PICK offset \in eager..Length, acks \in BOOLEAN :
          /\ recvreq' = [recvreq EXCEPT !.match_received = TRUE, !.rdma_offset = eager,
                               !.send_offset = offset, !.ack_sent = acks]
          /\ IF acks THEN SendAck(network \ {[type |-> "RNDV"]}, offset, offset = eager)
                     ELSE network' = network \ {[type |-> "RNDV"]} /\ UNCHANGED failures
    BY <1>4 DEF RecvRndv
  <2>4. /\ recvreq'.match_received = TRUE /\ recvreq'.ack_sent = acks
        /\ recvreq'.get = recvreq.get
    BY <1>0, <2>3 DEF RecvReq
  <2>5. PICK f : \A m \in network' :
               m \in network \/ (acks /\ m = [type |-> "ACK", offset |-> offset, nordma |-> f])
    BY <2>3 DEF SendAck
  <2>6. /\ \A m \in network' : m.type \notin {"RGET", "FINGET"}
        /\ \A m, n \in network' : CarriesAck(m) /\ CarriesAck(n) => m = n
        /\ ~acks => ~AckNet'
    <3>1. \A m \in network : m.type \notin {"RGET", "FINGET"}
      BY DEF RndvData
    <3>2. [type |-> "ACK", offset |-> offset, nordma |-> f].type = "ACK"
      OBVIOUS
    <3>3. \A m \in network : ~CarriesAck(m)
      BY <2>2 DEF AckNet
    <3>4. \A m \in network' : m.type \notin {"RGET", "FINGET"}
      BY <2>5, <3>1, <3>2
    <3>5. \A m, n \in network' : CarriesAck(m) /\ CarriesAck(n) => m = n
      BY <2>5, <3>3
    <3>6. ~acks => ~AckNet'
      BY <2>5, <3>3 DEF AckNet, CarriesAck
    <3>. QED  BY <3>4, <3>5, <3>6
  <2>7. \A b \in Frag : b < eager => ViaRndv(b)'
    BY <1>0, <1>1, <1>4 DEF RecvRndv, RecvGoto, ViaRndv, Opening
  <2>8. RndvData'
    BY <1>1, <1>2, <2>4, <2>6, <2>7 DEF RndvData
  <2>9. RndvAck'
    BY <1>1, <1>2, <2>2, <2>4, <2>6 DEF RndvAck, CarriesAck, Is
  <2>. QED  BY <2>8, <2>9
<1>5. CASE ~RecvRndv(t)
  <2>0. recvreq.match_received
    BY <1>3, <1>5, RecvMatched
  <2>1. recvreq'.match_received /\ recvreq'.get = recvreq.get
    BY <1>0, <1>3, <1>5, <2>0
       DEF RecvEvent, RecvStep, RecvFrag, RecvFin, RecvPending, AddEager, RecvCheck,
           RecvSchedule, AskPut, PutSent, AskRefused, RecvPutOff, RecvStop, RecvUnlock,
           Locked, Unlocked, PutOff, RecvReq
  <2>2. ASSUME NEW b \in Frag, b < eager PROVE written'[b] = 1 \/ ViaRndv(b)'
    <3>1. written[b] = 1 \/ ViaRndv(b)
      BY <2>0, <2>2 DEF RndvData
    <3>2. written[b] = 1 => written'[b] = 1
      BY <1>0, WrittenStays
    <3>3. CASE written[b] # 1 /\ AddEager(t)
      <4>1. written[b] \in {0, 1}
        BY WrittenOnce DEF NoneTwice
      <4>2. b \in 0..eager - 1
        BY <1>0, <2>2 DEF Frag
      <4>3. written'[b] = 1
        BY <3>3, <4>1, <4>2 DEF AddEager, Writes
      <4>. QED  BY <4>3
    <3>4. CASE ViaRndv(b) /\ ~AddEager(t)
      <4>1. \A u \in Context : rpc[u] = "rndv" => rpc'[u] = "rndv"
        BY <1>0, <1>3, <1>5, <3>4
           DEF RecvEvent, RecvStep, RecvFrag, RecvFin, RecvPending, RecvCheck,
               RecvSchedule, AskPut, PutSent, AskRefused, RecvPutOff, RecvStop, RecvUnlock,
               RecvGoto
      <4>. QED  BY <1>1, <3>4, <4>1 DEF ViaRndv, Opening
    <3>. QED  BY <3>1, <3>2, <3>3, <3>4
  <2>3. CASE AskPut(t)
    <3>1. PICK b : /\ network' = network \cup {[type |-> "PUT", offset |-> b,
                                                ack |-> ~recvreq.ack_sent]}
                   /\ recvreq'.ack_sent = TRUE
      BY <1>0, <2>3 DEF AskPut, RecvReq
    <3>. DEFINE p == [type |-> "PUT", offset |-> b, ack |-> ~recvreq.ack_sent]
    <3>2. p.type = "PUT" /\ (p.ack <=> ~recvreq.ack_sent)
      OBVIOUS
    <3>3. \A m : m \in network' <=> m \in network \/ m = p
      BY <3>1
    <3>. HIDE DEF p
    <3>4. \A m \in network' : m.type \notin {"RGET", "FINGET"}
      BY <3>2, <3>3 DEF RndvData
    <3>5. CarriesAck(p) <=> ~recvreq.ack_sent
      BY <3>2 DEF CarriesAck
    <3>6. recvreq.ack_sent => (AckNet' => AckNet)
      BY <3>3, <3>5 DEF AckNet, CarriesAck
    <3>7. \A m, n \in network' : CarriesAck(m) /\ CarriesAck(n) => m = n
      BY <3>3, <3>5 DEF RndvAck, AckNet
    <3>8. RndvData'
      BY <1>1, <1>2, <2>1, <2>2, <3>4 DEF RndvData
    <3>9. RndvAck'
      BY <1>1, <1>2, <2>1, <3>1, <3>6, <3>7 DEF RndvAck, CarriesAck, Is
    <3>. QED  BY <3>8, <3>9
  <2>4. CASE ~AskPut(t)
    <3>1. network' \subseteq network
      BY <1>3, <1>5, <2>4
         DEF RecvEvent, RecvStep, RecvFrag, RecvFin, RecvPending, AddEager, RecvCheck,
             RecvSchedule, PutSent, AskRefused, RecvPutOff, RecvStop, RecvUnlock
    <3>2. recvreq'.ack_sent = recvreq.ack_sent \/ recvreq'.ack_sent = TRUE
      BY <1>0, <1>3, <1>5, <2>4
         DEF RecvEvent, RecvStep, RecvFrag, RecvFin, RecvPending, AddEager, RecvCheck,
             RecvSchedule, PutSent, AskRefused, RecvPutOff, RecvStop, RecvUnlock,
             Locked, Unlocked, PutOff, RecvReq
    <3>3. AckNet' => AckNet
      BY <3>1 DEF AckNet, CarriesAck
    <3>4. RndvData'
      BY <1>1, <1>2, <2>1, <2>2, <3>1 DEF RndvData
    <3>5. RndvAck'
      BY <1>0, <1>1, <1>2, <2>1, <3>1, <3>2, <3>3 DEF RndvAck, CarriesAck, Is, RecvReq
    <3>. QED  BY <3>4, <3>5
  <2>. QED  BY <2>3, <2>4
<1>. QED  BY <1>4, <1>5

LEMMA RgetSend ==
    ASSUME WayInv, WayInv', RgetMode, NEW t \in Context, SendEvent(t) \/ SendStep(t)
    PROVE  RgetMode'
<1>0. /\ sendreq \in SendReq /\ [Next]_vars
  BY DEF WayInv, HandInv, Types, Next
<1>1. UNCHANGED <<eager, recvreq, rpc>>
  BY SendRecvSame
<1>2. /\ ~RndvCompletion(t) /\ ~PutCompletion(t)
      /\ ~RecvPut(t) /\ ~RetryPut(t)
  BY DEF RgetMode, RndvCompletion, PutCompletion, RecvPut, RetryPut
<1>3. \A m \in network' : m \in network \/ m.type = "FRAG"
  <2>1. CASE SendFrag(t)
    BY <2>1 DEF SendFrag
  <2>2. CASE ~SendFrag(t)
    <3>1. network' \subseteq network
      BY <1>2, <2>2
         DEF SendEvent, SendStep, SendCheck, FragCompletion,
             RgetDelivered, RecvAck, AckState, SendSchedule, FragSent, SendPutOff,
             SendStop, SendUnlock, SendPending, Fallback
    <3>. QED  BY <3>1
  <2>. QED  BY <2>1, <2>2
<1>4. sendreq'.state = 0 /\ rdma_pending' = {}
  BY <1>0, <1>2
     DEF SendEvent, SendStep, SendCheck, FragCompletion,
         RgetDelivered, RecvAck, AckState, SendSchedule, SendFrag, FragSent, SendPutOff,
         SendStop, SendUnlock, SendPending, Fallback, Locked, Unlocked, PutOff, RgetMode, SendReq
<1>5. \A c \in due' : c.type = "frag"
  BY <1>2, DueSend DEF RgetMode
<1>6. recvreq.get = "done" => \A b \in Frag : written'[b] = 1
  BY <1>0, WrittenStays DEF RgetMode
<1>7. ASSUME recvreq.get # "none", NEW b \in Frag PROVE ~FragDue(b)'
  <2>1. ~SendFrag(t)
    <3>1. recvreq.get \in {"pending", "started"} \/ recvreq.get = "done"
      BY <1>7 DEF WayInv, HandInv, Types, RecvReq
    <3>2. CASE ViaGet
      BY <3>2, SendFragIs
    <3>3. CASE recvreq.get = "done"
      BY <3>3, SendFragIs DEF RgetMode
    <3>. QED  BY <3>1, <3>2, <3>3 DEF ViaGet
  <2>2. [type |-> "frag", offset |-> b].type = "frag"
    OBVIOUS
  <2>3. FragDue(b)' => FragDue(b)
    BY <2>1, <2>2, DueSend DEF FragDue
  <2>. QED  BY <1>7, <2>3 DEF RgetMode
<1>. QED  BY <1>1, <1>3, <1>4, <1>5, <1>6, <1>7 DEF RgetMode

LEMMA RgetRecv ==
    ASSUME WayInv, WayInv', Told, RgetMode, NEW t \in Context, RecvEvent(t) \/ RecvStep(t)
    PROVE  RgetMode'
<1>0. /\ recvreq \in RecvReq /\ rpc \in [Context -> RecvPc] /\ [Next]_vars
  BY DEF WayInv, HandInv, Types, Next
<1>1. UNCHANGED <<eager, sendreq, due, rdma_pending, spc>>
  BY RecvSendSame
<1>2. \A b : FragDue(b)' <=> FragDue(b)
  BY <1>1 DEF FragDue
<1>3. ~RecvRndv(t) /\ ~AddEager(t) /\ ~AskPut(t) /\ ~PutSent(t) /\ ~RecvFin(t)
  <2>1. [type |-> "RNDV"].type = "RNDV"
    OBVIOUS
  <2>2. ~RecvRndv(t) /\ ~AddEager(t) /\ ~RecvFin(t)
    BY <2>1 DEF RgetMode, RecvRndv, AddEager, RecvFin
  <2>3. ~(recvreq.rdma_offset < recvreq.send_offset)
    BY DEF RgetMode
  <2>4. ~AskPut(t)
    BY <2>3 DEF AskPut, MayAsk
  <2>5. ~PutSent(t)
    BY <2>3 DEF WayInv, Once, Asking, PutSent
  <2>. QED  BY <2>2, <2>4, <2>5
<1>4. \A u \in Context : rpc'[u] # "rndv"
  <2>1. \A u \in Context : rpc[u] # "rndv"
    BY DEF RgetMode
  <2>. QED
    BY <1>0, <1>3, <2>1
       DEF RecvEvent, RecvStep, RecvRget, RetryGet, RgetCompletion, RecvFrag, RecvPending,
           RecvCheck, RecvSchedule, AskRefused, RecvPutOff, RecvStop, RecvUnlock, RecvGoto
<1>5. recvreq'.rdma_offset = 0 /\ recvreq'.send_offset = 0
  <2>1. recvreq.rdma_offset = 0 /\ recvreq.send_offset = 0
    BY DEF RgetMode
  <2>. QED
    BY <1>0, <1>3, <2>1
       DEF RecvEvent, RecvStep, RecvRget, RetryGet, RgetCompletion, RecvFrag, RecvPending,
           RecvCheck, RecvSchedule, AskRefused, RecvPutOff, RecvStop, RecvUnlock,
           GetFrag, Locked, Unlocked, PutOff, RecvReq
<1>6. SUFFICES /\ \A m \in network' : /\ m.type \in {"RGET", "FINGET", "ACK", "FRAG"}
                                      /\ m.type = "ACK" => m.offset = 0
                                      /\ m.type = "FINGET" => recvreq'.get = "done"
               /\ recvreq'.get = "done" => \A b \in Frag : written'[b] = 1
               /\ recvreq'.get # "none" => /\ recvreq'.match_received
                                           /\ \A b \in Frag : ~FragDue(b)
  BY <1>1, <1>2, <1>4, <1>5 DEF RgetMode
<1>7. CASE RecvRget(t)
  <2>1. ~recvreq.match_received
    BY <1>7 DEF WayInv, Before, RecvRget
  <2>2. \A b \in Frag : ~FragDue(b)
    BY <2>1, ToldBefore
  <2>3. \A m \in network : m.type \in {"RNDV", "RGET"}
    BY <2>1 DEF WayInv, Before
  <2>4. \A m \in network' : m \in network \/ (m.type = "ACK" /\ m.offset = 0)
    <3>1. \/ network' = network \ {[type |-> "RGET"]}
          \/ SendAck(network \ {[type |-> "RGET"]}, 0, TRUE)
      BY <1>7 DEF RecvRget
    <3>. QED  BY <3>1 DEF SendAck
  <2>5. /\ recvreq'.match_received = TRUE
        /\ recvreq'.get \in {"started", "pending"} \/ recvreq'.get = recvreq.get
    BY <1>0, <1>7 DEF RecvRget, GetFrag, RecvReq
  <2>6. recvreq.get = "none"
    BY <2>1 DEF RgetMode
  <2>7. \A m \in network' : /\ m.type \in {"RGET", "FINGET", "ACK", "FRAG"}
                            /\ m.type = "ACK" => m.offset = 0
                            /\ m.type # "FINGET"
    BY <2>3, <2>4 DEF RgetMode
  <2>. QED  BY <2>2, <2>5, <2>6, <2>7
<1>8. CASE RgetCompletion(t)
  <2>1. /\ recvreq.get = "started" /\ recvreq'.get = "done"
        /\ recvreq'.match_received = recvreq.match_received
        /\ Writes(Frag) /\ network' = network \cup {[type |-> "FINGET"]}
    BY <1>0, <1>8 DEF RgetCompletion, RecvReq
  <2>2. \A b \in Frag : written'[b] = 1
    <3>. TAKE b \in Frag
    <3>1. Ways(b) = Is(recvreq.match_received) /\ written[b] \in Nat
      BY DEF WayInv, OneWay, HandInv, Types
    <3>2. written[b] = 0
      BY <2>1, <3>1 DEF Ways, Is, ViaGet
    <3>. QED  BY <2>1, <3>2 DEF Writes
  <2>3. \A m \in network' : m \in network \/ m.type = "FINGET"
    BY <2>1
  <2>4. \A m \in network' : /\ m.type \in {"RGET", "FINGET", "ACK", "FRAG"}
                            /\ m.type = "ACK" => m.offset = 0
    BY <2>3 DEF RgetMode
  <2>. QED  BY <2>1, <2>2, <2>4 DEF RgetMode
<1>9. CASE ~RecvRget(t) /\ ~RgetCompletion(t)
  <2>1. network' \subseteq network
    BY <1>3, <1>9
       DEF RecvEvent, RecvStep, RetryGet, RecvFrag, RecvPending,
           RecvCheck, RecvSchedule, AskRefused, RecvPutOff, RecvStop, RecvUnlock
  <2>2. /\ recvreq'.match_received = recvreq.match_received
        /\ \/ recvreq'.get = recvreq.get
           \/ recvreq.get = "pending" /\ recvreq'.get \in {"started", "pending"}
    BY <1>0, <1>3, <1>9
       DEF RecvEvent, RecvStep, RetryGet, RecvFrag, RecvPending,
           RecvCheck, RecvSchedule, AskRefused, RecvPutOff, RecvStop, RecvUnlock,
           GetFrag, Locked, Unlocked, PutOff, RecvReq
  <2>3. recvreq.get = "done" => \A b \in Frag : written'[b] = 1
    BY <1>0, WrittenStays DEF RgetMode
  <2>4. \A m \in network : /\ m.type \in {"RGET", "FINGET", "ACK", "FRAG"}
                           /\ m.type = "ACK" => m.offset = 0
                           /\ m.type = "FINGET" => recvreq.get = "done"
    BY DEF RgetMode
  <2>5. recvreq.get # "none" => recvreq.match_received /\ \A b \in Frag : ~FragDue(b)
    BY DEF RgetMode
  <2>. QED  BY <2>1, <2>2, <2>3, <2>4, <2>5
<1>. QED  BY <1>7, <1>8, <1>9

----------------------------------------------------------------------------
(* The sender counts what has left its buffer *)

Seen(b) == written[b] = 1 \/ ViaFrag(b)
Copied(b) == b >= eager /\ recvreq.get = "none" /\ ~FragDue(b) /\ Seen(b)
Fetched == recvreq.get = "done" /\ [type |-> "FINGET"] \notin network

Gone(b) == (b < eager /\ ~RndvDue) \/ Copied(b) \/ Fetched
Delivered == {b \in Frag : Gone(b)}

Sent == sendreq.bytes_delivered = Cardinality(Delivered)

SendComplete ==
    sendreq.complete > 0 => sendreq.state = 0 /\ sendreq.bytes_delivered >= Length

SentInv == ReceivedInv /\ Mode /\ Sent /\ SendComplete

LEMMA DeliveredIs ==
    /\ Delivered \subseteq Frag
    /\ Cardinality(Delivered) \in 0..Length
    /\ Cardinality(Delivered) = Length => Delivered = Frag
<1>1. Delivered \subseteq Frag
  BY DEF Delivered
<1>. QED  BY <1>1, FragSets

LEMMA SentSame ==
    ASSUME Sent, sendreq'.bytes_delivered = sendreq.bytes_delivered,
           \A b \in Frag : Gone(b)' <=> Gone(b)
    PROVE  Sent'
<1>1. Delivered' = Delivered
  BY DEF Delivered
<1>. QED  BY <1>1 DEF Sent

\* One fragment more, and the count of it.
LEMMA SentOneMore ==
    ASSUME Sent, NEW h \in Frag,
           sendreq'.bytes_delivered = sendreq.bytes_delivered + 1, ~Gone(h),
           \A b \in Frag : Gone(b)' <=> Gone(b) \/ b = h
    PROVE  Sent'
<1>1. /\ Delivered \subseteq Frag /\ Delivered' \subseteq Frag /\ h \notin Delivered
      /\ \A b \in Frag : b \in Delivered' <=> b \in Delivered \/ b = h
  BY DEF Delivered
<1>2. Cardinality(Delivered') = Cardinality(Delivered) + 1
  BY <1>1, OneMore DEF Is
<1>. QED  BY <1>2 DEF Sent

\* Completions of another type say nothing of copies.
LEMMA FragDuesSame ==
    ASSUME \A c : c.type = "frag" => (c \in due' <=> c \in due), NEW b
    PROVE  FragDue(b)' <=> FragDue(b)
<1>1. [type |-> "frag", offset |-> b].type = "frag"
  OBVIOUS
<1>. QED  BY <1>1 DEF FragDue

LEMMA FingetSame ==
    ASSUME \A m : m.type = "FINGET" => (m \in network' <=> m \in network),
           recvreq'.get = recvreq.get
    PROVE  Fetched' <=> Fetched
<1>1. [type |-> "FINGET"].type = "FINGET"
  OBVIOUS
<1>. QED  BY <1>1 DEF Fetched

LEMMA SentRndvCompletion ==
    ASSUME ReceivedInv, Mode, Sent, NEW t \in Context, RndvCompletion(t)
    PROVE  Sent'
<1>0. sendreq \in SendReq /\ sendreq.bytes_delivered \in Int /\ eager \in 0..Length
      /\ due \subseteq Completion
  BY DEF ReceivedInv, WayInv, HandInv, Types, SendReq
<1>1. PICK c \in due : c.type = "rndv" /\ due' = due \ {c}
  BY DEF RndvCompletion
<1>2. UNCHANGED <<eager, recvreq, rpc, network, written>>
  BY DEF RndvCompletion, recvVars
<1>3. RndvData /\ RndvAck
  BY <1>1 DEF Mode, RgetMode
<1>4. RndvDue /\ ~RndvDue'
  <2>1. \A d \in due : d.type = "rndv" => d = c
    BY <1>0, <1>1, <1>3, CompletionMade DEF RndvAck
  <2>. QED  BY <1>1, <2>1 DEF RndvDue
<1>5. ~Fetched
  BY <1>3 DEF RndvData, Fetched
<1>6. ASSUME NEW b \in Frag PROVE Copied(b)' <=> Copied(b)
  <2>1. FragDue(b)' <=> FragDue(b)
    BY <1>1, FragDuesSame
  <2>. QED  BY <1>2, <2>1 DEF Copied, Seen, ViaFrag, InNetwork
<1>7. ~Fetched'
  BY <1>2, <1>5 DEF Fetched
<1>8. /\ \A b \in Frag : b \in Delivered' <=> b \in Delivered \/ b < eager
      /\ \A b \in Delivered : b >= eager
  <2>1. \A b \in Frag : Gone(b)' <=> Gone(b) \/ b < eager
    BY <1>2, <1>4, <1>5, <1>6, <1>7 DEF Gone
  <2>2. \A b \in Frag : Gone(b) => b >= eager
    BY <1>4, <1>5 DEF Gone, Copied
  <2>. QED  BY <2>1, <2>2 DEF Delivered
<1>9. Cardinality(Delivered') = Cardinality(Delivered) + eager
  <2>1. Delivered' \subseteq Frag
    BY DEF Delivered
  <2>. QED  BY <1>0, <1>8, <2>1, DeliveredIs, EagerMore
<1>10. sendreq'.bytes_delivered = sendreq.bytes_delivered + eager
  BY <1>0 DEF RndvCompletion, SendReq
<1>. QED  BY <1>9, <1>10 DEF Sent

LEMMA SentFragCompletion ==
    ASSUME ReceivedInv, Mode, Sent, NEW t \in Context, FragCompletion(t)
    PROVE  Sent'
<1>0. sendreq \in SendReq /\ sendreq.bytes_delivered \in Int /\ eager \in 0..Length
      /\ due \subseteq Completion
  BY DEF ReceivedInv, WayInv, HandInv, Types, SendReq
<1>1. PICK c \in due : c.type = "frag" /\ due' = due \ {c}
  BY DEF FragCompletion
<1>2. UNCHANGED <<eager, recvreq, rpc, network, written>>
  BY DEF FragCompletion, recvVars
<1>3. PICK h \in Frag : c = [type |-> "frag", offset |-> h]
  BY <1>0, <1>1, CompletionMade
<1>4. FragDue(h) /\ h >= eager /\ recvreq.get = "none"
  <2>1. FragDue(h)
    BY <1>1, <1>3 DEF FragDue
  <2>2. h >= 0
    BY DEF Frag
  <2>. QED  BY <2>1, <2>2 DEF Mode, RndvData, RgetMode
<1>5. Seen(h)
  BY <1>4 DEF ReceivedInv, Told, Seen
<1>6. ASSUME NEW b \in Frag PROVE FragDue(b)' <=> FragDue(b) /\ b # h
  <2>1. /\ [type |-> "frag", offset |-> h].offset = h
        /\ [type |-> "frag", offset |-> b].offset = b
    OBVIOUS
  <2>. QED  BY <1>1, <1>3, <2>1 DEF FragDue
<1>7. RndvDue' <=> RndvDue
  BY <1>1 DEF RndvDue
<1>8. ~Fetched /\ ~Fetched'
  BY <1>2, <1>4 DEF Fetched
<1>9. ASSUME NEW b \in Frag PROVE Gone(b)' <=> Gone(b) \/ b = h
  <2>1. Seen(b)' <=> Seen(b)
    BY <1>2 DEF Seen, ViaFrag, InNetwork
  <2>2. Copied(b)' <=> Copied(b) \/ b = h
    BY <1>2, <1>4, <1>5, <1>6, <2>1 DEF Copied
  <2>. QED  BY <1>2, <1>7, <1>8, <2>2 DEF Gone
<1>10. ~Gone(h)
  BY <1>0, <1>4, <1>8 DEF Gone, Copied, Frag
<1>11. sendreq'.bytes_delivered = sendreq.bytes_delivered + 1
  BY <1>0 DEF FragCompletion, SendReq
<1>. QED  BY <1>9, <1>10, <1>11, SentOneMore

LEMMA SentPutCompletion ==
    ASSUME ReceivedInv, Mode, Sent, NEW t \in Context, PutCompletion(t)
    PROVE  Sent'
<1>0. sendreq \in SendReq /\ sendreq.bytes_delivered \in Int /\ eager \in 0..Length
      /\ due \subseteq Completion
  BY DEF ReceivedInv, WayInv, HandInv, Types, SendReq
<1>1. PICK c \in due :
        /\ c.type = "put" /\ due' = due \ {c} /\ Writes({c.offset})
        /\ network' = network \cup {[type |-> "FIN", offset |-> c.offset, fail |-> FALSE]}
  BY DEF PutCompletion
<1>2. UNCHANGED <<eager, recvreq, rpc>>
  BY DEF PutCompletion
<1>3. PICK h \in Frag : c = [type |-> "put", offset |-> h] /\ h = c.offset
  BY <1>0, <1>1, CompletionMade
<1>4. ViaDue(h)
  BY <1>1, <1>3 DEF ViaDue
<1>5. written[h] = 0 /\ ~ViaFrag(h) /\ ~ViaRndv(h) /\ recvreq.match_received
  <2>1. Ways(h) = Is(recvreq.match_received) /\ written[h] \in Nat
    BY DEF ReceivedInv, WayInv, OneWay, HandInv, Types
  <2>. QED  BY <1>4, <2>1 DEF Ways, Is
<1>6. RndvData
  BY <1>1 DEF Mode, RgetMode
<1>7. h >= eager /\ ~FragDue(h) /\ recvreq.get = "none"
  <2>1. ~(h < eager) /\ recvreq.get = "none"
    BY <1>5, <1>6 DEF RndvData
  <2>2. ~FragDue(h)
    BY <1>5 DEF ReceivedInv, Told
  <2>. QED  BY <1>0, <2>1, <2>2 DEF Frag
<1>8. /\ RndvDue' <=> RndvDue
      /\ \A b : FragDue(b)' <=> FragDue(b)
  BY <1>1, FragDuesSame DEF RndvDue
<1>9. ~Fetched /\ ~Fetched'
  BY <1>2, <1>7 DEF Fetched
<1>10. ASSUME NEW b \in Frag PROVE Seen(b)' <=> Seen(b) \/ b = h
  <2>1. ViaFrag(b)' <=> ViaFrag(b)
    BY <1>1, FragsSame
  <2>2. written'[b] = written[b] + IF b = h THEN 1 ELSE 0
    BY <1>1, <1>3 DEF Writes
  <2>3. written[b] \in {0, 1}
    BY WrittenOnce DEF ReceivedInv, NoneTwice
  <2>. QED  BY <1>5, <2>1, <2>2, <2>3 DEF Seen
<1>11. ASSUME NEW b \in Frag PROVE Gone(b)' <=> Gone(b) \/ b = h
  <2>1. Copied(b)' <=> Copied(b) \/ b = h
    BY <1>2, <1>7, <1>8, <1>10 DEF Copied
  <2>. QED  BY <1>2, <1>8, <1>9, <2>1 DEF Gone
<1>12. ~Gone(h)
  BY <1>0, <1>5, <1>7, <1>9 DEF Gone, Copied, Seen, Frag
<1>13. sendreq'.bytes_delivered = sendreq.bytes_delivered + 1
  BY <1>0 DEF PutCompletion, SendReq
<1>. QED  BY <1>11, <1>12, <1>13, SentOneMore

LEMMA SentRgetDelivered ==
    ASSUME ReceivedInv, Mode, Sent, NEW t \in Context, RgetDelivered(t)
    PROVE  Sent'
<1>0. sendreq \in SendReq /\ sendreq.bytes_delivered \in Int
  BY DEF ReceivedInv, WayInv, HandInv, Types, SendReq
<1>1. /\ [type |-> "FINGET"] \in network
      /\ network' = network \ {[type |-> "FINGET"]}
      /\ UNCHANGED <<eager, recvreq>>
  BY DEF RgetDelivered, recvVars
<1>2. [type |-> "FINGET"].type = "FINGET"
  OBVIOUS
<1>3. eager = 0 /\ recvreq.get = "done"
  BY <1>1, <1>2 DEF Mode, RndvData, RgetMode
<1>4. Delivered = {}
  BY <1>1, <1>3 DEF Delivered, Gone, Copied, Fetched, Frag
<1>5. Delivered' = Frag
  BY <1>1, <1>3 DEF Delivered, Gone, Fetched
<1>6. Cardinality(Delivered) = 0 /\ Cardinality(Delivered') = Length
  <2>1. Cardinality(Delivered) = 0
    BY <1>4, FS_EmptySet
  <2>2. Cardinality(Delivered') = Length
    BY <1>5, FS_Interval DEF Frag
  <2>. QED  BY <2>1, <2>2
<1>7. sendreq'.bytes_delivered = sendreq.bytes_delivered + Length
  BY <1>0 DEF RgetDelivered, SendReq
<1>. QED  BY <1>6, <1>7 DEF Sent

LEMMA SentSend ==
    ASSUME ReceivedInv, Mode, Sent, NEW t \in Context, SendEvent(t) \/ SendStep(t)
    PROVE  Sent'
<1>0. sendreq \in SendReq /\ sendreq.bytes_delivered \in Int
      /\ WayInv /\ Told
  BY DEF ReceivedInv, WayInv, HandInv, Types, SendReq
<1>1. UNCHANGED <<eager, recvreq, rpc>>
  BY SendRecvSame
<1>2. CASE SendFrag(t)
  <2>1. PICK h \in Frag :
          /\ network' = network \cup {[type |-> "FRAG", offset |-> h]}
          /\ due' = due \cup {[type |-> "frag", offset |-> h]}
          /\ written[h] = 0 /\ ~ViaFrag(h)
    BY <1>0, <1>2, SendFragIs
  <2>2. written' = written /\ sendreq' = sendreq
    BY <1>2 DEF SendFrag, recvVars
  <2>3. RndvDue' <=> RndvDue
    BY <2>1 DEF RndvDue
  <2>4. Fetched' <=> Fetched
    BY <1>1, <2>1, FingetSame
  <2>5. ASSUME NEW b \in Frag PROVE Gone(b)' <=> Gone(b)
    <3>1. /\ FragDue(b)' <=> FragDue(b) \/ b = h
          /\ Seen(b)' <=> Seen(b) \/ b = h
      <4>1. /\ [type |-> "FRAG", offset |-> h].offset = h
            /\ [type |-> "FRAG", offset |-> h].type = "FRAG"
            /\ [type |-> "frag", offset |-> h].offset = h
            /\ [type |-> "frag", offset |-> b].offset = b
        OBVIOUS
      <4>2. \A m : m \in network' <=> m \in network \/ m = [type |-> "FRAG", offset |-> h]
        BY <2>1
      <4>3. ViaFrag(b)' => ViaFrag(b) \/ b = h
        BY <4>1, <4>2 DEF ViaFrag, InNetwork
      <4>4. ViaFrag(b) => ViaFrag(b)'
        BY <4>2 DEF ViaFrag, InNetwork
      <4>5. b = h => ViaFrag(b)'
        BY <4>1, <4>2 DEF ViaFrag, InNetwork
      <4>6. FragDue(b)' <=> FragDue(b) \/ b = h
        BY <2>1, <4>1 DEF FragDue
      <4>. QED  BY <2>2, <4>3, <4>4, <4>5, <4>6 DEF Seen
    <3>2. Copied(b)' <=> Copied(b)
      BY <1>1, <2>1, <3>1 DEF Copied, Seen
    <3>. QED  BY <1>1, <2>3, <2>4, <3>2 DEF Gone
  <2>. QED  BY <2>2, <2>5, SentSame
<1>3. CASE RecvPut(t) \/ RetryPut(t)
  <2>1. PICK h \in Frag, s \in SendReq, n \in Nat :
          /\ PutFrag(t, s, h, n)
          /\ s = sendreq \/ s = [sendreq EXCEPT !.state = @ - 1]
    BY <1>0, <1>3, PutFragSplit
  <2>2. sendreq'.bytes_delivered = sendreq.bytes_delivered
    BY <1>0, <2>1 DEF PutFrag, GiveUp, SendReq
  <2>3. written' = written
    BY <1>3 DEF RecvPut, RetryPut, recvVars
  <2>4. \A m : m.type \in {"FRAG", "FINGET"} => (m \in network' <=> m \in network)
    BY <2>1 DEF PutFrag, GiveUp, WithoutPut
  <2>5. \A c : c.type \in {"frag", "rndv"} => (c \in due' <=> c \in due)
    BY <2>1 DEF PutFrag
  <2>6. Fetched' <=> Fetched
    BY <1>1, <2>4, FingetSame
  <2>7. RndvDue' <=> RndvDue
    BY <2>5 DEF RndvDue
  <2>8. ASSUME NEW b \in Frag PROVE Gone(b)' <=> Gone(b)
    <3>1. ViaFrag(b)' <=> ViaFrag(b)
      BY <2>4, FragsSame
    <3>2. FragDue(b)' <=> FragDue(b)
      BY <2>5, FragDuesSame
    <3>. QED  BY <1>1, <2>3, <2>6, <2>7, <3>1, <3>2 DEF Gone, Copied, Seen
  <2>. QED  BY <2>2, <2>8, SentSame
<1>4. CASE \/ SendCheck(t) \/ RecvAck(t) \/ AckState(t) \/ Fallback(t) \/ SendSchedule(t)
           \/ FragSent(t) \/ SendPutOff(t) \/ SendStop(t) \/ SendUnlock(t) \/ SendPending(t)
  <2>1. written' = written /\ due' = due
    BY <1>4 DEF SendCheck, RecvAck, AckState, Fallback, SendSchedule, FragSent, SendPutOff,
         SendStop, SendUnlock, SendPending, recvVars
  <2>2. sendreq'.bytes_delivered = sendreq.bytes_delivered
    BY <1>0, <1>4 DEF SendCheck, RecvAck, AckState, Fallback, SendSchedule, FragSent, SendPutOff,
         SendStop, SendUnlock, SendPending, Locked, Unlocked, PutOff, SendReq
  <2>3. \A m : m.type \in {"FRAG", "FINGET"} => (m \in network' <=> m \in network)
    <3>1. network' = network \/ \E m \in network : m.type = "ACK" /\ network' = network \ {m}
      BY <1>4 DEF SendCheck, RecvAck, AckState, Fallback, SendSchedule, FragSent, SendPutOff,
         SendStop, SendUnlock, SendPending
    <3>. QED  BY <3>1
  <2>4. Fetched' <=> Fetched
    BY <1>1, <2>3, FingetSame
  <2>5. ASSUME NEW b \in Frag PROVE Gone(b)' <=> Gone(b)
    <3>1. ViaFrag(b)' <=> ViaFrag(b)
      BY <2>3, FragsSame
    <3>. QED  BY <1>1, <2>1, <2>4, <3>1 DEF Gone, Copied, Seen, FragDue, RndvDue
  <2>. QED  BY <2>2, <2>5, SentSame
<1>5. CASE RndvCompletion(t) \/ FragCompletion(t) \/ PutCompletion(t) \/ RgetDelivered(t)
  BY <1>5, SentRndvCompletion, SentFragCompletion, SentPutCompletion, SentRgetDelivered
<1>. QED  BY <1>2, <1>3, <1>4, <1>5 DEF SendEvent, SendStep

LEMMA SentRecv ==
    ASSUME ReceivedInv, Mode, Sent, NEW t \in Context, RecvEvent(t) \/ RecvStep(t)
    PROVE  Sent'
<1>0. /\ recvreq \in RecvReq /\ eager \in 0..Length /\ WayInv /\ Told
      /\ network \subseteq Header
  BY DEF ReceivedInv, WayInv, HandInv, Types
<1>1. UNCHANGED <<eager, sendreq, due, rdma_pending, spc>>
  BY RecvSendSame
<1>2. /\ RndvDue' <=> RndvDue
      /\ \A b : FragDue(b)' <=> FragDue(b)
  BY <1>1 DEF RndvDue, FragDue
<1>3. SUFFICES \A b \in Frag : Gone(b)' <=> Gone(b)
  BY <1>1, SentSame
<1>4. CASE RecvRndv(t) \/ RecvRget(t)
  <2>1. ~recvreq.match_received
    BY <1>4 DEF ReceivedInv, WayInv, Before, RecvRndv, RecvRget
  <2>2. recvreq'.get # "done" /\ recvreq.get # "done"
    <3>1. recvreq.get # "done"
      BY <2>1 DEF Mode, RndvData, RgetMode
    <3>. QED  BY <1>0, <1>4, <3>1 DEF RecvRndv, RecvRget, GetFrag, RecvReq
  <2>3. written' = written
    BY <1>4 DEF RecvRndv, RecvRget
  <2>4. \A m \in network' : m \in network \/ m.type = "ACK"
    <3>1. CASE RecvRndv(t)
      <4>1. PICK o : \/ network' = network \ {[type |-> "RNDV"]}
                     \/ \E x : SendAck(network \ {[type |-> "RNDV"]}, o, x)
        BY <3>1 DEF RecvRndv
      <4>. QED  BY <4>1 DEF SendAck
    <3>2. CASE RecvRget(t)
      <4>1. \/ network' = network \ {[type |-> "RGET"]}
            \/ SendAck(network \ {[type |-> "RGET"]}, 0, TRUE)
        BY <3>2 DEF RecvRget
      <4>. QED  BY <4>1 DEF SendAck
    <3>. QED  BY <1>4, <3>1, <3>2
  <2>5. ASSUME NEW b \in Frag PROVE ~Seen(b) /\ ~Seen(b)'
    <3>1. written[b] = 0 /\ ~ViaFrag(b)
      BY <1>0, <2>1, ToldBefore
    <3>2. ~ViaFrag(b)'
      BY <2>4, <3>1 DEF ViaFrag, InNetwork
    <3>. QED  BY <2>3, <3>1, <3>2 DEF Seen
  <2>. QED  BY <1>1, <1>2, <2>2, <2>5 DEF Gone, Copied, Fetched
<1>5. CASE RecvFrag(t)
  <2>1. PICK m \in network :
          m.type = "FRAG" /\ network' = network \ {m} /\ Writes({m.offset})
    BY <1>5 DEF RecvFrag
  <2>2. PICK h \in Frag : m = [type |-> "FRAG", offset |-> h] /\ h = m.offset
    BY <1>0, <2>1, HeaderFields
  <2>3. recvreq'.get = recvreq.get
    BY <1>0, <1>5 DEF RecvFrag, RecvReq
  <2>4. Fetched' <=> Fetched
    <3>1. \A n : n.type = "FINGET" => (n \in network' <=> n \in network)
      BY <2>1
    <3>. QED  BY <2>3, <3>1, FingetSame
  <2>5. ASSUME NEW b \in Frag PROVE Seen(b)' <=> Seen(b)
    <3>0. \A c \in Frag : written[c] \in {0, 1}
      BY <1>0, WrittenOnce DEF NoneTwice
    <3>1. ViaFrag(h)
      BY <2>1, <2>2 DEF ViaFrag, InNetwork
    <3>2. written[h] = 0
      <4>1. Ways(h) = Is(recvreq.match_received) /\ written[h] \in Nat
        BY <1>0 DEF WayInv, OneWay, HandInv, Types
      <4>. QED  BY <3>1, <4>1 DEF Ways, Is
    <3>3. CASE b = h
      <4>1. written'[b] = 1
        BY <2>1, <2>2, <3>2, <3>3 DEF Writes
      <4>. QED  BY <3>1, <3>3, <4>1 DEF Seen
    <3>4. CASE b # h
      <4>1. written'[b] = written[b]
        BY <2>1, <2>2, <3>0, <3>4 DEF Writes
      <4>2. ViaFrag(b)' <=> ViaFrag(b)
        BY <2>1, <2>2, <3>4 DEF ViaFrag, InNetwork
      <4>. QED  BY <4>1, <4>2 DEF Seen
    <3>. QED  BY <3>3, <3>4
  <2>. QED  BY <1>1, <1>2, <2>3, <2>4, <2>5 DEF Gone, Copied
<1>6. CASE RgetCompletion(t) \/ RetryGet(t)
  <2>1. recvreq.get \in {"started", "pending"} /\ recvreq'.get # "none"
    BY <1>0, <1>6 DEF RgetCompletion, RetryGet, GetFrag, RecvReq
  <2>2. ~Fetched'
    <3>1. CASE RgetCompletion(t)
      BY <3>1 DEF RgetCompletion, Fetched
    <3>2. CASE RetryGet(t)
      BY <1>0, <3>2 DEF RetryGet, GetFrag, Fetched, RecvReq
    <3>. QED  BY <1>6, <3>1, <3>2
  <2>. QED  BY <1>1, <1>2, <2>1, <2>2 DEF Gone, Copied, Fetched
<1>7. CASE \/ RecvFin(t) \/ RecvPending(t) \/ AddEager(t) \/ RecvCheck(t) \/ RecvSchedule(t)
           \/ AskPut(t) \/ PutSent(t) \/ AskRefused(t) \/ RecvPutOff(t) \/ RecvStop(t)
           \/ RecvUnlock(t)
  <2>1. recvreq'.get = recvreq.get
    BY <1>0, <1>7 DEF RecvFin, RecvPending, AddEager, RecvCheck, RecvSchedule, AskPut, PutSent,
         AskRefused, RecvPutOff, RecvStop, RecvUnlock, Locked, Unlocked, PutOff, RecvReq
  <2>2. \A m : m.type \in {"FRAG", "FINGET"} => (m \in network' <=> m \in network)
    <3>1. CASE RecvFin(t) \/ AskPut(t)
      <4>1. CASE RecvFin(t)
        BY <4>1 DEF RecvFin
      <4>2. CASE AskPut(t)
        BY <4>2 DEF AskPut
      <4>. QED  BY <3>1, <4>1, <4>2
    <3>2. CASE ~RecvFin(t) /\ ~AskPut(t)
      <4>1. network' = network
        BY <1>7, <3>2 DEF RecvPending, AddEager, RecvCheck, RecvSchedule, PutSent,
           AskRefused, RecvPutOff, RecvStop, RecvUnlock
      <4>. QED  BY <4>1
    <3>. QED  BY <3>1, <3>2
  <2>3. Fetched' <=> Fetched
    BY <2>1, <2>2, FingetSame
  <2>4. ASSUME NEW b \in Frag, b >= eager PROVE written'[b] = written[b]
    <3>1. CASE AddEager(t)
      <4>1. b \notin 0..eager - 1 /\ written[b] \in Nat
        BY <1>0, <2>4 DEF Frag, WayInv, HandInv, Types
      <4>. QED  BY <3>1, <4>1 DEF AddEager, Writes
    <3>2. CASE ~AddEager(t)
      BY <1>7, <3>2 DEF RecvFin, RecvPending, RecvCheck, RecvSchedule, AskPut, PutSent,
           AskRefused, RecvPutOff, RecvStop, RecvUnlock
    <3>. QED  BY <3>1, <3>2
  <2>5. ASSUME NEW b \in Frag PROVE ViaFrag(b)' <=> ViaFrag(b)
    BY <2>2, FragsSame
  <2>. QED  BY <1>1, <1>2, <2>1, <2>3, <2>4, <2>5 DEF Gone, Copied, Seen
<1>. QED  BY <1>4, <1>5, <1>6, <1>7 DEF RecvEvent, RecvStep

LEMMA ModeInit == Init => Mode
<1>. SUFFICES ASSUME Init PROVE Mode
  OBVIOUS
<1>1. CASE network = {[type |-> "RNDV"]}
  <2>1. [type |-> "RNDV"] \in network /\ \A m \in network : m.type = "RNDV"
    BY <1>1
  <2>2. /\ sendreq.state = 2 /\ due = {[type |-> "rndv", offset |-> 0]}
        /\ recvreq.get = "none" /\ ~recvreq.match_received /\ ~recvreq.ack_sent
        /\ \A t \in Context : spc[t] = "idle"
    BY <2>1 DEF Init
  <2>3. ~AckNet /\ ~AckAt
    BY <2>1, <2>2 DEF AckNet, AckAt, CarriesAck
  <2>4. \A b \in Frag : ~FragDue(b)
    BY <2>2 DEF FragDue
  <2>5. RndvData
    BY <2>1, <2>2, <2>4 DEF RndvData
  <2>6. RndvAck
    BY <2>1, <2>2, <2>3 DEF RndvAck, CarriesAck, Is
  <2>. QED  BY <2>5, <2>6 DEF Mode
<1>2. CASE eager = 0 /\ network = {[type |-> "RGET"]}
  <2>1. [type |-> "RNDV"] \notin network /\ \A m \in network : m.type = "RGET"
    <3>1. [type |-> "RNDV"].type = "RNDV"
      OBVIOUS
    <3>. QED  BY <1>2, <3>1
  <2>2. RgetMode
    BY <1>2, <2>1 DEF Init, RgetMode
  <2>. QED  BY <2>2 DEF Mode
<1>. QED  BY <1>1, <1>2 DEF Init

LEMMA ModeNext ==
    ASSUME WayInv, WayInv', Told, Mode, [Next]_vars
    PROVE  Mode'
<1>1. CASE UNCHANGED vars
  BY <1>1 DEF vars, sendVars, recvVars, Mode, RndvData, RndvAck, RgetMode, AckNet, AckAt,
     CarriesAck, RndvDue, ViaRndv, Opening, FragDue, Is
<1>2. ASSUME NEW t \in Context, SendEvent(t) \/ SendStep(t) PROVE Mode'
  BY <1>2, RndvDataSend, RndvAckSend, RgetSend DEF Mode
<1>3. ASSUME NEW t \in Context, RecvEvent(t) \/ RecvStep(t) PROVE Mode'
  BY <1>3, RndvRecv, RgetRecv DEF Mode
<1>. QED  BY <1>1, <1>2, <1>3 DEF Next

LEMMA SentInit == Init => Sent
<1>. SUFFICES ASSUME Init PROVE Sent
  OBVIOUS
<1>1. \A b \in Frag : ~Gone(b)
  <2>1. CASE network = {[type |-> "RNDV"]}
    <3>1. RndvDue
      BY <2>1 DEF Init, RndvDue
    <3>2. \A b \in Frag : ~Seen(b)
      BY <2>1 DEF Init, Seen, ViaFrag, InNetwork
    <3>. QED  BY <3>1, <3>2 DEF Init, Gone, Copied, Fetched
  <2>2. CASE eager = 0 /\ network = {[type |-> "RGET"]}
    <3>1. \A b \in Frag : ~Seen(b)
      BY <2>2 DEF Init, Seen, ViaFrag, InNetwork
    <3>. QED  BY <2>2, <3>1 DEF Init, Gone, Copied, Fetched, Frag
  <2>. QED  BY <2>1, <2>2 DEF Init
<1>2. Delivered = {}
  BY <1>1 DEF Delivered
<1>3. Cardinality(Delivered) = 0
  BY <1>2, FS_EmptySet
<1>. QED  BY <1>3 DEF Init, Sent

\* The count only grows, and a state that is 0 stays.
LEMMA SendCompleteSend ==
    ASSUME WayInv, WayInv', Mode, SendComplete, NEW t \in Context, SendEvent(t) \/ SendStep(t)
    PROVE  SendComplete'
<1>0. /\ sendreq \in SendReq /\ sendreq' \in SendReq /\ eager \in 0..Length
      /\ sendreq.bytes_delivered \in Int
  BY DEF WayInv, HandInv, Types, SendReq
<1>1. sendreq.state = 0 => sendreq'.state = 0
  BY RndvAckSend, RgetSend DEF Mode, RgetMode
<1>2. /\ sendreq'.bytes_delivered >= sendreq.bytes_delivered
      /\ \/ sendreq'.complete = sendreq.complete
         \/ sendreq.state = 0 /\ sendreq.bytes_delivered >= Length
  <2>1. CASE RecvPut(t) \/ RetryPut(t)
    <3>1. PICK h \in Frag, s \in SendReq, n \in Nat :
            /\ PutFrag(t, s, h, n)
            /\ s = sendreq \/ s = [sendreq EXCEPT !.state = @ - 1]
      BY <2>1, PutFragSplit
    <3>2. s.bytes_delivered = sendreq.bytes_delivered /\ s.complete = sendreq.complete
      BY <1>0, <3>1 DEF SendReq
    <3>3. sendreq' = s \/ sendreq' = [s EXCEPT !.ranges = Append(@, h)]
      BY <3>1 DEF PutFrag, GiveUp
    <3>4. /\ sendreq'.bytes_delivered = s.bytes_delivered
          /\ sendreq'.complete = s.complete
      BY <3>3 DEF SendReq
    <3>. QED  BY <1>0, <3>2, <3>4
  <2>2. CASE SendCheck(t)
    <3>1. CASE SendFinished(sendreq)
      <4>1. sendreq'.bytes_delivered = sendreq.bytes_delivered
        BY <1>0, <2>2 DEF SendCheck, Locked, SendReq
      <4>. QED  BY <1>0, <3>1, <4>1 DEF SendFinished
    <3>2. CASE ~SendFinished(sendreq)
      BY <1>0, <2>2, <3>2 DEF SendCheck
    <3>. QED  BY <3>1, <3>2
  <2>3. CASE \/ RndvCompletion(t) \/ FragCompletion(t) \/ PutCompletion(t) \/ RgetDelivered(t)
    <3>1. CASE RndvCompletion(t)
      <4>1. /\ sendreq'.bytes_delivered = sendreq.bytes_delivered + eager
            /\ sendreq'.complete = sendreq.complete
        BY <1>0, <3>1 DEF RndvCompletion, SendReq
      <4>. QED  BY <1>0, <4>1
    <3>2. CASE FragCompletion(t)
      <4>1. /\ sendreq'.bytes_delivered = sendreq.bytes_delivered + 1
            /\ sendreq'.complete = sendreq.complete
        BY <1>0, <3>2 DEF FragCompletion, SendReq
      <4>. QED  BY <1>0, <4>1
    <3>3. CASE PutCompletion(t)
      <4>1. /\ sendreq'.bytes_delivered = sendreq.bytes_delivered + 1
            /\ sendreq'.complete = sendreq.complete
        BY <1>0, <3>3 DEF PutCompletion, SendReq
      <4>. QED  BY <1>0, <4>1
    <3>4. CASE RgetDelivered(t)
      <4>1. /\ sendreq'.bytes_delivered = sendreq.bytes_delivered + Length
            /\ sendreq'.complete = sendreq.complete
        BY <1>0, <3>4 DEF RgetDelivered, SendReq
      <4>. QED  BY <1>0, <4>1
    <3>. QED  BY <2>3, <3>1, <3>2, <3>3, <3>4
  <2>4. CASE \/ RecvAck(t) \/ AckState(t) \/ SendSchedule(t) \/ SendFrag(t) \/ FragSent(t)
             \/ SendPutOff(t) \/ SendStop(t) \/ SendUnlock(t) \/ SendPending(t) \/ Fallback(t)
    <3>1. /\ sendreq'.bytes_delivered = sendreq.bytes_delivered
          /\ sendreq'.complete = sendreq.complete
      BY <1>0, <2>4
         DEF RecvAck, AckState, SendSchedule, SendFrag, FragSent, SendPutOff,
             SendStop, SendUnlock, SendPending, Fallback, Locked, Unlocked, PutOff, SendReq
    <3>. QED  BY <1>0, <3>1
  <2>. QED  BY <2>1, <2>2, <2>3, <2>4 DEF SendEvent, SendStep
<1>3. sendreq'.bytes_delivered \in Int
  BY <1>0 DEF SendReq
<1>. QED  BY <1>0, <1>1, <1>2, <1>3 DEF SendComplete

LEMMA SentInvNext == SentInv /\ WayInv' /\ ReceivedInv' /\ [Next]_vars => SentInv'
<1>. SUFFICES ASSUME SentInv, WayInv', ReceivedInv', [Next]_vars PROVE SentInv'
  OBVIOUS
<1>0. ReceivedInv /\ Mode /\ Sent /\ SendComplete /\ WayInv /\ Told
  BY DEF SentInv, ReceivedInv
<1>1. Mode'
  BY <1>0, ModeNext
<1>2. Sent' /\ SendComplete'
  <2>1. CASE UNCHANGED vars
    BY <1>0, <2>1 DEF vars, sendVars, recvVars, Sent, SendComplete, Delivered, Gone, Copied,
       Seen, Fetched, RndvDue, FragDue, ViaFrag, InNetwork
  <2>2. ASSUME NEW t \in Context, SendEvent(t) \/ SendStep(t) PROVE Sent' /\ SendComplete'
    BY <1>0, <2>2, SentSend, SendCompleteSend
  <2>3. ASSUME NEW t \in Context, RecvEvent(t) \/ RecvStep(t) PROVE Sent' /\ SendComplete'
    <3>1. sendreq' = sendreq
      BY <2>3, RecvSendSame
    <3>. QED  BY <1>0, <2>3, <3>1, SentRecv DEF SendComplete
  <2>. QED  BY <2>1, <2>2, <2>3 DEF Next
<1>. QED  BY <1>1, <1>2 DEF SentInv

THEOREM SentInvariant == Spec => []SentInv
<1>1. Init => SentInv
  <2>1. Init => SendComplete
    BY DEF Init, SendComplete
  <2>. QED  BY <2>1, ReceivedInvInit, ModeInit, SentInit DEF SentInv
<1>2. SentInv /\ WayInv' /\ ReceivedInv' /\ [Next]_vars => SentInv'
  BY SentInvNext
<1>. QED  BY <1>1, <1>2, WayInvariant, ReceivedInvariant, PTL DEF Spec

\* All the bytes are counted: nothing is under way from the sender's buffer.
LEMMA AllGone ==
    ASSUME SentInv, sendreq.complete > 0
    PROVE  BufferFreeOnComplete
<1>0. /\ WayInv /\ Told /\ sendreq.state = 0 /\ Mode
      /\ sendreq.bytes_delivered \in Int /\ eager \in 0..Length
      /\ network \subseteq Header /\ due \subseteq Completion
      /\ rdma_pending \subseteq [offset : Frag, retries : Nat]
      /\ recvreq \in RecvReq
  BY DEF SentInv, ReceivedInv, SendComplete, WayInv, HandInv, Types, SendReq
<1>1. \A b \in Frag : Gone(b)
  <2>1. sendreq.bytes_delivered >= Length /\ sendreq.bytes_delivered = Cardinality(Delivered)
    BY DEF SentInv, SendComplete, Sent
  <2>2. Delivered = Frag
    BY <1>0, <2>1, DeliveredIs
  <2>. QED  BY <2>2 DEF Delivered
<1>2. 0 \in Frag
  BY DEF Frag
<1>3. ASSUME RndvData, RndvAck
      PROVE  /\ \A b \in Frag : ~FragDue(b) /\ (Seen(b) \/ ViaRndv(b))
             /\ ~RndvDue /\ ~AckNet /\ recvreq.get = "none" /\ recvreq.match_received
  <2>1. ~RndvDue /\ ~AckNet /\ recvreq.ack_sent
    BY <1>0, <1>3 DEF RndvAck, Is, RecvReq
  <2>2. recvreq.get = "none" /\ recvreq.match_received
    BY <1>3, <2>1 DEF RndvData, RndvAck
  <2>3. ASSUME NEW b \in Frag PROVE ~FragDue(b) /\ (Seen(b) \/ ViaRndv(b))
    <3>1. CASE b < eager
      BY <1>0, <1>3, <2>2, <3>1 DEF RndvData, Seen, Frag
    <3>2. CASE ~(b < eager)
      BY <1>1, <2>2, <3>2 DEF Gone, Copied, Fetched
    <3>. QED  BY <3>1, <3>2
  <2>. QED  BY <2>1, <2>2, <2>3
<1>4. ASSUME RgetMode
      PROVE  /\ \A b \in Frag : ~FragDue(b) /\ Seen(b)
             /\ ~RndvDue /\ recvreq.get \in {"none", "done"} /\ recvreq.match_received
  <2>1. \A b \in Frag : Copied(b) \/ Fetched
    BY <1>1, <1>4 DEF Gone, RgetMode, Frag
  <2>2. \A b \in Frag : ~FragDue(b) /\ Seen(b)
    BY <1>4, <2>1 DEF Copied, Fetched, RgetMode, Seen
  <2>3. recvreq.get \in {"none", "done"}
    BY <1>2, <2>1 DEF Copied, Fetched
  <2>4. recvreq.match_received
    <3>1. Ways(0) = Is(recvreq.match_received) /\ written[0] \in Nat
      BY <1>0, <1>2 DEF WayInv, OneWay, HandInv, Types
    <3>. QED  BY <1>2, <2>2, <3>1 DEF Seen, Ways, Is
  <2>. QED  BY <1>4, <2>2, <2>3, <2>4 DEF RgetMode, RndvDue
<1>5. /\ \A b \in Frag : ~FragDue(b) /\ (Seen(b) \/ ViaRndv(b))
      /\ ~RndvDue /\ recvreq.get \in {"none", "done"} /\ recvreq.match_received
  BY <1>0, <1>3, <1>4 DEF Mode
<1>6. ASSUME NEW b \in Frag
      PROVE  ~ViaPut(b) /\ ~ViaRetry(b) /\ ~ViaDue(b) /\ ~ViaAck(b) /\ ~ViaSend(b)
  <2>1. Ways(b) = Is(recvreq.match_received) /\ written[b] \in Nat
    BY <1>0 DEF WayInv, OneWay, HandInv, Types
  <2>. QED  BY <1>5, <2>1 DEF Seen, Ways, Is
<1>7. due = {}
  <2>. SUFFICES ASSUME NEW c \in due PROVE FALSE
    OBVIOUS
  <2>1. /\ c = [type |-> c.type, offset |-> c.offset] /\ c.offset \in Frag
        /\ c.type \in {"rndv", "frag", "put"}
    BY <1>0, CompletionMade DEF Completion
  <2>. QED  BY <1>5, <1>6, <2>1 DEF RndvDue, FragDue, ViaDue
<1>8. rdma_pending = {}
  <2>. SUFFICES ASSUME NEW x \in rdma_pending PROVE FALSE
    OBVIOUS
  <2>1. x.offset \in Frag
    BY <1>0
  <2>. QED  BY <1>6, <2>1 DEF ViaRetry
<1>9. ToSend = <<>>
  <2>1. ToSend \in FragSeq
    BY <1>0, ToSendIs DEF WayInv
  <2>2. ASSUME ToSend # <<>> PROVE FALSE
    <3>1. Head(ToSend) \in Frag /\ Lists(ToSend, Head(ToSend))
      BY <1>0, <2>1, <2>2, TailLists DEF WayInv, Once
    <3>. QED  BY <1>6, <3>1 DEF ViaSend
  <2>. QED  BY <2>2
<1>10. ASSUME NEW m \in network PROVE m.type \notin {"PUT", "ACK", "RNDV", "RGET"}
  <2>1. m \in Header
    BY <1>0
  <2>2. m.type \notin {"RNDV", "RGET"}
    BY <1>0, <1>5, <2>1, HeaderFields DEF WayInv, Before
  <2>3. m.type # "PUT"
    BY <1>6, <2>1, HeaderFields DEF ViaPut, InNetwork
  <2>4. m.type # "ACK"
    <3>1. CASE RndvData /\ RndvAck
      BY <1>3, <3>1 DEF AckNet, CarriesAck
    <3>2. CASE RgetMode
      <4>1. m.type = "ACK" => m.offset <= 0
        BY <3>2 DEF RgetMode
      <4>. QED  BY <1>2, <1>6, <4>1 DEF ViaAck
    <3>. QED  BY <1>0, <3>1, <3>2 DEF Mode
  <2>. QED  BY <2>2, <2>3, <2>4
<1>. QED  BY <1>5, <1>7, <1>8, <1>9, <1>10 DEF BufferFreeOnComplete

\* A send request that is complete has nothing that still reads the buffer, or
\* will: the bytes of send_request_pml_complete_check() are all counted only when
\* every fragment has gone, and req_state is 0 only when no ACK will come.
THEOREM BufferFreeOnCompleteInvariant == Spec => []BufferFreeOnComplete
<1>1. SentInv => BufferFreeOnComplete
  <2>1. SentInv /\ sendreq.complete > 0 => BufferFreeOnComplete
    BY AllGone
  <2>. QED  BY <2>1 DEF BufferFreeOnComplete
<1>. QED  BY SentInvariant, <1>1, PTL

----------------------------------------------------------------------------
(* What both ends have under way *)

\* What is asked for is beyond what came with the header; and who waits for a
\* transport has waited as often as it failed, at most.
Offsets ==
    /\ recvreq.match_received => eager <= recvreq.rdma_offset
    /\ recvreq.rdma_offset <= recvreq.send_offset
    /\ \A x \in rdma_pending : x.retries < failures

\* All of the message is copied.  Then nothing is asked for, and nothing is sent
\* before the ACK, which says whether to throttle.
CopyOnly == ~recvreq.match_received \/ recvreq.send_offset = eager

CopyAfterAck ==
    /\ ~recvreq.match_received => ~sendreq.recv
    /\ sendreq.recv => \A m \in network : m.type # "ACK"
    /\ CopyOnly => \A b \in Frag : ~ViaPut(b) /\ ~ViaRetry(b)
    /\ CopyOnly /\ ~sendreq.recv =>
         sendreq.ranges = <<>> /\ \A b \in Frag : ~FragDue(b)

Ask(b) == ViaPut(b) \/ FinOk(b) \/ FinFail(b) \/ ViaRetry(b) \/ ViaDue(b)
AskedFrags == {b \in Frag : Ask(b)}
DueFrags == {b \in Frag : FragDue(b)}

\* Both count a fragment after it is sent.
RecvDepth ==
    /\ recvreq.pipeline_depth = Cardinality(AskedFrags) - Is(Asking)
    /\ Cardinality(AskedFrags) <= recv_pipeline_depth

SendDepth ==
    /\ sendreq.pipeline_depth = Cardinality(DueFrags) - Is(Sending)
    /\ sendreq.throttle_sends /\ CopyOnly =>
         Cardinality(DueFrags) <= send_pipeline_depth

DepthInv == SentInv /\ Offsets /\ CopyAfterAck /\ RecvDepth /\ SendDepth

LEMMA DepthsAre ==
    /\ AskedFrags \subseteq Frag /\ DueFrags \subseteq Frag
    /\ Cardinality(AskedFrags) \in 0..Length /\ Cardinality(DueFrags) \in 0..Length
<1>1. AskedFrags \subseteq Frag /\ DueFrags \subseteq Frag
  BY DEF AskedFrags, DueFrags
<1>. QED  BY <1>1, FragSets

\* What is not asked for yet, what is to be sent, and what the receiver is told.
LEMMA AskFacts ==
    ASSUME WayInv, Told, NEW h \in Frag
    PROVE  /\ ViaAsk(h) => ~Ask(h)
           /\ FinOk(h) => ~FinFail(h) /\ ~ViaPut(h) /\ ~ViaRetry(h) /\ ~ViaDue(h)
           /\ FinFail(h) => ~FinOk(h) /\ ~ViaPut(h) /\ ~ViaRetry(h) /\ ~ViaDue(h)
<1>1. Ways(h) = Is(recvreq.match_received) /\ written[h] \in Nat
  BY DEF WayInv, OneWay, HandInv, Types
<1>2. /\ FinOk(h) => written[h] = 1
      /\ FinFail(h) => ~FinOk(h) /\ ~ViaAsk(h) /\ ~ViaPut(h) /\ ~ViaRetry(h) /\ ~ViaDue(h)
  BY DEF Told
<1>3. written[h] = 1 => ~ViaAsk(h) /\ ~ViaPut(h) /\ ~ViaRetry(h) /\ ~ViaDue(h)
  BY <1>1 DEF Ways, Is
<1>4. ViaAsk(h) => ~ViaPut(h) /\ ~ViaRetry(h) /\ ~ViaDue(h)
  BY <1>1 DEF Ways, Is
<1>. QED  BY <1>2, <1>3, <1>4 DEF Ask

FailureCount == failures \in Nat

LEMMA FailuresCounted == WayInv => FailureCount
  BY DEF WayInv, HandInv, Types, FailureCount

LEMMA FailuresGrow ==
    ASSUME WayInv, WayInv', [Next]_vars
    PROVE  failures \in Nat /\ failures' \in Nat /\ failures' >= failures
<1>0. failures \in Nat /\ failures' \in Nat
  <2>1. WayInv' => FailureCount'
    BY FailuresCounted, PTL
  <2>. QED  BY <2>1, FailuresCounted DEF FailureCount
<1>1. failures' = failures \/ Fails
  <2>1. CASE UNCHANGED vars
    BY <2>1 DEF vars
  <2>2. ASSUME NEW t \in Context, SendEvent(t) \/ SendStep(t)
        PROVE  failures' = failures \/ Fails
    BY <2>2 DEF SendEvent, SendStep, SendCheck, RndvCompletion, FragCompletion, PutCompletion,
         RgetDelivered, RecvAck, AckState, SendSchedule, SendFrag, FragSent, SendPutOff,
         SendStop, SendUnlock, SendPending, RecvPut, RetryPut, PutFrag, Fallback
  <2>3. ASSUME NEW t \in Context, RecvEvent(t) \/ RecvStep(t)
        PROVE  failures' = failures \/ Fails
    <3>1. CASE RecvRndv(t)
      <4>1. \/ UNCHANGED failures
            \/ \E r, o, n : SendAck(r, o, n)
        BY <3>1 DEF RecvRndv
      <4>. QED  BY <4>1 DEF SendAck
    <3>2. CASE RecvRget(t) \/ RetryGet(t)
      <4>1. \/ UNCHANGED failures
            \/ \E r, o, n : SendAck(r, o, n)
            \/ \E r : GetFrag(r)
        BY <3>2 DEF RecvRget, RetryGet
      <4>. QED  BY <4>1 DEF SendAck, GetFrag
    <3>. QED
      BY <2>3, <3>1, <3>2 DEF RecvEvent, RecvStep, RgetCompletion, RecvFrag,
         RecvFin, RecvPending, AddEager, RecvCheck, RecvSchedule, AskPut, PutSent,
         AskRefused, RecvPutOff, RecvStop, RecvUnlock
  <2>. QED  BY <2>1, <2>2, <2>3 DEF Next
<1>. QED  BY <1>0, <1>1 DEF Fails

LEMMA OffsetsSend ==
    ASSUME WayInv, WayInv', Offsets, NEW t \in Context, SendEvent(t) \/ SendStep(t)
    PROVE  Offsets'
<1>0. /\ failures' >= failures /\ failures \in Nat /\ failures' \in Nat
      /\ rdma_pending \subseteq [offset : Frag, retries : Nat]
  BY FailuresGrow DEF WayInv, HandInv, Types, Next
<1>1. UNCHANGED <<eager, recvreq, rpc>>
  BY SendRecvSame
<1>2. ASSUME NEW x \in rdma_pending' PROVE x.retries < failures'
  <2>1. CASE x \in rdma_pending
    <3>1. x.retries < failures /\ x.retries \in Nat
      BY <1>0, <2>1 DEF Offsets
    <3>. QED  BY <1>0, <3>1
  <2>2. CASE x \notin rdma_pending
    <3>1. RecvPut(t) \/ RetryPut(t)
      <4>1. ~RecvPut(t) /\ ~RetryPut(t) => rdma_pending' = rdma_pending
        BY DEF SendEvent, SendStep, SendCheck, RndvCompletion, FragCompletion, PutCompletion,
         RgetDelivered, RecvAck, AckState, SendSchedule, SendFrag, FragSent, SendPutOff,
         SendStop, SendUnlock, SendPending, Fallback
      <4>. QED  BY <2>2, <4>1
    <3>2. PICK h \in Frag, s \in SendReq, n \in Nat :
            /\ PutFrag(t, s, h, n)
            /\ n = 0 \/ \E y \in rdma_pending : n = y.retries + 1
      BY <3>1, PutFragSplit
    <3>3. /\ x = [offset |-> h, retries |-> n]
          /\ failures' = failures + 1
      BY <2>2, <3>2 DEF PutFrag, GiveUp, PendingWithout, Fails
    <3>4. n < failures + 1
      BY <1>0, <3>2 DEF Offsets
    <3>. QED  BY <3>3, <3>4
  <2>. QED  BY <2>1, <2>2
<1>. QED  BY <1>1, <1>2 DEF Offsets

LEMMA OffsetsRecv ==
    ASSUME WayInv, WayInv', Mode, Offsets, NEW t \in Context, RecvEvent(t) \/ RecvStep(t)
    PROVE  Offsets'
<1>0. /\ failures' >= failures /\ failures \in Nat /\ failures' \in Nat
      /\ rdma_pending \subseteq [offset : Frag, retries : Nat]
      /\ recvreq \in RecvReq /\ eager \in 0..Length
  BY FailuresGrow DEF WayInv, HandInv, Types, Next
<1>1. UNCHANGED <<eager, sendreq, due, rdma_pending, spc>>
  BY RecvSendSame
<1>2. ASSUME NEW x \in rdma_pending' PROVE x.retries < failures'
  BY <1>0, <1>1, <1>2 DEF Offsets
<1>3. /\ recvreq'.match_received => eager <= recvreq'.rdma_offset
      /\ recvreq'.rdma_offset <= recvreq'.send_offset
  <2>1. CASE RecvRndv(t)
    <3>1. PICK offset \in eager..Length, acks \in BOOLEAN :
            recvreq' = [recvreq EXCEPT !.match_received = TRUE, !.rdma_offset = eager,
                                       !.send_offset = offset, !.ack_sent = acks]
      BY <2>1 DEF RecvRndv
    <3>2. recvreq'.rdma_offset = eager /\ recvreq'.send_offset = offset
      BY <1>0, <3>1 DEF RecvReq
    <3>. QED  BY <1>0, <3>2
  <2>2. CASE RecvRget(t)
    <3>1. eager = 0
      <4>1. [type |-> "RGET"].type = "RGET"
        OBVIOUS
      <4>. QED  BY <2>2, <4>1 DEF RecvRget, Mode, RndvData, RgetMode
    <3>2. /\ recvreq'.rdma_offset = recvreq.rdma_offset
          /\ recvreq'.send_offset = recvreq.send_offset
      BY <1>0, <2>2 DEF RecvRget, GetFrag, RecvReq
    <3>. QED  BY <1>0, <3>1, <3>2 DEF Offsets, RecvReq
  <2>3. CASE PutSent(t)
    <3>1. recvreq.rdma_offset < recvreq.send_offset
      BY <2>3 DEF PutSent, WayInv, Once, Asking
    <3>2. /\ recvreq'.rdma_offset = recvreq.rdma_offset + 1
          /\ recvreq'.send_offset = recvreq.send_offset
          /\ recvreq'.match_received = recvreq.match_received
      BY <1>0, <2>3 DEF PutSent, RecvReq
    <3>. QED  BY <1>0, <3>1, <3>2 DEF Offsets, RecvReq
  <2>4. CASE \/ RetryGet(t) \/ RgetCompletion(t) \/ RecvFrag(t) \/ RecvFin(t) \/ RecvPending(t)
             \/ AddEager(t) \/ RecvCheck(t) \/ RecvSchedule(t) \/ AskPut(t)
             \/ AskRefused(t) \/ RecvPutOff(t) \/ RecvStop(t) \/ RecvUnlock(t)
    <3>1. /\ recvreq'.rdma_offset = recvreq.rdma_offset
          /\ recvreq'.send_offset = recvreq.send_offset
          /\ recvreq'.match_received = recvreq.match_received
      BY <1>0, <2>4 DEF RetryGet, RgetCompletion, RecvFrag, RecvFin, RecvPending, AddEager,
         RecvCheck, RecvSchedule, AskPut, AskRefused, RecvPutOff, RecvStop, RecvUnlock,
         GetFrag, Locked, Unlocked, PutOff, RecvReq
    <3>. QED  BY <3>1 DEF Offsets
  <2>. QED  BY <2>1, <2>2, <2>3, <2>4 DEF RecvEvent, RecvStep
<1>. QED  BY <1>1, <1>2, <1>3 DEF Offsets

\* The sender hands on what is asked for, from list to list, until the receiver
\* is told.
LEMMA AskSend ==
    ASSUME WayInv, WayInv', Told, NEW t \in Context, SendEvent(t) \/ SendStep(t),
           NEW b \in Frag
    PROVE  Ask(b)' <=> Ask(b)
<1>1. CASE \/ SendCheck(t) \/ RndvCompletion(t) \/ FragCompletion(t) \/ RgetDelivered(t)
           \/ RecvAck(t) \/ AckState(t) \/ SendSchedule(t) \/ FragSent(t) \/ SendPutOff(t)
           \/ SendStop(t) \/ SendUnlock(t) \/ SendPending(t) \/ Fallback(t)
  BY <1>1, SendCountsSame DEF Ask
<1>2. CASE SendFrag(t)
  <2>1. /\ \A n : n.type \in {"PUT", "FIN"} => (n \in network' <=> n \in network)
        /\ rdma_pending' = rdma_pending
    BY <1>2 DEF SendFrag
  <2>2. ViaDue(b)' <=> ViaDue(b)
    BY <1>2 DEF SendFrag, ViaDue
  <2>. QED  BY <2>1, <2>2, PutsSame, FinsSame DEF Ask, ViaRetry
<1>3. CASE PutCompletion(t)
  <2>1. PICK c \in due :
          /\ c.type = "put"
          /\ due' = due \ {c}
          /\ network' = network \cup {[type |-> "FIN", offset |-> c.offset, fail |-> FALSE]}
    BY <1>3 DEF PutCompletion
  <2>2. c = [type |-> "put", offset |-> c.offset] /\ c.offset \in Frag
    BY <2>1, CompletionMade DEF WayInv, HandInv, Types
  <2>3. PICK h \in Frag :
          /\ [type |-> "put", offset |-> h] \in due
          /\ due' = due \ {[type |-> "put", offset |-> h]}
          /\ network' = network \cup {[type |-> "FIN", offset |-> h, fail |-> FALSE]}
    BY <2>1, <2>2
  <2>4. ViaPut(b)' <=> ViaPut(b)
    <3>1. \A n : n.type = "PUT" => (n \in network' <=> n \in network)
      BY <2>3
    <3>. QED  BY <3>1, PutsSame
  <2>5. ViaRetry(b)' <=> ViaRetry(b)
    BY <1>3 DEF PutCompletion, ViaRetry
  <2>6. /\ FinOk(b)' <=> FinOk(b) \/ b = h
        /\ FinFail(b)' <=> FinFail(b)
        /\ ViaDue(b)' <=> ViaDue(b) /\ b # h
        /\ ViaDue(h)
    <3>1. /\ [type |-> "FIN", offset |-> b, fail |-> FALSE].offset = b
          /\ [type |-> "FIN", offset |-> h, fail |-> FALSE].offset = h
          /\ [type |-> "FIN", offset |-> h, fail |-> FALSE].fail = FALSE
          /\ [type |-> "FIN", offset |-> b, fail |-> TRUE].fail = TRUE
          /\ [type |-> "put", offset |-> b].offset = b
          /\ [type |-> "put", offset |-> h].offset = h
      OBVIOUS
    <3>2. FinOk(b)' <=> FinOk(b) \/ b = h
      BY <2>3, <3>1 DEF FinOk
    <3>3. FinFail(b)' <=> FinFail(b)
      BY <2>3, <3>1 DEF FinFail
    <3>4. ViaDue(h) /\ (ViaDue(b)' <=> ViaDue(b) /\ b # h)
      BY <2>3, <3>1 DEF ViaDue
    <3>. QED  BY <3>2, <3>3, <3>4
  <2>. QED  BY <2>4, <2>5, <2>6 DEF Ask
<1>4. CASE RecvPut(t) \/ RetryPut(t)
  <2>1. PICK h \in Frag, s \in SendReq, n \in Nat :
          (ViaPut(h) \/ ViaRetry(h)) /\ PutFrag(t, s, h, n)
    BY <1>4, PutFragSplit
  <2>2. b = h => Ask(b)'
    <3>1. CASE due' = due \cup {[type |-> "put", offset |-> h]}
      BY <3>1 DEF Ask, ViaDue
    <3>2. CASE rdma_pending' = PendingWithout(h) \cup {[offset |-> h, retries |-> n]}
      <4>1. [offset |-> h, retries |-> n].offset = h
        OBVIOUS
      <4>2. ViaRetry(h)'
        BY <3>2, <4>1 DEF ViaRetry
      <4>. QED  BY <4>2 DEF Ask
    <3>3. CASE network' = WithoutPut(h) \cup {[type |-> "FIN", offset |-> h, fail |-> TRUE]}
      BY <3>3 DEF Ask, FinFail
    <3>. QED  BY <2>1, <3>1, <3>2, <3>3 DEF PutFrag, GiveUp
  <2>3. b # h => (Ask(b)' <=> Ask(b))
    <3>. SUFFICES ASSUME b # h PROVE Ask(b)' <=> Ask(b)
      OBVIOUS
    <3>1. /\ [type |-> "FIN", offset |-> b, fail |-> FALSE].offset = b
          /\ [type |-> "FIN", offset |-> b, fail |-> TRUE].offset = b
          /\ [type |-> "FIN", offset |-> h, fail |-> TRUE].offset = h
          /\ [type |-> "FIN", offset |-> b, fail |-> FALSE].type # "PUT"
          /\ [type |-> "FIN", offset |-> b, fail |-> TRUE].type # "PUT"
          /\ [type |-> "FIN", offset |-> h, fail |-> TRUE].type # "PUT"
          /\ [type |-> "put", offset |-> b].offset = b
          /\ [type |-> "put", offset |-> h].offset = h
          /\ [offset |-> h, retries |-> n].offset = h
      OBVIOUS
    <3>2. \A m : m \in network' <=>
                   \/ m \in network /\ (m.type = "PUT" => m.offset # h)
                   \/ m \in network' /\ m = [type |-> "FIN", offset |-> h, fail |-> TRUE]
      BY <2>1 DEF PutFrag, GiveUp, WithoutPut
    <3>3. /\ FinOk(b)' <=> FinOk(b)
          /\ FinFail(b)' <=> FinFail(b)
      BY <3>1, <3>2 DEF FinOk, FinFail
    <3>4. ViaPut(b)' <=> ViaPut(b)
      BY <3>1, <3>2 DEF ViaPut, InNetwork
    <3>5. ViaDue(b)' <=> ViaDue(b)
      BY <2>1, <3>1 DEF PutFrag, ViaDue
    <3>6. ViaRetry(b)' <=> ViaRetry(b)
      <4>1. \A x : x \in rdma_pending' <=>
                     \/ x \in rdma_pending /\ x.offset # h
                     \/ x \in rdma_pending' /\ x = [offset |-> h, retries |-> n]
        BY <2>1 DEF PutFrag, GiveUp, PendingWithout
      <4>. QED  BY <3>1, <4>1 DEF ViaRetry
    <3>. QED  BY <3>3, <3>4, <3>5, <3>6 DEF Ask
  <2>4. Ask(h)
    BY <2>1 DEF Ask
  <2>. QED  BY <2>2, <2>3, <2>4
<1>. QED  BY <1>1, <1>2, <1>3, <1>4 DEF SendEvent, SendStep

\* What the receiver does to what it asked for.
LEMMA AskRecv ==
    ASSUME WayInv, Told, NEW t \in Context, RecvEvent(t) \/ RecvStep(t),
           ~AskPut(t), ~RecvFin(t), NEW b \in Frag
    PROVE  Ask(b)' <=> Ask(b)
<1>1. UNCHANGED <<eager, sendreq, due, rdma_pending, spc>>
  BY RecvSendSame
<1>2. \A m : m.type \in {"PUT", "FIN"} => (m \in network' <=> m \in network)
  <2>1. CASE RecvRndv(t)
    <3>1. PICK o : \/ network' = network \ {[type |-> "RNDV"]}
                   \/ \E x : SendAck(network \ {[type |-> "RNDV"]}, o, x)
      BY <2>1 DEF RecvRndv
    <3>. QED  BY <3>1 DEF SendAck
  <2>2. CASE RecvRget(t)
    <3>1. \/ network' = network \ {[type |-> "RGET"]}
          \/ SendAck(network \ {[type |-> "RGET"]}, 0, TRUE)
      BY <2>2 DEF RecvRget
    <3>. QED  BY <3>1 DEF SendAck
  <2>3. CASE RgetCompletion(t) \/ RecvFrag(t)
    <3>1. CASE RgetCompletion(t)
      BY <3>1 DEF RgetCompletion
    <3>2. CASE RecvFrag(t)
      BY <3>2 DEF RecvFrag
    <3>. QED  BY <2>3, <3>1, <3>2
  <2>4. CASE \/ RetryGet(t) \/ RecvPending(t) \/ AddEager(t) \/ RecvCheck(t)
             \/ RecvSchedule(t) \/ PutSent(t) \/ AskRefused(t) \/ RecvPutOff(t)
             \/ RecvStop(t) \/ RecvUnlock(t)
    <3>1. network' = network
      BY <2>4 DEF RetryGet, RecvPending, AddEager, RecvCheck, RecvSchedule, PutSent,
                  AskRefused, RecvPutOff, RecvStop, RecvUnlock
    <3>. QED  BY <3>1
  <2>. QED  BY <2>1, <2>2, <2>3, <2>4 DEF RecvEvent, RecvStep
<1>. QED  BY <1>1, <1>2, PutsSame, FinsSame DEF Ask, ViaRetry, ViaDue

LEMMA RecvDepthSame ==
    ASSUME RecvDepth, recvreq'.pipeline_depth = recvreq.pipeline_depth,
           Asking' <=> Asking, \A b \in Frag : Ask(b)' <=> Ask(b)
    PROVE  RecvDepth'
<1>1. AskedFrags' = AskedFrags
  BY DEF AskedFrags
<1>. QED  BY <1>1 DEF RecvDepth, Is

LEMMA RecvDepthSend ==
    ASSUME WayInv, WayInv', Told, RecvDepth, NEW t \in Context, SendEvent(t) \/ SendStep(t)
    PROVE  RecvDepth'
<1>1. UNCHANGED <<eager, recvreq, rpc>>
  BY SendRecvSame
<1>. QED  BY <1>1, AskSend, RecvDepthSame DEF Asking

LEMMA RecvDepthRecv ==
    ASSUME WayInv, Told, RecvDepth, NEW t \in Context, RecvEvent(t) \/ RecvStep(t)
    PROVE  RecvDepth'
<1>0. /\ recvreq \in RecvReq /\ rpc \in [Context -> RecvPc] /\ network \subseteq Header
      /\ recvreq.pipeline_depth \in Int
  BY DEF WayInv, HandInv, Types, RecvReq
<1>1. UNCHANGED <<eager, sendreq, due, rdma_pending, spc>>
  BY RecvSendSame
<1>2. CASE AskPut(t)
  <2>. DEFINE h == recvreq.rdma_offset
  <2>1. /\ rpc[t] = "once" /\ MayAsk(recvreq)
        /\ network' = network \cup {[type |-> "PUT", offset |-> h, ack |-> ~recvreq.ack_sent]}
        /\ recvreq'.pipeline_depth = recvreq.pipeline_depth
    BY <1>0, <1>2 DEF AskPut, RecvReq
  <2>2. ~Asking /\ Asking'
    <3>1. ~Asking
      BY <2>1 DEF WayInv, HandInv, Hands, Hand, Busy, Asking
    <3>. QED  BY <1>0, <1>2, <3>1 DEF AskPut, RecvGoto, Asking
  <2>3. h \in Frag /\ ViaAsk(h)
    BY <1>0, <2>1, <2>2 DEF MayAsk, RecvReq, Frag, ViaAsk, Is
  <2>4. recvreq.pipeline_depth < recv_pipeline_depth
    BY <2>1 DEF MayAsk, Below
  <2>. HIDE DEF h
  <2>5. ASSUME NEW b \in Frag PROVE Ask(b)' <=> Ask(b) \/ b = h
    <3>. DEFINE p == [type |-> "PUT", offset |-> h, ack |-> ~recvreq.ack_sent]
    <3>1. p.type = "PUT" /\ p.offset = h
      OBVIOUS
    <3>2. \A m : m \in network' <=> m \in network \/ m = p
      BY <2>1
    <3>. HIDE DEF p
    <3>3. ViaPut(b)' => ViaPut(b) \/ b = h
      BY <3>1, <3>2 DEF ViaPut, InNetwork
    <3>4. ViaPut(b) => ViaPut(b)'
      BY <3>2 DEF ViaPut, InNetwork
    <3>5. b = h => ViaPut(b)'
      BY <3>1, <3>2 DEF ViaPut, InNetwork
    <3>6. \A m : m.type = "FIN" => (m \in network' <=> m \in network)
      BY <3>1, <3>2
    <3>7. /\ FinOk(b)' <=> FinOk(b)
          /\ FinFail(b)' <=> FinFail(b)
      BY <3>6, FinsSame
    <3>8. /\ ViaRetry(b)' <=> ViaRetry(b)
          /\ ViaDue(b)' <=> ViaDue(b)
      BY <1>1 DEF ViaRetry, ViaDue
    <3>. QED  BY <3>3, <3>4, <3>5, <3>7, <3>8 DEF Ask
  <2>6. ~Ask(h)
    BY <2>3, AskFacts
  <2>7. Cardinality(AskedFrags') = Cardinality(AskedFrags) + 1
    <3>1. /\ AskedFrags \subseteq Frag /\ AskedFrags' \subseteq Frag /\ h \notin AskedFrags
          /\ \A b \in Frag : b \in AskedFrags' <=> b \in AskedFrags \/ b = h
      BY <2>5, <2>6 DEF AskedFrags
    <3>. QED  BY <2>3, <3>1, OneMore DEF Is
  <2>. QED  BY <1>0, <2>1, <2>2, <2>4, <2>7, DepthsAre DEF RecvDepth, Is
<1>3. CASE RecvFin(t)
  <2>1. PICK m \in network :
          /\ m.type = "FIN" /\ network' = network \ {m}
          /\ recvreq' = [recvreq EXCEPT !.pipeline_depth = @ - 1,
                                        !.bytes_received = @ + BytesOf(m)]
    BY <1>3 DEF RecvFin
  <2>2. PICK h \in Frag, f \in BOOLEAN : m = [type |-> "FIN", offset |-> h, fail |-> f]
    BY <1>0, <2>1, HeaderFields
  <2>3. recvreq'.pipeline_depth = recvreq.pipeline_depth - 1
    BY <1>0, <2>1 DEF RecvReq
  <2>4. Asking' <=> Asking
    BY <1>0, <1>3 DEF RecvFin, RecvGoto, Asking
  <2>5. ASSUME NEW b \in Frag PROVE Ask(b) <=> Ask(b)' \/ b = h
    <3>1. /\ FinOk(b)' <=> FinOk(b) /\ ~(b = h /\ f = FALSE)
          /\ FinFail(b)' <=> FinFail(b) /\ ~(b = h /\ f = TRUE)
      <4>1. /\ m.offset = h /\ m.fail = f
            /\ [type |-> "FIN", offset |-> b, fail |-> FALSE].offset = b
            /\ [type |-> "FIN", offset |-> b, fail |-> TRUE].offset = b
            /\ [type |-> "FIN", offset |-> b, fail |-> FALSE].fail = FALSE
            /\ [type |-> "FIN", offset |-> b, fail |-> TRUE].fail = TRUE
        BY <2>2
      <4>. QED  BY <2>1, <2>2, <4>1 DEF FinOk, FinFail
    <3>2. (f = FALSE => FinOk(h)) /\ (f = TRUE => FinFail(h))
      BY <2>1, <2>2 DEF FinOk, FinFail
    <3>3. /\ ViaRetry(b)' <=> ViaRetry(b)
          /\ ViaDue(b)' <=> ViaDue(b)
      BY <1>1 DEF ViaRetry, ViaDue
    <3>4. ViaPut(b)' <=> ViaPut(b)
      <4>1. \A n : n.type = "PUT" => (n \in network' <=> n \in network)
        BY <2>1
      <4>. QED  BY <4>1, PutsSame
    <3>. QED  BY <3>1, <3>2, <3>3, <3>4 DEF Ask
  <2>6. ~Ask(h)'
    <3>1. /\ FinOk(h) => ~FinFail(h) /\ ~ViaPut(h) /\ ~ViaRetry(h) /\ ~ViaDue(h)
          /\ FinFail(h) => ~FinOk(h) /\ ~ViaPut(h) /\ ~ViaRetry(h) /\ ~ViaDue(h)
      BY AskFacts
    <3>2. (f = FALSE /\ FinOk(h)) \/ (f = TRUE /\ FinFail(h))
      BY <2>1, <2>2 DEF FinOk, FinFail
    <3>3. ~(f = FALSE /\ FinOk(h)') /\ ~(f = TRUE /\ FinFail(h)')
      BY <2>1, <2>2 DEF FinOk, FinFail
    <3>4. (FinOk(h)' => FinOk(h)) /\ (FinFail(h)' => FinFail(h))
      BY <2>1 DEF FinOk, FinFail
    <3>5. /\ ViaRetry(h)' <=> ViaRetry(h)
          /\ ViaDue(h)' <=> ViaDue(h)
      BY <1>1 DEF ViaRetry, ViaDue
    <3>6. ViaPut(h)' => ViaPut(h)
      BY <2>1 DEF ViaPut, InNetwork
    <3>. QED  BY <3>1, <3>2, <3>3, <3>4, <3>5, <3>6 DEF Ask
  <2>7. Cardinality(AskedFrags) = Cardinality(AskedFrags') + 1
    <3>1. /\ AskedFrags \subseteq Frag /\ AskedFrags' \subseteq Frag /\ h \notin AskedFrags'
          /\ \A b \in Frag : b \in AskedFrags <=> b \in AskedFrags' \/ b = h
      BY <2>5, <2>6 DEF AskedFrags
    <3>. QED  BY <3>1, OneMore DEF Is
  <2>8. Cardinality(AskedFrags') \in Int
    <3>1. AskedFrags' \subseteq Frag
      BY DEF AskedFrags
    <3>. QED  BY <3>1, FragSets
  <2>. QED  BY <1>0, <2>3, <2>4, <2>7, <2>8, DepthsAre DEF RecvDepth, Is
<1>4. CASE PutSent(t)
  <2>1. Asking /\ ~Asking'
    <3>1. \A u \in Context : rpc[u] = "sent" => u = t
      BY <1>4 DEF WayInv, HandInv, Hands, Hand, Busy, PutSent
    <3>. QED  BY <1>0, <1>4, <3>1 DEF PutSent, RecvGoto, Asking
  <2>2. recvreq'.pipeline_depth = recvreq.pipeline_depth + 1
    BY <1>0, <1>4 DEF PutSent, RecvReq
  <2>3. \A b \in Frag : Ask(b)' <=> Ask(b)
    <3>1. ~AskPut(t) /\ ~RecvFin(t)
      BY <1>4 DEF PutSent, AskPut, RecvFin
    <3>. QED  BY <3>1, AskRecv
  <2>4. AskedFrags' = AskedFrags
    BY <2>3 DEF AskedFrags
  <2>. QED  BY <1>0, <2>1, <2>2, <2>4, DepthsAre DEF RecvDepth, Is
<1>5. CASE \/ RecvRndv(t) \/ RecvRget(t) \/ RetryGet(t) \/ RgetCompletion(t) \/ RecvFrag(t)
           \/ RecvPending(t) \/ AddEager(t) \/ RecvCheck(t) \/ RecvSchedule(t)
           \/ AskRefused(t) \/ RecvPutOff(t) \/ RecvStop(t) \/ RecvUnlock(t)
  <2>1. recvreq'.pipeline_depth = recvreq.pipeline_depth
    BY <1>0, <1>5 DEF RecvRndv, RecvRget, RetryGet, RgetCompletion, RecvFrag,
         RecvPending, AddEager, RecvCheck, RecvSchedule,
         AskRefused, RecvPutOff, RecvStop, RecvUnlock, GetFrag, Locked, Unlocked, PutOff, RecvReq
  <2>2. \A u \in Context : rpc'[u] = "sent" <=> rpc[u] = "sent"
    BY <1>0, <1>5 DEF RecvRndv, RecvRget, RetryGet, RgetCompletion, RecvFrag,
         RecvPending, AddEager, RecvCheck, RecvSchedule,
         AskRefused, RecvPutOff, RecvStop, RecvUnlock, RecvGoto
  <2>3. \A b \in Frag : Ask(b)' <=> Ask(b)
    <3>1. CASE AskPut(t)
      BY <1>2, <3>1, <2>1, <2>2, <1>0, <1>5 DEF AskPut, RecvGoto
    <3>2. CASE RecvFin(t)
      BY <1>5, <2>1, <3>2, <1>0 DEF RecvFin, RecvReq
    <3>3. CASE ~AskPut(t) /\ ~RecvFin(t)
      BY <3>3, AskRecv
    <3>. QED  BY <3>1, <3>2, <3>3
  <2>. QED  BY <2>1, <2>2, <2>3, RecvDepthSame DEF Asking
<1>. QED  BY <1>2, <1>3, <1>4, <1>5 DEF RecvEvent, RecvStep

LEMMA CopySend ==
    ASSUME WayInv, WayInv', Told, CopyAfterAck, NEW t \in Context, SendEvent(t) \/ SendStep(t)
    PROVE  CopyAfterAck'
<1>0. sendreq \in SendReq
  BY DEF WayInv, HandInv, Types
<1>1. UNCHANGED <<eager, recvreq, rpc>> /\ (CopyOnly' <=> CopyOnly)
  BY SendRecvSame DEF CopyOnly
<1>2. \A m \in network' : m.type = "ACK" => m \in network
  BY SendNetwork
<1>3. CASE RecvPut(t) \/ RetryPut(t)
  <2>1. PICK h \in Frag, s \in SendReq, n \in Nat :
          /\ ViaPut(h) \/ ViaRetry(h)
          /\ PutFrag(t, s, h, n)
          /\ s = sendreq \/ s = [sendreq EXCEPT !.state = @ - 1]
    BY <1>3, PutFragSplit
  <2>2. ~CopyOnly
    BY <2>1 DEF CopyAfterAck
  <2>3. sendreq'.recv = sendreq.recv
    BY <1>0, <2>1 DEF PutFrag, GiveUp, SendReq
  <2>. QED  BY <1>1, <1>2, <2>2, <2>3 DEF CopyAfterAck, CopyOnly
<1>4. CASE RecvAck(t)
  <2>1. PICK m \in network : m.type = "ACK" /\ network' = network \ {m}
    BY <1>4 DEF RecvAck
  <2>2. recvreq.match_received
    BY <2>1 DEF WayInv, Before
  <2>3. sendreq'.recv = TRUE
    BY <1>0, <1>4 DEF RecvAck, SendReq
  <2>4. \A n \in network' : n.type # "ACK"
    BY <2>1 DEF WayInv, Once
  <2>5. \A b : /\ ViaPut(b)' <=> ViaPut(b)
               /\ ViaRetry(b)' <=> ViaRetry(b)
    BY <1>4, SendCountsSame
  <2>. QED  BY <1>1, <2>2, <2>3, <2>4, <2>5 DEF CopyAfterAck
<1>5. CASE SendFrag(t)
  <2>1. /\ UNCHANGED <<sendreq, rdma_pending>> /\ sendreq.ranges # <<>>
        /\ \A m : m.type = "PUT" => (m \in network' <=> m \in network)
    BY <1>5 DEF SendFrag, MaySend
  <2>2. \A b : /\ ViaPut(b)' <=> ViaPut(b)
               /\ ViaRetry(b)' <=> ViaRetry(b)
    BY <2>1, PutsSame DEF ViaRetry
  <2>. QED  BY <1>1, <1>2, <2>1, <2>2 DEF CopyAfterAck
<1>6. CASE PutCompletion(t)
  <2>1. sendreq'.recv = sendreq.recv /\ sendreq'.ranges = sendreq.ranges
        /\ rdma_pending' = rdma_pending
    BY <1>0, <1>6 DEF PutCompletion, SendReq
  <2>2. \A m : m.type = "PUT" => (m \in network' <=> m \in network)
    BY <1>6 DEF PutCompletion
  <2>3. \A b : /\ ViaPut(b)' <=> ViaPut(b)
               /\ ViaRetry(b)' <=> ViaRetry(b)
    BY <2>1, <2>2, PutsSame DEF ViaRetry
  <2>4. \A b : FragDue(b)' => FragDue(b)
    BY <1>6 DEF PutCompletion, FragDue
  <2>. QED  BY <1>1, <1>2, <2>1, <2>3, <2>4 DEF CopyAfterAck
<1>7. CASE FragSent(t)
  <2>1. sendreq.ranges # <<>>
    BY <1>7 DEF FragSent, WayInv, HandInv, SentHasRanges
  <2>2. sendreq'.recv = sendreq.recv
    BY <1>0, <1>7 DEF FragSent, SendReq
  <2>3. \A b : /\ ViaPut(b)' <=> ViaPut(b)
               /\ ViaRetry(b)' <=> ViaRetry(b)
    BY <1>7, SendCountsSame
  <2>. QED  BY <1>1, <1>2, <2>1, <2>2, <2>3 DEF CopyAfterAck
<1>8. CASE \/ SendCheck(t) \/ RndvCompletion(t) \/ FragCompletion(t) \/ RgetDelivered(t)
           \/ AckState(t) \/ SendSchedule(t) \/ SendPutOff(t)
           \/ SendStop(t) \/ SendUnlock(t) \/ SendPending(t) \/ Fallback(t)
  <2>1. sendreq'.recv = sendreq.recv /\ sendreq'.ranges = sendreq.ranges
    BY <1>0, <1>8 DEF SendCheck, RndvCompletion, FragCompletion, RgetDelivered,
       AckState, SendSchedule, SendPutOff, SendStop, SendUnlock, SendPending, Fallback,
       Locked, Unlocked, PutOff, SendReq
  <2>2. \A b : /\ ViaPut(b)' <=> ViaPut(b)
               /\ ViaRetry(b)' <=> ViaRetry(b)
               /\ FragDue(b)' => FragDue(b)
    BY <1>8, SendCountsSame
  <2>. QED  BY <1>1, <1>2, <2>1, <2>2 DEF CopyAfterAck
<1>. QED  BY <1>3, <1>4, <1>5, <1>6, <1>7, <1>8 DEF SendEvent, SendStep

LEMMA CopyOnlyRecv ==
    ASSUME WayInv, NEW t \in Context, RecvEvent(t) \/ RecvStep(t)
    PROVE  /\ CopyOnly' => CopyOnly
           /\ recvreq.match_received => recvreq'.match_received
<1>0. recvreq \in RecvReq
  BY DEF WayInv, HandInv, Types
<1>1. UNCHANGED <<eager, sendreq, due, rdma_pending, spc>>
  BY RecvSendSame
<1>2. CASE RecvRndv(t) \/ RecvRget(t)
  <2>1. ~recvreq.match_received
    BY <1>2 DEF WayInv, Before, RecvRndv, RecvRget
  <2>. QED  BY <2>1 DEF CopyOnly
<1>3. CASE ~RecvRndv(t) /\ ~RecvRget(t)
  <2>1. /\ recvreq'.send_offset = recvreq.send_offset
        /\ recvreq'.match_received = recvreq.match_received
    BY <1>0, <1>3
       DEF RecvEvent, RecvStep, RetryGet, RgetCompletion, RecvFrag, RecvFin,
           RecvPending, AddEager, RecvCheck, RecvSchedule, AskPut, PutSent, AskRefused,
           RecvPutOff, RecvStop, RecvUnlock, GetFrag, Locked, Unlocked, PutOff, RecvReq
  <2>. QED  BY <1>1, <2>1 DEF CopyOnly
<1>. QED  BY <1>2, <1>3

LEMMA CopyRecv ==
    ASSUME WayInv, WayInv', Told, Offsets, CopyAfterAck, NEW t \in Context,
           RecvEvent(t) \/ RecvStep(t)
    PROVE  CopyAfterAck'
<1>0. recvreq \in RecvReq /\ eager \in 0..Length
  BY DEF WayInv, HandInv, Types
<1>1. UNCHANGED <<eager, sendreq, due, rdma_pending, spc>>
  BY RecvSendSame
<1>2. /\ CopyOnly' => CopyOnly
      /\ recvreq.match_received => recvreq'.match_received
  BY CopyOnlyRecv
<1>3. \A b : /\ FragDue(b)' <=> FragDue(b)
             /\ ViaRetry(b)' <=> ViaRetry(b)
  BY <1>1 DEF FragDue, ViaRetry
<1>4. CASE AskPut(t)
  <2>1. /\ recvreq.rdma_offset < recvreq.send_offset
        /\ recvreq'.send_offset = recvreq.send_offset
        /\ recvreq.match_received /\ recvreq'.match_received
    <3>1. ~RecvRndv(t) /\ ~RecvRget(t)
      BY <1>4 DEF AskPut, RecvRndv, RecvRget
    <3>2. recvreq.match_received
      BY <3>1, RecvMatched
    <3>. QED  BY <1>0, <1>4, <3>2 DEF AskPut, MayAsk, RecvReq
  <2>2. ~CopyOnly'
    BY <1>0, <1>1, <2>1 DEF CopyOnly, Offsets, RecvReq
  <2>3. \A m \in network' : m.type = "ACK" => m \in network
    BY <1>4 DEF AskPut
  <2>. QED  BY <1>1, <2>1, <2>2, <2>3 DEF CopyAfterAck
<1>5. CASE ~AskPut(t)
  <2>1. \A m \in network' : \/ m \in network
                            \/ m.type = "FINGET"
                            \/ m.type = "ACK" /\ ~recvreq.match_received
    <3>1. CASE RecvRndv(t) \/ RecvRget(t)
      <4>1. ~recvreq.match_received
        BY <3>1 DEF WayInv, Before, RecvRndv, RecvRget
      <4>2. CASE RecvRndv(t)
        <5>1. PICK o : \/ network' = network \ {[type |-> "RNDV"]}
                       \/ \E x : SendAck(network \ {[type |-> "RNDV"]}, o, x)
          BY <4>2 DEF RecvRndv
        <5>. QED  BY <4>1, <5>1 DEF SendAck
      <4>3. CASE RecvRget(t)
        <5>1. \/ network' = network \ {[type |-> "RGET"]}
              \/ SendAck(network \ {[type |-> "RGET"]}, 0, TRUE)
          BY <4>3 DEF RecvRget
        <5>. QED  BY <4>1, <5>1 DEF SendAck
      <4>. QED  BY <3>1, <4>2, <4>3
    <3>2. CASE RgetCompletion(t)
      BY <3>2 DEF RgetCompletion
    <3>3. CASE ~RecvRndv(t) /\ ~RecvRget(t) /\ ~RgetCompletion(t)
      <4>1. network' \subseteq network
        BY <1>5, <3>3
           DEF RecvEvent, RecvStep, RetryGet, RecvFrag, RecvFin,
               RecvPending, AddEager, RecvCheck, RecvSchedule, PutSent, AskRefused,
               RecvPutOff, RecvStop, RecvUnlock
      <4>. QED  BY <4>1
    <3>. QED  BY <3>1, <3>2, <3>3
  <2>2. ASSUME NEW b \in Frag, ViaPut(b)' PROVE ViaPut(b)
    BY <2>1, <2>2 DEF ViaPut, InNetwork
  <2>3. sendreq.recv => \A m \in network' : m.type # "ACK"
    BY <2>1 DEF CopyAfterAck
  <2>. QED  BY <1>1, <1>2, <1>3, <2>2, <2>3 DEF CopyAfterAck
<1>. QED  BY <1>4, <1>5

LEMMA SendDepthRecv ==
    ASSUME WayInv, SendDepth, NEW t \in Context, RecvEvent(t) \/ RecvStep(t)
    PROVE  SendDepth'
<1>1. UNCHANGED <<eager, sendreq, due, rdma_pending, spc>>
  BY RecvSendSame
<1>2. DueFrags' = DueFrags /\ (Sending' <=> Sending)
  BY <1>1 DEF DueFrags, FragDue, Sending
<1>3. CopyOnly' => CopyOnly
  BY CopyOnlyRecv
<1>. QED  BY <1>1, <1>2, <1>3 DEF SendDepth, Is

LEMMA SendDepthSend ==
    ASSUME WayInv, WayInv', Told, CopyAfterAck, SendDepth, NEW t \in Context,
           SendEvent(t) \/ SendStep(t)
    PROVE  SendDepth'
<1>0. /\ sendreq \in SendReq /\ spc \in [Context -> SendPc] /\ due \subseteq Completion
      /\ sendreq.pipeline_depth \in Int
  BY DEF WayInv, HandInv, Types, SendReq
<1>1. CopyOnly' <=> CopyOnly
  BY SendRecvSame DEF CopyOnly
<1>2. CASE SendFrag(t)
  <2>1. PICK h \in Frag :
          /\ due' = due \cup {[type |-> "frag", offset |-> h]}
          /\ written[h] = 0 /\ ~ViaFrag(h)
    BY <1>2, SendFragIs
  <2>2. ~Sending /\ Sending'
    <3>1. ~Sending
      BY <1>2 DEF WayInv, HandInv, Hands, Hand, Busy, SendFrag, Sending
    <3>. QED  BY <1>0, <1>2, <3>1 DEF SendFrag, SendGoto, Sending
  <2>3. sendreq' = sendreq /\ MaySend(sendreq)
    BY <1>2 DEF SendFrag
  <2>4. Cardinality(DueFrags') = Cardinality(DueFrags) + 1
    <3>1. ~FragDue(h)
      BY <2>1 DEF Told
    <3>2. ASSUME NEW b \in Frag PROVE FragDue(b)' <=> FragDue(b) \/ b = h
      <4>1. /\ [type |-> "frag", offset |-> h].offset = h
            /\ [type |-> "frag", offset |-> b].offset = b
        OBVIOUS
      <4>. QED  BY <2>1, <4>1 DEF FragDue
    <3>3. /\ DueFrags \subseteq Frag /\ DueFrags' \subseteq Frag /\ h \notin DueFrags
          /\ \A b \in Frag : b \in DueFrags' <=> b \in DueFrags \/ b = h
      BY <3>1, <3>2 DEF DueFrags
    <3>. QED  BY <3>3, OneMore DEF Is
  <2>. QED  BY <1>0, <2>2, <2>3, <2>4, DepthsAre DEF SendDepth, MaySend, Below, Is
<1>3. CASE FragSent(t)
  <2>1. Sending /\ ~Sending'
    <3>1. \A u \in Context : spc[u] = "sent" => u = t
      BY <1>3 DEF WayInv, HandInv, Hands, Hand, Busy, FragSent
    <3>. QED  BY <1>0, <1>3, <3>1 DEF FragSent, SendGoto, Sending
  <2>2. /\ sendreq'.pipeline_depth = sendreq.pipeline_depth + 1
        /\ sendreq'.throttle_sends = sendreq.throttle_sends
    BY <1>0, <1>3 DEF FragSent, SendReq
  <2>3. DueFrags' = DueFrags
    BY <1>3 DEF FragSent, DueFrags, FragDue
  <2>. QED  BY <1>0, <1>1, <2>1, <2>2, <2>3, DepthsAre DEF SendDepth, Is
<1>4. CASE FragCompletion(t)
  <2>1. PICK c \in due : c.type = "frag" /\ due' = due \ {c}
    BY <1>4 DEF FragCompletion
  <2>2. PICK h \in Frag : c = [type |-> "frag", offset |-> h]
    BY <1>0, <2>1, CompletionMade
  <2>3. /\ sendreq'.pipeline_depth = sendreq.pipeline_depth - 1
        /\ sendreq'.throttle_sends = sendreq.throttle_sends
    BY <1>0, <1>4 DEF FragCompletion, SendReq
  <2>4. Sending' <=> Sending
    BY <1>0, <1>4 DEF FragCompletion, SendGoto, Sending
  <2>5. ASSUME NEW b \in Frag PROVE FragDue(b)' <=> FragDue(b) /\ b # h
    <3>1. /\ [type |-> "frag", offset |-> h].offset = h
          /\ [type |-> "frag", offset |-> b].offset = b
      OBVIOUS
    <3>. QED  BY <2>1, <2>2, <3>1 DEF FragDue
  <2>6. FragDue(h)
    BY <2>1, <2>2 DEF FragDue
  <2>7. Cardinality(DueFrags) = Cardinality(DueFrags') + 1
    <3>1. /\ DueFrags \subseteq Frag /\ DueFrags' \subseteq Frag /\ h \notin DueFrags'
          /\ \A b \in Frag : b \in DueFrags <=> b \in DueFrags' \/ b = h
      BY <2>5, <2>6 DEF DueFrags
    <3>. QED  BY <3>1, OneMore DEF Is
  <2>8. Cardinality(DueFrags') \in Int
    <3>1. DueFrags' \subseteq Frag
      BY DEF DueFrags
    <3>. QED  BY <3>1, FragSets
  <2>. QED  BY <1>0, <1>1, <2>3, <2>4, <2>7, <2>8, DepthsAre DEF SendDepth, Is
<1>5. CASE RecvAck(t)
  <2>1. ~sendreq.recv
    BY <1>5 DEF RecvAck, CopyAfterAck
  <2>2. CopyOnly => DueFrags = {}
    BY <2>1 DEF CopyAfterAck, DueFrags
  <2>3. DueFrags' = DueFrags
    BY <1>5 DEF RecvAck, DueFrags, FragDue
  <2>4. DueFrags = {} => Cardinality(DueFrags) = 0
    BY FS_EmptySet
  <2>5. sendreq'.pipeline_depth = sendreq.pipeline_depth
    BY <1>0, <1>5 DEF RecvAck, SendReq
  <2>6. Sending' <=> Sending
    BY <1>0, <1>5 DEF RecvAck, SendGoto, Sending
  <2>. QED  BY <1>1, <2>2, <2>3, <2>4, <2>5, <2>6 DEF SendDepth, Is
<1>6. CASE \/ SendCheck(t) \/ RndvCompletion(t) \/ PutCompletion(t) \/ RgetDelivered(t)
           \/ AckState(t) \/ SendSchedule(t) \/ SendPutOff(t) \/ SendStop(t) \/ SendUnlock(t)
           \/ SendPending(t) \/ Fallback(t) \/ RecvPut(t) \/ RetryPut(t)
  <2>1. \A c : c.type = "frag" => (c \in due' <=> c \in due)
    <3>1. CASE RecvPut(t) \/ RetryPut(t)
      <4>1. PICK h \in Frag, s \in SendReq, n \in Nat : PutFrag(t, s, h, n)
        BY <3>1, PutFragSplit
      <4>. QED  BY <4>1 DEF PutFrag
    <3>2. CASE ~RecvPut(t) /\ ~RetryPut(t)
      <4>1. due' = due \/ \E c \in due : c.type # "frag" /\ due' = due \ {c}
        BY <1>6, <3>2 DEF SendCheck, RndvCompletion, PutCompletion, RgetDelivered,
           AckState, SendSchedule, SendPutOff, SendStop, SendUnlock, SendPending, Fallback
      <4>. QED  BY <4>1
    <3>. QED  BY <3>1, <3>2
  <2>2. DueFrags' = DueFrags
    BY <2>1, FragDuesSame DEF DueFrags
  <2>3. /\ sendreq'.pipeline_depth = sendreq.pipeline_depth
        /\ sendreq'.throttle_sends = sendreq.throttle_sends
    <3>1. CASE RecvPut(t) \/ RetryPut(t)
      <4>1. PICK h \in Frag, s \in SendReq, n \in Nat :
              /\ PutFrag(t, s, h, n)
              /\ s = sendreq \/ s = [sendreq EXCEPT !.state = @ - 1]
        BY <3>1, PutFragSplit
      <4>2. /\ s.pipeline_depth = sendreq.pipeline_depth
            /\ s.throttle_sends = sendreq.throttle_sends
        BY <1>0, <4>1 DEF SendReq
      <4>3. sendreq' = s \/ sendreq' = [s EXCEPT !.ranges = Append(@, h)]
        BY <4>1 DEF PutFrag, GiveUp
      <4>4. /\ sendreq'.pipeline_depth = s.pipeline_depth
            /\ sendreq'.throttle_sends = s.throttle_sends
        BY <4>3 DEF SendReq
      <4>. QED  BY <4>2, <4>4
    <3>2. CASE ~RecvPut(t) /\ ~RetryPut(t)
      BY <1>0, <1>6, <3>2 DEF SendCheck, RndvCompletion, PutCompletion, RgetDelivered,
         AckState, SendSchedule, SendPutOff, SendStop, SendUnlock, SendPending, Fallback,
         Locked, Unlocked, PutOff, SendReq
    <3>. QED  BY <3>1, <3>2
  <2>4. \A u \in Context : spc'[u] = "sent" <=> spc[u] = "sent"
    <3>1. CASE RecvPut(t) \/ RetryPut(t)
      <4>1. PICK h \in Frag, s \in SendReq, n \in Nat : PutFrag(t, s, h, n)
        BY <3>1, PutFragSplit
      <4>2. spc[t] = "idle"
        BY <3>1 DEF RecvPut, RetryPut
      <4>. QED  BY <1>0, <4>1, <4>2 DEF PutFrag, SendGoto
    <3>2. CASE ~RecvPut(t) /\ ~RetryPut(t)
      BY <1>0, <1>6, <3>2 DEF SendCheck, RndvCompletion, PutCompletion, RgetDelivered,
         AckState, SendSchedule, SendPutOff, SendStop, SendUnlock, SendPending, Fallback,
         SendGoto
    <3>. QED  BY <3>1, <3>2
  <2>. QED  BY <1>1, <2>2, <2>3, <2>4 DEF SendDepth, Is, Sending
<1>. QED  BY <1>2, <1>3, <1>4, <1>5, <1>6 DEF SendEvent, SendStep

LEMMA DepthInit == Init => Offsets /\ CopyAfterAck /\ RecvDepth /\ SendDepth
<1>. SUFFICES ASSUME Init PROVE Offsets /\ CopyAfterAck /\ RecvDepth /\ SendDepth
  OBVIOUS
<1>1. /\ \A m \in network : m.type \in {"RNDV", "RGET"}
      /\ \A c \in due : c.type = "rndv"
      /\ rdma_pending = {} /\ eager \in 0..Length
      /\ \A t \in Context : spc[t] = "idle" /\ rpc[t] = "idle"
  BY DEF Init
<1>2. \A b \in Frag : ~Ask(b) /\ ~FragDue(b)
  BY <1>1 DEF Ask, ViaPut, InNetwork, FinOk, FinFail, ViaRetry, ViaDue, FragDue
<1>3. AskedFrags = {} /\ DueFrags = {}
  BY <1>2 DEF AskedFrags, DueFrags
<1>4. Cardinality(AskedFrags) = 0 /\ Cardinality(DueFrags) = 0
  BY <1>3, FS_EmptySet
<1>5. Offsets
  BY <1>1 DEF Init, Offsets
<1>6. CopyAfterAck
  BY <1>2 DEF Init, CopyAfterAck, Ask
<1>7. /\ recvreq.pipeline_depth = 0 /\ sendreq.pipeline_depth = 0
      /\ sendreq.throttle_sends = FALSE
  BY DEF Init
<1>8. Is(Asking) = 0 /\ Is(Sending) = 0
  BY <1>1 DEF Asking, Sending, Is
<1>9. RecvDepth
  <2>1. recvreq.pipeline_depth = Cardinality(AskedFrags) - Is(Asking)
    BY <1>4, <1>7, <1>8
  <2>2. Cardinality(AskedFrags) <= recv_pipeline_depth
    BY <1>4
  <2>. QED  BY <2>1, <2>2 DEF RecvDepth
<1>10. SendDepth
  <2>1. sendreq.pipeline_depth = Cardinality(DueFrags) - Is(Sending)
    BY <1>4, <1>7, <1>8
  <2>. QED  BY <1>7, <2>1 DEF SendDepth
<1>. QED  BY <1>5, <1>6, <1>9, <1>10

LEMMA DepthInvNext == DepthInv /\ WayInv' /\ SentInv' /\ [Next]_vars => DepthInv'
<1>. SUFFICES ASSUME DepthInv, WayInv', SentInv', [Next]_vars PROVE DepthInv'
  OBVIOUS
<1>0. WayInv /\ Told /\ Mode /\ Offsets /\ CopyAfterAck /\ RecvDepth /\ SendDepth
  BY DEF DepthInv, SentInv, ReceivedInv
<1>1. CASE UNCHANGED vars
  BY <1>0, <1>1 DEF vars, sendVars, recvVars, DepthInv, Offsets, CopyAfterAck, RecvDepth,
     SendDepth, CopyOnly, AskedFrags, DueFrags, Ask, ViaPut, InNetwork, FinOk, FinFail,
     ViaRetry, ViaDue, FragDue, Asking, Sending
<1>2. ASSUME NEW t \in Context, SendEvent(t) \/ SendStep(t) PROVE DepthInv'
  BY <1>0, <1>2, OffsetsSend, CopySend, RecvDepthSend, SendDepthSend DEF DepthInv
<1>3. ASSUME NEW t \in Context, RecvEvent(t) \/ RecvStep(t) PROVE DepthInv'
  BY <1>0, <1>3, OffsetsRecv, CopyRecv, RecvDepthRecv, SendDepthRecv DEF DepthInv
<1>. QED  BY <1>1, <1>2, <1>3 DEF Next

THEOREM DepthInvariant == Spec => []DepthInv
<1>1. Init => DepthInv
  <2>1. Init => SendComplete
    BY DEF Init, SendComplete
  <2>. QED  BY <2>1, ReceivedInvInit, ModeInit, SentInit, DepthInit DEF SentInv, DepthInv
<1>2. DepthInv /\ WayInv' /\ SentInv' /\ [Next]_vars => DepthInv'
  BY DepthInvNext
<1>. QED  BY <1>1, <1>2, WayInvariant, SentInvariant, PTL DEF Spec

\* What is asked for by name is what PipelineBounded counts.
LEMMA AskedIs ==
    ASSUME WayInv
    PROVE  Asked = AskedFrags
<1>. SUFFICES ASSUME NEW b \in Frag PROVE Ask(b) <=> b \in Asked
  BY DEF Asked, AskedFrags
<1>1. InNetwork("FIN", b) <=> FinOk(b) \/ FinFail(b)
  <2>1. ASSUME NEW m \in network, m.type = "FIN", m.offset = b PROVE FinOk(b) \/ FinFail(b)
    <3>1. m = [type |-> "FIN", offset |-> b, fail |-> m.fail] /\ m.fail \in BOOLEAN
      BY <2>1, HeaderFields DEF WayInv, HandInv, Types
    <3>. QED  BY <3>1 DEF FinOk, FinFail
  <2>2. /\ [type |-> "FIN", offset |-> b, fail |-> FALSE].type = "FIN"
        /\ [type |-> "FIN", offset |-> b, fail |-> TRUE].type = "FIN"
        /\ [type |-> "FIN", offset |-> b, fail |-> FALSE].offset = b
        /\ [type |-> "FIN", offset |-> b, fail |-> TRUE].offset = b
    OBVIOUS
  <2>3. FinOk(b) \/ FinFail(b) => InNetwork("FIN", b)
    BY <2>2 DEF FinOk, FinFail, InNetwork
  <2>. QED  BY <2>1, <2>3 DEF InNetwork
<1>. QED  BY <1>1 DEF Ask, Asked, ViaPut, ViaRetry, ViaDue

LEMMA DueFragsCount ==
    ASSUME WayInv
    PROVE  Cardinality({c \in due : c.type = "frag"}) = Cardinality(DueFrags)
<1>. DEFINE S == {c \in due : c.type = "frag"}
            f == [b \in DueFrags |-> [type |-> "frag", offset |-> b]]
<1>1. IsFiniteSet(DueFrags)
  BY DepthsAre, FragSets
<1>2. f \in Bijection(DueFrags, S)
  <2>1. \A b \in DueFrags : f[b] \in S /\ f[b].offset = b
    BY DEF DueFrags, FragDue
  <2>2. ASSUME NEW c \in S PROVE \E b \in DueFrags : f[b] = c
    <3>1. c = [type |-> "frag", offset |-> c.offset] /\ c.offset \in Frag
      BY CompletionMade DEF WayInv, HandInv, Types
    <3>2. c.offset \in DueFrags
      BY <3>1 DEF DueFrags, FragDue
    <3>. QED  BY <3>1, <3>2
  <2>3. f \in [DueFrags -> S]
    BY <2>1
  <2>. HIDE DEF S, f
  <2>4. \A b, c \in DueFrags : f[b] = f[c] => b = c
    BY <2>1
  <2>. QED  BY <2>2, <2>3, <2>4 DEF Bijection, Injection, Surjection, IsInjective
<1>3. Cardinality(S) = Cardinality(DueFrags)
  <2>. HIDE DEF S, f
  <2>1. ExistsBijection(DueFrags, S)
    BY <1>2 DEF ExistsBijection
  <2>. QED  BY <1>1, <2>1, FS_Bijection
<1>. QED  BY <1>3

\* Neither end has more under way than its pipeline is deep, though both count a
\* fragment only after it was sent (recv_request_schedule_once(),
\* send_request_schedule_once()).
THEOREM PipelineBoundedInvariant == Spec => []PipelineBounded
<1>1. DepthInv => PipelineBounded
  <2>. SUFFICES ASSUME DepthInv PROVE PipelineBounded
    OBVIOUS
  <2>1. WayInv
    BY DEF DepthInv, SentInv, ReceivedInv
  <2>2. Cardinality(Asked) <= recv_pipeline_depth
    BY <2>1, AskedIs DEF DepthInv, RecvDepth
  <2>. QED  BY <2>1, <2>2, DueFragsCount DEF DepthInv, SendDepth, CopyOnly, PipelineBounded
<1>. QED  BY DepthInvariant, <1>1, PTL

\* The variables are what they are said to be; the counters and depths too, which
\* are size_t in the code and go below 0 for a moment at most.
THEOREM TypeCorrect == Spec => []TypeOK
<1>1. DepthInv => TypeOK
  <2>. SUFFICES ASSUME DepthInv PROVE TypeOK
    OBVIOUS
  <2>1. /\ WayInv /\ Types /\ Hands /\ Mode /\ Received /\ Sent /\ Offsets
        /\ RecvDepth /\ SendDepth
    BY DEF DepthInv, SentInv, ReceivedInv, WayInv, HandInv
  <2>2. sendreq \in [state : 0..2, lock : Lock, throttle_sends : BOOLEAN,
                    pipeline_depth : Depth, bytes_delivered : 0..Length,
                    recv : BOOLEAN, ranges : Seq(Frag), pending : BOOLEAN,
                    complete : 0..2]
    <3>1. sendreq.state \in 0..2
      BY <2>1 DEF Mode, RndvAck, RgetMode
    <3>2. sendreq.lock \in Lock /\ sendreq.complete \in 0..2
      BY <2>1 DEF Hands, Hand, Lock
    <3>3. sendreq.pipeline_depth \in Depth
      BY <2>1, DepthsAre DEF SendDepth, Depth, Is
    <3>4. sendreq.bytes_delivered \in 0..Length
      BY <2>1, DeliveredIs DEF Sent
    <3>. QED  BY <2>1, <3>1, <3>2, <3>3, <3>4 DEF Types, SendReq, FragSeq
  <2>3. recvreq \in [lock : Lock, pipeline_depth : Depth, bytes_received : 0..Length,
                    rdma_offset : 0..Length, send_offset : 0..Length,
                    match_received : BOOLEAN, ack_sent : BOOLEAN, pending : BOOLEAN,
                    get : {"none", "pending", "started", "done"}, complete : 0..2]
    <3>1. recvreq.lock \in Lock /\ recvreq.complete \in 0..2
      BY <2>1 DEF Hands, Hand, Lock
    <3>2. recvreq.pipeline_depth \in Depth
      BY <2>1, DepthsAre DEF RecvDepth, Depth, Is
    <3>3. recvreq.bytes_received \in 0..Length
      <4>1. recvreq.bytes_received \in Int
        BY <2>1 DEF Types, RecvReq
      <4>2. Untold \subseteq Arrived
        BY DEF DepthInv, SentInv, ReceivedInv, Told, Untold, Arrived
      <4>3. Cardinality(Untold) <= Cardinality(Arrived)
        <5>1. IsFiniteSet(Arrived)
          BY CountsAre, FragSets
        <5>. QED  BY <4>2, <5>1, FS_Subset
      <4>. QED  BY <2>1, <4>1, <4>3, CountsAre DEF Received
    <3>4. recvreq.rdma_offset \in 0..Length
      BY <2>1 DEF Offsets, Types, RecvReq
    <3>. QED  BY <2>1, <3>1, <3>2, <3>3, <3>4 DEF Types, RecvReq
  <2>4. rdma_pending \subseteq [offset : Frag, retries : 0..MaxFailures]
    BY <2>1 DEF Types, Offsets
  <2>5. written \in [Frag -> 0..2]
    <3>1. \A b \in Frag : written[b] \in 0..2
      BY <2>1, WrittenOnce DEF NoneTwice
    <3>. QED  BY <2>1, <3>1 DEF Types
  <2>. QED  BY <2>1, <2>2, <2>3, <2>4, <2>5 DEF Types, TypeOK, SendPc, RecvPc
<1>. QED  BY DepthInvariant, <1>1, PTL
=============================================================================
