---------------------------- MODULE Ob1Matching ----------------------------
(***************************************************************************)
(* PML ob1: how one process matches the messages of a communicator with    *)
(* the receives posted on it (openmpi-1.4.2/ompi/mca/pml/ob1).  Transports *)
(* deliver in any order; each message carries the low bits of its number.  *)
(* Threads run the callbacks of the transports at once: an action is what  *)
(* one of them does while it holds comm->matching_lock.  The only messages *)
(* are first fragments; of the rest of a long message only its end counts. *)
(***************************************************************************)
EXTENDS Integers, Sequences, FiniteSets

CONSTANTS
    NumProcs,       \* size of the remote group; the senders are 0..NumProcs-1
    Tag,            \* tags in use, negative ones for MPI's own messages
    LongMsg,        \* pairs <<source, number>> of the messages sent by rendezvous
    Posts,          \* what is posted: records with fields peer, tag, type
    SeqSpace,       \* 2^16: numbers that hdr_seq and expected_sequence can hold
    First,          \* messages of each source already exchanged
    Thread,         \* threads that run callbacks
    MaxMsgs,        \* bound, by source: messages it sends
    MaxAhead,       \* bound: messages of a source sent and not yet in sequence
    MaxPosts,       \* bound: requests posted
    MaxFailures     \* bound: sends that fail after they took their number

Source == 0..NumProcs - 1
AnySource == -1                                 \* OMPI_ANY_SOURCE
AnyTag == -1000                                 \* OMPI_ANY_TAG

ASSUME SizeAssumption ==
    /\ NumProcs \in Nat \ {0}
    /\ Tag \subseteq Int \ {AnyTag} /\ LongMsg \subseteq Source \X Nat
    /\ Posts \subseteq [peer : Source \cup {AnySource}, tag : Tag \cup {AnyTag},
                        type : {"RECV", "PROBE", "IPROBE"}]
    /\ MaxMsgs \in [Source -> Nat]
    /\ MaxPosts \in Nat /\ MaxFailures \in Nat /\ First \in Nat

\* The number of a message tells it from the others that are ahead of their
\* turn.  Nothing in the code limits how many those are.
ASSUME AheadAssumption == SeqSpace \in Nat \ {0} /\ MaxAhead \in 1..SeqSpace

VARIABLES
    send_sequence,      \* by sender: the number of its last message
    failed,             \* messages whose send failed
    network,            \* messages started, queued by the sender or on their way
    comm,               \* comm->c_pml_comm is there
    pending,            \* mca_pml_ob1.non_existing_communicator_pending
    expected_sequence,  \* proc->expected_sequence
    frags_cant_match,   \* proc->frags_cant_match
    unexpected_frags,   \* proc->unexpected_frags
    specific_receives,  \* proc->specific_receives
    wild_receives,      \* comm->wild_receives
    recv_sequence,      \* comm->recv_sequence
    pc, hand,           \* by thread: where it is, the message it has
    matched,            \* receives and the messages they got
    probed,             \* probes and the messages they saw
    incomplete,         \* receives matched whose data is still coming
    unmarked,           \* by thread: the receive it matched, MPI_TAG not yet set
    cancelled,          \* requests marked as cancelled
    corrupt             \* history: a receive was removed from a queue it had left

sendVars == <<send_sequence, failed>>
procVars == <<expected_sequence, frags_cant_match>>
queueVars == <<unexpected_frags, specific_receives, wild_receives>>
matchVars == <<matched, probed, incomplete, unmarked>>
requestVars == <<recv_sequence, cancelled, corrupt>>
threadVars == <<pc, hand>>
vars == <<sendVars, network, comm, pending, procVars, queueVars, matchVars,
          requestVars, threadVars>>

Message == UNION {[src : {s}, n : First + 1..First + MaxMsgs[s], tag : Tag] : s \in Source}
Request == {[no |-> k, peer |-> r.peer, tag |-> r.tag, type |-> r.type] :
                k \in 1..MaxPosts, r \in Posts}
NoMsg == [src |-> -1]

Long(m) == <<m.src, m.n>> \in LongMsg

Elements(q) == {q[i] : i \in DOMAIN q}

\* The elements of q at the places in I, in their order.  (SelectSeq is defined
\* by recursion; this says the same in a form that can be reasoned about.)
At(q, I) ==
    [k \in 1..Cardinality(I) |->
        q[CHOOSE i \in I : Cardinality({j \in I : j <= i}) = k]]

Without(q, S) == At(q, {i \in DOMAIN q : q[i] \notin S})
OfSource(q, s) == At(q, {i \in DOMAIN q : q[i].src = s})

TypeOK ==
    /\ \A s \in Source : send_sequence[s] \in First..First + MaxMsgs[s]
    /\ failed \subseteq Message /\ network \subseteq Message
    /\ comm \in BOOLEAN
    /\ pending \in Seq(Message)
    /\ expected_sequence \in [Source -> 0..SeqSpace - 1]
    /\ frags_cant_match \in [Source -> Seq(Message)]
    /\ unexpected_frags \in [Source -> Seq(Message)]
    /\ specific_receives \in [Source -> Seq(Request)]
    /\ wild_receives \in Seq(Request)
    /\ recv_sequence \in 0..MaxPosts
    /\ pc \in [Thread -> {"idle", "match", "drain"}]
    /\ hand \in [Thread -> Message \cup {NoMsg}]
    /\ matched \subseteq [req : Request, msg : Message]
    /\ probed \subseteq [req : Request, msg : Message]
    /\ incomplete \subseteq Request /\ cancelled \subseteq Request
    /\ unmarked \in [Thread -> SUBSET Request]
    /\ corrupt \in BOOLEAN

\* The communicator may be there from the start, or its messages come first.
Init ==
    /\ send_sequence = [s \in Source |-> First]
    /\ failed = {} /\ network = {}
    /\ comm \in BOOLEAN
    /\ pending = <<>>
    /\ expected_sequence = [s \in Source |-> (First + 1) % SeqSpace]
    /\ frags_cant_match = [s \in Source |-> <<>>]
    /\ unexpected_frags = [s \in Source |-> <<>>]
    /\ specific_receives = [s \in Source |-> <<>>]
    /\ wild_receives = <<>>
    /\ recv_sequence = 0
    /\ pc = [t \in Thread |-> "idle"]
    /\ hand = [t \in Thread |-> NoMsg]
    /\ matched = {} /\ probed = {} /\ incomplete = {} /\ cancelled = {}
    /\ unmarked = [t \in Thread |-> {}]
    /\ corrupt = FALSE

----------------------------------------------------------------------------
(* The senders *)

\* Messages of s in sequence: taken to be matched, in their turn.
Taken(s) ==
    {m \in Elements(unexpected_frags[s]) \cup {p.msg : p \in matched} : m.src = s}

\* mca_pml_ob1_send_request_start(): the message takes its number, and goes to
\* a transport or, when none has room, to send_pending, from which progress
\* starts it later.  Any other error comes back with the number used up.
SendStart(s) ==
    LET n == send_sequence[s] + 1
    IN  /\ n <= First + MaxMsgs[s]
        /\ n - First - Cardinality(Taken(s)) <= MaxAhead
        /\ send_sequence' = [send_sequence EXCEPT ![s] = n]
        /\ \E tag \in Tag :
             LET m == [src |-> s, n |-> n, tag |-> tag]
             IN  \/ network' = network \cup {m} /\ UNCHANGED failed
                 \/ /\ Cardinality(failed) < MaxFailures
                    /\ failed' = failed \cup {m}
                    /\ UNCHANGED network
        /\ UNCHANGED <<comm, pending, procVars, queueVars, matchVars, requestVars,
                       threadVars>>

----------------------------------------------------------------------------
(* Matching *)

hdr_seq(m) == m.n % SeqSpace

Accepts(r, m) ==
    /\ r.peer \in {AnySource, m.src}
    /\ \/ r.tag = m.tag
       \/ r.tag = AnyTag /\ m.tag >= 0

\* Mutation of Earliest: the receives for any source come last.
EarliestSpecific(R) ==
    {r \in R : \A q \in R : \/ r.peer # AnySource /\ q.peer = AnySource
                            \/ (r.peer = q.peer) /\ r.no <= q.no}

\* match_incomming() merges the queue of the source and that of the receives
\* for any source by the order of posting.
Earliest(R) == {r \in R : \A q \in R : r.no <= q.no}

\* Mutation of Receives: a probe takes the message.
ReceivesOrProbes(R) == R
Receives(R) == {r \in R : r.type = "RECV"}

\* match_one(), in thread t: the probes before the first receive are completed; a
\* message that no receive accepts is unexpected.
MatchOne(t, m) ==
    LET interested == {r \in Elements(specific_receives[m.src]) \cup
                             Elements(wild_receives) : Accepts(r, m)}
        match == Earliest(Receives(interested))
        probes == {r \in interested : r.type # "RECV" /\
                       \A q \in Receives(interested) : r.no < q.no}
    IN  /\ specific_receives' = [specific_receives EXCEPT ![m.src] =
             Without(@, match \cup probes)]
        /\ wild_receives' = Without(wild_receives, match \cup probes)
        /\ matched' = matched \cup {[req |-> r, msg |-> m] : r \in match}
        /\ probed' = probed \cup {[req |-> r, msg |-> m] : r \in probes}
        /\ incomplete' = incomplete \cup match
        /\ unmarked' = [unmarked EXCEPT ![t] = match]
        /\ unexpected_frags' =
             IF match # {} THEN unexpected_frags
             ELSE [unexpected_frags EXCEPT ![m.src] = Append(@, m)]

\* Mutation of Advance: no wrap.
AdvanceWide(s) == expected_sequence' = [expected_sequence EXCEPT ![s] = @ + 1]

\* proc->expected_sequence++, in 16 bits.
Advance(s) ==
    expected_sequence' = [expected_sequence EXCEPT ![s] = (@ + 1) % SeqSpace]

\* Mutation of InTurn: the parked fragments are not looked at.
InTurnAlone(m) == hdr_seq(m) = expected_sequence[m.src]

\* The fast path takes the message expected, when none is parked.
InTurn(m) ==
    /\ hdr_seq(m) = expected_sequence[m.src]
    /\ frags_cant_match[m.src] = <<>>

\* mca_pml_ob1_recv_frag_callback_match() and, for the messages sent by
\* rendezvous, _callback_rndv() and _rget(), which have no fast path.
Callback(t) ==
    /\ pc[t] = "idle" /\ unmarked[t] = {}
    /\ \E m \in network :
         /\ network' = network \ {m}
         /\ \/ /\ ~comm
               /\ pending' = Append(pending, m)
               /\ UNCHANGED <<procVars, queueVars, matchVars, threadVars>>
            \/ /\ comm /\ ~Long(m) /\ InTurn(m)
               /\ Advance(m.src)
               /\ MatchOne(t, m)
               /\ UNCHANGED <<pending, frags_cant_match, threadVars>>
            \/ /\ comm /\ (Long(m) \/ ~InTurn(m))
               /\ pc' = [pc EXCEPT ![t] = "match"]
               /\ hand' = [hand EXCEPT ![t] = m]
               /\ UNCHANGED <<pending, procVars, queueVars, matchVars>>
    /\ UNCHANGED <<sendVars, comm, requestVars>>

\* mca_pml_ob1_recv_frag_match(), up to the first release of the lock.
FragMatch(t) ==
    LET m == hand[t]
    IN  /\ pc[t] = "match"
        /\ \/ /\ hdr_seq(m) = expected_sequence[m.src]
              /\ Advance(m.src)
              /\ MatchOne(t, m)
              /\ pc' = [pc EXCEPT ![t] = "drain"]
              /\ UNCHANGED <<frags_cant_match, hand>>
           \/ /\ hdr_seq(m) # expected_sequence[m.src]
              /\ frags_cant_match' = [frags_cant_match EXCEPT ![m.src] = Append(@, m)]
              /\ pc' = [pc EXCEPT ![t] = "idle"]
              /\ hand' = [hand EXCEPT ![t] = NoMsg]
              /\ UNCHANGED <<expected_sequence, queueVars, matchVars>>
        /\ UNCHANGED <<sendVars, network, comm, pending, requestVars>>

\* Mutation of CanMatch: the first parked fragment is taken.
CanMatchFirst(s) == DOMAIN frags_cant_match[s] \cap {1}

\* check_cantmatch_for_match(): where the message expected is parked.
CanMatch(s) ==
    {i \in DOMAIN frags_cant_match[s] :
        hdr_seq(frags_cant_match[s][i]) = expected_sequence[s]}

\* The rest of mca_pml_ob1_recv_frag_match(): back to out_of_order_match with
\* a parked fragment, or out.
Drain(t) ==
    LET s == hand[t].src
    IN  /\ pc[t] = "drain" /\ unmarked[t] = {}
        /\ \/ \E i \in CanMatch(s) :
                LET m == frags_cant_match[s][i]
                IN  /\ \A j \in CanMatch(s) : i <= j
                    /\ frags_cant_match' = [frags_cant_match EXCEPT ![s] = Without(@, {m})]
                    /\ Advance(s)
                    /\ MatchOne(t, m)
                    /\ UNCHANGED threadVars
           \/ /\ CanMatch(s) = {}
              /\ pc' = [pc EXCEPT ![t] = "idle"]
              /\ hand' = [hand EXCEPT ![t] = NoMsg]
              /\ UNCHANGED <<procVars, queueVars, matchVars>>
        /\ UNCHANGED <<sendVars, network, comm, pending, requestVars>>

\* recv_req_matched(), which a thread calls after it has released the lock under
\* which the receive left its queue.
MarkMatched(t) ==
    /\ unmarked[t] # {}
    /\ unmarked' = [unmarked EXCEPT ![t] = {}]
    /\ UNCHANGED <<sendVars, network, comm, pending, procVars, queueVars, matched,
                   probed, incomplete, requestVars, threadVars>>

----------------------------------------------------------------------------
(* The communicator *)

\* Where in q the message of s is that comes k after the one expected.
Place(q, s, k) ==
    {i \in DOMAIN q : hdr_seq(q[i]) = (expected_sequence[s] + k - 1) % SeqSpace}

\* Mutation of InRow: a fragment parked earlier in the loop stays parked.
InRowAsItCame(q, s) ==
    {k \in 1..Len(q) : \A j \in 1..k : Place(q, s, j) # {} /\
        (j > 1 => \E a \in Place(q, s, j - 1), b \in Place(q, s, j) : a < b)}

\* The messages in q that follow on the one expected without a gap.
InRow(q, s) == {k \in 1..Len(q) : \A j \in 1..k : Place(q, s, j) # {}}

\* mca_pml_ob1_add_comm(): the messages that came before the communicator are
\* unexpected, as far as they go in sequence, or parked.  (No callback runs
\* meanwhile: the function takes no lock.)
AddComm ==
    LET q == [s \in Source |-> OfSource(pending, s)]
        row == [s \in Source |->
                  [k \in InRow(q[s], s) |-> q[s][CHOOSE i \in Place(q[s], s, k) : TRUE]]]
    IN  /\ ~comm
        /\ comm' = TRUE
        /\ pending' = <<>>
        /\ unexpected_frags' = row
        /\ frags_cant_match' = [s \in Source |-> Without(q[s], Elements(row[s]))]
        /\ expected_sequence' = [s \in Source |->
             (expected_sequence[s] + Len(row[s])) % SeqSpace]
        /\ UNCHANGED <<sendVars, network, specific_receives, wild_receives, matchVars,
                       requestVars, threadVars>>

----------------------------------------------------------------------------
(* The receives *)

\* Mutation of FirstOf: the last message in the queue.
LastOf(I) == {i \in I : \A j \in I : j <= i}
FirstOf(I) == {i \in I : \A j \in I : i <= j}

\* recv_req_match_specific_proc(): the first unexpected message of s that r
\* accepts.
MatchSpecificProc(r, s) ==
    {unexpected_frags[s][i] :
        i \in FirstOf({i \in DOMAIN unexpected_frags[s] :
                          Accepts(r, unexpected_frags[s][i])})}

\* Mutation of MatchWild: only the first process is searched.
MatchWildFirst(r) == MatchSpecificProc(r, 0)

\* recv_req_match_wild(): the first process, by rank, that has one.
MatchWild(r) ==
    LET s == {s \in Source : /\ MatchSpecificProc(r, s) # {}
                             /\ \A u \in 0..s - 1 : MatchSpecificProc(r, u) = {}}
    IN  UNION {MatchSpecificProc(r, u) : u \in s}

\* mca_pml_ob1_recv_req_start(), up to recv_req_matched() and, for a short message,
\* its data: until it returns nobody has the request to cancel.
RecvReqStart ==
    /\ comm /\ recv_sequence < MaxPosts
    /\ recv_sequence' = recv_sequence + 1
    /\ \E r \in Request :
         LET frag == IF r.peer = AnySource THEN MatchWild(r)
                     ELSE MatchSpecificProc(r, r.peer)
         IN  /\ r.no = recv_sequence'
             /\ \/ /\ frag = {} /\ r.type # "IPROBE" /\ r.peer = AnySource
                   /\ wild_receives' = Append(wild_receives, r)
                   /\ UNCHANGED <<specific_receives, unexpected_frags, matchVars>>
                \/ /\ frag = {} /\ r.type # "IPROBE" /\ r.peer # AnySource
                   /\ specific_receives' = [specific_receives EXCEPT ![r.peer] =
                        Append(@, r)]
                   /\ UNCHANGED <<wild_receives, unexpected_frags, matchVars>>
                \/ /\ frag = {} /\ r.type = "IPROBE"
                   /\ UNCHANGED <<queueVars, matchVars>>
                \/ /\ r.type = "RECV"
                   /\ \E m \in frag :
                        /\ unexpected_frags' = [unexpected_frags EXCEPT ![m.src] =
                             Without(@, {m})]
                        /\ matched' = matched \cup {[req |-> r, msg |-> m]}
                        /\ incomplete' = IF Long(m) THEN incomplete \cup {r}
                                         ELSE incomplete
                   /\ UNCHANGED <<specific_receives, wild_receives, probed, unmarked>>
                \/ /\ r.type # "RECV"
                   /\ \E m \in frag : probed' = probed \cup {[req |-> r, msg |-> m]}
                   /\ UNCHANGED <<queueVars, matched, incomplete, unmarked>>
    /\ UNCHANGED <<sendVars, network, comm, pending, procVars, cancelled, corrupt,
                   threadVars>>

\* recv_request_pml_complete(): the data of a receive has come, cancelled or not,
\* and its thread has marked it.
PmlComplete ==
    /\ \E r \in incomplete :
         /\ \A t \in Thread : r \notin unmarked[t]
         /\ incomplete' = incomplete \ {r}
    /\ UNCHANGED <<sendVars, network, comm, pending, procVars, queueVars, matched,
                   probed, unmarked, requestVars, threadVars>>

\* The queues of receives as one.
Waiting ==
    Elements(wild_receives) \cup UNION {Elements(specific_receives[s]) : s \in Source}

\* What opal_list_remove_item() makes of q by the receive r that has left it: its
\* old neighbours are linked again, so those appended since are lost and others
\* that had left are back, in the order of posting.
Damaged(q, r) ==
    LET gone == {x \in cancelled \cup {e.req : e \in matched \cup probed} :
                    x.peer = r.peer}
    IN  {f \in UNION {[1..k -> (Elements(q) \cup gone) \ {r}] : k \in 0..MaxPosts} :
            \A i, j \in DOMAIN f : i < j => f[i].no < f[j].no}

\* Receives that are matched, and have in MPI_TAG the value of one that is not.
Unmarked == UNION {unmarked[t] : t \in Thread}

\* mca_pml_ob1_recv_request_cancel() of a receive that is not complete: it is
\* removed from its queue, unless its MPI_TAG has been set, and marked.
Cancel ==
    /\ \E r \in {q \in incomplete \cup Waiting : q.type = "RECV"} \ cancelled :
         /\ cancelled' = cancelled \cup {r}
         /\ \/ /\ r \notin Unmarked
               /\ wild_receives' = Without(wild_receives, {r})
               /\ specific_receives' =
                    [s \in Source |-> Without(specific_receives[s], {r})]
               /\ UNCHANGED corrupt
            \/ /\ r \in Unmarked /\ r.peer = AnySource
               /\ wild_receives' \in Damaged(wild_receives, r)
               /\ corrupt' = TRUE
               /\ UNCHANGED specific_receives
            \/ /\ r \in Unmarked /\ r.peer # AnySource
               /\ \E q \in Damaged(specific_receives[r.peer], r) :
                    specific_receives' = [specific_receives EXCEPT ![r.peer] = q]
               /\ corrupt' = TRUE
               /\ UNCHANGED wild_receives
    /\ UNCHANGED <<sendVars, network, comm, pending, procVars, unexpected_frags,
                   matchVars, recv_sequence, threadVars>>

----------------------------------------------------------------------------

Next ==
    \/ \E s \in Source : SendStart(s)
    \/ \E t \in Thread : Callback(t) \/ FragMatch(t) \/ Drain(t) \/ MarkMatched(t)
    \/ AddComm \/ RecvReqStart \/ PmlComplete \/ Cancel

Spec == Init /\ [][Next]_vars

\* The transports deliver what they accept, and a thread leaves a callback.
FairSpec ==
    /\ Spec
    /\ WF_vars(AddComm)
    /\ WF_vars(\E t \in Thread : Callback(t))
    /\ \A t \in Thread : WF_vars(FragMatch(t) \/ Drain(t) \/ MarkMatched(t))

----------------------------------------------------------------------------
(* Properties.  All but TypeOK hold until a cancel comes between the release of *)
(* the lock and recv_req_matched() (pml_ob1_recvreq.c:105), and removes from a  *)
(* queue a receive that has left it.  Nothing is said of the behaviour after.   *)

\* Messages that are in the hands of a thread.
InHand == {hand[t] : t \in {u \in Thread : pc[u] = "match"}}

Ahead(s) == Elements(frags_cant_match[s])

\* Messages are taken in the order of their numbers, with no gap, and the 16
\* bits of expected_sequence are those of the next one: no parked message is
\* taken for another across the wrap (pml_ob1_recvfrag.c:519, :608).
TakenInSequence ==
    ~corrupt => \A s \in Source :
        LET k == Cardinality(Taken(s))
        IN  /\ {m.n : m \in Taken(s)} = First + 1..First + k
            /\ expected_sequence[s] = (First + k + 1) % SeqSpace

\* Two messages of one source that a receive accepts do not overtake each
\* other: by the time it gets the later one, the earlier one has been
\* received (pml_ob1_recvfrag.c:397, pml_ob1_recvreq.c:867-882).
NonOvertaking ==
    ~corrupt => \A p \in matched : \A m \in Taken(p.msg.src) :
        m.n < p.msg.n /\ Accepts(p.req, m) => \E q \in matched : q.msg = m

\* Where a message of s is, from its sender to the receive that gets it.
Places(s) ==
    <<failed, network, Elements(pending), InHand, Ahead(s),
      Elements(unexpected_frags[s]),
      {p.msg : p \in {q \in matched : q.req.type = "RECV"}}>>

\* Each message is in one place and no more, with one thread or receive that
\* has it (pml_ob1_recvfrag.c:663-673).
NoMessageLost ==
    LET everything == UNION {UNION Elements(Places(s)) : s \in Source}
    IN  ~corrupt =>
        /\ \A s \in Source :
             LET P == Places(s) IN \A i, j \in DOMAIN P : i # j => P[i] \cap P[j] = {}
        /\ \A s \in Source : \A m \in Ahead(s) \cup Elements(unexpected_frags[s]) :
             m.src = s
        /\ \A s \in Source : \A n \in First + 1..send_sequence[s] :
             \E m \in everything : m.src = s /\ m.n = n
        /\ \A m, u \in everything : m.src = u.src /\ m.n = u.n => m = u
        /\ \A t, u \in Thread : pc[t] = "match" /\ pc[u] = "match" /\ hand[t] = hand[u] =>
             t = u
        /\ \A p, q \in matched : p.msg = q.msg => p = q

\* No receive or probe waits while a message that it accepts does: neither a
\* callback nor a post misses the other (pml_ob1_recvreq.c:942, :982), as long as
\* no cancel has damaged a queue.
NoMissedMatch ==
    ~corrupt => \A s \in Source : \A m \in Elements(unexpected_frags[s]) :
        \A r \in Elements(specific_receives[s]) \cup Elements(wild_receives) :
            ~Accepts(r, m)

\* The message expected is never left among those that cannot match, where
\* only a later message would find it (pml_ob1.c:233, pml_ob1_recvfrag.c:663).
NoStrandedFragment ==
    ~corrupt => \A s \in Source : CanMatch(s) # {} =>
        \E t \in Thread : pc[t] = "drain" /\ hand[t].src = s

\* Unless a send fails, or a cancel breaks a queue, the receiver takes every
\* message: again and again, none that was sent is on its way or parked
\* (pml_ob1.c:229-233).
EveryMessageTaken ==
    [](failed = {} /\ ~corrupt) =>
        []<>(\A s \in Source : Cardinality(Taken(s)) = send_sequence[s] - First)

\* The messages sent and not taken.
InTransit ==
    network \cup InHand \cup Elements(pending) \cup UNION {Ahead(s) : s \in Source}

Mpi == INSTANCE MpiMatching WITH
    created <- comm,
    inTransit <- InTransit,
    unexpected <- UNION {Elements(unexpected_frags[s]) : s \in Source},
    posted <- Waiting,
    undefined <- corrupt

\* Out of order, parked, with wrapped numbers and two kinds of queues, ob1
\* does what MpiMatching promises (pml_ob1_recvfrag.c:555-690), as long as no
\* cancel has damaged a queue.
ImplementsMatching == Mpi!MpiSpec

\* ompi/mpi/man/man3/MPI_Cancel.3in:49: "Either the cancellation succeeds or
\* the communication succeeds, but not both."
CancelledOrReceived == ~corrupt => \A p \in matched : p.req \notin cancelled
=============================================================================
