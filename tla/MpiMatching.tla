---------------------------- MODULE MpiMatching ----------------------------
(***************************************************************************)
(* What matching promises a receiver on one communicator: the messages of  *)
(* each source are taken in the order they were sent; one that is taken    *)
(* goes to the earliest posted receive that accepts it, or waits; a        *)
(* receive that is posted gets the earliest message of some source that    *)
(* waits and that it accepts, or waits.  A probe sees the message that a   *)
(* receive in its place would get, and leaves it.                          *)
(***************************************************************************)
EXTENDS Integers

CONSTANTS
    Message,    \* records with fields src, n (its turn among those of src), tag
    Request     \* records with fields no (its turn), peer, tag, type

AnySource == -1
AnyTag == -1000

VARIABLES
    created,    \* the receiver has created the communicator
    inTransit,  \* messages sent and not taken
    unexpected, \* messages that wait for a receive
    posted,     \* requests that wait for a message
    matched,    \* pairs of a receive and the message it got
    probed,     \* pairs of a probe and the message it saw
    undefined   \* nothing is promised any more

mpiVars == <<created, inTransit, unexpected, posted, matched, probed, undefined>>

Accepts(r, m) ==
    /\ r.peer \in {AnySource, m.src}
    /\ \/ r.tag = m.tag
       \/ r.tag = AnyTag /\ m.tag >= 0

Pair(r, m) == [req |-> r, msg |-> m]

\* Those of M that were sent before m.
Before(m, M) == {u \in M : u.src = m.src /\ u.n < m.n}

Init ==
    /\ created \in BOOLEAN
    /\ inTransit = {}
    /\ unexpected = {}
    /\ posted = {}
    /\ matched = {}
    /\ probed = {}
    /\ undefined = FALSE

Send ==
    /\ \E m \in Message :
         /\ \A u \in inTransit \cup unexpected \cup {p.msg : p \in matched} :
              u.src = m.src => u.n < m.n
         /\ inTransit' = inTransit \cup {m}
    /\ UNCHANGED <<created, unexpected, posted, matched, probed, undefined>>

\* Nothing is posted yet: any number of messages of each source may wait.
Create ==
    /\ ~created
    /\ created' = TRUE
    /\ \E M \in SUBSET inTransit :
         /\ \A m \in M : Before(m, inTransit) \subseteq M
         /\ unexpected' = M
         /\ inTransit' = inTransit \ M
    /\ UNCHANGED <<posted, matched, probed, undefined>>

Take ==
    /\ created
    /\ \E m \in inTransit :
         /\ Before(m, inTransit) = {}
         /\ inTransit' = inTransit \ {m}
         /\ LET interested == {r \in posted : Accepts(r, m)}
                receives == {r \in interested : r.type = "RECV"}
                first == {r \in receives : \A q \in receives : r.no <= q.no}
                probes == {r \in interested \ receives :
                             \A q \in receives : r.no < q.no}
            IN  /\ posted' = posted \ (first \cup probes)
                /\ matched' = matched \cup {Pair(r, m) : r \in first}
                /\ probed' = probed \cup {Pair(r, m) : r \in probes}
                /\ unexpected' = IF receives # {} THEN unexpected
                                 ELSE unexpected \cup {m}
    /\ UNCHANGED <<created, undefined>>

\* r gets the message m that waits, the first of its source that it accepts.
PostMatched(r) ==
    \E m \in unexpected :
        /\ Accepts(r, m)
        /\ \A u \in Before(m, unexpected) : ~Accepts(r, u)
        /\ IF r.type = "RECV"
           THEN /\ unexpected' = unexpected \ {m}
                /\ matched' = matched \cup {Pair(r, m)}
                /\ UNCHANGED probed
           ELSE /\ probed' = probed \cup {Pair(r, m)}
                /\ UNCHANGED <<unexpected, matched>>
        /\ UNCHANGED posted

PostWaiting(r) ==
    /\ \A m \in unexpected : ~Accepts(r, m)
    /\ posted' = IF r.type = "IPROBE" THEN posted ELSE posted \cup {r}
    /\ UNCHANGED <<unexpected, matched, probed>>

Post ==
    /\ created
    /\ \E r \in Request :
         /\ \A q \in posted : q.no < r.no
         /\ PostMatched(r) \/ PostWaiting(r)
    /\ UNCHANGED <<created, inTransit, undefined>>

Cancel ==
    /\ \E r \in posted : posted' = posted \ {r}
    /\ UNCHANGED <<created, inTransit, unexpected, matched, probed, undefined>>

\* The receiver has broken its queues: anything may follow.
Undefined == undefined'

Next == Send \/ Create \/ Take \/ Post \/ Cancel \/ Undefined

MpiSpec == Init /\ [][Next]_mpiVars
=============================================================================
