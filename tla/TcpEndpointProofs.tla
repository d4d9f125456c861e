------------------------- MODULE TcpEndpointProofs -------------------------
(***************************************************************************)
(* Two processes settle on one connection, whichever of them connects, and *)
(* no fragment of the queues behind it is lost, doubled or overtaken: for  *)
(* every number of fragments, failed connects and broken connections.      *)
(***************************************************************************)
EXTENDS TcpEndpoint, Integers, SequenceTheorems, TLAPS

USE BoundAssumption DEF BoundAssumption

----------------------------------------------------------------------------
(* The types, with their sequences under a name *)

FragSeq == Seq(Frag)
Inbox == Seq(Frag \cup {Guid})

EndpointRec ==
    [state : {"CLOSED", "CONNECTING", "CONNECT_ACK", "CONNECTED"},
     sd : Conn \cup {NoSd}, frags : FragSeq, send_frag : Frag \cup {NoFrag},
     send_event : BOOLEAN]

ConnRec ==
    [st : {"free", "connecting", "refused", "backlog", "accepted", "broken"},
     open : [Proc -> BOOLEAN], inbox : [Proc -> Inbox]]

Types ==
    /\ endpoint \in [Proc -> EndpointRec]
    /\ conn \in [Conn -> ConnRec]
    /\ sent \in [Proc -> 0..MaxFrags]
    /\ delivered \in [Proc -> FragSeq]
    /\ failures \in 0..MaxFailures
    /\ breaks \in 0..MaxBreaks

LEMMA TypesAre == TypeOK <=> Types
  BY DEF TypeOK, Types, EndpointRec, ConnRec, FragSeq, Inbox

LEMMA Peers ==
    /\ Lower \in Proc
    /\ \A p \in Proc : /\ Peer(p) \in Proc /\ Peer(p) # p /\ Peer(Peer(p)) = p
                       /\ \A q \in Proc : q # p <=> q = Peer(p)
<1>1. PICK p, q \in Proc : p # q /\ Proc = {p, q} /\ Lower = p
  BY ProcAssumption
<1>2. ASSUME NEW u \in Proc
      PROVE  \E v \in Proc : v # u
  BY <1>1
<1>3. \A u \in Proc : Peer(u) \in Proc /\ Peer(u) # u
  BY <1>2 DEF Peer
<1>. QED  BY <1>1, <1>3

----------------------------------------------------------------------------
(* Sequences of fragments, with a name in front of them or not *)

Greeted(s) == s # <<>> => Head(s) = Guid /\ Tail(s) \in FragSeq

LEMMA FragNotGuid == /\ Guid \notin Frag /\ NoFrag \notin Frag
                     /\ \A n \in Frag : n \in Nat
  BY DEF Guid, Frag, NoFrag

LEMMA Nil ==
    /\ <<>> \in FragSeq /\ <<>> \in Inbox /\ <<Guid>> \in Inbox
    /\ Greeted(<<>>) /\ Greeted(<<Guid>>) /\ <<Guid>> # <<>>
    /\ Fragments(<<>>) = <<>> /\ Fragments(<<Guid>>) = <<>>
    /\ Append(<<>>, Guid) = <<Guid>> /\ Tail(<<Guid>>) = <<>>
<1>1. <<>> \in FragSeq /\ <<>> \in Inbox /\ <<Guid>> \in Inbox
  BY DEF FragSeq, Inbox
<1>2. /\ <<Guid>> # <<>> /\ Head(<<Guid>>) = Guid /\ Tail(<<Guid>>) = <<>>
      /\ Append(<<>>, Guid) = <<Guid>>
  OBVIOUS
<1>. QED  BY <1>1, <1>2 DEF Greeted, Fragments

LEMMA FragSeqs ==
    ASSUME NEW s \in FragSeq
    PROVE  /\ s \in Inbox /\ Fragments(s) = s
           /\ s # <<>> => Head(s) \in Frag /\ Tail(s) \in FragSeq
           /\ \A m \in Frag : Append(s, m) \in FragSeq /\ Append(s, m) # <<>>
<1>1. s \in Inbox
  BY SeqMonotonic DEF FragSeq, Inbox
<1>2. s # <<>> => Head(s) \in Frag /\ Tail(s) \in FragSeq
  BY HeadTailProperties DEF FragSeq
<1>3. \A m \in Frag : Append(s, m) \in FragSeq /\ Append(s, m) # <<>>
  BY AppendProperties DEF FragSeq
<1>. QED  BY <1>1, <1>2, <1>3, FragNotGuid DEF Fragments

LEMMA SameHeadTail ==
    ASSUME NEW s \in FragSeq, NEW t \in FragSeq, s # <<>>, t # <<>>,
           Head(s) = Head(t), Tail(s) = Tail(t)
    PROVE  s = t
<1>. DEFINE m == Len(s)
            n == Len(t)
            u == Tail(s)
<1>1. m \in Nat /\ n \in Nat /\ Head(s) = s[1] /\ Head(t) = t[1]
  BY LenProperties DEF FragSeq
<1>2. Len(u) = m - 1 /\ \A i \in 1..Len(u) : u[i] = s[i + 1]
  BY HeadTailProperties DEF FragSeq
<1>3. Len(u) = n - 1 /\ \A i \in 1..Len(u) : u[i] = t[i + 1]
  BY HeadTailProperties DEF FragSeq
<1>4. s[1] = t[1]
  BY <1>1
<1>. HIDE DEF m, n, u
<1>5. m = n
  BY <1>1, <1>2, <1>3
<1>6. ASSUME NEW i \in 1..m
      PROVE  s[i] = t[i]
  <2>1. i = 1 \/ (i - 1 \in 1..Len(u) /\ (i - 1) + 1 = i)
    BY <1>1, <1>2
  <2>. QED  BY <1>2, <1>3, <1>4, <2>1
<1>. QED  BY <1>5, <1>6, SeqEqual DEF FragSeq, m, n

LEMMA Inboxes ==
    ASSUME NEW s \in Inbox
    PROVE  /\ s # <<>> => Head(s) \in Frag \cup {Guid} /\ Tail(s) \in Inbox
           /\ \A m \in Frag \cup {Guid} : Append(s, m) \in Inbox
           /\ Greeted(s) => \A m \in Frag : s # <<>> =>
                Greeted(Append(s, m)) /\ Fragments(Append(s, m)) = Append(Fragments(s), m)
           /\ Greeted(s) => Fragments(s) \in FragSeq
           /\ Greeted(s) /\ s # <<>> => Fragments(s) = Tail(s)
<1>1. s # <<>> => Head(s) \in Frag \cup {Guid} /\ Tail(s) \in Inbox
  BY HeadTailProperties DEF Inbox
<1>2. \A m \in Frag \cup {Guid} : Append(s, m) \in Inbox
  BY AppendProperties DEF Inbox
<1>3. ASSUME Greeted(s), NEW m \in Frag, s # <<>>
      PROVE  Greeted(Append(s, m)) /\ Fragments(Append(s, m)) = Append(Fragments(s), m)
  <2>1. Head(s) = Guid /\ Tail(s) \in FragSeq
    BY <1>3 DEF Greeted
  <2>2. Append(s, m) # <<>>
    BY AppendProperties DEF Inbox
  <2>3. Head(Append(s, m)) = Head(s) /\ Tail(Append(s, m)) = Append(Tail(s), m)
    BY <1>3, HeadTailAppend DEF Inbox
  <2>4. Append(Tail(s), m) \in FragSeq
    BY <2>1, FragSeqs
  <2>. QED  BY <1>3, <2>1, <2>2, <2>3, <2>4 DEF Greeted, Fragments
<1>4. Greeted(s) => Fragments(s) \in FragSeq
  BY Nil DEF Greeted, Fragments
<1>. QED  BY <1>1, <1>2, <1>3, <1>4 DEF Greeted, Fragments

\* What is left in an inbox after the connection is reset.
LEMMA Arrived ==
    ASSUME NEW s \in Inbox, NEW n \in 0..Len(s)
    PROVE  /\ SubSeq(s, 1, n) \in Inbox
           /\ s = <<>> => SubSeq(s, 1, n) = <<>>
           /\ s = <<Guid>> => SubSeq(s, 1, n) \in {<<>>, <<Guid>>}
           /\ s \in FragSeq => SubSeq(s, 1, n) \in FragSeq
           /\ Greeted(s) => Greeted(SubSeq(s, 1, n))
           /\ n = 0 => SubSeq(s, 1, n) = <<>>
           /\ n > 0 /\ Greeted(s) => /\ SubSeq(s, 1, n) # <<>>
                                     /\ Head(SubSeq(s, 1, n)) = Guid
                                     /\ Tail(SubSeq(s, 1, n)) = SubSeq(Tail(s), 1, n - 1)
<1>. DEFINE S == Frag \cup {Guid}
            a == SubSeq(s, 1, n)
<1>1. /\ Len(s) \in Nat /\ \A i \in 1..n : s[i] \in S /\ n \in Nat
  BY LenProperties, ElementOfSeq DEF Inbox
<1>2. /\ a \in Inbox /\ Len(a) = n /\ \A i \in 1..n : a[i] = s[i]
  BY <1>1, SubSeqProperties DEF Inbox
<1>3. n = 0 => a = <<>>
  BY SubSeqEmpty
<1>4. s = <<>> => n = 0
  BY <1>1
<1>5. s = <<Guid>> => a \in {<<>>, <<Guid>>}
  <2>1. s = <<Guid>> => Len(s) = 1
    OBVIOUS
  <2>2. n = Len(s) => a = s
    BY SubSeqFull DEF Inbox
  <2>. QED  BY <1>3, <2>1, <2>2
<1>6. s \in FragSeq => a \in FragSeq
  <2>1. s \in FragSeq => \A i \in 1..n : s[i] \in Frag
    BY <1>1, ElementOfSeq DEF FragSeq
  <2>. QED  BY <1>1, <2>1, SubSeqProperties DEF FragSeq
<1>7. ASSUME n > 0, Greeted(s)
      PROVE  /\ a # <<>> /\ Head(a) = Guid
             /\ Tail(a) = SubSeq(Tail(s), 1, n - 1) /\ Tail(a) \in FragSeq
  <2>1. s # <<>> /\ n \in 1..Len(s)
    BY <1>4, <1>7, <1>1
  <2>2. Head(s) = Guid /\ Tail(s) \in FragSeq
    BY <1>7, <2>1 DEF Greeted
  <2>3. /\ Head(a) = s[1] /\ Head(s) = s[1] /\ a # <<>>
    BY <1>1, <1>2, <2>1 DEF Inbox
  <2>4. /\ Tail(a) \in Inbox /\ Len(Tail(a)) = n - 1
        /\ \A i \in 1..n - 1 : Tail(a)[i] = a[i + 1]
    BY <1>2, <2>3, HeadTailProperties DEF Inbox
  <2>5. /\ Len(Tail(s)) = Len(s) - 1 /\ Tail(s) \in Inbox
        /\ \A i \in 1..Len(s) - 1 : Tail(s)[i] = s[i + 1]
    BY <2>1, HeadTailProperties DEF Inbox
  <2>6. \A i \in 1..n - 1 : Tail(s)[i] \in Frag
    BY <1>1, <2>2, <2>5, ElementOfSeq DEF FragSeq
  <2>7. /\ SubSeq(Tail(s), 1, n - 1) \in FragSeq
        /\ Len(SubSeq(Tail(s), 1, n - 1)) = n - 1
        /\ \A i \in 1..n - 1 : SubSeq(Tail(s), 1, n - 1)[i] = Tail(s)[i]
    <3>1. 1 \in Int /\ n - 1 \in Int /\ n - 1 >= 0
      BY <1>1, <1>7
    <3>2. /\ SubSeq(Tail(s), 1, n - 1) \in Seq(Frag)
          /\ Len(SubSeq(Tail(s), 1, n - 1)) = IF 1 <= n - 1 THEN n - 1 - 1 + 1 ELSE 0
          /\ \A i \in 1..n - 1 - 1 + 1 : SubSeq(Tail(s), 1, n - 1)[i] = Tail(s)[1 + i - 1]
      BY <2>6, <3>1, SubSeqProperties
    <3>3. n - 1 - 1 + 1 = n - 1 /\ \A i \in 1..n - 1 : 1 + i - 1 = i
      BY <3>1
    <3>. QED  BY <3>1, <3>2, <3>3 DEF FragSeq
  <2>8. \A i \in 1..n - 1 : a[i + 1] = s[i + 1] /\ i \in 1..Len(s) - 1
    BY <1>1, <1>2
  <2>9. \A i \in 1..n - 1 : Tail(a)[i] = SubSeq(Tail(s), 1, n - 1)[i]
    BY <2>4, <2>5, <2>7, <2>8
  <2>10. SubSeq(Tail(s), 1, n - 1) \in Inbox
    BY <2>7, FragSeqs
  <2>11. Tail(a) = SubSeq(Tail(s), 1, n - 1)
    BY <2>4, <2>7, <2>9, <2>10, SeqEqual DEF Inbox
  <2>. QED  BY <2>2, <2>3, <2>7, <2>11
<1>8. Greeted(s) => Greeted(a)
  BY <1>1, <1>3, <1>7 DEF Greeted
<1>. QED  BY <1>1, <1>2, <1>3, <1>4, <1>5, <1>6, <1>7, <1>8

----------------------------------------------------------------------------
(* One connection *)

\* What may be on a connection in state st whose ends, the one of the process
\* that opens it and the one of the process that takes it, are open or not (o, t),
\* with io and it to read there, while the processes stand at a and b.
Standing(st, o, t, io, it, a, b) ==
    /\ o \in BOOLEAN /\ t \in BOOLEAN /\ io \in Inbox /\ it \in Inbox
    /\ a \in {"away", "CONNECTING", "CONNECT_ACK", "CONNECTED"}
    /\ b \in {"away", "CONNECTED"}
    /\ st = "free" => ~o /\ ~t
    /\ ~o => io = <<>>
    /\ ~t => it = <<>>
    /\ o <=> a # "away"
    /\ b # "away" => t /\ st \in {"accepted", "broken"} /\ it \in FragSeq
    /\ st \in {"connecting", "refused"} => a = "CONNECTING" /\ ~t
    /\ st = "backlog" => t
    /\ b = "away" => it \in {<<>>, <<Guid>>} /\ (t => io = <<>>)
    /\ a = "CONNECTING" => b = "away" /\ it = <<>> /\ io = <<>>
    /\ a = "CONNECT_ACK" =>
         /\ b # "away" => it = <<>> /\ (st = "broken" \/ io # <<>>)
         /\ Greeted(io)
    /\ a = "CONNECTED" => (t => b # "away") /\ io \in FragSeq

LEMMA OpenerCloses ==
    ASSUME NEW st, NEW o, NEW t, NEW io, NEW it, NEW a, NEW b,
           Standing(st, o, t, io, it, a, b), a # "away"
    PROVE  Standing(IF t THEN st ELSE "free", FALSE, t, <<>>, it, "away", b)
  BY Nil DEF Standing

LEMMA TakerCloses ==
    ASSUME NEW st, NEW o, NEW t, NEW io, NEW it, NEW a, NEW b,
           Standing(st, o, t, io, it, a, b), st \in {"accepted", "broken"}
    PROVE  Standing(IF o THEN st ELSE "free", o, FALSE, io, <<>>, a, "away")
  BY Nil DEF Standing

LEMMA OpenerGreets ==
    ASSUME NEW st, NEW o, NEW t, NEW io, NEW it, NEW a, NEW b,
           Standing(st, o, t, io, it, a, b), a = "CONNECTING",
           st \notin {"connecting", "refused"}
    PROVE  Standing(st, o, t, io, IF t THEN Append(it, Guid) ELSE it, "CONNECT_ACK", b)
<1>1. (IF t THEN Append(it, Guid) ELSE it) = IF t THEN <<Guid>> ELSE <<>>
  BY Nil DEF Standing
<1>. QED  BY <1>1, Nil DEF Standing

LEMMA OpenerWrites ==
    ASSUME NEW st, NEW o, NEW t, NEW io, NEW it, NEW a, NEW b,
           Standing(st, o, t, io, it, a, b), a = "CONNECTED", NEW m \in Frag
    PROVE  Standing(st, o, t, io, IF t THEN Append(it, m) ELSE it, a, b)
<1>1. CASE t
  <2>1. Append(it, m) \in FragSeq /\ Append(it, m) \in Inbox
    BY <1>1, FragSeqs DEF Standing
  <2>. QED  BY <1>1, <2>1 DEF Standing
<1>. QED  BY <1>1

LEMMA TakerWrites ==
    ASSUME NEW st, NEW o, NEW t, NEW io, NEW it, NEW a, NEW b,
           Standing(st, o, t, io, it, a, b), b = "CONNECTED",
           st # "broken", NEW m \in Frag
    PROVE  Standing(st, o, t, IF o THEN Append(io, m) ELSE io, it, a, b)
<1>1. CASE o /\ a = "CONNECT_ACK"
  <2>1. io \in Inbox /\ Greeted(io) /\ io # <<>>
    BY <1>1 DEF Standing
  <2>2. Append(io, m) \in Inbox /\ Greeted(Append(io, m))
    BY <2>1, Inboxes
  <2>3. Append(io, m) # <<>>
    BY <2>1, AppendProperties DEF Inbox
  <2>. QED  BY <1>1, <2>2, <2>3 DEF Standing
<1>2. CASE o /\ a = "CONNECTED"
  <2>1. Append(io, m) \in FragSeq /\ Append(io, m) \in Inbox
    BY <1>2, FragSeqs DEF Standing
  <2>. QED  BY <1>2, <2>1 DEF Standing
<1>3. o => a = "CONNECT_ACK" \/ a = "CONNECTED"
  BY DEF Standing
<1>. QED  BY <1>1, <1>2, <1>3

LEMMA OpenerReads ==
    ASSUME NEW st, NEW o, NEW t, NEW io, NEW it, NEW a, NEW b,
           Standing(st, o, t, io, it, a, b),
           a \in {"CONNECT_ACK", "CONNECTED"}, io # <<>>
    PROVE  Standing(st, o, t, Tail(io), it, "CONNECTED", b)
<1>1. CASE a = "CONNECT_ACK"
  <2>1. Tail(io) \in FragSeq /\ Tail(io) \in Inbox
    BY <1>1, FragSeqs DEF Standing, Greeted
  <2>. QED  BY <1>1, <2>1 DEF Standing
<1>2. CASE a = "CONNECTED"
  <2>1. Tail(io) \in FragSeq /\ Tail(io) \in Inbox
    BY <1>2, FragSeqs DEF Standing
  <2>. QED  BY <1>2, <2>1 DEF Standing
<1>. QED  BY <1>1, <1>2

LEMMA TakerReads ==
    ASSUME NEW st, NEW o, NEW t, NEW io, NEW it, NEW a, NEW b,
           Standing(st, o, t, io, it, a, b), b = "CONNECTED", it # <<>>
    PROVE  Standing(st, o, t, io, Tail(it), a, b)
<1>1. Tail(it) \in FragSeq /\ Tail(it) \in Inbox
  BY FragSeqs DEF Standing
<1>. QED  BY <1>1 DEF Standing

\* What the component finds: a name, on a connection its process is not on.
LEMMA NameFound ==
    ASSUME NEW st, NEW o, NEW t, NEW io, NEW it, NEW a, NEW b,
           Standing(st, o, t, io, it, a, b), b = "away", it # <<>>
    PROVE  it = <<Guid>> /\ a \in {"away", "CONNECT_ACK"} /\ t /\ io = <<>>
  BY DEF Standing

LEMMA NameRead ==
    ASSUME NEW st, NEW o, NEW t, NEW io, NEW it, NEW a, NEW b,
           Standing(st, o, t, io, it, a, b), b = "away", it # <<>>
    PROVE  Standing(st, o, t, io, Tail(it), a, b)
<1>1. it = <<Guid>> /\ Tail(it) = <<>>
  BY NameFound, Nil
<1>. QED  BY <1>1, Nil DEF Standing

\* The taker, which has read the name, takes it and writes its own.
LEMMA TakerTakes ==
    ASSUME NEW st, NEW o, NEW t, NEW io, NEW it, NEW a, NEW b,
           Standing(st, o, t, io, it, a, b), b = "away", it = <<>>,
           io = <<>>, t, a \in {"away", "CONNECT_ACK"}, st = "accepted"
    PROVE  Standing(st, o, t, IF o THEN Append(io, Guid) ELSE io, it, a, "CONNECTED")
<1>1. (IF o THEN Append(io, Guid) ELSE io) = IF o THEN <<Guid>> ELSE <<>>
  BY Nil
<1>. QED  BY <1>1, Nil DEF Standing

LEMMA KernelEstablishes ==
    ASSUME NEW st, NEW o, NEW t, NEW io, NEW it, NEW a, NEW b,
           Standing(st, o, t, io, it, a, b), st = "connecting"
    PROVE  Standing("backlog", o, TRUE, io, it, a, b)
  BY DEF Standing

LEMMA KernelRefuses ==
    ASSUME NEW st, NEW o, NEW t, NEW io, NEW it, NEW a, NEW b,
           Standing(st, o, t, io, it, a, b), st = "connecting"
    PROVE  Standing("refused", o, t, io, it, a, b)
  BY DEF Standing

LEMMA ComponentAccepts ==
    ASSUME NEW st, NEW o, NEW t, NEW io, NEW it, NEW a, NEW b,
           Standing(st, o, t, io, it, a, b), st = "backlog"
    PROVE  Standing("accepted", o, t, io, it, a, b)
  BY DEF Standing

LEMMA KernelBreaks ==
    ASSUME NEW st, NEW o, NEW t, NEW io, NEW it, NEW a, NEW b,
           Standing(st, o, t, io, it, a, b), st = "accepted",
           NEW m \in 0..Len(io), NEW n \in 0..Len(it)
    PROVE  Standing("broken", o, t, SubSeq(io, 1, m), SubSeq(it, 1, n), a, b)
<1>1. /\ SubSeq(io, 1, m) \in Inbox
      /\ io = <<>> => SubSeq(io, 1, m) = <<>>
      /\ io \in FragSeq => SubSeq(io, 1, m) \in FragSeq
      /\ Greeted(io) => Greeted(SubSeq(io, 1, m))
  BY Arrived DEF Standing
<1>2. /\ SubSeq(it, 1, n) \in Inbox
      /\ it = <<>> => SubSeq(it, 1, n) = <<>>
      /\ it = <<Guid>> => SubSeq(it, 1, n) \in {<<>>, <<Guid>>}
      /\ it \in FragSeq => SubSeq(it, 1, n) \in FragSeq
  BY Arrived DEF Standing
<1>. QED  BY <1>1, <1>2 DEF Standing

----------------------------------------------------------------------------
(* All connections: the table cn of them with the endpoints ep *)

\* Where p stands on c: in the handshake, connected, or not there.
At(ep, p, c) == IF ep[p].sd = c THEN ep[p].state ELSE "away"

Line(cn, ep, c) ==
    LET p == c[1]
        q == Peer(c[1])
    IN  Standing(cn[c].st, cn[c].open[p], cn[c].open[q], cn[c].inbox[p], cn[c].inbox[q],
                 At(ep, p, c), At(ep, q, c))

Lines(cn, ep) == \A c \in Conn : Line(cn, ep, c)

Table == [Conn -> ConnRec]
Endpoints == [Proc -> EndpointRec]

LEMMA ConnsAre ==
    /\ NoSd \notin Conn
    /\ \A c \in Conn : c[1] \in Proc /\ c = <<c[1], c[2]>> /\ c[2] \in 1..MaxFrags + 1
    /\ \A p \in Proc, k \in 1..MaxFrags + 1 : <<p, k>> \in Conn /\ <<p, k>>[1] = p
  BY DEF Conn, NoSd

LEMMA TablesHave ==
    ASSUME NEW cn \in Table, NEW c \in Conn
    PROVE  /\ cn[c] \in ConnRec
           /\ \A p \in Proc : cn[c].open[p] \in BOOLEAN /\ cn[c].inbox[p] \in Inbox
  BY DEF Table, ConnRec

LEMMA EndpointsHave ==
    ASSUME NEW ep \in Endpoints, NEW p \in Proc
    PROVE  /\ ep[p] \in EndpointRec
           /\ ep[p].state \in {"CLOSED", "CONNECTING", "CONNECT_ACK", "CONNECTED"}
           /\ ep[p].sd \in Conn \cup {NoSd}
           /\ ep[p].frags \in FragSeq /\ ep[p].send_frag \in Frag \cup {NoFrag}
           /\ ep[p].send_event \in BOOLEAN
  BY DEF Endpoints, EndpointRec

LEMMA IdleIs ==
    /\ Idle \in ConnRec /\ Idle.st = "free"
    /\ \A p \in Proc : Idle.open[p] = FALSE /\ Idle.inbox[p] = <<>>
  BY Nil DEF Idle, ConnRec

LEMMA Shutting ==
    ASSUME NEW cn \in Table, NEW p \in Proc, NEW c \in Conn
    PROVE  LET d == Shut(cn, p, c)
               open == cn[c].open[Peer(p)]
           IN  /\ d \in Table
               /\ \A x \in Conn : x # c => d[x] = cn[x]
               /\ d[c].open[p] = FALSE /\ d[c].open[Peer(p)] = open
               /\ d[c].inbox[p] = <<>>
               /\ d[c].inbox[Peer(p)] = IF open THEN cn[c].inbox[Peer(p)] ELSE <<>>
               /\ d[c].st = IF open THEN cn[c].st ELSE "free"
               /\ ~open => d[c] = Idle
<1>. DEFINE q == Peer(p)
            k == cn[c]
            j == [k EXCEPT !.open[p] = FALSE, !.inbox[p] = <<>>]
<1>1. c # NoSd /\ q \in Proc /\ q # p
  BY ConnsAre, Peers
<1>2. k \in ConnRec /\ k.open[q] \in BOOLEAN
  BY <1>1, TablesHave
<1>3. /\ j \in ConnRec /\ j.open[p] = FALSE /\ j.open[q] = k.open[q]
      /\ j.inbox[p] = <<>> /\ j.inbox[q] = k.inbox[q] /\ j.st = k.st
  BY <1>1, <1>2, Nil DEF ConnRec
<1>4. Shut(cn, p, c) = [cn EXCEPT ![c] = IF k.open[q] THEN j ELSE Idle]
  BY <1>1 DEF Shut
<1>5. (IF k.open[q] THEN j ELSE Idle) \in ConnRec
  BY <1>3, IdleIs
<1>6. /\ Shut(cn, p, c) \in Table
      /\ \A x \in Conn : x # c => Shut(cn, p, c)[x] = cn[x]
      /\ Shut(cn, p, c)[c] = IF k.open[q] THEN j ELSE Idle
  BY <1>4, <1>5 DEF Table
<1>. HIDE DEF j
<1>7. CASE k.open[q]
  BY <1>2, <1>3, <1>6, <1>7
<1>8. CASE ~k.open[q]
  BY <1>1, <1>2, <1>3, <1>6, <1>8, IdleIs
<1>. QED  BY <1>2, <1>7, <1>8

LEMMA ShutElsewhere ==
    ASSUME NEW cn \in Table, NEW p \in Proc, NEW c \in Conn
    PROVE  Shut(cn, p, c) \in Table /\ \A x \in Conn : x # c => Shut(cn, p, c)[x] = cn[x]
<1>. DEFINE d == Shut(cn, p, c)
<1>1. d \in Table /\ \A x \in Conn : x # c => d[x] = cn[x]
  BY Shutting
<1>. QED  BY <1>1

\* What is left of c when p closes its end.
ShutAt(cn, p, c) ==
    /\ Shut(cn, p, c)[c].open[p] = FALSE /\ Shut(cn, p, c)[c].inbox[p] = <<>>
    /\ Shut(cn, p, c)[c].open[Peer(p)] = cn[c].open[Peer(p)]
    /\ cn[c].open[Peer(p)] = TRUE =>
         Shut(cn, p, c)[c].inbox[Peer(p)] = cn[c].inbox[Peer(p)]
    /\ Shut(cn, p, c)[c].inbox[Peer(p)] \in {cn[c].inbox[Peer(p)], <<>>}
    /\ Shut(cn, p, c)[c].st \in {cn[c].st, "free"}

LEMMA ShutHere ==
    ASSUME NEW cn \in Table, NEW p \in Proc, NEW c \in Conn
    PROVE  ShutAt(cn, p, c)
<1>. DEFINE d == Shut(cn, p, c)
<1>1. /\ d[c].open[p] = FALSE /\ d[c].open[Peer(p)] = cn[c].open[Peer(p)]
      /\ d[c].inbox[p] = <<>>
      /\ d[c].inbox[Peer(p)] = IF cn[c].open[Peer(p)] THEN cn[c].inbox[Peer(p)] ELSE <<>>
      /\ d[c].st = IF cn[c].open[Peer(p)] THEN cn[c].st ELSE "free"
  BY Shutting
<1>. HIDE DEF d
<1>2. ShutAt(cn, p, c) <=> /\ d[c].open[p] = FALSE /\ d[c].inbox[p] = <<>>
                           /\ d[c].open[Peer(p)] = cn[c].open[Peer(p)]
                           /\ cn[c].open[Peer(p)] = TRUE =>
                                d[c].inbox[Peer(p)] = cn[c].inbox[Peer(p)]
                           /\ d[c].inbox[Peer(p)] \in {cn[c].inbox[Peer(p)], <<>>}
                           /\ d[c].st \in {cn[c].st, "free"}
  BY DEF ShutAt, d
<1>. QED  BY <1>1, <1>2

LEMMA Writing ==
    ASSUME NEW cn \in Table, NEW p \in Proc, NEW c \in Conn, NEW m \in Frag \cup {Guid}
    PROVE  LET d == Write(cn, p, c, m)
               open == cn[c].open[Peer(p)]
               box == cn[c].inbox[Peer(p)]
           IN  /\ d \in Table
               /\ \A x \in Conn : x # c => d[x] = cn[x]
               /\ \A x \in Proc : d[c].open[x] = cn[c].open[x]
               /\ d[c].inbox[p] = cn[c].inbox[p] /\ d[c].st = cn[c].st
               /\ d[c].inbox[Peer(p)] = IF open THEN Append(box, m) ELSE box
<1>. DEFINE q == Peer(p)
            k == cn[c]
            j == [k EXCEPT !.inbox[q] = Append(@, m)]
<1>1. q \in Proc /\ q # p
  BY Peers
<1>2. k \in ConnRec /\ k.open[q] \in BOOLEAN /\ k.inbox[q] \in Inbox
  BY <1>1, TablesHave
<1>3. Append(k.inbox[q], m) \in Inbox
  BY <1>2, Inboxes
<1>4. /\ j \in ConnRec /\ j.open = k.open /\ j.st = k.st
      /\ j.inbox[p] = k.inbox[p] /\ j.inbox[q] = Append(k.inbox[q], m)
  BY <1>1, <1>2, <1>3 DEF ConnRec
<1>5. Write(cn, p, c, m) = IF k.open[q] THEN [cn EXCEPT ![c] = j] ELSE cn
  BY DEF Write
<1>. HIDE DEF j
<1>6. CASE k.open[q]
  <2>1. /\ Write(cn, p, c, m) \in Table
        /\ \A x \in Conn : x # c => Write(cn, p, c, m)[x] = cn[x]
        /\ Write(cn, p, c, m)[c] = j
    BY <1>4, <1>5, <1>6 DEF Table
  <2>. QED  BY <1>4, <1>6, <2>1
<1>7. CASE ~k.open[q]
  BY <1>5, <1>7
<1>. QED  BY <1>2, <1>6, <1>7

LEMMA Reading ==
    ASSUME NEW cn \in Table, NEW p \in Proc, NEW c \in Conn, cn[c].inbox[p] # <<>>
    PROVE  LET d == Read(cn, p, c)
           IN  /\ d \in Table
               /\ \A x \in Conn : x # c => d[x] = cn[x]
               /\ \A x \in Proc : d[c].open[x] = cn[c].open[x]
               /\ d[c].inbox[p] = Tail(cn[c].inbox[p]) /\ d[c].st = cn[c].st
               /\ d[c].inbox[Peer(p)] = cn[c].inbox[Peer(p)]
<1>. DEFINE q == Peer(p)
            k == cn[c]
            j == [k EXCEPT !.inbox[p] = Tail(@)]
<1>1. q \in Proc /\ q # p
  BY Peers
<1>2. k \in ConnRec /\ k.inbox[p] \in Inbox
  BY TablesHave
<1>3. Tail(k.inbox[p]) \in Inbox
  BY <1>2, Inboxes
<1>4. /\ j \in ConnRec /\ j.open = k.open /\ j.st = k.st
      /\ j.inbox[q] = k.inbox[q] /\ j.inbox[p] = Tail(k.inbox[p])
  BY <1>1, <1>2, <1>3 DEF ConnRec
<1>5. Read(cn, p, c) = [cn EXCEPT ![c] = j]
  BY DEF Read
<1>. HIDE DEF j
<1>6. /\ Read(cn, p, c) \in Table
      /\ \A x \in Conn : x # c => Read(cn, p, c)[x] = cn[x]
      /\ Read(cn, p, c)[c] = j
  BY <1>4, <1>5 DEF Table
<1>. QED  BY <1>4, <1>6

\* Of the endpoints only that of p changes.
Only(ep, ep2, p) == \A x \in Proc : x # p => ep2[x] = ep[x]

LEMMA LineOf ==
    ASSUME NEW cn, NEW ep, NEW cn2, NEW ep2, NEW c \in Conn, Line(cn, ep, c),
           cn2[c] = cn[c], \A x \in Proc : At(ep2, x, c) = At(ep, x, c)
    PROVE  Line(cn2, ep2, c)
<1>1. c[1] \in Proc /\ Peer(c[1]) \in Proc
  BY ConnsAre, Peers
<1>. QED  BY <1>1 DEF Line

LEMMA Aside ==
    ASSUME NEW ep, NEW ep2, NEW p \in Proc, NEW c \in Conn, Only(ep, ep2, p),
           \/ ep[p].sd # c /\ ep2[p].sd # c
           \/ ep2[p].sd = ep[p].sd /\ ep2[p].state = ep[p].state
    PROVE  \A x \in Proc : At(ep2, x, c) = At(ep, x, c)
  BY DEF Only, At

\* Who has a socket is on it as its state says.
LEMMA Stands ==
    ASSUME NEW cn \in Table, NEW ep \in Endpoints, Lines(cn, ep), NEW p \in Proc,
           ep[p].sd # NoSd
    PROVE  LET c == ep[p].sd
           IN  /\ c \in Conn /\ cn[c].open[p] /\ At(ep, p, c) = ep[p].state
               /\ ep[p].state # "CLOSED" /\ ep[p].state # "away"
               /\ c[1] = p \/ (c[1] = Peer(p) /\ Peer(c[1]) = p)
               /\ ep[p].state # "CONNECTED" => c[1] = p
               /\ c[1] # p => cn[c].st \in {"accepted", "broken"}
               /\ ep[p].state = "CONNECTED" => cn[c].inbox[p] \in FragSeq
<1>. DEFINE c == ep[p].sd
            q == Peer(p)
<1>1. c \in Conn /\ ep[p].state \in {"CLOSED", "CONNECTING", "CONNECT_ACK", "CONNECTED"}
  BY EndpointsHave
<1>2. /\ c[1] = p \/ (c[1] = q /\ Peer(c[1]) = p /\ c[1] # p)
      /\ Peer(p) # p
  BY <1>1, ConnsAre, Peers
<1>3. At(ep, p, c) = ep[p].state
  BY DEF At
<1>4. Line(cn, ep, c)
  BY <1>1 DEF Lines
<1>. HIDE DEF c
<1>5. CASE c[1] = p
  <2>1. Standing(cn[c].st, cn[c].open[p], cn[c].open[q], cn[c].inbox[p], cn[c].inbox[q],
                 ep[p].state, At(ep, q, c))
    BY <1>3, <1>4, <1>5 DEF Line
  <2>. QED  BY <1>1, <1>2, <1>3, <1>5, <2>1 DEF Standing, c
<1>6. CASE c[1] = q /\ Peer(c[1]) = p
  <2>1. Standing(cn[c].st, cn[c].open[q], cn[c].open[p], cn[c].inbox[q], cn[c].inbox[p],
                 At(ep, q, c), ep[p].state)
    BY <1>3, <1>4, <1>6 DEF Line
  <2>. QED  BY <1>1, <1>2, <1>3, <1>6, <2>1 DEF Standing, c
<1>. QED  BY <1>2, <1>5, <1>6

LEMMA LinesKept ==
    ASSUME NEW cn, NEW ep, NEW ep2, Lines(cn, ep),
           NEW p \in Proc, Only(ep, ep2, p),
           ep2[p].sd = ep[p].sd, ep2[p].state = ep[p].state
    PROVE  Lines(cn, ep2)
  BY Aside, LineOf DEF Lines

LEMMA LinesClose ==
    ASSUME NEW cn \in Table, NEW ep \in Endpoints, NEW ep2, Lines(cn, ep),
           NEW p \in Proc, Only(ep, ep2, p), ep[p].sd # NoSd, ep2[p].sd = NoSd
    PROVE  Lines(Shut(cn, p, ep[p].sd), ep2)
<1>. DEFINE c == ep[p].sd
            q == Peer(p)
            d == Shut(cn, p, c)
<1>1. /\ c \in Conn /\ At(ep, p, c) # "away"
      /\ c[1] = p \/ (c[1] = q /\ Peer(c[1]) = p)
      /\ c[1] # p => cn[c].st \in {"accepted", "broken"}
  BY Stands
<1>2. /\ \A x \in Conn : x # c => d[x] = cn[x]
      /\ d[c].open[p] = FALSE /\ d[c].open[q] = cn[c].open[q]
      /\ d[c].inbox[p] = <<>>
      /\ d[c].inbox[q] = IF cn[c].open[q] THEN cn[c].inbox[q] ELSE <<>>
      /\ d[c].st = IF cn[c].open[q] THEN cn[c].st ELSE "free"
  BY <1>1, Shutting
<1>3. At(ep2, p, c) = "away" /\ At(ep2, q, c) = At(ep, q, c)
  BY <1>1, ConnsAre, Peers DEF At, Only
<1>4. Line(cn, ep, c)
  BY <1>1 DEF Lines
<1>5. p # q
  BY Peers
<1>. HIDE DEF c, d
<1>6. Line(d, ep2, c)
  <2>1. CASE c[1] = p
    <3>1. Standing(cn[c].st, cn[c].open[p], cn[c].open[q], cn[c].inbox[p], cn[c].inbox[q],
                   At(ep, p, c), At(ep, q, c))
      BY <1>4, <2>1 DEF Line
    <3>2. cn[c].open[q] = FALSE => cn[c].inbox[q] = <<>>
      BY <3>1 DEF Standing
    <3>3. cn[c].open[q] \in BOOLEAN
      BY <3>1 DEF Standing
    <3>4. d[c].inbox[q] = cn[c].inbox[q]
      BY <1>2, <3>2, <3>3
    <3>5. Standing(IF cn[c].open[q] THEN cn[c].st ELSE "free", FALSE, cn[c].open[q],
                   <<>>, cn[c].inbox[q], "away", At(ep, q, c))
      BY <1>1, <3>1, OpenerCloses
    <3>6. Standing(d[c].st, d[c].open[p], d[c].open[q], d[c].inbox[p], d[c].inbox[q],
                   "away", At(ep, q, c))
      BY <1>2, <3>4, <3>5
    <3>. QED  BY <1>3, <2>1, <3>6 DEF Line
  <2>2. CASE c[1] = q /\ Peer(c[1]) = p
    <3>1. Standing(cn[c].st, cn[c].open[q], cn[c].open[p], cn[c].inbox[q], cn[c].inbox[p],
                   At(ep, q, c), At(ep, p, c))
      BY <1>4, <2>2 DEF Line
    <3>2. cn[c].open[q] = FALSE => cn[c].inbox[q] = <<>>
      BY <3>1 DEF Standing
    <3>3. cn[c].open[q] \in BOOLEAN
      BY <3>1 DEF Standing
    <3>4. d[c].inbox[q] = cn[c].inbox[q]
      BY <1>2, <3>2, <3>3
    <3>5. Standing(IF cn[c].open[q] THEN cn[c].st ELSE "free", cn[c].open[q], FALSE,
                   cn[c].inbox[q], <<>>, At(ep, q, c), "away")
      BY <1>1, <1>5, <2>2, <3>1, TakerCloses
    <3>6. Standing(d[c].st, d[c].open[q], d[c].open[p], d[c].inbox[q], d[c].inbox[p],
                   At(ep, q, c), "away")
      BY <1>2, <3>4, <3>5
    <3>. QED  BY <1>3, <2>2, <3>6 DEF Line
  <2>. QED  BY <1>1, <2>1, <2>2
<1>7. ASSUME NEW x \in Conn, x # c
      PROVE  Line(d, ep2, x)
  <2>1. Line(cn, ep, x)
    BY DEF Lines
  <2>2. ep[p].sd # x /\ ep2[p].sd # x
    BY <1>7, ConnsAre DEF c
  <2>. QED  BY <1>2, <1>7, <2>1, <2>2, Aside, LineOf
<1>8. Lines(d, ep2)
  BY <1>6, <1>7 DEF Lines
<1>. QED  BY <1>8 DEF c, d

\* The taker closes a connection it has not taken.
LEMMA LinesReject ==
    ASSUME NEW cn \in Table, NEW ep, NEW c \in Conn, NEW p \in Proc, Lines(cn, ep),
           c[1] = Peer(p), ep[p].sd # c, cn[c].st \in {"accepted", "broken"}
    PROVE  Lines(Shut(cn, p, c), ep)
<1>. DEFINE q == Peer(p)
            d == Shut(cn, p, c)
<1>1. /\ \A x \in Conn : x # c => d[x] = cn[x]
      /\ d[c].open[p] = FALSE /\ d[c].open[q] = cn[c].open[q]
      /\ d[c].inbox[p] = <<>>
      /\ d[c].inbox[q] = IF cn[c].open[q] THEN cn[c].inbox[q] ELSE <<>>
      /\ d[c].st = IF cn[c].open[q] THEN cn[c].st ELSE "free"
  BY Shutting
<1>2. Peer(c[1]) = p
  BY Peers
<1>3. At(ep, p, c) = "away"
  BY DEF At
<1>4. Line(cn, ep, c)
  BY DEF Lines
<1>. HIDE DEF d
<1>5. Standing(cn[c].st, cn[c].open[q], cn[c].open[p], cn[c].inbox[q], cn[c].inbox[p],
               At(ep, q, c), "away")
  BY <1>2, <1>3, <1>4 DEF Line
<1>6. cn[c].open[q] = FALSE => cn[c].inbox[q] = <<>>
  BY <1>5 DEF Standing
<1>7. cn[c].open[q] \in BOOLEAN
  BY <1>5 DEF Standing
<1>8. d[c].inbox[q] = cn[c].inbox[q]
  BY <1>1, <1>6, <1>7
<1>9. Standing(IF cn[c].open[q] THEN cn[c].st ELSE "free", cn[c].open[q], FALSE,
               cn[c].inbox[q], <<>>, At(ep, q, c), "away")
  BY <1>5, TakerCloses
<1>a. Standing(d[c].st, d[c].open[q], d[c].open[p], d[c].inbox[q], d[c].inbox[p],
               At(ep, q, c), "away")
  BY <1>1, <1>8, <1>9
<1>10. Line(d, ep, c)
  BY <1>2, <1>3, <1>a DEF Line
<1>11. \A x \in Conn : x # c => Line(d, ep, x)
  BY <1>1, LineOf DEF Lines
<1>. QED  BY <1>10, <1>11 DEF Lines, d

\* One line changes, and at most the endpoint of p, which is not on another.
LEMMA LinesBut ==
    ASSUME NEW cn, NEW cn2, NEW ep, NEW ep2, Lines(cn, ep), NEW c \in Conn,
           NEW p \in Proc, Only(ep, ep2, p),
           \A x \in Conn : x # c => cn2[x] = cn[x] /\ ep[p].sd # x /\ ep2[p].sd # x,
           Line(cn2, ep2, c)
    PROVE  Lines(cn2, ep2)
<1>1. ASSUME NEW x \in Conn, x # c
      PROVE  Line(cn2, ep2, x)
  <2>1. Line(cn, ep, x)
    BY DEF Lines
  <2>2. cn2[x] = cn[x] /\ ep[p].sd # x /\ ep2[p].sd # x
    BY <1>1
  <2>. QED  BY <2>1, <2>2, Aside, LineOf
<1>. QED  BY <1>1 DEF Lines

\* The opener writes its name: the connect is complete.
LEMMA LinesGreet ==
    ASSUME NEW cn \in Table, NEW ep \in Endpoints, NEW ep2, Lines(cn, ep),
           NEW p \in Proc, Only(ep, ep2, p), ep[p].sd # NoSd, ep2[p].sd = ep[p].sd,
           ep[p].state = "CONNECTING", ep2[p].state = "CONNECT_ACK",
           cn[ep[p].sd].st \notin {"connecting", "refused"}
    PROVE  Lines(Write(cn, p, ep[p].sd, Guid), ep2)
<1>. DEFINE c == ep[p].sd
            q == Peer(p)
            d == Write(cn, p, c, Guid)
<1>1. /\ c \in Conn /\ At(ep, p, c) = "CONNECTING" /\ c[1] = p
  BY Stands
<1>2. /\ \A x \in Conn : x # c => d[x] = cn[x]
      /\ \A x \in Proc : d[c].open[x] = cn[c].open[x]
      /\ d[c].inbox[p] = cn[c].inbox[p] /\ d[c].st = cn[c].st
      /\ d[c].inbox[q] = IF cn[c].open[q] THEN Append(cn[c].inbox[q], Guid)
                                          ELSE cn[c].inbox[q]
  BY <1>1, Writing
<1>3. At(ep2, p, c) = "CONNECT_ACK" /\ At(ep2, q, c) = At(ep, q, c) /\ q \in Proc
  BY Peers DEF At, Only
<1>4. Line(cn, ep, c)
  BY <1>1 DEF Lines
<1>5. cn[c].st \notin {"connecting", "refused"}
  OBVIOUS
<1>. HIDE DEF c, d
<1>6. Standing(cn[c].st, cn[c].open[p], cn[c].open[q], cn[c].inbox[p], cn[c].inbox[q],
               "CONNECTING", At(ep, q, c))
  BY <1>1, <1>4 DEF Line
<1>7. Standing(cn[c].st, cn[c].open[p], cn[c].open[q], cn[c].inbox[p],
               IF cn[c].open[q] THEN Append(cn[c].inbox[q], Guid) ELSE cn[c].inbox[q],
               "CONNECT_ACK", At(ep, q, c))
  BY <1>5, <1>6, OpenerGreets
<1>8. Standing(d[c].st, d[c].open[p], d[c].open[q], d[c].inbox[p], d[c].inbox[q],
               "CONNECT_ACK", At(ep, q, c))
  BY <1>2, <1>3, <1>7
<1>9. Line(d, ep2, c)
  BY <1>1, <1>3, <1>8 DEF Line
<1>10. \A x \in Conn : x # c => ep[p].sd # x /\ ep2[p].sd # x
  BY DEF c
<1>11. Lines(d, ep2)
  BY <1>1, <1>2, <1>9, <1>10, LinesBut
<1>. QED  BY <1>11 DEF c, d

\* A fragment is written.
LEMMA LinesWrite ==
    ASSUME NEW cn \in Table, NEW ep \in Endpoints, NEW ep2, Lines(cn, ep),
           NEW p \in Proc, Only(ep, ep2, p), ep[p].sd # NoSd, ep2[p].sd = ep[p].sd,
           ep[p].state = "CONNECTED", ep2[p].state = "CONNECTED",
           cn[ep[p].sd].st # "broken", NEW m \in Frag
    PROVE  Lines(Write(cn, p, ep[p].sd, m), ep2)
<1>. DEFINE c == ep[p].sd
            q == Peer(p)
            d == Write(cn, p, c, m)
<1>1. /\ c \in Conn /\ At(ep, p, c) = "CONNECTED"
      /\ c[1] = p \/ (c[1] = q /\ Peer(c[1]) = p)
  BY Stands
<1>2. /\ \A x \in Conn : x # c => d[x] = cn[x]
      /\ \A x \in Proc : d[c].open[x] = cn[c].open[x]
      /\ d[c].inbox[p] = cn[c].inbox[p] /\ d[c].st = cn[c].st
      /\ d[c].inbox[q] = IF cn[c].open[q] THEN Append(cn[c].inbox[q], m)
                                          ELSE cn[c].inbox[q]
  BY <1>1, Writing
<1>3. At(ep2, p, c) = "CONNECTED" /\ At(ep2, q, c) = At(ep, q, c) /\ q \in Proc
  BY Peers DEF At, Only
<1>4. Line(cn, ep, c)
  BY <1>1 DEF Lines
<1>5. cn[c].st # "broken"
  OBVIOUS
<1>. HIDE DEF c, d
<1>6. Line(d, ep2, c)
  <2>1. CASE c[1] = p
    <3>1. Standing(cn[c].st, cn[c].open[p], cn[c].open[q], cn[c].inbox[p], cn[c].inbox[q],
                   "CONNECTED", At(ep, q, c))
      BY <1>1, <1>4, <2>1 DEF Line
    <3>2. Standing(cn[c].st, cn[c].open[p], cn[c].open[q], cn[c].inbox[p],
                   IF cn[c].open[q] THEN Append(cn[c].inbox[q], m) ELSE cn[c].inbox[q],
                   "CONNECTED", At(ep, q, c))
      BY <3>1, OpenerWrites
    <3>3. Standing(d[c].st, d[c].open[p], d[c].open[q], d[c].inbox[p], d[c].inbox[q],
                   "CONNECTED", At(ep, q, c))
      BY <1>2, <1>3, <3>2
    <3>. QED  BY <1>3, <2>1, <3>3 DEF Line
  <2>2. CASE c[1] = q /\ Peer(c[1]) = p
    <3>1. Standing(cn[c].st, cn[c].open[q], cn[c].open[p], cn[c].inbox[q], cn[c].inbox[p],
                   At(ep, q, c), "CONNECTED")
      BY <1>1, <1>4, <2>2 DEF Line
    <3>2. Standing(cn[c].st, cn[c].open[q], cn[c].open[p],
                   IF cn[c].open[q] THEN Append(cn[c].inbox[q], m) ELSE cn[c].inbox[q],
                   cn[c].inbox[p], At(ep, q, c), "CONNECTED")
      BY <1>5, <3>1, TakerWrites
    <3>3. Standing(d[c].st, d[c].open[q], d[c].open[p], d[c].inbox[q], d[c].inbox[p],
                   At(ep, q, c), "CONNECTED")
      BY <1>2, <1>3, <3>2
    <3>. QED  BY <1>3, <2>2, <3>3 DEF Line
  <2>. QED  BY <1>1, <2>1, <2>2
<1>7. \A x \in Conn : x # c => ep[p].sd # x /\ ep2[p].sd # x
  BY DEF c
<1>8. Lines(d, ep2)
  BY <1>1, <1>2, <1>6, <1>7, LinesBut
<1>. QED  BY <1>8 DEF c, d

\* The name or a fragment is read.
LEMMA LinesRead ==
    ASSUME NEW cn \in Table, NEW ep \in Endpoints, NEW ep2, Lines(cn, ep),
           NEW p \in Proc, Only(ep, ep2, p), ep[p].sd # NoSd, ep2[p].sd = ep[p].sd,
           ep[p].state \in {"CONNECT_ACK", "CONNECTED"}, ep2[p].state = "CONNECTED",
           cn[ep[p].sd].inbox[p] # <<>>
    PROVE  Lines(Read(cn, p, ep[p].sd), ep2)
<1>. DEFINE c == ep[p].sd
            q == Peer(p)
            d == Read(cn, p, c)
<1>1. /\ c \in Conn /\ At(ep, p, c) = ep[p].state
      /\ c[1] = p \/ (c[1] = q /\ Peer(c[1]) = p /\ ep[p].state = "CONNECTED")
  BY Stands
<1>2. /\ \A x \in Conn : x # c => d[x] = cn[x]
      /\ \A x \in Proc : d[c].open[x] = cn[c].open[x]
      /\ d[c].inbox[p] = Tail(cn[c].inbox[p]) /\ d[c].st = cn[c].st
      /\ d[c].inbox[q] = cn[c].inbox[q]
  BY <1>1, Reading
<1>3. At(ep2, p, c) = "CONNECTED" /\ At(ep2, q, c) = At(ep, q, c) /\ q \in Proc
  BY Peers DEF At, Only
<1>4. Line(cn, ep, c)
  BY <1>1 DEF Lines
<1>5. cn[c].inbox[p] # <<>> /\ ep[p].state \in {"CONNECT_ACK", "CONNECTED"}
  OBVIOUS
<1>. HIDE DEF c, d
<1>6. Line(d, ep2, c)
  <2>1. CASE c[1] = p
    <3>1. Standing(cn[c].st, cn[c].open[p], cn[c].open[q], cn[c].inbox[p], cn[c].inbox[q],
                   ep[p].state, At(ep, q, c))
      BY <1>1, <1>4, <2>1 DEF Line
    <3>2. Standing(cn[c].st, cn[c].open[p], cn[c].open[q], Tail(cn[c].inbox[p]),
                   cn[c].inbox[q], "CONNECTED", At(ep, q, c))
      BY <1>5, <3>1, OpenerReads
    <3>3. Standing(d[c].st, d[c].open[p], d[c].open[q], d[c].inbox[p], d[c].inbox[q],
                   "CONNECTED", At(ep, q, c))
      BY <1>2, <1>3, <3>2
    <3>. QED  BY <1>3, <2>1, <3>3 DEF Line
  <2>2. CASE c[1] = q /\ Peer(c[1]) = p /\ ep[p].state = "CONNECTED"
    <3>1. Standing(cn[c].st, cn[c].open[q], cn[c].open[p], cn[c].inbox[q], cn[c].inbox[p],
                   At(ep, q, c), "CONNECTED")
      BY <1>1, <1>4, <2>2 DEF Line
    <3>2. Standing(cn[c].st, cn[c].open[q], cn[c].open[p], cn[c].inbox[q],
                   Tail(cn[c].inbox[p]), At(ep, q, c), "CONNECTED")
      BY <1>5, <3>1, TakerReads
    <3>3. Standing(d[c].st, d[c].open[q], d[c].open[p], d[c].inbox[q], d[c].inbox[p],
                   At(ep, q, c), "CONNECTED")
      BY <1>2, <1>3, <3>2
    <3>. QED  BY <1>3, <2>2, <3>3 DEF Line
  <2>. QED  BY <1>1, <2>1, <2>2
<1>7. \A x \in Conn : x # c => ep[p].sd # x /\ ep2[p].sd # x
  BY DEF c
<1>8. Lines(d, ep2)
  BY <1>1, <1>2, <1>6, <1>7, LinesBut
<1>. QED  BY <1>8 DEF c, d

\* What is on a connection c that p is not on, with a name to read.
NameWaits(cn, ep, p, c) ==
    /\ Lines(Read(cn, p, c), ep) /\ Read(cn, p, c)[c].inbox[p] = <<>>
    /\ cn[c].open[p] = TRUE /\ cn[c].inbox[p] = <<Guid>> /\ cn[c].inbox[Peer(p)] = <<>>
    /\ At(ep, Peer(p), c) \in {"away", "CONNECT_ACK"}

\* The component of p reads the name on a connection that p is not on.
LEMMA LinesName ==
    ASSUME NEW cn \in Table, NEW ep, Lines(cn, ep), NEW p \in Proc, NEW c \in Conn,
           c[1] = Peer(p), ep[p].sd # c, cn[c].inbox[p] # <<>>
    PROVE  NameWaits(cn, ep, p, c)
<1>. DEFINE q == Peer(p)
            d == Read(cn, p, c)
<1>1. /\ \A x \in Conn : x # c => d[x] = cn[x]
      /\ \A x \in Proc : d[c].open[x] = cn[c].open[x]
      /\ d[c].inbox[p] = Tail(cn[c].inbox[p]) /\ d[c].st = cn[c].st
      /\ d[c].inbox[q] = cn[c].inbox[q]
  BY Reading
<1>2. Peer(c[1]) = p /\ q \in Proc /\ At(ep, p, c) = "away"
  BY Peers DEF At
<1>3. Line(cn, ep, c)
  BY DEF Lines
<1>. HIDE DEF d
<1>4. Standing(cn[c].st, cn[c].open[q], cn[c].open[p], cn[c].inbox[q], cn[c].inbox[p],
               At(ep, q, c), "away")
  BY <1>2, <1>3 DEF Line
<1>5. /\ cn[c].inbox[p] = <<Guid>> /\ At(ep, q, c) \in {"away", "CONNECT_ACK"}
      /\ cn[c].open[p] /\ cn[c].inbox[q] = <<>>
  BY <1>4, NameFound
<1>6. Standing(cn[c].st, cn[c].open[q], cn[c].open[p], cn[c].inbox[q],
               Tail(cn[c].inbox[p]), At(ep, q, c), "away")
  BY <1>4, NameRead
<1>7. Line(d, ep, c)
  BY <1>1, <1>2, <1>6 DEF Line
<1>8. \A x \in Conn : x # c => Line(d, ep, x)
  BY <1>1, LineOf DEF Lines
<1>9. cn[c].open[p] = TRUE
  BY <1>4, <1>5 DEF Standing
<1>10. Lines(d, ep)
  BY <1>7, <1>8 DEF Lines
<1>11. d[c].inbox[p] = <<>>
  BY <1>1, <1>5, Nil
<1>. QED  BY <1>5, <1>9, <1>10, <1>11 DEF NameWaits, d

\* It gives p the connection, and p writes its own name there.
LEMMA LinesTake ==
    ASSUME NEW cn \in Table, NEW ep, NEW ep2, Lines(cn, ep), NEW p \in Proc, NEW c \in Conn,
           Only(ep, ep2, p), c[1] = Peer(p), ep[p].sd = NoSd,
           ep2[p].sd = c, ep2[p].state = "CONNECTED",
           cn[c].inbox[p] = <<>>, cn[c].inbox[Peer(p)] = <<>>, cn[c].open[p] = TRUE,
           cn[c].st = "accepted", At(ep, Peer(p), c) \in {"away", "CONNECT_ACK"}
    PROVE  Lines(Write(cn, p, c, Guid), ep2)
<1>. DEFINE q == Peer(p)
            d == Write(cn, p, c, Guid)
<1>1. /\ \A x \in Conn : x # c => d[x] = cn[x]
      /\ \A x \in Proc : d[c].open[x] = cn[c].open[x]
      /\ d[c].inbox[p] = cn[c].inbox[p] /\ d[c].st = cn[c].st
      /\ d[c].inbox[q] = IF cn[c].open[q] THEN Append(cn[c].inbox[q], Guid)
                                          ELSE cn[c].inbox[q]
  <2>1. ASSUME NEW e \in Conn
        PROVE  LET w == Write(cn, p, e, Guid)
                   box == cn[e].inbox[q]
               IN  /\ \A x \in Conn : x # e => w[x] = cn[x]
                   /\ \A x \in Proc : w[e].open[x] = cn[e].open[x]
                   /\ w[e].inbox[p] = cn[e].inbox[p] /\ w[e].st = cn[e].st
                   /\ w[e].inbox[q] = IF cn[e].open[q] THEN Append(box, Guid) ELSE box
    BY Writing
  <2>. QED  BY <2>1
<1>2. /\ Peer(c[1]) = p /\ q \in Proc /\ At(ep, p, c) = "away"
      /\ At(ep2, p, c) = "CONNECTED" /\ At(ep2, q, c) = At(ep, q, c)
  BY Peers, ConnsAre DEF At, Only
<1>3. Line(cn, ep, c)
  BY DEF Lines
<1>. HIDE DEF d
<1>4. Standing(cn[c].st, cn[c].open[q], cn[c].open[p], cn[c].inbox[q], cn[c].inbox[p],
               At(ep, q, c), "away")
  BY <1>2, <1>3 DEF Line
<1>5. Standing(cn[c].st, cn[c].open[q], cn[c].open[p],
               IF cn[c].open[q] THEN Append(cn[c].inbox[q], Guid) ELSE cn[c].inbox[q],
               cn[c].inbox[p], At(ep, q, c), "CONNECTED")
  BY <1>4, TakerTakes
<1>6. Standing(d[c].st, d[c].open[q], d[c].open[p], d[c].inbox[q], d[c].inbox[p],
               At(ep, q, c), "CONNECTED")
  BY <1>1, <1>2, <1>5
<1>7. Line(d, ep2, c)
  BY <1>2, <1>6 DEF Line
<1>8. \A x \in Conn : x # c => ep[p].sd # x /\ ep2[p].sd # x
  BY ConnsAre
<1>9. Lines(d, ep2)
  BY <1>1, <1>7, <1>8, LinesBut
<1>. QED  BY <1>9 DEF d

\* A connection k that p has just opened, with the state of p.
JustOpen(k, state, p) ==
    /\ k.open[p] = TRUE /\ k.inbox[p] = <<>>
    /\ \/ /\ state = "CONNECTING" /\ k.st = "connecting"
          /\ k.open[Peer(p)] = FALSE /\ k.inbox[Peer(p)] = <<>>
       \/ /\ state = "CONNECT_ACK" /\ k.st = "backlog"
          /\ k.open[Peer(p)] = TRUE /\ k.inbox[Peer(p)] = <<Guid>>

\* p opens a connection that was not in use.
LEMMA LinesOpen ==
    ASSUME NEW cn \in Table, NEW cn2, NEW ep, NEW ep2, Lines(cn, ep),
           NEW p \in Proc, NEW c \in Conn, Only(ep, ep2, p),
           c[1] = p, ep[p].sd = NoSd, ep2[p].sd = c, cn[c] = Idle,
           \A x \in Conn : x # c => cn2[x] = cn[x],
           JustOpen(cn2[c], ep2[p].state, p)
    PROVE  Lines(cn2, ep2)
<1>. DEFINE q == Peer(p)
<1>1. /\ q \in Proc /\ At(ep2, p, c) = ep2[p].state /\ At(ep2, q, c) = At(ep, q, c)
  BY Peers DEF At, Only
<1>2. Line(cn, ep, c)
  BY DEF Lines
<1>3. Idle.st = "free" /\ Idle.open[q] = FALSE
  BY <1>1, IdleIs
<1>4. At(ep, q, c) = "away"
  <2>1. Standing(cn[c].st, cn[c].open[p], cn[c].open[q], cn[c].inbox[p], cn[c].inbox[q],
                 At(ep, p, c), At(ep, q, c))
    BY <1>2 DEF Line
  <2>2. Standing("free", cn[c].open[p], FALSE, cn[c].inbox[p], cn[c].inbox[q],
                 At(ep, p, c), At(ep, q, c))
    BY <1>3, <2>1
  <2>. QED  BY <2>2 DEF Standing
<1>5. Line(cn2, ep2, c)
  <2>1. CASE ep2[p].state = "CONNECTING"
    <3>1. Standing("connecting", TRUE, FALSE, <<>>, <<>>, "CONNECTING", "away")
      BY Nil DEF Standing
    <3>. QED  BY <1>1, <1>4, <2>1, <3>1 DEF Line, JustOpen
  <2>2. CASE ep2[p].state = "CONNECT_ACK"
    <3>1. Standing("backlog", TRUE, TRUE, <<>>, <<Guid>>, "CONNECT_ACK", "away")
      BY Nil DEF Standing
    <3>. QED  BY <1>1, <1>4, <2>2, <3>1 DEF Line, JustOpen
  <2>. QED  BY <2>1, <2>2 DEF JustOpen
<1>6. \A x \in Conn : x # c => ep[p].sd # x /\ ep2[p].sd # x
  BY ConnsAre
<1>. QED  BY <1>5, <1>6, LinesBut

----------------------------------------------------------------------------
(* One endpoint *)

\* The fragments e still has.
Pend(e) == (IF e.send_frag = NoFrag THEN <<>> ELSE <<e.send_frag>>) \o e.frags

LEMMA PendIs ==
    ASSUME NEW e \in EndpointRec
    PROVE  /\ Pend(e) \in FragSeq
           /\ e.send_frag = NoFrag => Pend(e) = e.frags
           /\ e.send_frag # NoFrag =>
                /\ Pend(e) # <<>> /\ Head(Pend(e)) = e.send_frag /\ Tail(Pend(e)) = e.frags
<1>1. e.frags \in Seq(Frag) /\ e.send_frag \in Frag \cup {NoFrag}
  BY DEF EndpointRec, FragSeq
<1>2. CASE e.send_frag = NoFrag
  BY <1>1, <1>2, ConcatEmptySeq DEF Pend, FragSeq
<1>3. CASE e.send_frag # NoFrag
  <2>. DEFINE s == <<e.send_frag>> \o e.frags
  <2>1. Pend(e) = s
    BY <1>3 DEF Pend
  <2>2. <<e.send_frag>> \in Seq(Frag) /\ Len(<<e.send_frag>>) = 1
        /\ <<e.send_frag>>[1] = e.send_frag
    BY <1>1, <1>3
  <2>3. Len(e.frags) \in Nat
    BY <1>1, LenProperties
  <2>4. /\ s \in Seq(Frag) /\ Len(s) = 1 + Len(e.frags)
        /\ \A i \in 1..1 + Len(e.frags) :
             s[i] = IF i <= 1 THEN <<e.send_frag>>[i] ELSE e.frags[i - 1]
    BY <1>1, <2>2, ConcatProperties
  <2>. HIDE DEF s
  <2>5. s # <<>> /\ s[1] = e.send_frag
    BY <2>2, <2>3, <2>4
  <2>6. /\ Tail(s) \in Seq(Frag) /\ Len(Tail(s)) = Len(e.frags)
        /\ \A i \in 1..Len(e.frags) : Tail(s)[i] = s[i + 1]
    BY <2>3, <2>4, <2>5, HeadTailProperties
  <2>7. \A i \in 1..Len(e.frags) : s[i + 1] = e.frags[i]
    BY <2>3, <2>4
  <2>8. Tail(s) = e.frags
    BY <1>1, <2>3, <2>6, <2>7, SeqEqual
  <2>9. Head(s) = s[1]
    BY <2>4
  <2>. QED  BY <1>3, <2>1, <2>4, <2>5, <2>8, <2>9 DEF FragSeq
<1>. QED  BY <1>2, <1>3

LEMMA QueuedIs ==
    ASSUME NEW e \in EndpointRec, NEW n \in Frag
    PROVE  LET f == Queued(e, n)
           IN  /\ f \in EndpointRec /\ f.sd = e.sd /\ f.state = e.state
               /\ f.send_frag = e.send_frag /\ f.send_event = e.send_event
               /\ f.frags # <<>>
               /\ Pend(f) = Append(Pend(e), n)
<1>. DEFINE f == Queued(e, n)
<1>1. e.frags \in FragSeq /\ e.send_frag \in Frag \cup {NoFrag}
  BY DEF EndpointRec
<1>2. Append(e.frags, n) \in FragSeq /\ Append(e.frags, n) # <<>>
  BY <1>1, FragSeqs
<1>3. /\ f \in EndpointRec /\ f.sd = e.sd /\ f.state = e.state
      /\ f.send_frag = e.send_frag /\ f.send_event = e.send_event
      /\ f.frags = Append(e.frags, n)
  BY <1>2 DEF EndpointRec, Queued
<1>. HIDE DEF f
<1>4. CASE e.send_frag = NoFrag
  <2>1. Pend(f) = f.frags /\ Pend(e) = e.frags
    BY <1>3, <1>4, PendIs
  <2>. QED  BY <1>2, <1>3, <2>1 DEF f
<1>5. CASE e.send_frag # NoFrag
  <2>1. <<e.send_frag>> \in Seq(Frag) /\ <<n>> \in Seq(Frag) /\ e.frags \in Seq(Frag)
    BY <1>1, <1>5 DEF FragSeq
  <2>2. /\ Append(e.frags, n) = e.frags \o <<n>>
        /\ (<<e.send_frag>> \o e.frags) \in Seq(Frag)
    BY <2>1, AppendIsConcat, ConcatProperties
  <2>3. Append(<<e.send_frag>> \o e.frags, n) = (<<e.send_frag>> \o e.frags) \o <<n>>
    BY <2>2, AppendIsConcat
  <2>4. (<<e.send_frag>> \o e.frags) \o <<n>> = <<e.send_frag>> \o (e.frags \o <<n>>)
    <3>1. \A r, s, t \in Seq(Frag) : (r \o s) \o t = r \o (s \o t)
      BY ConcatAssociative
    <3>. QED  BY <2>1, <3>1
  <2>5. Pend(f) = <<e.send_frag>> \o f.frags /\ Pend(e) = <<e.send_frag>> \o e.frags
    BY <1>3, <1>5 DEF Pend
  <2>. QED  BY <1>2, <1>3, <2>2, <2>3, <2>4, <2>5 DEF f
<1>. QED  BY <1>4, <1>5

LEMMA CloseIs ==
    ASSUME NEW e \in EndpointRec
    PROVE  LET f == Close(e)
           IN  /\ f \in EndpointRec /\ f.sd = NoSd
               /\ f.send_frag = e.send_frag /\ f.frags = e.frags /\ Pend(f) = Pend(e)
               /\ e.sd # NoSd => f.state = "CLOSED" /\ f.send_event = FALSE
               /\ e.sd = NoSd => f = e
<1>1. /\ Close(e) \in EndpointRec /\ Close(e).sd = NoSd
      /\ Close(e).send_frag = e.send_frag /\ Close(e).frags = e.frags
      /\ e.sd # NoSd => Close(e).state = "CLOSED" /\ Close(e).send_event = FALSE
      /\ e.sd = NoSd => Close(e) = e
  BY DEF EndpointRec, Close
<1>. QED  BY <1>1 DEF Pend

LEMMA ConnectedIs ==
    ASSUME NEW e \in EndpointRec
    PROVE  LET f == Connected(e)
           IN  /\ f \in EndpointRec /\ f.sd = e.sd /\ f.state = "CONNECTED"
               /\ Pend(f) = Pend(e)
               /\ f.send_frag = NoFrag => f.frags = <<>>
               /\ e.send_frag = NoFrag /\ f.send_frag # NoFrag => f.send_event = TRUE
<1>. DEFINE f == Connected(e)
<1>1. e.frags \in FragSeq /\ e.send_frag \in Frag \cup {NoFrag}
  BY DEF EndpointRec
<1>2. CASE e.frags = <<>> \/ e.send_frag # NoFrag
  <2>1. /\ f \in EndpointRec /\ f.sd = e.sd /\ f.state = "CONNECTED"
        /\ f.send_frag = e.send_frag /\ f.frags = e.frags
    BY <1>2 DEF EndpointRec, Connected
  <2>. HIDE DEF f
  <2>2. Pend(f) = Pend(e)
    BY <2>1 DEF Pend
  <2>. QED  BY <1>2, <2>1, <2>2 DEF f
<1>3. CASE e.frags # <<>> /\ e.send_frag = NoFrag
  <2>1. Head(e.frags) \in Frag /\ Tail(e.frags) \in FragSeq
    BY <1>1, <1>3, FragSeqs
  <2>2. /\ f \in EndpointRec /\ f.sd = e.sd /\ f.state = "CONNECTED"
        /\ f.send_frag = Head(e.frags) /\ f.frags = Tail(e.frags)
        /\ f.send_event = TRUE
    BY <1>3, <2>1 DEF EndpointRec, Connected
  <2>. HIDE DEF f
  <2>3. f.send_frag # NoFrag
    BY <2>1, <2>2, FragNotGuid
  <2>4. /\ Pend(e) = e.frags /\ Pend(e) \in FragSeq /\ Pend(f) \in FragSeq
        /\ Pend(f) # <<>> /\ Head(Pend(f)) = Head(e.frags) /\ Tail(Pend(f)) = Tail(e.frags)
    BY <1>3, <2>2, <2>3, PendIs
  <2>5. Pend(f) = e.frags
    BY <1>3, <2>4, SameHeadTail
  <2>. QED  BY <2>2, <2>3, <2>4, <2>5 DEF f
<1>. QED  BY <1>2, <1>3

----------------------------------------------------------------------------
(* The inductive invariant of the sockets *)

\* No socket has been used but one for each fragment sent at most.
Unused == \A p \in Proc : \A k \in 1..MaxFrags + 1 : k > sent[p] => conn[<<p, k>>] = Idle

Closed == \A p \in Proc : endpoint[p].state = "CLOSED" <=> endpoint[p].sd = NoSd

\* The current fragment is the first.
CurrentFirst ==
    \A p \in Proc : endpoint[p].state = "CONNECTED" /\ endpoint[p].send_frag = NoFrag
                        => endpoint[p].frags = <<>>

SocketInv == Types /\ Lines(conn, endpoint) /\ Closed /\ Unused /\ CurrentFirst

LEMMA FreeSocketIs ==
    ASSUME Types, Unused, NEW p \in Proc, sent[p] + 1 \in Frag
    PROVE  \E k \in 1..sent[p] + 1 : /\ FreeSocket(p) = <<p, k>> /\ conn[<<p, k>>] = Idle
                                     /\ <<p, k>> \in Conn
<1>1. sent[p] \in 0..MaxFrags /\ sent[p] + 1 \in 1..MaxFrags
  BY DEF Types, Frag
<1>2. conn[<<p, sent[p] + 1>>] = Idle
  BY <1>1 DEF Unused
<1>. DEFINE m == CHOOSE k \in 1..sent[p] + 1 : conn[<<p, k>>] = Idle
<1>3. m \in 1..sent[p] + 1 /\ conn[<<p, m>>] = Idle
  BY <1>1, <1>2
<1>4. FreeSocket(p) = <<p, m>>
  BY DEF FreeSocket
<1>. HIDE DEF m
<1>5. <<p, m>> \in Conn
  BY <1>1, <1>3, ConnsAre
<1>. QED  BY <1>3, <1>4, <1>5

\* The steps of an endpoint p leave the other's alone.
LEMMA Becomes ==
    ASSUME NEW ep \in Endpoints, NEW p \in Proc, NEW f \in EndpointRec
    PROVE  LET ep2 == [ep EXCEPT ![p] = f]
           IN  ep2 \in Endpoints /\ ep2[p] = f /\ Only(ep, ep2, p)
  BY DEF Endpoints, Only

LEMMA InvHas ==
    ASSUME SocketInv, NEW p \in Proc
    PROVE  /\ endpoint \in Endpoints /\ conn \in Table /\ endpoint[p] \in EndpointRec
           /\ endpoint[p].state = "CLOSED" <=> endpoint[p].sd = NoSd
           /\ sent \in [Proc -> 0..MaxFrags] /\ delivered \in [Proc -> FragSeq]
           /\ failures \in 0..MaxFailures /\ breaks \in 0..MaxBreaks
           /\ \A c \in Conn : conn[c].open[p] => conn[c] # Idle
<1>1. endpoint \in Endpoints /\ conn \in Table
  BY DEF SocketInv, Types, Endpoints, Table
<1>2. Idle.open[p] = FALSE
  BY IdleIs
<1>. QED  BY <1>1, <1>2 DEF SocketInv, Types, Closed, Endpoints

LEMMA SocketStep ==
    ASSUME SocketInv, NEW p \in Proc, NEW f \in EndpointRec,
           endpoint' = [endpoint EXCEPT ![p] = f],
           conn' \in Table, Lines(conn', endpoint'),
           f.state = "CLOSED" <=> f.sd = NoSd,
           f.state = "CONNECTED" /\ f.send_frag = NoFrag => f.frags = <<>>,
           \A x \in Proc, k \in 1..MaxFrags + 1 :
             k > sent'[x] /\ conn[<<x, k>>] = Idle => conn'[<<x, k>>] = Idle,
           sent' \in [Proc -> 0..MaxFrags], \A x \in Proc : sent'[x] >= sent[x],
           delivered' \in [Proc -> FragSeq], failures' \in 0..MaxFailures,
           breaks' \in 0..MaxBreaks
    PROVE  SocketInv'
<1>1. /\ endpoint' \in Endpoints /\ endpoint'[p] = f
      /\ \A x \in Proc : x # p => endpoint'[x] = endpoint[x]
  <2>1. endpoint \in Endpoints
    BY InvHas
  <2>. QED  BY <2>1 DEF Endpoints
<1>2. Types'
  BY <1>1 DEF Types, Endpoints, Table
<1>3. Closed'
  BY <1>1 DEF SocketInv, Closed
<1>4. CurrentFirst'
  BY <1>1 DEF SocketInv, CurrentFirst
<1>5. Unused'
  <2>1. \A x \in Proc : sent[x] \in Int /\ sent'[x] \in Int
    BY InvHas
  <2>2. Unused
    BY DEF SocketInv
  <2>3. ASSUME NEW x \in Proc, NEW k \in 1..MaxFrags + 1, k > sent'[x]
        PROVE  conn'[<<x, k>>] = Idle
    <3>1. k > sent[x]
      BY <2>1, <2>3
    <3>. QED  BY <2>2, <2>3, <3>1 DEF Unused
  <2>. QED  BY <2>3 DEF Unused
<1>. QED  BY <1>2, <1>3, <1>4, <1>5 DEF SocketInv

\* As most steps do: what was not in use still is not.
LEMMA SocketStepSent ==
    ASSUME SocketInv, NEW p \in Proc, NEW f \in EndpointRec,
           endpoint' = [endpoint EXCEPT ![p] = f],
           conn' \in Table, Lines(conn', endpoint'),
           f.state = "CLOSED" <=> f.sd = NoSd,
           f.state = "CONNECTED" /\ f.send_frag = NoFrag => f.frags = <<>>,
           \A x \in Conn : conn[x] = Idle => conn'[x] = Idle,
           \/ UNCHANGED sent
           \/ sent[p] + 1 \in Frag /\ sent' = [sent EXCEPT ![p] = sent[p] + 1],
           delivered' \in [Proc -> FragSeq], failures' \in 0..MaxFailures,
           UNCHANGED breaks
    PROVE  SocketInv'
<1>1. breaks' \in 0..MaxBreaks
  BY InvHas
<1>2. sent' \in [Proc -> 0..MaxFrags] /\ \A x \in Proc : sent'[x] >= sent[x]
  <2>1. sent \in [Proc -> 0..MaxFrags]
    BY InvHas
  <2>2. CASE UNCHANGED sent
    BY <2>1, <2>2
  <2>3. CASE sent[p] + 1 \in Frag /\ sent' = [sent EXCEPT ![p] = sent[p] + 1]
    BY <2>1, <2>3 DEF Frag
  <2>. QED  BY <2>2, <2>3
<1>3. \A x \in Proc, k \in 1..MaxFrags + 1 :
        k > sent'[x] /\ conn[<<x, k>>] = Idle => conn'[<<x, k>>] = Idle
  BY ConnsAre
<1>. QED  BY <1>1, <1>2, <1>3, SocketStep

\* Who is connected and has no current fragment has none; with one more it is
\* the current one.
LEMMA Holds ==
    ASSUME SocketInv, NEW p \in Proc, endpoint[p].state = "CONNECTED"
    PROVE  /\ endpoint[p].sd \in Conn
           /\ endpoint[p].send_frag = NoFrag => endpoint[p].frags = <<>>
  BY InvHas, EndpointsHave DEF SocketInv, CurrentFirst

----------------------------------------------------------------------------
(* What a send does *)

\* The fragment stays at the end of the queue.
Grows(e, f, n) ==
    /\ f \in EndpointRec /\ f.sd = e.sd /\ f.state = e.state
    /\ Pend(f) = Append(Pend(e), n)
    /\ e.state # "CONNECTED" => f.send_frag = e.send_frag
    /\ e.state = "CONNECTED" =>
         /\ f.send_frag # NoFrag
         /\ f.send_event = TRUE \/ (e.send_frag # NoFrag /\ f.send_event = e.send_event)

Grow(p, n) ==
    /\ \E f : endpoint' = [endpoint EXCEPT ![p] = f] /\ Grows(endpoint[p], f, n)
    /\ UNCHANGED conn

\* ... and a connection is opened for it.
Opens(p, c, f, n) ==
    /\ endpoint[p].state = "CLOSED" /\ f \in EndpointRec /\ f.sd = c
    /\ Pend(f) = Append(Pend(endpoint[p]), n) /\ f.send_frag = endpoint[p].send_frag
    /\ conn[c] = Idle /\ conn' \in Table /\ \A x \in Conn : x # c => conn'[x] = conn[x]
    /\ JustOpen(conn'[c], f.state, p)

Open(p, n) ==
    \E k \in 1..sent[p] + 1 : \E f :
        <<p, k>> \in Conn /\ endpoint' = [endpoint EXCEPT ![p] = f] /\ Opens(p, <<p, k>>, f, n)

LEMMA PendOne ==
    ASSUME NEW e \in EndpointRec, NEW n \in Frag, e.frags = <<>>, e.send_frag = n
    PROVE  Pend(e) = <<n>> /\ Append(<<>>, n) = <<n>>
<1>1. <<n>> \o <<>> = <<n>>
  BY ConcatEmptySeq
<1>. QED  BY <1>1, FragNotGuid DEF Pend

LEMMA SendConnectingIs ==
    ASSUME SocketInv, NEW p \in Proc, NEW n \in Frag, SendConnecting(p, n)
    PROVE  Grow(p, n) /\ UNCHANGED failures
<1>. DEFINE e == endpoint[p]
            f == Queued(e, n)
<1>1. endpoint' = [endpoint EXCEPT ![p] = f] /\ UNCHANGED <<conn, failures>>
      /\ e.state # "CONNECTED"
  BY DEF SendConnecting
<1>2. e \in EndpointRec
  BY InvHas
<1>. HIDE DEF e
<1>3. /\ f \in EndpointRec /\ f.sd = e.sd /\ f.state = e.state
      /\ f.send_frag = e.send_frag /\ Pend(f) = Append(Pend(e), n)
  BY <1>2, QueuedIs
<1>4. Grows(e, f, n)
  BY <1>1, <1>3 DEF Grows
<1>. QED  BY <1>1, <1>4 DEF Grow, e

LEMMA SendBehindIs ==
    ASSUME SocketInv, NEW p \in Proc, NEW n \in Frag, SendBehind(p, n)
    PROVE  Grow(p, n) /\ UNCHANGED failures
<1>. DEFINE e == endpoint[p]
            f == Queued(e, n)
<1>1. endpoint' = [endpoint EXCEPT ![p] = f] /\ UNCHANGED <<conn, failures>>
      /\ e.send_frag # NoFrag
  BY DEF SendBehind
<1>2. e \in EndpointRec
  BY InvHas
<1>. HIDE DEF e
<1>3. /\ f \in EndpointRec /\ f.sd = e.sd /\ f.state = e.state
      /\ f.send_frag = e.send_frag /\ f.send_event = e.send_event
      /\ Pend(f) = Append(Pend(e), n)
  BY <1>2, QueuedIs
<1>4. Grows(e, f, n)
  BY <1>1, <1>3 DEF Grows
<1>. QED  BY <1>1, <1>4 DEF Grow, e

LEMMA SendFirstIs ==
    ASSUME SocketInv, NEW p \in Proc, NEW n \in Frag, SendFirst(p, n)
    PROVE  Grow(p, n) /\ UNCHANGED failures
<1>. DEFINE e == endpoint[p]
            f == [e EXCEPT !.send_frag = n, !.send_event = TRUE]
<1>1. /\ endpoint' = [endpoint EXCEPT ![p].send_frag = n, ![p].send_event = TRUE]
      /\ UNCHANGED <<conn, failures>> /\ e.state = "CONNECTED" /\ e.send_frag = NoFrag
  BY DEF SendFirst
<1>2. endpoint \in [Proc -> EndpointRec]
  BY InvHas DEF Endpoints
<1>3. endpoint' = [endpoint EXCEPT ![p] = f]
  BY <1>1, <1>2
<1>4. e \in EndpointRec /\ e.frags = <<>>
  BY <1>1, InvHas, Holds
<1>. HIDE DEF e
<1>5. /\ f \in EndpointRec /\ f.sd = e.sd /\ f.state = e.state /\ f.frags = e.frags
      /\ f.send_frag = n /\ f.send_event = TRUE
  BY <1>4 DEF EndpointRec
<1>. HIDE DEF f
<1>6. Pend(f) = Append(Pend(e), n)
  <2>1. Pend(f) = <<n>> /\ Append(<<>>, n) = <<n>>
    BY <1>4, <1>5, PendOne
  <2>2. Pend(e) = <<>>
    BY <1>1, <1>4, PendIs
  <2>. QED  BY <2>1, <2>2
<1>7. Grows(e, f, n)
  BY <1>1, <1>5, <1>6, FragNotGuid DEF Grows
<1>. QED  BY <1>1, <1>3, <1>7 DEF Grow, e

LEMMA SendClosedIs ==
    ASSUME SocketInv, NEW p \in Proc, sent[p] + 1 \in Frag, SendClosed(p, sent[p] + 1)
    PROVE  /\ Grow(p, sent[p] + 1) \/ Open(p, sent[p] + 1)
           /\ failures' \in 0..MaxFailures
<1>. DEFINE n == sent[p] + 1
            e == Queued(endpoint[p], n)
            c == FreeSocket(p)
            q == Peer(p)
            new == [Idle EXCEPT !.open[p] = TRUE]
            first == [new EXCEPT !.st = "connecting"]
            second == [new EXCEPT !.st = "backlog", !.open[q] = TRUE, !.inbox[q] = <<Guid>>]
<1>1. endpoint[p].state = "CLOSED" /\ StartConnect(p, e)
  BY DEF SendClosed
<1>2. PICK k \in 1..sent[p] + 1 : c = <<p, k>> /\ conn[<<p, k>>] = Idle /\ <<p, k>> \in Conn
  BY FreeSocketIs DEF SocketInv
<1>3. /\ e \in EndpointRec /\ e.sd = endpoint[p].sd /\ e.state = "CLOSED"
      /\ e.send_frag = endpoint[p].send_frag
      /\ Pend(e) = Append(Pend(endpoint[p]), n)
  BY <1>1, InvHas, QueuedIs
<1>4. conn \in Table /\ q \in Proc /\ q # p /\ failures \in 0..MaxFailures
  BY InvHas, Peers
<1>5. /\ first \in ConnRec /\ second \in ConnRec
      /\ first.open[p] = TRUE /\ first.inbox[p] = <<>> /\ first.st = "connecting"
      /\ first.open[q] = FALSE /\ first.inbox[q] = <<>>
      /\ second.open[p] = TRUE /\ second.inbox[p] = <<>> /\ second.st = "backlog"
      /\ second.open[q] = TRUE /\ second.inbox[q] = <<Guid>>
  BY <1>4, Nil DEF Idle, ConnRec
<1>6. ASSUME NEW state \in {"CONNECTING", "CONNECT_ACK"}, NEW event \in BOOLEAN
      PROVE  LET f == [e EXCEPT !.state = state, !.sd = c, !.send_event = event]
             IN  /\ f \in EndpointRec /\ f.sd = c /\ f.state = state
                 /\ f.send_frag = endpoint[p].send_frag
                 /\ Pend(f) = Append(Pend(endpoint[p]), n)
  <2>. DEFINE f == [e EXCEPT !.state = state, !.sd = c, !.send_event = event]
  <2>. HIDE DEF e
  <2>1. /\ f \in EndpointRec /\ f.sd = c /\ f.state = state
        /\ f.send_frag = e.send_frag /\ f.frags = e.frags
    BY <1>2, <1>3 DEF EndpointRec
  <2>2. \A g : g.send_frag = e.send_frag /\ g.frags = e.frags => Pend(g) = Pend(e)
    BY DEF Pend
  <2>3. Pend(f) = Pend(e)
    BY <2>1, <2>2
  <2>. QED  BY <1>3, <2>1, <2>3
<1>7. CASE /\ endpoint' = [endpoint EXCEPT ![p] =
                [e EXCEPT !.state = "CONNECTING", !.sd = c, !.send_event = TRUE]]
           /\ conn' = [conn EXCEPT ![c] = first]
           /\ UNCHANGED failures
  <2>. DEFINE f == [e EXCEPT !.state = "CONNECTING", !.sd = c, !.send_event = TRUE]
  <2>1. /\ f \in EndpointRec /\ f.sd = c /\ f.state = "CONNECTING"
        /\ f.send_frag = endpoint[p].send_frag /\ Pend(f) = Append(Pend(endpoint[p]), n)
    BY <1>6
  <2>2. endpoint' = [endpoint EXCEPT ![p] = f]
    BY <1>7
  <2>. HIDE DEF f, first, c
  <2>3. /\ conn' \in Table /\ conn'[c] = first
        /\ \A x \in Conn : x # c => conn'[x] = conn[x]
    BY <1>2, <1>4, <1>5, <1>7 DEF Table
  <2>4. Opens(p, c, f, n)
    BY <1>1, <1>2, <1>5, <2>1, <2>3 DEF Opens, JustOpen
  <2>5. Open(p, n)
    BY <1>2, <2>2, <2>4 DEF Open
  <2>. QED  BY <1>4, <1>7, <2>5
<1>8. CASE /\ endpoint' = [endpoint EXCEPT ![p] =
                [e EXCEPT !.state = "CONNECT_ACK", !.sd = c, !.send_event = FALSE]]
           /\ conn' = [conn EXCEPT ![c] = second]
           /\ UNCHANGED failures
  <2>. DEFINE f == [e EXCEPT !.state = "CONNECT_ACK", !.sd = c, !.send_event = FALSE]
  <2>1. /\ f \in EndpointRec /\ f.sd = c /\ f.state = "CONNECT_ACK"
        /\ f.send_frag = endpoint[p].send_frag /\ Pend(f) = Append(Pend(endpoint[p]), n)
    BY <1>6
  <2>2. endpoint' = [endpoint EXCEPT ![p] = f]
    BY <1>8
  <2>. HIDE DEF f, second, c
  <2>3. /\ conn' \in Table /\ conn'[c] = second
        /\ \A x \in Conn : x # c => conn'[x] = conn[x]
    BY <1>2, <1>4, <1>5, <1>8 DEF Table
  <2>4. Opens(p, c, f, n)
    BY <1>1, <1>2, <1>5, <2>1, <2>3 DEF Opens, JustOpen
  <2>5. Open(p, n)
    BY <1>2, <2>2, <2>4 DEF Open
  <2>. QED  BY <1>4, <1>8, <2>5
<1>9. CASE /\ failures < MaxFailures /\ failures' = failures + 1
           /\ \E event \in {e.send_event, FALSE} :
                endpoint' = [endpoint EXCEPT ![p] = [e EXCEPT !.send_event = event]]
           /\ UNCHANGED conn
  <2>1. PICK event \in {e.send_event, FALSE} :
                endpoint' = [endpoint EXCEPT ![p] = [e EXCEPT !.send_event = event]]
    BY <1>9
  <2>. DEFINE f == [e EXCEPT !.send_event = event]
  <2>. HIDE DEF e
  <2>2. /\ f \in EndpointRec /\ f.sd = e.sd /\ f.state = e.state
        /\ f.send_frag = e.send_frag /\ f.frags = e.frags
    BY <1>3, <2>1 DEF EndpointRec
  <2>a. \A g : g.send_frag = e.send_frag /\ g.frags = e.frags => Pend(g) = Pend(e)
    BY DEF Pend
  <2>3. Pend(f) = Pend(e)
    BY <2>2, <2>a
  <2>4. Grows(endpoint[p], f, n)
    BY <1>1, <1>3, <2>2, <2>3 DEF Grows
  <2>5. Grow(p, n)
    BY <1>9, <2>1, <2>4 DEF Grow
  <2>. QED  BY <1>4, <1>9, <2>5
<1>. QED  BY <1>1, <1>7, <1>8, <1>9 DEF StartConnect

----------------------------------------------------------------------------
(* What the handlers of a process p do, p going over to the endpoint f *)

Sets(p, f) ==
    /\ endpoint' = [endpoint EXCEPT ![p] = f] /\ f \in EndpointRec
    /\ f.state = "CLOSED" <=> f.sd = NoSd
    /\ f.state = "CONNECTED" /\ f.send_frag = NoFrag => f.frags = <<>>

\* The socket is closed: the connect was refused, the connection is broken, or
\* the other end has closed it and everything is read.
Closes(p, f) ==
    LET c == endpoint[p].sd
    IN  /\ Sets(p, f) /\ c # NoSd /\ f.sd = NoSd
        /\ f.send_frag = endpoint[p].send_frag /\ Pend(f) = Pend(endpoint[p])
        /\ conn' = Shut(conn, p, c)
        /\ \/ conn[c].st = "broken"
           \/ conn[c].st = "refused" /\ endpoint[p].state = "CONNECTING"
           \/ /\ conn[c].open[Peer(p)] = FALSE /\ conn[c].inbox[p] = <<>>
              /\ endpoint[p].state \in {"CONNECT_ACK", "CONNECTED"}

Greets(p, f) ==
    LET c == endpoint[p].sd
    IN  /\ Sets(p, f) /\ c # NoSd /\ f.sd = c
        /\ endpoint[p].state = "CONNECTING" /\ f.state = "CONNECT_ACK"
        /\ conn[c].st \notin {"connecting", "refused"}
        /\ f.send_frag = endpoint[p].send_frag /\ Pend(f) = Pend(endpoint[p])
        /\ conn' = Write(conn, p, c, Guid)

\* The first fragment is written.
Writes(p, f, m) ==
    LET c == endpoint[p].sd
    IN  /\ Sets(p, f) /\ c # NoSd /\ f.sd = c
        /\ endpoint[p].state = "CONNECTED" /\ f.state = "CONNECTED"
        /\ conn[c].st # "broken"
        /\ f.send_frag # NoFrag => /\ endpoint[p].send_frag # NoFrag
                                   /\ f.send_event = endpoint[p].send_event
        /\ m \in Frag /\ conn' = Write(conn, p, c, m)

\* The send event finds nothing to do.
Rests(p, f) ==
    /\ Sets(p, f) /\ endpoint[p].state = "CLOSED" /\ f.state = "CLOSED"
    /\ f.sd = endpoint[p].sd /\ f.send_frag = endpoint[p].send_frag
    /\ Pend(f) = Pend(endpoint[p]) /\ UNCHANGED conn

\* The name of the peer, or a fragment, is read.
Names(p, f) ==
    LET c == endpoint[p].sd
    IN  /\ Sets(p, f) /\ c # NoSd /\ f.sd = c
        /\ endpoint[p].state = "CONNECT_ACK" /\ f.state = "CONNECTED"
        /\ conn[c].inbox[p] # <<>>
        /\ endpoint[p].send_frag = NoFrag /\ f.send_frag # NoFrag => f.send_event = TRUE
        /\ Pend(f) = Pend(endpoint[p])
        /\ conn' = Read(conn, p, c)

Delivers(p) ==
    LET c == endpoint[p].sd
    IN  /\ c # NoSd /\ endpoint[p].state = "CONNECTED"
        /\ conn[c].inbox[p] # <<>>
        /\ conn' = Read(conn, p, c)

\* A connection that came in is turned away.
Rejects(p, c) ==
    /\ c \in Conn /\ c[1] = Peer(p) /\ c # endpoint[p].sd
    /\ conn[c].st \in {"accepted", "broken"} /\ conn[c].open[p]
    /\ conn' = Shut(conn, p, c)

\* ... or takes the place of the socket of p, if the name of p can be sent.
Joins(p, f, c) ==
    /\ c \in Conn /\ c[1] = Peer(p) /\ c # endpoint[p].sd
    /\ conn[c].open[p] /\ conn[c].inbox[p] # <<>> /\ Accepts(p)
    /\ Sets(p, f) /\ Pend(f) = Pend(endpoint[p])

Takes(p, f, c) ==
    /\ Joins(p, f, c) /\ conn[c].st = "accepted"
    /\ f.sd = c /\ f.state = "CONNECTED"
    /\ endpoint[p].send_frag = NoFrag /\ f.send_frag # NoFrag => f.send_event = TRUE
    /\ conn' = Write(Shut(Read(conn, p, c), p, endpoint[p].sd), p, c, Guid)

Fails(p, f, c) ==
    /\ Joins(p, f, c) /\ conn[c].st = "broken"
    /\ f.sd = NoSd
    /\ conn' = Shut(Shut(Read(conn, p, c), p, endpoint[p].sd), p, c)

LEMMA CloseEndpointIs ==
    ASSUME SocketInv, NEW p \in Proc, CloseEndpoint(p), endpoint[p].sd # NoSd,
           \/ conn[endpoint[p].sd].st = "broken"
           \/ conn[endpoint[p].sd].st = "refused" /\ endpoint[p].state = "CONNECTING"
           \/ /\ conn[endpoint[p].sd].open[Peer(p)] = FALSE
              /\ conn[endpoint[p].sd].inbox[p] = <<>>
              /\ endpoint[p].state \in {"CONNECT_ACK", "CONNECTED"}
    PROVE  Closes(p, Close(endpoint[p]))
<1>. DEFINE e == endpoint[p]
            f == Close(e)
<1>1. endpoint' = [endpoint EXCEPT ![p] = f] /\ conn' = Shut(conn, p, e.sd)
  BY DEF CloseEndpoint
<1>2. e \in EndpointRec
  BY InvHas
<1>3. /\ f \in EndpointRec /\ f.sd = NoSd /\ f.state = "CLOSED"
      /\ f.send_frag = e.send_frag /\ Pend(f) = Pend(e)
  BY <1>2, CloseIs
<1>. HIDE DEF f
<1>4. Sets(p, f)
  BY <1>1, <1>3 DEF Sets
<1>. QED  BY <1>1, <1>3, <1>4 DEF Closes, f

\* What AtEnd() finds when it says that there is nothing to come.
LEMMA AtEndIs ==
    ASSUME SocketInv, NEW p \in Proc, NEW c \in Conn, AtEnd(p, c)
    PROVE  /\ conn[c].inbox[p] = <<>>
           /\ \/ conn[c].st = "broken"
              \/ conn[c].st = "accepted" /\ conn[c].open[Peer(p)] = FALSE
<1>1. conn[c].open[Peer(p)] \in BOOLEAN
  BY InvHas, TablesHave, Peers
<1>. QED  BY <1>1 DEF AtEnd, HasData

LEMMA OnSocket ==
    ASSUME SocketInv, NEW p \in Proc, endpoint[p].state # "CLOSED"
    PROVE  endpoint[p].sd # NoSd /\ endpoint[p].sd \in Conn
  BY InvHas, EndpointsHave

LEMMA CompleteConnectIs ==
    ASSUME SocketInv, NEW p \in Proc, CompleteConnect(p)
    PROVE  \E f : Closes(p, f) \/ Greets(p, f)
<1>. DEFINE e == endpoint[p]
            c == e.sd
            f == [e EXCEPT !.state = "CONNECT_ACK", !.send_event = FALSE]
<1>1. /\ e.state = "CONNECTING" /\ conn[c].st # "connecting"
      /\ \/ conn[c].st \in {"refused", "broken"} /\ CloseEndpoint(p)
         \/ /\ conn[c].st \notin {"refused", "broken"}
            /\ endpoint' = [endpoint EXCEPT ![p].state = "CONNECT_ACK",
                                            ![p].send_event = FALSE]
            /\ conn' = Write(conn, p, c, Guid)
  BY DEF CompleteConnect
<1>2. c # NoSd /\ c \in Conn /\ e \in EndpointRec /\ endpoint \in [Proc -> EndpointRec]
  BY <1>1, OnSocket, InvHas DEF Endpoints
<1>3. CASE conn[c].st \in {"refused", "broken"} /\ CloseEndpoint(p)
  BY <1>1, <1>2, <1>3, CloseEndpointIs
<1>4. CASE /\ conn[c].st \notin {"refused", "broken"}
           /\ endpoint' = [endpoint EXCEPT ![p].state = "CONNECT_ACK",
                                           ![p].send_event = FALSE]
           /\ conn' = Write(conn, p, c, Guid)
  <2>1. endpoint' = [endpoint EXCEPT ![p] = f]
    BY <1>2, <1>4
  <2>2. /\ f \in EndpointRec /\ f.sd = c /\ f.state = "CONNECT_ACK"
        /\ f.send_frag = e.send_frag /\ f.frags = e.frags
    BY <1>2 DEF EndpointRec
  <2>. HIDE DEF f
  <2>3. \A g : g.send_frag = e.send_frag /\ g.frags = e.frags => Pend(g) = Pend(e)
    BY DEF Pend
  <2>4. Pend(f) = Pend(e)
    BY <2>2, <2>3
  <2>5. Sets(p, f)
    BY <1>2, <2>1, <2>2 DEF Sets
  <2>6. Greets(p, f)
    BY <1>1, <1>2, <1>4, <2>2, <2>4, <2>5 DEF Greets
  <2>. QED  BY <2>6
<1>. QED  BY <1>1, <1>3, <1>4

\* The socket is closed because the fragment n could not be written, which
\* becomes the current one.
Loses(p, f, n) ==
    LET c == endpoint[p].sd
    IN  /\ Sets(p, f) /\ c # NoSd /\ f.sd = NoSd
        /\ Pend(f) = Append(Pend(endpoint[p]), n)
        /\ conn' = Shut(conn, p, c) /\ conn[c].st = "broken"

LEMMA SendNowIs ==
    ASSUME SocketInv, NEW p \in Proc, NEW n \in Frag, SendNow(p, n)
    PROVE  /\ Writes(p, endpoint[p], n) /\ Pend(endpoint[p]) = <<>>
           /\ UNCHANGED failures
<1>. DEFINE e == endpoint[p]
<1>1. /\ e.state = "CONNECTED" /\ e.send_frag = NoFrag /\ conn[e.sd].st # "broken"
      /\ conn' = Write(conn, p, e.sd, n) /\ endpoint' = endpoint /\ UNCHANGED failures
  BY DEF SendNow, Writable
<1>2. e.sd # NoSd /\ e \in EndpointRec /\ endpoint \in [Proc -> EndpointRec]
  BY <1>1, OnSocket, InvHas DEF Endpoints
<1>3. endpoint' = [endpoint EXCEPT ![p] = e]
  BY <1>1, <1>2
<1>4. e.frags = <<>>
  BY <1>1, Holds
<1>5. Sets(p, e)
  BY <1>1, <1>2, <1>3, <1>4 DEF Sets
<1>6. Pend(e) = <<>>
  BY <1>1, <1>2, <1>4, PendIs
<1>. QED  BY <1>1, <1>2, <1>5, <1>6 DEF Writes

LEMMA SendBrokenIs ==
    ASSUME SocketInv, NEW p \in Proc, NEW n \in Frag, SendBroken(p, n)
    PROVE  /\ \E f : Loses(p, f, n)
           /\ UNCHANGED failures
<1>. DEFINE e == endpoint[p]
            g == Close(e)
            f == [g EXCEPT !.send_frag = n, !.send_event = TRUE]
<1>1. /\ e.state = "CONNECTED" /\ e.send_frag = NoFrag /\ ~Writable(e.sd)
      /\ endpoint' = [endpoint EXCEPT ![p] = f]
      /\ conn' = Shut(conn, p, e.sd) /\ UNCHANGED failures
  BY DEF SendBroken
<1>2. e.sd # NoSd /\ e \in EndpointRec /\ e.frags = <<>> /\ conn[e.sd].st = "broken"
  BY <1>1, OnSocket, InvHas, Holds DEF Writable
<1>3. /\ g \in EndpointRec /\ g.sd = NoSd /\ g.state = "CLOSED" /\ g.frags = <<>>
  BY <1>2, CloseIs
<1>. HIDE DEF g
<1>4. /\ f \in EndpointRec /\ f.sd = NoSd /\ f.state = "CLOSED"
      /\ f.send_frag = n /\ f.frags = <<>>
  BY <1>3 DEF EndpointRec
<1>. HIDE DEF f
<1>5. Pend(f) = <<n>> /\ Append(<<>>, n) = <<n>>
  BY <1>4, PendOne
<1>6. Pend(e) = <<>>
  BY <1>1, <1>2, PendIs
<1>7. Sets(p, f)
  BY <1>1, <1>4 DEF Sets
<1>8. Loses(p, f, n)
  BY <1>1, <1>2, <1>4, <1>5, <1>6, <1>7 DEF Loses
<1>. QED  BY <1>1, <1>8

LEMMA SendCurrentIs ==
    ASSUME SocketInv, NEW p \in Proc, SendCurrent(p)
    PROVE  \/ \E f : Closes(p, f)
           \/ \E f : /\ Pend(endpoint[p]) # <<>>
                     /\ Writes(p, f, Head(Pend(endpoint[p])))
                     /\ Pend(f) = Tail(Pend(endpoint[p]))
<1>. DEFINE e == endpoint[p]
            c == e.sd
            last == [e EXCEPT !.send_frag = NoFrag, !.send_event = FALSE]
            next == [e EXCEPT !.send_frag = Head(e.frags), !.frags = Tail(e.frags)]
            f == IF e.frags = <<>> THEN last ELSE next
<1>1. e.state = "CONNECTED" /\ e.send_frag # NoFrag
  BY DEF SendCurrent
<1>2. /\ c # NoSd /\ e \in EndpointRec /\ e.frags \in FragSeq
      /\ e.send_frag \in Frag /\ endpoint \in [Proc -> EndpointRec]
  BY <1>1, OnSocket, InvHas DEF Endpoints, EndpointRec
<1>3. CASE ~Writable(c) /\ CloseEndpoint(p)
  BY <1>2, <1>3, CloseEndpointIs DEF Writable
<1>4. CASE /\ Writable(c)
           /\ endpoint' = [endpoint EXCEPT ![p] =
                IF e.frags = <<>>
                THEN [@ EXCEPT !.send_frag = NoFrag, !.send_event = FALSE]
                ELSE [@ EXCEPT !.send_frag = Head(e.frags), !.frags = Tail(e.frags)]]
           /\ conn' = Write(conn, p, c, e.send_frag)
  <2>1. endpoint' = [endpoint EXCEPT ![p] = f]
    BY <1>2, <1>4
  <2>2. /\ Pend(e) # <<>> /\ Head(Pend(e)) = e.send_frag /\ Tail(Pend(e)) = e.frags
    BY <1>1, <1>2, PendIs
  <2>3. CASE e.frags = <<>>
    <3>1. /\ f \in EndpointRec /\ f.sd = c /\ f.state = "CONNECTED"
          /\ f.send_frag = NoFrag /\ f.frags = <<>>
      BY <1>1, <1>2, <2>3 DEF EndpointRec
    <3>. HIDE DEF f
    <3>2. Pend(f) = <<>>
      BY <3>1, PendIs
    <3>3. Sets(p, f)
      BY <1>2, <2>1, <3>1 DEF Sets
    <3>4. Writes(p, f, e.send_frag)
      BY <1>1, <1>2, <1>4, <3>1, <3>3 DEF Writes, Writable
    <3>. QED  BY <2>2, <2>3, <3>2, <3>4
  <2>4. CASE e.frags # <<>>
    <3>1. Head(e.frags) \in Frag /\ Tail(e.frags) \in FragSeq
      BY <1>2, <2>4, FragSeqs
    <3>2. /\ f \in EndpointRec /\ f.sd = c /\ f.state = "CONNECTED"
          /\ f.send_frag = Head(e.frags) /\ f.frags = Tail(e.frags)
          /\ f.send_event = e.send_event
      BY <1>1, <1>2, <2>4, <3>1 DEF EndpointRec
    <3>. HIDE DEF f
    <3>3. f.send_frag # NoFrag
      BY <3>1, <3>2, FragNotGuid
    <3>4. Pend(f) = e.frags
      <4>1. /\ Pend(f) \in FragSeq /\ Pend(f) # <<>>
            /\ Head(Pend(f)) = Head(e.frags) /\ Tail(Pend(f)) = Tail(e.frags)
        BY <3>2, <3>3, PendIs
      <4>. QED  BY <1>2, <2>4, <4>1, SameHeadTail
    <3>5. Sets(p, f)
      BY <1>2, <2>1, <3>2, <3>3 DEF Sets
    <3>6. Writes(p, f, e.send_frag)
      BY <1>1, <1>2, <1>4, <3>2, <3>5 DEF Writes, Writable
    <3>. QED  BY <2>2, <3>4, <3>6
  <2>. QED  BY <2>3, <2>4
<1>. QED  BY <1>3, <1>4 DEF SendCurrent

LEMMA SendInvalidIs ==
    ASSUME SocketInv, NEW p \in Proc, SendInvalid(p)
    PROVE  \E f : Rests(p, f)
<1>. DEFINE e == endpoint[p]
            f == [e EXCEPT !.send_event = FALSE]
<1>1. /\ e.state = "CLOSED" /\ UNCHANGED conn
      /\ endpoint' = [endpoint EXCEPT ![p].send_event = FALSE]
  BY DEF SendInvalid
<1>2. e \in EndpointRec /\ endpoint \in [Proc -> EndpointRec] /\ e.sd = NoSd
  BY <1>1, InvHas DEF Endpoints
<1>3. endpoint' = [endpoint EXCEPT ![p] = f]
  BY <1>1, <1>2
<1>4. /\ f \in EndpointRec /\ f.sd = e.sd /\ f.state = "CLOSED"
      /\ f.send_frag = e.send_frag /\ f.frags = e.frags
  BY <1>1, <1>2 DEF EndpointRec
<1>. HIDE DEF f
<1>5. \A g : g.send_frag = e.send_frag /\ g.frags = e.frags => Pend(g) = Pend(e)
  BY DEF Pend
<1>6. Pend(f) = Pend(e)
  BY <1>4, <1>5
<1>7. Sets(p, f)
  BY <1>2, <1>3, <1>4 DEF Sets
<1>8. Rests(p, f)
  BY <1>1, <1>4, <1>6, <1>7 DEF Rests
<1>. QED  BY <1>8

LEMMA RecvConnectAckIs ==
    ASSUME SocketInv, NEW p \in Proc, RecvConnectAck(p)
    PROVE  /\ \E f : Closes(p, f) \/ Names(p, f)
           /\ UNCHANGED delivered
<1>. DEFINE e == endpoint[p]
            c == e.sd
            f == Connected(e)
<1>1. /\ e.state = "CONNECT_ACK" /\ UNCHANGED delivered
      /\ \/ /\ conn[c].inbox[p] # <<>> /\ conn' = Read(conn, p, c)
            /\ endpoint' = [endpoint EXCEPT ![p] = f]
         \/ AtEnd(p, c) /\ CloseEndpoint(p)
  BY DEF RecvConnectAck, HasData
<1>2. c # NoSd /\ c \in Conn /\ e \in EndpointRec
  BY <1>1, OnSocket, InvHas
<1>3. CASE AtEnd(p, c) /\ CloseEndpoint(p)
  <2>1. /\ conn[c].inbox[p] = <<>>
        /\ conn[c].st = "broken" \/ conn[c].open[Peer(p)] = FALSE
    BY <1>2, <1>3, AtEndIs
  <2>2. Closes(p, Close(e))
    BY <1>1, <1>2, <1>3, <2>1, CloseEndpointIs
  <2>. QED  BY <1>1, <2>2
<1>4. CASE /\ conn[c].inbox[p] # <<>> /\ conn' = Read(conn, p, c)
           /\ endpoint' = [endpoint EXCEPT ![p] = f]
  <2>1. /\ f \in EndpointRec /\ f.sd = c /\ f.state = "CONNECTED" /\ Pend(f) = Pend(e)
        /\ f.send_frag = NoFrag => f.frags = <<>>
        /\ e.send_frag = NoFrag /\ f.send_frag # NoFrag => f.send_event = TRUE
    BY <1>2, ConnectedIs
  <2>. HIDE DEF f
  <2>2. Sets(p, f)
    BY <1>2, <1>4, <2>1 DEF Sets
  <2>3. Names(p, f)
    BY <1>1, <1>2, <1>4, <2>1, <2>2 DEF Names
  <2>. QED  BY <1>1, <2>3
<1>. QED  BY <1>1, <1>3, <1>4

LEMMA RecvFragIs ==
    ASSUME SocketInv, NEW p \in Proc, RecvFrag(p)
    PROVE  \/ \E f : Closes(p, f) /\ UNCHANGED delivered
           \/ /\ Delivers(p) /\ UNCHANGED endpoint
              /\ delivered' = [delivered EXCEPT ![p] =
                                 Append(@, Head(conn[endpoint[p].sd].inbox[p]))]
<1>. DEFINE c == endpoint[p].sd
<1>1. /\ endpoint[p].state = "CONNECTED"
      /\ \/ /\ conn[c].inbox[p] # <<>> /\ conn' = Read(conn, p, c)
            /\ delivered' = [delivered EXCEPT ![p] = Append(@, Head(conn[c].inbox[p]))]
            /\ UNCHANGED endpoint
         \/ AtEnd(p, c) /\ CloseEndpoint(p) /\ UNCHANGED delivered
  BY DEF RecvFrag, HasData
<1>2. c # NoSd /\ c \in Conn
  BY <1>1, OnSocket
<1>3. CASE AtEnd(p, c) /\ CloseEndpoint(p) /\ UNCHANGED delivered
  <2>1. /\ conn[c].inbox[p] = <<>>
        /\ conn[c].st = "broken" \/ conn[c].open[Peer(p)] = FALSE
    BY <1>2, <1>3, AtEndIs
  <2>2. Closes(p, Close(endpoint[p]))
    BY <1>1, <1>2, <1>3, <2>1, CloseEndpointIs
  <2>. QED  BY <1>3, <2>2
<1>4. CASE /\ conn[c].inbox[p] # <<>> /\ conn' = Read(conn, p, c)
           /\ delivered' = [delivered EXCEPT ![p] = Append(@, Head(conn[c].inbox[p]))]
           /\ UNCHANGED endpoint
  BY <1>1, <1>2, <1>4 DEF Delivers
<1>. QED  BY <1>1, <1>3, <1>4

LEMMA AcceptIs ==
    ASSUME SocketInv, NEW p \in Proc, NEW c \in Conn, Accept(p, c),
           c[1] = Peer(p), c # endpoint[p].sd, conn[c].st \in {"accepted", "broken"},
           conn[c].open[p], conn[c].inbox[p] # <<>>, Accepts(p)
    PROVE  \E f : Takes(p, f, c) \/ Fails(p, f, c)
<1>. DEFINE o == endpoint[p]
            e == Close(o)
            g == [e EXCEPT !.sd = c]
            cn == Shut(Read(conn, p, c), p, o.sd)
<1>1. o \in EndpointRec /\ c # NoSd
  BY InvHas, ConnsAre
<1>2. e \in EndpointRec /\ e.send_frag = o.send_frag /\ Pend(e) = Pend(o)
  BY <1>1, CloseIs
<1>. HIDE DEF e
<1>3. g \in EndpointRec /\ g.sd = c /\ g.send_frag = e.send_frag /\ g.frags = e.frags
  BY <1>2 DEF EndpointRec
<1>4. \A h : h.send_frag = e.send_frag /\ h.frags = e.frags => Pend(h) = Pend(e)
  BY DEF Pend
<1>5. Pend(g) = Pend(o)
  BY <1>2, <1>3, <1>4
<1>6. \/ /\ conn[c].st # "broken"
         /\ endpoint' = [endpoint EXCEPT ![p] = Connected(g)]
         /\ conn' = Write(cn, p, c, Guid)
      \/ /\ conn[c].st = "broken"
         /\ endpoint' = [endpoint EXCEPT ![p] = Close(g)]
         /\ conn' = Shut(cn, p, c)
  BY DEF Accept, Writable, e
<1>. HIDE DEF g, cn
<1>7. CASE /\ conn[c].st # "broken"
           /\ endpoint' = [endpoint EXCEPT ![p] = Connected(g)]
           /\ conn' = Write(cn, p, c, Guid)
  <2>. DEFINE f == Connected(g)
  <2>1. /\ f \in EndpointRec /\ f.sd = c /\ f.state = "CONNECTED" /\ Pend(f) = Pend(g)
        /\ f.send_frag = NoFrag => f.frags = <<>>
        /\ g.send_frag = NoFrag /\ f.send_frag # NoFrag => f.send_event = TRUE
    BY <1>3, ConnectedIs
  <2>2. endpoint' = [endpoint EXCEPT ![p] = f]
    BY <1>7
  <2>. HIDE DEF f
  <2>3. Sets(p, f)
    BY <1>1, <2>1, <2>2 DEF Sets
  <2>4. Pend(f) = Pend(o)
    BY <1>5, <2>1
  <2>5. Joins(p, f, c)
    BY <2>3, <2>4 DEF Joins
  <2>6. conn' = Write(Shut(Read(conn, p, c), p, endpoint[p].sd), p, c, Guid)
    BY <1>7 DEF cn
  <2>7. endpoint[p].send_frag = NoFrag /\ f.send_frag # NoFrag => f.send_event = TRUE
    BY <1>2, <1>3, <2>1
  <2>8. Takes(p, f, c)
    BY <1>7, <2>1, <2>5, <2>6, <2>7 DEF Takes
  <2>. QED  BY <2>8
<1>8. CASE /\ conn[c].st = "broken"
           /\ endpoint' = [endpoint EXCEPT ![p] = Close(g)]
           /\ conn' = Shut(cn, p, c)
  <2>. DEFINE f == Close(g)
  <2>1. /\ f \in EndpointRec /\ f.sd = NoSd /\ f.state = "CLOSED" /\ Pend(f) = Pend(g)
    BY <1>1, <1>3, CloseIs
  <2>2. endpoint' = [endpoint EXCEPT ![p] = f]
    BY <1>8
  <2>. HIDE DEF f
  <2>3. Sets(p, f)
    BY <2>1, <2>2 DEF Sets
  <2>4. Pend(f) = Pend(o)
    BY <1>5, <2>1
  <2>5. Joins(p, f, c)
    BY <2>3, <2>4 DEF Joins
  <2>6. conn' = Shut(Shut(Read(conn, p, c), p, endpoint[p].sd), p, c)
    BY <1>8 DEF cn
  <2>7. Fails(p, f, c)
    BY <1>8, <2>1, <2>5, <2>6 DEF Fails
  <2>. QED  BY <2>7
<1>. QED  BY <1>6, <1>7, <1>8

LEMMA ComponentRecvHandlerIs ==
    ASSUME SocketInv, NEW p \in Proc, ComponentRecvHandler(p)
    PROVE  \E c : \/ Rejects(p, c) /\ UNCHANGED endpoint
                  \/ \E f : Takes(p, f, c) \/ Fails(p, f, c)
<1>1. PICK c \in Conn :
         /\ c[1] = Peer(p) /\ c # endpoint[p].sd
         /\ conn[c].st \in {"accepted", "broken"} /\ conn[c].open[p]
         /\ IF HasData(p, c) /\ Accepts(p) THEN Accept(p, c)
            ELSE conn' = Shut(conn, p, c) /\ UNCHANGED endpoint
  BY DEF ComponentRecvHandler
<1>2. CASE HasData(p, c) /\ Accepts(p)
  BY <1>1, <1>2, AcceptIs DEF HasData
<1>3. CASE ~(HasData(p, c) /\ Accepts(p))
  <2>1. conn' = Shut(conn, p, c) /\ UNCHANGED endpoint
    BY <1>1, <1>3
  <2>2. Rejects(p, c)
    BY <1>1, <2>1 DEF Rejects
  <2>. QED  BY <2>1, <2>2
<1>. QED  BY <1>2, <1>3

----------------------------------------------------------------------------
(* The sockets stay in order *)

InOrder ==
    /\ conn' \in Table /\ Lines(conn', endpoint')
    /\ \A x \in Conn : conn[x] = Idle => conn'[x] = Idle

LEMMA SetsIs ==
    ASSUME SocketInv, NEW p \in Proc, NEW f, Sets(p, f)
    PROVE  /\ endpoint' \in Endpoints /\ endpoint'[p] = f
           /\ Only(endpoint, endpoint', p)
           /\ endpoint'[Peer(p)] = endpoint[Peer(p)]
<1>1. endpoint \in Endpoints /\ f \in EndpointRec
  BY InvHas DEF Sets
<1>2. endpoint' = [endpoint EXCEPT ![p] = f]
  BY DEF Sets
<1>3. endpoint' \in Endpoints /\ endpoint'[p] = f
  BY <1>1, <1>2 DEF Endpoints
<1>4. Only(endpoint, endpoint', p)
  BY <1>1, <1>2 DEF Endpoints, Only
<1>. QED  BY <1>3, <1>4, Peers DEF Only

LEMMA ClosesInOrder ==
    ASSUME SocketInv, NEW p \in Proc, NEW f, Sets(p, f), f.sd = NoSd,
           endpoint[p].sd # NoSd, conn' = Shut(conn, p, endpoint[p].sd)
    PROVE  InOrder
<1>. DEFINE c == endpoint[p].sd
<1>1. conn \in Table /\ endpoint \in Endpoints /\ Lines(conn, endpoint)
  BY InvHas DEF SocketInv
<1>2. c \in Conn /\ conn[c].open[p]
  BY <1>1, Stands
<1>3. endpoint'[p] = f /\ Only(endpoint, endpoint', p)
  BY SetsIs
<1>4. Lines(conn', endpoint')
  BY <1>1, <1>3, LinesClose
<1>5. conn' \in Table /\ \A x \in Conn : x # c => conn'[x] = conn[x]
  BY <1>1, <1>2, ShutElsewhere
<1>6. conn[c] # Idle
  BY <1>2, InvHas
<1>. QED  BY <1>4, <1>5, <1>6 DEF InOrder

LEMMA GreetsInOrder ==
    ASSUME SocketInv, NEW p \in Proc, NEW f, Greets(p, f)
    PROVE  InOrder
<1>. DEFINE c == endpoint[p].sd
<1>1. conn \in Table /\ endpoint \in Endpoints /\ Lines(conn, endpoint)
  BY InvHas DEF SocketInv
<1>2. c \in Conn /\ conn[c].open[p] /\ c # NoSd
  BY <1>1, Stands DEF Greets
<1>3. endpoint'[p] = f /\ Only(endpoint, endpoint', p)
  BY SetsIs DEF Greets
<1>4. Lines(conn', endpoint')
  BY <1>1, <1>2, <1>3, LinesGreet DEF Greets
<1>5. conn' \in Table /\ \A x \in Conn : x # c => conn'[x] = conn[x]
  BY <1>1, <1>2, Writing DEF Greets
<1>6. conn[c] # Idle
  BY <1>2, InvHas
<1>. QED  BY <1>4, <1>5, <1>6 DEF InOrder

LEMMA WritesInOrder ==
    ASSUME SocketInv, NEW p \in Proc, NEW f, NEW m, Writes(p, f, m)
    PROVE  InOrder
<1>. DEFINE c == endpoint[p].sd
<1>1. conn \in Table /\ endpoint \in Endpoints /\ Lines(conn, endpoint)
  BY InvHas DEF SocketInv
<1>2. c \in Conn /\ conn[c].open[p] /\ c # NoSd
  BY <1>1, Stands DEF Writes
<1>3. endpoint'[p] = f /\ Only(endpoint, endpoint', p)
  BY SetsIs DEF Writes
<1>4. Lines(conn', endpoint')
  BY <1>1, <1>2, <1>3, LinesWrite DEF Writes
<1>5. conn' \in Table /\ \A x \in Conn : x # c => conn'[x] = conn[x]
  BY <1>1, <1>2, Writing DEF Writes
<1>6. conn[c] # Idle
  BY <1>2, InvHas
<1>. QED  BY <1>4, <1>5, <1>6 DEF InOrder

LEMMA NamesInOrder ==
    ASSUME SocketInv, NEW p \in Proc, NEW f, Names(p, f)
    PROVE  InOrder
<1>. DEFINE c == endpoint[p].sd
<1>1. conn \in Table /\ endpoint \in Endpoints /\ Lines(conn, endpoint)
  BY InvHas DEF SocketInv
<1>2. c \in Conn /\ conn[c].open[p] /\ c # NoSd
  BY <1>1, Stands DEF Names
<1>3. endpoint'[p] = f /\ Only(endpoint, endpoint', p)
  BY SetsIs DEF Names
<1>4. Lines(conn', endpoint')
  BY <1>1, <1>2, <1>3, LinesRead DEF Names
<1>5. conn' \in Table /\ \A x \in Conn : x # c => conn'[x] = conn[x]
  BY <1>1, <1>2, Reading DEF Names
<1>6. conn[c] # Idle
  BY <1>2, InvHas
<1>. QED  BY <1>4, <1>5, <1>6 DEF InOrder

LEMMA DeliversInOrder ==
    ASSUME SocketInv, NEW p \in Proc, Delivers(p), UNCHANGED endpoint
    PROVE  InOrder
<1>. DEFINE c == endpoint[p].sd
<1>1. conn \in Table /\ endpoint \in Endpoints /\ Lines(conn, endpoint)
  BY InvHas DEF SocketInv
<1>2. c \in Conn /\ conn[c].open[p] /\ c # NoSd
  BY <1>1, Stands DEF Delivers
<1>3. endpoint' = endpoint /\ Only(endpoint, endpoint', p)
  BY DEF Only
<1>4. Lines(conn', endpoint')
  BY <1>1, <1>2, <1>3, LinesRead DEF Delivers
<1>5. conn' \in Table /\ \A x \in Conn : x # c => conn'[x] = conn[x]
  BY <1>1, <1>2, Reading DEF Delivers
<1>6. conn[c] # Idle
  BY <1>2, InvHas
<1>. QED  BY <1>4, <1>5, <1>6 DEF InOrder

LEMMA RejectsInOrder ==
    ASSUME SocketInv, NEW p \in Proc, NEW c, Rejects(p, c), UNCHANGED endpoint
    PROVE  InOrder
<1>1. conn \in Table /\ endpoint \in Endpoints /\ Lines(conn, endpoint)
  BY InvHas DEF SocketInv
<1>2. c \in Conn /\ conn[c].open[p]
  BY DEF Rejects
<1>4. Lines(conn', endpoint')
  BY <1>1, LinesReject DEF Rejects
<1>5. conn' \in Table /\ \A x \in Conn : x # c => conn'[x] = conn[x]
  BY <1>1, ShutElsewhere DEF Rejects
<1>6. conn[c] # Idle
  BY <1>2, InvHas
<1>. QED  BY <1>4, <1>5, <1>6 DEF InOrder

\* The table after p reads the name on c and closes its own socket, and its
\* endpoint then.
Joined(p, c) == Shut(Read(conn, p, c), p, endpoint[p].sd)
Left(p) == [endpoint EXCEPT ![p] = Close(@)]

LEMMA LeftIs ==
    ASSUME SocketInv, NEW p \in Proc
    PROVE  /\ Left(p) \in Endpoints /\ Only(endpoint, Left(p), p)
           /\ Left(p)[p].sd = NoSd /\ Left(p)[p].state = "CLOSED"
           /\ Left(p)[Peer(p)] = endpoint[Peer(p)]
<1>1. /\ Close(endpoint[p]) \in EndpointRec /\ Close(endpoint[p]).sd = NoSd
      /\ Close(endpoint[p]).state = "CLOSED"
  BY InvHas, CloseIs
<1>2. endpoint \in Endpoints
  BY InvHas
<1>3. Left(p) = [endpoint EXCEPT ![p] = Close(endpoint[p])]
  BY DEF Left
<1>4. Left(p) \in Endpoints /\ Left(p)[p] = Close(endpoint[p]) /\ Only(endpoint, Left(p), p)
  BY <1>1, <1>2, <1>3 DEF Endpoints, Only
<1>. QED  BY <1>1, <1>4, Peers DEF Only

LEMMA ReadIs ==
    ASSUME NEW cn \in Table, NEW p \in Proc, NEW c \in Conn, cn[c].inbox[p] # <<>>
    PROVE  /\ Read(cn, p, c) \in Table
           /\ \A x \in Conn : x # c => Read(cn, p, c)[x] = cn[x]
           /\ \A x \in Proc : Read(cn, p, c)[c].open[x] = cn[c].open[x]
           /\ Read(cn, p, c)[c].st = cn[c].st
           /\ Read(cn, p, c)[c].inbox[Peer(p)] = cn[c].inbox[Peer(p)]
<1>. DEFINE d == Read(cn, p, c)
<1>1. /\ d \in Table
      /\ \A x \in Conn : x # c => d[x] = cn[x]
      /\ \A x \in Proc : d[c].open[x] = cn[c].open[x]
      /\ d[c].st = cn[c].st /\ d[c].inbox[Peer(p)] = cn[c].inbox[Peer(p)]
  BY Reading
<1>. QED  BY <1>1

AfterName(p, c) ==
    /\ Joined(p, c) \in Table /\ Lines(Joined(p, c), Left(p))
    /\ Joined(p, c)[c].inbox[p] = <<>> /\ Joined(p, c)[c].inbox[Peer(p)] = <<>>
    /\ Joined(p, c)[c].open[p] = TRUE
    /\ Joined(p, c)[c].open[Peer(p)] = conn[c].open[Peer(p)]
    /\ Joined(p, c)[c].st = conn[c].st
    /\ At(Left(p), Peer(p), c) \in {"away", "CONNECT_ACK"}
    /\ \A x \in Conn : x # c /\ x # endpoint[p].sd => Joined(p, c)[x] = conn[x]
    /\ conn[c].inbox[Peer(p)] = <<>>
    /\ At(endpoint, Peer(p), c) \in {"away", "CONNECT_ACK"}

LEMMA JoinedIs ==
    ASSUME SocketInv, NEW p \in Proc, NEW f, NEW c, Joins(p, f, c)
    PROVE  AfterName(p, c)
<1>. DEFINE q == Peer(p)
            d == endpoint[p].sd
            cn == Read(conn, p, c)
<1>1. conn \in Table /\ endpoint \in Endpoints /\ Lines(conn, endpoint)
  BY InvHas DEF SocketInv
<1>2. c \in Conn /\ c[1] = q /\ c # d /\ conn[c].inbox[p] # <<>>
  BY DEF Joins
<1>3. /\ Left(p) \in Endpoints /\ Only(endpoint, Left(p), p) /\ Left(p)[p].sd = NoSd
      /\ Left(p)[q] = endpoint[q]
  BY LeftIs
<1>4. /\ Lines(cn, endpoint) /\ conn[c].open[p] = TRUE /\ conn[c].inbox[q] = <<>>
      /\ At(endpoint, q, c) \in {"away", "CONNECT_ACK"} /\ cn[c].inbox[p] = <<>>
  <2>1. NameWaits(conn, endpoint, p, c)
    BY <1>1, <1>2, LinesName
  <2>. QED  BY <2>1 DEF NameWaits
<1>5. /\ cn \in Table /\ \A x \in Conn : x # c => cn[x] = conn[x]
      /\ \A x \in Proc : cn[c].open[x] = conn[c].open[x]
      /\ cn[c].st = conn[c].st /\ cn[c].inbox[q] = conn[c].inbox[q]
  BY <1>1, <1>2, ReadIs
<1>6. At(Left(p), q, c) = At(endpoint, q, c)
  BY <1>3 DEF At
<1>7. Joined(p, c) = Shut(cn, p, d)
  BY DEF Joined
<1>8. q \in Proc
  BY Peers
<1>. HIDE DEF cn
<1>9. CASE d = NoSd
  <2>1. Joined(p, c) = cn
    BY <1>7, <1>9 DEF Shut
  <2>2. endpoint[p].state = "CLOSED" /\ Left(p)[p].state = "CLOSED"
    BY <1>9, InvHas, LeftIs
  <2>3. Lines(cn, Left(p))
    BY <1>3, <1>4, <1>9, <2>2, LinesKept
  <2>. QED  BY <1>2, <1>4, <1>5, <1>6, <1>8, <2>1, <2>3 DEF AfterName
<1>10. CASE d # NoSd
  <2>1. d \in Conn
    BY <1>1, <1>10, Stands
  <2>2. Lines(Joined(p, c), Left(p))
    BY <1>1, <1>3, <1>4, <1>5, <1>7, <1>10, LinesClose
  <2>3. Joined(p, c) \in Table /\ \A x \in Conn : x # d => Joined(p, c)[x] = cn[x]
    BY <1>5, <1>7, <2>1, ShutElsewhere
  <2>4. Joined(p, c)[c] = cn[c]
    BY <1>2, <2>3
  <2>. QED  BY <1>2, <1>4, <1>5, <1>6, <1>8, <2>2, <2>3, <2>4 DEF AfterName
<1>. QED  BY <1>9, <1>10

LEMMA JoinsIdle ==
    ASSUME SocketInv, NEW p \in Proc, NEW f, NEW c, Joins(p, f, c),
           \A x \in Conn : x # c => conn'[x] = Joined(p, c)[x]
    PROVE  \A x \in Conn : conn[x] = Idle => conn'[x] = Idle
<1>1. c \in Conn /\ conn[c].open[p]
  BY DEF Joins
<1>2. endpoint[p].sd # NoSd => conn[endpoint[p].sd].open[p]
  BY InvHas, Stands DEF SocketInv
<1>3. \A x \in Conn : conn[x] = Idle => x # c /\ x # endpoint[p].sd
  BY <1>1, <1>2, InvHas, ConnsAre
<1>4. AfterName(p, c)
  BY JoinedIs
<1>. QED  BY <1>3, <1>4 DEF AfterName

LEMMA TakesInOrder ==
    ASSUME SocketInv, NEW p \in Proc, NEW f, NEW c, Takes(p, f, c)
    PROVE  InOrder
<1>1. /\ Joins(p, f, c) /\ conn[c].st = "accepted" /\ f.sd = c /\ f.state = "CONNECTED"
      /\ conn' = Write(Joined(p, c), p, c, Guid)
  BY DEF Takes, Joined
<1>2. c \in Conn /\ c[1] = Peer(p) /\ Sets(p, f)
  BY <1>1 DEF Joins
<1>3. /\ Left(p) \in Endpoints /\ Only(endpoint, Left(p), p) /\ Left(p)[p].sd = NoSd
  BY LeftIs
<1>4. endpoint'[p] = f /\ Only(endpoint, endpoint', p)
  BY <1>2, SetsIs
<1>5. Only(Left(p), endpoint', p)
  BY <1>3, <1>4 DEF Only
<1>6. /\ Joined(p, c) \in Table /\ Lines(Joined(p, c), Left(p))
      /\ Joined(p, c)[c].inbox[p] = <<>> /\ Joined(p, c)[c].inbox[Peer(p)] = <<>>
      /\ Joined(p, c)[c].open[p] = TRUE /\ Joined(p, c)[c].st = "accepted"
      /\ At(Left(p), Peer(p), c) \in {"away", "CONNECT_ACK"}
  <2>1. AfterName(p, c)
    BY <1>1, JoinedIs
  <2>. QED  BY <1>1, <2>1 DEF AfterName
<1>7. Lines(conn', endpoint')
  BY <1>1, <1>2, <1>3, <1>4, <1>5, <1>6, LinesTake
<1>8. conn' \in Table /\ \A x \in Conn : x # c => conn'[x] = Joined(p, c)[x]
  BY <1>1, <1>2, <1>6, Writing
<1>9. \A x \in Conn : conn[x] = Idle => conn'[x] = Idle
  BY <1>1, <1>8, JoinsIdle
<1>. QED  BY <1>7, <1>8, <1>9 DEF InOrder

LEMMA FailsInOrder ==
    ASSUME SocketInv, NEW p \in Proc, NEW f, NEW c, Fails(p, f, c)
    PROVE  InOrder
<1>1. /\ Joins(p, f, c) /\ conn[c].st = "broken" /\ f.sd = NoSd
      /\ conn' = Shut(Joined(p, c), p, c)
  BY DEF Fails, Joined
<1>2. c \in Conn /\ c[1] = Peer(p) /\ Sets(p, f) /\ f.state = "CLOSED"
  BY <1>1 DEF Joins, Sets
<1>3. /\ Left(p) \in Endpoints /\ Only(endpoint, Left(p), p)
      /\ Left(p)[p].sd = NoSd /\ Left(p)[p].state = "CLOSED"
  BY LeftIs
<1>4. endpoint'[p] = f /\ Only(endpoint, endpoint', p)
  BY <1>2, SetsIs
<1>5. Only(Left(p), endpoint', p)
  BY <1>3, <1>4 DEF Only
<1>6. Joined(p, c) \in Table /\ Lines(Joined(p, c), Left(p)) /\ Joined(p, c)[c].st = "broken"
  <2>1. AfterName(p, c)
    BY <1>1, JoinedIs
  <2>. QED  BY <1>1, <2>1 DEF AfterName
<1>7. Lines(conn', Left(p))
  BY <1>1, <1>2, <1>3, <1>6, ConnsAre, LinesReject
<1>8. Lines(conn', endpoint')
  BY <1>1, <1>2, <1>3, <1>4, <1>5, <1>7, LinesKept
<1>9. conn' \in Table /\ \A x \in Conn : x # c => conn'[x] = Joined(p, c)[x]
  BY <1>1, <1>2, <1>6, ShutElsewhere
<1>10. \A x \in Conn : conn[x] = Idle => conn'[x] = Idle
  BY <1>1, <1>9, JoinsIdle
<1>. QED  BY <1>8, <1>9, <1>10 DEF InOrder

\* The connection c goes from one state of the kernels to another, and nothing
\* else happens; a connection is established in the second case.
Turns(c, from, to) ==
    /\ c \in Conn /\ conn[c].st = from /\ conn'[c].st = to
    /\ conn' \in Table /\ \A x \in Conn : x # c => conn'[x] = conn[x]
    /\ \A p \in Proc : conn'[c].inbox[p] = conn[c].inbox[p]
    /\ conn'[c].open[c[1]] = conn[c].open[c[1]]
    /\ to # "backlog" => conn'[c].open[Peer(c[1])] = conn[c].open[Peer(c[1])]
    /\ to = "backlog" => conn'[c].open[Peer(c[1])] = TRUE
    /\ UNCHANGED endpoint

LEMMA TurnsIs ==
    ASSUME SocketInv, NEW c \in Conn, NEW st \in {"accepted", "refused"},
           conn' = [conn EXCEPT ![c].st = st], UNCHANGED endpoint
    PROVE  Turns(c, conn[c].st, st)
<1>. DEFINE k == conn[c]
            j == [k EXCEPT !.st = st]
<1>1. conn \in Table /\ k \in ConnRec /\ c[1] \in Proc /\ Peer(c[1]) \in Proc
  BY InvHas, TablesHave, Peers, ConnsAre
<1>2. j \in ConnRec /\ j.st = st /\ j.open = k.open /\ j.inbox = k.inbox
  BY <1>1 DEF ConnRec
<1>3. conn' = [conn EXCEPT ![c] = j]
  BY <1>1 DEF Table
<1>. HIDE DEF j
<1>4. conn'[c] = j /\ conn' \in Table /\ \A x \in Conn : x # c => conn'[x] = conn[x]
  BY <1>1, <1>2, <1>3 DEF Table
<1>. QED  BY <1>2, <1>4 DEF Turns

LEMMA EstablishIs ==
    ASSUME SocketInv, Establish
    PROVE  \E c : Turns(c, "connecting", "backlog")
<1>1. PICK c \in Conn :
         /\ conn[c].st = "connecting"
         /\ conn' = [conn EXCEPT ![c].st = "backlog", ![c].open[Peer(c[1])] = TRUE]
  BY DEF Establish
<1>. DEFINE k == conn[c]
            q == Peer(c[1])
            j == [k EXCEPT !.st = "backlog", !.open[q] = TRUE]
<1>2. /\ conn \in Table /\ k \in ConnRec /\ c[1] \in Proc /\ q \in Proc /\ q # c[1]
      /\ endpoint' = endpoint
  BY InvHas, TablesHave, Peers, ConnsAre DEF Establish
<1>3. /\ j \in ConnRec /\ j.st = "backlog" /\ j.inbox = k.inbox
      /\ j.open[q] = TRUE /\ j.open[c[1]] = k.open[c[1]]
  BY <1>2 DEF ConnRec
<1>4. conn' = [conn EXCEPT ![c] = j]
  BY <1>1, <1>2 DEF Table
<1>. HIDE DEF j
<1>5. conn'[c] = j /\ conn' \in Table /\ \A x \in Conn : x # c => conn'[x] = conn[x]
  BY <1>2, <1>3, <1>4 DEF Table
<1>6. Turns(c, "connecting", "backlog")
  BY <1>1, <1>2, <1>3, <1>5 DEF Turns
<1>. QED  BY <1>6

LEMMA RefuseIs ==
    ASSUME SocketInv, Refuse
    PROVE  \E c : Turns(c, "connecting", "refused")
<1>1. PICK c \in Conn : conn[c].st = "connecting" /\ conn' = [conn EXCEPT ![c].st = "refused"]
  BY DEF Refuse
<1>2. Turns(c, "connecting", "refused")
  <2>1. endpoint' = endpoint
    BY DEF Refuse
  <2>. QED  BY <1>1, <2>1, TurnsIs
<1>. QED  BY <1>2

LEMMA AcceptHandlerIs ==
    ASSUME SocketInv, NEW p \in Proc, AcceptHandler(p)
    PROVE  \E c : Turns(c, "backlog", "accepted")
<1>1. PICK c \in Conn : conn[c].st = "backlog" /\ conn' = [conn EXCEPT ![c].st = "accepted"]
  BY DEF AcceptHandler
<1>2. Turns(c, "backlog", "accepted")
  <2>1. endpoint' = endpoint
    BY DEF AcceptHandler
  <2>. QED  BY <1>1, <2>1, TurnsIs
<1>. QED  BY <1>2

\* The connection c is reset, with what has arrived at each end.
Resets(c, arrived) ==
    /\ c \in Conn /\ conn[c].st = "accepted" /\ conn'[c].st = "broken"
    /\ conn' \in Table /\ \A x \in Conn : x # c => conn'[x] = conn[x]
    /\ \A p \in Proc : /\ arrived[p] \in 0..Len(conn[c].inbox[p])
                       /\ conn'[c].inbox[p] = SubSeq(conn[c].inbox[p], 1, arrived[p])
                       /\ conn'[c].open[p] = conn[c].open[p]
    /\ UNCHANGED endpoint

LEMMA BreakIs ==
    ASSUME SocketInv, Break
    PROVE  \E c, arrived : Resets(c, arrived)
<1>1. PICK c \in Conn, arrived \in [Proc -> 0..MaxFrags + 1] :
         /\ conn[c].st = "accepted"
         /\ \A p \in Proc : arrived[p] <= Len(conn[c].inbox[p])
         /\ conn' = [conn EXCEPT ![c].st = "broken",
              ![c].inbox = [p \in Proc |-> SubSeq(@[p], 1, arrived[p])]]
  BY DEF Break
<1>. DEFINE k == conn[c]
            boxes == [p \in Proc |-> SubSeq(k.inbox[p], 1, arrived[p])]
            j == [k EXCEPT !.st = "broken", !.inbox = boxes]
<1>2. conn \in Table /\ k \in ConnRec /\ endpoint' = endpoint
  <2>1. conn \in Table
    BY DEF SocketInv, Types, Table
  <2>. QED  BY <2>1, TablesHave DEF Break
<1>3. ASSUME NEW p \in Proc
      PROVE  arrived[p] \in 0..Len(k.inbox[p]) /\ SubSeq(k.inbox[p], 1, arrived[p]) \in Inbox
  <2>1. k.inbox[p] \in Inbox
    BY <1>2, TablesHave
  <2>2. Len(k.inbox[p]) \in Nat /\ arrived[p] \in Nat
    BY <2>1, LenProperties DEF Inbox
  <2>3. arrived[p] \in 0..Len(k.inbox[p])
    BY <1>1, <2>2
  <2>. QED  BY <2>1, <2>3, Arrived
<1>4. boxes \in [Proc -> Inbox] /\ \A p \in Proc : boxes[p] = SubSeq(k.inbox[p], 1, arrived[p])
  BY <1>3
<1>5. conn' = [conn EXCEPT ![c] = j]
  BY <1>1, <1>2 DEF Table
<1>. HIDE DEF boxes
<1>6. j \in ConnRec /\ j.st = "broken" /\ j.open = k.open /\ j.inbox = boxes
  BY <1>2, <1>4 DEF ConnRec
<1>. HIDE DEF j
<1>7. conn'[c] = j /\ conn' \in Table /\ \A x \in Conn : x # c => conn'[x] = conn[x]
  BY <1>2, <1>5, <1>6 DEF Table
<1>8. Resets(c, arrived)
  BY <1>1, <1>2, <1>3, <1>4, <1>6, <1>7 DEF Resets
<1>. QED  BY <1>8

\* Who is not on a connection keeps it as it is, whatever the kernels do to it.
LEMMA KernelInOrder ==
    ASSUME SocketInv, NEW c \in Conn, UNCHANGED endpoint, conn' \in Table,
           \A x \in Conn : x # c => conn'[x] = conn[x],
           conn[c].st # "free", Line(conn', endpoint, c)
    PROVE  InOrder
<1>1. Lines(conn, endpoint) /\ endpoint' = endpoint
  BY DEF SocketInv
<1>2. ASSUME NEW x \in Conn
      PROVE  Line(conn', endpoint, x)
  <2>1. Line(conn, endpoint, x)
    BY <1>1 DEF Lines
  <2>. QED  BY <2>1, LineOf
<1>3. Lines(conn', endpoint')
  BY <1>1, <1>2 DEF Lines
<1>. QED  BY <1>3, IdleIs DEF InOrder

LEMMA LineNow ==
    ASSUME SocketInv, NEW c \in Conn
    PROVE  Standing(conn[c].st, conn[c].open[c[1]], conn[c].open[Peer(c[1])],
                    conn[c].inbox[c[1]], conn[c].inbox[Peer(c[1])],
                    At(endpoint, c[1], c), At(endpoint, Peer(c[1]), c))
  BY DEF SocketInv, Lines, Line

LEMMA TurnsInOrder ==
    ASSUME SocketInv, NEW c, NEW from, NEW to, Turns(c, from, to),
           <<from, to>> \in {<<"connecting", "backlog">>, <<"connecting", "refused">>,
                             <<"backlog", "accepted">>}
    PROVE  InOrder
<1>. DEFINE o == c[1]
            q == Peer(c[1])
            a == At(endpoint, o, c)
            b == At(endpoint, q, c)
<1>1. c \in Conn /\ o \in Proc /\ q \in Proc /\ conn[c].st = from
  BY ConnsAre, Peers DEF Turns
<1>2. Standing(conn[c].st, conn[c].open[o], conn[c].open[q],
               conn[c].inbox[o], conn[c].inbox[q], a, b)
  BY <1>1, LineNow
<1>3. /\ conn'[c].st = to /\ conn'[c].open[o] = conn[c].open[o]
      /\ conn'[c].inbox[o] = conn[c].inbox[o] /\ conn'[c].inbox[q] = conn[c].inbox[q]
      /\ to # "backlog" => conn'[c].open[q] = conn[c].open[q]
      /\ to = "backlog" => conn'[c].open[q] = TRUE
  BY <1>1 DEF Turns
<1>. HIDE DEF a, b
<1>4. Standing(conn'[c].st, conn'[c].open[o], conn'[c].open[q],
               conn'[c].inbox[o], conn'[c].inbox[q], a, b)
  <2>1. CASE from = "connecting" /\ to = "backlog"
    <3>1. Standing("backlog", conn[c].open[o], TRUE, conn[c].inbox[o], conn[c].inbox[q], a, b)
      BY <1>1, <1>2, <2>1, KernelEstablishes
    <3>. QED  BY <1>3, <2>1, <3>1
  <2>2. CASE from = "connecting" /\ to = "refused"
    BY <1>1, <1>2, <1>3, <2>2, KernelRefuses
  <2>3. CASE from = "backlog" /\ to = "accepted"
    BY <1>1, <1>2, <1>3, <2>3, ComponentAccepts
  <2>. QED  BY <2>1, <2>2, <2>3
<1>5. Line(conn', endpoint, c)
  BY <1>4 DEF Line, a, b
<1>6. conn[c].st # "free"
  BY <1>1
<1>. QED  BY <1>1, <1>5, <1>6, KernelInOrder DEF Turns

LEMMA ResetsInOrder ==
    ASSUME SocketInv, NEW c, NEW arrived, Resets(c, arrived)
    PROVE  InOrder
<1>. DEFINE o == c[1]
            q == Peer(c[1])
            a == At(endpoint, o, c)
            b == At(endpoint, q, c)
<1>1. c \in Conn /\ o \in Proc /\ q \in Proc
  BY ConnsAre, Peers DEF Resets
<1>2. Standing(conn[c].st, conn[c].open[o], conn[c].open[q],
               conn[c].inbox[o], conn[c].inbox[q], a, b)
  BY <1>1, LineNow
<1>3. /\ conn'[c].st = "broken" /\ conn[c].st = "accepted"
      /\ conn'[c].open[o] = conn[c].open[o] /\ conn'[c].open[q] = conn[c].open[q]
      /\ conn'[c].inbox[o] = SubSeq(conn[c].inbox[o], 1, arrived[o])
      /\ conn'[c].inbox[q] = SubSeq(conn[c].inbox[q], 1, arrived[q])
      /\ arrived[o] \in 0..Len(conn[c].inbox[o]) /\ arrived[q] \in 0..Len(conn[c].inbox[q])
  BY <1>1 DEF Resets
<1>. HIDE DEF a, b
<1>4. Standing(conn'[c].st, conn'[c].open[o], conn'[c].open[q],
               conn'[c].inbox[o], conn'[c].inbox[q], a, b)
  BY <1>2, <1>3, KernelBreaks
<1>5. Line(conn', endpoint, c)
  BY <1>4 DEF Line, a, b
<1>. QED  BY <1>1, <1>3, <1>5, KernelInOrder DEF Resets

----------------------------------------------------------------------------
(* The steps *)

Grown(p, f, n) == Sets(p, f) /\ Grows(endpoint[p], f, n) /\ UNCHANGED conn

Opened(p, f, n, k) == <<p, k>> \in Conn /\ Sets(p, f) /\ Opens(p, <<p, k>>, f, n)

\* The first fragment of the queue is written.
WritesFirst(p, f) ==
    /\ Pend(endpoint[p]) # <<>> /\ Pend(f) = Tail(Pend(endpoint[p]))
    /\ Writes(p, f, Head(Pend(endpoint[p])))

\* p has one fragment more to send.
Sends(p) ==
    LET n == sent[p] + 1
    IN  /\ n \in Frag /\ sent' = [sent EXCEPT ![p] = n]
        /\ \/ \E f : Grown(p, f, n) \/ Loses(p, f, n)
           \/ \E f : \E k \in 1..n : Opened(p, f, n, k)
           \/ Writes(p, endpoint[p], n) /\ Pend(endpoint[p]) = <<>>
        /\ UNCHANGED <<delivered, breaks>>

\* A callback of p, or the kernels, have no fragment to hand over.
Handles(p) ==
    /\ \/ \E f : \/ Closes(p, f) \/ Greets(p, f) \/ Rests(p, f) \/ Names(p, f)
                 \/ WritesFirst(p, f)
       \/ \E f, c : Takes(p, f, c) \/ Fails(p, f, c)
       \/ \E c : Rejects(p, c) /\ UNCHANGED endpoint
    /\ UNCHANGED <<sent, delivered, breaks>>

Receives(p) ==
    /\ Delivers(p)
    /\ delivered' = [delivered EXCEPT ![p] = Append(@, Head(conn[endpoint[p].sd].inbox[p]))]
    /\ UNCHANGED <<endpoint, sent, breaks>>

Kernel ==
    /\ \E c, from, to :
         /\ Turns(c, from, to)
         /\ <<from, to>> \in {<<"connecting", "backlog">>, <<"connecting", "refused">>,
                              <<"backlog", "accepted">>}
    /\ UNCHANGED <<sent, delivered, breaks>>

Reset ==
    /\ \E c, arrived : Resets(c, arrived)
    /\ breaks < MaxBreaks /\ breaks' = breaks + 1
    /\ UNCHANGED <<sent, delivered>>

LEMMA GrowIs ==
    ASSUME SocketInv, NEW p \in Proc, NEW n, Grow(p, n)
    PROVE  \E f : Grown(p, f, n)
<1>1. PICK f : endpoint' = [endpoint EXCEPT ![p] = f] /\ Grows(endpoint[p], f, n)
  BY DEF Grow
<1>2. /\ f \in EndpointRec /\ f.sd = endpoint[p].sd /\ f.state = endpoint[p].state
      /\ endpoint[p].state = "CONNECTED" => f.send_frag # NoFrag
  BY <1>1 DEF Grows
<1>3. endpoint[p].state = "CLOSED" <=> endpoint[p].sd = NoSd
  BY InvHas
<1>4. Sets(p, f)
  BY <1>1, <1>2, <1>3 DEF Sets
<1>. QED  BY <1>1, <1>4 DEF Grown, Grow

LEMMA OpenIs ==
    ASSUME SocketInv, NEW p \in Proc, NEW n, Open(p, n)
    PROVE  \E f : \E k \in 1..sent[p] + 1 : Opened(p, f, n, k)
<1>0. PICK k \in 1..sent[p] + 1 :
        \E f : /\ <<p, k>> \in Conn /\ endpoint' = [endpoint EXCEPT ![p] = f]
               /\ Opens(p, <<p, k>>, f, n)
  BY DEF Open
<1>1. PICK f : /\ <<p, k>> \in Conn /\ endpoint' = [endpoint EXCEPT ![p] = f]
               /\ Opens(p, <<p, k>>, f, n)
  BY <1>0
<1>2. /\ f \in EndpointRec /\ f.sd = <<p, k>> /\ f.state # "CLOSED" /\ f.state # "CONNECTED"
  BY <1>1 DEF Opens, JustOpen
<1>3. f.sd # NoSd
  BY <1>1, <1>2, ConnsAre
<1>4. Sets(p, f)
  BY <1>1, <1>2, <1>3 DEF Sets
<1>. QED  BY <1>1, <1>4 DEF Opened

LEMMA SendIs ==
    ASSUME SocketInv, NEW p \in Proc, Send(p)
    PROVE  Sends(p) /\ failures' \in 0..MaxFailures
<1>. DEFINE n == sent[p] + 1
<1>1. /\ n \in Frag /\ sent' = [sent EXCEPT ![p] = n] /\ UNCHANGED <<delivered, breaks>>
      /\ \/ SendClosed(p, n) \/ SendConnecting(p, n) \/ SendNow(p, n)
         \/ SendFirst(p, n) \/ SendBroken(p, n) \/ SendBehind(p, n)
  BY DEF Send
<1>2. UNCHANGED failures => failures' \in 0..MaxFailures
  BY InvHas
<1>3. CASE SendClosed(p, n)
  <2>1. Grow(p, n) \/ Open(p, n)
    BY <1>1, <1>3, SendClosedIs
  <2>2. failures' \in 0..MaxFailures
    BY <1>1, <1>3, SendClosedIs
  <2>3. (\E f : Grown(p, f, n)) \/ (\E f : \E k \in 1..n : Opened(p, f, n, k))
    BY <2>1, GrowIs, OpenIs
  <2>. QED  BY <1>1, <2>2, <2>3 DEF Sends
<1>4. CASE SendConnecting(p, n) \/ SendFirst(p, n) \/ SendBehind(p, n)
  <2>1. Grow(p, n) /\ UNCHANGED failures
    BY <1>1, <1>4, SendConnectingIs, SendFirstIs, SendBehindIs
  <2>2. \E f : Grown(p, f, n)
    BY <2>1, GrowIs
  <2>. QED  BY <1>1, <1>2, <2>1, <2>2 DEF Sends
<1>5. CASE SendNow(p, n)
  <2>1. Writes(p, endpoint[p], n) /\ Pend(endpoint[p]) = <<>> /\ UNCHANGED failures
    BY <1>1, <1>5, SendNowIs
  <2>. QED  BY <1>1, <1>2, <2>1 DEF Sends
<1>6. CASE SendBroken(p, n)
  <2>1. (\E f : Loses(p, f, n)) /\ UNCHANGED failures
    BY <1>1, <1>6, SendBrokenIs
  <2>. QED  BY <1>1, <1>2, <2>1 DEF Sends
<1>. QED  BY <1>1, <1>3, <1>4, <1>5, <1>6

LEMMA CallbackIs ==
    ASSUME SocketInv, NEW p \in Proc, Callback(p)
    PROVE  Handles(p) \/ Receives(p) \/ Kernel
<1>1. CASE SendHandler(p)
  <2>1. /\ CompleteConnect(p) \/ SendCurrent(p) \/ SendInvalid(p)
        /\ UNCHANGED <<sent, delivered, breaks>>
    BY <1>1 DEF SendHandler
  <2>2. CASE CompleteConnect(p)
    BY <2>1, <2>2, CompleteConnectIs DEF Handles
  <2>3. CASE SendCurrent(p)
    <3>1. \E f : Closes(p, f) \/ WritesFirst(p, f)
      BY <2>3, SendCurrentIs DEF WritesFirst
    <3>. QED  BY <2>1, <3>1 DEF Handles
  <2>4. CASE SendInvalid(p)
    BY <2>1, <2>4, SendInvalidIs DEF Handles
  <2>. QED  BY <2>1, <2>2, <2>3, <2>4
<1>2. CASE RecvHandler(p)
  <2>1. (RecvConnectAck(p) \/ RecvFrag(p)) /\ UNCHANGED <<sent, breaks>>
    BY <1>2 DEF RecvHandler
  <2>2. CASE RecvConnectAck(p)
    BY <2>1, <2>2, RecvConnectAckIs DEF Handles
  <2>3. CASE RecvFrag(p)
    BY <2>1, <2>3, RecvFragIs DEF Handles, Receives
  <2>. QED  BY <2>1, <2>2, <2>3
<1>3. CASE AcceptHandler(p)
  <2>1. PICK c : Turns(c, "backlog", "accepted")
    BY <1>3, AcceptHandlerIs
  <2>2. UNCHANGED <<sent, delivered, breaks>>
    BY <1>3 DEF AcceptHandler
  <2>. QED  BY <2>1, <2>2 DEF Kernel
<1>4. CASE ComponentRecvHandler(p)
  <2>1. UNCHANGED <<sent, delivered, breaks>>
    BY <1>4 DEF ComponentRecvHandler
  <2>. QED  BY <1>4, <2>1, ComponentRecvHandlerIs DEF Handles
<1>. QED  BY <1>1, <1>2, <1>3, <1>4 DEF Callback

LEMMA NextIs ==
    ASSUME SocketInv, Next
    PROVE  /\ \/ \E p \in Proc : Sends(p) \/ Handles(p) \/ Receives(p)
              \/ Kernel \/ Reset
           /\ failures' \in 0..MaxFailures
<1>0. failures \in 0..MaxFailures
  BY DEF SocketInv, Types
<1>1. ASSUME NEW p \in Proc, Send(p)
      PROVE  Sends(p) /\ failures' \in 0..MaxFailures
  BY <1>1, SendIs
<1>2. ASSUME NEW p \in Proc, Callback(p)
      PROVE  (Handles(p) \/ Receives(p) \/ Kernel) /\ failures' \in 0..MaxFailures
  <2>1. UNCHANGED failures
    BY <1>2 DEF Callback, SendHandler, RecvHandler, AcceptHandler, ComponentRecvHandler
  <2>2. Handles(p) \/ Receives(p) \/ Kernel
    BY <1>2, CallbackIs
  <2>. QED  BY <1>0, <2>1, <2>2
<1>3. ASSUME Establish
      PROVE  Kernel /\ failures' \in 0..MaxFailures
  <2>1. PICK c : Turns(c, "connecting", "backlog")
    BY <1>3, EstablishIs
  <2>2. UNCHANGED <<sent, delivered, breaks, failures>>
    BY <1>3 DEF Establish
  <2>. QED  BY <1>0, <2>1, <2>2 DEF Kernel
<1>4. ASSUME Refuse
      PROVE  Kernel /\ failures' \in 0..MaxFailures
  <2>1. PICK c : Turns(c, "connecting", "refused")
    BY <1>4, RefuseIs
  <2>2. UNCHANGED <<sent, delivered, breaks>>
    BY <1>4 DEF Refuse
  <2>3. failures' \in 0..MaxFailures
    BY <1>0, <1>4 DEF Refuse
  <2>. QED  BY <2>1, <2>2, <2>3 DEF Kernel
<1>5. ASSUME Break
      PROVE  Reset /\ failures' \in 0..MaxFailures
  <2>1. \E c, arrived : Resets(c, arrived)
    BY <1>5, BreakIs
  <2>2. /\ breaks < MaxBreaks /\ breaks' = breaks + 1
        /\ UNCHANGED <<sent, delivered, failures>>
    BY <1>5 DEF Break
  <2>. QED  BY <1>0, <2>1, <2>2 DEF Reset
<1>. QED  BY <1>1, <1>2, <1>3, <1>4, <1>5 DEF Next

----------------------------------------------------------------------------
(* The sockets: SocketInv is inductive *)

\* From an order of the sockets that is kept to the invariant, for a step that
\* moves p alone, or neither process.
LEMMA StepOf ==
    ASSUME SocketInv, InOrder, NEW p \in Proc, NEW f, Sets(p, f),
           \/ UNCHANGED sent
           \/ sent[p] + 1 \in Frag /\ sent' = [sent EXCEPT ![p] = sent[p] + 1],
           delivered' = delivered, failures' \in 0..MaxFailures, breaks' = breaks
    PROVE  SocketInv'
<1>1. delivered' \in [Proc -> FragSeq]
  BY InvHas
<1>2. /\ f \in EndpointRec /\ endpoint' = [endpoint EXCEPT ![p] = f]
      /\ f.state = "CLOSED" <=> f.sd = NoSd
      /\ f.state = "CONNECTED" /\ f.send_frag = NoFrag => f.frags = <<>>
  BY DEF Sets
<1>. QED  BY <1>1, <1>2, SocketStepSent DEF InOrder

LEMMA StepAside ==
    ASSUME SocketInv, InOrder, UNCHANGED <<endpoint, sent>>,
           delivered' \in [Proc -> FragSeq], failures' \in 0..MaxFailures,
           breaks' \in 0..MaxBreaks
    PROVE  SocketInv'
<1>1. Types'
  BY DEF SocketInv, Types, InOrder, Table
<1>2. Closed' /\ CurrentFirst' /\ Lines(conn', endpoint')
  BY DEF SocketInv, Closed, CurrentFirst, InOrder
<1>3. Unused'
  <2>1. ASSUME NEW p \in Proc, NEW k \in 1..MaxFrags + 1, k > sent[p]
        PROVE  conn'[<<p, k>>] = Idle
    BY <2>1, ConnsAre DEF SocketInv, Unused, InOrder
  <2>. QED  BY <2>1 DEF Unused
<1>. QED  BY <1>1, <1>2, <1>3 DEF SocketInv

LEMMA OpenedStep ==
    ASSUME SocketInv, NEW p \in Proc, NEW f, NEW k \in 1..sent[p] + 1, sent[p] + 1 \in Frag,
           Opened(p, f, sent[p] + 1, k), sent' = [sent EXCEPT ![p] = sent[p] + 1],
           delivered' = delivered, failures' \in 0..MaxFailures, breaks' = breaks
    PROVE  SocketInv'
<1>. DEFINE c == <<p, k>>
            n == sent[p] + 1
<1>1. c \in Conn /\ c[1] = p /\ Sets(p, f) /\ Opens(p, c, f, n)
  BY DEF Opened
<1>2. /\ conn \in Table /\ endpoint \in Endpoints /\ endpoint[p].sd = NoSd
      /\ Lines(conn, endpoint) /\ sent \in [Proc -> 0..MaxFrags]
  BY <1>1, InvHas DEF SocketInv, Opens
<1>3. endpoint'[p] = f /\ Only(endpoint, endpoint', p)
  BY <1>1, SetsIs
<1>. HIDE DEF c
<1>4. /\ conn[c] = Idle /\ conn' \in Table /\ f.sd = c
      /\ \A x \in Conn : x # c => conn'[x] = conn[x]
      /\ JustOpen(conn'[c], f.state, p)
  BY <1>1 DEF Opens
<1>5. Lines(conn', endpoint')
  <2>1. Lines(conn, endpoint) /\ Only(endpoint, endpoint', p) /\ c \in Conn /\ c[1] = p
    BY <1>1, <1>2, <1>3 DEF c
  <2>2. endpoint[p].sd = NoSd /\ endpoint'[p].sd = c
    BY <1>2, <1>3, <1>4
  <2>3. JustOpen(conn'[c], endpoint'[p].state, p)
    BY <1>3, <1>4
  <2>. QED  BY <1>2, <1>4, <2>1, <2>2, <2>3, LinesOpen
<1>6. ASSUME NEW x \in Proc, NEW j \in 1..MaxFrags + 1, j > sent'[x], conn[<<x, j>>] = Idle
      PROVE  conn'[<<x, j>>] = Idle
  <2>1. x = p => j > k
    BY <1>2, <1>6
  <2>2. <<x, j>> # c
    BY <2>1 DEF c
  <2>. QED  BY <1>4, <1>6, <2>2, ConnsAre
<1>7. /\ f \in EndpointRec /\ endpoint' = [endpoint EXCEPT ![p] = f]
      /\ f.state = "CLOSED" <=> f.sd = NoSd
      /\ f.state = "CONNECTED" /\ f.send_frag = NoFrag => f.frags = <<>>
  BY <1>1 DEF Sets
<1>8. sent' \in [Proc -> 0..MaxFrags] /\ \A x \in Proc : sent'[x] >= sent[x]
  BY <1>2 DEF Frag
<1>9. delivered' \in [Proc -> FragSeq] /\ breaks' \in 0..MaxBreaks
  BY InvHas
<1>. QED  BY <1>4, <1>5, <1>6, <1>7, <1>8, <1>9, SocketStep

LEMMA SendsInOrder ==
    ASSUME SocketInv, NEW p \in Proc, Sends(p), failures' \in 0..MaxFailures
    PROVE  SocketInv'
<1>. DEFINE n == sent[p] + 1
<1>1. /\ n \in Frag /\ sent' = [sent EXCEPT ![p] = n]
      /\ delivered' = delivered /\ breaks' = breaks
  BY DEF Sends
<1>2. ASSUME NEW f, Grown(p, f, n)
      PROVE  SocketInv'
  <2>1. /\ Sets(p, f) /\ UNCHANGED conn /\ f.sd = endpoint[p].sd
        /\ f.state = endpoint[p].state
    BY <1>2 DEF Grown, Grows
  <2>2. endpoint'[p] = f /\ Only(endpoint, endpoint', p) /\ conn \in Table
    BY <2>1, SetsIs, InvHas
  <2>3. Lines(conn, endpoint')
    BY <2>1, <2>2, LinesKept DEF SocketInv
  <2>4. InOrder
    BY <2>1, <2>2, <2>3 DEF InOrder
  <2>. QED  BY <1>1, <2>1, <2>4, StepOf
<1>3. ASSUME NEW f, Loses(p, f, n)
      PROVE  SocketInv'
  <2>1. Sets(p, f)
    BY <1>3 DEF Loses
  <2>2. InOrder
    BY <1>3, ClosesInOrder DEF Loses
  <2>. QED  BY <1>1, <2>1, <2>2, StepOf
<1>4. ASSUME NEW f, NEW k \in 1..n, Opened(p, f, n, k)
      PROVE  SocketInv'
  BY <1>1, <1>4, OpenedStep
<1>5. ASSUME Writes(p, endpoint[p], n)
      PROVE  SocketInv'
  <2>1. Sets(p, endpoint[p])
    BY <1>5 DEF Writes
  <2>2. InOrder
    BY <1>5, WritesInOrder
  <2>. QED  BY <1>1, <2>1, <2>2, StepOf
<1>. QED  BY <1>2, <1>3, <1>4, <1>5 DEF Sends

LEMMA HandlesInOrder ==
    ASSUME SocketInv, NEW p \in Proc, Handles(p), failures' \in 0..MaxFailures
    PROVE  SocketInv'
<1>1. sent' = sent /\ delivered' = delivered /\ breaks' = breaks
  BY DEF Handles
<1>2. ASSUME NEW f, Closes(p, f)
      PROVE  SocketInv'
  <2>1. Sets(p, f)
    BY <1>2 DEF Closes
  <2>2. InOrder
    BY <1>2, <2>1, ClosesInOrder DEF Closes
  <2>. QED  BY <1>1, <2>1, <2>2, StepOf
<1>3. ASSUME NEW f, Greets(p, f)
      PROVE  SocketInv'
  <2>1. Sets(p, f)
    BY <1>3 DEF Greets
  <2>. QED  BY <1>1, <1>3, <2>1, GreetsInOrder, StepOf
<1>4. ASSUME NEW f, Rests(p, f)
      PROVE  SocketInv'
  <2>1. /\ Sets(p, f) /\ UNCHANGED conn /\ f.sd = endpoint[p].sd
        /\ f.state = endpoint[p].state
    BY <1>4 DEF Rests
  <2>2. endpoint'[p] = f /\ Only(endpoint, endpoint', p) /\ conn \in Table
    BY <2>1, SetsIs, InvHas
  <2>3. Lines(conn, endpoint')
    BY <2>1, <2>2, LinesKept DEF SocketInv
  <2>4. InOrder
    BY <2>1, <2>2, <2>3 DEF InOrder
  <2>. QED  BY <1>1, <2>1, <2>4, StepOf
<1>5. ASSUME NEW f, Names(p, f)
      PROVE  SocketInv'
  <2>1. Sets(p, f)
    BY <1>5 DEF Names
  <2>. QED  BY <1>1, <1>5, <2>1, NamesInOrder, StepOf
<1>6. ASSUME NEW f, WritesFirst(p, f)
      PROVE  SocketInv'
  <2>1. Sets(p, f)
    BY <1>6 DEF WritesFirst, Writes
  <2>2. InOrder
    BY <1>6, WritesInOrder DEF WritesFirst
  <2>. QED  BY <1>1, <2>1, <2>2, StepOf
<1>7. ASSUME NEW f, NEW c, Takes(p, f, c) \/ Fails(p, f, c)
      PROVE  SocketInv'
  <2>1. Sets(p, f)
    BY <1>7 DEF Takes, Fails, Joins
  <2>2. InOrder
    BY <1>7, TakesInOrder, FailsInOrder
  <2>. QED  BY <1>1, <2>1, <2>2, StepOf
<1>8. ASSUME NEW c, Rejects(p, c), UNCHANGED endpoint
      PROVE  SocketInv'
  <2>1. InOrder
    BY <1>8, RejectsInOrder
  <2>2. delivered' \in [Proc -> FragSeq] /\ breaks' \in 0..MaxBreaks
    BY <1>1, InvHas
  <2>. QED  BY <1>1, <1>8, <2>1, <2>2, StepAside
<1>. QED  BY <1>2, <1>3, <1>4, <1>5, <1>6, <1>7, <1>8 DEF Handles

LEMMA ReceivesInOrder ==
    ASSUME SocketInv, NEW p \in Proc, Receives(p), failures' \in 0..MaxFailures
    PROVE  SocketInv'
<1>. DEFINE c == endpoint[p].sd
            m == Head(conn[c].inbox[p])
<1>1. /\ Delivers(p) /\ UNCHANGED <<endpoint, sent, breaks>>
      /\ delivered' = [delivered EXCEPT ![p] = Append(@, m)]
  BY DEF Receives
<1>2. InOrder
  BY <1>1, DeliversInOrder
<1>3. /\ delivered \in [Proc -> FragSeq] /\ conn[c].inbox[p] \in FragSeq
      /\ conn[c].inbox[p] # <<>> /\ breaks \in 0..MaxBreaks
  BY <1>1, InvHas, Stands DEF Delivers, SocketInv
<1>4. m \in Frag
  BY <1>3, FragSeqs
<1>5. Append(delivered[p], m) \in FragSeq
  BY <1>3, <1>4, FragSeqs
<1>6. delivered' \in [Proc -> FragSeq]
  BY <1>1, <1>3, <1>5
<1>. QED  BY <1>1, <1>2, <1>3, <1>6, StepAside

LEMMA KernelInOrderToo ==
    ASSUME SocketInv, Kernel \/ Reset, failures' \in 0..MaxFailures
    PROVE  SocketInv'
<1>1. delivered \in [Proc -> FragSeq] /\ breaks \in 0..MaxBreaks
  BY DEF SocketInv, Types
<1>2. CASE Kernel
  <2>1. PICK c, from, to :
         /\ Turns(c, from, to)
         /\ <<from, to>> \in {<<"connecting", "backlog">>, <<"connecting", "refused">>,
                              <<"backlog", "accepted">>}
    BY <1>2 DEF Kernel
  <2>2. InOrder
    BY <2>1, TurnsInOrder
  <2>3. UNCHANGED <<endpoint, sent, delivered, breaks>>
    BY <1>2, <2>1 DEF Kernel, Turns
  <2>. QED  BY <1>1, <2>2, <2>3, StepAside
<1>3. CASE Reset
  <2>1. PICK c, arrived : Resets(c, arrived)
    BY <1>3 DEF Reset
  <2>2. InOrder
    BY <2>1, ResetsInOrder
  <2>3. UNCHANGED <<endpoint, sent, delivered>> /\ breaks' \in 0..MaxBreaks
    BY <1>1, <1>3, <2>1 DEF Reset, Resets
  <2>. QED  BY <1>1, <2>2, <2>3, StepAside
<1>. QED  BY <1>2, <1>3

LEMMA InitSockets ==
    ASSUME Init
    PROVE  SocketInv
<1>. DEFINE e == [state |-> "CLOSED", sd |-> NoSd, frags |-> <<>>,
                  send_frag |-> NoFrag, send_event |-> FALSE]
<1>1. e \in EndpointRec /\ e.state = "CLOSED" /\ e.sd = NoSd
  BY Nil DEF EndpointRec
<1>2. /\ endpoint = [p \in Proc |-> e] /\ conn = [c \in Conn |-> Idle]
      /\ sent = [p \in Proc |-> 0] /\ delivered = [p \in Proc |-> <<>>]
      /\ failures = 0 /\ breaks = 0
  BY DEF Init
<1>. HIDE DEF e
<1>3. Types
  BY <1>1, <1>2, Nil, IdleIs DEF Types
<1>4. Closed /\ CurrentFirst
  BY <1>1, <1>2 DEF Closed, CurrentFirst
<1>5. Unused
  BY <1>2, ConnsAre DEF Unused
<1>6. ASSUME NEW c \in Conn
      PROVE  Line(conn, endpoint, c)
  <2>1. c # NoSd /\ c[1] \in Proc /\ Peer(c[1]) \in Proc
    BY ConnsAre, Peers
  <2>2. At(endpoint, c[1], c) = "away" /\ At(endpoint, Peer(c[1]), c) = "away"
    BY <1>1, <1>2, <2>1 DEF At
  <2>3. /\ conn[c].st = "free" /\ conn[c].open[c[1]] = FALSE /\ conn[c].inbox[c[1]] = <<>>
        /\ conn[c].open[Peer(c[1])] = FALSE /\ conn[c].inbox[Peer(c[1])] = <<>>
    BY <1>2, <2>1, IdleIs
  <2>4. Standing("free", FALSE, FALSE, <<>>, <<>>, "away", "away")
    BY Nil DEF Standing
  <2>. QED  BY <2>2, <2>3, <2>4 DEF Line
<1>. QED  BY <1>3, <1>4, <1>5, <1>6 DEF SocketInv, Lines

LEMMA StutterSockets ==
    ASSUME SocketInv, UNCHANGED vars
    PROVE  SocketInv'
<1>1. UNCHANGED <<endpoint, conn, sent, delivered, failures, breaks>>
  BY DEF vars
<1>2. Types'
  BY <1>1 DEF SocketInv, Types
<1>3. Closed' /\ CurrentFirst' /\ Unused' /\ Lines(conn', endpoint')
  BY <1>1 DEF SocketInv, Closed, CurrentFirst, Unused
<1>. QED  BY <1>2, <1>3 DEF SocketInv

LEMMA SocketNext ==
    ASSUME SocketInv, [Next]_vars
    PROVE  SocketInv'
<1>1. CASE Next
  <2>1. /\ \/ \E p \in Proc : Sends(p) \/ Handles(p) \/ Receives(p)
           \/ Kernel \/ Reset
        /\ failures' \in 0..MaxFailures
    BY <1>1, NextIs
  <2>. QED  BY <2>1, SendsInOrder, HandlesInOrder, ReceivesInOrder, KernelInOrderToo
<1>. QED  BY <1>1, StutterSockets

LEMMA SocketsAlways == Spec => []SocketInv
<1>1. Init => SocketInv
  BY InitSockets
<1>2. SocketInv /\ [Next]_vars => SocketInv'
  BY SocketNext
<1>. QED  BY <1>1, <1>2, PTL DEF Spec

\* Every endpoint, connection and queue has its type, in every behaviour
\* (btl_tcp_endpoint.h, struct mca_btl_base_endpoint_t).
THEOREM TypeCorrect == Spec => []TypeOK
<1>1. SocketInv => TypeOK
  BY TypesAre DEF SocketInv
<1>. QED  BY <1>1, SocketsAlways, PTL

----------------------------------------------------------------------------
(* While no connection has broken, the two ends settle on one *)

\* Nothing is written to the opener of c by a taker that is not on c, and a
\* taker is offered what its opener has left only if its name is the lower:
\* the opener has then taken a connection from it.
Calm(cn, ep, c) ==
    /\ cn[c].st # "broken"
    /\ cn[c].inbox[c[1]] # <<>> => At(ep, Peer(c[1]), c) # "away"
    /\ cn[c].open[Peer(c[1])] /\ At(ep, Peer(c[1]), c) = "away" /\ ~cn[c].open[c[1]]
         => Peer(c[1]) = Lower /\ ep[c[1]].state = "CONNECTED"

Together(ep, p) ==
    ep[p].state = "CONNECTED" =>
        ep[Peer(p)].sd = ep[p].sd /\ ep[Peer(p)].state \in {"CONNECT_ACK", "CONNECTED"}

\* A current fragment has the send event to carry it, and only who is
\* connected has one.
Scheduled(e) ==
    /\ e.state = "CONNECTED" /\ e.send_frag # NoFrag => e.send_event = TRUE
    /\ e.state # "CONNECTED" => e.send_frag = NoFrag

SettledOn(cn, ep) ==
    /\ \A c \in Conn : Calm(cn, ep, c)
    /\ \A p \in Proc : Together(ep, p) /\ Scheduled(ep[p])

Settled == breaks = 0 => SettledOn(conn, endpoint)

\* Who is connected stays so.
Stays(ep, ep2) ==
    \A p \in Proc : ep[p].state = "CONNECTED" => ep2[p].state = "CONNECTED"

LEMMA CalmKept ==
    ASSUME NEW cn, NEW ep, NEW cn2, NEW ep2, NEW c \in Conn, Calm(cn, ep, c),
           Stays(ep, ep2), cn2[c].st # "broken",
           cn2[c].open[c[1]] = cn[c].open[c[1]],
           cn2[c].open[Peer(c[1])] = cn[c].open[Peer(c[1])],
           At(ep2, Peer(c[1]), c) = At(ep, Peer(c[1]), c),
           \/ cn2[c].inbox[c[1]] = cn[c].inbox[c[1]]
           \/ cn2[c].inbox[c[1]] # <<>> => At(ep2, Peer(c[1]), c) # "away"
    PROVE  Calm(cn2, ep2, c)
<1>1. c[1] \in Proc
  BY ConnsAre
<1>. QED  BY <1>1 DEF Calm, Stays

\* ... as all connections are that a step of p leaves aside.
LEMMA CalmAside ==
    ASSUME NEW cn, NEW ep, NEW cn2, NEW ep2, NEW c \in Conn, Calm(cn, ep, c),
           Stays(ep, ep2), cn2[c] = cn[c], NEW p \in Proc, Only(ep, ep2, p),
           ep[p].sd # c, ep2[p].sd # c
    PROVE  Calm(cn2, ep2, c)
<1>1. \A x \in Proc : At(ep2, x, c) = At(ep, x, c)
  BY Aside
<1>2. Peer(c[1]) \in Proc
  BY ConnsAre, Peers
<1>3. cn2[c].st # "broken"
  BY DEF Calm
<1>. QED  BY <1>1, <1>2, <1>3, CalmKept

\* A step of p that changes the endpoint in its queue only.
LEMMA SettledKept ==
    ASSUME NEW cn, NEW ep, NEW cn2, NEW ep2, SettledOn(cn, ep),
           NEW p \in Proc, Only(ep, ep2, p),
           ep2[p].sd = ep[p].sd, ep2[p].state = ep[p].state, Scheduled(ep2[p]),
           NEW c, \A x \in Conn : x # c => cn2[x] = cn[x],
           c \in Conn => Calm(cn2, ep2, c)
    PROVE  SettledOn(cn2, ep2)
<1>1. Stays(ep, ep2)
  BY DEF Stays, Only
<1>2. ASSUME NEW x \in Conn, x # c
      PROVE  Calm(cn2, ep2, x)
  <2>1. \A y \in Proc : At(ep2, y, x) = At(ep, y, x)
    BY Aside
  <2>2. Peer(x[1]) \in Proc
    BY ConnsAre, Peers
  <2>3. Calm(cn, ep, x) /\ cn2[x] = cn[x]
    BY <1>2 DEF SettledOn
  <2>4. cn2[x].st # "broken"
    BY <2>3 DEF Calm
  <2>. QED  BY <1>1, <2>1, <2>2, <2>3, <2>4, CalmKept
<1>3. \A y \in Proc : Together(ep2, y)
  <2>1. \A y \in Proc : ep2[y].sd = ep[y].sd /\ ep2[y].state = ep[y].state
    BY DEF Only
  <2>. QED  BY <2>1, Peers DEF SettledOn, Together
<1>4. \A y \in Proc : Scheduled(ep2[y])
  BY DEF Only, SettledOn
<1>. QED  BY <1>2, <1>3, <1>4 DEF SettledOn

LEMMA GrownSettles ==
    ASSUME SocketInv, SettledOn(conn, endpoint), NEW p \in Proc, NEW f, NEW n,
           Grown(p, f, n)
    PROVE  SettledOn(conn', endpoint')
<1>1. /\ Sets(p, f) /\ UNCHANGED conn
      /\ f.sd = endpoint[p].sd /\ f.state = endpoint[p].state
      /\ endpoint[p].state # "CONNECTED" => f.send_frag = endpoint[p].send_frag
      /\ endpoint[p].state = "CONNECTED" =>
           f.send_event = TRUE
             \/ (endpoint[p].send_frag # NoFrag /\ f.send_event = endpoint[p].send_event)
  BY DEF Grown, Grows
<1>2. endpoint'[p] = f /\ Only(endpoint, endpoint', p)
  BY <1>1, SetsIs
<1>3. Scheduled(endpoint[p])
  BY DEF SettledOn
<1>4. Scheduled(f)
  BY <1>1, <1>3 DEF Scheduled
<1>5. conn' = conn /\ NoSd \notin Conn
  BY <1>1, ConnsAre
<1>. QED  BY <1>1, <1>2, <1>4, <1>5, SettledKept

LEMMA WritesSettles ==
    ASSUME SocketInv, SettledOn(conn, endpoint), NEW p \in Proc, NEW f, NEW m,
           Writes(p, f, m)
    PROVE  SettledOn(conn', endpoint')
<1>. DEFINE c == endpoint[p].sd
            q == Peer(p)
<1>1. /\ Sets(p, f) /\ c # NoSd /\ f.sd = c
      /\ endpoint[p].state = "CONNECTED" /\ f.state = "CONNECTED"
      /\ f.send_frag # NoFrag => /\ endpoint[p].send_frag # NoFrag
                                 /\ f.send_event = endpoint[p].send_event
      /\ m \in Frag /\ conn' = Write(conn, p, c, m)
  BY DEF Writes
<1>2. endpoint'[p] = f /\ Only(endpoint, endpoint', p)
  BY <1>1, SetsIs
<1>3. Scheduled(endpoint[p])
  BY DEF SettledOn
<1>4. conn \in Table /\ endpoint \in Endpoints /\ Lines(conn, endpoint)
  BY InvHas DEF SocketInv
<1>5. c \in Conn /\ (c[1] = p \/ (c[1] = q /\ Peer(c[1]) = p))
  BY <1>1, <1>4, Stands
<1>6. Scheduled(f)
  BY <1>1, <1>3 DEF Scheduled
<1>7. /\ \A x \in Conn : x # c => conn'[x] = conn[x]
      /\ \A x \in Proc : conn'[c].open[x] = conn[c].open[x]
      /\ conn'[c].inbox[p] = conn[c].inbox[p] /\ conn'[c].st = conn[c].st
  BY <1>1, <1>4, <1>5, Writing
<1>8. Calm(conn', endpoint', c)
  <2>1. Calm(conn, endpoint, c) /\ conn'[c].st # "broken"
    BY <1>5, <1>7 DEF SettledOn, Calm
  <2>2. Stays(endpoint, endpoint')
    BY <1>1, <1>2 DEF Stays, Only
  <2>3. \A x \in Proc : At(endpoint', x, c) = At(endpoint, x, c)
    BY <1>1, <1>2 DEF At, Only
  <2>4. c[1] \in Proc /\ Peer(c[1]) \in Proc
    BY <1>5, ConnsAre, Peers
  <2>5. c[1] # p => At(endpoint', Peer(c[1]), c) # "away"
    BY <1>1, <1>2, <1>5 DEF At
  <2>. QED  BY <1>5, <1>7, <2>1, <2>2, <2>3, <2>4, <2>5, CalmKept
<1>. QED  BY <1>1, <1>2, <1>6, <1>7, <1>8, SettledKept

LEMMA DeliversSettles ==
    ASSUME SocketInv, SettledOn(conn, endpoint), NEW p \in Proc, Delivers(p),
           UNCHANGED endpoint
    PROVE  SettledOn(conn', endpoint')
<1>. DEFINE c == endpoint[p].sd
            q == Peer(p)
<1>1. /\ c # NoSd /\ endpoint[p].state = "CONNECTED" /\ endpoint' = endpoint
      /\ conn[c].inbox[p] # <<>> /\ conn' = Read(conn, p, c)
  BY DEF Delivers
<1>2. Only(endpoint, endpoint', p) /\ Scheduled(endpoint[p])
  BY <1>1 DEF Only, SettledOn
<1>3. conn \in Table /\ endpoint \in Endpoints /\ Lines(conn, endpoint)
  BY InvHas DEF SocketInv
<1>4. c \in Conn /\ (c[1] = p \/ (c[1] = q /\ Peer(c[1]) = p))
  BY <1>1, <1>3, Stands
<1>5. /\ \A x \in Conn : x # c => conn'[x] = conn[x]
      /\ \A x \in Proc : conn'[c].open[x] = conn[c].open[x]
      /\ conn'[c].inbox[q] = conn[c].inbox[q] /\ conn'[c].st = conn[c].st
  BY <1>1, <1>3, <1>4, Reading
<1>6. Calm(conn', endpoint', c)
  <2>1. Calm(conn, endpoint, c) /\ conn'[c].st # "broken"
    BY <1>4, <1>5 DEF SettledOn, Calm
  <2>2. Stays(endpoint, endpoint')
    BY <1>1 DEF Stays
  <2>3. c[1] \in Proc /\ Peer(c[1]) \in Proc
    BY <1>4, ConnsAre, Peers
  <2>4. c[1] = p => At(endpoint', Peer(c[1]), c) # "away"
    BY <1>1, <2>1 DEF Calm
  <2>5. At(endpoint', Peer(c[1]), c) = At(endpoint, Peer(c[1]), c)
    BY <1>1
  <2>. QED  BY <1>4, <1>5, <2>1, <2>2, <2>3, <2>4, <2>5, CalmKept
<1>. QED  BY <1>1, <1>2, <1>5, <1>6, SettledKept

LEMMA RestsSettles ==
    ASSUME SocketInv, SettledOn(conn, endpoint), NEW p \in Proc, NEW f, Rests(p, f)
    PROVE  SettledOn(conn', endpoint')
<1>1. /\ Sets(p, f) /\ conn' = conn /\ endpoint[p].state = "CLOSED" /\ f.state = "CLOSED"
      /\ f.sd = endpoint[p].sd /\ f.send_frag = endpoint[p].send_frag
  BY DEF Rests
<1>2. endpoint'[p] = f /\ Only(endpoint, endpoint', p)
  BY <1>1, SetsIs
<1>3. Scheduled(endpoint[p])
  BY DEF SettledOn
<1>4. Scheduled(f)
  BY <1>1, <1>3 DEF Scheduled
<1>5. NoSd \notin Conn
  BY ConnsAre
<1>. QED  BY <1>1, <1>2, <1>4, <1>5, SettledKept


\* Before p is connected its peer is not either, unless the peer took the
\* connection that p opened.
LEMMA PeerNotConnected ==
    ASSUME SettledOn(conn, endpoint), NEW p \in Proc,
           \/ endpoint[p].state \in {"CLOSED", "CONNECTING"}
           \/ endpoint[Peer(p)].sd # endpoint[p].sd
    PROVE  endpoint[Peer(p)].state # "CONNECTED"
<1>1. Together(endpoint, Peer(p)) /\ Peer(Peer(p)) = p
  BY Peers DEF SettledOn
<1>. QED  BY <1>1 DEF Together

\* Neither end is connected, after a step of p that changes one connection.
LEMMA ApartSettles ==
    ASSUME SettledOn(conn, endpoint), NEW p \in Proc, NEW f, endpoint'[p] = f,
           Only(endpoint, endpoint', p), f.state # "CONNECTED", f.send_frag = NoFrag,
           endpoint[p].state # "CONNECTED", endpoint[Peer(p)].state # "CONNECTED",
           NEW c \in Conn, \A x \in Conn : x # c => conn'[x] = conn[x],
           endpoint[p].sd \in {c, NoSd}, f.sd \in {c, NoSd},
           Calm(conn', endpoint', c)
    PROVE  SettledOn(conn', endpoint')
<1>1. \A x \in Proc : endpoint[x].state # "CONNECTED" /\ endpoint'[x].state # "CONNECTED"
  BY Peers DEF Only
<1>2. Stays(endpoint, endpoint')
  BY <1>1 DEF Stays
<1>3. ASSUME NEW x \in Conn, x # c
      PROVE  Calm(conn', endpoint', x)
  <2>1. Calm(conn, endpoint, x)
    BY DEF SettledOn
  <2>2. endpoint[p].sd # x /\ endpoint'[p].sd # x
    BY <1>3, ConnsAre
  <2>. QED  BY <1>2, <1>3, <2>1, <2>2, CalmAside
<1>4. \A x \in Proc : Together(endpoint', x)
  BY <1>1 DEF Together
<1>5. \A x \in Proc : Scheduled(endpoint'[x])
  <2>1. Scheduled(f)
    BY DEF Scheduled
  <2>. QED  BY <2>1 DEF Only, SettledOn
<1>. QED  BY <1>3, <1>4, <1>5 DEF SettledOn

LEMMA OpenedSettles ==
    ASSUME SocketInv, SettledOn(conn, endpoint), NEW p \in Proc, NEW f, NEW n, NEW k,
           Opened(p, f, n, k)
    PROVE  SettledOn(conn', endpoint')
<1>. DEFINE c == <<p, k>>
            q == Peer(p)
<1>1. c \in Conn /\ c[1] = p /\ Sets(p, f) /\ Opens(p, c, f, n)
  BY DEF Opened
<1>. HIDE DEF c
<1>2. /\ endpoint[p].state = "CLOSED" /\ f.sd = c /\ conn[c] = Idle
      /\ f.send_frag = endpoint[p].send_frag
      /\ \A x \in Conn : x # c => conn'[x] = conn[x]
      /\ JustOpen(conn'[c], f.state, p)
  BY <1>1 DEF Opens
<1>3. endpoint[p].sd = NoSd /\ endpoint'[p] = f /\ Only(endpoint, endpoint', p)
  BY <1>1, <1>2, InvHas, SetsIs
<1>4. endpoint[q].state # "CONNECTED"
  BY <1>2, PeerNotConnected
<1>5. f.send_frag = NoFrag
  BY <1>2 DEF SettledOn, Scheduled
<1>6. /\ f.state # "CONNECTED" /\ conn'[c].st # "broken" /\ conn'[c].inbox[p] = <<>>
      /\ conn'[c].open[p] = TRUE
  BY <1>2 DEF JustOpen
<1>7. Calm(conn', endpoint', c)
  BY <1>1, <1>6 DEF Calm
<1>. QED  BY <1>1, <1>2, <1>3, <1>4, <1>5, <1>6, <1>7, ApartSettles

LEMMA GreetsSettles ==
    ASSUME SocketInv, SettledOn(conn, endpoint), NEW p \in Proc, NEW f, Greets(p, f)
    PROVE  SettledOn(conn', endpoint')
<1>. DEFINE c == endpoint[p].sd
            q == Peer(p)
<1>1. /\ Sets(p, f) /\ c # NoSd /\ f.sd = c /\ endpoint[p].state = "CONNECTING"
      /\ f.state = "CONNECT_ACK" /\ f.send_frag = endpoint[p].send_frag
      /\ conn' = Write(conn, p, c, Guid)
  BY DEF Greets
<1>2. endpoint'[p] = f /\ Only(endpoint, endpoint', p)
  BY <1>1, SetsIs
<1>3. conn \in Table /\ endpoint \in Endpoints /\ Lines(conn, endpoint)
  BY InvHas DEF SocketInv
<1>4. c \in Conn /\ c[1] = p
  BY <1>1, <1>3, Stands
<1>5. /\ \A x \in Conn : x # c => conn'[x] = conn[x]
      /\ \A x \in Proc : conn'[c].open[x] = conn[c].open[x]
      /\ conn'[c].inbox[p] = conn[c].inbox[p] /\ conn'[c].st = conn[c].st
  BY <1>1, <1>3, <1>4, Writing
<1>6. endpoint[q].state # "CONNECTED"
  BY <1>1, PeerNotConnected
<1>7. f.send_frag = NoFrag
  BY <1>1 DEF SettledOn, Scheduled
<1>8. Calm(conn', endpoint', c)
  <2>1. Calm(conn, endpoint, c) /\ conn'[c].st # "broken"
    BY <1>4, <1>5 DEF SettledOn, Calm
  <2>2. Stays(endpoint, endpoint')
    BY <1>1, <1>2 DEF Stays, Only
  <2>3. q \in Proc /\ q # p
    BY Peers
  <2>4. At(endpoint', q, c) = At(endpoint, q, c)
    BY <1>2, <2>3 DEF At, Only
  <2>. QED  BY <1>4, <1>5, <2>1, <2>2, <2>3, <2>4, CalmKept
<1>. QED  BY <1>1, <1>2, <1>4, <1>5, <1>6, <1>7, <1>8, ApartSettles

\* While no connection has broken, who closes its socket was not connected, nor
\* was its peer, and the peer is not on that connection.
LEMMA ClosesIs ==
    ASSUME SocketInv, SettledOn(conn, endpoint), NEW p \in Proc, NEW f, Closes(p, f)
    PROVE  LET c == endpoint[p].sd
           IN  /\ c \in Conn /\ c[1] = p /\ endpoint[p].state # "CONNECTED"
               /\ endpoint[Peer(p)].sd # c /\ conn[c].open[Peer(p)] = FALSE
               /\ endpoint[Peer(p)].state # "CONNECTED"
<1>. DEFINE c == endpoint[p].sd
            q == Peer(p)
<1>1. /\ c # NoSd
      /\ \/ conn[c].st = "broken"
         \/ conn[c].st = "refused" /\ endpoint[p].state = "CONNECTING"
         \/ /\ conn[c].open[q] = FALSE
            /\ endpoint[p].state \in {"CONNECT_ACK", "CONNECTED"}
  BY DEF Closes
<1>2. conn \in Table /\ endpoint \in Endpoints /\ Lines(conn, endpoint) /\ q \in Proc
  BY InvHas, Peers DEF SocketInv
<1>3. /\ c \in Conn /\ At(endpoint, p, c) = endpoint[p].state
      /\ endpoint[p].state # "CONNECTED" => c[1] = p
  BY <1>1, <1>2, Stands
<1>4. conn[c].st # "broken"
  BY <1>3 DEF SettledOn, Calm
<1>5. conn[c].open[q] = FALSE
  <2>1. CASE conn[c].st = "refused" /\ endpoint[p].state = "CONNECTING"
    <3>1. Standing(conn[c].st, conn[c].open[p], conn[c].open[q], conn[c].inbox[p],
                   conn[c].inbox[q], At(endpoint, p, c), At(endpoint, q, c))
      BY <1>3, <2>1, LineNow
    <3>2. conn[c].open[q] \in BOOLEAN /\ ~conn[c].open[q]
      BY <2>1, <3>1 DEF Standing
    <3>. QED  BY <3>2
  <2>. QED  BY <1>1, <1>4, <2>1
<1>6. endpoint[q].sd # c
  <2>1. endpoint[q].sd # NoSd => conn[endpoint[q].sd].open[q]
    BY <1>2, Stands
  <2>. QED  BY <1>1, <1>5, <2>1
<1>7. endpoint[p].state # "CONNECTED"
  BY <1>6 DEF SettledOn, Together
<1>8. endpoint[q].state # "CONNECTED"
  BY <1>6, PeerNotConnected
<1>. QED  BY <1>3, <1>5, <1>6, <1>7, <1>8

LEMMA ShutBoth ==
    ASSUME NEW cn \in Table, NEW p \in Proc, NEW c \in Conn, cn[c].open[Peer(p)] = FALSE
    PROVE  Shut(cn, p, c)[c] = Idle
  BY ConnsAre DEF Shut, Table

LEMMA ClosesSettles ==
    ASSUME SocketInv, SettledOn(conn, endpoint), NEW p \in Proc, NEW f, Closes(p, f)
    PROVE  SettledOn(conn', endpoint')
<1>. DEFINE c == endpoint[p].sd
            q == Peer(p)
<1>1. /\ Sets(p, f) /\ f.sd = NoSd /\ f.send_frag = endpoint[p].send_frag
      /\ conn' = Shut(conn, p, c)
  BY DEF Closes
<1>2. /\ c \in Conn /\ c[1] = p /\ endpoint[p].state # "CONNECTED"
      /\ endpoint[q].sd # c /\ conn[c].open[q] = FALSE
      /\ endpoint[q].state # "CONNECTED"
  BY ClosesIs
<1>3. endpoint'[p] = f /\ Only(endpoint, endpoint', p) /\ conn \in Table
  BY <1>1, SetsIs, InvHas
<1>4. f.send_frag = NoFrag /\ f.state # "CONNECTED"
  BY <1>1, <1>2 DEF SettledOn, Scheduled, Sets
<1>5. \A x \in Conn : x # c => conn'[x] = conn[x]
  BY <1>1, <1>2, <1>3, ShutElsewhere
<1>6. conn'[c] = Idle
  BY <1>1, <1>2, <1>3, ShutBoth
<1>7. Calm(conn', endpoint', c)
  <2>1. Peer(c[1]) \in Proc /\ c[1] \in Proc
    BY <1>2, ConnsAre, Peers
  <2>2. /\ conn'[c].st = "free" /\ conn'[c].inbox[c[1]] = <<>>
        /\ conn'[c].open[Peer(c[1])] = FALSE
    BY <1>6, <2>1, IdleIs
  <2>. QED  BY <2>2 DEF Calm
<1>. QED  BY <1>1, <1>2, <1>3, <1>4, <1>5, <1>7, ApartSettles

\* p is connected now, on the connection that its peer is on.
LEMMA MeetSettles ==
    ASSUME NEW p \in Proc, NEW f, endpoint'[p] = f, Only(endpoint, endpoint', p),
           f.state = "CONNECTED", Scheduled(f),
           endpoint[Peer(p)].sd = f.sd,
           endpoint[Peer(p)].state \in {"CONNECT_ACK", "CONNECTED"},
           SettledOn(conn, endpoint),
           \A x \in Conn : Calm(conn', endpoint', x)
    PROVE  SettledOn(conn', endpoint')
<1>1. endpoint'[Peer(p)] = endpoint[Peer(p)] /\ \A x \in Proc : x = p \/ x = Peer(p)
  BY Peers DEF Only
<1>2. Together(endpoint', p) /\ Together(endpoint', Peer(p))
  BY <1>1, Peers DEF Together
<1>3. Scheduled(endpoint'[p]) /\ Scheduled(endpoint'[Peer(p)])
  BY <1>1, Peers DEF SettledOn
<1>. QED  BY <1>1, <1>2, <1>3 DEF SettledOn

LEMMA NamesSettles ==
    ASSUME SocketInv, SettledOn(conn, endpoint), NEW p \in Proc, NEW f, Names(p, f)
    PROVE  SettledOn(conn', endpoint')
<1>. DEFINE c == endpoint[p].sd
            q == Peer(p)
<1>1. /\ Sets(p, f) /\ c # NoSd /\ f.sd = c /\ endpoint[p].state = "CONNECT_ACK"
      /\ f.state = "CONNECTED" /\ conn[c].inbox[p] # <<>> /\ conn' = Read(conn, p, c)
      /\ endpoint[p].send_frag = NoFrag /\ f.send_frag # NoFrag => f.send_event = TRUE
  BY DEF Names
<1>2. endpoint'[p] = f /\ Only(endpoint, endpoint', p)
  BY <1>1, SetsIs
<1>3. conn \in Table /\ endpoint \in Endpoints /\ Lines(conn, endpoint)
  BY InvHas DEF SocketInv
<1>4. c \in Conn /\ c[1] = p /\ q \in Proc /\ q # p
  BY <1>1, <1>3, Stands, Peers
<1>5. /\ \A x \in Conn : x # c => conn'[x] = conn[x]
      /\ \A x \in Proc : conn'[c].open[x] = conn[c].open[x]
      /\ conn'[c].inbox[q] = conn[c].inbox[q] /\ conn'[c].st = conn[c].st
  BY <1>1, <1>3, <1>4, Reading
<1>6. Calm(conn, endpoint, c)
  BY <1>4 DEF SettledOn
<1>7. At(endpoint, q, c) # "away" /\ conn[c].st # "broken"
  BY <1>1, <1>4, <1>6 DEF Calm
<1>8. endpoint[q].sd = c /\ endpoint[q].state = "CONNECTED"
  <2>1. Standing(conn[c].st, conn[c].open[p], conn[c].open[q], conn[c].inbox[p],
                 conn[c].inbox[q], At(endpoint, p, c), At(endpoint, q, c))
    BY <1>4, LineNow
  <2>2. At(endpoint, q, c) = "CONNECTED"
    BY <1>7, <2>1 DEF Standing
  <2>. QED  BY <2>2 DEF At
<1>9. Scheduled(f)
  <2>1. endpoint[p].send_frag = NoFrag
    BY <1>1 DEF SettledOn, Scheduled
  <2>. QED  BY <1>1, <2>1 DEF Scheduled
<1>10. Stays(endpoint, endpoint')
  BY <1>1, <1>2 DEF Stays, Only
<1>11. Calm(conn', endpoint', c)
  <2>1. At(endpoint', q, c) = At(endpoint, q, c)
    BY <1>2, <1>4 DEF At, Only
  <2>2. conn'[c].st # "broken"
    BY <1>5, <1>7
  <2>. QED  BY <1>4, <1>5, <1>6, <1>7, <1>10, <2>1, <2>2, CalmKept
<1>12. ASSUME NEW x \in Conn, x # c
       PROVE  Calm(conn', endpoint', x)
  <2>1. Calm(conn, endpoint, x)
    BY DEF SettledOn
  <2>2. endpoint[p].sd # x /\ endpoint'[p].sd # x
    BY <1>1, <1>2, <1>12
  <2>. QED  BY <1>2, <1>5, <1>10, <1>12, <2>1, <2>2, CalmAside
<1>. QED  BY <1>1, <1>2, <1>8, <1>9, <1>11, <1>12, MeetSettles

LEMMA RejectsSettles ==
    ASSUME SocketInv, SettledOn(conn, endpoint), NEW p \in Proc, NEW c, Rejects(p, c),
           UNCHANGED endpoint
    PROVE  SettledOn(conn', endpoint')
<1>. DEFINE q == Peer(p)
<1>1. /\ c \in Conn /\ c[1] = q /\ c # endpoint[p].sd /\ conn[c].open[p]
      /\ conn' = Shut(conn, p, c) /\ endpoint' = endpoint
  BY DEF Rejects
<1>2. conn \in Table /\ Only(endpoint, endpoint', p) /\ Scheduled(endpoint[p])
      /\ Peer(c[1]) = p /\ q \in Proc
  BY <1>1, InvHas, Peers DEF Only, SettledOn
<1>3. Calm(conn, endpoint, c)
  BY <1>1 DEF SettledOn
<1>4. At(endpoint, p, c) = "away"
  BY <1>1 DEF At
<1>5. conn[c].st # "broken" /\ conn[c].inbox[q] = <<>>
  BY <1>1, <1>2, <1>3, <1>4 DEF Calm
<1>6. /\ conn'[c].open[p] = FALSE /\ conn'[c].inbox[q] = <<>> /\ conn'[c].st # "broken"
  <2>1. ShutAt(conn, p, c)
    BY <1>1, <1>2, ShutHere
  <2>. QED  BY <1>1, <1>5, <2>1 DEF ShutAt
<1>7. Calm(conn', endpoint', c)
  BY <1>1, <1>2, <1>6 DEF Calm
<1>8. \A x \in Conn : x # c => conn'[x] = conn[x]
  BY <1>1, <1>2, ShutElsewhere
<1>. QED  BY <1>1, <1>2, <1>7, <1>8, SettledKept

LEMMA TurnsSettles ==
    ASSUME SocketInv, SettledOn(conn, endpoint), NEW c, NEW from, NEW to,
           Turns(c, from, to),
           <<from, to>> \in {<<"connecting", "backlog">>, <<"connecting", "refused">>,
                             <<"backlog", "accepted">>}
    PROVE  SettledOn(conn', endpoint')
<1>. DEFINE p == c[1]
            q == Peer(c[1])
<1>1. /\ c \in Conn /\ conn[c].st = from /\ conn'[c].st = to /\ endpoint' = endpoint
      /\ \A x \in Conn : x # c => conn'[x] = conn[x]
      /\ conn'[c].open[p] = conn[c].open[p]
      /\ to # "backlog" => conn'[c].open[q] = conn[c].open[q]
      /\ to # "broken" /\ (to = "backlog" => from = "connecting")
  BY DEF Turns
<1>2. p \in Proc /\ q \in Proc /\ conn'[c].inbox[p] = conn[c].inbox[p]
  BY <1>1, ConnsAre, Peers DEF Turns
<1>3. Only(endpoint, endpoint', p) /\ Scheduled(endpoint[p]) /\ Stays(endpoint, endpoint')
  BY <1>1, <1>2 DEF Only, SettledOn, Stays
<1>4. Calm(conn, endpoint, c)
  BY <1>1 DEF SettledOn
<1>5. At(endpoint', q, c) = At(endpoint, q, c)
  BY <1>1
<1>6. Calm(conn', endpoint', c)
  <2>1. CASE to # "backlog"
    BY <1>1, <1>2, <1>3, <1>4, <1>5, <2>1, CalmKept
  <2>2. CASE to = "backlog"
    <3>1. Standing(conn[c].st, conn[c].open[p], conn[c].open[q], conn[c].inbox[p],
                   conn[c].inbox[q], At(endpoint, p, c), At(endpoint, q, c))
      BY <1>1, LineNow
    <3>2. conn[c].open[p] /\ conn[c].inbox[p] = <<>>
      BY <1>1, <2>2, <3>1 DEF Standing
    <3>. QED  BY <1>1, <1>2, <3>2 DEF Calm
  <2>. QED  BY <2>1, <2>2
<1>. QED  BY <1>1, <1>2, <1>3, <1>6, SettledKept

\* What p leaves of its own connection when it takes c instead.
LeftBehind(p, c) ==
    LET d == endpoint[p].sd
        k == Joined(p, c)[endpoint[p].sd]
    IN  /\ k.open[p] = FALSE /\ k.inbox[p] = <<>>
        /\ k.open[Peer(p)] = conn[d].open[Peer(p)]
        /\ conn[d].open[Peer(p)] = TRUE => k.inbox[Peer(p)] = conn[d].inbox[Peer(p)]
        /\ k.st \in {conn[d].st, "free"}

LEMMA LeftBehindIs ==
    ASSUME SocketInv, NEW p \in Proc, NEW f, NEW c, Joins(p, f, c), endpoint[p].sd # NoSd
    PROVE  LeftBehind(p, c)
<1>. DEFINE d == endpoint[p].sd
            cn == Read(conn, p, c)
<1>1. /\ c \in Conn /\ c # d /\ conn[c].inbox[p] # <<>> /\ conn \in Table /\ d \in Conn
  BY InvHas, Stands DEF Joins, SocketInv
<1>2. cn \in Table /\ cn[d] = conn[d]
  BY <1>1, ReadIs
<1>. HIDE DEF cn
<1>3. ShutAt(cn, p, d)
  BY <1>1, <1>2, ShutHere
<1>4. Joined(p, c) = Shut(cn, p, d)
  BY DEF Joined, cn
<1>. QED  BY <1>2, <1>3, <1>4 DEF ShutAt, LeftBehind

\* While no connection has broken, the peer of who takes a connection is there.
LEMMA TakesIs ==
    ASSUME SocketInv, SettledOn(conn, endpoint), NEW p \in Proc, NEW f, NEW c,
           Joins(p, f, c)
    PROVE  /\ endpoint[Peer(p)].sd = c /\ endpoint[Peer(p)].state = "CONNECT_ACK"
           /\ endpoint[p].state # "CONNECTED"
<1>. DEFINE q == Peer(p)
<1>1. /\ c \in Conn /\ c[1] = q /\ c # endpoint[p].sd /\ conn[c].open[p] /\ Accepts(p)
  BY DEF Joins
<1>2. /\ q \in Proc /\ q # p /\ Peer(q) = p /\ Peer(c[1]) = p
  BY <1>1, Peers
<1>3. At(endpoint, q, c) \in {"away", "CONNECT_ACK"}
  <2>1. AfterName(p, c)
    BY JoinedIs
  <2>. QED  BY <2>1 DEF AfterName
<1>4. At(endpoint, q, c) # "away"
  <2>1. SUFFICES ASSUME At(endpoint, q, c) = "away"
                 PROVE  FALSE
    OBVIOUS
  <2>2. At(endpoint, p, c) = "away"
    BY <1>1 DEF At
  <2>3. Standing(conn[c].st, conn[c].open[q], conn[c].open[p], conn[c].inbox[q],
                 conn[c].inbox[p], At(endpoint, q, c), At(endpoint, p, c))
    BY <1>1, <1>2, LineNow
  <2>4. ~conn[c].open[q]
    BY <2>1, <2>3 DEF Standing
  <2>5. Calm(conn, endpoint, c) /\ Together(endpoint, q)
    BY <1>1, <1>2 DEF SettledOn
  <2>6. p = Lower /\ endpoint[q].state = "CONNECTED"
    BY <1>1, <1>2, <2>2, <2>4, <2>5 DEF Calm
  <2>7. endpoint[p].state \in {"CONNECT_ACK", "CONNECTED"}
    BY <1>2, <2>5, <2>6 DEF Together
  <2>8. endpoint[p].sd # NoSd
    BY <2>7, InvHas
  <2>. QED  BY <1>1, <1>2, <2>6, <2>8 DEF Accepts
<1>5. endpoint[q].sd = c /\ endpoint[q].state = "CONNECT_ACK"
  BY <1>3, <1>4 DEF At
<1>6. Together(endpoint, p)
  BY DEF SettledOn
<1>7. endpoint[p].state # "CONNECTED"
  BY <1>1, <1>5, <1>6 DEF Together
<1>. QED  BY <1>5, <1>7

LEMMA TakesSettles ==
    ASSUME SocketInv, SettledOn(conn, endpoint), NEW p \in Proc, NEW f, NEW c,
           Takes(p, f, c)
    PROVE  SettledOn(conn', endpoint')
<1>. DEFINE q == Peer(p)
            d == endpoint[p].sd
<1>1. /\ Joins(p, f, c) /\ f.sd = c /\ f.state = "CONNECTED" /\ conn[c].st = "accepted"
      /\ endpoint[p].send_frag = NoFrag /\ f.send_frag # NoFrag => f.send_event = TRUE
      /\ conn' = Write(Joined(p, c), p, c, Guid)
  BY DEF Takes, Joined
<1>2. c \in Conn /\ c[1] = q /\ c # d /\ Accepts(p) /\ Sets(p, f)
  BY <1>1 DEF Joins
<1>3. endpoint'[p] = f /\ Only(endpoint, endpoint', p) /\ Peer(c[1]) = p
  BY <1>2, SetsIs, Peers
<1>4. /\ endpoint[q].sd = c /\ endpoint[q].state = "CONNECT_ACK"
      /\ endpoint[p].state # "CONNECTED"
  BY <1>1, TakesIs
<1>5. Scheduled(f)
  <2>1. endpoint[p].send_frag = NoFrag
    BY <1>4 DEF SettledOn, Scheduled
  <2>. QED  BY <1>1, <2>1 DEF Scheduled
<1>6. Stays(endpoint, endpoint')
  BY <1>1, <1>3 DEF Stays, Only
<1>7. /\ Joined(p, c) \in Table /\ Joined(p, c)[c].st = conn[c].st
      /\ \A x \in Conn : x # c /\ x # d => Joined(p, c)[x] = conn[x]
  <2>1. AfterName(p, c)
    BY <1>1, JoinedIs
  <2>. QED  BY <2>1 DEF AfterName
<1>8. /\ \A x \in Conn : x # c => conn'[x] = Joined(p, c)[x]
      /\ conn'[c].st = "accepted"
  BY <1>1, <1>2, <1>7, Writing
<1>9. Calm(conn', endpoint', c)
  <2>1. At(endpoint', p, c) # "away"
    BY <1>1, <1>3 DEF At
  <2>. QED  BY <1>3, <1>8, <2>1 DEF Calm
<1>10. ASSUME d # NoSd
       PROVE  Calm(conn', endpoint', d)
  <2>1. d \in Conn /\ d[1] = p
    BY <1>4, <1>10, InvHas, Stands DEF SocketInv
  <2>2. LeftBehind(p, c)
    BY <1>1, <1>10, LeftBehindIs
  <2>3. conn[d].st # "broken"
    BY <2>1 DEF SettledOn, Calm
  <2>4. conn'[d].st # "broken" /\ conn'[d].inbox[p] = <<>>
    BY <1>2, <1>8, <2>1, <2>2, <2>3 DEF LeftBehind
  <2>5. q = Lower /\ endpoint'[p].state = "CONNECTED"
    BY <1>1, <1>2, <1>3, <1>10 DEF Accepts
  <2>. QED  BY <2>1, <2>4, <2>5 DEF Calm
<1>11. ASSUME NEW x \in Conn, x # c, x # d
       PROVE  Calm(conn', endpoint', x)
  <2>1. Calm(conn, endpoint, x)
    BY DEF SettledOn
  <2>2. conn'[x] = conn[x] /\ endpoint[p].sd # x /\ endpoint'[p].sd # x
    BY <1>1, <1>3, <1>7, <1>8, <1>11
  <2>. QED  BY <1>3, <1>6, <2>1, <2>2, CalmAside
<1>12. \A x \in Conn : Calm(conn', endpoint', x)
  BY <1>9, <1>10, <1>11, ConnsAre
<1>13. endpoint[q].sd = f.sd /\ endpoint[q].state \in {"CONNECT_ACK", "CONNECTED"}
  BY <1>1, <1>4
<1>. QED  BY <1>1, <1>3, <1>5, <1>12, <1>13, MeetSettles

LEMMA NoneBroken ==
    ASSUME SettledOn(conn, endpoint), NEW c \in Conn
    PROVE  conn[c].st # "broken"
  BY DEF SettledOn, Calm

LEMMA SendsSettles ==
    ASSUME SocketInv, SettledOn(conn, endpoint), NEW p \in Proc, Sends(p)
    PROVE  SettledOn(conn', endpoint')
<1>. DEFINE n == sent[p] + 1
<1>1. ASSUME NEW f, Grown(p, f, n)
      PROVE  SettledOn(conn', endpoint')
  BY <1>1, GrownSettles
<1>2. ASSUME NEW f, Loses(p, f, n)
      PROVE  FALSE
  <2>1. endpoint[p].sd \in Conn
    BY <1>2, InvHas, EndpointsHave DEF Loses
  <2>. QED  BY <1>2, <2>1, NoneBroken DEF Loses
<1>3. ASSUME NEW f, NEW k, Opened(p, f, n, k)
      PROVE  SettledOn(conn', endpoint')
  BY <1>3, OpenedSettles
<1>4. ASSUME Writes(p, endpoint[p], n)
      PROVE  SettledOn(conn', endpoint')
  BY <1>4, WritesSettles
<1>. QED  BY <1>1, <1>2, <1>3, <1>4 DEF Sends

LEMMA HandlesSettles ==
    ASSUME SocketInv, SettledOn(conn, endpoint), NEW p \in Proc, Handles(p)
    PROVE  SettledOn(conn', endpoint')
<1>1. ASSUME NEW f, Closes(p, f) \/ Greets(p, f) \/ Rests(p, f) \/ Names(p, f)
      PROVE  SettledOn(conn', endpoint')
  BY <1>1, ClosesSettles, GreetsSettles, RestsSettles, NamesSettles
<1>2. ASSUME NEW f, WritesFirst(p, f)
      PROVE  SettledOn(conn', endpoint')
  BY <1>2, WritesSettles DEF WritesFirst
<1>3. ASSUME NEW f, NEW c, Takes(p, f, c)
      PROVE  SettledOn(conn', endpoint')
  BY <1>3, TakesSettles
<1>4. ASSUME NEW f, NEW c, Fails(p, f, c)
      PROVE  FALSE
  <2>1. c \in Conn /\ conn[c].st = "broken"
    BY <1>4 DEF Fails, Joins
  <2>. QED  BY <2>1, NoneBroken
<1>5. ASSUME NEW c, Rejects(p, c), UNCHANGED endpoint
      PROVE  SettledOn(conn', endpoint')
  BY <1>5, RejectsSettles
<1>. QED  BY <1>1, <1>2, <1>3, <1>4, <1>5 DEF Handles

LEMMA SettledNext ==
    ASSUME SocketInv, Settled, [Next]_vars
    PROVE  Settled'
<1>1. SUFFICES ASSUME breaks' = 0
               PROVE  SettledOn(conn', endpoint')
  BY DEF Settled
<1>2. breaks \in Nat
  BY DEF SocketInv, Types
<1>3. ASSUME breaks = 0
      PROVE  SettledOn(conn, endpoint)
  BY <1>3 DEF Settled
<1>4. CASE UNCHANGED vars
  BY <1>1, <1>3, <1>4 DEF vars
<1>5. CASE \E p \in Proc : Sends(p)
  <2>1. PICK p \in Proc : Sends(p)
    BY <1>5
  <2>2. breaks = 0
    BY <1>1, <2>1 DEF Sends
  <2>. QED  BY <1>3, <2>1, <2>2, SendsSettles
<1>6. CASE \E p \in Proc : Handles(p)
  <2>1. PICK p \in Proc : Handles(p)
    BY <1>6
  <2>2. breaks = 0
    BY <1>1, <2>1 DEF Handles
  <2>. QED  BY <1>3, <2>1, <2>2, HandlesSettles
<1>7. CASE \E p \in Proc : Receives(p)
  <2>1. PICK p \in Proc : Receives(p)
    BY <1>7
  <2>2. breaks = 0 /\ Delivers(p) /\ UNCHANGED endpoint
    BY <1>1, <2>1 DEF Receives
  <2>. QED  BY <1>3, <2>2, DeliversSettles
<1>8. CASE Kernel
  <2>1. PICK c, from, to :
         /\ Turns(c, from, to)
         /\ <<from, to>> \in {<<"connecting", "backlog">>, <<"connecting", "refused">>,
                              <<"backlog", "accepted">>}
    BY <1>8 DEF Kernel
  <2>2. breaks = 0
    BY <1>1, <1>8 DEF Kernel
  <2>. QED  BY <1>3, <2>1, <2>2, TurnsSettles
<1>9. CASE Reset
  BY <1>1, <1>2, <1>9 DEF Reset
<1>. QED  BY <1>4, <1>5, <1>6, <1>7, <1>8, <1>9, NextIs

LEMMA InitSettled ==
    ASSUME Init
    PROVE  Settled
<1>1. ASSUME NEW c \in Conn
      PROVE  Calm(conn, endpoint, c)
  <2>1. conn[c] = Idle /\ c[1] \in Proc /\ Peer(c[1]) \in Proc
    BY ConnsAre, Peers DEF Init
  <2>. QED  BY <2>1, IdleIs DEF Calm
<1>2. ASSUME NEW p \in Proc
      PROVE  endpoint[p].state = "CLOSED" /\ endpoint[p].send_frag = NoFrag
  BY DEF Init
<1>. QED  BY <1>1, <1>2 DEF Settled, SettledOn, Together, Scheduled

LEMMA SettledAlways == Spec => []Settled
<1>1. Init => Settled
  BY InitSettled
<1>2. SocketInv /\ Settled /\ [Next]_vars => Settled'
  BY SettledNext
<1>. QED  BY <1>1, <1>2, SocketsAlways, PTL DEF Spec

\* While no connection has broken, the ends of a pair that is connected are on
\* the same socket (btl_tcp_endpoint.c:328, mca_btl_tcp_endpoint_accept()).
THEOREM AgreedConnectionInvariant == Spec => []AgreedConnection
<1>1. Settled => AgreedConnection
  BY DEF Settled, SettledOn, Together, AgreedConnection
<1>. QED  BY <1>1, SettledAlways, PTL

\* ... and who is connected and has a fragment has its send event in the loop
\* (btl_tcp_endpoint.c:428).
THEOREM PendingIsScheduledInvariant == Spec => []PendingIsScheduled
<1>1. ASSUME SocketInv, Settled
      PROVE  PendingIsScheduled
  <2>1. SUFFICES ASSUME breaks = 0, NEW p \in Proc, endpoint[p].state = "CONNECTED",
                        Pending(p) # <<>>
                 PROVE  endpoint[p].send_event = TRUE
    BY DEF PendingIsScheduled
  <2>2. Pending(p) = Pend(endpoint[p])
    BY DEF Pending, Pend
  <2>3. endpoint[p].send_frag # NoFrag
    <3>1. endpoint[p].send_frag = NoFrag => endpoint[p].frags = <<>>
      BY <1>1, <2>1, Holds
    <3>. QED  BY <1>1, <2>1, <2>2, <3>1, InvHas, PendIs
  <2>4. Scheduled(endpoint[p])
    BY <1>1, <2>1 DEF Settled, SettledOn
  <2>. QED  BY <2>1, <2>3, <2>4 DEF Scheduled
<1>2. SocketInv /\ Settled => PendingIsScheduled
  BY <1>1
<1>. QED  BY <1>2, SocketsAlways, SettledAlways, PTL

----------------------------------------------------------------------------
(* What has arrived at a process and is not delivered yet *)

Arr(cn, ep, x) ==
    IF ep[x].sd = NoSd THEN <<>> ELSE Fragments(cn[ep[x].sd].inbox[x])

LEMMA ArrSame ==
    ASSUME NEW cn, NEW ep, NEW cn2, NEW ep2, NEW x, ep2[x].sd = ep[x].sd,
           ep[x].sd # NoSd => cn2[ep[x].sd].inbox[x] = cn[ep[x].sd].inbox[x]
    PROVE  Arr(cn2, ep2, x) = Arr(cn, ep, x)
  BY DEF Arr

\* The socket of an endpoint is open and what it holds is in order.
LEMMA OwnSocket ==
    ASSUME SocketInv, NEW p \in Proc, endpoint[p].sd # NoSd
    PROVE  LET c == endpoint[p].sd
           IN  /\ c \in Conn /\ conn[c].open[p] = TRUE /\ conn[c].inbox[p] \in Inbox
               /\ conn[c].inbox[p] \in FragSeq \/ Greeted(conn[c].inbox[p])
               /\ endpoint[p].state = "CONNECTED" => conn[c].inbox[p] \in FragSeq
               /\ endpoint[p].state = "CONNECT_ACK" => Greeted(conn[c].inbox[p])
               /\ endpoint[p].state = "CONNECTING" =>
                    conn[c].inbox[p] = <<>> /\ endpoint[Peer(p)].sd # c
<1>. DEFINE c == endpoint[p].sd
            q == Peer(p)
<1>1. conn \in Table /\ endpoint \in Endpoints /\ Lines(conn, endpoint) /\ q \in Proc
  BY InvHas, Peers DEF SocketInv
<1>2. /\ c \in Conn /\ conn[c].open[p] /\ At(endpoint, p, c) = endpoint[p].state
      /\ endpoint[p].state # "CLOSED"
      /\ endpoint[p].state # "CONNECTED" => c[1] = p
      /\ endpoint[p].state = "CONNECTED" => conn[c].inbox[p] \in FragSeq
  BY <1>1, Stands
<1>3. conn[c].open[p] = TRUE /\ conn[c].inbox[p] \in Inbox
  BY <1>1, <1>2, TablesHave
<1>4. endpoint[p].state \in {"CONNECTING", "CONNECT_ACK", "CONNECTED"}
  BY <1>1, <1>2, EndpointsHave
<1>5. ASSUME endpoint[p].state # "CONNECTED"
      PROVE  /\ endpoint[p].state = "CONNECT_ACK" => Greeted(conn[c].inbox[p])
             /\ endpoint[p].state = "CONNECTING" =>
                  conn[c].inbox[p] = <<>> /\ endpoint[q].sd # c
  <2>1. c[1] = p
    BY <1>2, <1>5
  <2>2. Standing(conn[c].st, conn[c].open[p], conn[c].open[q], conn[c].inbox[p],
                 conn[c].inbox[q], endpoint[p].state, At(endpoint, q, c))
    BY <1>2, <2>1, LineNow
  <2>3. /\ endpoint[p].state = "CONNECT_ACK" => Greeted(conn[c].inbox[p])
        /\ endpoint[p].state = "CONNECTING" =>
             conn[c].inbox[p] = <<>> /\ At(endpoint, q, c) = "away"
    BY <2>2 DEF Standing
  <2>4. At(endpoint, q, c) = "away" => endpoint[q].sd # c
    BY <1>1, EndpointsHave DEF At
  <2>. QED  BY <2>3, <2>4
<1>. QED  BY <1>2, <1>3, <1>4, <1>5, Nil

LEMMA ArrIs ==
    ASSUME SocketInv, NEW p \in Proc
    PROVE  Arr(conn, endpoint, p) \in FragSeq
<1>1. CASE endpoint[p].sd = NoSd
  BY <1>1, Nil DEF Arr
<1>2. CASE endpoint[p].sd # NoSd
  <2>. DEFINE s == conn[endpoint[p].sd].inbox[p]
  <2>1. s \in Inbox /\ (s \in FragSeq \/ Greeted(s))
    BY <1>2, OwnSocket
  <2>. HIDE DEF s
  <2>2. Fragments(s) \in FragSeq
    BY <2>1, FragSeqs, Inboxes
  <2>. QED  BY <1>2, <2>2 DEF Arr, s
<1>. QED  BY <1>1, <1>2

\* The peer of p loses nothing when p closes its end of c.
LEMMA ShutPeer ==
    ASSUME SocketInv, NEW p \in Proc, NEW c \in Conn, conn' = Shut(conn, p, c),
           endpoint'[Peer(p)] = endpoint[Peer(p)]
    PROVE  Arr(conn', endpoint', Peer(p)) = Arr(conn, endpoint, Peer(p))
<1>. DEFINE q == Peer(p)
            d == endpoint[q].sd
<1>1. conn \in Table /\ q \in Proc
  BY InvHas, Peers
<1>2. \A x \in Conn : x # c => conn'[x] = conn[x]
  BY <1>1, ShutElsewhere
<1>3. ShutAt(conn, p, c)
  BY <1>1, ShutHere
<1>4. ASSUME d # NoSd
      PROVE  conn'[d].inbox[q] = conn[d].inbox[q]
  <2>1. d \in Conn /\ conn[d].open[q] = TRUE
    BY <1>1, <1>4, OwnSocket
  <2>2. CASE d = c
    BY <1>3, <2>1, <2>2 DEF ShutAt
  <2>3. CASE d # c
    BY <1>2, <2>1, <2>3
  <2>. QED  BY <2>2, <2>3
<1>. QED  BY <1>4, ArrSame

\* What the step of p does to what has arrived: nothing at the peer, and at p
\* itself it may be dropped, if a connection has broken.
ArrivalsKept(p) ==
    /\ Arr(conn', endpoint', Peer(p)) = Arr(conn, endpoint, Peer(p))
    /\ \/ Arr(conn', endpoint', p) = Arr(conn, endpoint, p)
       \/ /\ Arr(conn', endpoint', p) = <<>>
          /\ breaks = 0 => Arr(conn, endpoint, p) = <<>>

LEMMA SameConnKept ==
    ASSUME SocketInv, NEW p \in Proc, NEW f, Sets(p, f), f.sd = endpoint[p].sd,
           UNCHANGED conn
    PROVE  ArrivalsKept(p)
<1>1. endpoint'[p] = f /\ endpoint'[Peer(p)] = endpoint[Peer(p)]
  BY SetsIs
<1>. QED  BY <1>1, ArrSame DEF ArrivalsKept

LEMMA OpenedKept ==
    ASSUME SocketInv, NEW p \in Proc, NEW f, NEW n, NEW k, Opened(p, f, n, k)
    PROVE  ArrivalsKept(p)
<1>. DEFINE c == <<p, k>>
            q == Peer(p)
<1>1. c \in Conn /\ Sets(p, f) /\ Opens(p, c, f, n)
  BY DEF Opened
<1>. HIDE DEF c
<1>2. /\ endpoint[p].state = "CLOSED" /\ f.sd = c /\ conn[c] = Idle
      /\ \A x \in Conn : x # c => conn'[x] = conn[x]
      /\ conn'[c].inbox[p] = <<>>
  BY <1>1 DEF Opens, JustOpen
<1>3. endpoint'[p] = f /\ endpoint'[q] = endpoint[q] /\ endpoint[p].sd = NoSd
  BY <1>1, <1>2, SetsIs, InvHas
<1>4. c # NoSd /\ q \in Proc
  BY <1>1, ConnsAre, Peers
<1>5. Arr(conn', endpoint', p) = <<>> /\ Arr(conn, endpoint, p) = <<>>
  BY <1>2, <1>3, <1>4, Nil DEF Arr
<1>6. ASSUME endpoint[q].sd # NoSd
      PROVE  conn'[endpoint[q].sd].inbox[q] = conn[endpoint[q].sd].inbox[q]
  <2>1. endpoint[q].sd \in Conn /\ conn[endpoint[q].sd].open[q] = TRUE
    BY <1>4, <1>6, OwnSocket
  <2>2. endpoint[q].sd # c
    BY <1>2, <1>4, <2>1, IdleIs
  <2>. QED  BY <1>2, <2>1, <2>2
<1>7. Arr(conn', endpoint', q) = Arr(conn, endpoint, q)
  BY <1>3, <1>6, ArrSame
<1>. QED  BY <1>5, <1>7 DEF ArrivalsKept

LEMMA ClosesKept ==
    ASSUME SocketInv, Settled, NEW p \in Proc, NEW f, Closes(p, f) \/ \E n : Loses(p, f, n)
    PROVE  ArrivalsKept(p)
<1>. DEFINE c == endpoint[p].sd
            q == Peer(p)
<1>1. Sets(p, f) /\ f.sd = NoSd /\ c # NoSd /\ conn' = Shut(conn, p, c)
  BY DEF Closes, Loses
<1>2. endpoint'[p] = f /\ endpoint'[q] = endpoint[q] /\ c \in Conn
  BY <1>1, SetsIs, OwnSocket
<1>3. Arr(conn', endpoint', q) = Arr(conn, endpoint, q)
  BY <1>1, <1>2, ShutPeer
<1>4. Arr(conn', endpoint', p) = <<>>
  BY <1>1, <1>2 DEF Arr
<1>5. ASSUME breaks = 0
      PROVE  Arr(conn, endpoint, p) = <<>>
  <2>1. SettledOn(conn, endpoint)
    BY <1>5 DEF Settled
  <2>2. Closes(p, f)
    BY <1>2, <2>1, NoneBroken DEF Loses
  <2>3. c[1] = p /\ endpoint[q].sd # c
    BY <2>1, <2>2, ClosesIs
  <2>4. Calm(conn, endpoint, c)
    BY <1>2, <2>1 DEF SettledOn
  <2>5. conn[c].inbox[p] = <<>>
    BY <2>3, <2>4 DEF Calm, At
  <2>. QED  BY <1>1, <2>5, Nil DEF Arr
<1>. QED  BY <1>3, <1>4, <1>5 DEF ArrivalsKept

LEMMA GreetsKept ==
    ASSUME SocketInv, NEW p \in Proc, NEW f, Greets(p, f)
    PROVE  ArrivalsKept(p)
<1>. DEFINE c == endpoint[p].sd
            q == Peer(p)
<1>1. /\ Sets(p, f) /\ c # NoSd /\ f.sd = c /\ endpoint[p].state = "CONNECTING"
      /\ conn' = Write(conn, p, c, Guid)
  BY DEF Greets
<1>2. /\ endpoint'[p] = f /\ endpoint'[q] = endpoint[q] /\ c \in Conn
      /\ endpoint[q].sd # c /\ conn \in Table /\ endpoint[q].sd \in Conn \cup {NoSd}
  <2>1. endpoint'[p] = f /\ endpoint'[q] = endpoint[q]
    BY <1>1, SetsIs
  <2>2. conn \in Table /\ endpoint \in Endpoints /\ q \in Proc
    BY InvHas, Peers
  <2>. QED  BY <1>1, <2>1, <2>2, OwnSocket, EndpointsHave
<1>3. /\ \A x \in Conn : x # c => conn'[x] = conn[x]
      /\ conn'[c].inbox[p] = conn[c].inbox[p]
  BY <1>1, <1>2, Writing
<1>4. Arr(conn', endpoint', p) = Arr(conn, endpoint, p)
  BY <1>1, <1>2, <1>3, ArrSame
<1>5. Arr(conn', endpoint', q) = Arr(conn, endpoint, q)
  BY <1>2, <1>3, ArrSame
<1>. QED  BY <1>4, <1>5 DEF ArrivalsKept

LEMMA NamesKept ==
    ASSUME SocketInv, NEW p \in Proc, NEW f, Names(p, f)
    PROVE  ArrivalsKept(p)
<1>. DEFINE c == endpoint[p].sd
            q == Peer(p)
            s == conn[c].inbox[p]
<1>1. /\ Sets(p, f) /\ c # NoSd /\ f.sd = c /\ endpoint[p].state = "CONNECT_ACK"
      /\ s # <<>> /\ conn' = Read(conn, p, c)
  BY DEF Names
<1>2. /\ endpoint'[p] = f /\ endpoint'[q] = endpoint[q] /\ c \in Conn /\ Greeted(s)
      /\ conn \in Table /\ endpoint[q].sd \in Conn \cup {NoSd}
  <2>1. endpoint'[p] = f /\ endpoint'[q] = endpoint[q]
    BY <1>1, SetsIs
  <2>2. conn \in Table /\ endpoint \in Endpoints /\ q \in Proc
    BY InvHas, Peers
  <2>3. c \in Conn /\ Greeted(s)
    BY <1>1, OwnSocket
  <2>. QED  BY <2>1, <2>2, <2>3, EndpointsHave
<1>3. /\ \A x \in Conn : x # c => conn'[x] = conn[x]
      /\ conn'[c].inbox[p] = Tail(s) /\ conn'[c].inbox[q] = conn[c].inbox[q]
  BY <1>1, <1>2, Reading
<1>4. Arr(conn', endpoint', p) = Fragments(Tail(s)) /\ Arr(conn, endpoint, p) = Fragments(s)
  BY <1>1, <1>2, <1>3 DEF Arr
<1>5. Fragments(s) = Tail(s) /\ Fragments(Tail(s)) = Tail(s)
  <2>. HIDE DEF s
  <2>1. Head(s) = Guid /\ Tail(s) \in FragSeq
    BY <1>1, <1>2 DEF Greeted
  <2>. QED  BY <1>1, <2>1, FragSeqs DEF Fragments
<1>6. Arr(conn', endpoint', q) = Arr(conn, endpoint, q)
  BY <1>2, <1>3, ArrSame
<1>. QED  BY <1>4, <1>5, <1>6 DEF ArrivalsKept

LEMMA RejectsKept ==
    ASSUME SocketInv, NEW p \in Proc, NEW c, Rejects(p, c), UNCHANGED endpoint
    PROVE  ArrivalsKept(p)
<1>1. /\ c \in Conn /\ c # endpoint[p].sd /\ conn' = Shut(conn, p, c) /\ endpoint' = endpoint
  BY DEF Rejects
<1>2. conn \in Table /\ endpoint[p].sd \in Conn \cup {NoSd}
  BY InvHas, EndpointsHave
<1>3. \A x \in Conn : x # c => conn'[x] = conn[x]
  BY <1>1, <1>2, ShutElsewhere
<1>4. Arr(conn', endpoint', Peer(p)) = Arr(conn, endpoint, Peer(p))
  BY <1>1, ShutPeer
<1>5. Arr(conn', endpoint', p) = Arr(conn, endpoint, p)
  BY <1>1, <1>2, <1>3, ArrSame
<1>. QED  BY <1>4, <1>5 DEF ArrivalsKept

\* A connection of the peer of p, other than the one p joins, keeps what the
\* peer has not read.
LEMMA JoinedPeer ==
    ASSUME SocketInv, NEW p \in Proc, NEW f, NEW c, Joins(p, f, c),
           endpoint[Peer(p)].sd # NoSd, endpoint[Peer(p)].sd # c
    PROVE  LET x == endpoint[Peer(p)].sd
           IN  x \in Conn /\ Joined(p, c)[x].inbox[Peer(p)] = conn[x].inbox[Peer(p)]
<1>. DEFINE q == Peer(p)
            x == endpoint[q].sd
            d == endpoint[p].sd
<1>1. q \in Proc
  BY Peers
<1>2. x \in Conn /\ conn[x].open[q] = TRUE
  BY <1>1, OwnSocket
<1>3. CASE x # d
  <2>1. AfterName(p, c)
    BY JoinedIs
  <2>. QED  BY <1>2, <1>3, <2>1 DEF AfterName
<1>4. CASE x = d
  <2>1. LeftBehind(p, c)
    BY <1>4, LeftBehindIs
  <2>. QED  BY <1>2, <1>4, <2>1 DEF LeftBehind
<1>. QED  BY <1>3, <1>4

\* Nothing has arrived on what p gives up for c, unless a connection has broken.
LEMMA NothingLeft ==
    ASSUME SocketInv, Settled, NEW p \in Proc, NEW f, NEW c, Joins(p, f, c), breaks = 0
    PROVE  Arr(conn, endpoint, p) = <<>>
<1>. DEFINE q == Peer(p)
            d == endpoint[p].sd
<1>1. SettledOn(conn, endpoint)
  BY DEF Settled
<1>2. endpoint[q].sd = c /\ endpoint[p].state # "CONNECTED"
  BY <1>1, TakesIs
<1>3. c # d
  BY DEF Joins
<1>4. CASE d = NoSd
  BY <1>4 DEF Arr
<1>5. CASE d # NoSd
  <2>1. d \in Conn /\ d[1] = p
    BY <1>2, <1>5, InvHas, Stands DEF SocketInv
  <2>2. Calm(conn, endpoint, d)
    BY <1>1, <2>1 DEF SettledOn
  <2>3. conn[d].inbox[p] = <<>>
    BY <1>2, <1>3, <2>1, <2>2 DEF Calm, At
  <2>. QED  BY <1>5, <2>3, Nil DEF Arr
<1>. QED  BY <1>4, <1>5

\* Where a write of p ends.
Lands(cn, cn2, p, c, m) ==
    LET box == cn[c].inbox[Peer(p)]
    IN  cn2[c].inbox[Peer(p)] = IF cn[c].open[Peer(p)] = TRUE THEN Append(box, m) ELSE box

LEMMA WrittenTo ==
    ASSUME NEW cn \in Table, NEW p \in Proc, NEW c \in Conn, NEW m \in Frag \cup {Guid}
    PROVE  Lands(cn, Write(cn, p, c, m), p, c, m)
<1>. DEFINE box == cn[c].inbox[Peer(p)]
            cn2 == Write(cn, p, c, m)
<1>1. cn2[c].inbox[Peer(p)] = IF cn[c].open[Peer(p)] THEN Append(box, m) ELSE box
  <2>1. ASSUME NEW e \in Conn
        PROVE  LET w == Write(cn, p, e, m)
               IN  w[e].inbox[Peer(p)] = IF cn[e].open[Peer(p)]
                                         THEN Append(cn[e].inbox[Peer(p)], m)
                                         ELSE cn[e].inbox[Peer(p)]
    BY Writing
  <2>. QED  BY <2>1
<1>2. cn[c].open[Peer(p)] \in BOOLEAN
  BY TablesHave, Peers
<1>. HIDE DEF cn2
<1>3. Lands(cn, cn2, p, c, m)
  BY <1>1, <1>2 DEF Lands
<1>. QED  BY <1>3 DEF cn2

LEMMA TakesKept ==
    ASSUME SocketInv, Settled, NEW p \in Proc, NEW f, NEW c, Takes(p, f, c)
    PROVE  ArrivalsKept(p)
<1>. DEFINE q == Peer(p)
            x == endpoint[q].sd
<1>1. /\ Joins(p, f, c) /\ f.sd = c /\ conn' = Write(Joined(p, c), p, c, Guid)
  BY DEF Takes, Joined
<1>2. c \in Conn /\ Sets(p, f)
  BY <1>1 DEF Joins
<1>3. endpoint'[p] = f /\ endpoint'[q] = endpoint[q]
  BY <1>2, SetsIs
<1>4. /\ Joined(p, c) \in Table /\ Joined(p, c)[c].inbox[p] = <<>>
      /\ Joined(p, c)[c].inbox[q] = <<>> /\ conn[c].inbox[q] = <<>>
  <2>1. AfterName(p, c)
    BY <1>1, JoinedIs
  <2>. QED  BY <2>1 DEF AfterName
<1>5. /\ \A y \in Conn : y # c => conn'[y] = Joined(p, c)[y]
      /\ conn'[c].inbox[p] = <<>> /\ conn'[c].inbox[q] \in {<<>>, <<Guid>>}
  <2>1. /\ \A y \in Conn : y # c => conn'[y] = Joined(p, c)[y]
        /\ conn'[c].inbox[p] = Joined(p, c)[c].inbox[p]
    BY <1>1, <1>2, <1>4, Writing
  <2>2. q \in Proc /\ Joined(p, c)[c].open[q] \in BOOLEAN
    BY <1>2, <1>4, Peers, TablesHave
  <2>3. /\ Joined(p, c)[c].open[q] = TRUE =>
             conn'[c].inbox[q] = Append(Joined(p, c)[c].inbox[q], Guid)
        /\ Joined(p, c)[c].open[q] = FALSE => conn'[c].inbox[q] = Joined(p, c)[c].inbox[q]
    <3>1. Lands(Joined(p, c), Write(Joined(p, c), p, c, Guid), p, c, Guid)
      BY <1>2, <1>4, WrittenTo
    <3>2. Lands(Joined(p, c), conn', p, c, Guid)
      BY <1>1, <3>1
    <3>. QED  BY <2>2, <3>2 DEF Lands
  <2>. QED  BY <1>4, <2>1, <2>2, <2>3, Nil
<1>6. Arr(conn', endpoint', p) = <<>>
  BY <1>1, <1>3, <1>5, Nil DEF Arr
<1>7. breaks = 0 => Arr(conn, endpoint, p) = <<>>
  BY <1>1, NothingLeft
<1>8. Arr(conn', endpoint', q) = Arr(conn, endpoint, q)
  <2>1. CASE x = c
    BY <1>3, <1>4, <1>5, <2>1, Nil DEF Arr
  <2>2. CASE x # c
    <3>1. x # NoSd => x \in Conn /\ Joined(p, c)[x].inbox[q] = conn[x].inbox[q]
      BY <1>1, <2>2, JoinedPeer
    <3>. QED  BY <1>3, <1>5, <2>2, <3>1, ArrSame
  <2>. QED  BY <2>1, <2>2
<1>. QED  BY <1>6, <1>7, <1>8 DEF ArrivalsKept

LEMMA FailsKept ==
    ASSUME SocketInv, Settled, NEW p \in Proc, NEW f, NEW c, Fails(p, f, c)
    PROVE  ArrivalsKept(p)
<1>. DEFINE q == Peer(p)
            x == endpoint[q].sd
<1>1. /\ Joins(p, f, c) /\ f.sd = NoSd /\ conn' = Shut(Joined(p, c), p, c)
      /\ conn[c].st = "broken"
  BY DEF Fails, Joined
<1>2. c \in Conn /\ Sets(p, f)
  BY <1>1 DEF Joins
<1>3. endpoint'[p] = f /\ endpoint'[q] = endpoint[q]
  BY <1>2, SetsIs
<1>4. /\ Joined(p, c) \in Table
      /\ Joined(p, c)[c].inbox[q] = <<>> /\ conn[c].inbox[q] = <<>>
  <2>1. AfterName(p, c)
    BY <1>1, JoinedIs
  <2>. QED  BY <2>1 DEF AfterName
<1>5. /\ \A y \in Conn : y # c => conn'[y] = Joined(p, c)[y]
      /\ conn'[c].inbox[q] = <<>>
  <2>1. ShutAt(Joined(p, c), p, c)
    BY <1>2, <1>4, ShutHere
  <2>2. conn'[c].inbox[q] = <<>>
    BY <1>1, <1>4, <2>1 DEF ShutAt
  <2>. QED  BY <1>1, <1>2, <1>4, <2>2, ShutElsewhere
<1>6. Arr(conn', endpoint', p) = <<>>
  BY <1>1, <1>3 DEF Arr
<1>7. breaks = 0 => Arr(conn, endpoint, p) = <<>>
  BY <1>1, NothingLeft
<1>8. Arr(conn', endpoint', q) = Arr(conn, endpoint, q)
  <2>1. CASE x = c
    BY <1>3, <1>4, <1>5, <2>1, ArrSame
  <2>2. CASE x # c
    <3>1. x # NoSd => x \in Conn /\ Joined(p, c)[x].inbox[q] = conn[x].inbox[q]
      BY <1>1, <2>2, JoinedPeer
    <3>. QED  BY <1>3, <1>5, <2>2, <3>1, ArrSame
  <2>. QED  BY <2>1, <2>2
<1>. QED  BY <1>6, <1>7, <1>8 DEF ArrivalsKept

\* A fragment p writes arrives behind the others, if the peer is still there.
Added(p, m) ==
    /\ Arr(conn', endpoint', p) = Arr(conn, endpoint, p)
    /\ \/ Arr(conn', endpoint', Peer(p)) = Append(Arr(conn, endpoint, Peer(p)), m)
       \/ Arr(conn', endpoint', Peer(p)) = Arr(conn, endpoint, Peer(p)) /\ breaks # 0

\* Behind the fragments of an inbox, or the name in front of them.
LEMMA FragmentsAppend ==
    ASSUME NEW s \in Inbox, NEW m \in Frag, s \in FragSeq \/ (Greeted(s) /\ s # <<>>)
    PROVE  Fragments(Append(s, m)) = Append(Fragments(s), m)
<1>1. CASE s \in FragSeq
  <2>1. Append(s, m) \in FragSeq /\ Fragments(s) = s
    BY <1>1, FragSeqs
  <2>. QED  BY <2>1, FragSeqs
<1>2. CASE Greeted(s) /\ s # <<>>
  BY <1>2, Inboxes
<1>. QED  BY <1>1, <1>2

LEMMA PeerReads ==
    ASSUME SocketInv, NEW p \in Proc, endpoint[p].state = "CONNECTED",
           endpoint[p].sd # NoSd, endpoint[Peer(p)].sd = endpoint[p].sd,
           conn[endpoint[p].sd].st # "broken"
    PROVE  LET s == conn[endpoint[p].sd].inbox[Peer(p)]
           IN  s \in Inbox /\ (s \in FragSeq \/ (Greeted(s) /\ s # <<>>))
<1>. DEFINE q == Peer(p)
            c == endpoint[p].sd
            s == conn[c].inbox[q]
<1>1. q \in Proc /\ Peer(q) = p /\ endpoint[q].sd # NoSd /\ endpoint[q].sd = c
  BY Peers
<1>2. /\ c \in Conn /\ s \in Inbox
      /\ endpoint[q].state = "CONNECTED" => s \in FragSeq
      /\ endpoint[q].state = "CONNECTING" => endpoint[p].sd # c
  BY <1>1, OwnSocket
<1>3. /\ endpoint[q].state # "CLOSED" /\ endpoint[q].state # "CONNECTED" => c[1] = q
      /\ endpoint[q].state \in {"CLOSED", "CONNECTING", "CONNECT_ACK", "CONNECTED"}
  BY <1>1, InvHas, Stands, EndpointsHave DEF SocketInv
<1>4. ASSUME endpoint[q].state = "CONNECT_ACK"
      PROVE  Greeted(s) /\ s # <<>>
  <2>1. c[1] = q
    BY <1>3, <1>4
  <2>2. At(endpoint, q, c) = "CONNECT_ACK" /\ At(endpoint, p, c) = "CONNECTED"
    BY <1>1, <1>4 DEF At
  <2>3. Standing(conn[c].st, conn[c].open[q], conn[c].open[p], s, conn[c].inbox[p],
                 At(endpoint, q, c), At(endpoint, p, c))
    BY <1>1, <1>2, <2>1, LineNow
  <2>. HIDE DEF s
  <2>. QED  BY <2>2, <2>3 DEF Standing
<1>5. endpoint[q].state # "CLOSED"
  BY <1>1, InvHas
<1>. QED  BY <1>2, <1>3, <1>4, <1>5

LEMMA WritesArrive ==
    ASSUME SocketInv, Settled, NEW p \in Proc, NEW f, NEW m, Writes(p, f, m)
    PROVE  Added(p, m)
<1>. DEFINE q == Peer(p)
            c == endpoint[p].sd
            s == conn[c].inbox[q]
<1>1. /\ Sets(p, f) /\ c # NoSd /\ f.sd = c /\ endpoint[p].state = "CONNECTED"
      /\ conn[c].st # "broken" /\ m \in Frag /\ conn' = Write(conn, p, c, m)
  BY DEF Writes
<1>2. /\ endpoint'[p] = f /\ endpoint'[q] = endpoint[q] /\ q \in Proc
  BY <1>1, SetsIs, Peers
<1>3. conn \in Table /\ c \in Conn
  BY <1>1, InvHas, OwnSocket
<1>4. /\ \A x \in Conn : x # c => conn'[x] = conn[x]
      /\ conn'[c].inbox[p] = conn[c].inbox[p]
  BY <1>1, <1>3, Writing
<1>5. Arr(conn', endpoint', p) = Arr(conn, endpoint, p)
  BY <1>1, <1>2, <1>4, ArrSame
<1>6. CASE endpoint[q].sd = c
  <2>1. s \in Inbox /\ (s \in FragSeq \/ (Greeted(s) /\ s # <<>>))
    BY <1>1, <1>6, PeerReads
  <2>2. conn[c].open[q] = TRUE
    BY <1>1, <1>2, <1>6, OwnSocket
  <2>3. Lands(conn, conn', p, c, m)
    BY <1>1, <1>3, WrittenTo
  <2>4. conn'[c].inbox[q] = Append(s, m)
    BY <2>2, <2>3 DEF Lands
  <2>5. Fragments(Append(s, m)) = Append(Fragments(s), m)
    BY <1>1, <2>1, FragmentsAppend
  <2>6. Arr(conn', endpoint', q) = Fragments(Append(s, m)) /\ Arr(conn, endpoint, q) = Fragments(s)
    BY <1>1, <1>2, <1>6, <2>4 DEF Arr
  <2>. QED  BY <1>5, <2>5, <2>6 DEF Added
<1>7. CASE endpoint[q].sd # c
  <2>1. breaks # 0
    BY <1>1, <1>7 DEF Settled, SettledOn, Together
  <2>2. endpoint[q].sd # NoSd => endpoint[q].sd \in Conn
    BY <1>2, OwnSocket
  <2>3. Arr(conn', endpoint', q) = Arr(conn, endpoint, q)
    BY <1>2, <1>4, <1>7, <2>2, ArrSame
  <2>. QED  BY <1>5, <2>1, <2>3 DEF Added
<1>. QED  BY <1>6, <1>7

\* The fragment p delivers is the first that has arrived.
Removed(p) ==
    /\ Arr(conn, endpoint, p) # <<>>
    /\ Head(conn[endpoint[p].sd].inbox[p]) = Head(Arr(conn, endpoint, p))
    /\ Arr(conn', endpoint', p) = Tail(Arr(conn, endpoint, p))
    /\ Arr(conn', endpoint', Peer(p)) = Arr(conn, endpoint, Peer(p))

LEMMA DeliversRemoves ==
    ASSUME SocketInv, NEW p \in Proc, Delivers(p), UNCHANGED endpoint
    PROVE  Removed(p)
<1>. DEFINE q == Peer(p)
            c == endpoint[p].sd
            s == conn[c].inbox[p]
<1>1. /\ c # NoSd /\ endpoint[p].state = "CONNECTED" /\ endpoint' = endpoint
      /\ s # <<>> /\ conn' = Read(conn, p, c)
  BY DEF Delivers
<1>2. conn \in Table /\ c \in Conn /\ s \in FragSeq /\ q \in Proc
  BY <1>1, InvHas, OwnSocket, Peers
<1>3. /\ \A x \in Conn : x # c => conn'[x] = conn[x]
      /\ conn'[c].inbox[p] = Tail(s) /\ conn'[c].inbox[q] = conn[c].inbox[q]
  BY <1>1, <1>2, Reading
<1>4. Fragments(s) = s /\ Fragments(Tail(s)) = Tail(s)
  <2>. HIDE DEF s
  <2>1. Tail(s) \in FragSeq
    BY <1>1, <1>2, FragSeqs
  <2>. QED  BY <1>2, <2>1, FragSeqs
<1>5. Arr(conn, endpoint, p) = s /\ Arr(conn', endpoint', p) = Tail(s)
  BY <1>1, <1>3, <1>4 DEF Arr
<1>6. endpoint[q].sd # NoSd => endpoint[q].sd \in Conn
  BY <1>2, OwnSocket
<1>7. Arr(conn', endpoint', q) = Arr(conn, endpoint, q)
  BY <1>1, <1>3, <1>6, ArrSame
<1>. QED  BY <1>1, <1>5, <1>7 DEF Removed

LEMMA TurnsKept ==
    ASSUME SocketInv, NEW c, NEW from, NEW to, Turns(c, from, to), NEW x \in Proc
    PROVE  Arr(conn', endpoint', x) = Arr(conn, endpoint, x)
<1>1. /\ endpoint' = endpoint /\ \A y \in Conn : y # c => conn'[y] = conn[y]
      /\ conn'[c].inbox[x] = conn[c].inbox[x]
  BY DEF Turns
<1>2. endpoint[x].sd # NoSd => endpoint[x].sd \in Conn
  BY OwnSocket
<1>. QED  BY <1>1, <1>2, ArrSame

\* After a reset the first of what had arrived are left.
Shorter(a2, a) == \E k \in 0..Len(a) : a2 = SubSeq(a, 1, k)

LEMMA ShorterIs ==
    ASSUME NEW a \in FragSeq
    PROVE  Shorter(a, a) /\ Shorter(<<>>, a)
<1>1. Len(a) \in Nat /\ SubSeq(a, 1, Len(a)) = a
  BY LenProperties, SubSeqFull DEF FragSeq
<1>2. SubSeq(a, 1, 0) = <<>>
  BY SubSeqEmpty
<1>3. Len(a) \in 0..Len(a) /\ 0 \in 0..Len(a)
  BY <1>1
<1>4. Shorter(a, a)
  BY <1>1, <1>3 DEF Shorter
<1>5. Shorter(<<>>, a)
  BY <1>2, <1>3 DEF Shorter
<1>. QED  BY <1>4, <1>5

LEMMA FragmentsShorter ==
    ASSUME NEW s \in Inbox, s \in FragSeq \/ Greeted(s), NEW n \in 0..Len(s)
    PROVE  Shorter(Fragments(SubSeq(s, 1, n)), Fragments(s))
<1>. DEFINE a == SubSeq(s, 1, n)
<1>1. CASE s \in FragSeq
  <2>1. a \in FragSeq
    BY <1>1, Arrived
  <2>2. Fragments(a) = a /\ Fragments(s) = s
    BY <1>1, <2>1, FragSeqs
  <2>. QED  BY <2>2 DEF Shorter
<1>2. CASE Greeted(s) /\ n = 0
  <2>1. a = <<>> /\ Fragments(s) \in FragSeq
    BY <1>2, Arrived, Inboxes
  <2>2. Fragments(a) = <<>>
    BY <2>1, Nil
  <2>. QED  BY <2>1, <2>2, ShorterIs
<1>3. CASE Greeted(s) /\ n # 0
  <2>1. n > 0 /\ Len(s) \in Nat /\ n \in Nat
    BY <1>3, LenProperties DEF Inbox
  <2>2. a # <<>> /\ Head(a) = Guid /\ Tail(a) = SubSeq(Tail(s), 1, n - 1)
    <3>1. n > 0 /\ Greeted(s) => /\ a # <<>> /\ Head(a) = Guid
                                /\ Tail(a) = SubSeq(Tail(s), 1, n - 1)
      BY Arrived
    <3>. QED  BY <1>3, <2>1, <3>1
  <2>3. s # <<>>
    BY <2>1
  <2>4. Fragments(a) = SubSeq(Tail(s), 1, n - 1) /\ Fragments(s) = Tail(s)
    BY <1>3, <2>2, <2>3 DEF Fragments, Greeted
  <2>5. Len(Tail(s)) = Len(s) - 1
    BY <2>3, HeadTailProperties DEF Inbox
  <2>6. n - 1 \in 0..Len(Tail(s))
    BY <2>1, <2>5
  <2>. QED  BY <2>4, <2>6 DEF Shorter
<1>. QED  BY <1>1, <1>2, <1>3

LEMMA ResetsShorten ==
    ASSUME SocketInv, NEW c, NEW arrived, Resets(c, arrived), NEW x \in Proc
    PROVE  Shorter(Arr(conn', endpoint', x), Arr(conn, endpoint, x))
<1>. DEFINE d == endpoint[x].sd
            s == conn[c].inbox[x]
<1>1. /\ endpoint' = endpoint /\ \A y \in Conn : y # c => conn'[y] = conn[y]
      /\ arrived[x] \in 0..Len(s) /\ conn'[c].inbox[x] = SubSeq(s, 1, arrived[x])
  BY DEF Resets
<1>2. CASE d = c /\ d # NoSd
  <2>1. s \in Inbox /\ (s \in FragSeq \/ Greeted(s))
    BY <1>2, OwnSocket
  <2>2. /\ Arr(conn, endpoint, x) = Fragments(s)
        /\ Arr(conn', endpoint', x) = Fragments(SubSeq(s, 1, arrived[x]))
    BY <1>1, <1>2 DEF Arr
  <2>. HIDE DEF s
  <2>3. Shorter(Fragments(SubSeq(s, 1, arrived[x])), Fragments(s))
    BY <1>1, <2>1, FragmentsShorter
  <2>. QED  BY <2>2, <2>3
<1>3. CASE d # c \/ d = NoSd
  <2>1. d # NoSd => d \in Conn
    BY OwnSocket
  <2>2. d # NoSd => conn'[d].inbox[x] = conn[d].inbox[x]
    BY <1>1, <1>3, <2>1
  <2>3. Arr(conn', endpoint', x) = Arr(conn, endpoint, x)
    BY <1>1, <2>2, ArrSame
  <2>. QED  BY <2>3, ArrIs, ShorterIs
<1>. QED  BY <1>2, <1>3

----------------------------------------------------------------------------
(* The line from a process to its peer: delivered, arrived, still queued *)

LineOfThree(d, a, s) == (d \o a) \o s

\* What may be in line when n fragments are sent and b connections have broken.
Good(w, n, b) ==
    /\ w \in FragSeq
    /\ \A i, j \in 1..Len(w) : i < j => w[i] < w[j]
    /\ \A i \in 1..Len(w) : w[i] <= n
    /\ b = 0 => w = [i \in 1..n |-> i]

LEMMA ThreeIs ==
    ASSUME NEW d \in FragSeq, NEW a \in FragSeq, NEW s \in FragSeq
    PROVE  LET w == LineOfThree(d, a, s)
           IN  /\ w \in FragSeq /\ d \o a \in FragSeq
               /\ Len(w) = Len(d) + Len(a) + Len(s)
               /\ Len(d) \in Nat /\ Len(a) \in Nat /\ Len(s) \in Nat
               /\ \A i \in 1..Len(d) : w[i] = d[i]
               /\ \A i \in 1..Len(a) : w[Len(d) + i] = a[i]
               /\ \A i \in 1..Len(s) : w[Len(d) + Len(a) + i] = s[i]
<1>. DEFINE x == d \o a
            w == x \o s
            l == Len(d)
            m == Len(a)
            k == Len(s)
<1>1. l \in Nat /\ m \in Nat /\ k \in Nat
  BY LenProperties DEF FragSeq
<1>2. /\ x \in FragSeq /\ Len(x) = l + m
      /\ \A i \in 1..l + m : x[i] = IF i <= l THEN d[i] ELSE a[i - l]
  BY ConcatProperties DEF FragSeq
<1>. HIDE DEF x
<1>3. /\ w \in FragSeq /\ Len(w) = (l + m) + k
      /\ \A i \in 1..(l + m) + k : w[i] = IF i <= l + m THEN x[i] ELSE s[i - (l + m)]
  <2>1. /\ w \in FragSeq /\ Len(w) = Len(x) + k
        /\ \A i \in 1..Len(x) + k : w[i] = IF i <= Len(x) THEN x[i] ELSE s[i - Len(x)]
    BY <1>2, ConcatProperties DEF FragSeq
  <2>. QED  BY <1>2, <2>1
<1>. HIDE DEF w, l, m, k
<1>4. \A i \in 1..l : w[i] = d[i]
  BY <1>1, <1>2, <1>3
<1>5. ASSUME NEW i \in 1..m
      PROVE  w[l + i] = a[i]
  <2>1. /\ l + i \in 1..l + m /\ ~(l + i <= l) /\ (l + i) - l = i
        /\ l + i \in 1..(l + m) + k
    BY <1>1
  <2>. QED  BY <1>1, <1>2, <1>3, <2>1
<1>6. ASSUME NEW i \in 1..k
      PROVE  w[l + m + i] = s[i]
  <2>1. /\ l + m + i \in 1..(l + m) + k /\ ~(l + m + i <= l + m)
        /\ (l + m + i) - (l + m) = i
    BY <1>1
  <2>. QED  BY <1>3, <2>1
<1>7. LineOfThree(d, a, s) = w
  BY DEF LineOfThree, w, x
<1>. QED  BY <1>1, <1>2, <1>3, <1>4, <1>5, <1>6, <1>7 DEF x, l, m, k

\* The next fragment joins the end of the line.
LEMMA GoodAppend ==
    ASSUME NEW w, NEW n \in Nat, NEW b, Good(w, n, b), n + 1 \in Frag
    PROVE  Good(Append(w, n + 1), n + 1, b)
<1>. DEFINE v == Append(w, n + 1)
            l == Len(w)
<1>1. /\ w \in FragSeq /\ l \in Nat /\ \A i \in 1..l : w[i] \in Nat /\ w[i] <= n
  BY LenProperties, ElementOfSeq, FragNotGuid DEF Good, FragSeq
<1>2. /\ v \in FragSeq /\ Len(v) = l + 1 /\ v[l + 1] = n + 1
      /\ \A i \in 1..l : v[i] = w[i]
  BY AppendProperties DEF Good, FragSeq
<1>. HIDE DEF v
<1>3. \A i, j \in 1..l : i < j => w[i] < w[j]
  BY DEF Good
<1>. HIDE DEF l
<1>4. ASSUME NEW i \in 1..l + 1, NEW j \in 1..l + 1, i < j
      PROVE  v[i] < v[j]
  <2>1. i \in 1..l /\ v[i] = w[i] /\ w[i] <= n /\ w[i] \in Nat
    BY <1>1, <1>2, <1>4
  <2>2. CASE j = l + 1
    BY <1>2, <2>1, <2>2
  <2>3. CASE j \in 1..l
    BY <1>2, <1>3, <1>4, <2>1, <2>3
  <2>. QED  BY <1>1, <2>2, <2>3
<1>5. ASSUME NEW i \in 1..l + 1
      PROVE  v[i] <= n + 1
  <2>1. i = l + 1 \/ i \in 1..l
    BY <1>1
  <2>. QED  BY <1>1, <1>2, <2>1
<1>6. ASSUME b = 0
      PROVE  v = [i \in 1..n + 1 |-> i]
  <2>. DEFINE g == [i \in 1..n |-> i]
              h == [i \in 1..n + 1 |-> i]
  <2>1. w = g
    BY <1>6 DEF Good
  <2>2. g \in Seq(Nat) /\ h \in Seq(Nat)
    <3>1. \A m \in Nat : [i \in 1..m |-> i] \in Seq(Nat)
      BY IsASeq
    <3>. QED  BY <3>1
  <2>3. /\ DOMAIN g = 1..n /\ DOMAIN h = 1..n + 1
        /\ \A i \in 1..n : g[i] = i
        /\ \A i \in 1..n + 1 : h[i] = i
    OBVIOUS
  <2>. HIDE DEF g, h
  <2>4. Len(g) = n /\ Len(h) = n + 1
    BY <2>2, <2>3, LenProperties
  <2>5. l = n
    BY <2>1, <2>4 DEF l
  <2>6. \A i \in 1..n + 1 : v[i] = h[i]
    <3>1. ASSUME NEW i \in 1..n + 1
          PROVE  v[i] = h[i]
      <4>1. CASE i = n + 1
        BY <1>2, <2>3, <2>5, <4>1
      <4>2. CASE i \in 1..n
        <5>1. v[i] = w[i] /\ w[i] = i
          BY <1>2, <2>1, <2>3, <2>5, <4>2
        <5>. QED  BY <2>3, <5>1
      <4>. QED  BY <4>1, <4>2
    <3>. QED  BY <3>1
  <2>7. v \in Seq(Nat)
    BY <1>2, SeqMonotonic, FragNotGuid DEF FragSeq
  <2>8. v = h
    BY <1>2, <2>2, <2>4, <2>5, <2>6, <2>7, SeqEqual
  <2>. QED  BY <2>8 DEF h
<1>. QED  BY <1>2, <1>4, <1>5, <1>6 DEF Good, v

\* A piece of the line is gone: the fragments of v up to l are those of w, and
\* then come the ones g places further on.
Skips(v, w, l, g) ==
    /\ Len(w) = Len(v) + g
    /\ \A i \in 1..Len(v) : v[i] = IF i <= l THEN w[i] ELSE w[i + g]

LEMMA GoodSkips ==
    ASSUME NEW w, NEW n \in Nat, NEW b, Good(w, n, b), NEW v \in FragSeq, NEW l \in Nat,
           NEW g \in Nat, Skips(v, w, l, g), NEW b2, b2 # 0
    PROVE  Good(v, n, b2)
<1>. DEFINE m == Len(v)
            at(i) == IF i <= l THEN i ELSE i + g
<1>1. m \in Nat /\ Len(w) = m + g /\ \A i \in 1..m : v[i] = w[at(i)]
  BY LenProperties DEF FragSeq, Skips
<1>2. \A i \in 1..m : at(i) \in 1..m + g
  BY <1>1
<1>3. \A i, j \in 1..m : i < j => at(i) < at(j)
  BY <1>1
<1>4. /\ \A i, j \in 1..m + g : i < j => w[i] < w[j]
      /\ \A i \in 1..m + g : w[i] <= n
  BY <1>1 DEF Good
<1>. HIDE DEF at, m
<1>5. \A i, j \in 1..m : i < j => v[i] < v[j]
  BY <1>1, <1>2, <1>3, <1>4
<1>6. \A i \in 1..m : v[i] <= n
  BY <1>1, <1>2, <1>4
<1>. QED  BY <1>5, <1>6 DEF Good, m

\* The fragment at the front of one part goes to the end of the part before.
LEMMA Shift ==
    ASSUME NEW x \in FragSeq, NEW y \in FragSeq, y # <<>>
    PROVE  Append(x, Head(y)) \o Tail(y) = x \o y
<1>. DEFINE h == Head(y)
            t == Tail(y)
            m == Len(x)
            k == Len(y)
            u == Append(x, h)
            v == u \o t
            w == x \o y
<1>1. m \in Nat /\ k \in Nat /\ k > 0 /\ h = y[1] /\ h \in Frag /\ t \in FragSeq
  BY LenProperties, HeadTailProperties, EmptySeq, FragSeqs DEF FragSeq
<1>2. Len(t) = k - 1 /\ \A i \in 1..k - 1 : t[i] = y[i + 1]
  BY HeadTailProperties DEF FragSeq
<1>3. /\ u \in FragSeq /\ Len(u) = m + 1 /\ u[m + 1] = h /\ \A i \in 1..m : u[i] = x[i]
  BY <1>1, AppendProperties DEF FragSeq
<1>. HIDE DEF u, t, h
<1>4. /\ v \in FragSeq /\ Len(v) = m + k
      /\ \A i \in 1..m + k : v[i] = IF i <= m + 1 THEN u[i] ELSE t[i - (m + 1)]
  <2>1. /\ v \in FragSeq /\ Len(v) = Len(u) + Len(t)
        /\ \A i \in 1..Len(u) + Len(t) : v[i] = IF i <= Len(u) THEN u[i] ELSE t[i - Len(u)]
    BY <1>1, <1>3, ConcatProperties DEF FragSeq
  <2>2. Len(u) + Len(t) = m + k
    BY <1>1, <1>2, <1>3
  <2>. QED  BY <1>3, <2>1, <2>2
<1>5. /\ w \in FragSeq /\ Len(w) = m + k
      /\ \A i \in 1..m + k : w[i] = IF i <= m THEN x[i] ELSE y[i - m]
  BY ConcatProperties DEF FragSeq
<1>. HIDE DEF v, w, m, k
<1>6. ASSUME NEW i \in 1..m + k
      PROVE  v[i] = w[i]
  <2>1. CASE i <= m
    BY <1>1, <1>3, <1>4, <1>5, <2>1
  <2>2. CASE i = m + 1
    <3>1. i - m = 1 /\ i <= m + 1 /\ ~(i <= m)
      BY <1>1, <2>2
    <3>. QED  BY <1>1, <1>3, <1>4, <1>5, <2>2, <3>1
  <2>3. CASE i > m + 1
    <3>1. /\ i - (m + 1) \in 1..k - 1 /\ (i - (m + 1)) + 1 = i - m
          /\ ~(i <= m + 1) /\ ~(i <= m)
      BY <1>1, <2>3
    <3>. QED  BY <1>2, <1>4, <1>5, <3>1
  <2>. QED  BY <1>1, <2>1, <2>2, <2>3
<1>7. v = w
  BY <1>4, <1>5, <1>6, SeqEqual DEF FragSeq
<1>. QED  BY <1>7 DEF v, w, u, t, h

LEMMA AppendBehind ==
    ASSUME NEW x \in FragSeq, NEW y \in FragSeq, NEW m \in Frag
    PROVE  x \o Append(y, m) = Append(x \o y, m)
<1>. DEFINE j == Len(x)
            k == Len(y)
            u == Append(y, m)
            v == x \o u
            z == x \o y
            w == Append(z, m)
<1>1. j \in Nat /\ k \in Nat
  BY LenProperties DEF FragSeq
<1>2. u \in FragSeq /\ Len(u) = k + 1 /\ u[k + 1] = m /\ \A i \in 1..k : u[i] = y[i]
  BY AppendProperties DEF FragSeq
<1>3. /\ z \in FragSeq /\ Len(z) = j + k
      /\ \A i \in 1..j + k : z[i] = IF i <= j THEN x[i] ELSE y[i - j]
  BY ConcatProperties DEF FragSeq
<1>. HIDE DEF u, z
<1>4. /\ v \in FragSeq /\ Len(v) = j + (k + 1)
      /\ \A i \in 1..j + (k + 1) : v[i] = IF i <= j THEN x[i] ELSE u[i - j]
  <2>1. /\ v \in FragSeq /\ Len(v) = j + Len(u)
        /\ \A i \in 1..j + Len(u) : v[i] = IF i <= j THEN x[i] ELSE u[i - j]
    BY <1>2, ConcatProperties DEF FragSeq
  <2>. QED  BY <1>2, <2>1
<1>5. /\ w \in FragSeq /\ Len(w) = (j + k) + 1 /\ w[(j + k) + 1] = m
      /\ \A i \in 1..j + k : w[i] = z[i]
  <2>1. /\ w \in FragSeq /\ Len(w) = Len(z) + 1 /\ w[Len(z) + 1] = m
        /\ \A i \in 1..Len(z) : w[i] = z[i]
    <3>1. z \in Seq(Frag)
      BY <1>3 DEF FragSeq
    <3>. QED  BY <3>1, AppendProperties DEF FragSeq
  <2>. QED  BY <1>3, <2>1
<1>. HIDE DEF v, w, j, k
<1>6. ASSUME NEW i \in 1..j + (k + 1)
      PROVE  v[i] = w[i]
  <2>1. CASE i <= j
    <3>1. i \in 1..j + k
      BY <1>1, <2>1
    <3>. QED  BY <1>3, <1>4, <1>5, <2>1, <3>1
  <2>2. CASE i > j /\ i <= j + k
    <3>1. i \in 1..j + k /\ ~(i <= j) /\ i - j \in 1..k
      BY <1>1, <2>2
    <3>. QED  BY <1>2, <1>3, <1>4, <1>5, <3>1
  <2>3. CASE i = (j + k) + 1
    <3>1. ~(i <= j) /\ i - j = k + 1
      BY <1>1, <2>3
    <3>. QED  BY <1>2, <1>4, <1>5, <2>3, <3>1
  <2>. QED  BY <1>1, <2>1, <2>2, <2>3
<1>7. Len(v) = Len(w)
  BY <1>1, <1>4, <1>5
<1>8. v = w
  BY <1>4, <1>5, <1>6, <1>7, SeqEqual DEF FragSeq
<1>. QED  BY <1>8 DEF v, w, z, u

\* A fragment is queued, written to where it arrives, or delivered.
LEMMA LineQueued ==
    ASSUME NEW d \in FragSeq, NEW a \in FragSeq, NEW s \in FragSeq, NEW m \in Frag
    PROVE  LineOfThree(d, a, Append(s, m)) = Append(LineOfThree(d, a, s), m)
<1>1. d \o a \in FragSeq
  BY ConcatProperties DEF FragSeq
<1>2. (d \o a) \o Append(s, m) = Append((d \o a) \o s, m)
  BY <1>1, AppendBehind
<1>. QED  BY <1>2 DEF LineOfThree

LEMMA LineWritten ==
    ASSUME NEW d \in FragSeq, NEW a \in FragSeq, NEW s \in FragSeq, s # <<>>
    PROVE  LineOfThree(d, Append(a, Head(s)), Tail(s)) = LineOfThree(d, a, s)
<1>1. d \o a \in FragSeq /\ Head(s) \in Frag
  BY ConcatProperties, FragSeqs DEF FragSeq
<1>2. d \o Append(a, Head(s)) = Append(d \o a, Head(s))
  BY <1>1, AppendBehind
<1>3. Append(d \o a, Head(s)) \o Tail(s) = (d \o a) \o s
  BY <1>1, Shift
<1>. QED  BY <1>2, <1>3 DEF LineOfThree

LEMMA LineDelivered ==
    ASSUME NEW d \in FragSeq, NEW a \in FragSeq, NEW s \in FragSeq, a # <<>>
    PROVE  LineOfThree(Append(d, Head(a)), Tail(a), s) = LineOfThree(d, a, s)
<1>1. Append(d, Head(a)) \o Tail(a) = d \o a
  BY Shift
<1>. QED  BY <1>1 DEF LineOfThree

\* What has arrived is lost, but for the first fragments of it.
LEMMA LineShortened ==
    ASSUME NEW d \in FragSeq, NEW a \in FragSeq, NEW s \in FragSeq, NEW a2 \in FragSeq,
           Shorter(a2, a), NEW n \in Nat, NEW b, Good(LineOfThree(d, a, s), n, b),
           NEW b2, b2 # 0
    PROVE  Good(LineOfThree(d, a2, s), n, b2)
<1>. DEFINE w == LineOfThree(d, a, s)
            v == LineOfThree(d, a2, s)
            l == Len(d)
            j == Len(a)
            k == Len(a2)
            m == Len(s)
<1>1. /\ w \in FragSeq /\ Len(w) = l + j + m /\ l \in Nat /\ j \in Nat /\ m \in Nat
      /\ \A i \in 1..l : w[i] = d[i]
      /\ \A i \in 1..j : w[l + i] = a[i]
      /\ \A i \in 1..m : w[l + j + i] = s[i]
  BY ThreeIs
<1>2. /\ v \in FragSeq /\ Len(v) = l + k + m /\ k \in Nat
      /\ \A i \in 1..l : v[i] = d[i]
      /\ \A i \in 1..k : v[l + i] = a2[i]
      /\ \A i \in 1..m : v[l + k + i] = s[i]
  BY ThreeIs
<1>3. k <= j /\ \A i \in 1..k : a2[i] = a[i]
  <2>1. PICK h \in 0..j : a2 = SubSeq(a, 1, h)
    BY DEF Shorter
  <2>2. \A i \in 1..h : a[i] \in Frag
    BY <1>1, ElementOfSeq DEF FragSeq
  <2>3. Len(a2) = h /\ \A i \in 1..h : a2[i] = a[i]
    BY <1>1, <2>1, <2>2, SubSeqProperties DEF FragSeq
  <2>. QED  BY <2>1, <2>3, <1>1
<1>. HIDE DEF w, v, l, j, k, m
<1>4. Skips(v, w, l + k, j - k)
  <2>1. Len(w) = Len(v) + (j - k)
    BY <1>1, <1>2, <1>3
  <2>2. ASSUME NEW i \in 1..Len(v)
        PROVE  v[i] = IF i <= l + k THEN w[i] ELSE w[i + (j - k)]
    <3>1. CASE i <= l
      BY <1>1, <1>2, <3>1
    <3>2. CASE i > l /\ i <= l + k
      <4>1. i - l \in 1..k /\ i - l \in 1..j /\ l + (i - l) = i
        BY <1>1, <1>2, <1>3, <3>2
      <4>2. v[i] = a2[i - l] /\ w[i] = a[i - l] /\ a2[i - l] = a[i - l]
        BY <1>1, <1>2, <1>3, <4>1
      <4>. QED  BY <3>2, <4>2
    <3>3. CASE i > l + k
      <4>. DEFINE e == i - (l + k)
      <4>1. /\ e \in 1..m /\ l + k + e = i /\ l + j + e = i + (j - k) /\ ~(i <= l + k)
        BY <1>1, <1>2, <1>3, <3>3
      <4>. HIDE DEF e
      <4>2. v[l + k + e] = s[e] /\ w[l + j + e] = s[e]
        BY <1>1, <1>2, <4>1
      <4>. QED  BY <4>1, <4>2
    <3>. QED  BY <1>1, <1>2, <3>1, <3>2, <3>3
  <2>. QED  BY <2>1, <2>2 DEF Skips
<1>5. l + k \in Nat /\ j - k \in Nat /\ Good(w, n, b)
  BY <1>1, <1>2, <1>3 DEF w
<1>6. Good(v, n, b2)
  BY <1>2, <1>4, <1>5, GoodSkips
<1>. QED  BY <1>6 DEF v

\* A fragment that is written and does not arrive.
LEMMA LineMissed ==
    ASSUME NEW d \in FragSeq, NEW a \in FragSeq, NEW s \in FragSeq, s # <<>>,
           NEW n \in Nat, NEW b, Good(LineOfThree(d, a, s), n, b), b # 0
    PROVE  Good(LineOfThree(d, a, Tail(s)), n, b)
<1>. DEFINE e == Append(a, Head(s))
<1>1. Head(s) \in Frag /\ Tail(s) \in FragSeq /\ e \in FragSeq /\ Len(a) \in Nat
  BY FragSeqs, LenProperties DEF FragSeq
<1>2. Len(e) = Len(a) + 1 /\ \A i \in 1..Len(a) : e[i] = a[i]
  BY <1>1, AppendProperties DEF FragSeq
<1>3. Good(LineOfThree(d, e, Tail(s)), n, b)
  BY LineWritten
<1>. HIDE DEF e
<1>4. SubSeq(e, 1, Len(a)) = a
  <2>1. \A i \in 1..Len(a) : e[i] \in Frag
    BY <1>1, <1>2, ElementOfSeq DEF FragSeq
  <2>2. /\ SubSeq(e, 1, Len(a)) \in Seq(Frag) /\ Len(SubSeq(e, 1, Len(a))) = Len(a)
        /\ \A i \in 1..Len(a) : SubSeq(e, 1, Len(a))[i] = e[i]
    BY <1>1, <2>1, SubSeqProperties
  <2>. QED  BY <1>2, <2>2, SeqEqual DEF FragSeq
<1>5. Shorter(a, e)
  <2>1. Len(a) \in 0..Len(e)
    BY <1>1, <1>2
  <2>. QED  BY <1>4, <2>1 DEF Shorter
<1>. QED  BY <1>1, <1>3, <1>5, LineShortened

LEMMA GoodMore ==
    ASSUME NEW w, NEW n \in 0..MaxFrags, NEW b, Good(w, n, b), b # 0
    PROVE  Good(w, n + 1, b)
<1>1. w \in FragSeq /\ \A i \in 1..Len(w) : w[i] \in Nat
  BY ElementOfSeq, FragNotGuid DEF Good, FragSeq
<1>2. \A i \in 1..Len(w) : w[i] <= n + 1
  BY <1>1 DEF Good
<1>. QED  BY <1>2 DEF Good

\* The way from p to its peer.
Way(p) ==
    Good(LineOfThree(delivered[Peer(p)], Arr(conn, endpoint, Peer(p)), Pend(endpoint[p])),
         sent[p], breaks)

Ways == \A p \in Proc : Way(p)

LEMMA WayHas ==
    ASSUME SocketInv, NEW p \in Proc
    PROVE  /\ Peer(p) \in Proc /\ Peer(p) # p /\ Peer(Peer(p)) = p
           /\ delivered[p] \in FragSeq /\ Arr(conn, endpoint, p) \in FragSeq
           /\ Pend(endpoint[p]) \in FragSeq
           /\ sent[p] \in 0..MaxFrags /\ sent[p] \in Nat /\ breaks \in Nat
<1>1. Pend(endpoint[p]) \in FragSeq
  BY InvHas, PendIs
<1>2. Arr(conn, endpoint, p) \in FragSeq
  BY ArrIs
<1>. QED  BY <1>1, <1>2, Peers, InvHas

LEMMA WaysAre ==
    ASSUME NEW p \in Proc, Way(p)', Way(Peer(p))'
    PROVE  Ways'
<1>1. \A x \in Proc : x = p \/ x = Peer(p)
  BY Peers
<1>. QED  BY <1>1 DEF Ways

\* The way back to p, when p makes a step and what had arrived at p is kept.
LEMMA OtherWayKept ==
    ASSUME SocketInv, Ways, NEW p \in Proc, ArrivalsKept(p),
           endpoint'[Peer(p)] = endpoint[Peer(p)], delivered' = delivered,
           sent'[Peer(p)] = sent[Peer(p)], breaks' = breaks
    PROVE  Way(Peer(p))'
<1>. DEFINE q == Peer(p)
            a == Arr(conn, endpoint, p)
            a2 == Arr(conn', endpoint', p)
            d == delivered[p]
            s == Pend(endpoint[q])
<1>1. q \in Proc /\ Peer(q) = p
  BY Peers
<1>2. d \in FragSeq /\ a \in FragSeq /\ s \in FragSeq /\ sent[q] \in Nat
  BY <1>1, WayHas
<1>3. Way(q)
  BY <1>1 DEF Ways
<1>4. Good(LineOfThree(d, a, s), sent[q], breaks)
  BY <1>1, <1>3 DEF Way
<1>5. Way(q)' <=> Good(LineOfThree(d, a2, s), sent[q], breaks)
  BY <1>1 DEF Way
<1>6. a2 = a \/ (a2 = <<>> /\ breaks # 0)
  BY DEF ArrivalsKept
<1>. HIDE DEF a, a2, d, s
<1>7. CASE a2 = a
  BY <1>4, <1>5, <1>7
<1>8. CASE a2 = <<>> /\ breaks # 0
  <2>1. Shorter(a2, a) /\ a2 \in FragSeq
    BY <1>2, <1>8, ShorterIs, Nil
  <2>2. Good(LineOfThree(d, a2, s), sent[q], breaks)
    BY <1>2, <1>4, <1>8, <2>1, LineShortened
  <2>. QED  BY <1>5, <2>2
<1>. QED  BY <1>6, <1>7, <1>8

\* ... and the way from p, which has the same fragments left to send.
LEMMA OwnWayKept ==
    ASSUME SocketInv, Ways, NEW p \in Proc, ArrivalsKept(p),
           Pend(endpoint'[p]) = Pend(endpoint[p]), delivered' = delivered,
           sent'[p] = sent[p], breaks' = breaks
    PROVE  Way(p)'
<1>1. Arr(conn', endpoint', Peer(p)) = Arr(conn, endpoint, Peer(p))
  BY DEF ArrivalsKept
<1>2. Way(p)
  BY DEF Ways
<1>. QED  BY <1>1, <1>2 DEF Way

\* ... or one more.
LEMMA OwnWayGrows ==
    ASSUME SocketInv, Ways, NEW p \in Proc, ArrivalsKept(p), sent[p] + 1 \in Frag,
           Pend(endpoint'[p]) = Append(Pend(endpoint[p]), sent[p] + 1),
           delivered' = delivered, sent'[p] = sent[p] + 1, breaks' = breaks
    PROVE  Way(p)'
<1>. DEFINE q == Peer(p)
            a == Arr(conn, endpoint, q)
            d == delivered[q]
            s == Pend(endpoint[p])
            n == sent[p]
<1>1. Arr(conn', endpoint', q) = a
  BY DEF ArrivalsKept
<1>2. q \in Proc
  BY Peers
<1>3. d \in FragSeq /\ a \in FragSeq /\ s \in FragSeq /\ n \in Nat
  BY <1>2, WayHas
<1>4. Way(p)
  BY DEF Ways
<1>5. Good(LineOfThree(d, a, s), n, breaks)
  BY <1>4 DEF Way
<1>6. Way(p)' <=> Good(LineOfThree(d, a, Append(s, n + 1)), n + 1, breaks)
  BY <1>1 DEF Way
<1>7. n + 1 \in Frag
  OBVIOUS
<1>. HIDE DEF a, d, s, n
<1>8. Good(Append(LineOfThree(d, a, s), n + 1), n + 1, breaks)
  BY <1>3, <1>5, <1>7, GoodAppend
<1>9. LineOfThree(d, a, Append(s, n + 1)) = Append(LineOfThree(d, a, s), n + 1)
  BY <1>3, <1>7, LineQueued
<1>. QED  BY <1>6, <1>8, <1>9

\* p writes the first fragment it has left: e says what it had left, one more
\* than before or not.
LEMMA OwnWayWritten ==
    ASSUME SocketInv, NEW p \in Proc, NEW e \in FragSeq, e # <<>>,
           Added(p, Head(e)), Pend(endpoint'[p]) = Tail(e),
           Good(LineOfThree(delivered[Peer(p)], Arr(conn, endpoint, Peer(p)), e),
                sent'[p], breaks),
           sent'[p] \in Nat, delivered' = delivered, breaks' = breaks
    PROVE  Way(p)'
<1>. DEFINE q == Peer(p)
            a == Arr(conn, endpoint, q)
            a2 == Arr(conn', endpoint', q)
            d == delivered[q]
            n == sent'[p]
<1>1. q \in Proc
  BY Peers
<1>2. d \in FragSeq /\ a \in FragSeq
  BY <1>1, WayHas
<1>3. a2 = Append(a, Head(e)) \/ (a2 = a /\ breaks # 0)
  BY DEF Added
<1>4. Way(p)' <=> Good(LineOfThree(d, a2, Tail(e)), n, breaks)
  BY DEF Way
<1>5. Good(LineOfThree(d, a, e), n, breaks) /\ n \in Nat
  OBVIOUS
<1>. HIDE DEF a, a2, d, n
<1>6. CASE a2 = Append(a, Head(e))
  <2>1. LineOfThree(d, a2, Tail(e)) = LineOfThree(d, a, e)
    BY <1>2, <1>6, LineWritten
  <2>. QED  BY <1>4, <1>5, <2>1
<1>7. CASE a2 = a /\ breaks # 0
  <2>1. Good(LineOfThree(d, a, Tail(e)), n, breaks)
    BY <1>2, <1>5, <1>7, LineMissed
  <2>. QED  BY <1>4, <1>7, <2>1
<1>. QED  BY <1>3, <1>6, <1>7

LEMMA AddedKeeps ==
    ASSUME NEW p, NEW m, Added(p, m)
    PROVE  Arr(conn', endpoint', p) = Arr(conn, endpoint, p)
  BY DEF Added

\* A write leaves the way back alone.
LEMMA OtherWayWritten ==
    ASSUME SocketInv, Ways, NEW p \in Proc, NEW m, Added(p, m),
           endpoint'[Peer(p)] = endpoint[Peer(p)], delivered' = delivered,
           sent'[Peer(p)] = sent[Peer(p)], breaks' = breaks
    PROVE  Way(Peer(p))'
<1>. DEFINE q == Peer(p)
<1>1. q \in Proc /\ Peer(q) = p
  BY Peers
<1>2. Arr(conn', endpoint', p) = Arr(conn, endpoint, p)
  BY AddedKeeps
<1>3. Way(q)
  BY <1>1 DEF Ways
<1>. QED  BY <1>1, <1>2, <1>3 DEF Way

LEMMA HandlesWays ==
    ASSUME SocketInv, Settled, Ways, NEW p \in Proc, Handles(p)
    PROVE  Ways'
<1>. DEFINE q == Peer(p)
<1>1. delivered' = delivered /\ sent' = sent /\ breaks' = breaks
  BY DEF Handles
<1>2. ASSUME ArrivalsKept(p), Pend(endpoint'[p]) = Pend(endpoint[p]),
             endpoint'[q] = endpoint[q]
      PROVE  Ways'
  <2>1. Way(p)'
    BY <1>1, <1>2, OwnWayKept
  <2>2. Way(q)'
    BY <1>1, <1>2, OtherWayKept
  <2>. QED  BY <2>1, <2>2, WaysAre
<1>3. ASSUME NEW f, Closes(p, f) \/ Greets(p, f) \/ Rests(p, f) \/ Names(p, f)
      PROVE  Ways'
  <2>1. Sets(p, f) /\ Pend(f) = Pend(endpoint[p])
    BY <1>3 DEF Closes, Greets, Rests, Names
  <2>2. endpoint'[p] = f /\ endpoint'[q] = endpoint[q]
    BY <2>1, SetsIs
  <2>3. ArrivalsKept(p)
    <3>1. CASE Closes(p, f)
      BY <3>1, ClosesKept
    <3>2. CASE Greets(p, f)
      BY <3>2, GreetsKept
    <3>3. CASE Rests(p, f)
      <4>1. f.sd = endpoint[p].sd /\ UNCHANGED conn
        BY <3>3 DEF Rests
      <4>. QED  BY <2>1, <4>1, SameConnKept
    <3>4. CASE Names(p, f)
      BY <3>4, NamesKept
    <3>. QED  BY <1>3, <3>1, <3>2, <3>3, <3>4
  <2>. QED  BY <1>2, <2>1, <2>2, <2>3
<1>4. ASSUME NEW f, WritesFirst(p, f)
      PROVE  Ways'
  <2>. DEFINE e == Pend(endpoint[p])
  <2>1. e # <<>> /\ Pend(f) = Tail(e) /\ Writes(p, f, Head(e))
    BY <1>4 DEF WritesFirst
  <2>2. Sets(p, f)
    BY <2>1 DEF Writes
  <2>3. endpoint'[p] = f /\ endpoint'[q] = endpoint[q]
    BY <2>2, SetsIs
  <2>4. e \in FragSeq /\ sent'[p] \in Nat /\ Way(p) /\ sent'[p] = sent[p]
    BY <1>1, WayHas DEF Ways
  <2>5. Good(LineOfThree(delivered[q], Arr(conn, endpoint, q), e), sent'[p], breaks)
    BY <2>4 DEF Way
  <2>. HIDE DEF e
  <2>6. Added(p, Head(e))
    BY <2>1, WritesArrive
  <2>7. Way(p)'
    BY <1>1, <2>1, <2>3, <2>4, <2>5, <2>6, OwnWayWritten
  <2>8. Way(q)'
    BY <1>1, <2>3, <2>6, OtherWayWritten
  <2>. QED  BY <2>7, <2>8, WaysAre
<1>5. ASSUME NEW f, NEW c, Takes(p, f, c) \/ Fails(p, f, c)
      PROVE  Ways'
  <2>1. Sets(p, f) /\ Pend(f) = Pend(endpoint[p])
    BY <1>5 DEF Takes, Fails, Joins
  <2>2. endpoint'[p] = f /\ endpoint'[q] = endpoint[q]
    BY <2>1, SetsIs
  <2>3. ArrivalsKept(p)
    BY <1>5, TakesKept, FailsKept
  <2>. QED  BY <1>2, <2>1, <2>2, <2>3
<1>6. ASSUME NEW c, Rejects(p, c), UNCHANGED endpoint
      PROVE  Ways'
  <2>1. ArrivalsKept(p)
    BY <1>6, RejectsKept
  <2>. QED  BY <1>2, <1>6, <2>1
<1>. QED  BY <1>3, <1>4, <1>5, <1>6 DEF Handles

LEMMA SendsWays ==
    ASSUME SocketInv, Settled, Ways, NEW p \in Proc, Sends(p)
    PROVE  Ways'
<1>. DEFINE q == Peer(p)
            n == sent[p] + 1
<1>1. /\ n \in Frag /\ sent' = [sent EXCEPT ![p] = n]
      /\ delivered' = delivered /\ breaks' = breaks
  BY DEF Sends
<1>2. sent'[p] = n /\ sent'[q] = sent[q] /\ n \in Nat /\ sent[p] \in 0..MaxFrags
  <2>1. sent \in [Proc -> 0..MaxFrags] /\ q \in Proc /\ q # p
    BY InvHas, Peers
  <2>. QED  BY <1>1, <2>1
<1>3. ASSUME ArrivalsKept(p), Pend(endpoint'[p]) = Append(Pend(endpoint[p]), n),
             endpoint'[q] = endpoint[q]
      PROVE  Ways'
  <2>1. Way(p)'
    BY <1>1, <1>2, <1>3, OwnWayGrows
  <2>2. Way(q)'
    BY <1>1, <1>2, <1>3, OtherWayKept
  <2>. QED  BY <2>1, <2>2, WaysAre
<1>4. ASSUME NEW f, Grown(p, f, n)
      PROVE  Ways'
  <2>1. Sets(p, f) /\ f.sd = endpoint[p].sd /\ Pend(f) = Append(Pend(endpoint[p]), n)
        /\ UNCHANGED conn
    BY <1>4 DEF Grown, Grows
  <2>2. endpoint'[p] = f /\ endpoint'[q] = endpoint[q]
    BY <2>1, SetsIs
  <2>3. ArrivalsKept(p)
    BY <2>1, SameConnKept
  <2>. QED  BY <1>3, <2>1, <2>2, <2>3
<1>5. ASSUME NEW f, Loses(p, f, n)
      PROVE  Ways'
  <2>1. Sets(p, f) /\ Pend(f) = Append(Pend(endpoint[p]), n)
    BY <1>5 DEF Loses
  <2>2. endpoint'[p] = f /\ endpoint'[q] = endpoint[q]
    BY <2>1, SetsIs
  <2>3. ArrivalsKept(p)
    BY <1>5, ClosesKept
  <2>. QED  BY <1>3, <2>1, <2>2, <2>3
<1>6. ASSUME NEW f, NEW k, Opened(p, f, n, k)
      PROVE  Ways'
  <2>1. Sets(p, f) /\ Pend(f) = Append(Pend(endpoint[p]), n)
    BY <1>6 DEF Opened, Opens
  <2>2. endpoint'[p] = f /\ endpoint'[q] = endpoint[q]
    BY <2>1, SetsIs
  <2>3. ArrivalsKept(p)
    BY <1>6, OpenedKept
  <2>. QED  BY <1>3, <2>1, <2>2, <2>3
<1>7. ASSUME Writes(p, endpoint[p], n), Pend(endpoint[p]) = <<>>
      PROVE  Ways'
  <2>. DEFINE e == <<n>>
              a == Arr(conn, endpoint, q)
              d == delivered[q]
  <2>1. Sets(p, endpoint[p])
    BY <1>7 DEF Writes
  <2>2. endpoint'[p] = endpoint[p] /\ endpoint'[q] = endpoint[q]
    BY <2>1, SetsIs
  <2>3. /\ e = Append(<<>>, n) /\ e \in FragSeq /\ e # <<>>
        /\ Head(e) = n /\ Tail(e) = <<>>
    <3>1. e = Append(<<>>, n) /\ e # <<>> /\ Head(e) = n /\ Tail(e) = <<>>
      OBVIOUS
    <3>2. Append(<<>>, n) \in FragSeq
      BY <1>1, FragSeqs, Nil
    <3>. QED  BY <3>1, <3>2
  <2>4. Added(p, Head(e))
    BY <1>7, <2>3, WritesArrive
  <2>5. Way(p) /\ d \in FragSeq /\ a \in FragSeq
    BY WayHas, Peers DEF Ways
  <2>6. Good(LineOfThree(d, a, <<>>), sent[p], breaks)
    BY <1>7, <2>5 DEF Way
  <2>. HIDE DEF e, a, d
  <2>7. LineOfThree(d, a, e) = Append(LineOfThree(d, a, <<>>), n)
    <3>1. <<>> \in FragSeq /\ e = Append(<<>>, n) /\ d \in FragSeq /\ a \in FragSeq
      BY <2>3, <2>5, Nil
    <3>2. LineOfThree(d, a, Append(<<>>, n)) = Append(LineOfThree(d, a, <<>>), n)
      BY <1>1, <3>1, LineQueued
    <3>. QED  BY <3>1, <3>2
  <2>8. Good(LineOfThree(d, a, e), n, breaks)
    BY <1>1, <1>2, <2>6, <2>7, GoodAppend
  <2>9. Way(p)'
    <3>1. Good(LineOfThree(delivered[q], Arr(conn, endpoint, q), e), sent'[p], breaks)
      BY <1>2, <2>8 DEF a, d
    <3>2. Pend(endpoint'[p]) = Tail(e)
      BY <1>7, <2>2, <2>3
    <3>. QED  BY <1>1, <1>2, <2>3, <2>4, <3>1, <3>2, OwnWayWritten
  <2>10. Way(q)'
    BY <1>1, <1>2, <2>2, <2>4, OtherWayWritten
  <2>. QED  BY <2>9, <2>10, WaysAre
<1>. QED  BY <1>4, <1>5, <1>6, <1>7 DEF Sends

LEMMA ReceivesWays ==
    ASSUME SocketInv, Ways, NEW p \in Proc, Receives(p)
    PROVE  Ways'
<1>. DEFINE q == Peer(p)
            h == Head(Arr(conn, endpoint, p))
            a == Arr(conn, endpoint, p)
            d == delivered[p]
            s == Pend(endpoint[q])
<1>1. /\ Delivers(p) /\ UNCHANGED endpoint /\ sent' = sent /\ breaks' = breaks
      /\ delivered' = [delivered EXCEPT ![p] = Append(@, Head(conn[endpoint[p].sd].inbox[p]))]
  BY DEF Receives
<1>2. Removed(p)
  BY <1>1, DeliversRemoves
<1>3. /\ a # <<>> /\ Arr(conn', endpoint', p) = Tail(a)
      /\ Arr(conn', endpoint', q) = Arr(conn, endpoint, q)
      /\ Head(conn[endpoint[p].sd].inbox[p]) = h
  BY <1>2 DEF Removed
<1>4. q \in Proc /\ q # p /\ Peer(q) = p /\ delivered \in [Proc -> FragSeq]
  BY Peers, InvHas
<1>5. delivered'[p] = Append(d, h) /\ delivered'[q] = delivered[q]
  BY <1>1, <1>3, <1>4
<1>6. d \in FragSeq /\ a \in FragSeq /\ s \in FragSeq
  BY <1>4, WayHas
<1>7. Way(p) /\ Way(q)
  BY <1>4 DEF Ways
<1>8. Way(p)'
  BY <1>1, <1>3, <1>5, <1>7 DEF Way
<1>9. Way(q)'
  <2>1. Good(LineOfThree(d, a, s), sent[q], breaks)
    BY <1>4, <1>7 DEF Way
  <2>2. LineOfThree(Append(d, h), Tail(a), s) = LineOfThree(d, a, s)
    BY <1>3, <1>6, LineDelivered
  <2>3. Way(q)' <=> Good(LineOfThree(Append(d, h), Tail(a), s), sent[q], breaks)
    BY <1>1, <1>3, <1>4, <1>5 DEF Way
  <2>. QED  BY <2>1, <2>2, <2>3
<1>. QED  BY <1>8, <1>9, WaysAre

LEMMA KernelWays ==
    ASSUME SocketInv, Ways, Kernel
    PROVE  Ways'
<1>1. PICK c, from, to : Turns(c, from, to)
  BY DEF Kernel
<1>2. /\ \A x \in Proc : Arr(conn', endpoint', x) = Arr(conn, endpoint, x)
      /\ endpoint' = endpoint
  <2>1. endpoint' = endpoint
    BY <1>1 DEF Turns
  <2>2. \A x \in Proc : Arr(conn', endpoint', x) = Arr(conn, endpoint, x)
    BY <1>1, TurnsKept
  <2>. QED  BY <2>1, <2>2
<1>3. sent' = sent /\ delivered' = delivered /\ breaks' = breaks
  BY DEF Kernel
<1>4. ASSUME NEW p \in Proc
      PROVE  Way(p)'
  <2>1. Way(p) /\ Peer(p) \in Proc
    BY Peers DEF Ways
  <2>. QED  BY <1>2, <1>3, <2>1 DEF Way
<1>. QED  BY <1>4 DEF Ways

LEMMA ResetWays ==
    ASSUME SocketInv, Ways, Reset
    PROVE  Ways'
<1>1. PICK c, arrived : Resets(c, arrived)
  BY DEF Reset
<1>2. /\ sent' = sent /\ delivered' = delivered /\ breaks' = breaks + 1
      /\ endpoint' = endpoint
  BY <1>1 DEF Reset, Resets
<1>3. ASSUME NEW p \in Proc
      PROVE  Way(p)'
  <2>. DEFINE q == Peer(p)
              a == Arr(conn, endpoint, q)
              a2 == Arr(conn', endpoint', q)
              d == delivered[q]
              s == Pend(endpoint[p])
  <2>1. q \in Proc
    BY Peers
  <2>2. /\ d \in FragSeq /\ a \in FragSeq /\ s \in FragSeq /\ sent[p] \in Nat
        /\ breaks + 1 # 0
    BY <2>1, WayHas
  <2>3. Shorter(a2, a)
    BY <1>1, <2>1, ResetsShorten
  <2>4. a2 \in FragSeq
    <3>1. PICK k \in 0..Len(a) : a2 = SubSeq(a, 1, k)
      BY <2>3 DEF Shorter
    <3>. HIDE DEF a, a2
    <3>2. Len(a) \in Nat /\ a \in Inbox
      BY <2>2, LenProperties, FragSeqs DEF FragSeq
    <3>. QED  BY <2>2, <3>1, <3>2, Arrived
  <2>5. Way(p)
    BY DEF Ways
  <2>6. Good(LineOfThree(d, a, s), sent[p], breaks)
    BY <2>5 DEF Way
  <2>7. Way(p)' <=> Good(LineOfThree(d, a2, s), sent[p], breaks + 1)
    BY <1>2 DEF Way
  <2>. HIDE DEF a, a2, d, s
  <2>8. Good(LineOfThree(d, a2, s), sent[p], breaks + 1)
    BY <2>2, <2>3, <2>4, <2>6, LineShortened
  <2>. QED  BY <2>7, <2>8
<1>. QED  BY <1>3 DEF Ways

LEMMA WaysNext ==
    ASSUME SocketInv, Settled, Ways, [Next]_vars
    PROVE  Ways'
<1>1. CASE UNCHANGED vars
  BY <1>1 DEF vars, Ways, Way
<1>2. CASE Next
  BY <1>2, NextIs, SendsWays, HandlesWays, ReceivesWays, KernelWays, ResetWays
<1>. QED  BY <1>1, <1>2

LEMMA InitWays ==
    ASSUME Init
    PROVE  Ways
<1>1. SUFFICES ASSUME NEW p \in Proc
               PROVE  Way(p)
  BY DEF Ways
<1>2. Peer(p) \in Proc
  BY Peers
<1>3. /\ delivered[Peer(p)] = <<>> /\ Arr(conn, endpoint, Peer(p)) = <<>>
      /\ Pend(endpoint[p]) = <<>> \o <<>> /\ sent[p] = 0
  BY <1>2 DEF Init, Arr, Pend
<1>4. <<>> \o <<>> = <<>>
  BY ConcatEmptySeq
<1>5. LineOfThree(<<>>, <<>>, <<>>) = <<>>
  BY <1>4 DEF LineOfThree
<1>6. <<>> = [i \in 1..0 |-> i]
  <2>1. [i \in 1..0 |-> i] \in Seq(Nat)
    BY IsASeq
  <2>2. \A i \in 1..0 : FALSE
    OBVIOUS
  <2>. QED  BY <2>1, <2>2, EmptySeq
<1>7. Good(<<>>, 0, breaks)
  BY <1>6, Nil DEF Good
<1>. QED  BY <1>3, <1>4, <1>5, <1>7 DEF Way

LEMMA WaysAlways == Spec => []Ways
<1>1. Init => Ways
  BY InitWays
<1>2. SocketInv /\ Settled /\ Ways /\ [Next]_vars => Ways'
  BY WaysNext
<1>. QED  BY <1>1, <1>2, SocketsAlways, SettledAlways, PTL DEF Spec

----------------------------------------------------------------------------
(* The two promises *)

LEMMA PendingIs ==
    ASSUME NEW p
    PROVE  Pending(p) = Pend(endpoint[p])
  BY DEF Pending, Pend

\* Even when connections break and are made again, no fragment is delivered
\* twice or after a later one: the fragments of a process stand in one line,
\* of which a break takes a piece out of the middle, when fragments are written
\* whole (btl_tcp_endpoint.c:257-264, :782-785).
THEOREM NoFragmentOvertakenInvariant == Spec => []NoFragmentOvertaken
<1>1. ASSUME SocketInv, Ways, NEW p \in Proc
      PROVE  LET line == delivered[Peer(p)] \o Pending(p)
             IN  \A i, j \in 1..Len(line) : i < j => line[i] < line[j]
  <2>. DEFINE q == Peer(p)
              d == delivered[q]
              a == Arr(conn, endpoint, q)
              s == Pend(endpoint[p])
  <2>1. q \in Proc
    BY Peers
  <2>2. d \in FragSeq /\ a \in FragSeq /\ s \in FragSeq /\ sent[p] \in Nat
    BY <1>1, <2>1, WayHas
  <2>3. Way(p)
    BY <1>1 DEF Ways
  <2>4. Good(LineOfThree(d, a, s), sent[p], breaks)
    BY <2>3 DEF Way
  <2>5. Shorter(<<>>, a) /\ <<>> \in FragSeq
    BY <2>2, ShorterIs, Nil
  <2>6. delivered[Peer(p)] \o Pending(p) = d \o s
    BY PendingIs
  <2>. HIDE DEF d, a, s
  <2>7. Good(LineOfThree(d, <<>>, s), sent[p], 1)
    BY <2>2, <2>4, <2>5, LineShortened
  <2>8. LineOfThree(d, <<>>, s) = d \o s
    <3>1. d \o <<>> = d
      BY <2>2, ConcatEmptySeq DEF FragSeq
    <3>. QED  BY <3>1 DEF LineOfThree
  <2>9. \A i, j \in 1..Len(d \o s) : i < j => (d \o s)[i] < (d \o s)[j]
    BY <2>7, <2>8 DEF Good
  <2>. QED  BY <2>6, <2>9
<1>2. SocketInv /\ Ways => NoFragmentOvertaken
  BY <1>1 DEF NoFragmentOvertaken
<1>. QED  BY <1>2, SocketsAlways, WaysAlways, PTL

\* While no connection has broken what is in flight from p is what has arrived
\* at its peer: either they are on the same socket or nothing is on theirs.
LEMMA InFlightIs ==
    ASSUME SocketInv, Settled, breaks = 0, NEW p \in Proc
    PROVE  InFlight(p) = Arr(conn, endpoint, Peer(p))
<1>. DEFINE q == Peer(p)
            c == endpoint[p].sd
            x == endpoint[q].sd
<1>1. SettledOn(conn, endpoint) /\ q \in Proc /\ q # p /\ Peer(q) = p
  BY Peers DEF Settled
<1>2. CASE c = x
  BY <1>2 DEF InFlight, Arr
<1>3. CASE c # x
  <2>1. endpoint[p].state # "CONNECTED" /\ endpoint[q].state # "CONNECTED"
    BY <1>1, <1>3 DEF SettledOn, Together
  <2>2. InFlight(p) = <<>>
    <3>1. CASE c = NoSd
      BY <3>1 DEF InFlight
    <3>2. CASE c # NoSd
      <4>1. c \in Conn /\ c[1] = p /\ At(endpoint, q, c) = "away"
        BY <1>3, <2>1, <3>2, InvHas, Stands DEF SocketInv, At
      <4>2. Standing(conn[c].st, conn[c].open[p], conn[c].open[q], conn[c].inbox[p],
                     conn[c].inbox[q], At(endpoint, p, c), At(endpoint, q, c))
        BY <4>1, LineNow
      <4>3. conn[c].inbox[q] \in {<<>>, <<Guid>>}
        BY <4>1, <4>2 DEF Standing
      <4>. QED  BY <3>2, <4>3, Nil DEF InFlight
    <3>. QED  BY <3>1, <3>2
  <2>3. Arr(conn, endpoint, q) = <<>>
    <3>1. CASE x = NoSd
      BY <3>1 DEF Arr
    <3>2. CASE x # NoSd
      <4>1. x \in Conn /\ x[1] = q
        BY <1>1, <2>1, <3>2, InvHas, Stands DEF SocketInv
      <4>2. At(endpoint, p, x) = "away"
        BY <1>3 DEF At
      <4>3. Calm(conn, endpoint, x)
        BY <1>1, <4>1 DEF SettledOn
      <4>4. conn[x].inbox[q] = <<>>
        BY <1>1, <4>1, <4>2, <4>3 DEF Calm
      <4>. QED  BY <3>2, <4>4, Nil DEF Arr
    <3>. QED  BY <3>1, <3>2
  <2>. QED  BY <2>2, <2>3
<1>. QED  BY <1>2, <1>3

\* While no connection has broken, every fragment is delivered, on its way or
\* queued, once and in its place: the handshake drops none
\* (btl_tcp_endpoint.c:358, :431).
THEOREM NoFragmentLostInvariant == Spec => []NoFragmentLost
<1>1. ASSUME SocketInv, Settled, Ways, breaks = 0, NEW p \in Proc
      PROVE  delivered[Peer(p)] \o InFlight(p) \o Pending(p) = [i \in 1..sent[p] |-> i]
  <2>1. Way(p)
    BY <1>1 DEF Ways
  <2>2. LineOfThree(delivered[Peer(p)], Arr(conn, endpoint, Peer(p)), Pend(endpoint[p]))
           = [i \in 1..sent[p] |-> i]
    BY <1>1, <2>1 DEF Way, Good
  <2>3. InFlight(p) = Arr(conn, endpoint, Peer(p)) /\ Pending(p) = Pend(endpoint[p])
    BY <1>1, InFlightIs, PendingIs
  <2>. QED  BY <2>2, <2>3 DEF LineOfThree
<1>2. SocketInv /\ Settled /\ Ways => NoFragmentLost
  BY <1>1 DEF NoFragmentLost
<1>. QED  BY <1>2, SocketsAlways, SettledAlways, WaysAlways, PTL
====
