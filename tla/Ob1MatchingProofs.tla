------------------------- MODULE Ob1MatchingProofs -------------------------
(***************************************************************************)
(* Matching, for every number of sources, threads, messages and requests,  *)
(* and every range of the numbers that holds those that are ahead of their *)
(* turn: no message is lost, taken out of its turn, stranded or missed by  *)
(* a receive, and the queues of ob1 implement MpiMatching.                 *)
(***************************************************************************)
EXTENDS Ob1Matching, FiniteSetTheorems, WellFoundedInduction, TLAPS

USE SizeAssumption, AheadAssumption DEF SizeAssumption, AheadAssumption

----------------------------------------------------------------------------
(* The inductive invariant *)

\* Before there is a communicator nothing happens but arrivals; afterwards no
\* message is kept for it.
Beginning ==
    /\ comm => pending = <<>>
    /\ ~comm =>
         /\ matched = {} /\ Waiting = {}
         /\ \A t \in Thread : pc[t] = "idle"
         /\ \A s \in Source : /\ Ahead(s) = {} /\ Elements(unexpected_frags[s]) = {}
                              /\ frags_cant_match[s] = <<>>

\* What TypeOK leaves out: a thread that is in the routine has a message.
Typed ==
    /\ TypeOK
    /\ send_sequence \in [Source -> Nat]
    /\ \A t \in Thread : pc[t] # "idle" => hand[t] \in Message

\* Each request has its place in the order of posting, and its queue.
Posted ==
    /\ \A r \in Elements(wild_receives) : r.peer = AnySource
    /\ \A s \in Source : \A r \in Elements(specific_receives[s]) : r.peer = s
    /\ \A r \in Waiting : r.no <= recv_sequence
    /\ \A r, q \in Waiting : r.no = q.no => r = q

Count(s) == Cardinality(Taken(s))

\* Messages that were not taken: they come, or they never will.
Untaken == InTransit \cup failed

\* The messages of a source that were taken are the first ones; the number of
\* the next is known by its low bits.
FirstTaken ==
    \A s \in Source :
        /\ IsFiniteSet(Taken(s))
        /\ {m.n : m \in Taken(s)} = First + 1..First + Count(s)
        /\ \A m, u \in Taken(s) : m.n = u.n => m = u
        /\ expected_sequence[s] = (First + Count(s) + 1) % SeqSpace
        /\ send_sequence[s] \in First + Count(s)..First + Count(s) + MaxAhead

\* The others are the rest of what was sent.
OthersAhead ==
    /\ \A m \in Untaken :
         m.n \in First + Count(m.src) + 1..send_sequence[m.src]
    /\ \A m, u \in Untaken : m.src = u.src /\ m.n = u.n => m = u
    /\ \A s \in Source : \A n \in First + Count(s) + 1..send_sequence[s] :
         \E m \in Untaken : m.src = s /\ m.n = n

\* No message is in two places on its way.
Apart ==
    /\ failed \cap InTransit = {}
    /\ network \cap (InHand \cup Elements(pending)) = {}
    /\ \A s \in Source : Ahead(s) \cap (network \cup InHand) = {}
    /\ \A t, u \in Thread :
         pc[t] = "match" /\ pc[u] = "match" /\ hand[t] = hand[u] => t = u
    /\ \A i, j \in DOMAIN pending : pending[i] = pending[j] => i = j

\* Each queue has the messages of its source; those that wait are in order.
OwnQueues ==
    \A s \in Source :
        /\ \A m \in Ahead(s) \cup Elements(unexpected_frags[s]) : m.src = s
        /\ \A i, j \in DOMAIN unexpected_frags[s] :
             i < j => unexpected_frags[s][i].n < unexpected_frags[s][j].n

\* A message that a receive got is gone, and no other got it.
OneReceive ==
    /\ \A p \in matched : /\ p.req.type = "RECV"
                          /\ p.msg \notin Elements(unexpected_frags[p.msg.src])
    /\ \A p, q \in matched : p.msg = q.msg => p = q

\* NoMissedMatch, NonOvertaking and NoStrandedFragment while no queue is broken.
NoneMissed ==
    \A s \in Source : \A m \in Elements(unexpected_frags[s]) :
        \A r \in Elements(specific_receives[s]) \cup Elements(wild_receives) :
            ~Accepts(r, m)

NoneOvertaken ==
    \A p \in matched : \A m \in Taken(p.msg.src) :
        m.n < p.msg.n /\ Accepts(p.req, m) => \E q \in matched : q.msg = m

NothingStranded ==
    \A s \in Source : CanMatch(s) # {} =>
        \E t \in Thread : pc[t] = "drain" /\ hand[t].src = s

MessageInv == FirstTaken /\ OthersAhead /\ Apart /\ OwnQueues /\ OneReceive

RequestInv == Posted /\ NoneMissed /\ NoneOvertaken

MatchInv == Typed /\ Beginning /\ MessageInv /\ RequestInv /\ NothingStranded

\* It holds as long as no receive is removed from a queue that it has left.
Safe == Typed /\ (corrupt \/ MatchInv)

----------------------------------------------------------------------------
(* Sequences *)

\* How many of I are at or before i.
Rank(I, i) == Cardinality({j \in I : j <= i})

\* The places of a set of numbers, counted from the least, are all different
\* and leave none out.
LEMMA Ranks ==
    ASSUME NEW n \in Nat, NEW I \in SUBSET (1..n)
    PROVE  /\ Cardinality(I) \in Nat
           /\ \A i \in I : Rank(I, i) \in 1..Cardinality(I)
           /\ \A i, j \in I : i < j => Rank(I, i) < Rank(I, j)
           /\ \A k \in 1..Cardinality(I) : \E i \in I : Rank(I, i) = k
<1>1. IsFiniteSet(I) /\ Cardinality(I) \in Nat
  <2>1. IsFiniteSet(1..n)
    BY FS_Interval
  <2>2. IsFiniteSet(I)
    BY <2>1, FS_Subset
  <2>. QED  BY <2>2, FS_CardinalityType
<1>2. ASSUME NEW i \in I
      PROVE  /\ IsFiniteSet({j \in I : j <= i})
             /\ Rank(I, i) \in 1..Cardinality(I)
  <2>. DEFINE J == {j \in I : j <= i}
  <2>1. J \in SUBSET I /\ i \in J
    OBVIOUS
  <2>. HIDE DEF J
  <2>2. IsFiniteSet(J) /\ Cardinality(J) \in Nat /\ Cardinality(J) <= Cardinality(I)
    BY <1>1, <2>1, FS_Subset, FS_CardinalityType
  <2>3. Cardinality(J) # 0
    BY <2>1, <2>2, FS_EmptySet
  <2>4. Rank(I, i) = Cardinality(J) /\ J = {j \in I : j <= i}
    BY DEF Rank, J
  <2>. QED  BY <1>1, <2>2, <2>3, <2>4
<1>3. ASSUME NEW i \in I, NEW j \in I, i < j
      PROVE  Rank(I, i) < Rank(I, j)
  <2>. DEFINE A == {l \in I : l <= i}
              B == {l \in I : l <= j}
  <2>0. /\ i \in Int /\ j \in Int /\ ~ (j <= i)
        /\ \A l \in I : l <= i => l <= j
    BY <1>3
  <2>1. A \in SUBSET B /\ A # B
    <3>1. A \in SUBSET B
      BY <2>0
    <3>2. j \in B /\ j \notin A
      BY <2>0
    <3>. QED  BY <3>1, <3>2
  <2>. HIDE DEF A, B
  <2>2. IsFiniteSet(B) /\ Rank(I, i) = Cardinality(A) /\ Rank(I, j) = Cardinality(B)
    BY <1>2 DEF Rank, A, B
  <2>3. Rank(I, i) \in Nat /\ Rank(I, j) \in Nat
    <3>1. Rank(I, i) \in 1..Cardinality(I) /\ Rank(I, j) \in 1..Cardinality(I)
      BY <1>2
    <3>. QED  BY <1>1, <3>1
  <2>4. Cardinality(A) <= Cardinality(B) /\ Cardinality(A) # Cardinality(B)
    BY <2>1, <2>2, FS_Subset
  <2>. QED  BY <2>2, <2>3, <2>4
<1>4. ASSUME NEW k \in 1..Cardinality(I)
      PROVE  \E i \in I : Rank(I, i) = k
  <2>. DEFINE C == 1..Cardinality(I)
              f == [i \in I |-> Rank(I, i)]
  <2>1. f \in [I -> C]
    BY <1>2
  <2>2. \A i, j \in I : f[i] = f[j] => i = j
    <3>1. \A i, j \in I : i = j \/ i < j \/ j < i
      OBVIOUS
    <3>2. \A i \in I : Rank(I, i) \in Int
      <4>1. \A i \in I : Rank(I, i) \in 1..Cardinality(I)
        BY <1>2
      <4>. QED  BY <4>1, <1>1
    <3>. QED  BY <1>3, <3>1, <3>2
  <2>3. IsFiniteSet(C) /\ Cardinality(C) = Cardinality(I)
    BY <1>1, FS_Interval
  <2>. HIDE DEF f, C
  <2>4. f \in Injection(I, C)
    BY <2>1, <2>2 DEF Injection, IsInjective
  <2>5. f \in Surjection(I, C)
    BY <2>3, <2>4, FS_Injection
  <2>6. k \in C
    BY DEF C
  <2>7. \E i \in I : f[i] = k
    BY <2>5, <2>6 DEF Surjection
  <2>. QED  BY <2>7 DEF f
<1>. QED  BY <1>1, <1>2, <1>3, <1>4

\* At keeps the order of the places.
LEMMA AtIs ==
    ASSUME NEW M, NEW q \in Seq(M), NEW I \in SUBSET (DOMAIN q)
    PROVE  /\ At(q, I) \in Seq(M)
           /\ Len(At(q, I)) = Cardinality(I)
           /\ DOMAIN At(q, I) = 1..Cardinality(I)
           /\ \A k \in DOMAIN At(q, I) :
                \E i \in I : At(q, I)[k] = q[i] /\ Rank(I, i) = k
           /\ \A i \in I : \E k \in DOMAIN At(q, I) : At(q, I)[k] = q[i]
<1>1. DOMAIN q = 1..Len(q) /\ Len(q) \in Nat
  OBVIOUS
<1>2. I \in SUBSET (1..Len(q))
  BY <1>1
<1>. DEFINE c == Cardinality(I)
            P(k) == CHOOSE i \in I : Rank(I, i) = k
<1>3. /\ c \in Nat
      /\ \A i \in I : Rank(I, i) \in 1..c
      /\ \A i, j \in I : i < j => Rank(I, i) < Rank(I, j)
      /\ \A k \in 1..c : \E i \in I : Rank(I, i) = k
  BY <1>1, <1>2, Ranks
<1>. HIDE DEF c
<1>4. \A k \in 1..c : P(k) \in I /\ Rank(I, P(k)) = k
  BY <1>3
<1>5. \A i, j \in I : Rank(I, i) = Rank(I, j) => i = j
  <2>1. \A i, j \in I : i = j \/ i < j \/ j < i
    BY <1>2
  <2>2. \A i \in I : Rank(I, i) \in Nat
    BY <1>3
  <2>. QED  BY <1>3, <2>1, <2>2
<1>6. At(q, I) = [k \in 1..c |-> q[P(k)]]
  BY DEF At, Rank, c
<1>. HIDE DEF P
<1>7. \A k \in 1..c : q[P(k)] \in M
  BY <1>1, <1>4
<1>8. At(q, I) \in Seq(M) /\ Len(At(q, I)) = c /\ DOMAIN At(q, I) = 1..c
  BY <1>3, <1>6, <1>7
<1>9. \A k \in 1..c : \E i \in I : At(q, I)[k] = q[i] /\ Rank(I, i) = k
  BY <1>4, <1>6
<1>10. ASSUME NEW i \in I PROVE \E k \in 1..c : At(q, I)[k] = q[i]
  <2>1. Rank(I, i) \in 1..c /\ P(Rank(I, i)) = i
    BY <1>3, <1>4, <1>5
  <2>. QED  BY <1>6, <2>1
<1>. QED  BY <1>8, <1>9, <1>10 DEF c

\* A set of numbers has a least one.
LEMMA Least ==
    ASSUME NEW S \in SUBSET Nat, S # {}
    PROVE  \E k \in S : \A j \in S : k <= j
<1>. DEFINE R == {p \in Nat \X Nat : p[1] < p[2]}
<1>1. IsWellFoundedOn(R, Nat)
  BY NatLessThanWellFounded DEF OpToRel
<1>2. \A j, k \in S : j < k => <<j, k>> \in R
  OBVIOUS
<1>. HIDE DEF R
<1>3. \E k \in S : \A j \in S : ~ (<<j, k>> \in R)
  BY <1>1, WFMin
<1>4. \A j, k \in S : j < k \/ k <= j
  OBVIOUS
<1>. QED  BY <1>2, <1>3, <1>4

LEMMA AppendIs ==
    ASSUME NEW M, NEW q \in Seq(M), NEW m \in M
    PROVE  /\ Append(q, m) \in Seq(M)
           /\ Elements(Append(q, m)) = Elements(q) \cup {m}
<1>. DEFINE w == Append(q, m)
<1>1. /\ w \in Seq(M) /\ DOMAIN w = 1..Len(q) + 1 /\ w[Len(q) + 1] = m
      /\ \A i \in 1..Len(q) : w[i] = q[i]
      /\ DOMAIN q = 1..Len(q) /\ Len(q) \in Nat
  OBVIOUS
<1>. HIDE DEF w
<1>2. \A x : x \in Elements(w) <=> x \in Elements(q) \/ x = m
  <2>1. 1..Len(q) + 1 = (1..Len(q)) \cup {Len(q) + 1}
    BY <1>1
  <2>. QED  BY <1>1, <2>1 DEF Elements
<1>. QED  BY <1>1, <1>2 DEF w

\* What is left of a queue.
LEMMA WithoutIs ==
    ASSUME NEW M, NEW q \in Seq(M), NEW S
    PROVE  /\ Without(q, S) \in Seq(M)
           /\ Elements(Without(q, S)) = Elements(q) \ S
<1>. DEFINE I == {i \in DOMAIN q : q[i] \notin S}
<1>1. I \in SUBSET (DOMAIN q) /\ Without(q, S) = At(q, I)
  BY DEF Without
<1>2. \A x : x \in Elements(q) \ S <=> \E i \in I : x = q[i]
  BY DEF Elements
<1>. HIDE DEF I
<1>3. Without(q, S) \in Seq(M)
  BY <1>1, AtIs
<1>4. \A k \in DOMAIN At(q, I) : \E i \in I : At(q, I)[k] = q[i]
  BY <1>1, AtIs
<1>5. \A i \in I : \E k \in DOMAIN At(q, I) : At(q, I)[k] = q[i]
  BY <1>1, AtIs
<1>. QED  BY <1>1, <1>2, <1>3, <1>4, <1>5 DEF Elements

LEMMA OfSourceIs ==
    ASSUME NEW M, NEW q \in Seq(M), NEW s
    PROVE  /\ OfSource(q, s) \in Seq(M)
           /\ Elements(OfSource(q, s)) = {m \in Elements(q) : m.src = s}
<1>. DEFINE I == {i \in DOMAIN q : q[i].src = s}
<1>1. I \in SUBSET (DOMAIN q) /\ OfSource(q, s) = At(q, I)
  BY DEF OfSource
<1>2. \A x : x \in {m \in Elements(q) : m.src = s} <=> \E i \in I : x = q[i]
  BY DEF Elements
<1>. HIDE DEF I
<1>3. OfSource(q, s) \in Seq(M)
  BY <1>1, AtIs
<1>4. \A k \in DOMAIN At(q, I) : \E i \in I : At(q, I)[k] = q[i]
  BY <1>1, AtIs
<1>5. \A i \in I : \E k \in DOMAIN At(q, I) : At(q, I)[k] = q[i]
  BY <1>1, AtIs
<1>. QED  BY <1>1, <1>2, <1>3, <1>4, <1>5 DEF Elements

\* The queue is in the order of the numbers.
Increasing(q) == \A i, j \in DOMAIN q : i < j => q[i].n < q[j].n

\* What is left of it is, too.
LEMMA WithoutIncreasing ==
    ASSUME NEW M, NEW q \in Seq(M), NEW S, Increasing(q)
    PROVE  Increasing(Without(q, S))
<1>. DEFINE I == {i \in DOMAIN q : q[i] \notin S}
            w == At(q, I)
<1>1. I \in SUBSET (DOMAIN q) /\ Without(q, S) = w
  BY DEF Without
<1>2. DOMAIN q = 1..Len(q) /\ Len(q) \in Nat
  OBVIOUS
<1>. HIDE DEF I
<1>3. /\ DOMAIN w = 1..Cardinality(I)
      /\ \A k \in DOMAIN w : \E i \in I : w[k] = q[i] /\ Rank(I, i) = k
  BY <1>1, AtIs
<1>. HIDE DEF w
<1>4. /\ \A i \in I : Rank(I, i) \in 1..Cardinality(I)
      /\ \A i, j \in I : i < j => Rank(I, i) < Rank(I, j)
      /\ Cardinality(I) \in Nat
  BY <1>1, <1>2, Ranks
<1>5. ASSUME NEW k \in DOMAIN w, NEW l \in DOMAIN w, k < l
      PROVE  w[k].n < w[l].n
  <2>1. PICK i \in I : w[k] = q[i] /\ Rank(I, i) = k
    BY <1>3
  <2>2. PICK j \in I : w[l] = q[j] /\ Rank(I, j) = l
    BY <1>3
  <2>3. k \in Int /\ l \in Int /\ i \in Int /\ j \in Int
    BY <1>1, <1>2, <1>3
  <2>4. i < j
    BY <1>4, <1>5, <2>1, <2>2, <2>3
  <2>5. i \in DOMAIN q /\ j \in DOMAIN q
    BY <1>1
  <2>. QED  BY <2>1, <2>2, <2>4, <2>5 DEF Increasing
<1>. QED  BY <1>1, <1>5 DEF Increasing

\* A sequence without repetitions is as long as it has elements.
LEMMA NoRepeats ==
    ASSUME NEW M, NEW q \in Seq(M),
           \A i, j \in DOMAIN q : q[i] = q[j] => i = j
    PROVE  IsFiniteSet(Elements(q)) /\ Cardinality(Elements(q)) = Len(q)
<1>1. q \in Bijection(1..Len(q), Elements(q))
  BY DEF Bijection, Injection, IsInjective, Surjection, Elements
<1>2. ExistsBijection(1..Len(q), Elements(q))
  BY <1>1 DEF ExistsBijection
<1>3. PICK n \in Nat : n = Len(q)
  OBVIOUS
<1>4. IsFiniteSet(1..n) /\ Cardinality(1..n) = n
  BY FS_Interval
<1>. QED  BY <1>2, <1>3, <1>4, FS_Bijection

----------------------------------------------------------------------------
(* Numbers and their low bits *)

LEMMA LowBits ==
    ASSUME NEW a \in Nat
    PROVE  /\ a % SeqSpace \in 0..SeqSpace - 1
           /\ a \div SeqSpace \in Nat
           /\ a = SeqSpace * (a \div SeqSpace) + (a % SeqSpace)
  BY Z3

\* Multiples of a number that differ, differ by it at least.
LEMMA Multiples ==
    ASSUME NEW i \in Nat, NEW j \in Nat, i < j
    PROVE  SeqSpace * i + SeqSpace <= SeqSpace * j
<1>1. PICK d \in Nat : j = i + 1 + d
  <2>. WITNESS j - i - 1 \in Nat
  <2>. QED  OBVIOUS
<1>2. SeqSpace * j = SeqSpace * i + SeqSpace + SeqSpace * d
  BY <1>1, Z3
<1>3. SeqSpace * d \in Nat /\ SeqSpace * i \in Nat
  BY Z3
<1>. QED  BY <1>2, <1>3

\* Numbers that are less than SeqSpace apart are told from each other.
LEMMA SameLowBits ==
    ASSUME NEW a \in Nat, NEW b \in Nat, b <= a, a - b < SeqSpace,
           a % SeqSpace = b % SeqSpace
    PROVE  a = b
<1>. DEFINE i == a \div SeqSpace
            j == b \div SeqSpace
            x == a % SeqSpace
<1>1. /\ i \in Nat /\ j \in Nat /\ x \in 0..SeqSpace - 1
      /\ a = SeqSpace * i + x /\ b = SeqSpace * j + x
  BY LowBits
<1>. HIDE DEF i, j, x
<1>2. SeqSpace * i \in Nat /\ SeqSpace * j \in Nat
  BY <1>1, Z3
<1>3. i = j \/ i < j \/ j < i
  BY <1>1
<1>4. CASE i < j
  BY <1>1, <1>2, <1>4, Multiples
<1>5. CASE j < i
  BY <1>1, <1>2, <1>5, Multiples
<1>. QED  BY <1>1, <1>3, <1>4, <1>5

\* Adding to the low bits is adding to the number.
LEMMA AddLowBits ==
    ASSUME NEW a \in Nat, NEW l \in Nat
    PROVE  ((a % SeqSpace) + l) % SeqSpace = (a + l) % SeqSpace
<1>. DEFINE i == a \div SeqSpace
            x == a % SeqSpace
            j == (x + l) \div SeqSpace
            y == (x + l) % SeqSpace
            k == (a + l) \div SeqSpace
            z == (a + l) % SeqSpace
<1>1. i \in Nat /\ x \in 0..SeqSpace - 1 /\ a = SeqSpace * i + x
  BY LowBits
<1>2. j \in Nat /\ y \in 0..SeqSpace - 1 /\ x + l = SeqSpace * j + y
  BY <1>1, LowBits
<1>3. k \in Nat /\ z \in 0..SeqSpace - 1 /\ a + l = SeqSpace * k + z
  BY LowBits
<1>. HIDE DEF i, x, j, y, k, z
<1>4. SeqSpace * (i + j) = SeqSpace * i + SeqSpace * j
  BY <1>1, <1>2, Z3
<1>5. SeqSpace * i \in Nat /\ SeqSpace * j \in Nat /\ SeqSpace * k \in Nat
  BY <1>1, <1>2, <1>3, Z3
<1>6. PICK c \in Nat : c = i + j
  BY <1>1, <1>2
<1>7. SeqSpace * c + y = SeqSpace * k + z
  BY <1>1, <1>2, <1>3, <1>4, <1>5, <1>6
<1>8. SeqSpace * c \in Nat
  BY <1>6, Z3
<1>9. c = k \/ c < k \/ k < c
  BY <1>3, <1>6
<1>10. ASSUME c = k PROVE y = z
  <2>1. SeqSpace * c = SeqSpace * k
    BY <1>10
  <2>. QED  BY <1>2, <1>3, <1>5, <1>7, <2>1
<1>11. ~ (c < k)
  BY <1>2, <1>3, <1>5, <1>6, <1>7, <1>8, Multiples
<1>12. ~ (k < c)
  BY <1>2, <1>3, <1>5, <1>6, <1>7, <1>8, Multiples
<1>13. y = z
  BY <1>9, <1>10, <1>11, <1>12
<1>. QED  BY <1>13 DEF x, y, z

----------------------------------------------------------------------------
(* Types *)

LEMMA MessageIs ==
    ASSUME NEW m \in Message
    PROVE  /\ m.src \in Source /\ m.src \in Nat
           /\ m.n \in First + 1..First + MaxMsgs[m.src] /\ m.n \in Nat
           /\ m.tag \in Tag
           /\ m = [src |-> m.src, n |-> m.n, tag |-> m.tag]
  BY DEF Message, Source

LEMMA RequestIs ==
    ASSUME NEW r \in Request
    PROVE  /\ r.no \in 1..MaxPosts /\ r.no \in Nat
           /\ r.peer \in Source \cup {AnySource}
           /\ r.type \in {"RECV", "PROBE", "IPROBE"}
  BY DEF Request

\* The queues and what came of them.
QueueTypes ==
    /\ unexpected_frags \in [Source -> Seq(Message)]
    /\ specific_receives \in [Source -> Seq(Request)]
    /\ wild_receives \in Seq(Request)
    /\ matched \subseteq [req : Request, msg : Message]
    /\ probed \subseteq [req : Request, msg : Message]
    /\ incomplete \subseteq Request
    /\ unmarked \in [Thread -> SUBSET Request]

LEMMA ElementsOf ==
    ASSUME NEW M, NEW q \in Seq(M)
    PROVE  Elements(q) \subseteq M
  BY DEF Elements

\* The requests that m concerns, the receive that gets it, the probes that see it.
Interested(m) ==
    {r \in Elements(specific_receives[m.src]) \cup Elements(wild_receives) : Accepts(r, m)}
Getting(m) == Earliest(Receives(Interested(m)))
Seeing(m) ==
    {r \in Interested(m) : r.type # "RECV" /\
         \A q \in Receives(Interested(m)) : r.no < q.no}

\* match_one() in some thread.
Matches(m) == \E t \in Thread : MatchOne(t, m)

\* What it does, in these terms.
LEMMA MatchOneIs ==
    ASSUME NEW m, Matches(m)
    PROVE  /\ specific_receives' = [specific_receives EXCEPT ![m.src] =
                Without(@, Getting(m) \cup Seeing(m))]
           /\ wild_receives' = Without(wild_receives, Getting(m) \cup Seeing(m))
           /\ matched' = matched \cup {[req |-> r, msg |-> m] : r \in Getting(m)}
           /\ probed' = probed \cup {[req |-> r, msg |-> m] : r \in Seeing(m)}
           /\ incomplete' = incomplete \cup Getting(m)
           /\ \E t \in Thread : unmarked' = [unmarked EXCEPT ![t] = Getting(m)]
           /\ unexpected_frags' =
                IF Getting(m) # {} THEN unexpected_frags
                ELSE [unexpected_frags EXCEPT ![m.src] = Append(@, m)]
  BY DEF Matches, MatchOne, Interested, Getting, Seeing

LEMMA InterestedIs ==
    ASSUME QueueTypes, NEW m \in Message
    PROVE  /\ Interested(m) \subseteq Request
           /\ Getting(m) \subseteq {r \in Interested(m) : r.type = "RECV"}
           /\ Seeing(m) \subseteq {r \in Interested(m) : r.type # "RECV"}
<1>1. m.src \in Source
  BY MessageIs
<1>2. specific_receives[m.src] \in Seq(Request) /\ wild_receives \in Seq(Request)
  BY <1>1 DEF QueueTypes
<1>3. Interested(m) \subseteq Request
  BY <1>2, ElementsOf DEF Interested
<1>4. Getting(m) \subseteq {r \in Interested(m) : r.type = "RECV"}
  BY DEF Getting, Earliest, Receives
<1>5. Seeing(m) \subseteq {r \in Interested(m) : r.type # "RECV"}
  BY DEF Seeing
<1>. QED  BY <1>3, <1>4, <1>5

LEMMA MatchOneTypes ==
    ASSUME QueueTypes, NEW m \in Message, Matches(m)
    PROVE  QueueTypes'
<1>. DEFINE G == Getting(m)
            P == Seeing(m)
<1>0. G \subseteq Request /\ P \subseteq Request
  BY InterestedIs
<1>1. m.src \in Source
  BY MessageIs
<1>2. /\ specific_receives' = [specific_receives EXCEPT ![m.src] = Without(@, G \cup P)]
      /\ wild_receives' = Without(wild_receives, G \cup P)
      /\ matched' = matched \cup {[req |-> r, msg |-> m] : r \in G}
      /\ probed' = probed \cup {[req |-> r, msg |-> m] : r \in P}
      /\ incomplete' = incomplete \cup G
      /\ \E t \in Thread : unmarked' = [unmarked EXCEPT ![t] = G]
      /\ unexpected_frags' = IF G # {} THEN unexpected_frags
                             ELSE [unexpected_frags EXCEPT ![m.src] = Append(@, m)]
  BY MatchOneIs
<1>. HIDE DEF G, P
<1>3. /\ specific_receives[m.src] \in Seq(Request) /\ wild_receives \in Seq(Request)
      /\ unexpected_frags[m.src] \in Seq(Message)
  BY <1>1 DEF QueueTypes
<1>4. /\ Without(specific_receives[m.src], G \cup P) \in Seq(Request)
      /\ Without(wild_receives, G \cup P) \in Seq(Request)
      /\ Append(unexpected_frags[m.src], m) \in Seq(Message)
  BY <1>3, WithoutIs, AppendIs
<1>5. specific_receives' \in [Source -> Seq(Request)] /\ wild_receives' \in Seq(Request)
  BY <1>2, <1>4 DEF QueueTypes
<1>6. unexpected_frags' \in [Source -> Seq(Message)]
  BY <1>2, <1>4 DEF QueueTypes
<1>7. /\ matched' \subseteq [req : Request, msg : Message]
      /\ probed' \subseteq [req : Request, msg : Message]
      /\ incomplete' \subseteq Request
  BY <1>0, <1>2 DEF QueueTypes
<1>8. unmarked' \in [Thread -> SUBSET Request]
  BY <1>0, <1>2 DEF QueueTypes
<1>. QED  BY <1>5, <1>6, <1>7, <1>8 DEF QueueTypes

LEMMA AdvanceType ==
    ASSUME expected_sequence \in [Source -> 0..SeqSpace - 1], NEW s \in Source, Advance(s)
    PROVE  expected_sequence' \in [Source -> 0..SeqSpace - 1]
<1>1. expected_sequence[s] + 1 \in Nat
  OBVIOUS
<1>2. (expected_sequence[s] + 1) % SeqSpace \in 0..SeqSpace - 1
  BY <1>1, LowBits
<1>. QED  BY <1>2 DEF Advance

\* The messages of s that came before the communicator, and those of them that
\* follow on the one expected without a gap.
Came(s) == OfSource(pending, s)
Row(s) == [k \in InRow(Came(s), s) |->
             Came(s)[CHOOSE i \in Place(Came(s), s, k) : TRUE]]

LEMMA InRowIs ==
    ASSUME NEW q \in Seq(Message), NEW s
    PROVE  \E l \in 0..Len(q) : /\ InRow(q, s) = 1..l
                                /\ l < Len(q) => Place(q, s, l + 1) = {}
                                /\ \A k \in 1..l : Place(q, s, k) # {}
<1>0. Len(q) \in Nat
  OBVIOUS
<1>. DEFINE N == {k \in 1..Len(q) + 1 : k = Len(q) + 1 \/ Place(q, s, k) = {}}
<1>1. N \in SUBSET Nat /\ N # {}
  BY <1>0
<1>2. PICK k \in N : \A j \in N : k <= j
  <2>. HIDE DEF N
  <2>. QED  BY <1>1, Least
<1>3. k \in 1..Len(q) + 1 /\ (k = Len(q) + 1 \/ Place(q, s, k) = {})
  BY <1>2
<1>4. \A j \in 1..k - 1 : Place(q, s, j) # {}
  BY <1>0, <1>2, <1>3
<1>5. \A j \in 1..Len(q) : j \in InRow(q, s) <=> j <= k - 1
  <2>. SUFFICES ASSUME NEW j \in 1..Len(q)
                PROVE  (\A i \in 1..j : Place(q, s, i) # {}) <=> j <= k - 1
    BY DEF InRow
  <2>1. CASE j <= k - 1
    BY <1>0, <1>3, <1>4, <2>1
  <2>2. CASE ~ (j <= k - 1)
    <3>1. k \in 1..j /\ Place(q, s, k) = {}
      BY <1>0, <1>3, <2>2
    <3>. QED  BY <2>2, <3>1
  <2>. QED  BY <2>1, <2>2
<1>6. InRow(q, s) \subseteq 1..Len(q)
  BY DEF InRow
<1>7. InRow(q, s) = 1..k - 1
  <2>1. \A j \in 1..k - 1 : j \in 1..Len(q) /\ j <= k - 1
    BY <1>0, <1>3
  <2>2. \A j \in 1..Len(q) : j <= k - 1 => j \in 1..k - 1
    BY <1>0, <1>3
  <2>. QED  BY <1>5, <1>6, <2>1, <2>2
<1>8. k - 1 \in 0..Len(q) /\ (k - 1) + 1 = k
  BY <1>0, <1>3
<1>9. k - 1 < Len(q) => Place(q, s, k) = {}
  BY <1>0, <1>3
<1>. QED  BY <1>4, <1>7, <1>8, <1>9

LEMMA CameIs ==
    ASSUME pending \in Seq(Message), NEW s
    PROVE  /\ Came(s) \in Seq(Message)
           /\ Elements(Came(s)) = {m \in Elements(pending) : m.src = s}
  BY OfSourceIs DEF Came

LEMMA RowIs ==
    ASSUME pending \in Seq(Message), NEW s
    PROVE  /\ Row(s) \in Seq(Message) /\ Len(Row(s)) \in 0..Len(Came(s))
           /\ InRow(Came(s), s) = 1..Len(Row(s)) /\ DOMAIN Row(s) = 1..Len(Row(s))
           /\ \A k \in 1..Len(Row(s)) : \E i \in Place(Came(s), s, k) :
                Row(s)[k] = Came(s)[i]
           /\ Len(Row(s)) < Len(Came(s)) => Place(Came(s), s, Len(Row(s)) + 1) = {}
<1>1. Came(s) \in Seq(Message)
  BY CameIs
<1>2. PICK l \in 0..Len(Came(s)) :
         /\ InRow(Came(s), s) = 1..l
         /\ l < Len(Came(s)) => Place(Came(s), s, l + 1) = {}
         /\ \A k \in 1..l : Place(Came(s), s, k) # {}
  BY <1>1, InRowIs
<1>. DEFINE P(k) == CHOOSE i \in Place(Came(s), s, k) : TRUE
<1>3. \A k \in 1..l : P(k) \in Place(Came(s), s, k)
  BY <1>2
<1>4. Row(s) = [k \in 1..l |-> Came(s)[P(k)]]
  BY <1>2 DEF Row
<1>. HIDE DEF P
<1>5. \A k \in 1..l : Came(s)[P(k)] \in Message
  BY <1>1, <1>3 DEF Place
<1>6. l \in Nat
  BY <1>2
<1>7. Row(s) \in Seq(Message) /\ Len(Row(s)) = l /\ DOMAIN Row(s) = 1..l
  BY <1>4, <1>5, <1>6
<1>. QED  BY <1>2, <1>3, <1>4, <1>7

\* mca_pml_ob1_add_comm() in these terms.
LEMMA AddCommIs ==
    ASSUME AddComm
    PROVE  /\ ~comm /\ comm' = TRUE /\ pending' = <<>>
           /\ unexpected_frags' = [s \in Source |-> Row(s)]
           /\ frags_cant_match' = [s \in Source |-> Without(Came(s), Elements(Row(s)))]
           /\ expected_sequence' =
                [s \in Source |-> (expected_sequence[s] + Len(Row(s))) % SeqSpace]
           /\ UNCHANGED <<sendVars, network, specific_receives, wild_receives, matchVars,
                          requestVars, threadVars>>
<1>. DEFINE q == [s \in Source |-> Came(s)]
            row == [s \in Source |-> Row(s)]
<1>1. q = [s \in Source |-> OfSource(pending, s)]
  BY DEF Came
<1>2. row = [s \in Source |->
               [k \in InRow(q[s], s) |-> q[s][CHOOSE i \in Place(q[s], s, k) : TRUE]]]
  BY DEF Row
<1>. HIDE DEF q, row
<1>3. /\ ~comm /\ comm' = TRUE /\ pending' = <<>>
      /\ unexpected_frags' = row
      /\ frags_cant_match' = [s \in Source |-> Without(q[s], Elements(row[s]))]
      /\ expected_sequence' =
           [s \in Source |-> (expected_sequence[s] + Len(row[s])) % SeqSpace]
      /\ UNCHANGED <<sendVars, network, specific_receives, wild_receives, matchVars,
                     requestVars, threadVars>>
  BY <1>1, <1>2 DEF AddComm
<1>. QED  BY <1>3 DEF q, row

\* TypeOK but for the queues and the sequence numbers.
RestTyped ==
    /\ failed \subseteq Message /\ network \subseteq Message
    /\ comm \in BOOLEAN
    /\ pending \in Seq(Message)
    /\ recv_sequence \in 0..MaxPosts
    /\ pc \in [Thread -> {"idle", "match", "drain"}]
    /\ hand \in [Thread -> Message \cup {NoMsg}]
    /\ \A t \in Thread : pc[t] # "idle" => hand[t] \in Message
    /\ cancelled \subseteq Request
    /\ corrupt \in BOOLEAN

SequenceTyped ==
    /\ send_sequence \in [Source -> Nat]
    /\ \A s \in Source : send_sequence[s] \in First..First + MaxMsgs[s]

ProcTyped ==
    /\ expected_sequence \in [Source -> 0..SeqSpace - 1]
    /\ frags_cant_match \in [Source -> Seq(Message)]

LEMMA TypedParts == Typed <=> RestTyped /\ SequenceTyped /\ ProcTyped /\ QueueTypes
  BY DEF Typed, TypeOK, RestTyped, SequenceTyped, ProcTyped, QueueTypes

LEMMA TypedSame ==
    /\ UNCHANGED sendVars /\ SequenceTyped => SequenceTyped'
    /\ UNCHANGED procVars /\ ProcTyped => ProcTyped'
    /\ UNCHANGED <<queueVars, matchVars>> /\ QueueTypes => QueueTypes'
  BY DEF sendVars, procVars, queueVars, matchVars, SequenceTyped, ProcTyped, QueueTypes

LEMMA InitTyped == Init => Typed
<1>. SUFFICES ASSUME Init PROVE Typed
  OBVIOUS
<1>1. SequenceTyped
  BY DEF Init, SequenceTyped, Source
<1>2. ProcTyped
  <2>1. (First + 1) % SeqSpace \in 0..SeqSpace - 1
    BY LowBits
  <2>. QED  BY <2>1 DEF Init, ProcTyped
<1>3. QueueTypes
  BY DEF Init, QueueTypes
<1>4. RestTyped
  <2>1. corrupt \in BOOLEAN
    BY Zenon DEF Init
  <2>. QED  BY <2>1 DEF Init, RestTyped
<1>. QED  BY <1>1, <1>2, <1>3, <1>4, TypedParts

LEMMA SendTyped ==
    ASSUME Typed, NEW s \in Source, SendStart(s)
    PROVE  Typed'
<1>. DEFINE n == send_sequence[s] + 1
<1>0. RestTyped /\ SequenceTyped /\ ProcTyped /\ QueueTypes
  BY TypedParts
<1>1. /\ n <= First + MaxMsgs[s]
      /\ send_sequence' = [send_sequence EXCEPT ![s] = n]
      /\ UNCHANGED <<comm, pending, procVars, queueVars, matchVars, requestVars, threadVars>>
      /\ \E tag \in Tag :
           \/ network' = network \cup {[src |-> s, n |-> n, tag |-> tag]} /\ UNCHANGED failed
           \/ failed' = failed \cup {[src |-> s, n |-> n, tag |-> tag]} /\ UNCHANGED network
  BY DEF SendStart
<1>2. n \in First + 1..First + MaxMsgs[s] /\ n \in Nat
  BY <1>0, <1>1 DEF SequenceTyped
<1>. HIDE DEF n
<1>3. \A tag \in Tag : [src |-> s, n |-> n, tag |-> tag] \in Message
  BY <1>2 DEF Message
<1>4. RestTyped'
  BY <1>0, <1>1, <1>3 DEF RestTyped, requestVars, threadVars
<1>5. SequenceTyped'
  BY <1>0, <1>1, <1>2 DEF SequenceTyped
<1>. QED  BY <1>0, <1>1, <1>4, <1>5, TypedSame
          DEF Typed, TypeOK, RestTyped, SequenceTyped, ProcTyped, QueueTypes

LEMMA CallbackTyped ==
    ASSUME Typed, NEW t \in Thread, Callback(t)
    PROVE  Typed'
<1>0. RestTyped /\ SequenceTyped /\ ProcTyped /\ QueueTypes
  BY TypedParts
<1>1. PICK m \in network :
        /\ network' = network \ {m}
        /\ \/ /\ pending' = Append(pending, m)
              /\ UNCHANGED <<procVars, queueVars, matchVars, threadVars>>
           \/ /\ Advance(m.src)
              /\ Matches(m)
              /\ UNCHANGED <<pending, frags_cant_match, threadVars>>
           \/ /\ pc' = [pc EXCEPT ![t] = "match"]
              /\ hand' = [hand EXCEPT ![t] = m]
              /\ UNCHANGED <<pending, procVars, queueVars, matchVars>>
  BY DEF Callback, Matches
<1>2. UNCHANGED <<sendVars, comm, requestVars>>
  BY DEF Callback, Matches
<1>3. m \in Message /\ m.src \in Source
  BY <1>0, MessageIs DEF RestTyped
<1>4. Append(pending, m) \in Seq(Message)
  BY <1>0, <1>3 DEF RestTyped
<1>5. RestTyped'
  BY <1>0, <1>1, <1>2, <1>3, <1>4 DEF RestTyped, sendVars, requestVars, threadVars
<1>6. ProcTyped' /\ QueueTypes'
  <2>1. CASE UNCHANGED <<procVars, queueVars, matchVars>>
    BY <1>0, <2>1, TypedSame
  <2>2. CASE Advance(m.src) /\ Matches(m) /\ UNCHANGED frags_cant_match
    BY <1>0, <1>3, <2>2, MatchOneTypes, AdvanceType DEF ProcTyped
  <2>. QED  BY <1>1, <2>1, <2>2
<1>. QED  BY <1>0, <1>2, <1>5, <1>6, TypedSame
          DEF Typed, TypeOK, RestTyped, SequenceTyped, ProcTyped, QueueTypes

LEMMA FragMatchTyped ==
    ASSUME Typed, NEW t \in Thread, FragMatch(t)
    PROVE  Typed'
<1>. DEFINE m == hand[t]
<1>0. RestTyped /\ SequenceTyped /\ ProcTyped /\ QueueTypes
  BY TypedParts
<1>1. /\ \/ /\ Advance(m.src)
            /\ Matches(m)
            /\ pc' = [pc EXCEPT ![t] = "drain"]
            /\ UNCHANGED <<frags_cant_match, hand>>
         \/ /\ frags_cant_match' = [frags_cant_match EXCEPT ![m.src] = Append(@, m)]
            /\ pc' = [pc EXCEPT ![t] = "idle"]
            /\ hand' = [hand EXCEPT ![t] = NoMsg]
            /\ UNCHANGED <<expected_sequence, queueVars, matchVars>>
      /\ UNCHANGED <<sendVars, network, comm, pending, requestVars>>
      /\ pc[t] = "match"
  BY DEF FragMatch, Matches
<1>3. m \in Message
  BY <1>0, <1>1 DEF RestTyped
<1>. HIDE DEF m
<1>4. m.src \in Source
  BY <1>3, MessageIs
<1>5. RestTyped'
  BY <1>0, <1>1, <1>3 DEF RestTyped, sendVars, requestVars, m
<1>6. ProcTyped' /\ QueueTypes'
  <2>1. CASE /\ frags_cant_match' = [frags_cant_match EXCEPT ![m.src] = Append(@, m)]
             /\ UNCHANGED <<expected_sequence, queueVars, matchVars>>
    <3>1. Append(frags_cant_match[m.src], m) \in Seq(Message)
      BY <1>0, <1>3, <1>4, AppendIs DEF ProcTyped
    <3>. QED  BY <1>0, <1>4, <2>1, <3>1, TypedSame DEF ProcTyped
  <2>2. CASE Advance(m.src) /\ Matches(m) /\ UNCHANGED frags_cant_match
    BY <1>0, <1>3, <1>4, <2>2, MatchOneTypes, AdvanceType DEF ProcTyped
  <2>. QED  BY <1>1, <2>1, <2>2
<1>. QED  BY <1>0, <1>1, <1>5, <1>6, TypedSame
          DEF Typed, TypeOK, RestTyped, SequenceTyped, ProcTyped, QueueTypes

LEMMA DrainTyped ==
    ASSUME Typed, NEW t \in Thread, Drain(t)
    PROVE  Typed'
<1>. DEFINE s == hand[t].src
<1>0. RestTyped /\ SequenceTyped /\ ProcTyped /\ QueueTypes
  BY TypedParts
<1>1. /\ \/ /\ \E i \in CanMatch(s) :
                 LET m == frags_cant_match[s][i]
                 IN  /\ frags_cant_match' = [frags_cant_match EXCEPT ![s] = Without(@, {m})]
                     /\ Advance(s)
                     /\ Matches(m)
            /\ UNCHANGED threadVars
         \/ /\ pc' = [pc EXCEPT ![t] = "idle"]
            /\ hand' = [hand EXCEPT ![t] = NoMsg]
            /\ UNCHANGED <<procVars, queueVars, matchVars>>
      /\ UNCHANGED <<sendVars, network, comm, pending, requestVars>>
      /\ pc[t] = "drain"
  BY DEF Drain, Matches
<1>3. s \in Source
  BY <1>0, <1>1, MessageIs DEF RestTyped
<1>. HIDE DEF s
<1>5. RestTyped'
  BY <1>0, <1>1 DEF RestTyped, sendVars, requestVars, threadVars
<1>6. ProcTyped' /\ QueueTypes'
  <2>1. CASE UNCHANGED <<procVars, queueVars, matchVars>>
    BY <1>0, <2>1, TypedSame
  <2>2. ASSUME NEW i \in CanMatch(s),
               frags_cant_match' = [frags_cant_match EXCEPT ![s] =
                   Without(@, {frags_cant_match[s][i]})],
               Advance(s), Matches(frags_cant_match[s][i])
        PROVE  ProcTyped' /\ QueueTypes'
    <3>1. PICK m \in Message : m = frags_cant_match[s][i]
      BY <1>0, <1>3 DEF CanMatch, ProcTyped
    <3>2. Without(frags_cant_match[s], {m}) \in Seq(Message)
      BY <1>0, <1>3, WithoutIs DEF ProcTyped
    <3>3. QueueTypes'
      BY <1>0, <2>2, <3>1, MatchOneTypes
    <3>4. expected_sequence' \in [Source -> 0..SeqSpace - 1]
      BY <1>0, <1>3, <2>2, AdvanceType DEF ProcTyped
    <3>5. frags_cant_match' \in [Source -> Seq(Message)]
      BY <1>0, <1>3, <2>2, <3>1, <3>2 DEF ProcTyped
    <3>. QED  BY <3>3, <3>4, <3>5 DEF ProcTyped
  <2>. QED  BY <1>1, <2>1, <2>2
<1>. QED  BY <1>0, <1>1, <1>5, <1>6, TypedSame
          DEF Typed, TypeOK, RestTyped, SequenceTyped, ProcTyped, QueueTypes

LEMMA AddCommTyped ==
    ASSUME Typed, AddComm
    PROVE  Typed'
<1>0. RestTyped /\ SequenceTyped /\ ProcTyped /\ QueueTypes
  BY TypedParts
<1>1. pending \in Seq(Message)
  BY <1>0 DEF RestTyped
<1>2. \A s \in Source : /\ Row(s) \in Seq(Message) /\ Len(Row(s)) \in Nat
                        /\ Without(Came(s), Elements(Row(s))) \in Seq(Message)
  BY <1>1, CameIs, RowIs, WithoutIs
<1>3. \A s \in Source :
        (expected_sequence[s] + Len(Row(s))) % SeqSpace \in 0..SeqSpace - 1
  <2>. TAKE s \in Source
  <2>1. PICK x \in Nat : x = expected_sequence[s] + Len(Row(s))
    BY <1>0, <1>2 DEF ProcTyped
  <2>. QED  BY <2>1, LowBits
<1>4. QueueTypes'
  BY <1>0, <1>2, AddCommIs DEF QueueTypes, matchVars
<1>5. ProcTyped'
  BY <1>2, <1>3, AddCommIs DEF ProcTyped
<1>6. RestTyped'
  <2>1. <<>> \in Seq(Message)
    OBVIOUS
  <2>. QED  BY <1>0, <2>1, AddCommIs DEF RestTyped, sendVars, requestVars, threadVars
<1>7. SequenceTyped'
  BY <1>0, AddCommIs, TypedSame
<1>. QED  BY <1>4, <1>5, <1>6, <1>7
          DEF Typed, TypeOK, RestTyped, SequenceTyped, ProcTyped, QueueTypes

\* m is the first of the unexpected messages of s that r accepts.
FirstAccepted(r, s, m) ==
    \E i \in DOMAIN unexpected_frags[s] :
        /\ m = unexpected_frags[s][i] /\ Accepts(r, m)
        /\ \A j \in 1..i - 1 : ~Accepts(r, unexpected_frags[s][j])

\* recv_req_match_specific_proc() finds it, and nothing if there is none.
LEMMA SpecificIs ==
    ASSUME QueueTypes, NEW r, NEW s \in Source
    PROVE  /\ \A m \in MatchSpecificProc(r, s) : FirstAccepted(r, s, m)
           /\ \A m, u \in MatchSpecificProc(r, s) : m = u
           /\ MatchSpecificProc(r, s) = {} =>
                \A m \in Elements(unexpected_frags[s]) : ~Accepts(r, m)
<1>. DEFINE q == unexpected_frags[s]
            I == {i \in DOMAIN q : Accepts(r, q[i])}
<1>1. q \in Seq(Message) /\ DOMAIN q = 1..Len(q) /\ Len(q) \in Nat
  BY DEF QueueTypes
<1>2. MatchSpecificProc(r, s) = {q[i] : i \in FirstOf(I)}
  BY DEF MatchSpecificProc
<1>3. I \in SUBSET Nat
  BY <1>1
<1>4. \A i \in FirstOf(I) : i \in I /\ \A j \in 1..i - 1 : ~Accepts(r, q[j])
  BY <1>1 DEF FirstOf
<1>5. \A i, j \in FirstOf(I) : i = j
  BY <1>3 DEF FirstOf
<1>6. FirstOf(I) = {} => I = {}
  <2>. HIDE DEF I
  <2>. QED  BY <1>3, Least DEF FirstOf
<1>7. \A m \in MatchSpecificProc(r, s) : FirstAccepted(r, s, m)
  BY <1>2, <1>4 DEF FirstAccepted
<1>8. \A m, u \in MatchSpecificProc(r, s) : m = u
  BY <1>2, <1>5
<1>9. ASSUME MatchSpecificProc(r, s) = {}
      PROVE  \A m \in Elements(unexpected_frags[s]) : ~Accepts(r, m)
  <2>1. FirstOf(I) = {}
    <3>. HIDE DEF I, q
    <3>. QED  BY <1>2, <1>9
  <2>2. \A i \in DOMAIN q : ~Accepts(r, q[i])
    BY <1>6, <2>1
  <2>. QED  BY <2>2 DEF Elements
<1>. QED  BY <1>7, <1>8, <1>9

\* recv_req_match_wild() finds it in the queue of some source, and nothing if
\* there is none in any.
LEMMA WildIs ==
    ASSUME QueueTypes, NEW r
    PROVE  /\ \A m \in MatchWild(r) : \E s \in Source : FirstAccepted(r, s, m)
           /\ \A m, u \in MatchWild(r) : m = u
           /\ MatchWild(r) = {} =>
                \A s \in Source : \A m \in Elements(unexpected_frags[s]) : ~Accepts(r, m)
<1>. DEFINE N == {s \in Source : MatchSpecificProc(r, s) # {}}
            F == {s \in Source : /\ MatchSpecificProc(r, s) # {}
                                 /\ \A u \in 0..s - 1 : MatchSpecificProc(r, u) = {}}
<1>1. MatchWild(r) = UNION {MatchSpecificProc(r, s) : s \in F}
  BY DEF MatchWild
<1>2. F \subseteq Source /\ N \in SUBSET Nat
  BY DEF Source
<1>3. \A s, u \in F : s = u
  <2>1. \A s, u \in F : s < u => s \in 0..u - 1
    BY DEF Source
  <2>2. \A s, u \in F : s = u \/ s < u \/ u < s
    BY DEF Source
  <2>3. \A s, u \in F : ~ (s \in 0..u - 1)
    OBVIOUS
  <2>. QED  BY <2>1, <2>2, <2>3
<1>4. N # {} => F # {}
  <2>. SUFFICES ASSUME N # {} PROVE F # {}
    OBVIOUS
  <2>1. PICK s \in N : \A u \in N : s <= u
    <3>. HIDE DEF N
    <3>. QED  BY <1>2, Least
  <2>2. \A u \in 0..s - 1 : u \in Source /\ ~ (s <= u)
    BY DEF Source
  <2>3. s \in F
    BY <2>1, <2>2
  <2>. QED  BY <2>3
<1>. HIDE DEF F
<1>5. \A m \in MatchWild(r) : \E s \in Source : m \in MatchSpecificProc(r, s)
  BY <1>1, <1>2
<1>6. \A m \in MatchWild(r) : \E s \in Source : FirstAccepted(r, s, m)
  BY <1>5, SpecificIs
<1>7. ASSUME NEW m \in MatchWild(r), NEW u \in MatchWild(r)
      PROVE  m = u
  <2>1. PICK s \in F : m \in MatchSpecificProc(r, s)
    BY <1>1
  <2>2. u \in MatchSpecificProc(r, s) /\ s \in Source
    BY <1>1, <1>2, <1>3
  <2>. QED  BY <2>1, <2>2, SpecificIs
<1>8. ASSUME MatchWild(r) = {}, NEW s \in Source
      PROVE  \A m \in Elements(unexpected_frags[s]) : ~Accepts(r, m)
  <2>1. \A u \in F : MatchSpecificProc(r, u) = {}
    BY <1>1, <1>8
  <2>2. \A u \in F : MatchSpecificProc(r, u) # {}
    BY DEF F
  <2>3. N = {}
    BY <1>4, <2>1, <2>2
  <2>4. MatchSpecificProc(r, s) = {}
    BY <2>3
  <2>. QED  BY <2>4, SpecificIs
<1>. QED  BY <1>6, <1>7, <1>8

\* What a receive that is posted finds.
Found(r) == IF r.peer = AnySource THEN MatchWild(r) ELSE MatchSpecificProc(r, r.peer)

LEMMA FoundTyped ==
    ASSUME Typed, NEW r \in Request, NEW m \in Found(r)
    PROVE  m \in Message /\ m.src \in Source
<1>0. QueueTypes
  BY TypedParts
<1>1. ASSUME NEW s \in Source, FirstAccepted(r, s, m)
      PROVE  m \in Message
  <2>1. unexpected_frags[s] \in Seq(Message) /\ m \in Elements(unexpected_frags[s])
    BY <1>0, <1>1 DEF QueueTypes, FirstAccepted, Elements
  <2>. QED  BY <2>1, ElementsOf
<1>2. \E s \in Source : FirstAccepted(r, s, m)
  <2>1. CASE r.peer = AnySource
    BY <1>0, <2>1, WildIs DEF Found
  <2>2. CASE r.peer # AnySource
    BY <1>0, <2>2, SpecificIs, RequestIs DEF Found
  <2>. QED  BY <2>1, <2>2
<1>. QED  BY <1>1, <1>2, MessageIs

LEMMA FoundIs ==
    ASSUME Typed, OwnQueues, NEW r \in Request
    PROVE  /\ \A m \in Found(r) : /\ m \in Message /\ m.src \in Source
                                  /\ m \in Elements(unexpected_frags[m.src])
                                  /\ FirstAccepted(r, m.src, m)
           /\ \A m, u \in Found(r) : m = u
           /\ Found(r) = {} =>
                \A s \in Source : \A m \in Elements(unexpected_frags[s]) : ~Accepts(r, m)
<1>0. QueueTypes
  BY TypedParts
<1>1. ASSUME NEW s \in Source, NEW m, FirstAccepted(r, s, m)
      PROVE  /\ m \in Message /\ m.src = s
             /\ m \in Elements(unexpected_frags[s])
  <2>1. PICK i \in DOMAIN unexpected_frags[s] : m = unexpected_frags[s][i]
    BY <1>1 DEF FirstAccepted
  <2>2. m \in Elements(unexpected_frags[s])
    BY <2>1 DEF Elements
  <2>3. m.src = s
    BY <2>2 DEF OwnQueues
  <2>4. unexpected_frags[s] \in Seq(Message)
    BY <1>0 DEF QueueTypes
  <2>. QED  BY <2>2, <2>3, <2>4, ElementsOf
<1>2. CASE r.peer = AnySource
  <2>1. Found(r) = MatchWild(r)
    BY <1>2 DEF Found
  <2>2. \A m \in Found(r) : \E s \in Source : FirstAccepted(r, s, m)
    BY <1>0, <2>1, WildIs
  <2>3. /\ \A m, u \in Found(r) : m = u
        /\ Found(r) = {} =>
             \A s \in Source : \A m \in Elements(unexpected_frags[s]) : ~Accepts(r, m)
    BY <1>0, <2>1, WildIs
  <2>4. ASSUME NEW m \in Found(r)
        PROVE  /\ m \in Message /\ m.src \in Source
               /\ m \in Elements(unexpected_frags[m.src])
               /\ FirstAccepted(r, m.src, m)
    <3>1. PICK s \in Source : FirstAccepted(r, s, m)
      BY <2>2
    <3>. QED  BY <1>1, <3>1
  <2>. QED  BY <2>3, <2>4
<1>3. CASE r.peer # AnySource
  <2>1. r.peer \in Source /\ Found(r) = MatchSpecificProc(r, r.peer)
    BY <1>3, RequestIs DEF Found
  <2>2. \A m \in Found(r) : FirstAccepted(r, r.peer, m)
    BY <1>0, <2>1, SpecificIs
  <2>3. /\ \A m, u \in Found(r) : m = u
        /\ Found(r) = {} => \A m \in Elements(unexpected_frags[r.peer]) : ~Accepts(r, m)
    BY <1>0, <2>1, SpecificIs
  <2>4. ASSUME NEW m \in Found(r)
        PROVE  /\ m \in Message /\ m.src \in Source
               /\ m \in Elements(unexpected_frags[m.src])
               /\ FirstAccepted(r, m.src, m)
    BY <1>1, <2>1, <2>2
  <2>5. ASSUME NEW s \in Source, s # r.peer, NEW m \in Elements(unexpected_frags[s])
        PROVE  ~Accepts(r, m)
    <3>1. m.src = s
      BY <2>5 DEF OwnQueues
    <3>. QED  BY <1>3, <2>5, <3>1 DEF Accepts
  <2>. QED  BY <2>3, <2>4, <2>5
<1>. QED  BY <1>2, <1>3

\* mca_pml_ob1_recv_req_start() in these terms: the request is queued, or gets
\* or sees the message it found, or (MPI_Iprobe) found none.
Queues(r) ==
    /\ Found(r) = {} /\ r.type # "IPROBE"
    /\ \/ /\ r.peer = AnySource
          /\ wild_receives' = Append(wild_receives, r)
          /\ UNCHANGED specific_receives
       \/ /\ r.peer # AnySource
          /\ specific_receives' = [specific_receives EXCEPT ![r.peer] = Append(@, r)]
          /\ UNCHANGED wild_receives
    /\ UNCHANGED <<unexpected_frags, matchVars>>

Gets(r, m) ==
    /\ r.type = "RECV"
    /\ unexpected_frags' = [unexpected_frags EXCEPT ![m.src] = Without(@, {m})]
    /\ matched' = matched \cup {[req |-> r, msg |-> m]}
    /\ incomplete' = IF Long(m) THEN incomplete \cup {r} ELSE incomplete
    /\ UNCHANGED <<specific_receives, wild_receives, probed, unmarked>>

Sees(r, m) ==
    /\ r.type # "RECV"
    /\ probed' = probed \cup {[req |-> r, msg |-> m]}
    /\ UNCHANGED <<queueVars, matched, incomplete, unmarked>>

FindsNone(r) ==
    /\ Found(r) = {} /\ r.type = "IPROBE"
    /\ UNCHANGED <<queueVars, matchVars>>

LEMMA RecvReqStartIs ==
    ASSUME RecvReqStart
    PROVE  /\ comm /\ recv_sequence < MaxPosts /\ recv_sequence' = recv_sequence + 1
           /\ \E r \in Request :
                /\ r.no = recv_sequence + 1
                /\ \/ Queues(r) \/ FindsNone(r)
                   \/ \E m \in Found(r) : Gets(r, m) \/ Sees(r, m)
           /\ UNCHANGED <<sendVars, network, comm, pending, procVars, cancelled, corrupt,
                     threadVars>>
  BY DEF RecvReqStart, Found, Queues, Gets, Sees, FindsNone

LEMMA RecvTyped ==
    ASSUME Typed, RecvReqStart
    PROVE  Typed'
<1>0. RestTyped /\ SequenceTyped /\ ProcTyped /\ QueueTypes
  BY TypedParts
<1>1. /\ recv_sequence < MaxPosts /\ recv_sequence' = recv_sequence + 1
      /\ UNCHANGED <<sendVars, network, comm, pending, procVars, cancelled, corrupt,
                     threadVars>>
  BY RecvReqStartIs
<1>2. PICK r \in Request : \/ Queues(r) \/ FindsNone(r)
                           \/ \E m \in Found(r) : Gets(r, m) \/ Sees(r, m)
  BY RecvReqStartIs
<1>3. RestTyped'
  BY <1>0, <1>1 DEF RestTyped, sendVars, threadVars
<1>4. QueueTypes'
  <2>1. CASE Queues(r) /\ r.peer = AnySource
    <3>1. Append(wild_receives, r) \in Seq(Request)
      BY <1>0, AppendIs DEF QueueTypes
    <3>. QED  BY <1>0, <2>1, <3>1 DEF QueueTypes, Queues, matchVars
  <2>2. CASE Queues(r) /\ r.peer # AnySource
    <3>1. r.peer \in Source
      BY <2>2, RequestIs
    <3>2. Append(specific_receives[r.peer], r) \in Seq(Request)
      BY <1>0, <3>1, AppendIs DEF QueueTypes
    <3>. QED  BY <1>0, <2>2, <3>1, <3>2 DEF QueueTypes, Queues, matchVars
  <2>3. CASE FindsNone(r)
    BY <1>0, <2>3 DEF QueueTypes, FindsNone, queueVars, matchVars
  <2>4. ASSUME NEW m \in Found(r), Gets(r, m)
        PROVE  QueueTypes'
    <3>1. m \in Message /\ m.src \in Source
      BY FoundTyped
    <3>2. Without(unexpected_frags[m.src], {m}) \in Seq(Message)
      BY <1>0, <3>1, WithoutIs DEF QueueTypes
    <3>. QED  BY <1>0, <2>4, <3>1, <3>2 DEF QueueTypes, Gets
  <2>5. ASSUME NEW m \in Found(r), Sees(r, m)
        PROVE  QueueTypes'
    <3>1. m \in Message
      BY FoundTyped
    <3>. QED  BY <1>0, <2>5, <3>1 DEF QueueTypes, Sees, queueVars
  <2>. QED  BY <1>2, <2>1, <2>2, <2>3, <2>4, <2>5
<1>. QED  BY <1>0, <1>1, <1>3, <1>4, TypedSame
          DEF Typed, TypeOK, RestTyped, SequenceTyped, ProcTyped, QueueTypes

\* A cancelled receive leaves its queue, if it is there.
Leaves(r) ==
    /\ wild_receives' = Without(wild_receives, {r})
    /\ specific_receives' = [s \in Source |-> Without(specific_receives[s], {r})]

\* It had left it.
Breaks(r) ==
    \/ /\ wild_receives' \in Damaged(wild_receives, r)
       /\ UNCHANGED specific_receives
    \/ /\ r.peer # AnySource
       /\ \E q \in Damaged(specific_receives[r.peer], r) :
            specific_receives' = [specific_receives EXCEPT ![r.peer] = q]
       /\ UNCHANGED wild_receives

LEMMA CancelIs ==
    ASSUME Cancel
    PROVE  /\ \E r \in incomplete \cup Waiting :
                /\ cancelled' = cancelled \cup {r}
                /\ \/ Leaves(r) /\ UNCHANGED corrupt
                   \/ Breaks(r) /\ corrupt' = TRUE
           /\ UNCHANGED <<sendVars, network, comm, pending, procVars, unexpected_frags,
                          matchVars, recv_sequence, threadVars>>
  BY DEF Cancel, Leaves, Breaks

LEMMA DamagedType ==
    ASSUME QueueTypes, cancelled \subseteq Request,
           NEW q \in Seq(Request), NEW r, NEW f \in Damaged(q, r)
    PROVE  f \in Seq(Request)
<1>. DEFINE gone == {x \in cancelled \cup {e.req : e \in matched \cup probed} :
                        x.peer = r.peer}
<1>1. gone \subseteq Request
  <2>1. \A e \in matched \cup probed : e.req \in Request
    BY DEF QueueTypes
  <2>. QED  BY <2>1 DEF QueueTypes
<1>2. Elements(q) \subseteq Request
  BY ElementsOf
<1>3. f \in UNION {[1..k -> (Elements(q) \cup gone) \ {r}] : k \in 0..MaxPosts}
  BY DEF Damaged
<1>. HIDE DEF gone
<1>4. PICK k \in 0..MaxPosts : f \in [1..k -> (Elements(q) \cup gone) \ {r}]
  BY <1>3
<1>5. k \in Nat /\ f \in [1..k -> Request]
  BY <1>1, <1>2, <1>4
<1>. QED  BY <1>5

LEMMA WaitingType ==
    ASSUME QueueTypes
    PROVE  /\ Waiting \subseteq Request
           /\ Elements(wild_receives) \subseteq Waiting
           /\ \A s \in Source : Elements(specific_receives[s]) \subseteq Waiting
  BY ElementsOf DEF QueueTypes, Waiting

LEMMA CancelTyped ==
    ASSUME Typed, Cancel
    PROVE  Typed'
<1>0. RestTyped /\ SequenceTyped /\ ProcTyped /\ QueueTypes
  BY TypedParts
<1>1. PICK r \in incomplete \cup Waiting :
        /\ cancelled' = cancelled \cup {r}
        /\ \/ Leaves(r) /\ UNCHANGED corrupt
           \/ Breaks(r) /\ corrupt' = TRUE
  BY CancelIs
<1>2. UNCHANGED <<sendVars, network, comm, pending, procVars, unexpected_frags,
                  matchVars, recv_sequence, threadVars>>
  BY CancelIs
<1>3. r \in Request /\ cancelled \subseteq Request
  BY <1>0, WaitingType DEF QueueTypes, RestTyped
<1>4. specific_receives' \in [Source -> Seq(Request)] /\ wild_receives' \in Seq(Request)
  <2>1. CASE Leaves(r)
    <3>1. Without(wild_receives, {r}) \in Seq(Request)
      BY <1>0, WithoutIs DEF QueueTypes
    <3>2. \A s \in Source : Without(specific_receives[s], {r}) \in Seq(Request)
      BY <1>0, WithoutIs DEF QueueTypes
    <3>. QED  BY <2>1, <3>1, <3>2 DEF Leaves
  <2>2. CASE wild_receives' \in Damaged(wild_receives, r) /\ UNCHANGED specific_receives
    BY <1>0, <1>3, <2>2, DamagedType DEF QueueTypes
  <2>3. ASSUME r.peer # AnySource, UNCHANGED wild_receives,
               NEW q \in Damaged(specific_receives[r.peer], r),
               specific_receives' = [specific_receives EXCEPT ![r.peer] = q]
        PROVE  specific_receives' \in [Source -> Seq(Request)] /\ wild_receives' \in Seq(Request)
    <3>1. r.peer \in Source
      BY <1>3, <2>3, RequestIs
    <3>2. q \in Seq(Request)
      BY <1>0, <1>3, <3>1, DamagedType DEF QueueTypes
    <3>. QED  BY <1>0, <2>3, <3>1, <3>2 DEF QueueTypes
  <2>. QED  BY <1>1, <2>1, <2>2, <2>3 DEF Breaks
<1>5. corrupt' \in BOOLEAN
  <2>1. CASE corrupt' = corrupt
    BY Zenon, <1>0, <2>1 DEF RestTyped
  <2>2. CASE corrupt' = TRUE
    BY Zenon, <2>2
  <2>. QED  BY Zenon, <1>1, <2>1, <2>2
<1>6. QueueTypes'
  BY <1>0, <1>2, <1>4 DEF QueueTypes, matchVars
<1>7. RestTyped'
  BY <1>0, <1>1, <1>2, <1>3, <1>5 DEF RestTyped, sendVars, threadVars
<1>. QED  BY <1>0, <1>2, <1>6, <1>7, TypedSame
          DEF Typed, TypeOK, RestTyped, SequenceTyped, ProcTyped, QueueTypes

LEMMA CompleteTyped ==
    ASSUME Typed, PmlComplete \/ \E t \in Thread : MarkMatched(t)
    PROVE  Typed'
<1>0. RestTyped /\ SequenceTyped /\ ProcTyped /\ QueueTypes
  BY TypedParts
<1>1. /\ UNCHANGED <<sendVars, network, comm, pending, procVars, queueVars, matched,
                     probed, requestVars, threadVars>>
      /\ incomplete' \subseteq incomplete
      /\ \/ UNCHANGED unmarked
         \/ \E t \in Thread : unmarked' = [unmarked EXCEPT ![t] = {}]
  BY DEF PmlComplete, MarkMatched
<1>2. QueueTypes'
  BY <1>0, <1>1 DEF QueueTypes, queueVars
<1>3. RestTyped'
  BY <1>0, <1>1 DEF RestTyped, sendVars, requestVars, threadVars
<1>. QED  BY <1>0, <1>1, <1>2, <1>3, TypedSame
          DEF Typed, TypeOK, RestTyped, SequenceTyped, ProcTyped, QueueTypes

\* Every step keeps the types, also when a queue is broken.
LEMMA TypedNext == Typed /\ [Next]_vars => Typed'
<1>. SUFFICES ASSUME Typed, [Next]_vars PROVE Typed'
  OBVIOUS
<1>1. CASE UNCHANGED vars
  BY <1>1 DEF Typed, TypeOK, vars, sendVars, procVars, queueVars, matchVars, requestVars,
              threadVars
<1>. QED  BY <1>1, SendTyped, CallbackTyped, FragMatchTyped, DrainTyped, AddCommTyped,
             RecvTyped, CompleteTyped, CancelTyped DEF Next

----------------------------------------------------------------------------
(* What a step does to the messages *)

\* The thread t takes up a message.
LEMMA HandTakes ==
    ASSUME RestTyped, NEW t \in Thread, NEW m, pc[t] = "idle",
           pc' = [pc EXCEPT ![t] = "match"], hand' = [hand EXCEPT ![t] = m]
    PROVE  InHand' = InHand \cup {m}
<1>1. pc \in [Thread -> {"idle", "match", "drain"}] /\ DOMAIN hand = Thread
  BY DEF RestTyped
<1>2. /\ pc'[t] = "match" /\ hand'[t] = m
      /\ \A u \in Thread : u # t => pc'[u] = pc[u] /\ hand'[u] = hand[u]
  BY <1>1
<1>. QED  BY <1>2 DEF InHand

\* It lets it go.
LEMMA HandDrops ==
    ASSUME RestTyped, Apart, NEW t \in Thread, pc[t] = "match",
           pc'[t] # "match",
           \A u \in Thread : u # t => pc'[u] = pc[u] /\ hand'[u] = hand[u]
    PROVE  InHand' = InHand \ {hand[t]}
<1>1. \A u \in Thread : u # t /\ pc[u] = "match" => hand[u] # hand[t]
  BY DEF Apart
<1>2. \A x : x \in InHand' <=> \E u \in Thread : u # t /\ pc[u] = "match" /\ hand[u] = x
  BY DEF InHand
<1>3. \A x : x \in InHand <=> \E u \in Thread : pc[u] = "match" /\ hand[u] = x
  BY DEF InHand
<1>. QED  BY <1>1, <1>2, <1>3

\* The message m is taken: its turn has come.
Takes(m) ==
    /\ comm /\ m \in InTransit /\ hdr_seq(m) = expected_sequence[m.src]
    /\ Advance(m.src) /\ Matches(m)
    /\ InTransit' = InTransit \ {m}
    /\ UNCHANGED <<sendVars, comm, pending, requestVars>>

\* A message goes on, and none is taken.
Moves ==
    /\ InTransit' = InTransit
    /\ UNCHANGED <<sendVars, comm, queueVars, matchVars, expected_sequence, requestVars>>

\* Where the messages in transit are.
LEMMA InTransitIs ==
    /\ \A m : m \in InTransit <=> \/ m \in network \/ m \in InHand
                                  \/ m \in Elements(pending)
                                  \/ \E s \in Source : m \in Ahead(s)
    /\ \A m : m \in InTransit' <=> \/ m \in network' \/ m \in InHand'
                                   \/ m \in Elements(pending)'
                                   \/ \E s \in Source : m \in Ahead(s)'
  BY DEF InTransit

LEMMA NothingPending == Elements(<<>>) = {}
  BY DEF Elements

Known == Typed /\ Beginning /\ Apart /\ OwnQueues

LEMMA InTransitType ==
    ASSUME Typed
    PROVE  InTransit \subseteq Message
<1>1. \A s \in Source : Ahead(s) \subseteq Message
  BY ElementsOf DEF Typed, TypeOK, Ahead
<1>2. Elements(pending) \subseteq Message
  BY ElementsOf DEF Typed, TypeOK
<1>3. InHand \subseteq Message
  BY DEF Typed, InHand
<1>. QED  BY <1>1, <1>2, <1>3 DEF InTransit, Typed, TypeOK

LEMMA CallbackIs ==
    ASSUME Known, NEW t \in Thread, Callback(t)
    PROVE  Moves \/ \E m \in network : Takes(m) /\ InTurn(m)
                                      /\ UNCHANGED <<frags_cant_match, threadVars>>
<1>0. RestTyped /\ ProcTyped
  BY TypedParts DEF Known
<1>1. PICK m \in network :
        /\ network' = network \ {m}
        /\ \/ /\ ~comm
              /\ pending' = Append(pending, m)
              /\ UNCHANGED <<procVars, queueVars, matchVars, threadVars>>
           \/ /\ comm /\ ~Long(m) /\ InTurn(m)
              /\ Advance(m.src)
              /\ Matches(m)
              /\ UNCHANGED <<pending, frags_cant_match, threadVars>>
           \/ /\ pc' = [pc EXCEPT ![t] = "match"]
              /\ hand' = [hand EXCEPT ![t] = m]
              /\ UNCHANGED <<pending, procVars, queueVars, matchVars>>
  BY DEF Callback, Matches
<1>2. pc[t] = "idle" /\ UNCHANGED <<sendVars, comm, requestVars>>
  BY DEF Callback, Matches
<1>3. m \in Message /\ m.src \in Source
  BY <1>0, MessageIs DEF RestTyped
<1>4. CASE /\ pending' = Append(pending, m)
           /\ UNCHANGED <<procVars, queueVars, matchVars, threadVars>>
  <2>1. Elements(pending)' = Elements(pending) \cup {m}
    <3>1. Elements(Append(pending, m)) = Elements(pending) \cup {m}
      BY <1>0, <1>3, AppendIs DEF RestTyped
    <3>. QED  BY <1>4, <3>1
  <2>2. InHand' = InHand /\ \A s \in Source : Ahead(s)' = Ahead(s)
    BY <1>4 DEF InHand, Ahead, threadVars, procVars, Elements
  <2>3. InTransit' = InTransit
    <3>1. \A x : x \in InTransit' => x \in InTransit
      BY <1>1, <2>1, <2>2, InTransitIs
    <3>2. \A x : x \in InTransit => x \in InTransit'
      BY <1>1, <2>1, <2>2, InTransitIs
    <3>. QED  BY <3>1, <3>2
  <2>. QED  BY <1>2, <1>4, <2>3 DEF Moves, procVars
<1>5. CASE /\ comm /\ InTurn(m)
           /\ Advance(m.src)
           /\ Matches(m)
           /\ UNCHANGED <<pending, frags_cant_match, threadVars>>
  <2>1. /\ InHand' = InHand /\ (\A s \in Source : Ahead(s)' = Ahead(s))
        /\ Elements(pending)' = Elements(pending)
    BY <1>5 DEF InHand, Ahead, threadVars, Elements
  <2>2. m \notin InHand /\ m \notin Elements(pending)
    BY DEF Known, Apart
  <2>3. \A s \in Source : m \notin Ahead(s)
    BY DEF Known, Apart
  <2>4. InTransit' = InTransit \ {m}
    BY <1>1, <2>1, <2>2, <2>3, InTransitIs
  <2>5. m \in InTransit
    BY InTransitIs
  <2>. QED  BY <1>2, <1>5, <2>4, <2>5 DEF Takes, InTurn
<1>6. CASE /\ pc' = [pc EXCEPT ![t] = "match"]
           /\ hand' = [hand EXCEPT ![t] = m]
           /\ UNCHANGED <<pending, procVars, queueVars, matchVars>>
  <2>1. InHand' = InHand \cup {m}
    BY <1>0, <1>2, <1>6, HandTakes
  <2>2. /\ \A s \in Source : Ahead(s)' = Ahead(s)
        /\ Elements(pending)' = Elements(pending)
    BY <1>6 DEF Ahead, procVars, Elements
  <2>3. InTransit' = InTransit
    <3>1. \A x : x \in InTransit' => x \in InTransit
      BY <1>1, <2>1, <2>2, InTransitIs
    <3>2. \A x : x \in InTransit => x \in InTransit'
      BY <1>1, <2>1, <2>2, InTransitIs
    <3>. QED  BY <3>1, <3>2
  <2>. QED  BY <1>2, <1>6, <2>3 DEF Moves, procVars
<1>. QED  BY <1>1, <1>4, <1>5, <1>6

LEMMA BusyIs ==
    ASSUME Known, NEW t \in Thread, pc[t] # "idle"
    PROVE  /\ comm /\ pending = <<>>
           /\ hand[t] \in Message /\ hand[t].src \in Source
<1>1. hand[t] \in Message
  BY DEF Known, Typed
<1>. QED  BY <1>1, MessageIs DEF Known, Beginning

LEMMA FragMatchIs ==
    ASSUME Known, NEW t \in Thread, FragMatch(t)
    PROVE  \/ /\ Moves
              /\ hdr_seq(hand[t]) # expected_sequence[hand[t].src]
              /\ frags_cant_match' = [frags_cant_match EXCEPT ![hand[t].src] =
                                        Append(@, hand[t])]
              /\ pc' = [pc EXCEPT ![t] = "idle"]
           \/ /\ Takes(hand[t]) /\ UNCHANGED <<frags_cant_match, hand, network>>
              /\ pc' = [pc EXCEPT ![t] = "drain"]
<1>0. RestTyped /\ ProcTyped
  BY TypedParts DEF Known
<1>1. PICK m : m = hand[t]
  OBVIOUS
<1>2. pc[t] = "match" /\ UNCHANGED <<sendVars, network, comm, pending, requestVars>>
  BY DEF FragMatch, Matches
<1>3. comm /\ pending = <<>> /\ m \in Message /\ m.src \in Source
  BY <1>1, <1>2, BusyIs
<1>4. m \in InHand
  BY <1>1, <1>2 DEF InHand
<1>5. m \notin network /\ m \notin Elements(pending)
  BY <1>3, <1>4, NothingPending DEF Known, Apart
<1>6. \A s \in Source : m \notin Ahead(s)
  BY <1>4 DEF Known, Apart
<1>7. Elements(pending)' = Elements(pending)
  BY <1>2 DEF Elements
<1>8. CASE /\ hdr_seq(m) = expected_sequence[m.src]
           /\ Advance(m.src) /\ Matches(m)
           /\ pc' = [pc EXCEPT ![t] = "drain"]
           /\ UNCHANGED <<frags_cant_match, hand>>
  <2>1. InHand' = InHand \ {m}
    <3>1. /\ pc'[t] # "match"
          /\ \A u \in Thread : u # t => pc'[u] = pc[u] /\ hand'[u] = hand[u]
      BY <1>0, <1>8 DEF RestTyped
    <3>. QED  BY <1>0, <1>1, <1>2, <3>1, HandDrops DEF Known
  <2>2. \A s \in Source : Ahead(s)' = Ahead(s)
    BY <1>8 DEF Ahead, Elements
  <2>3. InTransit' = InTransit \ {m}
    BY <1>2, <1>5, <1>6, <1>7, <2>1, <2>2, InTransitIs
  <2>4. m \in InTransit
    BY <1>4, InTransitIs
  <2>. QED  BY <1>1, <1>2, <1>3, <1>8, <2>3, <2>4 DEF Takes
<1>9. CASE /\ hdr_seq(m) # expected_sequence[m.src]
           /\ frags_cant_match' = [frags_cant_match EXCEPT ![m.src] = Append(@, m)]
           /\ pc' = [pc EXCEPT ![t] = "idle"]
           /\ hand' = [hand EXCEPT ![t] = NoMsg]
           /\ UNCHANGED <<expected_sequence, queueVars, matchVars>>
  <2>1. InHand' = InHand \ {m}
    <3>1. /\ pc'[t] # "match"
          /\ \A u \in Thread : u # t => pc'[u] = pc[u] /\ hand'[u] = hand[u]
      BY <1>0, <1>9 DEF RestTyped
    <3>. QED  BY <1>0, <1>1, <1>2, <3>1, HandDrops DEF Known
  <2>2. \A s \in Source : Ahead(s)' = IF s = m.src THEN Ahead(s) \cup {m} ELSE Ahead(s)
    <3>1. Elements(Append(frags_cant_match[m.src], m)) =
            Elements(frags_cant_match[m.src]) \cup {m}
      BY <1>0, <1>3, AppendIs DEF ProcTyped
    <3>2. \A s \in Source : frags_cant_match'[s] =
            IF s = m.src THEN Append(frags_cant_match[s], m) ELSE frags_cant_match[s]
      BY <1>0, <1>9 DEF ProcTyped
    <3>. TAKE s \in Source
    <3>3. Ahead(s)' = Elements(frags_cant_match'[s])
      BY DEF Ahead, Elements
    <3>. QED  BY <3>1, <3>2, <3>3 DEF Ahead
  <2>3. InTransit' = InTransit
    <3>1. \A x : x \in InTransit' => x \in InTransit
      BY <1>2, <1>4, <1>7, <2>1, <2>2, InTransitIs
    <3>2. ASSUME NEW x \in InTransit PROVE x \in InTransit'
      <4>1. CASE x = m
        <5>1. x \in Ahead(m.src)'
          BY <1>3, <2>2, <4>1
        <5>. QED  BY <1>3, <5>1, InTransitIs
      <4>2. CASE x # m
        BY <1>2, <1>7, <2>1, <2>2, <4>2, InTransitIs
      <4>. QED  BY <4>1, <4>2
    <3>. QED  BY <3>1, <3>2
  <2>. QED  BY <1>1, <1>2, <1>9, <2>3 DEF Moves
<1>. QED  BY <1>1, <1>8, <1>9 DEF FragMatch, Matches

LEMMA DrainIs ==
    ASSUME Known, NEW t \in Thread, Drain(t)
    PROVE  \/ /\ Moves /\ CanMatch(hand[t].src) = {}
              /\ UNCHANGED <<frags_cant_match, network>>
              /\ pc' = [pc EXCEPT ![t] = "idle"]
              /\ InHand' = InHand
           \/ \E m \in Ahead(hand[t].src) :
                /\ Takes(m) /\ UNCHANGED <<threadVars, network>>
                /\ m.src = hand[t].src
                /\ frags_cant_match' = [frags_cant_match EXCEPT ![m.src] = Without(@, {m})]
<1>0. RestTyped /\ ProcTyped
  BY TypedParts DEF Known
<1>1. PICK s : s = hand[t].src
  OBVIOUS
<1>2. pc[t] = "drain" /\ UNCHANGED <<sendVars, network, comm, pending, requestVars>>
  BY DEF Drain, Matches
<1>3. comm /\ pending = <<>> /\ s \in Source
  BY <1>1, <1>2, BusyIs
<1>7. Elements(pending)' = Elements(pending)
  BY <1>2 DEF Elements
<1>8. ASSUME NEW i \in CanMatch(s),
             frags_cant_match' = [frags_cant_match EXCEPT ![s] =
                 Without(@, {frags_cant_match[s][i]})],
             Advance(s), Matches(frags_cant_match[s][i]), UNCHANGED threadVars
      PROVE  \E m \in Ahead(s) :
                /\ Takes(m) /\ UNCHANGED <<threadVars, network>> /\ m.src = s
                /\ frags_cant_match' = [frags_cant_match EXCEPT ![m.src] = Without(@, {m})]
  <2>1. PICK m : m = frags_cant_match[s][i]
    OBVIOUS
  <2>2. m \in Ahead(s) /\ hdr_seq(m) = expected_sequence[s]
    BY <2>1 DEF CanMatch, Ahead, Elements
  <2>3. m.src = s
    BY <1>3, <2>2 DEF Known, OwnQueues
  <2>4. m \notin network /\ m \notin InHand /\ m \notin Elements(pending)
    BY <1>3, <2>2, NothingPending DEF Known, Apart
  <2>5. \A u \in Source : u # s => m \notin Ahead(u)
    BY <2>3 DEF Known, OwnQueues
  <2>6. \A u \in Source : Ahead(u)' = IF u = s THEN Ahead(u) \ {m} ELSE Ahead(u)
    <3>1. Elements(Without(frags_cant_match[s], {m})) = Elements(frags_cant_match[s]) \ {m}
      BY <1>0, <1>3, WithoutIs DEF ProcTyped
    <3>2. \A u \in Source : frags_cant_match'[u] =
            IF u = s THEN Without(frags_cant_match[u], {m}) ELSE frags_cant_match[u]
      BY <1>0, <1>8, <2>1 DEF ProcTyped
    <3>. TAKE u \in Source
    <3>3. Ahead(u)' = Elements(frags_cant_match'[u])
      BY DEF Ahead, Elements
    <3>. QED  BY <3>1, <3>2, <3>3 DEF Ahead
  <2>7. InHand' = InHand
    BY <1>8 DEF InHand, threadVars
  <2>8. InTransit' = InTransit \ {m}
    BY <1>2, <1>7, <2>4, <2>5, <2>6, <2>7, InTransitIs
  <2>9. m \in InTransit
    BY <1>3, <2>2, InTransitIs
  <2>10. Takes(m)
    BY <1>2, <1>3, <1>8, <2>1, <2>2, <2>3, <2>8, <2>9 DEF Takes
  <2>. QED  BY <1>2, <1>8, <2>1, <2>2, <2>3, <2>10
<1>9. CASE /\ CanMatch(s) = {}
           /\ pc' = [pc EXCEPT ![t] = "idle"]
           /\ hand' = [hand EXCEPT ![t] = NoMsg]
           /\ UNCHANGED <<procVars, queueVars, matchVars>>
  <2>1. InHand' = InHand
    <3>1. /\ pc'[t] = "idle" /\ pc[t] = "drain"
          /\ \A u \in Thread : u # t => pc'[u] = pc[u] /\ hand'[u] = hand[u]
      BY <1>0, <1>2, <1>9 DEF RestTyped
    <3>. QED  BY <3>1 DEF InHand
  <2>2. \A u \in Source : Ahead(u)' = Ahead(u)
    BY <1>9 DEF Ahead, Elements, procVars
  <2>3. InTransit' = InTransit
    <3>1. \A x : x \in InTransit' => x \in InTransit
      BY <1>2, <1>7, <2>1, <2>2, InTransitIs
    <3>2. \A x : x \in InTransit => x \in InTransit'
      BY <1>2, <1>7, <2>1, <2>2, InTransitIs
    <3>. QED  BY <3>1, <3>2
  <2>. QED  BY <1>1, <1>2, <1>9, <2>1, <2>3 DEF Moves, procVars
<1>10. \/ \E i \in CanMatch(s) :
            /\ frags_cant_match' = [frags_cant_match EXCEPT ![s] =
                 Without(@, {frags_cant_match[s][i]})]
            /\ Advance(s) /\ Matches(frags_cant_match[s][i]) /\ UNCHANGED threadVars
       \/ /\ CanMatch(s) = {}
          /\ pc' = [pc EXCEPT ![t] = "idle"]
          /\ hand' = [hand EXCEPT ![t] = NoMsg]
          /\ UNCHANGED <<procVars, queueVars, matchVars>>
  BY <1>1 DEF Drain, Matches
<1>. QED  BY <1>1, <1>8, <1>9, <1>10

----------------------------------------------------------------------------
(* Messages are taken in their turn *)

\* A message that is matched is one more of those taken.
LEMMA MatchOneTaken ==
    ASSUME QueueTypes, NEW m \in Message, Matches(m)
    PROVE  \A s \in Source :
             Taken(s)' = IF s = m.src THEN Taken(s) \cup {m} ELSE Taken(s)
<1>1. m.src \in Source
  BY MessageIs
<1>. DEFINE got == {p.msg : p \in matched}
<1>2. \A s \in Source : \A x : x \in Taken(s) <=>
        (x \in Elements(unexpected_frags[s]) \/ x \in got) /\ x.src = s
  BY DEF Taken
<1>3. \A s \in Source : \A x : x \in Taken(s)' <=>
        (x \in Elements(unexpected_frags'[s]) \/ x \in got') /\ x.src = s
  BY DEF Taken, Elements
<1>4. CASE Getting(m) # {}
  <2>1. unexpected_frags' = unexpected_frags
    BY <1>4, MatchOneIs
  <2>2. got' = got \cup {m}
    <3>1. matched' = matched \cup {[req |-> r, msg |-> m] : r \in Getting(m)}
      BY MatchOneIs
    <3>2. \A x : x \in got' <=> \E p \in matched' : x = p.msg
      OBVIOUS
    <3>3. \A x : x \in got <=> \E p \in matched : x = p.msg
      OBVIOUS
    <3>. HIDE DEF got
    <3>4. PICK r0 \in Getting(m) : TRUE
      BY <1>4
    <3>5. [req |-> r0, msg |-> m] \in matched'
      BY <3>1
    <3>6. \A p \in matched' : p \in matched \/ p.msg = m
      BY <3>1
    <3>7. matched \subseteq matched'
      BY <3>1
    <3>8. m \in got'
      BY <3>2, <3>5
    <3>9. \A x \in got' : x \in got \/ x = m
      BY <3>2, <3>3, <3>6
    <3>10. got \subseteq got'
      BY <3>2, <3>3, <3>7
    <3>. QED  BY <3>8, <3>9, <3>10
  <2>. HIDE DEF got
  <2>. TAKE s \in Source
  <2>3. \A x : x \in Taken(s)' <=> (x \in Taken(s) \/ (x = m /\ m.src = s))
    BY <1>2, <1>3, <2>1, <2>2
  <2>. QED  BY <2>3
<1>5. CASE Getting(m) = {}
  <2>1. got' = got
    <3>1. matched' = matched \cup {[req |-> r, msg |-> m] : r \in Getting(m)}
      BY MatchOneIs
    <3>2. matched' = matched
      BY <1>5, <3>1
    <3>. QED  BY <3>2
  <2>2. unexpected_frags' = [unexpected_frags EXCEPT ![m.src] = Append(@, m)]
    BY <1>5, MatchOneIs
  <2>3. Elements(Append(unexpected_frags[m.src], m)) =
          Elements(unexpected_frags[m.src]) \cup {m}
    BY <1>1, AppendIs DEF QueueTypes
  <2>. HIDE DEF got
  <2>. TAKE s \in Source
  <2>4. unexpected_frags'[s] = IF s = m.src THEN Append(unexpected_frags[s], m)
                               ELSE unexpected_frags[s]
    BY <2>2 DEF QueueTypes
  <2>5. \A x : x \in Taken(s)' <=> (x \in Taken(s) \/ (x = m /\ m.src = s))
    BY <1>2, <1>3, <2>1, <2>3, <2>4
  <2>. QED  BY <2>5
<1>. QED  BY <1>4, <1>5

LEMMA CountType ==
    ASSUME FirstTaken, NEW s \in Source
    PROVE  Count(s) \in Nat
  BY FS_CardinalityType DEF FirstTaken, Count

LEMMA UntakenType ==
    ASSUME Typed
    PROVE  Untaken \subseteq Message
  BY InTransitType DEF Untaken, Typed, TypeOK

\* The low bits tell which message is expected.
LEMMA Turn ==
    ASSUME Typed, FirstTaken, OthersAhead, NEW m \in InTransit,
           hdr_seq(m) = expected_sequence[m.src]
    PROVE  m.n = First + Count(m.src) + 1
<1>1. m \in Message /\ m.src \in Source /\ m.n \in Nat
  BY InTransitType, MessageIs
<1>2. PICK k \in Nat : k = Count(m.src)
  BY <1>1, CountType
<1>3. /\ expected_sequence[m.src] = (First + k + 1) % SeqSpace
      /\ send_sequence[m.src] \in First + k..First + k + MaxAhead
  BY <1>1, <1>2 DEF FirstTaken
<1>4. m.n \in First + k + 1..send_sequence[m.src]
  BY <1>2 DEF OthersAhead, Untaken
<1>5. m.n % SeqSpace = (First + k + 1) % SeqSpace
  BY <1>3 DEF hdr_seq
<1>6. PICK b \in Nat : b = First + k + 1
  OBVIOUS
<1>7. b <= m.n /\ m.n - b < SeqSpace
  BY <1>3, <1>4, <1>6
<1>8. m.n = b
  BY <1>1, <1>5, <1>6, <1>7, SameLowBits
<1>. QED  BY <1>2, <1>6, <1>8

\* Nothing that was taken is untaken.
LEMMA TakenIsNot ==
    ASSUME Typed, FirstTaken, OthersAhead, NEW s \in Source, NEW m \in Taken(s)
    PROVE  m \notin Untaken
<1>1. m.src = s
  BY DEF Taken
<1>2. Count(s) \in Nat
  BY CountType
<1>3. m.n \in {u.n : u \in Taken(s)}
  OBVIOUS
<1>4. m.n \in First + 1..First + Count(s)
  BY <1>3 DEF FirstTaken
<1>. QED  BY <1>1, <1>2, <1>4 DEF OthersAhead

LEMMA TakesMessages ==
    ASSUME Typed, FirstTaken, OthersAhead, failed \cap InTransit = {},
           NEW m, Takes(m)
    PROVE  /\ FirstTaken' /\ OthersAhead'
           /\ Taken(m.src)' = Taken(m.src) \cup {m} /\ m \notin Taken(m.src)
           /\ \A s \in Source : s # m.src => Taken(s)' = Taken(s)
           /\ \A u \in Taken(m.src) : u.n < m.n
           /\ m \in Message /\ m.src \in Source
<1>0. m \in InTransit /\ m \in Message /\ m.src \in Source /\ m.n \in Nat
  BY InTransitType, MessageIs DEF Takes
<1>1. PICK k \in Nat : k = Count(m.src)
  BY <1>0, CountType
<1>2. m.n = First + k + 1
  BY <1>0, <1>1, Turn DEF Takes
<1>3. \A s \in Source : Taken(s)' = IF s = m.src THEN Taken(s) \cup {m} ELSE Taken(s)
  BY <1>0, MatchOneTaken, TypedParts DEF Takes
<1>4. m \notin Taken(m.src)
  BY <1>0, TakenIsNot DEF Untaken
<1>5. /\ IsFiniteSet(Taken(m.src)) /\ {u.n : u \in Taken(m.src)} = First + 1..First + k
      /\ \A u, v \in Taken(m.src) : u.n = v.n => u = v
      /\ expected_sequence[m.src] = (First + k + 1) % SeqSpace
      /\ send_sequence[m.src] \in First + k..First + k + MaxAhead
  BY <1>0, <1>1 DEF FirstTaken
<1>6. IsFiniteSet(Taken(m.src)') /\ Count(m.src)' = k + 1
  <2>1. Taken(m.src)' = Taken(m.src) \cup {m}
    BY <1>0, <1>3
  <2>2. Cardinality(Taken(m.src) \cup {m}) = k + 1 /\ IsFiniteSet(Taken(m.src) \cup {m})
    BY <1>1, <1>4, <1>5, FS_AddElement DEF Count
  <2>. QED  BY <2>1, <2>2 DEF Count
<1>7. \A u \in Taken(m.src) : u.n \in First + 1..First + k
  BY <1>5
<1>8. \A u \in Taken(m.src) : u.n < m.n
  BY <1>2, <1>7
<1>9. m.n <= send_sequence[m.src] /\ send_sequence' = send_sequence /\ failed' = failed
  BY <1>0 DEF OthersAhead, Untaken, Takes, sendVars
<1>10. Untaken' = Untaken \ {m}
  BY <1>0, <1>9 DEF Untaken, Takes
<1>11. FirstTaken'
  <2>1. ASSUME NEW s \in Source, s # m.src
        PROVE  /\ Taken(s)' = Taken(s) /\ Count(s)' = Count(s)
               /\ expected_sequence'[s] = expected_sequence[s]
               /\ send_sequence'[s] = send_sequence[s]
    BY <1>0, <1>3, <1>9, <2>1 DEF Takes, Advance, Count, Typed, TypeOK
  <2>2. {u.n : u \in Taken(m.src)'} = First + 1..First + (k + 1)
    <3>1. First + 1..First + (k + 1) = (First + 1..First + k) \cup {m.n}
      BY <1>2
    <3>2. {u.n : u \in Taken(m.src) \cup {m}} = {u.n : u \in Taken(m.src)} \cup {m.n}
      OBVIOUS
    <3>3. Taken(m.src)' = Taken(m.src) \cup {m}
      BY <1>0, <1>3
    <3>. QED  BY <1>5, <3>1, <3>2, <3>3
  <2>3. \A u, v \in Taken(m.src)' : u.n = v.n => u = v
    <3>1. \A u \in Taken(m.src)' : u = m \/ (u \in Taken(m.src) /\ u.n # m.n)
      BY <1>0, <1>2, <1>3, <1>7
    <3>. QED  BY <1>5, <3>1
  <2>4. expected_sequence'[m.src] = (First + (k + 1) + 1) % SeqSpace
    <3>1. expected_sequence'[m.src] = (expected_sequence[m.src] + 1) % SeqSpace
      BY <1>0 DEF Takes, Advance, Typed, TypeOK
    <3>2. PICK b \in Nat : b = First + k + 1
      OBVIOUS
    <3>3. ((b % SeqSpace) + 1) % SeqSpace = (b + 1) % SeqSpace
      BY AddLowBits
    <3>4. b + 1 = First + (k + 1) + 1
      BY <3>2
    <3>. QED  BY <1>5, <3>1, <3>2, <3>3, <3>4
  <2>5. send_sequence'[m.src] \in First + (k + 1)..First + (k + 1) + MaxAhead
    BY <1>2, <1>5, <1>9
  <2>. SUFFICES ASSUME NEW s \in Source
                PROVE  /\ IsFiniteSet(Taken(s)')
                       /\ {u.n : u \in Taken(s)'} = First + 1..First + Count(s)'
                       /\ \A u, v \in Taken(s)' : u.n = v.n => u = v
                       /\ expected_sequence'[s] = (First + Count(s)' + 1) % SeqSpace
                       /\ send_sequence'[s] \in First + Count(s)'..First + Count(s)' + MaxAhead
    BY DEF FirstTaken
  <2>6. CASE s = m.src
    BY <1>6, <2>2, <2>3, <2>4, <2>5, <2>6
  <2>7. CASE s # m.src
    BY <2>1, <2>7 DEF FirstTaken
  <2>. QED  BY <2>6, <2>7
<1>12. OthersAhead'
  <2>0. \A s \in Source : Count(s)' = IF s = m.src THEN k + 1 ELSE Count(s)
    BY <1>3, <1>6 DEF Count
  <2>1. ASSUME NEW u \in Untaken, u # m
        PROVE  u.n \in First + Count(u.src)' + 1..send_sequence'[u.src]
    <3>1. u \in Message /\ u.src \in Source
      BY UntakenType, MessageIs
    <3>2. u.n \in First + Count(u.src) + 1..send_sequence[u.src]
      BY DEF OthersAhead
    <3>3. CASE u.src = m.src
      <4>1. u.n # m.n
        BY <1>0, <2>1, <3>3 DEF OthersAhead, Untaken
      <4>2. u.n \in First + k + 1..send_sequence[u.src]
        BY <1>1, <3>2, <3>3
      <4>3. Count(u.src)' = k + 1
        BY <2>0, <3>1, <3>3
      <4>. QED  BY <1>2, <1>9, <4>1, <4>2, <4>3
    <3>4. CASE u.src # m.src
      BY <1>9, <2>0, <3>1, <3>2, <3>4
    <3>. QED  BY <3>3, <3>4
  <2>2. ASSUME NEW s \in Source, NEW n \in First + Count(s)' + 1..send_sequence'[s]
        PROVE  \E u \in Untaken' : u.src = s /\ u.n = n
    <3>0. send_sequence[s] \in Nat /\ Count(s) \in Nat
      BY CountType DEF Typed
    <3>1. n \in First + Count(s) + 1..send_sequence[s] /\ (s = m.src => n # m.n)
      <4>1. CASE s = m.src
        <5>1. Count(s)' = k + 1 /\ Count(s) = k
          BY <1>1, <2>0, <4>1
        <5>. QED  BY <1>2, <1>9, <3>0, <4>1, <5>1
      <4>2. CASE s # m.src
        <5>1. Count(s)' = Count(s)
          BY <2>0, <4>2
        <5>. QED  BY <1>9, <4>2, <5>1
      <4>. QED  BY <4>1, <4>2
    <3>2. PICK u \in Untaken : u.src = s /\ u.n = n
      BY <3>1 DEF OthersAhead
    <3>. QED  BY <1>10, <3>1, <3>2
  <2>3. \A u, v \in Untaken' : u.src = v.src /\ u.n = v.n => u = v
    BY <1>10 DEF OthersAhead
  <2>. QED  BY <1>10, <2>1, <2>2, <2>3 DEF OthersAhead
<1>. QED  BY <1>0, <1>3, <1>4, <1>8, <1>11, <1>12

\* A step that takes nothing and sends nothing.
LEMMA SameMessages ==
    ASSUME Typed, FirstTaken, OthersAhead, UNCHANGED <<send_sequence, expected_sequence>>,
           Untaken' = Untaken, \A s \in Source : Taken(s)' = Taken(s)
    PROVE  FirstTaken' /\ OthersAhead'
<1>1. \A s \in Source : Count(s)' = Count(s)
  BY DEF Count
<1>2. FirstTaken'
  BY <1>1 DEF FirstTaken
<1>3. \A m \in Untaken : m.src \in Source /\ Count(m.src)' = Count(m.src)
  BY <1>1, UntakenType, MessageIs
<1>4. OthersAhead'
  BY <1>1, <1>3 DEF OthersAhead
<1>. QED  BY <1>2, <1>4

\* The number of a message that was sent.
LEMMA SendIs ==
    ASSUME Typed, FirstTaken, NEW s \in Source, SendStart(s)
    PROVE  /\ \E m \in Message :
                /\ m.src = s /\ m.n = send_sequence[s] + 1
                /\ \/ network' = network \cup {m} /\ failed' = failed
                      /\ InTransit' = InTransit \cup {m}
                   \/ failed' = failed \cup {m} /\ network' = network
                      /\ InTransit' = InTransit
           /\ send_sequence[s] + 1 <= First + Count(s) + MaxAhead
           /\ send_sequence' = [send_sequence EXCEPT ![s] = @ + 1]
           /\ UNCHANGED <<comm, pending, procVars, queueVars, matchVars, requestVars,
                          threadVars>>
<1>. DEFINE n == send_sequence[s] + 1
<1>1. /\ n <= First + MaxMsgs[s]
      /\ n - First - Count(s) <= MaxAhead
      /\ send_sequence' = [send_sequence EXCEPT ![s] = n]
      /\ UNCHANGED <<comm, pending, procVars, queueVars, matchVars, requestVars, threadVars>>
  BY DEF SendStart, Count
<1>2. \E tag \in Tag :
           \/ network' = network \cup {[src |-> s, n |-> n, tag |-> tag]} /\ UNCHANGED failed
           \/ failed' = failed \cup {[src |-> s, n |-> n, tag |-> tag]} /\ UNCHANGED network
  BY DEF SendStart
<1>3. n \in First + 1..First + MaxMsgs[s] /\ n \in Nat
  BY <1>1 DEF Typed, TypeOK
<1>. HIDE DEF n
<1>4. PICK tag \in Tag :
           \/ network' = network \cup {[src |-> s, n |-> n, tag |-> tag]} /\ UNCHANGED failed
           \/ failed' = failed \cup {[src |-> s, n |-> n, tag |-> tag]} /\ UNCHANGED network
  BY <1>2
<1>5. [src |-> s, n |-> n, tag |-> tag] \in Message
  BY <1>3 DEF Message
<1>6. PICK m \in Message : m = [src |-> s, n |-> n, tag |-> tag]
  BY <1>5
<1>7. InHand' = InHand /\ Elements(pending)' = Elements(pending)
      /\ \A u \in Source : Ahead(u)' = Ahead(u)
  BY <1>1 DEF InHand, Ahead, Elements, threadVars, procVars
<1>8. \/ network' = network \cup {m} /\ failed' = failed /\ InTransit' = InTransit \cup {m}
      \/ failed' = failed \cup {m} /\ network' = network /\ InTransit' = InTransit
  <2>1. CASE network' = network \cup {m} /\ failed' = failed
    <3>1. InTransit' = InTransit \cup {m}
      BY <1>7, <2>1 DEF InTransit
    <3>. QED  BY <2>1, <3>1
  <2>2. CASE failed' = failed \cup {m} /\ network' = network
    <3>1. InTransit' = InTransit
      BY <1>7, <2>2 DEF InTransit
    <3>. QED  BY <2>2, <3>1
  <2>. QED  BY <1>4, <1>6, <2>1, <2>2
<1>9. m.src = s /\ m.n = n
  BY <1>6
<1>. QED
  <2>1. n = send_sequence[s] + 1
    BY DEF n
  <2>2. \E x \in Message :
          /\ x.src = s /\ x.n = send_sequence[s] + 1
          /\ \/ network' = network \cup {x} /\ failed' = failed
                /\ InTransit' = InTransit \cup {x}
             \/ failed' = failed \cup {x} /\ network' = network
                /\ InTransit' = InTransit
    BY <1>8, <1>9, <2>1
  <2>3. Count(s) \in Nat /\ First \in Nat /\ MaxAhead \in Nat /\ n \in Nat
    BY <1>3, CountType
  <2>4. n <= First + Count(s) + MaxAhead
    BY <1>1, <2>3
  <2>5. send_sequence[s] + 1 <= First + Count(s) + MaxAhead
    BY <2>1, <2>4
  <2>6. send_sequence' = [send_sequence EXCEPT ![s] = @ + 1]
    BY <1>1, <2>1
  <2>. QED  BY <1>1, <2>2, <2>5, <2>6

LEMMA SendMessages ==
    ASSUME Typed, FirstTaken, OthersAhead, Apart, NEW s \in Source, SendStart(s)
    PROVE  FirstTaken' /\ OthersAhead' /\ Apart'
<1>1. PICK m \in Message :
        /\ m.src = s /\ m.n = send_sequence[s] + 1
        /\ \/ network' = network \cup {m} /\ failed' = failed
              /\ InTransit' = InTransit \cup {m}
           \/ failed' = failed \cup {m} /\ network' = network
              /\ InTransit' = InTransit
  BY SendIs
<1>2. /\ send_sequence[s] + 1 <= First + Count(s) + MaxAhead
      /\ send_sequence' = [send_sequence EXCEPT ![s] = @ + 1]
      /\ UNCHANGED <<comm, pending, procVars, queueVars, matchVars, requestVars, threadVars>>
  BY SendIs
<1>3. /\ send_sequence \in [Source -> Nat]
      /\ \A u \in Source : Count(u) \in Nat
  BY CountType DEF Typed
<1>4. \A u \in Source : /\ Taken(u)' = Taken(u) /\ Count(u)' = Count(u)
                        /\ expected_sequence'[u] = expected_sequence[u]
                        /\ send_sequence'[u] = IF u = s THEN send_sequence[s] + 1
                                               ELSE send_sequence[u]
  BY <1>2, <1>3 DEF Taken, Count, queueVars, matchVars, procVars, Elements
<1>5. \A u \in Source : send_sequence[u] \in First + Count(u)..First + Count(u) + MaxAhead
  BY DEF FirstTaken
<1>6. FirstTaken'
  <2>1. \A u \in Source : send_sequence'[u] \in First + Count(u)'..First + Count(u)' + MaxAhead
    BY <1>2, <1>3, <1>4, <1>5
  <2>. QED  BY <1>4, <2>1 DEF FirstTaken
<1>7. Untaken' = Untaken \cup {m}
  BY <1>1 DEF Untaken
<1>8. /\ Untaken \subseteq Message
      /\ \A u \in Untaken : u.src \in Source /\ u.n \in First + Count(u.src) + 1..send_sequence[u.src]
  BY UntakenType, MessageIs DEF OthersAhead
<1>9. \A u \in Untaken : u.src = s => u.n # m.n
  BY <1>1, <1>3, <1>8
<1>10. OthersAhead'
  <2>1. \A u \in Untaken' : u.n \in First + Count(u.src)' + 1..send_sequence'[u.src]
    <3>1. \A u \in Untaken : u.n \in First + Count(u.src)' + 1..send_sequence'[u.src]
      BY <1>3, <1>4, <1>8
    <3>2. m.n \in First + Count(s)' + 1..send_sequence'[s]
      BY <1>1, <1>3, <1>4, <1>5
    <3>. QED  BY <1>1, <1>7, <3>1, <3>2
  <2>2. \A u, v \in Untaken' : u.src = v.src /\ u.n = v.n => u = v
    BY <1>1, <1>7, <1>9 DEF OthersAhead
  <2>3. ASSUME NEW u \in Source, NEW n \in First + Count(u)' + 1..send_sequence'[u]
        PROVE  \E v \in Untaken' : v.src = u /\ v.n = n
    <3>1. n \in First + Count(u) + 1..send_sequence[u] \/ (u = s /\ n = m.n)
      BY <1>1, <1>3, <1>4, <2>3
    <3>. QED  BY <1>1, <1>7, <3>1 DEF OthersAhead
  <2>. QED  BY <2>1, <2>2, <2>3 DEF OthersAhead
<1>11. m \notin Untaken
  BY <1>1, <1>9
<1>12. /\ InHand' = InHand /\ Elements(pending)' = Elements(pending) /\ pending' = pending
       /\ \A u \in Source : Ahead(u)' = Ahead(u)
       /\ pc' = pc /\ hand' = hand
  BY <1>2 DEF InHand, Ahead, Elements, threadVars, procVars
<1>13. Apart'
  <2>1. m \notin failed /\ m \notin InHand /\ m \notin Elements(pending)
        /\ \A u \in Source : m \notin Ahead(u)
    BY <1>11, InTransitIs DEF Untaken
  <2>2. m \notin InTransit
    BY <1>11 DEF Untaken
  <2>3. failed' \cap InTransit' = {}
    BY <1>1, <2>1, <2>2 DEF Apart
  <2>4. network' \subseteq network \cup {m}
    BY <1>1
  <2>. QED  BY <1>12, <2>1, <2>3, <2>4 DEF Apart
<1>. QED  BY <1>6, <1>10, <1>13

\* Before there is a communicator nothing is taken.
LEMMA NoneTaken ==
    ASSUME Typed, Beginning, FirstTaken, ~comm, NEW s \in Source
    PROVE  /\ Taken(s) = {} /\ Count(s) = 0
           /\ expected_sequence[s] = (First + 1) % SeqSpace
           /\ send_sequence[s] \in First..First + MaxAhead
<1>1. Taken(s) = {}
  BY DEF Beginning, Taken
<1>2. Count(s) = 0
  BY <1>1, FS_EmptySet DEF Count
<1>3. /\ expected_sequence[s] = (First + Count(s) + 1) % SeqSpace
      /\ send_sequence[s] \in First + Count(s)..First + Count(s) + MaxAhead
  BY DEF FirstTaken
<1>. QED  BY <1>1, <1>2, <1>3

\* What came of a source has numbers of its own, and is not more than what can
\* be ahead.
LEMMA CameFits ==
    ASSUME Typed, Beginning, FirstTaken, OthersAhead, Apart, ~comm, NEW s \in Source
    PROVE  /\ Came(s) \in Seq(Message) /\ Len(Came(s)) \in 0..MaxAhead
           /\ \A i \in DOMAIN Came(s) :
                /\ Came(s)[i].src = s /\ Came(s)[i] \in InTransit
                /\ Came(s)[i].n \in First + 1..send_sequence[s]
           /\ \A i, j \in DOMAIN Came(s) : Came(s)[i].n = Came(s)[j].n => i = j
<1>0. pending \in Seq(Message)
  BY DEF Typed, TypeOK
<1>1. /\ Came(s) \in Seq(Message)
      /\ Elements(Came(s)) = {m \in Elements(pending) : m.src = s}
  BY <1>0, CameIs
<1>. DEFINE I == {i \in DOMAIN pending : pending[i].src = s}
<1>2. Came(s) = At(pending, I) /\ I \in SUBSET (DOMAIN pending)
  BY DEF Came, OfSource
<1>. HIDE DEF I
<1>3. \A k \in DOMAIN Came(s) : \E i \in I : Came(s)[k] = pending[i] /\ Rank(I, i) = k
  BY <1>0, <1>2, AtIs
<1>4. \A k, l \in DOMAIN Came(s) : Came(s)[k] = Came(s)[l] => k = l
  <2>. TAKE k, l \in DOMAIN Came(s)
  <2>. HAVE Came(s)[k] = Came(s)[l]
  <2>1. PICK i \in I : Came(s)[k] = pending[i] /\ Rank(I, i) = k
    BY <1>3
  <2>2. PICK j \in I : Came(s)[l] = pending[j] /\ Rank(I, j) = l
    BY <1>3
  <2>3. i = j
    BY <1>2, <2>1, <2>2 DEF Apart
  <2>. QED  BY <2>1, <2>2, <2>3
<1>5. \A i \in DOMAIN Came(s) :
        Came(s)[i] \in Elements(pending) /\ Came(s)[i].src = s
  <2>1. \A i \in DOMAIN Came(s) : Came(s)[i] \in Elements(Came(s))
    BY DEF Elements
  <2>. QED  BY <1>1, <2>1
<1>6. \A i \in DOMAIN Came(s) : Came(s)[i] \in InTransit /\ Came(s)[i] \in Untaken
  BY <1>5, InTransitIs DEF Untaken
<1>7. Count(s) = 0 /\ send_sequence[s] \in First..First + MaxAhead
  BY NoneTaken
<1>8. \A i \in DOMAIN Came(s) : Came(s)[i].n \in First + 1..send_sequence[s]
  BY <1>5, <1>6, <1>7 DEF OthersAhead
<1>9. \A i, j \in DOMAIN Came(s) : Came(s)[i].n = Came(s)[j].n => i = j
  BY <1>4, <1>5, <1>6 DEF OthersAhead
<1>10. PICK n \in Nat : n = Len(Came(s)) /\ DOMAIN Came(s) = 1..n
  BY <1>1
<1>11. n <= MaxAhead
  <2>. DEFINE T == First + 1..First + MaxAhead
              f == [i \in 1..n |-> Came(s)[i].n]
  <2>1. \A i \in 1..n : Came(s)[i].n \in First + 1..First + MaxAhead
    BY <1>7, <1>8, <1>10
  <2>2. f \in [1..n -> T]
    BY <2>1
  <2>3. IsFiniteSet(1..n) /\ Cardinality(1..n) = n
    BY FS_Interval
  <2>4. PICK a \in Nat, b \in Nat : a = First + 1 /\ b = First + MaxAhead
    OBVIOUS
  <2>5. IsFiniteSet(a..b) /\ Cardinality(a..b) = IF a > b THEN 0 ELSE b - a + 1
    BY FS_Interval
  <2>6. IsFiniteSet(T) /\ Cardinality(T) = MaxAhead
    BY <2>4, <2>5
  <2>7. \A i, j \in 1..n : f[i] = f[j] => i = j
    BY <1>9, <1>10
  <2>. HIDE DEF T, f
  <2>8. ~ (MaxAhead < n)
    BY <2>2, <2>3, <2>6, <2>7, FS_PigeonHole
  <2>. QED  BY <2>8
<1>. QED  BY <1>1, <1>5, <1>6, <1>8, <1>9, <1>10, <1>11

\* The messages of a source that follow on are those with the numbers that do,
\* and the next one is not there.
LEMMA RowNumbers ==
    ASSUME Typed, Beginning, FirstTaken, OthersAhead, Apart, ~comm, NEW s \in Source
    PROVE  /\ Row(s) \in Seq(Message) /\ Len(Row(s)) \in 0..MaxAhead
           /\ DOMAIN Row(s) = 1..Len(Row(s))
           /\ \A k \in 1..Len(Row(s)) :
                Row(s)[k] \in Elements(Came(s)) /\ Row(s)[k].n = First + k
           /\ \A m \in Elements(Came(s)) :
                m \in Elements(Row(s)) <=> m.n <= First + Len(Row(s))
           /\ \A m \in Elements(Came(s)) \ Elements(Row(s)) :
                hdr_seq(m) # (expected_sequence[s] + Len(Row(s))) % SeqSpace
<1>. DEFINE q == Came(s)
            w == Row(s)
<1>1. /\ q \in Seq(Message) /\ Len(q) \in 0..MaxAhead
      /\ \A i \in DOMAIN q : /\ q[i].src = s /\ q[i] \in InTransit
                             /\ q[i].n \in First + 1..send_sequence[s]
      /\ \A i, j \in DOMAIN q : q[i].n = q[j].n => i = j
  BY CameFits
<1>2. /\ w \in Seq(Message) /\ Len(w) \in 0..Len(q) /\ DOMAIN w = 1..Len(w)
      /\ \A k \in 1..Len(w) : \E i \in Place(q, s, k) : w[k] = q[i]
      /\ Len(w) < Len(q) => Place(q, s, Len(w) + 1) = {}
  BY RowIs DEF Typed, TypeOK
<1>3. /\ expected_sequence[s] = (First + 1) % SeqSpace
      /\ send_sequence[s] \in First..First + MaxAhead
  BY NoneTaken
<1>. HIDE DEF q, w
<1>4. PICK l \in Nat, e \in Nat : l = Len(w) /\ e = Len(q)
  <2>1. Len(q) \in Nat
    BY <1>1
  <2>2. Len(w) \in Nat
    BY <1>2
  <2>. QED  BY <2>1, <2>2
<1>5. l <= e /\ e <= MaxAhead /\ DOMAIN q = 1..e /\ DOMAIN w = 1..l
  BY <1>1, <1>2, <1>4
<1>6. \A k \in Nat \ {0} : (expected_sequence[s] + k - 1) % SeqSpace = (First + k) % SeqSpace
  <2>. TAKE k \in Nat \ {0}
  <2>1. PICK a \in Nat, b \in Nat : a = First + 1 /\ b = k - 1
    OBVIOUS
  <2>2. ((a % SeqSpace) + b) % SeqSpace = (a + b) % SeqSpace
    BY AddLowBits
  <2>3. a + b = First + k
    BY <2>1
  <2>4. (a % SeqSpace) + b = expected_sequence[s] + k - 1
    <3>1. a % SeqSpace \in Nat
      BY LowBits
    <3>. QED  BY <1>3, <2>1, <3>1
  <2>. QED  BY <2>2, <2>3, <2>4
<1>7. \A i \in DOMAIN q : \A k \in 1..MaxAhead :
        hdr_seq(q[i]) = (expected_sequence[s] + k - 1) % SeqSpace <=> q[i].n = First + k
  <2>. TAKE i \in DOMAIN q
  <2>. TAKE k \in 1..MaxAhead
  <2>1. PICK a \in Nat, b \in Nat : a = q[i].n /\ b = First + k
    BY <1>1, <1>3
  <2>2. a - b < SeqSpace /\ b - a < SeqSpace
    BY <1>1, <1>3, <2>1
  <2>3. hdr_seq(q[i]) = a % SeqSpace /\ (expected_sequence[s] + k - 1) % SeqSpace = b % SeqSpace
    BY <1>6, <2>1 DEF hdr_seq
  <2>4. a <= b \/ b <= a
    OBVIOUS
  <2>5. a % SeqSpace = b % SeqSpace => a = b
    BY <2>2, <2>4, SameLowBits
  <2>. QED  BY <2>1, <2>3, <2>5
<1>8. \A k \in 1..l : \E i \in DOMAIN q : w[k] = q[i] /\ q[i].n = First + k
  <2>. TAKE k \in 1..l
  <2>1. PICK i \in Place(q, s, k) : w[k] = q[i]
    BY <1>2, <1>4
  <2>2. i \in DOMAIN q /\ hdr_seq(q[i]) = (expected_sequence[s] + k - 1) % SeqSpace
    BY DEF Place
  <2>3. k \in 1..MaxAhead
    BY <1>5
  <2>. QED  BY <1>7, <2>1, <2>2, <2>3
<1>9. ASSUME NEW k \in 1..l
      PROVE  w[k] \in Elements(q) /\ w[k].n = First + k
  BY <1>8 DEF Elements
<1>10. \A m \in Elements(w) : m \in Elements(q) /\ m.n \in First + 1..First + l
  <2>1. \A k \in 1..l : First + k \in First + 1..First + l
    OBVIOUS
  <2>. QED  BY <1>5, <1>9, <2>1 DEF Elements
<1>11. ASSUME NEW m \in Elements(q), m.n <= First + l
       PROVE  m \in Elements(w)
  <2>1. PICK i \in DOMAIN q : m = q[i]
    BY DEF Elements
  <2>2. PICK k \in 1..l : m.n = First + k
    <3>1. m.n \in Nat /\ m.n > First
      BY <1>1, <1>3, <2>1
    <3>2. PICK d \in Int : d = m.n - First
      BY <3>1
    <3>3. d \in 1..l /\ m.n = First + d
      BY <1>11, <3>1, <3>2
    <3>. QED  BY <3>3
  <2>3. PICK j \in DOMAIN q : w[k] = q[j] /\ q[j].n = First + k
    BY <1>8
  <2>4. m = w[k]
    BY <1>1, <2>1, <2>2, <2>3
  <2>. QED  BY <1>5, <2>4 DEF Elements
<1>12. ASSUME NEW m \in Elements(q), m \notin Elements(w)
       PROVE  hdr_seq(m) # (expected_sequence[s] + l) % SeqSpace
  <2>1. PICK i \in DOMAIN q : m = q[i]
    BY DEF Elements
  <2>2. CASE l < e
    <3>1. Place(q, s, l + 1) = {}
      BY <1>2, <1>4, <2>2
    <3>2. hdr_seq(m) # (expected_sequence[s] + (l + 1) - 1) % SeqSpace
      BY <2>1, <3>1 DEF Place
    <3>3. expected_sequence[s] + (l + 1) - 1 = expected_sequence[s] + l
      <4>1. expected_sequence[s] \in Nat
        BY DEF Typed, TypeOK
      <4>. QED  BY <4>1
    <3>. QED  BY <3>2, <3>3
  <2>3. CASE l = e
    <3>1. IsFiniteSet(Elements(q)) /\ Cardinality(Elements(q)) = e
      <4>1. \A a, b \in DOMAIN q : q[a] = q[b] => a = b
        BY <1>1
      <4>. QED  BY <1>1, <1>4, <4>1, NoRepeats
    <3>2. Cardinality(Elements(w)) = l
      <4>1. \A a, b \in DOMAIN w : w[a] = w[b] => a = b
        <5>1. \A a, b \in 1..l : First + a = First + b => a = b
          OBVIOUS
        <5>. QED  BY <1>5, <1>9, <5>1
      <4>. QED  BY <1>2, <1>4, <4>1, NoRepeats
    <3>3. Elements(w) \in SUBSET Elements(q)
      BY <1>10
    <3>4. Elements(w) = Elements(q)
      BY <2>3, <3>1, <3>2, <3>3, FS_Subset
    <3>. QED  BY <1>12, <3>4
  <2>. QED  BY <1>5, <2>2, <2>3
<1>13. \A m \in Elements(q) : m \in Elements(w) <=> m.n <= First + l
  <2>1. \A x \in First + 1..First + l : x <= First + l
    OBVIOUS
  <2>. QED  BY <1>10, <1>11, <2>1
<1>14. l \in 0..MaxAhead
  BY <1>5
<1>. QED  BY <1>2, <1>4, <1>5, <1>9, <1>12, <1>13, <1>14 DEF q, w

\* Those of the messages that came follow on and are taken.
InRows == UNION {Elements(Row(s)) : s \in Source}

LEMMA AddCommMessages ==
    ASSUME Known, FirstTaken, OthersAhead, AddComm
    PROVE  /\ FirstTaken' /\ OthersAhead' /\ Apart' /\ OwnQueues'
           /\ NothingStranded'
           /\ InRows \subseteq InTransit /\ InTransit' = InTransit \ InRows
           /\ \A s \in Source : Taken(s)' = Elements(Row(s))
           /\ \A m \in InRows : \A u \in InTransit :
                u.src = m.src /\ u.n < m.n => u \in InRows
<1>0. /\ Typed /\ Beginning /\ Apart /\ OwnQueues /\ ~comm
      /\ send_sequence \in [Source -> Nat]
      /\ pending \in Seq(Message)
  BY AddCommIs DEF Known, Typed, TypeOK
<1>1. /\ comm' = TRUE /\ pending' = <<>>
      /\ unexpected_frags' = [s \in Source |-> Row(s)]
      /\ frags_cant_match' = [s \in Source |-> Without(Came(s), Elements(Row(s)))]
      /\ expected_sequence' =
           [s \in Source |-> (expected_sequence[s] + Len(Row(s))) % SeqSpace]
      /\ send_sequence' = send_sequence /\ failed' = failed /\ network' = network
      /\ matched' = matched /\ pc' = pc /\ hand' = hand
  BY AddCommIs DEF sendVars, matchVars, threadVars
<1>2. \A s \in Source :
        /\ Row(s) \in Seq(Message) /\ Len(Row(s)) \in 0..MaxAhead
        /\ DOMAIN Row(s) = 1..Len(Row(s))
        /\ \A k \in 1..Len(Row(s)) :
             Row(s)[k] \in Elements(Came(s)) /\ Row(s)[k].n = First + k
        /\ \A m \in Elements(Came(s)) :
             m \in Elements(Row(s)) <=> m.n <= First + Len(Row(s))
        /\ \A m \in Elements(Came(s)) \ Elements(Row(s)) :
             hdr_seq(m) # (expected_sequence[s] + Len(Row(s))) % SeqSpace
  BY <1>0, RowNumbers
<1>3. \A s \in Source :
        /\ Came(s) \in Seq(Message)
        /\ Elements(Came(s)) = {m \in Elements(pending) : m.src = s}
  BY <1>0, CameIs
<1>4. \A s \in Source : Elements(Row(s)) \subseteq Elements(Came(s))
  BY <1>2 DEF Elements
<1>5. \A s \in Source : \A m \in Elements(Row(s)) :
        m \in Elements(pending) /\ m.src = s /\ m \in InTransit /\ m \in Untaken
  BY <1>3, <1>4, InTransitIs DEF Untaken
<1>6. \A s \in Source : /\ Taken(s) = {} /\ Count(s) = 0
                        /\ expected_sequence[s] = (First + 1) % SeqSpace
                        /\ send_sequence[s] \in First..First + MaxAhead
  BY <1>0, NoneTaken
<1>7. \A s \in Source : Taken(s)' = Elements(Row(s))
  <2>. TAKE s \in Source
  <2>1. matched' = {} /\ Elements(unexpected_frags'[s]) = Elements(Row(s))
    BY <1>0, <1>1 DEF Beginning
  <2>2. Taken(s)' = {m \in Elements(unexpected_frags'[s]) \cup {p.msg : p \in matched'} : m.src = s}
    BY DEF Taken, Elements
  <2>. QED  BY <1>5, <2>1, <2>2
<1>8. \A s \in Source : /\ IsFiniteSet(Elements(Row(s)))
                        /\ Cardinality(Elements(Row(s))) = Len(Row(s))
                        /\ \A k, l \in DOMAIN Row(s) : Row(s)[k].n = Row(s)[l].n => k = l
  <2>. TAKE s \in Source
  <2>0. PICK e \in Nat : e = Len(Row(s))
    BY <1>2
  <2>1. \A k, l \in 1..e : First + k = First + l => k = l
    OBVIOUS
  <2>2. \A k, l \in DOMAIN Row(s) : Row(s)[k].n = Row(s)[l].n => k = l
    BY <1>2, <2>0, <2>1
  <2>3. \A k, l \in DOMAIN Row(s) : Row(s)[k] = Row(s)[l] => k = l
    BY <2>2
  <2>. QED  BY <1>2, <2>2, <2>3, NoRepeats
<1>9. \A s \in Source : Count(s)' = Len(Row(s))
  BY <1>7, <1>8 DEF Count
<1>10. \A s \in Source : \A m \in Elements(Row(s)) : \E k \in 1..Len(Row(s)) :
         m = Row(s)[k] /\ m.n = First + k
  BY <1>2 DEF Elements
<1>11. FirstTaken'
  <2>. SUFFICES ASSUME NEW s \in Source
                PROVE  /\ IsFiniteSet(Taken(s)')
                       /\ {m.n : m \in Taken(s)'} = First + 1..First + Count(s)'
                       /\ \A m, u \in Taken(s)' : m.n = u.n => m = u
                       /\ expected_sequence'[s] = (First + Count(s)' + 1) % SeqSpace
                       /\ send_sequence'[s] \in First + Count(s)'..First + Count(s)' + MaxAhead
    BY DEF FirstTaken
  <2>1. PICK e \in Nat : e = Len(Row(s)) /\ e <= MaxAhead
    BY <1>2
  <2>2. \A k \in 1..e : Row(s)[k].n = First + k /\ Row(s)[k] \in Elements(Row(s))
    BY <1>2, <2>1 DEF Elements
  <2>3. {m.n : m \in Elements(Row(s))} = First + 1..First + e
    <3>1. ASSUME NEW x \in First + 1..First + e
          PROVE  \E m \in Elements(Row(s)) : m.n = x
      <4>1. PICK k \in 1..e : x = First + k
        <5>1. x - First \in 1..e /\ x = First + (x - First)
          OBVIOUS
        <5>. QED  BY <5>1
      <4>. QED  BY <2>2, <4>1
    <3>2. ASSUME NEW m \in Elements(Row(s))
          PROVE  m.n \in First + 1..First + e
      <4>1. PICK k \in 1..e : m.n = First + k
        BY <1>10, <2>1
      <4>. QED  BY <4>1
    <3>. QED  BY <3>1, <3>2
  <2>4. \A m, u \in Elements(Row(s)) : m.n = u.n => m = u
    BY <1>2, <1>8 DEF Elements
  <2>5. expected_sequence'[s] = (First + e + 1) % SeqSpace
    <3>1. PICK a \in Nat : a = First + 1
      OBVIOUS
    <3>2. ((a % SeqSpace) + e) % SeqSpace = (a + e) % SeqSpace
      BY AddLowBits
    <3>3. a + e = First + e + 1
      BY <3>1
    <3>. QED  BY <1>1, <1>6, <2>1, <3>1, <3>2, <3>3
  <2>6. First + e <= send_sequence[s]
    <3>1. CASE e = 0
      BY <1>6, <3>1
    <3>2. CASE e # 0
      <4>1. e \in 1..e
        BY <3>2
      <4>2. Row(s)[e] \in Elements(Row(s)) /\ Row(s)[e].n = First + e
        BY <2>2, <4>1
      <4>3. Row(s)[e].n <= send_sequence[s]
        BY <1>5, <1>6, <4>2 DEF OthersAhead
      <4>. QED  BY <4>2, <4>3
    <3>. QED  BY <3>1, <3>2
  <2>7. send_sequence[s] \in First + e..First + e + MaxAhead
    BY <1>6, <2>6
  <2>8. Count(s)' = e /\ Taken(s)' = Elements(Row(s))
    BY <1>7, <1>9, <2>1
  <2>9. IsFiniteSet(Taken(s)')
    BY <1>8, <2>8
  <2>10. send_sequence'[s] \in First + Count(s)'..First + Count(s)' + MaxAhead
    BY <1>1, <2>7, <2>8
  <2>. QED  BY <2>3, <2>4, <2>5, <2>8, <2>9, <2>10
<1>12. /\ InHand = {} /\ InHand' = {} /\ Elements(pending') = {}
       /\ \A s \in Source : /\ Ahead(s) = {}
                            /\ Ahead(s)' = Elements(Came(s)) \ Elements(Row(s))
  <2>1. \A s \in Source : Elements(Without(Came(s), Elements(Row(s)))) =
                            Elements(Came(s)) \ Elements(Row(s))
    BY <1>3, WithoutIs
  <2>2. \A s \in Source : Ahead(s)' = Elements(frags_cant_match'[s])
    BY DEF Ahead, Elements
  <2>3. InHand = {} /\ InHand' = {}
    BY <1>0, <1>1 DEF Beginning, InHand
  <2>. QED  BY <1>0, <1>1, <2>1, <2>2, <2>3, NothingPending DEF Beginning
<1>13. InTransit' = InTransit \ InRows
  <2>0. Elements(pending)' = Elements(pending')
    BY DEF Elements
  <2>1. ASSUME NEW m \in InTransit' PROVE m \in InTransit /\ m \notin InRows
    <3>1. CASE m \in network
      <4>1. m \notin Elements(pending)
        BY <1>0, <3>1 DEF Apart
      <4>. QED  BY <1>5, <3>1, <4>1, InTransitIs DEF InRows
    <3>2. ASSUME NEW s \in Source, m \in Elements(Came(s)) \ Elements(Row(s))
          PROVE  m \in InTransit /\ m \notin InRows
      <4>1. m \in Elements(pending) /\ m.src = s
        BY <1>3, <3>2
      <4>. QED  BY <1>5, <3>2, <4>1, InTransitIs DEF InRows
    <3>. QED  BY <1>1, <1>12, <2>0, <2>1, <3>1, <3>2, InTransitIs
  <2>2. ASSUME NEW m \in InTransit, m \notin InRows PROVE m \in InTransit'
    <3>1. CASE m \in network
      BY <1>1, <3>1, InTransitIs
    <3>2. CASE m \in Elements(pending)
      <4>1. m.src \in Source
        BY <1>0, <2>2, InTransitType, MessageIs
      <4>2. m \in Elements(Came(m.src)) \ Elements(Row(m.src))
        BY <1>3, <2>2, <3>2, <4>1 DEF InRows
      <4>. QED  BY <1>12, <4>1, <4>2, InTransitIs
    <3>. QED  BY <1>12, <2>2, <3>1, <3>2, InTransitIs
  <2>. QED  BY <2>1, <2>2
<1>14. InRows \subseteq InTransit
  BY <1>5 DEF InRows
<1>15. Untaken' = Untaken \ InRows
  <2>1. failed \cap InRows = {}
    BY <1>0, <1>14 DEF Apart
  <2>. QED  BY <1>1, <1>13, <2>1 DEF Untaken
<1>16. \A m \in Untaken : /\ m.src \in Source /\ m.n \in First + 1..send_sequence[m.src]
                          /\ m \in InRows <=> m.n <= First + Len(Row(m.src))
  <2>. TAKE m \in Untaken
  <2>1. m.src \in Source
    BY <1>0, UntakenType, MessageIs
  <2>2. m.n \in First + 1..send_sequence[m.src]
    BY <1>6, <2>1 DEF OthersAhead
  <2>3. m \in InRows => m.n <= First + Len(Row(m.src))
    <3>1. m \in InRows => m \in Elements(Row(m.src))
      BY <1>5 DEF InRows
    <3>2. m \in InRows => m \in Elements(Came(m.src))
      BY <1>4, <2>1, <3>1
    <3>. QED  BY <1>2, <2>1, <3>1, <3>2
  <2>4. ASSUME m.n <= First + Len(Row(m.src)) PROVE m \in InRows
    <3>1. PICK e \in Nat : e = Len(Row(m.src))
      BY <1>2, <2>1
    <3>2. PICK k \in Nat : k = m.n - First
      BY <1>0, <2>1, <2>2
    <3>3. k \in 1..e /\ m.n = First + k
      BY <1>0, <2>1, <2>2, <2>4, <3>1, <3>2
    <3>4. Row(m.src)[k].n = First + k /\ Row(m.src)[k] \in Elements(Row(m.src))
      BY <1>2, <2>1, <3>1, <3>3 DEF Elements
    <3>5. m = Row(m.src)[k]
      BY <1>5, <2>1, <3>3, <3>4 DEF OthersAhead
    <3>. QED  BY <2>1, <3>4, <3>5 DEF InRows
  <2>. QED  BY <2>1, <2>2, <2>3, <2>4
<1>17. OthersAhead'
  <2>1. ASSUME NEW m \in Untaken'
        PROVE  m.n \in First + Count(m.src)' + 1..send_sequence'[m.src]
    <3>1. /\ m.src \in Source /\ m.n \in First + 1..send_sequence[m.src]
          /\ ~ (m.n <= First + Len(Row(m.src)))
      BY <1>15, <1>16, <2>1
    <3>2. PICK e \in Nat : e = Len(Row(m.src))
      BY <1>2, <3>1
    <3>3. PICK d \in Nat : d = send_sequence[m.src]
      BY <1>0, <3>1
    <3>4. m.n \in First + e + 1..d
      BY <3>1, <3>2, <3>3
    <3>. QED  BY <1>1, <1>9, <3>1, <3>2, <3>3, <3>4
  <2>2. \A m, u \in Untaken' : m.src = u.src /\ m.n = u.n => m = u
    BY <1>15 DEF OthersAhead
  <2>3. ASSUME NEW s \in Source, NEW n \in First + Count(s)' + 1..send_sequence'[s]
        PROVE  \E m \in Untaken' : m.src = s /\ m.n = n
    <3>2. PICK e \in Nat : e = Len(Row(s))
      BY <1>2
    <3>3. PICK d \in Nat : d = send_sequence[s]
      BY <1>0
    <3>4. n \in First + e + 1..d
      BY <1>1, <1>9, <2>3, <3>2, <3>3
    <3>5. n \in First + Count(s) + 1..send_sequence[s]
      BY <1>6, <3>3, <3>4
    <3>6. PICK m \in Untaken : m.src = s /\ m.n = n
      BY <3>5 DEF OthersAhead
    <3>7. m \notin InRows
      BY <1>16, <3>2, <3>4, <3>6
    <3>. QED  BY <1>15, <3>6, <3>7
  <2>. QED  BY <2>1, <2>2, <2>3 DEF OthersAhead
<1>18. Apart'
  <2>1. failed' \cap InTransit' = {}
    BY <1>0, <1>1, <1>13 DEF Apart
  <2>2. \A s \in Source : Ahead(s)' \cap (network' \cup InHand') = {}
    <3>1. \A s \in Source : Ahead(s)' \subseteq Elements(pending)
      BY <1>3, <1>12
    <3>. QED  BY <1>0, <1>1, <1>12, <3>1 DEF Apart
  <2>3. Elements(pending)' = {}
    BY <1>12 DEF Elements
  <2>4. DOMAIN pending' = {}
    BY <1>1
  <2>5. \A t \in Thread : pc'[t] = "idle"
    BY <1>0, <1>1 DEF Beginning
  <2>. QED  BY <1>12, <2>1, <2>2, <2>3, <2>4, <2>5 DEF Apart
<1>19. OwnQueues'
  <2>. SUFFICES ASSUME NEW s \in Source
                PROVE  /\ \A m \in Ahead(s)' \cup Elements(unexpected_frags'[s]) : m.src = s
                       /\ \A i, j \in DOMAIN unexpected_frags'[s] :
                            i < j => unexpected_frags'[s][i].n < unexpected_frags'[s][j].n
    BY DEF OwnQueues, Elements
  <2>1. unexpected_frags'[s] = Row(s)
    BY <1>1
  <2>2. PICK e \in Nat : e = Len(Row(s))
    BY <1>2
  <2>3. \A i, j \in 1..e : i < j => First + i < First + j
    OBVIOUS
  <2>4. \A i, j \in DOMAIN Row(s) : i < j => Row(s)[i].n < Row(s)[j].n
    BY <1>2, <2>2, <2>3
  <2>. QED  BY <1>3, <1>5, <1>12, <2>1, <2>4
<1>20. NothingStranded'
  <2>. SUFFICES ASSUME NEW s \in Source, NEW i \in DOMAIN frags_cant_match'[s]
                PROVE  hdr_seq(frags_cant_match'[s][i]) # expected_sequence'[s]
    BY DEF NothingStranded, CanMatch, hdr_seq
  <2>1. frags_cant_match'[s][i] \in Ahead(s)'
    BY DEF Ahead, Elements
  <2>. QED  BY <1>1, <1>2, <1>12, <2>1
<1>21. ASSUME NEW m \in InRows, NEW u \in InTransit, u.src = m.src, u.n < m.n
       PROVE  u \in InRows
  <2>1. m \in Untaken /\ u \in Untaken
    BY <1>14 DEF Untaken
  <2>2. m.src \in Source /\ m.n <= First + Len(Row(m.src)) /\ m.n \in Int /\ u.n \in Int
    BY <1>0, <1>16, <1>21, <2>1
  <2>3. Len(Row(m.src)) \in Nat
    BY <1>2, <2>2
  <2>4. u.n <= First + Len(Row(m.src))
    BY <1>21, <2>2, <2>3
  <2>. QED  BY <1>16, <1>21, <2>1, <2>4
<1>. QED  BY <1>7, <1>11, <1>13, <1>14, <1>17, <1>18, <1>19, <1>20, <1>21

\* A step that moves no message.
LEMMA SameTransit ==
    ASSUME UNCHANGED <<failed, network, pending, frags_cant_match, pc, hand>>
    PROVE  /\ InTransit' = InTransit /\ Untaken' = Untaken /\ InHand' = InHand
           /\ \A s \in Source : Ahead(s)' = Ahead(s)
           /\ Apart => Apart'
<1>1. /\ InHand' = InHand /\ Elements(pending)' = Elements(pending)
      /\ \A s \in Source : Ahead(s)' = Ahead(s)
  BY DEF InHand, Ahead, Elements
<1>2. InTransit' = InTransit
  BY <1>1 DEF InTransit
<1>3. Apart => Apart'
  BY <1>1, <1>2 DEF Apart
<1>. QED  BY <1>1, <1>2, <1>3 DEF Untaken

\* It leaves those taken and parked as they are, too.
LEMMA NothingMoves ==
    ASSUME Known, MessageInv, NothingStranded,
           UNCHANGED <<sendVars, network, pending, procVars, threadVars, unexpected_frags,
                       matched>>
    PROVE  MessageInv' /\ NothingStranded'
<1>1. /\ InTransit' = InTransit /\ Untaken' = Untaken /\ Apart'
      /\ \A s \in Source : Ahead(s)' = Ahead(s)
  BY SameTransit DEF sendVars, procVars, threadVars, MessageInv
<1>2. \A s \in Source : Taken(s)' = Taken(s)
  BY DEF Taken, Elements
<1>3. FirstTaken' /\ OthersAhead'
  BY <1>1, <1>2, SameMessages DEF Known, MessageInv, sendVars, procVars
<1>4. OwnQueues'
  BY <1>1 DEF MessageInv, OwnQueues, Elements
<1>5. OneReceive'
  BY DEF MessageInv, OneReceive, Elements
<1>6. NothingStranded'
  BY DEF NothingStranded, CanMatch, hdr_seq, procVars, threadVars
<1>. QED  BY <1>1, <1>3, <1>4, <1>5, <1>6 DEF MessageInv

\* A receive that gets a message that waits.
LEMMA GetsMessages ==
    ASSUME Known, MessageInv, NothingStranded,
           UNCHANGED <<sendVars, network, pending, procVars, threadVars>>,
           NEW r \in Request, NEW m \in Found(r), Gets(r, m)
    PROVE  /\ MessageInv' /\ NothingStranded'
           /\ \A s \in Source : Elements(unexpected_frags'[s]) =
                                  Elements(unexpected_frags[s]) \ {m}
           /\ \A s \in Source : Taken(s)' = Taken(s)
<1>0. Typed /\ QueueTypes /\ OwnQueues
  BY TypedParts DEF Known
<1>1. m \in Message /\ m.src \in Source /\ m \in Elements(unexpected_frags[m.src])
  BY <1>0, FoundIs
<1>2. /\ InTransit' = InTransit /\ Untaken' = Untaken /\ Apart'
      /\ \A s \in Source : Ahead(s)' = Ahead(s)
  BY SameTransit DEF sendVars, procVars, threadVars, MessageInv
<1>3. /\ unexpected_frags' = [unexpected_frags EXCEPT ![m.src] = Without(@, {m})]
      /\ matched' = matched \cup {[req |-> r, msg |-> m]} /\ r.type = "RECV"
  BY DEF Gets
<1>4. \A s \in Source : unexpected_frags'[s] =
        IF s = m.src THEN Without(unexpected_frags[s], {m}) ELSE unexpected_frags[s]
  BY <1>0, <1>3 DEF QueueTypes
<1>5. \A s \in Source : Elements(unexpected_frags'[s]) = Elements(unexpected_frags[s]) \ {m}
  <2>. TAKE s \in Source
  <2>1. Elements(Without(unexpected_frags[s], {m})) = Elements(unexpected_frags[s]) \ {m}
    BY <1>0, WithoutIs DEF QueueTypes
  <2>2. s # m.src => m \notin Elements(unexpected_frags[s])
    BY <1>0 DEF OwnQueues
  <2>. QED  BY <1>4, <2>1, <2>2
<1>. DEFINE got == {p.msg : p \in matched}
<1>6. \A x : x \in got' <=> x \in got \/ x = m
  <2>1. \A x : x \in got' <=> \E p \in matched' : x = p.msg
    OBVIOUS
  <2>2. \A x : x \in got <=> \E p \in matched : x = p.msg
    OBVIOUS
  <2>. HIDE DEF got
  <2>3. \A p : p \in matched' <=> p \in matched \/ p = [req |-> r, msg |-> m]
    BY <1>3
  <2>4. [req |-> r, msg |-> m].msg = m
    OBVIOUS
  <2>5. m \in got'
    BY <2>1, <2>3, <2>4
  <2>6. \A x \in got : x \in got'
    BY <2>1, <2>2, <2>3
  <2>7. \A x \in got' : x \in got \/ x = m
    BY <2>1, <2>2, <2>3, <2>4
  <2>. QED  BY <2>5, <2>6, <2>7
<1>7. \A s \in Source : Taken(s)' = Taken(s)
  <2>. TAKE s \in Source
  <2>1. \A x : x \in Taken(s) <=> (x \in Elements(unexpected_frags[s]) \/ x \in got) /\ x.src = s
    BY DEF Taken
  <2>2. \A x : x \in Taken(s)' <=> (x \in Elements(unexpected_frags'[s]) \/ x \in got') /\ x.src = s
    BY DEF Taken, Elements
  <2>. HIDE DEF got
  <2>3. \A x : x \in Taken(s)' <=> x \in Taken(s)
    BY <1>1, <1>5, <1>6, <2>1, <2>2
  <2>. QED  BY <2>3
<1>8. FirstTaken' /\ OthersAhead'
  BY <1>0, <1>2, <1>7, SameMessages DEF MessageInv, sendVars, procVars
<1>9. OwnQueues'
  <2>. SUFFICES ASSUME NEW s \in Source
                PROVE  /\ \A x \in Ahead(s)' \cup Elements(unexpected_frags'[s]) : x.src = s
                       /\ \A i, j \in DOMAIN unexpected_frags'[s] :
                            i < j => unexpected_frags'[s][i].n < unexpected_frags'[s][j].n
    BY DEF OwnQueues, Elements
  <2>1. Increasing(unexpected_frags[s])
    BY <1>0 DEF OwnQueues, Increasing
  <2>2. Increasing(Without(unexpected_frags[s], {m}))
    BY <1>0, <2>1, WithoutIncreasing DEF QueueTypes
  <2>3. Increasing(unexpected_frags'[s])
    BY <1>4, <2>1, <2>2
  <2>4. \A i, j \in DOMAIN unexpected_frags'[s] :
          i < j => unexpected_frags'[s][i].n < unexpected_frags'[s][j].n
    BY <2>3 DEF Increasing
  <2>. QED  BY <1>0, <1>2, <1>5, <2>4 DEF OwnQueues
<1>10. OneReceive'
  <2>1. \A p \in matched : /\ p.req.type = "RECV" /\ p.msg.src \in Source
                           /\ p.msg \notin Elements(unexpected_frags[p.msg.src])
    BY <1>0, MessageIs DEF MessageInv, OneReceive, QueueTypes
  <2>2. \A p \in matched : p.msg # m
    BY <1>1, <2>1
  <2>3. \A p \in matched' : /\ p.req.type = "RECV"
                            /\ p.msg \notin Elements(unexpected_frags'[p.msg.src])
    <3>1. ASSUME NEW p \in matched
          PROVE  /\ p.req.type = "RECV"
                 /\ p.msg \notin Elements(unexpected_frags'[p.msg.src])
      BY <1>5, <2>1, <3>1
    <3>2. m \notin Elements(unexpected_frags'[m.src])
      BY <1>1, <1>5
    <3>3. [req |-> r, msg |-> m].msg = m /\ [req |-> r, msg |-> m].req = r
      OBVIOUS
    <3>. QED  BY <1>3, <3>1, <3>2, <3>3
  <2>4. \A p, q \in matched' : p.msg = q.msg => p = q
    BY <1>3, <2>2 DEF MessageInv, OneReceive
  <2>. QED  BY <2>3, <2>4 DEF OneReceive, Elements
<1>11. NothingStranded'
  BY DEF NothingStranded, CanMatch, hdr_seq, procVars, threadVars
<1>. QED  BY <1>2, <1>5, <1>7, <1>8, <1>9, <1>10, <1>11 DEF MessageInv

LEMMA RecvMessages ==
    ASSUME Known, MessageInv, NothingStranded, RecvReqStart
    PROVE  MessageInv' /\ NothingStranded'
<1>1. UNCHANGED <<sendVars, network, comm, pending, procVars, cancelled, corrupt,
                     threadVars>>
  BY RecvReqStartIs
<1>2. PICK r \in Request : \/ Queues(r) \/ FindsNone(r)
                           \/ \E m \in Found(r) : Gets(r, m) \/ Sees(r, m)
  BY RecvReqStartIs
<1>3. ASSUME NEW m \in Found(r), Gets(r, m)
      PROVE  MessageInv' /\ NothingStranded'
  BY <1>1, <1>3, GetsMessages
<1>4. CASE UNCHANGED <<unexpected_frags, matched>>
  BY <1>1, <1>4, NothingMoves
<1>. QED  BY <1>2, <1>3, <1>4 DEF Queues, FindsNone, Sees, queueVars, matchVars

LEMMA RestMessages ==
    ASSUME Known, MessageInv, NothingStranded,
           Cancel \/ PmlComplete \/ \E t \in Thread : MarkMatched(t)
    PROVE  MessageInv' /\ NothingStranded'
<1>1. UNCHANGED <<sendVars, network, pending, procVars, threadVars, unexpected_frags,
                  matched>>
  BY DEF Cancel, PmlComplete, MarkMatched, queueVars, matchVars
<1>. QED  BY <1>1, NothingMoves

\* The two halves of OwnQueues.
OwnParked == \A s \in Source : \A m \in Ahead(s) : m.src = s
OwnUnexpected ==
    \A s \in Source : /\ \A m \in Elements(unexpected_frags[s]) : m.src = s
                      /\ Increasing(unexpected_frags[s])

LEMMA OwnHalves == /\ OwnQueues <=> OwnParked /\ OwnUnexpected
                   /\ OwnQueues' <=> OwnParked' /\ OwnUnexpected'
  BY DEF OwnQueues, OwnParked, OwnUnexpected, Increasing, Elements

\* No two receives get a message.
LEMMA OneGets ==
    ASSUME QueueTypes, Posted, NEW m \in Message
    PROVE  /\ Interested(m) \subseteq Waiting
           /\ \A r, q \in Getting(m) : r = q
<1>1. m.src \in Source
  BY MessageIs
<1>2. Interested(m) \subseteq Waiting
  BY <1>1 DEF Interested, Waiting
<1>3. Getting(m) \subseteq Interested(m)
  BY InterestedIs
<1>4. \A r, q \in Getting(m) : r.no <= q.no
  BY DEF Getting, Earliest
<1>5. \A r \in Getting(m) : r.no \in Nat
  BY <1>3, InterestedIs, RequestIs
<1>6. \A r, q \in Getting(m) : r.no = q.no
  BY <1>4, <1>5
<1>. QED  BY <1>2, <1>3, <1>6 DEF Posted

\* A message that is taken: it waits, last of its source, or one receive gets it.
LEMMA TakesQueues ==
    ASSUME Known, MessageInv, Posted, NEW m, Takes(m)
    PROVE  /\ FirstTaken' /\ OthersAhead' /\ OwnUnexpected' /\ OneReceive'
           /\ failed' \cap InTransit' = {}
<1>0. Typed /\ QueueTypes /\ OwnUnexpected
  BY TypedParts, OwnHalves DEF Known
<1>1. /\ FirstTaken' /\ OthersAhead'
      /\ m \notin Taken(m.src) /\ m \in Message /\ m.src \in Source
      /\ \A u \in Taken(m.src) : u.n < m.n
  BY <1>0, TakesMessages DEF MessageInv, Apart
<1>2. /\ matched' = matched \cup {[req |-> r, msg |-> m] : r \in Getting(m)}
      /\ unexpected_frags' = IF Getting(m) # {} THEN unexpected_frags
                             ELSE [unexpected_frags EXCEPT ![m.src] = Append(@, m)]
  BY MatchOneIs DEF Takes
<1>3. /\ \A p \in matched : p.msg # m
      /\ m \notin Elements(unexpected_frags[m.src])
  BY <1>1 DEF Taken
<1>4. /\ \A r \in Getting(m) : r.type = "RECV"
      /\ \A r, q \in Getting(m) : r = q
  BY <1>0, <1>1, InterestedIs, OneGets
<1>5. \A p \in matched : /\ p.req.type = "RECV"
                         /\ p.msg \notin Elements(unexpected_frags[p.msg.src])
  BY DEF MessageInv, OneReceive
<1>6. \A p, q \in matched : p.msg = q.msg => p = q
  BY DEF MessageInv, OneReceive
<1>7. failed' \cap InTransit' = {}
  BY DEF Takes, MessageInv, Apart, sendVars
<1>8. CASE Getting(m) # {}
  <2>1. unexpected_frags' = unexpected_frags
    BY <1>2, <1>8
  <2>2. OwnUnexpected'
    BY <1>0, <2>1 DEF OwnUnexpected, Elements, Increasing
  <2>3. \A p \in matched' : \/ p \in matched
                            \/ p.msg = m /\ \E r \in Getting(m) : p = [req |-> r, msg |-> m]
                                                                 /\ p.req = r
    BY <1>2
  <2>4. \A p \in matched' : /\ p.req.type = "RECV"
                            /\ p.msg \notin Elements(unexpected_frags[p.msg.src])
    BY <1>3, <1>4, <1>5, <2>3
  <2>5. \A p, q \in matched' : p.msg = q.msg => p = q
    BY <1>3, <1>4, <1>6, <2>3
  <2>6. OneReceive'
    BY <2>1, <2>4, <2>5 DEF OneReceive, Elements
  <2>. QED  BY <1>1, <1>7, <2>2, <2>6
<1>9. CASE Getting(m) = {}
  <2>1. unexpected_frags' = [unexpected_frags EXCEPT ![m.src] = Append(@, m)]
    BY <1>2, <1>9
  <2>2. matched' = matched
    BY <1>2, <1>9
  <2>3. \A s \in Source : unexpected_frags'[s] =
          IF s = m.src THEN Append(unexpected_frags[s], m) ELSE unexpected_frags[s]
    BY <1>0, <2>1 DEF QueueTypes
  <2>4. \A s \in Source : Elements(unexpected_frags'[s]) =
          IF s = m.src THEN Elements(unexpected_frags[s]) \cup {m}
          ELSE Elements(unexpected_frags[s])
    <3>1. Elements(Append(unexpected_frags[m.src], m)) =
            Elements(unexpected_frags[m.src]) \cup {m}
      BY <1>0, <1>1, AppendIs DEF QueueTypes
    <3>. QED  BY <2>3, <3>1
  <2>5. Increasing(Append(unexpected_frags[m.src], m))
    <3>1. PICK q \in Seq(Message) : q = unexpected_frags[m.src]
      BY <1>0, <1>1 DEF QueueTypes
    <3>2. \A i, j \in DOMAIN q : i < j => q[i].n < q[j].n
      BY <1>0, <1>1, <3>1 DEF OwnUnexpected, Increasing
    <3>3. \A i \in DOMAIN q : q[i].n < m.n
      <4>1. \A i \in DOMAIN q : q[i] \in Taken(m.src)
        BY <1>0, <1>1, <3>1 DEF Taken, Elements, OwnUnexpected
      <4>. QED  BY <1>1, <4>1
    <3>4. /\ DOMAIN Append(q, m) = 1..Len(q) + 1 /\ Append(q, m)[Len(q) + 1] = m
          /\ \A i \in 1..Len(q) : Append(q, m)[i] = q[i]
          /\ DOMAIN q = 1..Len(q) /\ Len(q) \in Nat
      OBVIOUS
    <3>5. PICK l \in Nat : l = Len(q)
      BY <3>4
    <3>6. \A i, j \in 1..l + 1 : i < j => i \in 1..l /\ (j \in 1..l \/ j = l + 1)
      OBVIOUS
    <3>7. \A i, j \in DOMAIN Append(q, m) : i < j => Append(q, m)[i].n < Append(q, m)[j].n
      BY <3>2, <3>3, <3>4, <3>5, <3>6
    <3>. QED  BY <3>1, <3>7 DEF Increasing
  <2>6. OwnUnexpected'
    <3>1. \A s \in Source : Increasing(unexpected_frags'[s])
      BY <1>0, <2>3, <2>5 DEF OwnUnexpected
    <3>2. \A s \in Source : \A u \in Elements(unexpected_frags'[s]) : u.src = s
      BY <1>0, <2>4 DEF OwnUnexpected
    <3>. QED  BY <3>1, <3>2 DEF OwnUnexpected, Elements, Increasing
  <2>7. \A p \in matched : p.msg.src \in Source
    BY <1>0, MessageIs DEF QueueTypes
  <2>8. \A p \in matched : p.msg \notin Elements(unexpected_frags'[p.msg.src])
    BY <1>3, <1>5, <2>4, <2>7
  <2>9. OneReceive'
    BY <1>5, <1>6, <2>2, <2>8 DEF OneReceive, Elements
  <2>. QED  BY <1>1, <1>7, <2>6, <2>9
<1>. QED  BY <1>8, <1>9

\* A message that goes on.
LEMMA MovesMessages ==
    ASSUME Known, MessageInv, Moves
    PROVE  /\ FirstTaken' /\ OthersAhead' /\ OwnUnexpected' /\ OneReceive'
           /\ failed' \cap InTransit' = {}
<1>1. \A s \in Source : Taken(s)' = Taken(s)
  BY DEF Taken, Elements, Moves, queueVars, matchVars
<1>2. Untaken' = Untaken /\ failed' \cap InTransit' = {}
  BY DEF Moves, Untaken, MessageInv, Apart, sendVars
<1>3. FirstTaken' /\ OthersAhead'
  BY <1>1, <1>2, SameMessages DEF Known, MessageInv, Moves, sendVars
<1>4. OwnUnexpected'
  <2>1. OwnUnexpected
    BY OwnHalves DEF Known
  <2>. QED  BY <2>1 DEF OwnUnexpected, Elements, Increasing, Moves, queueVars
<1>5. OneReceive'
  BY DEF MessageInv, OneReceive, Elements, Moves, queueVars, matchVars
<1>. QED  BY <1>2, <1>3, <1>4, <1>5

\* The rest of Apart, and what a callback must leave as it is.
OnItsWay ==
    /\ network \cap (InHand \cup Elements(pending)) = {}
    /\ \A s \in Source : Ahead(s) \cap (network \cup InHand) = {}
    /\ \A t, u \in Thread :
         pc[t] = "match" /\ pc[u] = "match" /\ hand[t] = hand[u] => t = u
    /\ \A i, j \in DOMAIN pending : pending[i] = pending[j] => i = j

LEMMA ApartHalves ==
    /\ Apart <=> failed \cap InTransit = {} /\ OnItsWay
    /\ Apart' <=> failed' \cap InTransit' = {} /\ OnItsWay'
  BY DEF Apart, OnItsWay

\* The message expected stays found when it is, and by a thread that looks.
LEMMA StillFound ==
    ASSUME NothingStranded, NEW s \in Source, CanMatch(s)' \subseteq CanMatch(s),
           \A u \in Thread : pc[u] = "drain" => pc'[u] = pc[u] /\ hand'[u] = hand[u]
    PROVE  CanMatch(s)' # {} => \E u \in Thread : pc'[u] = "drain" /\ hand'[u].src = s
<1>. SUFFICES ASSUME CanMatch(s) # {}
              PROVE  \E u \in Thread : pc'[u] = "drain" /\ hand'[u].src = s
  OBVIOUS
<1>1. PICK u \in Thread : pc[u] = "drain" /\ hand[u].src = s
  BY DEF NothingStranded
<1>. QED  BY <1>1

LEMMA CallbackRest ==
    ASSUME Known, NothingStranded, NEW t \in Thread, Callback(t)
    PROVE  OnItsWay' /\ OwnParked' /\ NothingStranded' /\ Beginning'
<1>0. /\ RestTyped /\ ProcTyped /\ OnItsWay /\ OwnParked /\ Beginning
      /\ pending \in Seq(Message)
  BY TypedParts, ApartHalves, OwnHalves DEF Known, RestTyped
<1>1. PICK m \in network :
        /\ network' = network \ {m}
        /\ \/ /\ ~comm
              /\ pending' = Append(pending, m)
              /\ UNCHANGED <<procVars, queueVars, matchVars, threadVars>>
           \/ /\ comm /\ InTurn(m) /\ Advance(m.src)
              /\ UNCHANGED <<pending, frags_cant_match, threadVars>>
           \/ /\ comm
              /\ pc' = [pc EXCEPT ![t] = "match"]
              /\ hand' = [hand EXCEPT ![t] = m]
              /\ UNCHANGED <<pending, procVars, queueVars, matchVars>>
  BY DEF Callback, Matches
<1>2. pc[t] = "idle" /\ comm' = comm
  BY DEF Callback, Matches
<1>3. m \in Message /\ m.src \in Source /\ m \notin InHand /\ m \notin Elements(pending)
      /\ \A s \in Source : m \notin Ahead(s)
  BY <1>0, MessageIs DEF RestTyped, OnItsWay
<1>4. CASE /\ ~comm
           /\ pending' = Append(pending, m)
           /\ UNCHANGED <<procVars, queueVars, matchVars, threadVars>>
  <2>1. InHand' = InHand /\ \A s \in Source : Ahead(s)' = Ahead(s)
    BY <1>4 DEF InHand, Ahead, threadVars, procVars, Elements
  <2>2. Elements(pending)' = Elements(pending) \cup {m}
    <3>1. Elements(Append(pending, m)) = Elements(pending) \cup {m}
      BY <1>0, <1>3, AppendIs
    <3>. QED  BY <1>4, <3>1
  <2>3. \A i, j \in DOMAIN pending' : pending'[i] = pending'[j] => i = j
    <3>1. /\ DOMAIN Append(pending, m) = 1..Len(pending) + 1
          /\ Append(pending, m)[Len(pending) + 1] = m
          /\ \A i \in 1..Len(pending) : Append(pending, m)[i] = pending[i]
          /\ DOMAIN pending = 1..Len(pending) /\ Len(pending) \in Nat
      BY <1>0
    <3>2. PICK l \in Nat : l = Len(pending)
      BY <3>1
    <3>3. \A i \in 1..l + 1 : i \in 1..l \/ i = l + 1
      OBVIOUS
    <3>4. \A i \in DOMAIN pending : pending[i] # m
      BY <1>3 DEF Elements
    <3>. QED  BY <1>0, <1>4, <3>1, <3>2, <3>3, <3>4 DEF OnItsWay
  <2>4. OnItsWay'
    BY <1>0, <1>1, <1>4, <2>1, <2>2, <2>3 DEF OnItsWay, threadVars
  <2>5. OwnParked'
    BY <1>0, <2>1 DEF OwnParked
  <2>6. NothingStranded'
    BY <1>4 DEF NothingStranded, CanMatch, hdr_seq, procVars, threadVars
  <2>7. Waiting' = Waiting
    BY <1>4 DEF Waiting, Elements, queueVars
  <2>8. Beginning'
    <3>1. ~comm' /\ matched' = {} /\ Waiting' = {}
      BY <1>0, <1>2, <1>4, <2>7 DEF Beginning, matchVars
    <3>2. \A u \in Thread : pc'[u] = "idle"
      BY <1>0, <1>4 DEF Beginning, threadVars
    <3>3. \A s \in Source : /\ Ahead(s)' = {} /\ Elements(unexpected_frags[s])' = {}
                           /\ frags_cant_match'[s] = <<>>
      <4>1. unexpected_frags' = unexpected_frags /\ frags_cant_match' = frags_cant_match
        BY <1>4 DEF queueVars, procVars
      <4>2. \A s \in Source : Elements(unexpected_frags[s])' = Elements(unexpected_frags[s])
        BY <4>1 DEF Elements
      <4>. QED  BY <1>0, <1>4, <2>1, <4>1, <4>2 DEF Beginning
    <3>. QED  BY <3>1, <3>2, <3>3 DEF Beginning
  <2>. QED  BY <2>4, <2>5, <2>6, <2>8
<1>5. CASE /\ comm /\ InTurn(m) /\ Advance(m.src)
           /\ UNCHANGED <<pending, frags_cant_match, threadVars>>
  <2>1. /\ InHand' = InHand /\ \A s \in Source : Ahead(s)' = Ahead(s)
        /\ Elements(pending)' = Elements(pending)
    BY <1>5 DEF InHand, Ahead, threadVars, Elements
  <2>2. OnItsWay'
    BY <1>0, <1>1, <1>5, <2>1 DEF OnItsWay, threadVars
  <2>3. OwnParked'
    BY <1>0, <2>1 DEF OwnParked
  <2>4. ASSUME NEW s \in Source, CanMatch(s)' # {}
        PROVE  \E u \in Thread : pc'[u] = "drain" /\ hand'[u].src = s
    <3>1. CASE s = m.src
      <4>1. frags_cant_match'[s] = <<>>
        BY <1>5, <3>1 DEF InTurn
      <4>2. CanMatch(s)' = {}
        BY <4>1 DEF CanMatch
      <4>. QED  BY <2>4, <4>2
    <3>2. CASE s # m.src
      <4>1. expected_sequence'[s] = expected_sequence[s]
        BY <1>0, <1>3, <1>5, <3>2 DEF Advance, ProcTyped
      <4>2. CanMatch(s)' \subseteq CanMatch(s)
        BY <1>5, <4>1 DEF CanMatch, hdr_seq
      <4>. QED  BY <1>5, <2>4, <4>2, StillFound DEF threadVars
    <3>. QED  BY <3>1, <3>2
  <2>5. NothingStranded'
    BY <2>4 DEF NothingStranded
  <2>6. Beginning'
    BY <1>0, <1>2, <1>5 DEF Beginning
  <2>. QED  BY <2>2, <2>3, <2>5, <2>6
<1>6. CASE /\ comm
           /\ pc' = [pc EXCEPT ![t] = "match"]
           /\ hand' = [hand EXCEPT ![t] = m]
           /\ UNCHANGED <<pending, procVars, queueVars, matchVars>>
  <2>1. InHand' = InHand \cup {m}
    BY <1>0, <1>2, <1>6, HandTakes
  <2>2. /\ \A s \in Source : Ahead(s)' = Ahead(s)
        /\ Elements(pending)' = Elements(pending)
    BY <1>6 DEF Ahead, procVars, Elements
  <2>3. /\ pc'[t] = "match" /\ hand'[t] = m
        /\ \A u \in Thread : u # t => pc'[u] = pc[u] /\ hand'[u] = hand[u]
    BY <1>0, <1>6 DEF RestTyped
  <2>4. \A v, u \in Thread :
          pc'[v] = "match" /\ pc'[u] = "match" /\ hand'[v] = hand'[u] => v = u
    <3>1. \A u \in Thread : u # t /\ pc'[u] = "match" => hand'[u] # m
      BY <1>3, <2>3 DEF InHand
    <3>. QED  BY <1>0, <2>3, <3>1 DEF OnItsWay
  <2>5. OnItsWay'
    BY <1>0, <1>1, <1>3, <1>6, <2>1, <2>2, <2>4 DEF OnItsWay
  <2>6. OwnParked'
    BY <1>0, <2>2 DEF OwnParked
  <2>7. \A s \in Source : CanMatch(s)' \subseteq CanMatch(s)
    BY <1>6 DEF CanMatch, hdr_seq, procVars
  <2>8. \A u \in Thread : pc[u] = "drain" => pc'[u] = pc[u] /\ hand'[u] = hand[u]
    BY <1>2, <2>3
  <2>9. NothingStranded'
    BY <2>7, <2>8, StillFound DEF NothingStranded
  <2>10. Beginning'
    BY <1>0, <1>2, <1>6 DEF Beginning
  <2>. QED  BY <2>5, <2>6, <2>9, <2>10
<1>. QED  BY <1>1, <1>4, <1>5, <1>6

LEMMA FragMatchRest ==
    ASSUME Known, NothingStranded, NEW t \in Thread, FragMatch(t)
    PROVE  OnItsWay' /\ OwnParked' /\ NothingStranded' /\ Beginning'
<1>0. RestTyped /\ ProcTyped /\ Apart /\ OnItsWay /\ OwnParked
  BY TypedParts, ApartHalves, OwnHalves DEF Known
<1>1. PICK m : m = hand[t]
  OBVIOUS
<1>2. pc[t] = "match" /\ UNCHANGED <<network, comm, pending>>
  BY DEF FragMatch, Matches
<1>3. comm /\ pending = <<>> /\ m \in Message /\ m.src \in Source
  BY <1>1, <1>2, BusyIs
<1>4. m \in InHand /\ m \notin network
  BY <1>0, <1>1, <1>2 DEF InHand, OnItsWay
<1>5. Elements(pending)' = Elements(pending) /\ Beginning'
  BY <1>2, <1>3 DEF Elements, Beginning
<1>6. ASSUME pc'[t] # "match", \A u \in Thread : u # t => pc'[u] = pc[u] /\ hand'[u] = hand[u]
      PROVE  /\ InHand' = InHand \ {m}
             /\ \A v, u \in Thread :
                  pc'[v] = "match" /\ pc'[u] = "match" /\ hand'[v] = hand'[u] => v = u
  <2>1. InHand' = InHand \ {hand[t]}
    BY <1>0, <1>2, <1>6, HandDrops
  <2>. QED  BY <1>0, <1>1, <1>6, <2>1 DEF OnItsWay
<1>7. CASE /\ expected_sequence' = [expected_sequence EXCEPT ![m.src] = (@ + 1) % SeqSpace]
           /\ pc' = [pc EXCEPT ![t] = "drain"]
           /\ UNCHANGED <<frags_cant_match, hand>>
  <2>1. /\ pc'[t] = "drain" /\ hand'[t] = m
        /\ \A u \in Thread : u # t => pc'[u] = pc[u] /\ hand'[u] = hand[u]
    BY <1>0, <1>1, <1>7 DEF RestTyped
  <2>2. \A s \in Source : Ahead(s)' = Ahead(s)
    BY <1>7 DEF Ahead, Elements
  <2>3. OnItsWay'
    BY <1>0, <1>2, <1>5, <1>6, <2>1, <2>2 DEF OnItsWay
  <2>4. OwnParked'
    BY <1>0, <2>2 DEF OwnParked
  <2>5. ASSUME NEW s \in Source, CanMatch(s)' # {}
        PROVE  \E u \in Thread : pc'[u] = "drain" /\ hand'[u].src = s
    <3>1. CASE s = m.src
      BY <2>1, <3>1
    <3>2. CASE s # m.src
      <4>1. expected_sequence'[s] = expected_sequence[s]
        BY <1>0, <1>3, <1>7, <3>2 DEF ProcTyped
      <4>2. CanMatch(s)' \subseteq CanMatch(s)
        BY <1>7, <4>1 DEF CanMatch, hdr_seq
      <4>3. \A u \in Thread : pc[u] = "drain" => pc'[u] = pc[u] /\ hand'[u] = hand[u]
        BY <1>2, <2>1
      <4>. QED  BY <2>5, <4>2, <4>3, StillFound
    <3>. QED  BY <3>1, <3>2
  <2>. QED  BY <1>5, <2>3, <2>4, <2>5 DEF NothingStranded
<1>8. CASE /\ hdr_seq(m) # expected_sequence[m.src]
           /\ frags_cant_match' = [frags_cant_match EXCEPT ![m.src] = Append(@, m)]
           /\ pc' = [pc EXCEPT ![t] = "idle"]
           /\ hand' = [hand EXCEPT ![t] = NoMsg]
           /\ expected_sequence' = expected_sequence
  <2>1. /\ pc'[t] = "idle"
        /\ \A u \in Thread : u # t => pc'[u] = pc[u] /\ hand'[u] = hand[u]
    BY <1>0, <1>8 DEF RestTyped
  <2>2. \A s \in Source : frags_cant_match'[s] =
          IF s = m.src THEN Append(frags_cant_match[s], m) ELSE frags_cant_match[s]
    BY <1>0, <1>8 DEF ProcTyped
  <2>3. \A s \in Source : Ahead(s)' = IF s = m.src THEN Ahead(s) \cup {m} ELSE Ahead(s)
    <3>1. Elements(Append(frags_cant_match[m.src], m)) =
            Elements(frags_cant_match[m.src]) \cup {m}
      BY <1>0, <1>3, AppendIs DEF ProcTyped
    <3>. TAKE s \in Source
    <3>2. Ahead(s)' = Elements(frags_cant_match'[s])
      BY DEF Ahead, Elements
    <3>. QED  BY <2>2, <3>1, <3>2 DEF Ahead
  <2>4. InHand' = InHand \ {m}
    BY <1>6, <2>1
  <2>5. OnItsWay'
    <3>1. \A s \in Source : Ahead(s)' \cap (network' \cup InHand') = {}
      BY <1>0, <1>2, <1>4, <2>3, <2>4 DEF OnItsWay
    <3>. QED  BY <1>0, <1>2, <1>5, <1>6, <2>1, <2>4, <3>1 DEF OnItsWay
  <2>6. OwnParked'
    BY <1>0, <2>3 DEF OwnParked
  <2>7. ASSUME NEW s \in Source, CanMatch(s)' # {}
        PROVE  \E u \in Thread : pc'[u] = "drain" /\ hand'[u].src = s
    <3>1. CanMatch(s)' \subseteq CanMatch(s)
      <4>1. CASE s = m.src
        <5>1. PICK q \in Seq(Message) : q = frags_cant_match[s]
          BY <1>0 DEF ProcTyped
        <5>2. frags_cant_match'[s] = Append(q, m)
          BY <2>2, <4>1, <5>1
        <5>3. /\ DOMAIN Append(q, m) = 1..Len(q) + 1 /\ Append(q, m)[Len(q) + 1] = m
              /\ \A i \in 1..Len(q) : Append(q, m)[i] = q[i]
              /\ DOMAIN q = 1..Len(q) /\ Len(q) \in Nat
          BY <1>3
        <5>4. PICK l \in Nat : l = Len(q)
          BY <5>3
        <5>5. \A i \in 1..l + 1 : i \in 1..l \/ i = l + 1
          OBVIOUS
        <5>6. \A i \in DOMAIN Append(q, m) : \/ i \in DOMAIN q /\ Append(q, m)[i] = q[i]
                                            \/ Append(q, m)[i] = m
          BY <5>3, <5>4, <5>5
        <5>7. \A i \in CanMatch(s)' : i \in DOMAIN Append(q, m) /\
                hdr_seq(Append(q, m)[i]) = expected_sequence[s]
          BY <1>8, <5>2 DEF CanMatch, hdr_seq
        <5>8. \A i \in DOMAIN q : hdr_seq(q[i]) = expected_sequence[s] => i \in CanMatch(s)
          BY <5>1 DEF CanMatch
        <5>. QED  BY <1>8, <4>1, <5>6, <5>7, <5>8
      <4>2. CASE s # m.src
        <5>1. frags_cant_match'[s] = frags_cant_match[s]
          BY <2>2, <4>2
        <5>. QED  BY <1>8, <5>1 DEF CanMatch, hdr_seq
      <4>. QED  BY <4>1, <4>2
    <3>2. \A u \in Thread : pc[u] = "drain" => pc'[u] = pc[u] /\ hand'[u] = hand[u]
      BY <1>2, <2>1
    <3>. QED  BY <2>7, <3>1, <3>2, StillFound
  <2>. QED  BY <1>5, <2>5, <2>6, <2>7 DEF NothingStranded
<1>. QED  BY <1>1, <1>7, <1>8 DEF FragMatch, Advance

LEMMA DrainRest ==
    ASSUME Known, NothingStranded, NEW t \in Thread, Drain(t)
    PROVE  OnItsWay' /\ OwnParked' /\ NothingStranded' /\ Beginning'
<1>0. RestTyped /\ ProcTyped /\ OnItsWay /\ OwnParked
  BY TypedParts, ApartHalves, OwnHalves DEF Known
<1>1. PICK s : s = hand[t].src
  OBVIOUS
<1>2. pc[t] = "drain" /\ UNCHANGED <<network, comm, pending>>
  BY DEF Drain, Matches
<1>3. comm /\ pending = <<>> /\ s \in Source
  BY <1>1, <1>2, BusyIs
<1>4. Elements(pending)' = Elements(pending) /\ Beginning'
  BY <1>2, <1>3 DEF Elements, Beginning
<1>5. ASSUME NEW m,
             frags_cant_match' = [frags_cant_match EXCEPT ![s] = Without(@, {m})],
             Advance(s), UNCHANGED threadVars
      PROVE  OnItsWay' /\ OwnParked' /\ NothingStranded'
  <2>1. InHand' = InHand /\ pc' = pc /\ hand' = hand
    BY <1>5 DEF InHand, threadVars
  <2>2. \A u \in Source : frags_cant_match'[u] =
          IF u = s THEN Without(frags_cant_match[u], {m}) ELSE frags_cant_match[u]
    BY <1>0, <1>5 DEF ProcTyped
  <2>3. \A u \in Source : Ahead(u)' \subseteq Ahead(u)
    <3>1. Elements(Without(frags_cant_match[s], {m})) = Elements(frags_cant_match[s]) \ {m}
      BY <1>0, <1>3, WithoutIs DEF ProcTyped
    <3>. TAKE u \in Source
    <3>2. Ahead(u)' = Elements(frags_cant_match'[u])
      BY DEF Ahead, Elements
    <3>. QED  BY <2>2, <3>1, <3>2 DEF Ahead
  <2>4. OnItsWay'
    BY <1>0, <1>2, <1>4, <2>1, <2>3 DEF OnItsWay
  <2>5. OwnParked'
    BY <1>0, <2>3 DEF OwnParked
  <2>6. ASSUME NEW u \in Source, CanMatch(u)' # {}
        PROVE  \E v \in Thread : pc'[v] = "drain" /\ hand'[v].src = u
    <3>1. CASE u = s
      BY <1>1, <1>2, <2>1, <3>1
    <3>2. CASE u # s
      <4>1. expected_sequence'[u] = expected_sequence[u]
        BY <1>0, <1>3, <1>5, <3>2 DEF Advance, ProcTyped
      <4>2. frags_cant_match'[u] = frags_cant_match[u]
        BY <2>2, <3>2
      <4>3. CanMatch(u)' \subseteq CanMatch(u)
        BY <4>1, <4>2 DEF CanMatch, hdr_seq
      <4>. QED  BY <2>1, <2>6, <4>3, StillFound
    <3>. QED  BY <3>1, <3>2
  <2>. QED  BY <2>4, <2>5, <2>6 DEF NothingStranded
<1>6. CASE /\ CanMatch(s) = {}
           /\ pc' = [pc EXCEPT ![t] = "idle"]
           /\ hand' = [hand EXCEPT ![t] = NoMsg]
           /\ UNCHANGED procVars
  <2>1. /\ pc'[t] = "idle"
        /\ \A u \in Thread : u # t => pc'[u] = pc[u] /\ hand'[u] = hand[u]
    BY <1>0, <1>6 DEF RestTyped
  <2>2. InHand' = InHand /\ \A u \in Source : Ahead(u)' = Ahead(u)
    BY <1>2, <1>6, <2>1 DEF InHand, Ahead, Elements, procVars
  <2>3. OnItsWay'
    BY <1>0, <1>2, <1>4, <2>1, <2>2 DEF OnItsWay
  <2>4. OwnParked'
    BY <1>0, <2>2 DEF OwnParked
  <2>5. ASSUME NEW u \in Source, CanMatch(u)' # {}
        PROVE  \E v \in Thread : pc'[v] = "drain" /\ hand'[v].src = u
    <3>1. CanMatch(u)' = CanMatch(u)
      BY <1>6 DEF CanMatch, hdr_seq, procVars
    <3>2. PICK v \in Thread : pc[v] = "drain" /\ hand[v].src = u
      BY <2>5, <3>1 DEF NothingStranded
    <3>3. v # t
      BY <1>1, <1>6, <2>5, <3>1, <3>2
    <3>. QED  BY <2>1, <3>2, <3>3
  <2>. QED  BY <1>4, <2>3, <2>4, <2>5 DEF NothingStranded
<1>7. \/ \E m : /\ frags_cant_match' = [frags_cant_match EXCEPT ![s] = Without(@, {m})]
                /\ Advance(s) /\ UNCHANGED threadVars
      \/ /\ CanMatch(s) = {}
         /\ pc' = [pc EXCEPT ![t] = "idle"]
         /\ hand' = [hand EXCEPT ![t] = NoMsg]
         /\ UNCHANGED procVars
  BY <1>1 DEF Drain, Matches
<1>. QED  BY <1>4, <1>5, <1>6, <1>7

----------------------------------------------------------------------------
(* What a step does to the requests *)

\* Requests leave their queues.
LEMMA QueuesShrink ==
    ASSUME Posted, recv_sequence \in Nat, recv_sequence' \in Nat,
           recv_sequence <= recv_sequence', Waiting \subseteq Request,
           Elements(wild_receives') \subseteq Elements(wild_receives),
           \A s \in Source :
             Elements(specific_receives'[s]) \subseteq Elements(specific_receives[s])
    PROVE  Posted' /\ Waiting' \subseteq Waiting
<1>1. \A x : x \in Waiting' => x \in Waiting
  <2>1. \A x : x \in Waiting' => x \in Elements(wild_receives') \/
                                 \E s \in Source : x \in Elements(specific_receives'[s])
    BY DEF Waiting, Elements
  <2>. QED  BY <2>1 DEF Waiting
<1>2. \A r \in Waiting' : r.no <= recv_sequence'
  <2>1. \A r \in Waiting : r.no \in Nat /\ r.no <= recv_sequence
    BY RequestIs DEF Posted
  <2>. QED  BY <1>1, <2>1
<1>3. \A r \in Elements(wild_receives)' : r.peer = AnySource
  <2>1. Elements(wild_receives)' = Elements(wild_receives')
    BY DEF Elements
  <2>. QED  BY <2>1 DEF Posted
<1>4. \A s \in Source : \A r \in Elements(specific_receives[s])' : r.peer = s
  <2>1. \A s \in Source : Elements(specific_receives[s])' = Elements(specific_receives'[s])
    BY DEF Elements
  <2>. QED  BY <2>1 DEF Posted
<1>. QED  BY <1>1, <1>2, <1>3, <1>4 DEF Posted

\* A message that is taken: who gets or sees it leaves, and no other.
LEMMA MatchOneRequests ==
    ASSUME QueueTypes, Posted, NEW m \in Message, Matches(m)
    PROVE  /\ Elements(wild_receives') = Elements(wild_receives) \ (Getting(m) \cup Seeing(m))
           /\ \A s \in Source : Elements(specific_receives'[s]) =
                Elements(specific_receives[s]) \ (Getting(m) \cup Seeing(m))
           /\ Waiting' = Waiting \ (Getting(m) \cup Seeing(m))
<1>. DEFINE W == Getting(m) \cup Seeing(m)
<1>1. /\ specific_receives' = [specific_receives EXCEPT ![m.src] = Without(@, W)]
      /\ wild_receives' = Without(wild_receives, W)
  BY MatchOneIs
<1>2. \A r \in W : Accepts(r, m)
  <2>1. W \subseteq Interested(m)
    BY InterestedIs
  <2>. QED  BY <2>1 DEF Interested
<1>. HIDE DEF W
<1>3. Elements(wild_receives') = Elements(wild_receives) \ W
  BY <1>1, WithoutIs DEF QueueTypes
<1>4. ASSUME NEW s \in Source
      PROVE  Elements(specific_receives'[s]) = Elements(specific_receives[s]) \ W
  <2>1. CASE s = m.src
    <3>1. specific_receives'[s] = Without(specific_receives[s], W)
      BY <1>1, <2>1 DEF QueueTypes
    <3>. QED  BY <3>1, WithoutIs DEF QueueTypes
  <2>2. CASE s # m.src
    <3>1. specific_receives'[s] = specific_receives[s]
      BY <1>1, <2>2 DEF QueueTypes
    <3>2. s # AnySource
      BY DEF Source, AnySource
    <3>3. \A r \in Elements(specific_receives[s]) : r \notin W
      BY <1>2, <2>2, <3>2 DEF Posted, Accepts
    <3>. QED  BY <3>1, <3>3
  <2>. QED  BY <2>1, <2>2
<1>5. Waiting' = Waiting \ W
  <2>1. \A x : x \in Waiting' <=> x \in Elements(wild_receives') \/
                                  \E s \in Source : x \in Elements(specific_receives'[s])
    BY DEF Waiting, Elements
  <2>2. \A x : x \in Waiting <=> x \in Elements(wild_receives) \/
                                 \E s \in Source : x \in Elements(specific_receives[s])
    BY DEF Waiting
  <2>3. \A x : x \in Waiting' <=> x \in Waiting /\ x \notin W
    BY <1>3, <1>4, <2>1, <2>2
  <2>. QED  BY <2>3
<1>. QED  BY <1>3, <1>4, <1>5 DEF W

\* A message that no receive gets is one that none accepts.
LEMMA NoneGets ==
    ASSUME QueueTypes, NEW m \in Message
    PROVE  /\ Getting(m) = {} <=> Receives(Interested(m)) = {}
           /\ Getting(m) = {} => Seeing(m) = Interested(m)
<1>1. Receives(Interested(m)) \subseteq Request /\ Receives(Interested(m)) \subseteq Interested(m)
  BY InterestedIs DEF Receives
<1>2. ASSUME Receives(Interested(m)) # {} PROVE Getting(m) # {}
  <2>. DEFINE R == Receives(Interested(m))
              N == {r.no : r \in R}
  <2>1. N \in SUBSET Nat /\ N # {}
    BY <1>1, <1>2, RequestIs
  <2>2. PICK k \in N : \A j \in N : k <= j
    <3>. HIDE DEF N
    <3>. QED  BY <2>1, Least
  <2>3. PICK r \in R : r.no = k
    BY <2>2
  <2>4. r \in Earliest(R)
    BY <2>2, <2>3 DEF Earliest
  <2>. QED  BY <2>4 DEF Getting
<1>3. Receives(Interested(m)) = {} => Getting(m) = {}
  BY DEF Getting, Earliest
<1>4. ASSUME Receives(Interested(m)) = {} PROVE Seeing(m) = Interested(m)
  <2>1. \A r \in Interested(m) : r.type # "RECV"
    BY <1>4 DEF Receives
  <2>. QED  BY <1>4, <2>1 DEF Seeing
<1>. QED  BY <1>2, <1>3, <1>4

LEMMA TakesRequests ==
    ASSUME Known, MessageInv, RequestInv, NEW m, Takes(m)
    PROVE  RequestInv'
<1>0. /\ Typed /\ QueueTypes /\ Posted /\ NoneMissed /\ NoneOvertaken
      /\ recv_sequence \in Nat /\ recv_sequence' = recv_sequence
  BY TypedParts DEF Known, RequestInv, RestTyped, Takes, requestVars
<1>1. /\ m \in Message /\ m.src \in Source
      /\ Taken(m.src)' = Taken(m.src) \cup {m}
      /\ \A s \in Source : s # m.src => Taken(s)' = Taken(s)
      /\ \A u \in Taken(m.src) : u.n < m.n
  BY <1>0, TakesMessages DEF MessageInv, Apart
<1>2. Matches(m)
  BY DEF Takes
<1>3. /\ Elements(wild_receives') = Elements(wild_receives) \ (Getting(m) \cup Seeing(m))
      /\ \A s \in Source : Elements(specific_receives'[s]) =
           Elements(specific_receives[s]) \ (Getting(m) \cup Seeing(m))
  BY <1>0, <1>1, <1>2, MatchOneRequests
<1>4. /\ matched' = matched \cup {[req |-> r, msg |-> m] : r \in Getting(m)}
      /\ unexpected_frags' = IF Getting(m) # {} THEN unexpected_frags
                             ELSE [unexpected_frags EXCEPT ![m.src] = Append(@, m)]
  BY <1>2, MatchOneIs
<1>5. Posted'
  BY <1>0, <1>3, QueuesShrink, WaitingType
<1>6. ASSUME NEW s \in Source, NEW u \in Elements(unexpected_frags'[s]),
             NEW r \in Elements(specific_receives'[s]) \cup Elements(wild_receives')
      PROVE  ~Accepts(r, u)
  <2>1. r \in Elements(specific_receives[s]) \cup Elements(wild_receives)
    BY <1>3
  <2>2. CASE u \in Elements(unexpected_frags[s])
    BY <1>0, <2>1, <2>2 DEF NoneMissed
  <2>3. CASE u \notin Elements(unexpected_frags[s])
    <3>1. Getting(m) = {}
      BY <1>4, <2>3
    <3>2. unexpected_frags' = [unexpected_frags EXCEPT ![m.src] = Append(@, m)]
      BY <1>4, <3>1
    <3>3. s = m.src
      BY <1>0, <2>3, <3>2 DEF QueueTypes
    <3>4. unexpected_frags'[s] = Append(unexpected_frags[s], m)
      BY <1>0, <3>2, <3>3 DEF QueueTypes
    <3>5. Elements(Append(unexpected_frags[s], m)) = Elements(unexpected_frags[s]) \cup {m}
      BY <1>0, <1>1, AppendIs DEF QueueTypes
    <3>6. u = m
      BY <2>3, <3>4, <3>5
    <3>7. r \notin Interested(m)
      BY <1>0, <1>1, <1>3, <3>1, NoneGets
    <3>. QED  BY <2>1, <3>3, <3>6, <3>7 DEF Interested
  <2>. QED  BY <2>2, <2>3
<1>7. NoneMissed'
  BY <1>6 DEF NoneMissed, Elements
<1>8. \A p \in matched : p.msg \in Message /\ p.msg.src \in Source /\ p.msg \in Taken(p.msg.src)
                         /\ p.msg.n \in Nat
  BY <1>0, MessageIs DEF QueueTypes, Taken
<1>9. ASSUME NEW p \in matched', NEW u \in Taken(p.msg.src)', u.n < p.msg.n, Accepts(p.req, u)
      PROVE  \E q \in matched' : q.msg = u
  <2>1. CASE p \in matched
    <3>1. u \in Taken(p.msg.src)
      <4>1. CASE p.msg.src # m.src
        BY <1>1, <1>8, <2>1, <4>1
      <4>2. CASE p.msg.src = m.src
        <5>1. p.msg.n < m.n
          BY <1>1, <1>8, <2>1, <4>2
        <5>2. m.n \in Nat
          BY <1>1, MessageIs
        <5>3. u # m
          BY <1>8, <1>9, <2>1, <5>1, <5>2
        <5>. QED  BY <1>1, <1>9, <4>2, <5>3
      <4>. QED  BY <4>1, <4>2
    <3>2. \E q \in matched : q.msg = u
      BY <1>0, <1>9, <2>1, <3>1 DEF NoneOvertaken
    <3>. QED  BY <1>4, <3>2
  <2>2. ASSUME NEW r \in Getting(m), p = [req |-> r, msg |-> m]
        PROVE  \E q \in matched' : q.msg = u
    <3>1. p.req = r /\ p.msg = m
      BY <2>2
    <3>2. m.n \in Nat
      BY <1>1, MessageIs
    <3>3. u \in Taken(m.src)
      BY <1>1, <1>9, <3>1, <3>2
    <3>4. r \in Elements(specific_receives[m.src]) \cup Elements(wild_receives)
      <4>1. r \in Interested(m)
        BY <1>0, <1>1, InterestedIs
      <4>. QED  BY <4>1 DEF Interested
    <3>5. u \notin Elements(unexpected_frags[m.src])
      BY <1>0, <1>1, <1>9, <3>1, <3>4 DEF NoneMissed
    <3>6. \E q \in matched : q.msg = u
      BY <3>3, <3>5 DEF Taken
    <3>. QED  BY <1>4, <3>6
  <2>. QED  BY <1>4, <2>1, <2>2
<1>10. NoneOvertaken'
  <2>. SUFFICES ASSUME NEW p \in matched', NEW u \in Taken(p.msg.src)',
                       u.n < p.msg.n /\ Accepts(p.req, u)'
                PROVE  \E q \in matched' : q.msg = u
    BY DEF NoneOvertaken
  <2>1. Accepts(p.req, u)
    BY DEF Accepts
  <2>. QED  BY <1>9, <2>1
<1>. QED  BY <1>5, <1>7, <1>10 DEF RequestInv

\* Nothing is matched and no request is added.
LEMMA NothingMatched ==
    ASSUME Typed, RequestInv, UNCHANGED matched,
           recv_sequence' \in Nat, recv_sequence <= recv_sequence',
           \A s \in Source : Taken(s)' = Taken(s),
           \A s \in Source : Elements(unexpected_frags'[s]) = Elements(unexpected_frags[s]),
           Elements(wild_receives') \subseteq Elements(wild_receives),
           \A s \in Source :
             Elements(specific_receives'[s]) \subseteq Elements(specific_receives[s])
    PROVE  RequestInv'
<1>0. QueueTypes /\ Posted /\ NoneMissed /\ NoneOvertaken /\ recv_sequence \in Nat
  BY TypedParts DEF RequestInv, RestTyped
<1>1. Posted'
  BY <1>0, QueuesShrink, WaitingType
<1>2. NoneMissed'
  <2>. SUFFICES ASSUME NEW s \in Source, NEW u \in Elements(unexpected_frags'[s]),
                       NEW r \in Elements(specific_receives'[s]) \cup Elements(wild_receives')
                PROVE  ~Accepts(r, u)
    BY DEF NoneMissed, Elements, Accepts
  <2>. QED  BY <1>0 DEF NoneMissed
<1>3. NoneOvertaken'
  <2>1. \A p \in matched : p.msg.src \in Source
    BY <1>0, MessageIs DEF QueueTypes
  <2>. QED  BY <1>0, <2>1 DEF NoneOvertaken, Accepts
<1>. QED  BY <1>1, <1>2, <1>3 DEF RequestInv

LEMMA MovesRequests ==
    ASSUME Typed, RequestInv, Moves
    PROVE  RequestInv'
<1>1. /\ \A s \in Source : Taken(s)' = Taken(s)
      /\ unexpected_frags' = unexpected_frags /\ wild_receives' = wild_receives
      /\ specific_receives' = specific_receives
      /\ recv_sequence' = recv_sequence /\ matched' = matched
  BY DEF Taken, Elements, Moves, queueVars, matchVars, requestVars
<1>2. recv_sequence \in Nat
  BY TypedParts DEF RestTyped
<1>. QED  BY <1>1, <1>2, NothingMatched

LEMMA SendRequests ==
    ASSUME Typed, RequestInv, NEW s \in Source, SendStart(s)
    PROVE  RequestInv'
<1>1. UNCHANGED <<queueVars, matchVars, requestVars>>
  BY DEF SendStart
<1>2. \A u \in Source : Taken(u)' = Taken(u)
  BY <1>1 DEF Taken, Elements, queueVars, matchVars
<1>3. recv_sequence \in Nat
  BY TypedParts DEF RestTyped
<1>. QED  BY <1>1, <1>2, <1>3, NothingMatched DEF queueVars, matchVars, requestVars

LEMMA CancelRequests ==
    ASSUME Typed, RequestInv, Cancel, ~corrupt'
    PROVE  RequestInv'
<1>0. QueueTypes /\ recv_sequence \in Nat
  BY TypedParts DEF RestTyped
<1>1. PICK r : /\ wild_receives' = Without(wild_receives, {r})
               /\ specific_receives' = [s \in Source |-> Without(specific_receives[s], {r})]
  BY CancelIs DEF Leaves
<1>2. UNCHANGED <<unexpected_frags, matchVars, recv_sequence>>
  BY CancelIs
<1>3. \A s \in Source : Taken(s)' = Taken(s)
  BY <1>2 DEF Taken, Elements, matchVars
<1>4. /\ Elements(wild_receives') = Elements(wild_receives) \ {r}
      /\ \A s \in Source : Elements(Without(specific_receives[s], {r})) =
                             Elements(specific_receives[s]) \ {r}
  BY <1>0, <1>1, WithoutIs DEF QueueTypes
<1>5. /\ Elements(wild_receives') \subseteq Elements(wild_receives)
      /\ \A s \in Source :
           Elements(specific_receives'[s]) \subseteq Elements(specific_receives[s])
  BY <1>1, <1>4
<1>6. /\ matched' = matched /\ unexpected_frags' = unexpected_frags
      /\ recv_sequence' = recv_sequence
  BY <1>2 DEF matchVars
<1>. QED  BY <1>0, <1>3, <1>5, <1>6, NothingMatched

LEMMA CompleteRequests ==
    ASSUME Typed, RequestInv, PmlComplete \/ \E t \in Thread : MarkMatched(t)
    PROVE  RequestInv'
<1>1. UNCHANGED <<queueVars, matched, requestVars>>
  BY DEF PmlComplete, MarkMatched
<1>2. \A s \in Source : Taken(s)' = Taken(s)
  BY <1>1 DEF Taken, Elements, queueVars
<1>3. recv_sequence \in Nat
  BY TypedParts DEF RestTyped
<1>. QED  BY <1>1, <1>2, <1>3, NothingMatched DEF queueVars, requestVars

LEMMA AddCommRequests ==
    ASSUME Typed, Beginning, RequestInv, AddComm
    PROVE  RequestInv'
<1>0. QueueTypes /\ Posted /\ recv_sequence \in Nat
  BY TypedParts DEF RequestInv, RestTyped
<1>1. matched = {} /\ Waiting = {}
  BY AddCommIs DEF Beginning
<1>2. /\ matched' = matched /\ recv_sequence' = recv_sequence
      /\ wild_receives' = wild_receives /\ specific_receives' = specific_receives
  BY AddCommIs DEF matchVars, requestVars
<1>3. Posted'
  BY <1>0, <1>2, QueuesShrink, WaitingType
<1>4. Elements(wild_receives) = {} /\ \A s \in Source : Elements(specific_receives[s]) = {}
  BY <1>0, <1>1, WaitingType
<1>5. NoneMissed'
  <2>. SUFFICES ASSUME NEW s \in Source, NEW u \in Elements(unexpected_frags'[s]),
                       NEW r \in Elements(specific_receives'[s]) \cup Elements(wild_receives')
                PROVE  FALSE
    BY DEF NoneMissed, Elements
  <2>. QED  BY <1>2, <1>4
<1>6. NoneOvertaken'
  BY <1>1, <1>2 DEF NoneOvertaken
<1>. QED  BY <1>3, <1>5, <1>6 DEF RequestInv

\* A request that is queued is the last, and accepts nothing that waits.
LEMMA QueuesRequests ==
    ASSUME Known, RequestInv, NEW r \in Request, Queues(r),
           r.no = recv_sequence + 1, recv_sequence' = recv_sequence + 1
    PROVE  RequestInv' /\ Waiting' = Waiting \cup {r}
<1>0. /\ Typed /\ OwnQueues /\ QueueTypes /\ Posted /\ NoneMissed /\ NoneOvertaken
      /\ recv_sequence \in Nat
  BY TypedParts DEF Known, RequestInv, RestTyped
<1>1. unexpected_frags' = unexpected_frags /\ matched' = matched
  BY DEF Queues, matchVars
<1>2. \A s \in Source : \A m \in Elements(unexpected_frags[s]) : ~Accepts(r, m)
  BY <1>0, FoundIs DEF Queues
<1>3. /\ Elements(Append(wild_receives, r)) = Elements(wild_receives) \cup {r}
      /\ \A s \in Source : Elements(Append(specific_receives[s], r)) =
                             Elements(specific_receives[s]) \cup {r}
  BY <1>0, AppendIs DEF QueueTypes
<1>4. \/ /\ r.peer = AnySource
         /\ Elements(wild_receives') = Elements(wild_receives) \cup {r}
         /\ \A s \in Source : Elements(specific_receives'[s]) = Elements(specific_receives[s])
      \/ /\ r.peer \in Source
         /\ Elements(wild_receives') = Elements(wild_receives)
         /\ \A s \in Source : Elements(specific_receives'[s]) =
              IF s = r.peer THEN Elements(specific_receives[s]) \cup {r}
              ELSE Elements(specific_receives[s])
  <2>1. CASE r.peer = AnySource
    BY <1>3, <2>1 DEF Queues
  <2>2. CASE r.peer # AnySource
    <3>1. r.peer \in Source
      BY <2>2, RequestIs
    <3>2. /\ wild_receives' = wild_receives
          /\ \A s \in Source : specific_receives'[s] =
               IF s = r.peer THEN Append(specific_receives[s], r) ELSE specific_receives[s]
      BY <1>0, <2>2 DEF Queues, QueueTypes
    <3>. QED  BY <1>3, <3>1, <3>2
  <2>. QED  BY <2>1, <2>2
<1>5. Waiting' = Waiting \cup {r}
  <2>1. \A x : x \in Waiting' <=> x \in Elements(wild_receives') \/
                                  \E s \in Source : x \in Elements(specific_receives'[s])
    BY DEF Waiting, Elements
  <2>2. \A x : x \in Waiting <=> x \in Elements(wild_receives) \/
                                 \E s \in Source : x \in Elements(specific_receives[s])
    BY DEF Waiting
  <2>3. \A x : x \in Waiting' <=> x \in Waiting \/ x = r
    BY <1>4, <2>1, <2>2
  <2>. QED  BY <2>3
<1>6. Posted'
  <2>1. \A q \in Waiting : q.no \in Nat /\ q.no <= recv_sequence
    BY <1>0, WaitingType, RequestIs DEF Posted
  <2>2. \A q \in Waiting' : q.no <= recv_sequence'
    BY <1>0, <1>5, <2>1
  <2>3. \A q, v \in Waiting' : q.no = v.no => q = v
    BY <1>0, <1>5, <2>1 DEF Posted
  <2>4. \A q \in Elements(wild_receives') : q.peer = AnySource
    BY <1>0, <1>4 DEF Posted
  <2>5. \A s \in Source : \A q \in Elements(specific_receives'[s]) : q.peer = s
    BY <1>0, <1>4 DEF Posted
  <2>6. /\ Elements(wild_receives)' = Elements(wild_receives')
        /\ \A s \in Source : Elements(specific_receives[s])' = Elements(specific_receives'[s])
    BY DEF Elements
  <2>. QED  BY <2>2, <2>3, <2>4, <2>5, <2>6 DEF Posted
<1>7. NoneMissed'
  <2>. SUFFICES ASSUME NEW s \in Source, NEW u \in Elements(unexpected_frags'[s]),
                       NEW q \in Elements(specific_receives'[s]) \cup Elements(wild_receives')
                PROVE  ~Accepts(q, u)
    BY DEF NoneMissed, Elements, Accepts
  <2>1. u \in Elements(unexpected_frags[s])
    BY <1>1
  <2>2. q \in Elements(specific_receives[s]) \cup Elements(wild_receives) \/ q = r
    BY <1>4
  <2>. QED  BY <1>0, <1>2, <2>1, <2>2 DEF NoneMissed
<1>8. NoneOvertaken'
  <2>1. \A s : Taken(s)' = Taken(s)
    BY <1>1 DEF Taken, Elements
  <2>. QED  BY <1>0, <1>1, <2>1 DEF NoneOvertaken, Accepts
<1>. QED  BY <1>5, <1>6, <1>7, <1>8 DEF RequestInv

\* The first message in the queue that r accepts is the first that was sent.
LEMMA FirstIsFirst ==
    ASSUME QueueTypes, OwnQueues, NEW r, NEW m \in Message, FirstAccepted(r, m.src, m),
           NEW u \in Elements(unexpected_frags[m.src]), u.n < m.n
    PROVE  ~Accepts(r, u)
<1>. SUFFICES ASSUME Accepts(r, u) PROVE FALSE
  OBVIOUS
<1>. DEFINE q == unexpected_frags[m.src]
<1>0. m.src \in Source
  BY MessageIs
<1>1. PICK i \in DOMAIN q : m = q[i] /\ \A j \in 1..i - 1 : ~Accepts(r, q[j])
  BY DEF FirstAccepted
<1>2. PICK j \in DOMAIN q : u = q[j]
  BY DEF Elements
<1>3. DOMAIN q = 1..Len(q) /\ Len(q) \in Nat
  BY <1>0 DEF QueueTypes
<1>4. i \in Nat /\ j \in Nat /\ 1 <= j
  BY <1>3
<1>5. ~ (j < i)
  BY <1>1, <1>2, <1>4
<1>6. u.n \in Nat /\ m.n \in Nat
  <2>1. u \in Message
    BY <1>0, <1>2 DEF QueueTypes
  <2>. QED  BY <2>1, MessageIs
<1>7. i < j => m.n < u.n
  BY <1>0, <1>1, <1>2 DEF OwnQueues
<1>8. i = j => m = u
  BY <1>1, <1>2
<1>. QED  BY <1>4, <1>5, <1>6, <1>7, <1>8

LEMMA GetsRequests ==
    ASSUME Known, MessageInv, NothingStranded, RequestInv,
           NEW r \in Request, NEW m \in Found(r), Gets(r, m),
           UNCHANGED <<sendVars, network, pending, procVars, threadVars>>,
           recv_sequence' = recv_sequence + 1
    PROVE  RequestInv'
<1>0. /\ Typed /\ OwnQueues /\ QueueTypes /\ Posted /\ NoneMissed /\ NoneOvertaken
      /\ recv_sequence \in Nat
  BY TypedParts DEF Known, RequestInv, RestTyped
<1>1. /\ wild_receives' = wild_receives /\ specific_receives' = specific_receives
      /\ matched' = matched \cup {[req |-> r, msg |-> m]}
  BY DEF Gets
<1>2. /\ \A s \in Source : Elements(unexpected_frags'[s]) =
                             Elements(unexpected_frags[s]) \ {m}
      /\ \A s \in Source : Taken(s)' = Taken(s)
  BY GetsMessages
<1>3. m \in Message /\ m.src \in Source /\ FirstAccepted(r, m.src, m)
  BY <1>0, FoundIs
<1>4. Posted'
  BY <1>0, <1>1, QueuesShrink, WaitingType
<1>5. NoneMissed'
  <2>. SUFFICES ASSUME NEW s \in Source, NEW u \in Elements(unexpected_frags'[s]),
                       NEW q \in Elements(specific_receives'[s]) \cup Elements(wild_receives')
                PROVE  ~Accepts(q, u)
    BY DEF NoneMissed, Elements, Accepts
  <2>. QED  BY <1>0, <1>1, <1>2 DEF NoneMissed
<1>6. ASSUME NEW u \in Taken(m.src), u.n < m.n, Accepts(r, u)
      PROVE  u \notin Elements(unexpected_frags[m.src])
  BY <1>0, <1>3, <1>6, FirstIsFirst
<1>7. NoneOvertaken'
  <2>. SUFFICES ASSUME NEW p \in matched', NEW u \in Taken(p.msg.src)',
                       u.n < p.msg.n /\ Accepts(p.req, u)'
                PROVE  \E q \in matched' : q.msg = u
    BY DEF NoneOvertaken
  <2>1. Accepts(p.req, u)
    BY DEF Accepts
  <2>2. CASE p \in matched
    <3>1. p.msg.src \in Source
      BY <1>0, <2>2, MessageIs DEF QueueTypes
    <3>2. u \in Taken(p.msg.src)
      BY <1>2, <3>1
    <3>. QED  BY <1>0, <1>1, <2>1, <2>2, <3>2 DEF NoneOvertaken
  <2>3. CASE p = [req |-> r, msg |-> m]
    <3>1. p.req = r /\ p.msg = m
      BY <2>3
    <3>2. u \in Taken(m.src)
      BY <1>2, <1>3, <3>1
    <3>3. u \notin Elements(unexpected_frags[m.src])
      BY <1>6, <2>1, <3>1, <3>2
    <3>. QED  BY <1>1, <3>2, <3>3 DEF Taken
  <2>. QED  BY <1>1, <2>2, <2>3
<1>. QED  BY <1>4, <1>5, <1>7 DEF RequestInv

LEMMA RecvRequests ==
    ASSUME Known, MessageInv, NothingStranded, RequestInv, RecvReqStart
    PROVE  RequestInv'
<1>0. Typed /\ recv_sequence \in Nat
  BY TypedParts DEF Known, RestTyped
<1>1. /\ UNCHANGED <<sendVars, network, comm, pending, procVars, cancelled, corrupt,
                     threadVars>>
      /\ recv_sequence' = recv_sequence + 1
  BY RecvReqStartIs
<1>2. PICK r \in Request : /\ r.no = recv_sequence + 1
                           /\ \/ Queues(r) \/ FindsNone(r)
                              \/ \E m \in Found(r) : Gets(r, m) \/ Sees(r, m)
  BY RecvReqStartIs
<1>3. CASE Queues(r)
  BY <1>1, <1>2, <1>3, QueuesRequests
<1>4. ASSUME NEW m \in Found(r), Gets(r, m) PROVE RequestInv'
  BY <1>1, <1>4, GetsRequests
<1>5. CASE FindsNone(r) \/ \E m : Sees(r, m)
  <2>1. UNCHANGED <<queueVars, matched>>
    BY <1>5 DEF FindsNone, Sees, matchVars
  <2>2. \A s \in Source : Taken(s)' = Taken(s)
    BY <2>1 DEF Taken, Elements, queueVars
  <2>. QED  BY <1>0, <1>1, <2>1, <2>2, NothingMatched DEF queueVars
<1>. QED  BY <1>2, <1>3, <1>4, <1>5

----------------------------------------------------------------------------
(* The invariant *)

LEMMA InitInv == Init => MatchInv
<1>. SUFFICES ASSUME Init PROVE MatchInv
  OBVIOUS
<1>1. /\ failed = {} /\ network = {} /\ pending = <<>> /\ matched = {}
      /\ wild_receives = <<>> /\ recv_sequence = 0
      /\ \A t \in Thread : pc[t] = "idle"
      /\ \A s \in Source : /\ send_sequence[s] = First
                           /\ expected_sequence[s] = (First + 1) % SeqSpace
                           /\ frags_cant_match[s] = <<>> /\ unexpected_frags[s] = <<>>
                           /\ specific_receives[s] = <<>>
  BY DEF Init
<1>2. /\ InHand = {} /\ Elements(pending) = {} /\ Elements(wild_receives) = {}
      /\ \A s \in Source : /\ Ahead(s) = {} /\ Elements(unexpected_frags[s]) = {}
                           /\ Elements(specific_receives[s]) = {}
  BY <1>1, NothingPending DEF InHand, Ahead
<1>3. Waiting = {} /\ InTransit = {} /\ Untaken = {}
  BY <1>1, <1>2 DEF Waiting, InTransit, Untaken
<1>4. \A s \in Source : Taken(s) = {} /\ Count(s) = 0
  <2>1. \A s \in Source : Taken(s) = {}
    BY <1>1, <1>2 DEF Taken
  <2>. QED  BY <2>1, FS_EmptySet DEF Count
<1>5. Typed
  BY InitTyped
<1>6. Beginning
  BY <1>1, <1>2, <1>3 DEF Beginning
<1>7. FirstTaken
  <2>. SUFFICES ASSUME NEW s \in Source
                PROVE  /\ IsFiniteSet(Taken(s))
                       /\ {m.n : m \in Taken(s)} = First + 1..First + Count(s)
                       /\ \A m, u \in Taken(s) : m.n = u.n => m = u
                       /\ expected_sequence[s] = (First + Count(s) + 1) % SeqSpace
                       /\ send_sequence[s] \in First + Count(s)..First + Count(s) + MaxAhead
    BY DEF FirstTaken
  <2>1. First + 1..First + 0 = {} /\ First + 0 + 1 = First + 1
    OBVIOUS
  <2>2. First \in First + 0..First + 0 + MaxAhead
    OBVIOUS
  <2>. QED  BY <1>1, <1>4, <2>1, <2>2, FS_EmptySet
<1>8. OthersAhead
  <2>1. \A s \in Source : First + Count(s) + 1..send_sequence[s] = {}
    <3>1. First + 0 + 1..First = {}
      OBVIOUS
    <3>. QED  BY <1>1, <1>4, <3>1
  <2>. QED  BY <1>3, <2>1 DEF OthersAhead
<1>9. Apart
  BY <1>1, <1>2, <1>3 DEF Apart
<1>10. OwnQueues
  BY <1>1, <1>2 DEF OwnQueues
<1>11. OneReceive
  BY <1>1 DEF OneReceive
<1>12. Posted
  BY <1>2, <1>3 DEF Posted
<1>13. NoneMissed /\ NoneOvertaken
  BY <1>1, <1>2 DEF NoneMissed, NoneOvertaken
<1>14. NothingStranded
  BY <1>1 DEF NothingStranded, CanMatch
<1>. QED  BY <1>5, <1>6, <1>7, <1>8, <1>9, <1>10, <1>11, <1>12, <1>13, <1>14
          DEF MatchInv, MessageInv, RequestInv

\* A callback, the routine and its rest: what each moves or takes.
LEMMA InvParts ==
    MatchInv => /\ Known /\ MessageInv /\ RequestInv /\ NothingStranded
                /\ Typed /\ Beginning /\ FirstTaken /\ OthersAhead /\ Apart /\ OwnQueues
                /\ Posted
  BY DEF MatchInv, MessageInv, Known, RequestInv

LEMMA ThreadStep ==
    ASSUME MatchInv, NEW t \in Thread, Callback(t) \/ FragMatch(t) \/ Drain(t)
    PROVE  MatchInv'
<1>0. Known /\ MessageInv /\ RequestInv /\ NothingStranded /\ Posted /\ Typed
  BY InvParts
<1>1. OnItsWay' /\ OwnParked' /\ NothingStranded' /\ Beginning'
  BY <1>0, CallbackRest, FragMatchRest, DrainRest
<1>2. Typed'
  BY <1>0, CallbackTyped, FragMatchTyped, DrainTyped
<1>3. Moves \/ \E m : Takes(m)
  BY <1>0, CallbackIs, FragMatchIs, DrainIs
<1>4. /\ FirstTaken' /\ OthersAhead' /\ OwnUnexpected' /\ OneReceive'
      /\ failed' \cap InTransit' = {} /\ RequestInv'
  BY <1>0, <1>3, MovesMessages, MovesRequests, TakesQueues, TakesRequests
<1>5. Apart' /\ OwnQueues'
  BY <1>1, <1>4, ApartHalves, OwnHalves
<1>. QED  BY <1>1, <1>2, <1>4, <1>5 DEF MatchInv, MessageInv

LEMMA SameBeginning ==
    ASSUME Beginning, UNCHANGED <<comm, pending, procVars, queueVars, matched, pc>>
    PROVE  Beginning'
<1>1. /\ Waiting' = Waiting
      /\ \A s \in Source : /\ Ahead(s)' = Ahead(s)
                           /\ Elements(unexpected_frags[s])' = Elements(unexpected_frags[s])
                           /\ frags_cant_match'[s] = frags_cant_match[s]
  BY DEF Waiting, Ahead, Elements, procVars, queueVars
<1>. QED  BY <1>1 DEF Beginning

LEMMA SendStep ==
    ASSUME MatchInv, NEW s \in Source, SendStart(s)
    PROVE  MatchInv'
<1>0. /\ Known /\ MessageInv /\ RequestInv /\ NothingStranded /\ Typed /\ Beginning
      /\ FirstTaken /\ OthersAhead /\ Apart
  BY InvParts
<1>1. FirstTaken' /\ OthersAhead' /\ Apart'
  BY <1>0, SendMessages
<1>2. UNCHANGED <<comm, pending, procVars, queueVars, matchVars, requestVars, threadVars>>
  BY DEF SendStart
<1>3. OwnQueues' /\ OneReceive'
  BY <1>0, <1>2 DEF MessageInv, OwnQueues, OneReceive, Ahead, Elements, procVars, queueVars,
                    matchVars
<1>4. NothingStranded'
  BY <1>0, <1>2 DEF NothingStranded, CanMatch, hdr_seq, procVars, threadVars
<1>5. Beginning'
  BY <1>0, <1>2, SameBeginning DEF matchVars, threadVars
<1>6. Typed' /\ RequestInv'
  BY <1>0, SendTyped, SendRequests
<1>. QED  BY <1>1, <1>3, <1>4, <1>5, <1>6 DEF MatchInv, MessageInv

LEMMA AddCommStep ==
    ASSUME MatchInv, AddComm
    PROVE  MatchInv'
<1>0. /\ Known /\ MessageInv /\ RequestInv /\ NothingStranded /\ Typed /\ Beginning
      /\ FirstTaken /\ OthersAhead
  BY InvParts
<1>1. FirstTaken' /\ OthersAhead' /\ Apart' /\ OwnQueues' /\ NothingStranded'
  BY <1>0, AddCommMessages
<1>2. OneReceive'
  <2>1. matched' = {}
    BY <1>0, AddCommIs DEF Beginning, matchVars
  <2>. QED  BY <2>1 DEF OneReceive
<1>3. Beginning'
  BY AddCommIs DEF Beginning
<1>4. Typed' /\ RequestInv'
  BY <1>0, AddCommTyped, AddCommRequests
<1>. QED  BY <1>1, <1>2, <1>3, <1>4 DEF MatchInv, MessageInv

LEMMA RecvStep ==
    ASSUME MatchInv, RecvReqStart
    PROVE  MatchInv'
<1>0. /\ Known /\ MessageInv /\ RequestInv /\ NothingStranded /\ Typed /\ Beginning
      /\ OwnQueues
  BY InvParts
<1>1. MessageInv' /\ NothingStranded'
  BY <1>0, RecvMessages
<1>2. Typed' /\ RequestInv'
  BY <1>0, RecvTyped, RecvRequests
<1>3. Beginning'
  BY <1>0, RecvReqStartIs DEF Beginning
<1>. QED  BY <1>1, <1>2, <1>3 DEF MatchInv

LEMMA RestStep ==
    ASSUME MatchInv, ~corrupt',
           Cancel \/ PmlComplete \/ \E t \in Thread : MarkMatched(t)
    PROVE  MatchInv'
<1>0. /\ Known /\ MessageInv /\ RequestInv /\ NothingStranded /\ Typed /\ Beginning
      /\ QueueTypes
  BY InvParts, TypedParts
<1>1. MessageInv' /\ NothingStranded'
  BY <1>0, RestMessages
<1>2. Typed' /\ RequestInv'
  BY <1>0, CancelTyped, CompleteTyped, CancelRequests, CompleteRequests
<1>3. /\ UNCHANGED <<sendVars, network, comm, pending, procVars, matched, unexpected_frags,
                     threadVars>>
      /\ Waiting' \subseteq Waiting
  <2>1. CASE PmlComplete \/ \E t \in Thread : MarkMatched(t)
    BY <2>1 DEF PmlComplete, MarkMatched, queueVars, Waiting, Elements
  <2>2. CASE Cancel
    <3>1. PICK r : /\ wild_receives' = Without(wild_receives, {r})
                   /\ specific_receives' =
                        [s \in Source |-> Without(specific_receives[s], {r})]
      BY <2>2, CancelIs DEF Leaves
    <3>2. /\ Elements(wild_receives') = Elements(wild_receives) \ {r}
          /\ \A s \in Source : Elements(Without(specific_receives[s], {r})) =
                                 Elements(specific_receives[s]) \ {r}
      BY <1>0, <3>1, WithoutIs DEF QueueTypes
    <3>3. \A s \in Source : Elements(specific_receives'[s]) \subseteq
                              Elements(specific_receives[s])
      BY <3>1, <3>2
    <3>4. \A x : x \in Waiting' => x \in Waiting
      <4>1. \A x : x \in Waiting' => \/ x \in Elements(wild_receives')
                                     \/ \E s \in Source : x \in Elements(specific_receives'[s])
        BY DEF Waiting, Elements
      <4>. QED  BY <3>2, <3>3, <4>1 DEF Waiting
    <3>. QED  BY <2>2, <3>4, CancelIs DEF matchVars
  <2>. QED  BY <2>1, <2>2
<1>4. Beginning'
  <2>1. CASE comm
    BY <1>0, <1>3, <2>1 DEF Beginning
  <2>2. CASE ~comm
    <3>1. matched' = {} /\ Waiting' = {} /\ ~comm'
      BY <1>0, <1>3, <2>2 DEF Beginning
    <3>2. \A t \in Thread : pc'[t] = "idle"
      BY <1>0, <1>3, <2>2 DEF Beginning, threadVars
    <3>3. \A s \in Source : /\ Ahead(s)' = Ahead(s)
                            /\ Elements(unexpected_frags[s])' = Elements(unexpected_frags[s])
                            /\ frags_cant_match'[s] = frags_cant_match[s]
      BY <1>3 DEF Ahead, Elements, procVars
    <3>. QED  BY <1>0, <2>2, <3>1, <3>2, <3>3 DEF Beginning
  <2>. QED  BY <2>1, <2>2
<1>. QED  BY <1>1, <1>2, <1>4 DEF MatchInv

LEMMA InvSame == MatchInv /\ UNCHANGED vars => MatchInv'
<1>. SUFFICES ASSUME MatchInv, UNCHANGED vars PROVE MatchInv'
  OBVIOUS
<1>0. /\ Known /\ MessageInv /\ RequestInv /\ NothingStranded /\ Typed /\ Beginning
  BY InvParts
<1>1. MessageInv' /\ NothingStranded'
  BY <1>0, NothingMoves DEF vars, queueVars, matchVars
<1>2. Moves
  <2>1. InTransit' = InTransit
    BY SameTransit DEF vars, sendVars, procVars, threadVars
  <2>. QED  BY <2>1 DEF Moves, vars, procVars
<1>3. RequestInv'
  BY <1>0, <1>2, MovesRequests
<1>4. Typed'
  BY <1>0 DEF Typed, TypeOK, vars, sendVars, procVars, queueVars, matchVars, requestVars,
              threadVars
<1>5. Beginning'
  BY <1>0, SameBeginning DEF vars, matchVars, threadVars
<1>. QED  BY <1>1, <1>3, <1>4, <1>5 DEF MatchInv

LEMMA NextInv ==
    ASSUME MatchInv, [Next]_vars, ~corrupt'
    PROVE  MatchInv'
<1>1. ASSUME NEW s \in Source, SendStart(s) PROVE MatchInv'
  BY <1>1, SendStep
<1>2. ASSUME NEW t \in Thread, Callback(t) \/ FragMatch(t) \/ Drain(t) PROVE MatchInv'
  BY <1>2, ThreadStep
<1>3. CASE AddComm
  BY <1>3, AddCommStep
<1>4. CASE RecvReqStart
  BY <1>4, RecvStep
<1>5. CASE PmlComplete \/ Cancel \/ \E t \in Thread : MarkMatched(t)
  BY <1>5, RestStep
<1>6. CASE UNCHANGED vars
  BY <1>6, InvSame
<1>. QED  BY <1>1, <1>2, <1>3, <1>4, <1>5, <1>6 DEF Next

\* A queue that is broken stays broken.
LEMMA CorruptStays == corrupt /\ [Next]_vars => corrupt'
<1>. SUFFICES ASSUME corrupt, [Next]_vars PROVE corrupt'
  OBVIOUS
<1>1. CASE Cancel
  BY <1>1, CancelIs
<1>2. corrupt' = corrupt \/ Cancel
  BY DEF Next, vars, SendStart, Callback, FragMatch, Drain, MarkMatched, AddComm,
         RecvReqStart, PmlComplete, requestVars
<1>. QED  BY <1>1, <1>2

LEMMA Invariant == Spec => []Safe
<1>1. Init => Safe
  BY InitInv DEF Safe, MatchInv
<1>2. Safe /\ [Next]_vars => Safe'
  BY NextInv, TypedNext, CorruptStays DEF Safe
<1>. QED  BY <1>1, <1>2, PTL DEF Spec

----------------------------------------------------------------------------
(* What follows from it *)

Received == {p.msg : p \in {q \in matched : q.req.type = "RECV"}}

LEMMA PlacesIs ==
    ASSUME NEW s
    PROVE  /\ DOMAIN Places(s) = 1..7
           /\ Places(s)[1] = failed /\ Places(s)[2] = network
           /\ Places(s)[3] = Elements(pending) /\ Places(s)[4] = InHand
           /\ Places(s)[5] = Ahead(s) /\ Places(s)[6] = Elements(unexpected_frags[s])
           /\ Places(s)[7] = Received
  BY DEF Places, Received

\* A message is in one of the places when it was taken or was not.
LEMMA EverythingIs ==
    ASSUME MatchInv
    PROVE  \A m : m \in UNION {UNION Elements(Places(s)) : s \in Source} <=>
                    m \in Untaken \/ \E s \in Source : m \in Taken(s)
<1>0. /\ Typed /\ QueueTypes /\ OwnQueues /\ OneReceive
      /\ 0 \in Source
  BY InvParts, TypedParts DEF MessageInv, Source
<1>1. \A s : \A m : m \in UNION Elements(Places(s)) <=>
        \/ m \in failed \/ m \in network \/ m \in Elements(pending) \/ m \in InHand
        \/ m \in Ahead(s) \/ m \in Elements(unexpected_frags[s]) \/ m \in Received
  <2>. TAKE s
  <2>1. \A i \in 1..7 : i \in {1, 2, 3, 4, 5, 6, 7}
    OBVIOUS
  <2>2. \A X : X \in Elements(Places(s)) <=>
          \/ X = failed \/ X = network \/ X = Elements(pending) \/ X = InHand
          \/ X = Ahead(s) \/ X = Elements(unexpected_frags[s]) \/ X = Received
    <3>1. \A X : X \in Elements(Places(s)) <=> \E i \in 1..7 : X = Places(s)[i]
      BY PlacesIs DEF Elements
    <3>2. \A X : X \in Elements(Places(s)) <=>
            \/ X = Places(s)[1] \/ X = Places(s)[2] \/ X = Places(s)[3]
            \/ X = Places(s)[4] \/ X = Places(s)[5] \/ X = Places(s)[6]
            \/ X = Places(s)[7]
      BY <2>1, <3>1
    <3>. QED  BY <3>2, PlacesIs
  <2>. QED  BY <2>2
<1>2. \A m : (\E p \in matched : p.msg = m) <=> m \in Received
  BY <1>0 DEF Received, OneReceive
<1>3. \A m \in Received : m.src \in Source
  BY <1>0, MessageIs DEF QueueTypes, Received
<1>4. \A m : (\E s \in Source : m \in Taken(s)) <=>
        \/ m \in Received
        \/ \E s \in Source : m \in Elements(unexpected_frags[s])
  <2>1. \A s \in Source : \A m : m \in Taken(s) <=>
          (m \in Elements(unexpected_frags[s]) \/ \E p \in matched : p.msg = m) /\ m.src = s
    BY DEF Taken
  <2>2. \A s \in Source : \A m \in Elements(unexpected_frags[s]) : m.src = s
    BY <1>0 DEF OwnQueues
  <2>. QED  BY <1>2, <1>3, <2>1, <2>2
<1>5. \A m : m \in Untaken <=> \/ m \in failed \/ m \in network \/ m \in InHand
                               \/ m \in Elements(pending)
                               \/ \E s \in Source : m \in Ahead(s)
  BY InTransitIs DEF Untaken
<1>6. \A m : m \in UNION {UNION Elements(Places(s)) : s \in Source} <=>
               \E s \in Source : m \in UNION Elements(Places(s))
  OBVIOUS
<1>7. \A m : (\E s \in Source : m \in UNION Elements(Places(s))) <=>
        m \in Untaken \/ \E s \in Source : m \in Taken(s)
  <2>. TAKE m
  <2>1. (\E s \in Source : m \in UNION Elements(Places(s))) <=>
          \/ m \in failed \/ m \in network \/ m \in Elements(pending) \/ m \in InHand
          \/ m \in Received
          \/ \E s \in Source : m \in Ahead(s)
          \/ \E s \in Source : m \in Elements(unexpected_frags[s])
    BY <1>0, <1>1
  <2>. QED  BY <1>4, <1>5, <2>1
<1>. QED  BY <1>6, <1>7

LEMMA EverywhereOnce ==
    ASSUME MatchInv, NEW s \in Source, NEW i \in 1..7, NEW j \in 1..7, i < j
    PROVE  Places(s)[i] \cap Places(s)[j] = {}
<1>0. /\ Typed /\ QueueTypes /\ Apart /\ OwnQueues /\ OneReceive /\ Beginning
      /\ FirstTaken /\ OthersAhead
  BY InvParts, TypedParts DEF MessageInv
<1>1. ASSUME NEW m \in Received
      PROVE  m \in Taken(m.src) /\ m.src \in Source
             /\ \A u \in Source : m \notin Elements(unexpected_frags[u])
  <2>1. PICK p \in matched : p.msg = m
    BY DEF Received
  <2>2. m.src \in Source
    BY <1>0, <2>1, MessageIs DEF QueueTypes
  <2>3. m \notin Elements(unexpected_frags[m.src])
    BY <1>0, <2>1 DEF OneReceive
  <2>4. \A u \in Source : m \notin Elements(unexpected_frags[u])
    BY <1>0, <2>2, <2>3 DEF OwnQueues
  <2>. QED  BY <2>1, <2>2, <2>4 DEF Taken
<1>2. \A m \in Elements(unexpected_frags[s]) : m \in Taken(s)
  BY <1>0 DEF OwnQueues, Taken
<1>3. \A m \in Elements(unexpected_frags[s]) \cup Received : m \notin Untaken
  BY <1>0, <1>1, <1>2, TakenIsNot
<1>4. /\ failed \cap InTransit = {} /\ network \cap (InHand \cup Elements(pending)) = {}
      /\ Ahead(s) \cap (network \cup InHand) = {}
  BY <1>0 DEF Apart
<1>5. Elements(pending) \cap (InHand \cup Ahead(s)) = {}
  <2>1. CASE comm
    BY <1>0, <2>1, NothingPending DEF Beginning
  <2>2. CASE ~comm
    BY <1>0, <2>2 DEF Beginning, InHand
  <2>. QED  BY <1>0, <2>1, <2>2 DEF Typed, TypeOK
<1>6. /\ network \subseteq InTransit /\ Elements(pending) \subseteq InTransit
      /\ InHand \subseteq InTransit /\ Ahead(s) \subseteq InTransit
      /\ InTransit \subseteq Untaken /\ failed \subseteq Untaken
  BY InTransitIs DEF Untaken
<1>7. Elements(unexpected_frags[s]) \cap Received = {}
  BY <1>1
<1>8. ASSUME NEW k \in 1..7, i = k PROVE Places(s)[i] \cap Places(s)[j] = {}
  <2>1. CASE k = 1
    <3>1. j \in {2, 3, 4, 5, 6, 7}
      BY <1>8, <2>1
    <3>. QED  BY <1>3, <1>4, <1>6, <1>8, <2>1, <3>1, PlacesIs
  <2>2. CASE k = 2
    <3>1. j \in {3, 4, 5, 6, 7}
      BY <1>8, <2>2
    <3>. QED  BY <1>3, <1>4, <1>6, <1>8, <2>2, <3>1, PlacesIs
  <2>3. CASE k = 3
    <3>1. j \in {4, 5, 6, 7}
      BY <1>8, <2>3
    <3>. QED  BY <1>3, <1>5, <1>6, <1>8, <2>3, <3>1, PlacesIs
  <2>4. CASE k = 4
    <3>1. j \in {5, 6, 7}
      BY <1>8, <2>4
    <3>. QED  BY <1>3, <1>4, <1>6, <1>8, <2>4, <3>1, PlacesIs
  <2>5. CASE k = 5
    <3>1. j \in {6, 7}
      BY <1>8, <2>5
    <3>. QED  BY <1>3, <1>6, <1>8, <2>5, <3>1, PlacesIs
  <2>6. CASE k = 6
    <3>1. j = 7
      BY <1>8, <2>6
    <3>. QED  BY <1>7, <1>8, <2>6, <3>1, PlacesIs
  <2>7. k \in {1, 2, 3, 4, 5, 6}
    BY <1>8
  <2>. QED  BY <2>1, <2>2, <2>3, <2>4, <2>5, <2>6, <2>7
<1>. QED  BY <1>8

LEMMA NothingLost == MatchInv => NoMessageLost
<1>. SUFFICES ASSUME MatchInv PROVE NoMessageLost
  OBVIOUS
<1>. DEFINE everything == UNION {UNION Elements(Places(s)) : s \in Source}
<1>0. /\ Typed /\ Apart /\ OwnQueues /\ OneReceive /\ FirstTaken /\ OthersAhead
      /\ send_sequence \in [Source -> Nat]
  BY InvParts DEF MessageInv, Typed
<1>1. \A m : m \in everything <=> m \in Untaken \/ \E s \in Source : m \in Taken(s)
  BY EverythingIs
<1>. HIDE DEF everything
<1>2. ASSUME NEW s \in Source, NEW i \in DOMAIN Places(s), NEW j \in DOMAIN Places(s), i # j
      PROVE  Places(s)[i] \cap Places(s)[j] = {}
  <2>1. i \in 1..7 /\ j \in 1..7
    BY PlacesIs
  <2>2. i < j \/ j < i
    BY <1>2, <2>1
  <2>. QED  BY <2>1, <2>2, EverywhereOnce
<1>3. \A s \in Source : \A m \in Ahead(s) \cup Elements(unexpected_frags[s]) : m.src = s
  BY <1>0 DEF OwnQueues
<1>4. ASSUME NEW s \in Source, NEW n \in First + 1..send_sequence[s]
      PROVE  \E m \in everything : m.src = s /\ m.n = n
  <2>1. PICK k \in Nat : k = Count(s)
    BY <1>0, CountType
  <2>2. {m.n : m \in Taken(s)} = First + 1..First + k
    BY <1>0, <2>1 DEF FirstTaken
  <2>3. CASE n <= First + k
    <3>1. n \in {m.n : m \in Taken(s)}
      BY <1>0, <2>2, <2>3
    <3>2. PICK m \in Taken(s) : m.n = n
      BY <3>1
    <3>. QED  BY <1>1, <3>2 DEF Taken
  <2>4. CASE ~ (n <= First + k)
    <3>1. n \in First + Count(s) + 1..send_sequence[s]
      BY <1>0, <2>1, <2>4
    <3>2. PICK m \in Untaken : m.src = s /\ m.n = n
      BY <1>0, <3>1 DEF OthersAhead
    <3>. QED  BY <1>1, <3>2
  <2>. QED  BY <2>3, <2>4
<1>5. ASSUME NEW m \in everything, NEW u \in everything, m.src = u.src, m.n = u.n
      PROVE  m = u
  <2>1. \A s \in Source : \A a, b \in Taken(s) : a.n = b.n => a = b
    BY <1>0 DEF FirstTaken
  <2>2. \A a, b \in Untaken : a.src = b.src /\ a.n = b.n => a = b
    BY <1>0 DEF OthersAhead
  <2>3. ASSUME NEW s \in Source, NEW a \in Taken(s), NEW b \in Untaken, b.src = s
        PROVE  a.n # b.n
    <3>1. PICK k \in Nat : k = Count(s)
      BY <1>0, CountType
    <3>2. a.n \in First + 1..First + k
      BY <1>0, <3>1 DEF FirstTaken
    <3>3. b.n \in First + k + 1..send_sequence[s]
      BY <1>0, <2>3, <3>1 DEF OthersAhead
    <3>. QED  BY <1>0, <3>2, <3>3
  <2>4. \A s \in Source : \A a \in Taken(s) : a.src = s
    BY DEF Taken
  <2>. QED  BY <1>1, <1>5, <2>1, <2>2, <2>3, <2>4
<1>6. \A t, u \in Thread : pc[t] = "match" /\ pc[u] = "match" /\ hand[t] = hand[u] => t = u
  BY <1>0 DEF Apart
<1>7. \A p, q \in matched : p.msg = q.msg => p = q
  BY <1>0 DEF OneReceive
<1>. QED  BY <1>2, <1>3, <1>4, <1>5, <1>6, <1>7 DEF NoMessageLost, everything

LEMMA Sequence == MatchInv => TakenInSequence
  BY DEF MatchInv, MessageInv, FirstTaken, TakenInSequence, Count

----------------------------------------------------------------------------
(* What MpiMatching sees of each step *)

\* The messages of all sources that wait.
Unexpected == UNION {Elements(unexpected_frags[s]) : s \in Source}

\* What a step shows when it shows nothing.
Hidden == /\ comm' = comm /\ InTransit' = InTransit /\ Unexpected' = Unexpected
          /\ Waiting' = Waiting /\ matched' = matched /\ probed' = probed
          /\ corrupt' = corrupt

LEMMA HiddenIs == Hidden => UNCHANGED Mpi!mpiVars
  BY DEF Hidden, Mpi!mpiVars, Unexpected

LEMMA SameAccepts ==
    ASSUME NEW r, NEW m
    PROVE  Mpi!Accepts(r, m) <=> Accepts(r, m)
  BY DEF Mpi!Accepts, Accepts, Mpi!AnySource, AnySource, Mpi!AnyTag, AnyTag

LEMMA UnexpectedIs ==
    /\ \A m : m \in Unexpected <=> \E s \in Source : m \in Elements(unexpected_frags[s])
    /\ \A m : m \in Unexpected' <=> \E s \in Source : m \in Elements(unexpected_frags'[s])
  BY DEF Unexpected, Elements

LEMMA MovesShows ==
    ASSUME Moves
    PROVE  Hidden
  BY DEF Moves, Hidden, Unexpected, Waiting, Elements, queueVars, matchVars, requestVars

LEMMA TakesShows ==
    ASSUME MatchInv, NEW m, Takes(m)
    PROVE  Mpi!Take
<1>0. /\ Typed /\ QueueTypes /\ Posted /\ FirstTaken /\ OthersAhead
      /\ m \in InTransit /\ m \in Message /\ m.src \in Source
  BY InvParts, TypedParts, InTransitType, MessageIs DEF Takes
<1>1. PICK k \in Nat : k = Count(m.src)
  BY <1>0, CountType
<1>2. m.n = First + k + 1
  BY <1>0, <1>1, Turn DEF Takes
<1>3. Mpi!Before(m, InTransit) = {}
  <2>1. \A u \in InTransit : u.src = m.src => u.n \in First + k + 1..send_sequence[m.src]
    BY <1>0, <1>1 DEF OthersAhead, Untaken
  <2>2. send_sequence[m.src] \in Nat
    BY <1>0 DEF Typed
  <2>3. \A u \in InTransit : ~ (u.src = m.src /\ u.n < m.n)
    BY <1>2, <2>1, <2>2
  <2>. QED  BY <2>3 DEF Mpi!Before
<1>4. /\ comm /\ comm' = comm /\ InTransit' = InTransit \ {m} /\ Matches(m)
      /\ corrupt' = corrupt
  BY DEF Takes, requestVars
<1>5. Waiting' = Waiting \ (Getting(m) \cup Seeing(m))
  BY <1>0, <1>4, MatchOneRequests
<1>6. {r \in Waiting : Mpi!Accepts(r, m)} = Interested(m)
  <2>1. ASSUME NEW r \in Waiting, Accepts(r, m) PROVE r \in Interested(m)
    <3>1. m.src # AnySource
      BY <1>0 DEF Source, AnySource
    <3>2. ASSUME NEW s \in Source, r \in Elements(specific_receives[s])
          PROVE  s = m.src
      <4>1. r.peer = s /\ s # AnySource
        BY <1>0, <3>2 DEF Posted, Source, AnySource
      <4>. QED  BY <2>1, <4>1 DEF Accepts
    <3>3. r \in Elements(specific_receives[m.src]) \cup Elements(wild_receives)
      BY <3>2 DEF Waiting
    <3>. QED  BY <2>1, <3>3 DEF Interested
  <2>2. Interested(m) \subseteq Waiting /\ \A r \in Interested(m) : Accepts(r, m)
    BY <1>0, OneGets DEF Interested
  <2>. QED  BY <2>1, <2>2, SameAccepts
<1>7. {r \in Interested(m) : r.type = "RECV"} = Receives(Interested(m))
  BY DEF Receives
<1>8. {r \in Receives(Interested(m)) : \A q \in Receives(Interested(m)) : r.no <= q.no}
        = Getting(m)
  BY DEF Getting, Earliest
<1>9. {r \in Interested(m) \ Receives(Interested(m)) :
         \A q \in Receives(Interested(m)) : r.no < q.no} = Seeing(m)
  BY DEF Seeing, Receives
<1>10. /\ matched' = matched \cup {[req |-> r, msg |-> m] : r \in Getting(m)}
       /\ probed' = probed \cup {[req |-> r, msg |-> m] : r \in Seeing(m)}
       /\ unexpected_frags' =
            IF Getting(m) # {} THEN unexpected_frags
            ELSE [unexpected_frags EXCEPT ![m.src] = Append(@, m)]
  BY MatchOneIs DEF Takes
<1>11. Unexpected' = IF Receives(Interested(m)) # {} THEN Unexpected ELSE Unexpected \cup {m}
  <2>1. CASE Getting(m) # {}
    <3>1. unexpected_frags' = unexpected_frags
      BY <1>10, <2>1
    <3>2. Unexpected' = Unexpected
      BY <3>1, UnexpectedIs
    <3>. QED  BY <1>0, <2>1, <3>2, NoneGets
  <2>2. CASE Getting(m) = {}
    <3>1. \A s \in Source : unexpected_frags'[s] =
            IF s = m.src THEN Append(unexpected_frags[s], m) ELSE unexpected_frags[s]
      BY <1>0, <1>10, <2>2 DEF QueueTypes
    <3>2. Elements(Append(unexpected_frags[m.src], m)) =
            Elements(unexpected_frags[m.src]) \cup {m}
      BY <1>0, AppendIs DEF QueueTypes
    <3>3. \A x : x \in Unexpected' <=> x \in Unexpected \/ x = m
      BY <1>0, <3>1, <3>2, UnexpectedIs
    <3>. QED  BY <1>0, <2>2, <3>3, NoneGets
  <2>. QED  BY <2>1, <2>2
<1>. DEFINE interested == {r \in Waiting : Mpi!Accepts(r, m)}
            receives == {r \in interested : r.type = "RECV"}
            first == {r \in receives : \A q \in receives : r.no <= q.no}
            probes == {r \in interested \ receives : \A q \in receives : r.no < q.no}
<1>12. interested = Interested(m)
  BY <1>6
<1>. HIDE DEF interested
<1>13. receives = Receives(Interested(m))
  BY <1>7, <1>12
<1>. HIDE DEF receives
<1>14. first = Getting(m)
  BY <1>8, <1>13
<1>15. probes = Seeing(m)
  BY <1>9, <1>12, <1>13
<1>. HIDE DEF first, probes
<1>16. /\ Waiting' = Waiting \ (first \cup probes)
       /\ matched' = matched \cup {Mpi!Pair(r, m) : r \in first}
       /\ probed' = probed \cup {Mpi!Pair(r, m) : r \in probes}
       /\ Unexpected' = IF receives # {} THEN Unexpected ELSE Unexpected \cup {m}
  BY <1>5, <1>10, <1>11, <1>13, <1>14, <1>15 DEF Mpi!Pair
<1>. QED  BY <1>0, <1>3, <1>4, <1>16
          DEF Mpi!Take, Unexpected, interested, receives, first, probes

LEMMA AddCommShows ==
    ASSUME MatchInv, AddComm
    PROVE  Mpi!Create
<1>0. Known /\ FirstTaken /\ OthersAhead
  BY InvParts
<1>1. /\ ~comm /\ comm' = TRUE /\ unexpected_frags' = [s \in Source |-> Row(s)]
      /\ wild_receives' = wild_receives /\ specific_receives' = specific_receives
      /\ matched' = matched /\ probed' = probed /\ corrupt' = corrupt
  BY AddCommIs DEF matchVars, requestVars
<1>2. /\ InRows \subseteq InTransit /\ InTransit' = InTransit \ InRows
      /\ \A m \in InRows : \A u \in InTransit : u.src = m.src /\ u.n < m.n => u \in InRows
  BY <1>0, AddCommMessages
<1>3. Unexpected' = InRows
  BY <1>1, UnexpectedIs DEF InRows
<1>4. Waiting' = Waiting
  BY <1>1 DEF Waiting, Elements
<1>5. \A m \in InRows : Mpi!Before(m, InTransit) \subseteq InRows
  BY <1>2 DEF Mpi!Before
<1>. QED  BY <1>1, <1>2, <1>3, <1>4, <1>5 DEF Mpi!Create, Unexpected

LEMMA PostShows ==
    ASSUME MatchInv, RecvReqStart
    PROVE  Mpi!Post
<1>0. /\ Known /\ Typed /\ QueueTypes /\ OwnQueues /\ MessageInv /\ RequestInv /\ Posted
      /\ NothingStranded /\ recv_sequence \in Nat
  BY InvParts, TypedParts DEF RestTyped
<1>1. /\ UNCHANGED <<sendVars, network, comm, pending, procVars, cancelled, corrupt,
                     threadVars>>
      /\ comm /\ recv_sequence' = recv_sequence + 1
  BY RecvReqStartIs
<1>2. PICK r \in Request : /\ r.no = recv_sequence + 1
                           /\ \/ Queues(r) \/ FindsNone(r)
                              \/ \E m \in Found(r) : Gets(r, m) \/ Sees(r, m)
  BY RecvReqStartIs
<1>3. comm' = comm /\ InTransit' = InTransit
  BY <1>1, SameTransit DEF sendVars, procVars, threadVars
<1>4. \A q \in Waiting : q.no < r.no
  <2>1. \A q \in Waiting : q.no \in Nat /\ q.no <= recv_sequence
    BY <1>0, WaitingType, RequestIs DEF Posted
  <2>. QED  BY <1>0, <1>2, <2>1
<1>5. Found(r) = {} => \A m \in Unexpected : ~Mpi!Accepts(r, m)
  <2>1. Found(r) = {} =>
          \A s \in Source : \A m \in Elements(unexpected_frags[s]) : ~Accepts(r, m)
    BY <1>0, FoundIs
  <2>. QED  BY <2>1, SameAccepts, UnexpectedIs
<1>6. ASSUME NEW m \in Found(r)
      PROVE  /\ m \in Unexpected /\ m.src \in Source /\ Mpi!Accepts(r, m)
             /\ \A u \in Mpi!Before(m, Unexpected) : ~Mpi!Accepts(r, u)
  <2>1. /\ m \in Message /\ m.src \in Source
        /\ m \in Elements(unexpected_frags[m.src]) /\ FirstAccepted(r, m.src, m)
    BY <1>0, FoundIs
  <2>2. Accepts(r, m)
    BY <2>1 DEF FirstAccepted
  <2>3. ASSUME NEW u \in Mpi!Before(m, Unexpected) PROVE ~Accepts(r, u)
    <3>1. u \in Unexpected /\ u.src = m.src /\ u.n < m.n
      BY DEF Mpi!Before
    <3>2. u \in Elements(unexpected_frags[m.src])
      BY <1>0, <3>1, UnexpectedIs DEF OwnQueues
    <3>. QED  BY <1>0, <2>1, <3>1, <3>2, FirstIsFirst
  <2>. QED  BY <2>1, <2>2, <2>3, SameAccepts, UnexpectedIs
<1>7. CASE Queues(r)
  <2>1. Waiting' = Waiting \cup {r}
    BY <1>0, <1>1, <1>2, <1>7, QueuesRequests
  <2>2. /\ Found(r) = {} /\ r.type # "IPROBE" /\ unexpected_frags' = unexpected_frags
        /\ matched' = matched /\ probed' = probed
    BY <1>7 DEF Queues, matchVars
  <2>3. Unexpected' = Unexpected
    BY <2>2, UnexpectedIs
  <2>4. Mpi!PostWaiting(r)
    BY <1>5, <2>1, <2>2, <2>3 DEF Mpi!PostWaiting, Unexpected
  <2>. QED  BY <1>1, <1>3, <1>4, <2>4 DEF Mpi!Post
<1>8. CASE FindsNone(r)
  <2>1. /\ Found(r) = {} /\ r.type = "IPROBE" /\ unexpected_frags' = unexpected_frags
        /\ matched' = matched /\ probed' = probed
        /\ wild_receives' = wild_receives /\ specific_receives' = specific_receives
    BY <1>8 DEF FindsNone, matchVars, queueVars
  <2>2. Unexpected' = Unexpected
    BY <2>1, UnexpectedIs
  <2>3. Waiting' = Waiting
    BY <2>1 DEF Waiting, Elements
  <2>4. Mpi!PostWaiting(r)
    BY <1>5, <2>1, <2>2, <2>3 DEF Mpi!PostWaiting, Unexpected
  <2>. QED  BY <1>1, <1>3, <1>4, <2>4 DEF Mpi!Post
<1>9. ASSUME NEW m \in Found(r), Gets(r, m) PROVE Mpi!Post
  <2>1. /\ r.type = "RECV" /\ matched' = matched \cup {[req |-> r, msg |-> m]}
        /\ wild_receives' = wild_receives /\ specific_receives' = specific_receives
        /\ probed' = probed
    BY <1>9 DEF Gets
  <2>2. \A s \in Source : Elements(unexpected_frags'[s]) =
                            Elements(unexpected_frags[s]) \ {m}
    BY <1>0, <1>1, <1>9, GetsMessages
  <2>3. \A x : x \in Unexpected' <=> x \in Unexpected /\ x # m
    BY <2>2, UnexpectedIs
  <2>4. Unexpected' = Unexpected \ {m}
    BY <2>3
  <2>5. Waiting' = Waiting
    BY <2>1 DEF Waiting, Elements
  <2>6. Mpi!PostMatched(r)
    BY <1>6, <2>1, <2>4, <2>5 DEF Mpi!PostMatched, Mpi!Pair, Unexpected
  <2>. QED  BY <1>1, <1>3, <1>4, <2>6 DEF Mpi!Post
<1>10. ASSUME NEW m \in Found(r), Sees(r, m) PROVE Mpi!Post
  <2>1. /\ r.type # "RECV" /\ probed' = probed \cup {[req |-> r, msg |-> m]}
        /\ wild_receives' = wild_receives /\ specific_receives' = specific_receives
        /\ matched' = matched /\ unexpected_frags' = unexpected_frags
    BY <1>10 DEF Sees, queueVars
  <2>2. Unexpected' = Unexpected
    BY <2>1, UnexpectedIs
  <2>3. Waiting' = Waiting
    BY <2>1 DEF Waiting, Elements
  <2>4. Mpi!PostMatched(r)
    BY <1>6, <2>1, <2>2, <2>3 DEF Mpi!PostMatched, Mpi!Pair, Unexpected
  <2>. QED  BY <1>1, <1>3, <1>4, <2>4 DEF Mpi!Post
<1>. QED  BY <1>2, <1>7, <1>8, <1>9, <1>10

LEMMA SendShows ==
    ASSUME MatchInv, NEW s \in Source, SendStart(s)
    PROVE  Mpi!Send \/ Hidden
<1>0. /\ Typed /\ QueueTypes /\ OwnQueues /\ OneReceive /\ FirstTaken /\ OthersAhead
      /\ send_sequence \in [Source -> Nat]
  BY InvParts, TypedParts DEF MessageInv, Typed
<1>1. PICK m \in Message :
        /\ m.src = s /\ m.n = send_sequence[s] + 1
        /\ \/ network' = network \cup {m} /\ InTransit' = InTransit \cup {m}
           \/ InTransit' = InTransit
  BY <1>0, SendIs
<1>2. UNCHANGED <<comm, queueVars, matchVars, corrupt>>
  BY DEF SendStart, requestVars
<1>3. /\ comm' = comm /\ Unexpected' = Unexpected /\ Waiting' = Waiting
      /\ matched' = matched /\ probed' = probed /\ corrupt' = corrupt
  <2>1. /\ unexpected_frags' = unexpected_frags /\ wild_receives' = wild_receives
        /\ specific_receives' = specific_receives
    BY <1>2 DEF queueVars
  <2>2. Waiting' = Waiting
    BY <2>1 DEF Waiting, Elements
  <2>. QED  BY <1>2, <2>1, <2>2, UnexpectedIs DEF matchVars
<1>4. \A u \in InTransit : u.src = s => u.n < m.n
  <2>1. \A u \in InTransit : u.src = s => u.n \in First + Count(s) + 1..send_sequence[s]
    BY <1>0 DEF OthersAhead, Untaken
  <2>2. Count(s) \in Nat /\ send_sequence[s] \in Nat
    BY <1>0, CountType
  <2>. QED  BY <1>1, <2>1, <2>2
<1>5. \A u \in Taken(s) : u.n < m.n
  <2>1. PICK k \in Nat, d \in Nat : k = Count(s) /\ d = send_sequence[s]
    BY <1>0, CountType
  <2>2. {u.n : u \in Taken(s)} = First + 1..First + k /\ d \in First + k..First + k + MaxAhead
    BY <1>0, <2>1 DEF FirstTaken
  <2>3. \A u \in Taken(s) : u.n \in First + 1..First + k
    BY <2>2
  <2>. QED  BY <1>1, <2>1, <2>2, <2>3
<1>6. \A u \in Unexpected \cup {p.msg : p \in matched} : u.src = s => u \in Taken(s)
  <2>1. \A u \in Unexpected : u.src = s => u \in Elements(unexpected_frags[s])
    BY <1>0, UnexpectedIs DEF OwnQueues
  <2>. QED  BY <2>1 DEF Taken
<1>7. CASE InTransit' = InTransit \cup {m}
  <2>1. \A u \in InTransit \cup Unexpected \cup {p.msg : p \in matched} :
          u.src = m.src => u.n < m.n
    BY <1>1, <1>4, <1>5, <1>6
  <2>2. Mpi!Send
    BY <1>3, <1>7, <2>1 DEF Mpi!Send, Unexpected
  <2>. QED  BY <2>2
<1>8. CASE InTransit' = InTransit
  BY <1>3, <1>8 DEF Hidden
<1>. QED  BY <1>1, <1>7, <1>8

LEMMA CancelShows ==
    ASSUME MatchInv, Cancel, ~corrupt'
    PROVE  Mpi!Cancel \/ Hidden
<1>0. QueueTypes
  BY InvParts, TypedParts
<1>1. PICK r : Leaves(r) /\ corrupt' = corrupt
  BY CancelIs
<1>2. UNCHANGED <<sendVars, network, comm, pending, procVars, unexpected_frags, matchVars,
                  threadVars>>
  BY CancelIs
<1>3. /\ comm' = comm /\ InTransit' = InTransit /\ Unexpected' = Unexpected
      /\ matched' = matched /\ probed' = probed
  <2>1. InTransit' = InTransit
    BY <1>2, SameTransit DEF sendVars, procVars, threadVars
  <2>. QED  BY <1>2, <2>1, UnexpectedIs DEF matchVars
<1>4. /\ Elements(wild_receives') = Elements(wild_receives) \ {r}
      /\ \A s \in Source : Elements(specific_receives'[s]) =
                             Elements(specific_receives[s]) \ {r}
  <2>1. Elements(Without(wild_receives, {r})) = Elements(wild_receives) \ {r}
    BY <1>0, WithoutIs DEF QueueTypes
  <2>2. \A s \in Source : Elements(Without(specific_receives[s], {r})) =
                            Elements(specific_receives[s]) \ {r}
    BY <1>0, WithoutIs DEF QueueTypes
  <2>. QED  BY <1>1, <2>1, <2>2 DEF Leaves
<1>5. Waiting' = Waiting \ {r}
  <2>1. \A x : x \in Waiting' <=> x \in Elements(wild_receives') \/
                                  \E s \in Source : x \in Elements(specific_receives'[s])
    BY DEF Waiting, Elements
  <2>2. \A x : x \in Waiting <=> x \in Elements(wild_receives) \/
                                 \E s \in Source : x \in Elements(specific_receives[s])
    BY DEF Waiting
  <2>3. \A x : x \in Waiting' <=> x \in Waiting /\ x # r
    BY <1>4, <2>1, <2>2
  <2>. QED  BY <2>3
<1>6. CASE r \in Waiting
  BY <1>1, <1>3, <1>5, <1>6 DEF Mpi!Cancel, Unexpected
<1>7. CASE r \notin Waiting
  <2>1. Waiting' = Waiting
    BY <1>5, <1>7
  <2>. QED  BY <1>1, <1>3, <2>1 DEF Hidden
<1>. QED  BY <1>6, <1>7

LEMMA StillShows ==
    ASSUME PmlComplete \/ (\E t \in Thread : MarkMatched(t)) \/ UNCHANGED vars
    PROVE  Hidden
<1>1. UNCHANGED <<sendVars, network, comm, pending, procVars, queueVars, matched, probed,
                  requestVars, threadVars>>
  BY DEF PmlComplete, MarkMatched, vars, matchVars
<1>2. InTransit' = InTransit
  BY <1>1, SameTransit DEF sendVars, procVars, threadVars
<1>3. Waiting' = Waiting
  BY <1>1 DEF Waiting, Elements, queueVars
<1>4. Unexpected' = Unexpected
  BY <1>1, UnexpectedIs DEF queueVars
<1>. QED  BY <1>1, <1>2, <1>3, <1>4 DEF Hidden, requestVars

LEMMA NextShows ==
    ASSUME MatchInv, [Next]_vars, ~corrupt'
    PROVE  [Mpi!Next]_(Mpi!mpiVars)
<1>1. ASSUME NEW s \in Source, SendStart(s) PROVE Mpi!Next \/ Hidden
  BY <1>1, SendShows DEF Mpi!Next
<1>2. ASSUME NEW t \in Thread, Callback(t) \/ FragMatch(t) \/ Drain(t)
      PROVE  Mpi!Next \/ Hidden
  <2>1. Known
    BY InvParts
  <2>2. Moves \/ \E m : Takes(m)
    BY <1>2, <2>1, CallbackIs, FragMatchIs, DrainIs
  <2>. QED  BY <2>2, MovesShows, TakesShows DEF Mpi!Next
<1>3. ASSUME AddComm PROVE Mpi!Next \/ Hidden
  BY <1>3, AddCommShows DEF Mpi!Next
<1>4. ASSUME RecvReqStart PROVE Mpi!Next \/ Hidden
  BY <1>4, PostShows DEF Mpi!Next
<1>5. ASSUME Cancel PROVE Mpi!Next \/ Hidden
  BY <1>5, CancelShows DEF Mpi!Next
<1>6. ASSUME PmlComplete \/ (\E t \in Thread : MarkMatched(t)) \/ UNCHANGED vars
      PROVE  Mpi!Next \/ Hidden
  BY <1>6, StillShows
<1>7. Mpi!Next \/ Hidden
  BY <1>1, <1>2, <1>3, <1>4, <1>5, <1>6 DEF Next
<1>. QED  BY <1>7, HiddenIs

LEMMA InitShows == Init => Mpi!Init
<1>. SUFFICES ASSUME Init PROVE Mpi!Init
  OBVIOUS
<1>1. /\ comm \in BOOLEAN /\ network = {} /\ pending = <<>> /\ matched = {} /\ probed = {}
      /\ wild_receives = <<>> /\ corrupt = FALSE
      /\ \A t \in Thread : pc[t] = "idle"
      /\ \A s \in Source : /\ frags_cant_match[s] = <<>> /\ unexpected_frags[s] = <<>>
                           /\ specific_receives[s] = <<>>
  BY DEF Init
<1>2. InTransit = {}
  BY <1>1, NothingPending DEF InTransit, InHand, Ahead
<1>3. Waiting = {} /\ Unexpected = {}
  BY <1>1, NothingPending DEF Waiting, Unexpected
<1>. QED  BY <1>1, <1>2, <1>3 DEF Mpi!Init, Unexpected

----------------------------------------------------------------------------
(* The theorems *)

\* The queues and the threads' hands keep their types through every handler of
\* pml_ob1_recvfrag.c and pml_ob1_recvreq.c, and the sequence numbers stay in
\* their range, also when a cancel removes a receive that has left its queue.
THEOREM TypeCorrect == Spec => []TypeOK
<1>1. Safe => TypeOK
  BY DEF Safe, Typed
<1>. QED  BY <1>1, Invariant, PTL

\* mca_pml_ob1_recv_frag_match() and add_comm() take the messages of a source
\* in the order of their numbers, however many times the 16 bits of
\* expected_sequence wrap; until a cancel damages a queue of receives.
THEOREM SequenceSafe == Spec => []TakenInSequence
<1>1. Safe => TakenInSequence
  BY Sequence DEF Safe, TakenInSequence
<1>. QED  BY <1>1, Invariant, PTL

\* A message goes from its sender through the lists of ob1 to one receive; no
\* list drops it and no two have it, until a cancel damages a queue of receives.
THEOREM NoLoss == Spec => []NoMessageLost
<1>1. Safe => NoMessageLost
  BY NothingLost DEF Safe, NoMessageLost
<1>. QED  BY <1>1, Invariant, PTL

\* match_one() and recv_req_start(), each in the lock, leave no receive waiting
\* for a message that waits for it, until a cancel comes between the match and
\* recv_req_matched() and damages a queue (pml_ob1_recvreq.c:105).
THEOREM NoMiss == Spec => []NoMissedMatch
<1>1. Safe => NoMissedMatch
  BY DEF Safe, MatchInv, RequestInv, NoneMissed, NoMissedMatch
<1>. QED  BY <1>1, Invariant, PTL

\* A receive never gets a message while an earlier one of the same source that
\* it accepts has not been received, by the queue of a source, that of the
\* receives from any, or the list of unexpected fragments; until a cancel
\* damages a queue.
THEOREM NoOvertaking == Spec => []NonOvertaking
<1>1. Safe => NonOvertaking
  BY DEF Safe, MatchInv, RequestInv, NoneOvertaken, NonOvertaking
<1>. QED  BY <1>1, Invariant, PTL

\* check_cantmatch_for_match() is run after each message taken in the routine,
\* and the fast path is left when a fragment is parked: the message expected is
\* not left in frags_cant_match, until a cancel damages a queue of receives.
THEOREM NoneStranded == Spec => []NoStrandedFragment
<1>1. Safe => NoStrandedFragment
  BY DEF Safe, MatchInv, NothingStranded, NoStrandedFragment
<1>. QED  BY <1>1, Invariant, PTL

\* Each step of ob1's matching is a step of the matching of MPI, or none that
\* a user can tell, up to the first cancel that finds a receive matched with its
\* MPI_TAG not yet set (pml_ob1_recvreq.c:105), which may do anything.
THEOREM MatchingIsMpi == Spec => ImplementsMatching
<1>1. Safe /\ [Next]_vars => [Mpi!Next]_(Mpi!mpiVars)
  <2>. SUFFICES ASSUME Safe, [Next]_vars PROVE [Mpi!Next]_(Mpi!mpiVars)
    OBVIOUS
  <2>1. CASE corrupt'
    BY <2>1 DEF Mpi!Next, Mpi!Undefined
  <2>2. CASE ~corrupt'
    BY <2>2, NextShows, CorruptStays DEF Safe
  <2>. QED  BY <2>1, <2>2
<1>. QED  BY <1>1, InitShows, Invariant, PTL DEF Spec, Mpi!MpiSpec, ImplementsMatching
=============================================================================
