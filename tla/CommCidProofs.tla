--------------------------- MODULE CommCidProofs ---------------------------
(***************************************************************************)
(* For every set of processes and communicators, every schedule of their   *)
(* threads and every size of the table: the members of a communicator      *)
(* agree on its identifier, also when a table is full.  Until then no      *)
(* entry of a table has two owners, and the rounds of proposals implement  *)
(* CommIds.                                                                *)
(***************************************************************************)
EXTENDS CommCid, FiniteSetTheorems, WellFoundedInduction, TLAPS

USE CommAssumption, RoundsAssumption DEF CommAssumption, RoundsAssumption

----------------------------------------------------------------------------
(* The inductive invariant, first what does not depend on the tables *)

\* Where a creation has a result of the round's MPI_MAX.
Left == {"release", "retake", "min", "set", "barrier", "done"}

\* A member is at most one round ahead, of those that have not left MPI_MIN in
\* a round that failed.
NextRound ==
    \A j \in Creation : \A u \in Peers(j) :
        round[u] > round[j] =>
            /\ pc[j] = "min" /\ pc[u] \in {"turn", "scan", "max"}
            /\ round[u] = round[j] + 1
            /\ \E w \in Peers(j) : ~response[w]

\* Those in a round of which one has the result are all there, with one result.
SameRound ==
    \A j \in Creation : \A u \in Peers(j) :
        pc[j] \in Left /\ round[u] = round[j] =>
            /\ pc[u] \in Left \cup {"max"}
            /\ nextlocal_cid[u] <= nextcid[j]
            /\ pc[u] \in Left => nextcid[u] = nextcid[j]

\* The result is what a member proposed, while none has gone on.
SomebodysProposal ==
    \A j \in Creation : pc[j] \in Left =>
        \E u \in Peers(j) : nextcid[j] = nextlocal_cid[u] \/ round[u] # round[j]

\* Behind the barrier, all have their communicator.
AllBehindBarrier ==
    \A j \in Creation : pc[j] = "done" =>
        \A u \in Peers(j) : pc[u] \in {"barrier", "done"}

\* The types of what the rounds are made of.
RoundTypes ==
    /\ pc \in [Creation -> {"call", "done", "barrier"} \cup Registered]
    /\ start \in [Creation -> 0..MaxId]
    /\ nextlocal_cid \in [Creation -> Id]
    /\ nextcid \in [Creation -> Id]
    /\ response \in [Creation -> BOOLEAN]
    /\ round \in [Creation -> 0..MaxRounds]
    /\ exhausted \in BOOLEAN

Rounds == /\ RoundTypes /\ NextRound /\ SameRound
          /\ SomebodysProposal /\ AllBehindBarrier /\ SameId

----------------------------------------------------------------------------
(* The inductive invariant, what it says of the tables *)

\* The entry that a creation holds, or that its communicator has.
Owned(j) == IF pc[j] \in {"barrier", "done"} THEN {nextcid[j]} ELSE Held(j)

\* A process registers a parent for one creation at a time.
OneOfEachParent ==
    \A j, u \in Creation :
        j[1] = u[1] /\ Parent[j[2]] = Parent[u[2]]
          /\ pc[j] \in Registered /\ pc[u] \in Registered => j = u

\* An entry held has the parent in it, and is not the parent's own.
HeldHasParent ==
    \A j \in Creation : \A i \in Held(j) :
        /\ communicators[j[1]][i] = Parent[j[2]]
        /\ i # contextid[Parent[j[2]]]

\* A member that has joined finds the communicator under its identifier.
JoinedIsThere ==
    \A j \in Creation : pc[j] \in {"barrier", "done"} =>
        communicators[j[1]][nextcid[j]] = j[2]

OneOwner ==
    \A j, u \in Creation : \A i \in Owned(j) :
        j[1] = u[1] /\ i \in Owned(u) => j = u

\* An entry that no creation has is free, or of the communicator it was given to.
RestAsBefore ==
    \A p \in Proc : \A i \in Id :
        \/ \E j \in Creation : j[1] = p /\ i \in Owned(j)
        \/ communicators[p][i] = NULL
        \/ \E c \in Comm : /\ communicators[p][i] = c
                            /\ contextid[c] = i /\ p \in Member[c]

\* What a process has not freed stays.
NotFreedStays ==
    \A c \in Comm : \A p \in Member[c] :
        <<p, c>> \notin freed => communicators[p][contextid[c]] = c

Registry == TypeOK /\ OneOfEachParent

Tables == /\ HeldHasParent /\ JoinedIsThere
          /\ OneOwner /\ RestAsBefore /\ NotFreedStays

IInv == Rounds /\ Registry /\ Tables

\* What is left of it when a loop has found no free entry.
FullInv == Rounds /\ Registry /\ (exhausted \/ Tables)

----------------------------------------------------------------------------
(* The operators of the model *)

\* The peers of a creation are the creations of the same communicator.
LEMMA PeersAre ==
    ASSUME NEW j \in Creation
    PROVE  /\ Peers(j) = {u \in Creation : u[2] = j[2]}
           /\ j \in Peers(j)
           /\ \A u \in Peers(j) : Peers(u) = Peers(j)
<1>1. \A p, k : <<p, k>> \in Creation => p \in Proc /\ k \in Child /\ p \in Members[k]
  BY DEF Creation
<1>2. \A k \in Child : Members[k] \subseteq Proc
  BY DEF Members
<1>3. j = <<j[1], j[2]>> /\ j[1] \in Members[j[2]] /\ j[2] \in Child
  BY DEF Creation
<1>4. Peers(j) = {u \in Creation : u[2] = j[2]}
  BY <1>2, <1>3 DEF Peers, Creation
<1>. QED  BY <1>4 DEF Peers

\* A process is a member of what it creates.
LEMMA CreationOf ==
    ASSUME NEW j \in Creation
    PROVE  /\ j = <<j[1], j[2]>> /\ j[1] \in Proc /\ j[2] \in Child
           /\ Parent[j[2]] \in Comm \ Freed /\ j[1] \in Member[Parent[j[2]]]
  BY DEF Creation, Members

\* A communicator that is created has a creation at each of its members, who
\* are one at least.
LEMMA CreationsOf ==
    ASSUME NEW k \in Child
    PROVE  /\ Members[k] \subseteq Proc /\ Members[k] # {}
           /\ \A p \in Members[k] : <<p, k>> \in Creation
  BY DEF Creation, Members

\* lowest_free is an entry of the table, or its end.
LEMMA LowestFreeType ==
    ASSUME NEW p
    PROVE  lowest_free(p) \in 0..MaxId
<1>. DEFINE T == {i \in 0..MaxId : i = MaxId \/ Free(p, i)}
<1>1. PICK x \in T : \A y \in T : ~(y < x)
  <2>1. MaxId \in T /\ T \subseteq Nat
    OBVIOUS
  <2>. DEFINE R == {s \in Nat \X Nat : s[1] < s[2]}
  <2>2. IsWellFoundedOn(R, Nat)
    BY NatLessThanWellFounded DEF OpToRel
  <2>3. \E x \in T : \A y \in T : ~(<<y, x>> \in R)
    <3>. HIDE DEF R, T
    <3>. QED  BY <2>1, <2>2, WFMin
  <2>. QED  BY <2>1, <2>3
<1>2. \A n \in 0..x - 1 : ~Free(p, n)
  BY <1>1
<1>. QED  BY <1>1, <1>2 DEF lowest_free

\* A step changes what belongs to one creation.
LEMMA OnlyItsOwn ==
    ASSUME RoundTypes, NEW j \in Creation, Step(j), NEW u \in Creation, u # j
    PROVE  /\ pc'[u] = pc[u] /\ nextlocal_cid'[u] = nextlocal_cid[u]
           /\ nextcid'[u] = nextcid[u] /\ response'[u] = response[u]
           /\ round'[u] = round[u]
  BY DEF RoundTypes, Step, RegisterCid, ReadStart, Turn, Scan, ScanEnds, LeaveMax, Release,
         Retake, LeaveMin, SetComm, Activate, Goto, tableVars, roundVars

----------------------------------------------------------------------------
(* Each step of a creation keeps the invariant of the rounds *)

\* The largest is a proposal that no proposal exceeds.
LEMMA LargestIs ==
    ASSUME NEW j \in Creation, NEW n \in Largest(j)
    PROVE  /\ \E u \in Peers(j) : n = nextlocal_cid[u]
           /\ \A u \in Peers(j) : nextlocal_cid[u] <= n
  BY DEF Largest

LEMMA RoundTypesStep ==
    ASSUME Rounds, NEW j \in Creation, Step(j)
    PROVE  RoundTypes'
<1>. USE DEF Rounds, RoundTypes, Goto, Registered, tableVars, roundVars
<1>0. MaxId \in Nat /\ MaxRounds \in Nat /\ Id = 0..MaxId - 1
  BY DEF Id
<1>1. CASE RegisterCid(j) \/ Turn(j) \/ Release(j) \/ SetComm(j) \/ Activate(j)
  BY <1>1 DEF RegisterCid, Turn, Release, SetComm, Activate
<1>2. CASE ReadStart(j)
  BY <1>2, LowestFreeType DEF ReadStart
<1>3. CASE Scan(j)
  <2>1. CASE Free(j[1], start[j])
    BY <1>0, <1>3, <2>1 DEF Scan, Free
  <2>2. CASE ~Free(j[1], start[j])
    <3>1. /\ start' = [start EXCEPT ![j] = @ + 1] /\ start[j] < MaxId
          /\ UNCHANGED <<pc, nextlocal_cid, nextcid, response, round, exhausted>>
      BY <1>3, <2>2 DEF Scan
    <3>2. start[j] + 1 \in 0..MaxId
      BY <1>0, <3>1
    <3>. QED  BY <3>1, <3>2
  <2>. QED  BY <2>1, <2>2
<1>4. CASE ScanEnds(j)
  BY <1>4 DEF ScanEnds
<1>5. CASE LeaveMax(j)
  <2>1. PICK n \in Largest(j) :
          /\ nextcid' = [nextcid EXCEPT ![j] = n]
          /\ response' = [response EXCEPT ![j] = (n = nextlocal_cid[j])]
          /\ Goto(j, IF n = nextlocal_cid[j] THEN "min" ELSE "release")
    BY <1>5 DEF LeaveMax
  <2>2. n \in Id
    BY LargestIs, PeersAre
  <2>. QED  BY <1>5, <2>1, <2>2 DEF LeaveMax
<1>6. CASE Retake(j)
  BY <1>6 DEF Retake, CanTake, Free
<1>7. CASE LeaveMin(j)
  <2>1. CASE AllAgree(j)
    BY <1>7, <2>1 DEF LeaveMin
  <2>2. CASE ~AllAgree(j)
    <3>1. /\ start' = [start EXCEPT ![j] = nextcid[j] + 1]
          /\ round' = [round EXCEPT ![j] = @ + 1] /\ round[j] < MaxRounds
          /\ pc' = [pc EXCEPT ![j] = "turn"]
          /\ UNCHANGED <<nextlocal_cid, nextcid, response, exhausted>>
      BY <1>7, <2>2 DEF LeaveMin
    <3>2. nextcid[j] + 1 \in 0..MaxId /\ round[j] + 1 \in 0..MaxRounds
      BY <1>0, <3>1
    <3>. QED  BY <3>1, <3>2
  <2>. QED  BY <2>1, <2>2
<1>. QED  BY <1>1, <1>2, <1>3, <1>4, <1>5, <1>6, <1>7 DEF Step

\* What a step does to its creation, apart from the tables.
LEMMA StepIs ==
    ASSUME Rounds, NEW j \in Creation, Step(j)
    PROVE
      \/ /\ <<pc[j], pc'[j]>> \in
              {<<"call", "start">>, <<"start", "turn">>, <<"turn", "scan">>,
               <<"scan", "scan">>, <<"scan", "max">>}
         /\ nextcid' = nextcid /\ response' = response /\ round' = round
      \/ /\ pc[j] = "max" /\ pc'[j] \in {"release", "min"}
         /\ AllProposed(j) /\ nextcid'[j] \in Largest(j)
         /\ nextlocal_cid' = nextlocal_cid /\ round' = round
      \/ /\ <<pc[j], pc'[j]>> \in {<<"release", "retake">>, <<"retake", "min">>}
         /\ nextlocal_cid' = nextlocal_cid /\ nextcid' = nextcid /\ round' = round
      \/ /\ pc[j] = "min" /\ pc'[j] = "set" /\ AllAnswered(j) /\ AllAgree(j)
         /\ nextlocal_cid' = nextlocal_cid /\ nextcid' = nextcid
         /\ response' = response /\ round' = round
      \/ /\ pc[j] = "min" /\ pc'[j] = "turn" /\ AllAnswered(j) /\ ~AllAgree(j)
         /\ nextcid' = nextcid /\ response' = response
         /\ round' = [round EXCEPT ![j] = @ + 1]
      \/ /\ pc[j] = "set" /\ pc'[j] = "barrier"
         /\ nextlocal_cid' = nextlocal_cid /\ nextcid' = nextcid
         /\ response' = response /\ round' = round
      \/ /\ pc[j] = "barrier" /\ pc'[j] = "done" /\ AllActive(j)
         /\ nextlocal_cid' = nextlocal_cid /\ nextcid' = nextcid
         /\ response' = response /\ round' = round
<1>. USE DEF Rounds, RoundTypes, Goto, tableVars, roundVars
<1>1. CASE RegisterCid(j) \/ ReadStart(j) \/ Turn(j) \/ Scan(j) \/ ScanEnds(j)
  BY <1>1 DEF RegisterCid, ReadStart, Turn, Scan, ScanEnds
<1>2. CASE LeaveMax(j)
  BY <1>2 DEF LeaveMax
<1>3. CASE Release(j) \/ Retake(j)
  BY <1>3 DEF Release, Retake
<1>4. CASE LeaveMin(j)
  BY <1>4 DEF LeaveMin
<1>5. CASE SetComm(j) \/ Activate(j)
  BY <1>5 DEF SetComm, Activate
<1>. QED  BY <1>1, <1>2, <1>3, <1>4, <1>5 DEF Step

LEMMA NextRoundStep ==
    ASSUME Rounds, RoundTypes', NEW j \in Creation, Step(j)
    PROVE  NextRound'
<1>. SUFFICES ASSUME NEW a \in Creation, NEW b \in Peers(a), round'[b] > round'[a]
              PROVE  /\ pc'[a] = "min" /\ pc'[b] \in {"turn", "scan", "max"}
                     /\ round'[b] = round'[a] + 1
                     /\ \E w \in Peers(a) : ~response'[w]
  BY DEF NextRound
<1>0. /\ b \in Creation /\ Peers(a) \subseteq Creation /\ a \in Peers(a)
      /\ j \in Peers(a) => Peers(j) = Peers(a)
      /\ \A u \in Creation : round[u] \in Nat /\ round'[u] \in Nat
  BY PeersAre DEF Rounds, RoundTypes
<1>1. round[b] > round[a] =>
        /\ pc[a] = "min" /\ pc[b] \in {"turn", "scan", "max"}
        /\ round[b] = round[a] + 1
        /\ \E w \in Peers(a) : ~response[w]
  BY DEF Rounds, NextRound
<1>2. \A u \in Creation \ {j} : /\ pc'[u] = pc[u] /\ response'[u] = response[u]
                                /\ round'[u] = round[u]
  BY OnlyItsOwn DEF Rounds
<1>3. CASE j \notin Peers(a)
  BY <1>0, <1>1, <1>2, <1>3
<1>4. CASE j \in Peers(a)
  <2>1. ASSUME round' = round
        PROVE  /\ pc[a] = "min" /\ pc[b] \in {"turn", "scan", "max"}
               /\ round[j] = round[a] => pc[j] = "min"
               /\ round[j] # round[a] => pc[j] \in {"turn", "scan", "max"}
               /\ round[j] # round[a] => round[j] > round[a]
               /\ \E w \in Peers(a) : ~response[w]
    BY <1>0, <1>1, <1>4, <2>1 DEF Rounds, NextRound
  <2>2. CASE /\ <<pc[j], pc'[j]>> \in
                  {<<"call", "start">>, <<"start", "turn">>, <<"turn", "scan">>,
                   <<"scan", "scan">>, <<"scan", "max">>}
             /\ response' = response /\ round' = round
    BY <1>0, <1>1, <1>2, <2>1, <2>2
  <2>3. CASE pc[j] = "max" /\ AllProposed(j) /\ round' = round
    BY <1>0, <1>4, <2>3 DEF AllProposed
  <2>4. CASE pc[j] \in {"release", "retake"} /\ round' = round
    BY <2>1, <2>4
  <2>5. CASE AllAgree(j) /\ response' = response /\ round' = round
    BY <1>0, <1>4, <2>1, <2>5 DEF AllAgree
  <2>6. CASE /\ pc[j] = "min" /\ pc'[j] = "turn" /\ AllAnswered(j) /\ ~AllAgree(j)
             /\ response' = response /\ round' = [round EXCEPT ![j] = @ + 1]
    <3>1. round'[j] = round[j] + 1
      BY <2>6 DEF Rounds, RoundTypes
    <3>2. \E w \in Peers(a) : ~response'[w]
      BY <1>0, <1>4, <2>6 DEF AllAgree
    <3>3. CASE j = a
      BY <1>0, <1>1, <1>2, <2>6, <3>1, <3>3
    <3>4. CASE j = b
      <4>1. round[a] >= round[j] /\ pc[a] \in {"min", "set", "barrier"}
        BY <1>0, <1>2, <1>4, <2>6, <3>1, <3>4 DEF AllAnswered
      <4>2. pc[a] \notin {"set", "barrier"}
        BY <1>0, <3>2, <2>6 DEF Rounds, SameId
      <4>. QED  BY <1>0, <1>2, <2>6, <3>1, <3>2, <3>4, <4>1, <4>2
    <3>. QED  BY <1>0, <1>1, <1>2, <3>2, <3>3, <3>4
  <2>7. CASE pc[j] \in {"set", "barrier"} /\ round' = round
    BY <2>1, <2>7
  <2>. QED  BY <2>2, <2>3, <2>4, <2>5, <2>6, <2>7, StepIs
<1>. QED  BY <1>3, <1>4

\* Who leaves MPI_MAX takes the result that the others have.
LEMMA OneResult ==
    ASSUME Rounds, NEW j \in Creation, AllProposed(j), NEW n \in Largest(j),
           NEW u \in Peers(j), pc[u] \in Left
    PROVE  nextcid[u] = n
<1>1. /\ u \in Creation /\ Peers(u) = Peers(j) /\ Peers(j) \subseteq Creation
      /\ \A w \in Peers(j) : round[w] = round[u]
  BY PeersAre DEF AllProposed
<1>2. PICK w \in Peers(j) : n = nextlocal_cid[w]
  BY LargestIs
<1>3. n <= nextcid[u]
  BY <1>1, <1>2 DEF Rounds, SameRound
<1>4. PICK v \in Peers(j) : nextcid[u] = nextlocal_cid[v]
  BY <1>1 DEF Rounds, SomebodysProposal
<1>5. nextcid[u] <= n
  BY <1>4, LargestIs
<1>6. n \in Int /\ nextcid[u] \in Int
  BY <1>1, <1>2, <1>4 DEF Rounds, RoundTypes, Id
<1>. QED  BY <1>3, <1>5, <1>6

LEMMA SameRoundStep ==
    ASSUME Rounds, RoundTypes', NEW j \in Creation, Step(j)
    PROVE  SameRound'
<1>. SUFFICES ASSUME NEW a \in Creation, NEW b \in Peers(a), pc'[a] \in Left,
                     round'[b] = round'[a]
              PROVE  /\ pc'[b] \in Left \cup {"max"}
                     /\ nextlocal_cid'[b] <= nextcid'[a]
                     /\ pc'[b] \in Left => nextcid'[b] = nextcid'[a]
  BY DEF SameRound
<1>0. /\ b \in Creation /\ Peers(a) \subseteq Creation /\ a \in Peers(a)
      /\ b \in Peers(b) /\ Peers(b) = Peers(a)
      /\ j \in Peers(a) => Peers(j) = Peers(a)
      /\ \A u \in Creation : round[u] \in Nat /\ round'[u] \in Nat
  BY PeersAre DEF Rounds, RoundTypes
<1>1. pc[a] \in Left /\ round[b] = round[a] =>
        /\ pc[b] \in Left \cup {"max"}
        /\ nextlocal_cid[b] <= nextcid[a]
        /\ pc[b] \in Left => nextcid[b] = nextcid[a]
  BY DEF Rounds, SameRound
<1>2. \A u \in Creation \ {j} : /\ pc'[u] = pc[u] /\ nextcid'[u] = nextcid[u]
                                /\ nextlocal_cid'[u] = nextlocal_cid[u]
                                /\ round'[u] = round[u]
  BY OnlyItsOwn DEF Rounds
<1>3. CASE j # a /\ j # b
  BY <1>0, <1>1, <1>2, <1>3
<1>4. CASE j = a \/ j = b
  <2>1. CASE /\ <<pc[j], pc'[j]>> \in
                  {<<"call", "start">>, <<"start", "turn">>, <<"turn", "scan">>,
                   <<"scan", "scan">>, <<"scan", "max">>}
             /\ nextcid' = nextcid /\ round' = round
    BY <1>0, <1>1, <1>2, <1>4, <2>1 DEF Left
  <2>2. CASE /\ pc[j] = "max" /\ pc'[j] \in {"release", "min"}
             /\ AllProposed(j) /\ nextcid'[j] \in Largest(j)
             /\ nextlocal_cid' = nextlocal_cid /\ round' = round
    <3>1. \A u \in Peers(a) : pc[u] \in Left \cup {"max"}
      BY <1>0, <1>4, <2>2 DEF AllProposed, Left
    <3>2. \A u \in Peers(a) : pc[u] \in Left => nextcid[u] = nextcid'[j]
      BY <1>0, <1>4, <2>2, OneResult
    <3>3. \A u \in Peers(a) : nextlocal_cid[u] <= nextcid'[j]
      BY <1>0, <1>4, <2>2, LargestIs
    <3>. QED  BY <1>0, <1>1, <1>2, <1>4, <2>2, <3>1, <3>2, <3>3 DEF Left
  <2>3. CASE /\ pc[j] \in Left /\ pc'[j] \in Left
             /\ nextlocal_cid' = nextlocal_cid /\ nextcid' = nextcid /\ round' = round
    BY <1>0, <1>1, <1>2, <1>4, <2>3
  <2>4. CASE /\ pc[j] = "min" /\ pc'[j] = "turn" /\ AllAnswered(j)
             /\ round' = [round EXCEPT ![j] = @ + 1]
    <3>1. j = b /\ j # a /\ round[a] = round[j] + 1
      BY <1>0, <1>2, <1>4, <2>4 DEF Left, Rounds, RoundTypes
    <3>2. pc[a] \in {"turn", "scan", "max"}
      BY <1>0, <3>1 DEF Rounds, NextRound
    <3>. QED  BY <1>2, <3>1, <3>2 DEF Left
  <2>5. /\ {"release", "retake", "min", "set", "barrier", "done"} \subseteq Left
    BY DEF Left
  <2>. QED  BY <2>1, <2>2, <2>3, <2>4, <2>5, StepIs
<1>. QED  BY <1>3, <1>4

LEMMA SomebodysProposalStep ==
    ASSUME Rounds, RoundTypes', NEW j \in Creation, Step(j)
    PROVE  SomebodysProposal'
<1>. SUFFICES ASSUME NEW a \in Creation, pc'[a] \in Left
              PROVE  \E u \in Peers(a) : \/ nextcid'[a] = nextlocal_cid'[u]
                                         \/ round'[u] # round'[a]
  BY DEF SomebodysProposal
<1>0. /\ Peers(a) \subseteq Creation /\ a \in Peers(a)
      /\ j \in Peers(a) => Peers(j) = Peers(a)
      /\ \A u \in Creation : round[u] \in Nat /\ round'[u] \in Nat
  BY PeersAre DEF Rounds, RoundTypes
<1>1. pc[a] \in Left =>
        \E u \in Peers(a) : nextcid[a] = nextlocal_cid[u] \/ round[u] # round[a]
  BY DEF Rounds, SomebodysProposal
<1>2. \A u \in Creation \ {j} : /\ pc'[u] = pc[u] /\ nextcid'[u] = nextcid[u]
                                /\ nextlocal_cid'[u] = nextlocal_cid[u]
                                /\ round'[u] = round[u]
  BY OnlyItsOwn DEF Rounds
<1>3. CASE j \notin Peers(a)
  BY <1>0, <1>1, <1>2, <1>3
<1>4. CASE j \in Peers(a)
  <2>1. CASE /\ <<pc[j], pc'[j]>> \in
                  {<<"call", "start">>, <<"start", "turn">>, <<"turn", "scan">>,
                   <<"scan", "scan">>, <<"scan", "max">>}
             /\ round' = round
    <3>1. j # a /\ pc[a] \in Left /\ pc[j] \notin Left \cup {"max"}
      BY <1>0, <1>2, <2>1 DEF Left
    <3>2. round[j] # round[a]
      BY <1>4, <3>1 DEF Rounds, SameRound
    <3>. QED  BY <1>4, <2>1, <3>2
  <2>2. CASE /\ pc[j] = "max" /\ AllProposed(j) /\ nextcid'[j] \in Largest(j)
             /\ nextlocal_cid' = nextlocal_cid /\ round' = round
    <3>1. CASE a = j
      BY <2>2, <3>1, LargestIs
    <3>2. CASE a # j
      BY <1>0, <1>1, <1>2, <2>2, <3>2
    <3>. QED  BY <3>1, <3>2
  <2>3. CASE /\ pc[j] \in Left
             /\ nextlocal_cid' = nextlocal_cid /\ nextcid' = nextcid /\ round' = round
    BY <1>0, <1>1, <1>2, <2>3
  <2>4. CASE /\ pc[j] = "min" /\ pc'[j] = "turn" /\ AllAnswered(j)
             /\ round' = [round EXCEPT ![j] = @ + 1]
    <3>1. a # j /\ pc[a] \in Left
      BY <1>2, <2>4 DEF Left
    <3>2. ~(round[a] > round[j])
      BY <1>0, <1>4, <3>1 DEF Rounds, NextRound, Left
    <3>3. round'[j] # round'[a]
      BY <1>0, <1>2, <1>4, <2>4, <3>1, <3>2 DEF AllAnswered, Rounds, RoundTypes
    <3>. QED  BY <1>4, <3>3
  <2>. QED  BY <2>1, <2>2, <2>3, <2>4, StepIs DEF Left
<1>. QED  BY <1>3, <1>4

LEMMA SameIdStep ==
    ASSUME Rounds, NEW j \in Creation, Step(j)
    PROVE  SameId'
<1>. SUFFICES ASSUME NEW a \in Creation, NEW b \in Peers(a),
                     pc'[a] \in {"set", "barrier", "done"}
              PROVE  /\ response'[b] /\ round'[b] = round'[a]
                     /\ nextcid'[b] = nextcid'[a]
                     /\ pc'[b] \in {"min", "set", "barrier", "done"}
  BY DEF SameId
<1>0. /\ b \in Creation /\ Peers(a) \subseteq Creation /\ a \in Peers(a)
      /\ j \in Peers(a) => Peers(j) = Peers(a)
  BY PeersAre
<1>1. pc[a] \in {"set", "barrier", "done"} =>
        \A u \in Peers(a) : /\ response[u] /\ round[u] = round[a]
                            /\ nextcid[u] = nextcid[a]
                            /\ pc[u] \in {"min", "set", "barrier", "done"}
  BY DEF Rounds, SameId
<1>2. \A u \in Creation \ {j} : /\ pc'[u] = pc[u] /\ nextcid'[u] = nextcid[u]
                                /\ response'[u] = response[u] /\ round'[u] = round[u]
  BY OnlyItsOwn DEF Rounds
<1>3. CASE j \notin Peers(a)
  BY <1>0, <1>1, <1>2, <1>3
<1>4. CASE j \in Peers(a) /\ pc[a] \in {"set", "barrier", "done"}
  <2>1. ~(pc[j] = "min" /\ pc'[j] = "turn" /\ ~AllAgree(j))
    BY <1>0, <1>1, <1>4 DEF AllAgree
  <2>2. /\ pc[j] \in {"min", "set", "barrier", "done"}
    BY <1>1, <1>4
  <2>3. /\ pc'[j] \in {"set", "barrier", "done"}
        /\ nextcid' = nextcid /\ response' = response /\ round' = round
    BY <2>1, <2>2, StepIs
  <2>. QED  BY <1>0, <1>1, <1>2, <1>4, <2>3
<1>5. CASE j \in Peers(a) /\ pc[a] \notin {"set", "barrier", "done"}
  <2>1. /\ a = j /\ pc[j] = "min" /\ pc'[j] = "set" /\ AllAnswered(j) /\ AllAgree(j)
        /\ nextcid' = nextcid /\ response' = response /\ round' = round
    BY <1>2, <1>5, StepIs
  <2>2. ~(round[b] > round[a])
    BY <2>1 DEF Rounds, NextRound, AllAgree
  <2>3. round[b] = round[a] /\ pc[b] \in {"min", "set", "barrier"}
    BY <2>1, <2>2 DEF AllAnswered
  <2>4. nextcid[b] = nextcid[a]
    BY <2>1, <2>3 DEF Rounds, SameRound, Left
  <2>. QED  BY <1>0, <1>2, <2>1, <2>3, <2>4 DEF AllAgree
<1>. QED  BY <1>3, <1>4, <1>5

LEMMA AllBehindBarrierStep ==
    ASSUME Rounds, NEW j \in Creation, Step(j)
    PROVE  AllBehindBarrier'
<1>. SUFFICES ASSUME NEW a \in Creation, NEW b \in Peers(a), pc'[a] = "done"
              PROVE  pc'[b] \in {"barrier", "done"}
  BY DEF AllBehindBarrier
<1>1. b \in Creation
  BY PeersAre
<1>2. pc[b] \in {"barrier", "done"}
  <2>1. CASE pc[a] = "done"
    BY <2>1 DEF Rounds, AllBehindBarrier
  <2>2. CASE pc[a] # "done"
    <3>1. a = j
      BY <2>2, OnlyItsOwn DEF Rounds
    <3>. QED  BY <2>2, <3>1, StepIs DEF AllActive
  <2>. QED  BY <2>1, <2>2
<1>. QED  BY <1>1, <1>2, OnlyItsOwn, StepIs DEF Rounds

LEMMA RoundsInit == Init => Rounds
<1>. SUFFICES ASSUME Init PROVE Rounds
  OBVIOUS
<1>1. \A j \in Creation : \A u \in Peers(j) : u \in Creation
  BY PeersAre
<1>2. 0 \in Id /\ 0 \in 0..MaxId /\ 0 \in 0..MaxRounds
  BY CommAssumption, RoundsAssumption DEF Id
<1>3. RoundTypes
  BY <1>2 DEF Init, RoundTypes, Registered
<1>4. \A j \in Creation : pc[j] = "call" /\ round[j] = 0
  BY DEF Init
<1>5. NextRound /\ SameRound
  BY <1>1, <1>4 DEF NextRound, SameRound, Left
<1>6. SomebodysProposal
  BY <1>4 DEF SomebodysProposal, Left
<1>7. AllBehindBarrier /\ SameId
  BY <1>4 DEF AllBehindBarrier, SameId
<1>. QED  BY <1>3, <1>5, <1>6, <1>7 DEF Rounds

LEMMA RoundsNext == Rounds /\ [Next]_vars => Rounds'
<1>. SUFFICES ASSUME Rounds, [Next]_vars PROVE Rounds'
  OBVIOUS
<1>1. CASE \E j \in Creation : Step(j)
  BY <1>1, RoundTypesStep, NextRoundStep, SameRoundStep, SomebodysProposalStep,
     AllBehindBarrierStep, SameIdStep DEF Rounds
<1>2. CASE UNCHANGED <<pc, start, nextlocal_cid, nextcid, response, round, exhausted>>
  BY <1>2 DEF Rounds, RoundTypes, NextRound, SameRound, SomebodysProposal,
              AllBehindBarrier, SameId
<1>. QED  BY <1>1, <1>2 DEF Next, CommFree, vars, tableVars, roundVars

\* Members never end a creation with different identifiers (comm_cid.c:208-227),
\* however many times their proposals differ, and with full tables too.
THEOREM SameIdInvariant == Spec => []SameId
<1>1. Rounds => SameId
  BY DEF Rounds
<1>. QED  BY RoundsInit, RoundsNext, <1>1, PTL DEF Spec

----------------------------------------------------------------------------
(* The tables *)

\* Only one entry of one table is another.
LEMMA SetItemIs ==
    ASSUME TypeOK, NEW p \in Proc, NEW i \in Id,
           NEW x \in Comm \cup Child \cup {NULL}, SetItem(p, i, x)
    PROVE  /\ communicators' \in [Proc -> [Id -> Comm \cup Child \cup {NULL}]]
           /\ \A q \in Proc, n \in Id :
                communicators'[q][n] = IF q = p /\ n = i THEN x ELSE communicators[q][n]
  BY DEF TypeOK, SetItem

\* The parents registered after a step, as TypeOK states them.
LEMMA RegisteredStep ==
    ASSUME Rounds, TypeOK, OneOfEachParent, NEW j \in Creation, Step(j)
    PROVE  /\ OneOfEachParent'
           /\ registered' = [p \in Proc |->
                {Parent[k] : k \in {e \in Child : <<p, e>> \in Creation /\
                                                  pc'[<<p, e>>] \in Registered}}]
<1>. DEFINE P(p) == {Parent[k] : k \in {e \in Child : <<p, e>> \in Creation /\
                                                      pc[<<p, e>>] \in Registered}}
            Q(p) == {Parent[k] : k \in {e \in Child : <<p, e>> \in Creation /\
                                                      pc'[<<p, e>>] \in Registered}}
<1>1. registered = [p \in Proc |-> P(p)]
  BY DEF TypeOK
<1>2. \A u \in Creation : u # j => pc'[u] = pc[u]
  BY OnlyItsOwn DEF Rounds
<1>3. \A p \in Proc : \A c :
        /\ c \in P(p) <=> \E u \in Creation : /\ u[1] = p /\ c = Parent[u[2]]
                                              /\ pc[u] \in Registered
        /\ c \in Q(p) <=> \E u \in Creation : /\ u[1] = p /\ c = Parent[u[2]]
                                              /\ pc'[u] \in Registered
  <2>1. \A u \in Creation : u = <<u[1], u[2]>> /\ u[2] \in Child
    BY CreationOf
  <2>2. \A p, k : <<p, k>>[1] = p /\ <<p, k>>[2] = k
    OBVIOUS
  <2>3. ASSUME NEW p, NEW c
        PROVE  c \in P(p) <=> \E u \in Creation : /\ u[1] = p /\ c = Parent[u[2]]
                                                 /\ pc[u] \in Registered
    <3>1. c \in P(p) <=> \E k \in Child : /\ <<p, k>> \in Creation /\ c = Parent[k]
                                          /\ pc[<<p, k>>] \in Registered
      OBVIOUS
    <3>2. ASSUME NEW u \in Creation, u[1] = p, c = Parent[u[2]], pc[u] \in Registered
          PROVE  c \in P(p)
      <4>1. u = <<p, u[2]>> /\ u[2] \in Child
        BY <2>1, <3>2
      <4>. QED  BY <3>1, <3>2, <4>1
    <3>3. ASSUME c \in P(p)
          PROVE  \E u \in Creation : /\ u[1] = p /\ c = Parent[u[2]]
                                     /\ pc[u] \in Registered
      <4>1. PICK k \in Child : /\ <<p, k>> \in Creation /\ c = Parent[k]
                               /\ pc[<<p, k>>] \in Registered
        BY <3>1, <3>3
      <4>. QED  BY <2>2, <4>1
    <3>. QED  BY <3>2, <3>3
  <2>4. ASSUME NEW p, NEW c
        PROVE  c \in Q(p) <=> \E u \in Creation : /\ u[1] = p /\ c = Parent[u[2]]
                                                 /\ pc'[u] \in Registered
    <3>1. c \in Q(p) <=> \E k \in Child : /\ <<p, k>> \in Creation /\ c = Parent[k]
                                          /\ pc'[<<p, k>>] \in Registered
      OBVIOUS
    <3>2. ASSUME NEW u \in Creation, u[1] = p, c = Parent[u[2]], pc'[u] \in Registered
          PROVE  c \in Q(p)
      <4>1. u = <<p, u[2]>> /\ u[2] \in Child
        BY <2>1, <3>2
      <4>. QED  BY <3>1, <3>2, <4>1
    <3>3. ASSUME c \in Q(p)
          PROVE  \E u \in Creation : /\ u[1] = p /\ c = Parent[u[2]]
                                     /\ pc'[u] \in Registered
      <4>1. PICK k \in Child : /\ <<p, k>> \in Creation /\ c = Parent[k]
                               /\ pc'[<<p, k>>] \in Registered
        BY <3>1, <3>3
      <4>. QED  BY <2>2, <4>1
    <3>. QED  BY <3>2, <3>3
  <2>. QED  BY ZenonT(40), <2>3, <2>4
<1>. SUFFICES OneOfEachParent' /\ registered' = [p \in Proc |-> Q(p)]
  OBVIOUS
<1>. HIDE DEF P, Q
<1>4. j[1] \in Proc
  BY CreationOf
<1>5. CASE RegisterCid(j)
  <2>1. /\ Parent[j[2]] \notin P(j[1]) /\ pc[j] = "call" /\ pc'[j] = "start"
        /\ registered' = [registered EXCEPT ![j[1]] = @ \cup {Parent[j[2]]}]
    BY <1>1, <1>4, <1>5 DEF RegisterCid, Goto, Rounds, RoundTypes
  <2>2. pc[j] \notin Registered /\ pc'[j] \in Registered
    BY <2>1 DEF Registered
  <2>3. \A p \in Proc : Q(p) = IF p = j[1] THEN P(p) \cup {Parent[j[2]]} ELSE P(p)
    <3>. SUFFICES ASSUME NEW p \in Proc, NEW c
                  PROVE  c \in Q(p) <=> c \in P(p) \/ (p = j[1] /\ c = Parent[j[2]])
      OBVIOUS
    <3>. QED  BY <1>2, <1>3, <2>2
  <2>4. OneOfEachParent'
    BY <1>2, <1>3, <1>4, <2>1, <2>2 DEF OneOfEachParent
  <2>. QED  BY <1>1, <1>4, <2>1, <2>3, <2>4
<1>6. CASE SetComm(j)
  <2>1. /\ pc[j] = "set" /\ pc'[j] = "barrier"
        /\ registered' = [registered EXCEPT ![j[1]] = @ \ {Parent[j[2]]}]
    BY <1>1, <1>4, <1>6 DEF SetComm, Unregister, Goto, Rounds, RoundTypes
  <2>2. pc[j] \in Registered /\ pc'[j] \notin Registered
    BY <2>1 DEF Registered
  <2>3. \A p \in Proc : Q(p) = IF p = j[1] THEN P(p) \ {Parent[j[2]]} ELSE P(p)
    <3>. SUFFICES ASSUME NEW p \in Proc, NEW c
                  PROVE  c \in Q(p) <=> c \in P(p) /\ ~(p = j[1] /\ c = Parent[j[2]])
      OBVIOUS
    <3>. QED  BY <1>2, <1>3, <2>2 DEF OneOfEachParent
  <2>4. OneOfEachParent'
    BY <1>2, <2>2 DEF OneOfEachParent
  <2>. QED  BY <1>1, <1>4, <2>1, <2>3, <2>4
<1>7. CASE \/ ReadStart(j) \/ Turn(j) \/ Scan(j) \/ ScanEnds(j) \/ LeaveMax(j)
           \/ Release(j) \/ Retake(j) \/ LeaveMin(j) \/ Activate(j)
  <2>1. pc[j] \in Registered <=> pc'[j] \in Registered
    BY <1>7 DEF ReadStart, Turn, Scan, ScanEnds, LeaveMax, Release, Retake, LeaveMin,
                Activate, Goto, Registered, Rounds, RoundTypes
  <2>2. registered' = registered
    BY <1>7 DEF ReadStart, Turn, Scan, ScanEnds, LeaveMax, Release, Retake, LeaveMin,
                Activate, tableVars
  <2>3. \A u \in Creation : pc[u] \in Registered <=> pc'[u] \in Registered
    BY <1>2, <2>1
  <2>4. \A p \in Proc : Q(p) = P(p)
    <3>. SUFFICES ASSUME NEW p \in Proc, NEW c PROVE c \in Q(p) <=> c \in P(p)
      OBVIOUS
    <3>. QED  BY <1>3, <2>3
  <2>. QED  BY <1>1, <2>2, <2>3, <2>4 DEF OneOfEachParent
<1>. QED  BY <1>5, <1>6, <1>7 DEF Step

\* What a step makes of the table of its process.
LEMMA TableStep ==
    ASSUME Rounds, NEW j \in Creation, Step(j)
    PROVE  \/ communicators' = communicators
           \/ \E i \in Id : \E x \in {Parent[j[2]], j[2], NULL} : SetItem(j[1], i, x)
<1>. USE DEF Rounds, RoundTypes
<1>1. CASE \/ RegisterCid(j) \/ ReadStart(j) \/ Turn(j) \/ ScanEnds(j) \/ LeaveMax(j)
           \/ Activate(j)
  BY <1>1 DEF RegisterCid, ReadStart, Turn, ScanEnds, LeaveMax, Activate, tableVars
<1>2. CASE Scan(j)
  BY <1>2 DEF Scan, Free
<1>3. CASE Release(j) \/ Retake(j) \/ SetComm(j)
  BY <1>3 DEF Release, GiveUp, Retake, SetComm
<1>4. CASE LeaveMin(j)
  BY <1>4 DEF LeaveMin
<1>. QED  BY <1>1, <1>2, <1>3, <1>4 DEF Step

\* Only an application frees communicators.
LEMMA FreedStep ==
    ASSUME NEW j \in Creation, Step(j)
    PROVE  freed' = freed
  BY DEF Step, RegisterCid, ReadStart, Turn, Scan, ScanEnds, LeaveMax, Release, Retake,
         LeaveMin, SetComm, Activate

\* The types, and the parents that are registered, do not depend on what the
\* tables hold.
LEMMA RegistryStep ==
    ASSUME Rounds, Rounds', Registry, NEW j \in Creation, Step(j)
    PROVE  Registry'
<1>1. communicators' \in [Proc -> [Id -> Comm \cup Child \cup {NULL}]]
  <2>1. TypeOK /\ j[1] \in Proc /\ {Parent[j[2]], j[2], NULL} \subseteq Comm \cup Child \cup {NULL}
    BY CreationOf DEF Registry
  <2>2. CASE communicators' = communicators
    BY <2>1, <2>2 DEF TypeOK
  <2>3. CASE \E i \in Id : \E x \in {Parent[j[2]], j[2], NULL} : SetItem(j[1], i, x)
    BY <2>1, <2>3, SetItemIs
  <2>. QED  BY <2>2, <2>3, TableStep
<1>. QED  BY <1>1, RegisteredStep, FreedStep DEF Registry, TypeOK, Rounds, RoundTypes

\* Unless the loop finds no free entry, a step leaves the tables, or takes a
\* free entry, gives its own back, or puts the new communicator into it.
LEMMA EntryStep ==
    ASSUME Rounds, TypeOK, NEW j \in Creation, Step(j), ~exhausted'
    PROVE
      \/ /\ communicators' = communicators /\ Owned(j)' = Owned(j)
         /\ pc'[j] \in {"barrier", "done"} <=> pc[j] \in {"barrier", "done"}
      \/ /\ pc[j] \notin {"barrier", "done"} /\ pc'[j] \notin {"barrier", "done"}
         /\ Owned(j) = {}
         /\ \E i \in Id : /\ Free(j[1], i) /\ SetItem(j[1], i, Parent[j[2]])
                          /\ Owned(j)' = {i}
      \/ /\ pc[j] \notin {"barrier", "done"} /\ pc'[j] \notin {"barrier", "done"}
         /\ Owned(j)' = {}
         /\ \E i \in Id : Owned(j) = {i} /\ SetItem(j[1], i, NULL)
      \/ /\ pc[j] \notin {"barrier", "done"} /\ pc'[j] = "barrier"
         /\ Owned(j) = {nextcid[j]} /\ Owned(j)' = {nextcid[j]}
         /\ nextcid'[j] = nextcid[j] /\ SetItem(j[1], nextcid[j], j[2])
<1>. USE DEF Rounds, RoundTypes, Goto, Owned, Held, tableVars, roundVars
<1>1. nextcid[j] \in Id /\ Id = 0..MaxId - 1 /\ MaxId \in Nat /\ nextlocal_cid[j] \in Id
  BY DEF Id
<1>2. CASE RegisterCid(j) \/ ReadStart(j) \/ Turn(j)
  BY <1>2 DEF RegisterCid, ReadStart, Turn
<1>3. CASE Scan(j)
  <2>1. CASE Free(j[1], start[j])
    BY <1>3, <2>1 DEF Scan, Free
  <2>2. CASE ~Free(j[1], start[j])
    BY <1>3, <2>2 DEF Scan
  <2>. QED  BY <2>1, <2>2
<1>4. CASE LeaveMax(j)
  BY <1>4 DEF LeaveMax
<1>5. CASE Release(j)
  BY <1>1, <1>5 DEF Release, GiveUp
<1>6. CASE Retake(j)
  <2>1. CASE CanTake(j)
    BY <1>1, <1>6, <2>1 DEF Retake, CanTake
  <2>2. CASE ~CanTake(j)
    BY <1>6, <2>2 DEF Retake
  <2>. QED  BY <2>1, <2>2
<1>7. CASE LeaveMin(j)
  <2>1. CASE AllAgree(j)
    <3>1. response[j]
      BY <2>1, PeersAre DEF AllAgree
    <3>. QED  BY <1>7, <2>1, <3>1 DEF LeaveMin
  <2>2. CASE ~AllAgree(j)
    <3>1. CASE response[j]
      BY <1>1, <1>7, <2>2, <3>1 DEF LeaveMin
    <3>2. CASE ~response[j]
      BY <1>7, <2>2, <3>2 DEF LeaveMin
    <3>. QED  BY <3>1, <3>2
  <2>. QED  BY <2>1, <2>2
<1>8. CASE SetComm(j)
  BY <1>8 DEF SetComm
<1>9. CASE Activate(j)
  BY <1>9 DEF Activate
<1>. QED  BY <1>2, <1>3, <1>4, <1>5, <1>6, <1>7, <1>8, <1>9 DEF Step, ScanEnds

\* What a creation owns, by where it is.
LEMMA OwnedIs ==
    ASSUME Rounds, NEW u \in Creation
    PROVE  /\ Owned(u) \subseteq Id
           /\ pc[u] \in {"barrier", "done"} => Held(u) = {} /\ Owned(u) = {nextcid[u]}
           /\ pc[u] \notin {"barrier", "done"} => Held(u) = Owned(u)
<1>1. nextcid[u] \in Id
  BY DEF Rounds, RoundTypes
<1>2. pc[u] \in {"max", "release"} => nextlocal_cid[u] \in Id
  BY DEF Rounds, RoundTypes
<1>. QED  BY <1>1, <1>2 DEF Owned, Held

\* No creation takes an entry that is in use, and what it puts there is undone.
LEMMA TablesStep ==
    ASSUME Rounds, Rounds', Registry, Tables, NEW j \in Creation, Step(j), ~exhausted'
    PROVE  Tables'
<1>1. /\ \A u \in Creation : u # j => /\ Owned(u)' = Owned(u) /\ Held(u)' = Held(u)
                                      /\ pc'[u] = pc[u] /\ nextcid'[u] = nextcid[u]
  BY ZenonT(40), OnlyItsOwn DEF Rounds, Owned, Held
<1>2. \A u \in Creation :
        /\ Owned(u) \subseteq Id /\ Owned(u)' \subseteq Id
        /\ pc[u] \in {"barrier", "done"} => Held(u) = {} /\ Owned(u) = {nextcid[u]}
        /\ pc[u] \notin {"barrier", "done"} => Held(u) = Owned(u)
        /\ pc'[u] \in {"barrier", "done"} => Held(u)' = {} /\ Owned(u)' = {nextcid'[u]}
        /\ pc'[u] \notin {"barrier", "done"} => Held(u)' = Owned(u)'
  <2>1. \A u \in Creation : Owned(u)' \subseteq Id
    <3>1. \A u \in Creation :
            /\ nextcid'[u] \in Id
            /\ pc'[u] \in {"max", "release"} => nextlocal_cid'[u] \in Id
      BY DEF Rounds, RoundTypes
    <3>. QED  BY <3>1 DEF Owned, Held
  <2>2. \A u \in Creation :
          /\ pc'[u] \in {"barrier", "done"} => Held(u)' = {} /\ Owned(u)' = {nextcid'[u]}
          /\ pc'[u] \notin {"barrier", "done"} => Held(u)' = Owned(u)'
    BY DEF Owned, Held
  <2>. QED  BY OwnedIs, <2>1, <2>2
<1>3. \A u \in Creation : u[1] \in Proc /\ u[2] \in Child /\ Parent[u[2]] \in Comm \ Freed
                          /\ u[1] \in Member[Parent[u[2]]]
  BY CreationOf
<1>0. freed' = freed /\ \A u \in Creation : <<u[1], Parent[u[2]]>> \notin freed
  BY <1>3, FreedStep DEF Registry, TypeOK
<1>4. /\ TypeOK /\ HeldHasParent /\ JoinedIsThere /\ OneOwner /\ RestAsBefore
      /\ NotFreedStays
  BY DEF Registry, Tables
<1>5. \A c \in Comm : contextid[c] \in Id /\ Member[c] \subseteq Proc
  OBVIOUS
<1>6. ASSUME NEW i \in Id, NEW x \in Comm \cup Child \cup {NULL}, SetItem(j[1], i, x)
      PROVE  /\ communicators' \in [Proc -> [Id -> Comm \cup Child \cup {NULL}]]
             /\ \A q \in Proc, n \in Id : communicators'[q][n] =
                  IF q = j[1] /\ n = i THEN x ELSE communicators[q][n]
  BY <1>3, <1>4, <1>6, SetItemIs
<1>7. CASE /\ communicators' = communicators /\ Owned(j)' = Owned(j)
           /\ pc'[j] \in {"barrier", "done"} <=> pc[j] \in {"barrier", "done"}
  <2>2. \A u \in Creation : /\ Owned(u)' = Owned(u) /\ Held(u)' = Held(u)
                            /\ pc'[u] \in {"barrier", "done"} =>
                                 nextcid'[u] = nextcid[u] /\ pc[u] \in {"barrier", "done"}
    <3>1. Owned(j)' = Owned(j) /\ Held(j)' = Held(j)
      BY <1>2, <1>7
    <3>2. pc'[j] \in {"barrier", "done"} => {nextcid'[j]} = {nextcid[j]}
      BY <1>2, <1>7
    <3>. QED  BY <1>1, <1>7, <3>1, <3>2
  <2>3. HeldHasParent' /\ JoinedIsThere' /\ OneOwner' /\ RestAsBefore' /\ NotFreedStays'
    BY <1>0, <1>4, <1>7, <2>2 DEF HeldHasParent, JoinedIsThere, OneOwner, RestAsBefore,
                            NotFreedStays
  <2>. QED  BY <2>3 DEF Tables
<1>8. CASE /\ pc[j] \notin {"barrier", "done"} /\ pc'[j] \notin {"barrier", "done"}
           /\ Owned(j) = {}
           /\ \E i \in Id : /\ Free(j[1], i) /\ SetItem(j[1], i, Parent[j[2]])
                            /\ Owned(j)' = {i}
  <2>1. PICK i \in Id : /\ Free(j[1], i) /\ SetItem(j[1], i, Parent[j[2]])
                        /\ Owned(j)' = {i}
    BY <1>8
  <2>2. /\ communicators' \in [Proc -> [Id -> Comm \cup Child \cup {NULL}]]
        /\ \A q \in Proc, n \in Id : communicators'[q][n] =
             IF q = j[1] /\ n = i THEN Parent[j[2]] ELSE communicators[q][n]
    BY <1>3, <1>6, <2>1
  <2>3. communicators[j[1]][i] = NULL
    BY <2>1 DEF Free
  <2>4. \A u \in Creation : u[1] = j[1] => i \notin Owned(u)
    BY <1>2, <1>3, <1>4, <2>3 DEF HeldHasParent, JoinedIsThere
  <2>5. i # contextid[Parent[j[2]]]
    BY <1>0, <1>3, <1>4, <2>3 DEF NotFreedStays
  <2>6. HeldHasParent'
    <3>. SUFFICES ASSUME NEW u \in Creation, NEW n \in Held(u)'
                  PROVE  /\ communicators'[u[1]][n] = Parent[u[2]]
                         /\ n # contextid[Parent[u[2]]]
      BY DEF HeldHasParent
    <3>1. CASE u = j
      BY <1>2, <1>3, <1>8, <2>1, <2>2, <2>5, <3>1
    <3>2. CASE u # j
      <4>1. n \in Held(u) /\ n \in Owned(u) /\ n \in Id
        BY <1>1, <1>2, <3>2
      <4>. QED  BY <1>3, <1>4, <2>2, <2>4, <4>1 DEF HeldHasParent
    <3>. QED  BY <3>1, <3>2
  <2>7. JoinedIsThere'
    BY SMTT(30), <1>1, <1>2, <1>3, <1>4, <1>8, <2>1, <2>2, <2>4 DEF JoinedIsThere
  <2>8. OneOwner'
    BY <1>1, <1>4, <1>8, <2>1, <2>4 DEF OneOwner
  <2>9. RestAsBefore'
    <3>. SUFFICES ASSUME NEW p \in Proc, NEW n \in Id,
                         \A u \in Creation : u[1] = p => n \notin Owned(u)'
                  PROVE  \/ communicators'[p][n] = NULL
                         \/ \E c \in Comm : /\ communicators'[p][n] = c
                                             /\ contextid[c] = n /\ p \in Member[c]
      BY DEF RestAsBefore
    <3>1. \A u \in Creation : u[1] = p => n \notin Owned(u)
      BY <1>1, <1>8
    <3>. QED  BY <1>4, <1>8, <2>1, <2>2, <3>1 DEF RestAsBefore
  <2>10. NotFreedStays'
    BY <1>0, <1>4, <1>5, <2>2, <2>3 DEF NotFreedStays
  <2>. QED  BY <2>6, <2>7, <2>8, <2>9, <2>10 DEF Tables
<1>9. CASE /\ pc[j] \notin {"barrier", "done"} /\ pc'[j] \notin {"barrier", "done"}
           /\ Owned(j)' = {}
           /\ \E i \in Id : Owned(j) = {i} /\ SetItem(j[1], i, NULL)
  <2>1. PICK i \in Id : Owned(j) = {i} /\ SetItem(j[1], i, NULL)
    BY <1>9
  <2>2. /\ communicators' \in [Proc -> [Id -> Comm \cup Child \cup {NULL}]]
        /\ \A q \in Proc, n \in Id : communicators'[q][n] =
             IF q = j[1] /\ n = i THEN NULL ELSE communicators[q][n]
    BY <1>6, <2>1
  <2>3. /\ communicators[j[1]][i] = Parent[j[2]] /\ i # contextid[Parent[j[2]]]
    BY <1>2, <1>4, <1>9, <2>1 DEF HeldHasParent
  <2>4. \A u \in Creation : u # j /\ u[1] = j[1] => i \notin Owned(u)
    BY <1>4, <2>1 DEF OneOwner
  <2>5. HeldHasParent'
    <3>. SUFFICES ASSUME NEW u \in Creation, NEW n \in Held(u)'
                  PROVE  /\ communicators'[u[1]][n] = Parent[u[2]]
                         /\ n # contextid[Parent[u[2]]]
      BY DEF HeldHasParent
    <3>1. u # j
      BY <1>2, <1>9
    <3>2. n \in Held(u) /\ n \in Owned(u) /\ n \in Id
      BY <1>1, <1>2, <3>1
    <3>. QED  BY <1>3, <1>4, <2>2, <2>4, <3>1, <3>2 DEF HeldHasParent
  <2>6. JoinedIsThere'
    BY <1>1, <1>2, <1>3, <1>4, <1>9, <2>2, <2>4 DEF JoinedIsThere
  <2>7. OneOwner'
    BY <1>1, <1>4, <1>9 DEF OneOwner
  <2>8. RestAsBefore'
    <3>. SUFFICES ASSUME NEW p \in Proc, NEW n \in Id,
                         \A u \in Creation : u[1] = p => n \notin Owned(u)'
                  PROVE  \/ communicators'[p][n] = NULL
                         \/ \E c \in Comm : /\ communicators'[p][n] = c
                                             /\ contextid[c] = n /\ p \in Member[c]
      BY DEF RestAsBefore
    <3>1. CASE p = j[1] /\ n = i
      BY <2>2, <3>1
    <3>2. CASE ~(p = j[1] /\ n = i)
      <4>1. \A u \in Creation : u[1] = p => n \notin Owned(u)
        BY <1>1, <2>1, <3>2
      <4>. QED  BY <1>4, <2>2, <3>2, <4>1 DEF RestAsBefore
    <3>. QED  BY <3>1, <3>2
  <2>9. NotFreedStays'
    BY SMTT(30), <1>0, <1>4, <1>5, <2>2, <2>3 DEF NotFreedStays
  <2>. QED  BY <2>5, <2>6, <2>7, <2>8, <2>9 DEF Tables
<1>10. CASE /\ pc[j] \notin {"barrier", "done"} /\ pc'[j] = "barrier"
            /\ Owned(j) = {nextcid[j]} /\ Owned(j)' = {nextcid[j]}
            /\ nextcid'[j] = nextcid[j] /\ SetItem(j[1], nextcid[j], j[2])
  <2>1. nextcid[j] \in Id
    BY <1>2, <1>10
  <2>2. /\ communicators' \in [Proc -> [Id -> Comm \cup Child \cup {NULL}]]
        /\ \A q \in Proc, n \in Id : communicators'[q][n] =
             IF q = j[1] /\ n = nextcid[j] THEN j[2] ELSE communicators[q][n]
    BY <1>3, <1>6, <1>10, <2>1
  <2>3. /\ communicators[j[1]][nextcid[j]] = Parent[j[2]]
        /\ nextcid[j] # contextid[Parent[j[2]]]
    BY <1>2, <1>4, <1>10 DEF HeldHasParent
  <2>4. \A u \in Creation : u # j /\ u[1] = j[1] => nextcid[j] \notin Owned(u)
    BY <1>4, <1>10 DEF OneOwner
  <2>5. HeldHasParent'
    BY <1>1, <1>2, <1>3, <1>4, <1>10, <2>2, <2>4 DEF HeldHasParent
  <2>6. JoinedIsThere'
    BY <1>1, <1>2, <1>3, <1>4, <1>10, <2>1, <2>2, <2>4 DEF JoinedIsThere
  <2>7. OneOwner'
    BY <1>1, <1>4, <1>10 DEF OneOwner
  <2>8. RestAsBefore'
    <3>. SUFFICES ASSUME NEW p \in Proc, NEW n \in Id,
                         \A u \in Creation : u[1] = p => n \notin Owned(u)'
                  PROVE  \/ communicators'[p][n] = NULL
                         \/ \E c \in Comm : /\ communicators'[p][n] = c
                                             /\ contextid[c] = n /\ p \in Member[c]
      BY DEF RestAsBefore
    <3>1. \A u \in Creation : u[1] = p => n \notin Owned(u)
      BY <1>1, <1>10
    <3>. QED  BY <1>4, <1>10, <2>2, <3>1 DEF RestAsBefore
  <2>9. NotFreedStays'
    BY <1>0, <1>4, <1>5, <2>2, <2>3 DEF NotFreedStays
  <2>. QED  BY <2>5, <2>6, <2>7, <2>8, <2>9 DEF Tables
<1>. QED  BY <1>4, <1>7, <1>8, <1>9, <1>10, EntryStep

\* A communicator that is freed is in nobody's way.
LEMMA TablesFree ==
    ASSUME Rounds, Registry, Tables, NEW c \in Freed, NEW p \in Member[c], CommFree(p, c)
    PROVE  Tables'
<1>1. /\ c \in Comm /\ p \in Proc /\ contextid[c] \in Id
      /\ \A d \in Comm : contextid[d] \in Id /\ Member[d] \subseteq Proc
  OBVIOUS
<1>2. /\ TypeOK /\ HeldHasParent /\ JoinedIsThere /\ OneOwner /\ RestAsBefore
      /\ NotFreedStays
  BY DEF Registry, Tables
<1>3. /\ communicators[p][contextid[c]] = c
      /\ communicators' \in [Proc -> [Id -> Comm \cup Child \cup {NULL}]]
      /\ \A q \in Proc, n \in Id : communicators'[q][n] =
           IF q = p /\ n = contextid[c] THEN NULL ELSE communicators[q][n]
  <2>1. communicators[p][contextid[c]] = c
    BY <1>1, <1>2 DEF CommFree, NotFreedStays
  <2>. QED  BY <1>1, <1>2, <2>1, SetItemIs DEF CommFree
<1>4. UNCHANGED <<registered, pc, nextlocal_cid, nextcid, response, round>>
  BY DEF CommFree, roundVars
<1>5. \A u \in Creation : /\ Owned(u)' = Owned(u) /\ Held(u)' = Held(u)
                          /\ Owned(u) \subseteq Id /\ Held(u) \subseteq Id
  BY <1>4, OwnedIs DEF Owned, Held
<1>6. \A u \in Creation : u[1] \in Proc /\ u[2] \in Child /\ Parent[u[2]] \in Comm \ Freed
  BY CreationOf
<1>7. HeldHasParent'
  BY <1>1, <1>2, <1>3, <1>5, <1>6 DEF HeldHasParent
<1>8. JoinedIsThere'
  <2>1. \A u \in Creation : nextcid[u] \in Id /\ u[2] # c
    BY <1>1, <1>6 DEF Rounds, RoundTypes
  <2>. QED  BY <1>1, <1>2, <1>3, <1>4, <1>6, <2>1 DEF JoinedIsThere
<1>9. RestAsBefore'
  BY SMTT(30), <1>1, <1>2, <1>3, <1>5 DEF RestAsBefore
<1>10. NotFreedStays'
  BY <1>1, <1>2, <1>3 DEF NotFreedStays, CommFree
<1>11. OneOwner'
  BY <1>2, <1>4, <1>5 DEF OneOwner
<1>. QED  BY <1>7, <1>8, <1>9, <1>10, <1>11 DEF Tables

LEMMA RegistryFree ==
    ASSUME Registry, NEW c \in Freed, NEW p \in Member[c], CommFree(p, c)
    PROVE  Registry'
<1>1. c \in Comm /\ p \in Proc /\ contextid[c] \in Id /\ TypeOK
  BY DEF Registry
<1>2. communicators' \in [Proc -> [Id -> Comm \cup Child \cup {NULL}]]
  BY <1>1, SetItemIs DEF CommFree
<1>. QED  BY <1>2 DEF CommFree, roundVars, Registry, TypeOK, OneOfEachParent

LEMMA TablesInit == Init => Registry /\ Tables
<1>. SUFFICES ASSUME Init PROVE Registry /\ Tables
  OBVIOUS
<1>1. \A j \in Creation : pc[j] = "call" /\ Owned(j) = {} /\ Held(j) = {}
  BY DEF Init, Owned, Held
<1>2. \A p \in Proc, i \in Id :
        \/ /\ \E c \in Comm : /\ communicators[p][i] = c
                              /\ contextid[c] = i /\ p \in Member[c]
        \/ /\ communicators[p][i] = NULL
           /\ ~ \E c \in Comm : p \in Member[c] /\ contextid[c] = i
  BY DEF Init
<1>3. communicators \in [Proc -> [Id -> Comm \cup Child \cup {NULL}]]
  BY DEF Init
<1>4. NotFreedStays
  <2>. SUFFICES ASSUME NEW c \in Comm, NEW p \in Member[c]
                PROVE  communicators[p][contextid[c]] = c
    BY DEF NotFreedStays
  <2>1. p \in Proc /\ contextid[c] \in Id
    OBVIOUS
  <2>2. PICK d \in Comm : /\ communicators[p][contextid[c]] = d
                          /\ contextid[d] = contextid[c] /\ p \in Member[d]
    BY <1>2, <2>1
  <2>3. Member[c] \cap Member[d] # {}
    BY <2>2
  <2>. QED  BY <2>2, <2>3
<1>5. TypeOK
  <2>1. registered = [p \in Proc |->
          {Parent[k] : k \in {e \in Child : <<p, e>> \in Creation /\
                                            pc[<<p, e>>] \in Registered}}]
    <3>1. \A p \in Proc :
            {Parent[k] : k \in {e \in Child : <<p, e>> \in Creation /\
                                              pc[<<p, e>>] \in Registered}} = {}
      <4>1. \A p \in Proc : {e \in Child : <<p, e>> \in Creation /\
                                           pc[<<p, e>>] \in Registered} = {}
        BY <1>1 DEF Registered
      <4>. QED  BY <4>1
    <3>2. registered = [p \in Proc |-> {}]
      BY DEF Init
    <3>. QED  BY <3>1, <3>2
  <2>2. freed = {}
    BY DEF Init
  <2>. QED  BY <1>3, <2>1, <2>2, RoundsInit DEF TypeOK, Rounds, RoundTypes
<1>6. OneOfEachParent /\ HeldHasParent /\ JoinedIsThere /\ OneOwner
  BY <1>1 DEF OneOfEachParent, HeldHasParent, JoinedIsThere, OneOwner, Registered
<1>7. RestAsBefore
  BY <1>2 DEF RestAsBefore
<1>. QED  BY <1>4, <1>5, <1>6, <1>7 DEF Registry, Tables

\* That a table was full is remembered.
LEMMA FullStays ==
    ASSUME FullInv, [Next]_vars
    PROVE  exhausted' = exhausted \/ exhausted'
  BY DEF Next, Step, RegisterCid, ReadStart, Turn, Scan, ScanEnds, LeaveMax, Release,
         Retake, LeaveMin, SetComm, Activate, CommFree, vars

LEMMA Invariance == Spec => []FullInv
<1>1. Init => FullInv
  BY RoundsInit, TablesInit DEF FullInv
<1>2. FullInv /\ [Next]_vars => FullInv'
  <2>. SUFFICES ASSUME FullInv, [Next]_vars PROVE FullInv'
    OBVIOUS
  <2>1. Rounds'
    BY RoundsNext DEF FullInv
  <2>2. exhausted' \/ Tables
    BY FullStays DEF FullInv
  <2>3. CASE \E j \in Creation : Step(j)
    BY <2>1, <2>2, <2>3, RegistryStep, TablesStep DEF FullInv
  <2>4. CASE \E c \in Freed : \E p \in Member[c] : CommFree(p, c)
    BY <2>1, <2>2, <2>4, RegistryFree, TablesFree DEF FullInv
  <2>5. CASE UNCHANGED vars
    <3>1. (Tables' <=> Tables) /\ (Registry' <=> Registry)
      BY <2>5 DEF vars, tableVars, roundVars, Registry, Tables, TypeOK, OneOfEachParent,
                  HeldHasParent, JoinedIsThere, OneOwner, RestAsBefore, NotFreedStays,
                  Owned, Held
    <3>. QED  BY <2>1, <2>2, <3>1 DEF FullInv
  <2>. QED  BY <2>3, <2>4, <2>5 DEF Next
<1>. QED  BY <1>1, <1>2, PTL DEF Spec

----------------------------------------------------------------------------
(* Properties *)

\* The types, and the parents that a process has registered are those of the
\* creations that are between ompi_comm_register_cid() and _unregister_cid().
THEOREM TypeCorrect == Spec => []TypeOK
<1>1. FullInv => TypeOK
  BY DEF FullInv, Registry
<1>. QED  BY Invariance, <1>1, PTL

\* Until a loop finds no free entry, none is overwritten, held twice or left
\* reserved (comm_cid.c:213-218, :235).
THEOREM OwnerInvariant == Spec => []EveryEntryHasOneOwner
<1>1. FullInv => EveryEntryHasOneOwner
  <2>. SUFFICES ASSUME IInv, NEW p \in Proc, NEW i \in Id
       PROVE
         LET holders == {j \in Creation : j[1] = p /\ i \in Held(j)}
             children == {j \in Creation : /\ j[1] = p /\ nextcid[j] = i
                                           /\ pc[j] \in {"barrier", "done"}}
             x == communicators[p][i]
         IN  /\ Cardinality(holders \cup children) <= 1
             /\ \A j \in holders : x = Parent[j[2]] /\ x \in registered[p]
             /\ \A j \in children : x = j[2]
             /\ holders \cup children = {} =>
                  x = NULL \/ (x \in Comm /\ contextid[x] = i /\ p \in Member[x])
    BY DEF EveryEntryHasOneOwner, FullInv, IInv
  <2>. DEFINE holders == {j \in Creation : j[1] = p /\ i \in Held(j)}
              children == {j \in Creation : /\ j[1] = p /\ nextcid[j] = i
                                            /\ pc[j] \in {"barrier", "done"}}
              owners == {j \in Creation : j[1] = p /\ i \in Owned(j)}
  <2>1. /\ TypeOK /\ HeldHasParent /\ JoinedIsThere /\ OneOwner /\ RestAsBefore /\ Rounds
    BY DEF IInv, Registry, Tables
  <2>2. owners = holders \cup children
    BY <2>1, OwnedIs
  <2>3. Cardinality(owners) <= 1
    <3>1. \A j, u \in owners : j = u
      BY <2>1 DEF OneOwner
    <3>. HIDE DEF owners
    <3>2. owners = {} \/ \E j \in owners : owners = {j}
      BY <3>1
    <3>3. CASE owners = {}
      <4>1. Cardinality(owners) = 0
        BY <3>3, FS_EmptySet, Zenon
      <4>. QED  BY <4>1
    <3>4. CASE \E j \in owners : owners = {j}
      <4>1. Cardinality(owners) = 1
        BY <3>4, FS_Singleton, Zenon
      <4>. QED  BY <4>1
    <3>. QED  BY <3>2, <3>3, <3>4
  <2>4. \A j \in holders : /\ communicators[p][i] = Parent[j[2]]
                           /\ communicators[p][i] \in registered[p]
    <3>. SUFFICES ASSUME NEW j \in holders
                  PROVE  /\ communicators[p][i] = Parent[j[2]]
                         /\ Parent[j[2]] \in registered[p]
      OBVIOUS
    <3>1. j \in Creation /\ j = <<p, j[2]>> /\ j[2] \in Child /\ i \in Held(j)
      BY CreationOf
    <3>2. pc[j] \in Registered
      BY <3>1 DEF Held, Registered
    <3>3. registered[p] = {Parent[k] : k \in {e \in Child : <<p, e>> \in Creation /\
                                                pc[<<p, e>>] \in Registered}}
      BY <2>1 DEF TypeOK
    <3>4. Parent[j[2]] \in registered[p]
      <4>. DEFINE mine == {e \in Child : <<p, e>> \in Creation /\ pc[<<p, e>>] \in Registered}
      <4>1. <<p, j[2]>> \in Creation /\ pc[<<p, j[2]>>] \in Registered
        BY Zenon, <3>1, <3>2
      <4>2. j[2] \in mine
        BY <3>1, <4>1
      <4>. HIDE DEF mine
      <4>3. Parent[j[2]] \in {Parent[k] : k \in mine}
        BY <4>2
      <4>. QED  BY <3>3, <4>3 DEF mine
    <3>. QED  BY <2>1, <3>1, <3>4 DEF HeldHasParent
  <2>5. \A j \in children : communicators[p][i] = j[2]
    BY <2>1 DEF JoinedIsThere
  <2>6. owners = {} => \/ communicators[p][i] = NULL
                       \/ /\ communicators[p][i] \in Comm
                          /\ contextid[communicators[p][i]] = i
                          /\ p \in Member[communicators[p][i]]
    BY <2>1 DEF RestAsBefore
  <2>. HIDE DEF holders, children, owners
  <2>7. /\ Cardinality(holders \cup children) <= 1
        /\ \A j \in holders : /\ communicators[p][i] = Parent[j[2]]
                              /\ communicators[p][i] \in registered[p]
        /\ \A j \in children : communicators[p][i] = j[2]
        /\ holders \cup children = {} =>
             \/ communicators[p][i] = NULL
             \/ /\ communicators[p][i] \in Comm
                /\ contextid[communicators[p][i]] = i
                /\ p \in Member[communicators[p][i]]
    BY <2>2, <2>3, <2>4, <2>5, <2>6
  <2>. QED  BY <2>7 DEF holders, children
<1>. QED  BY Invariance, <1>1, PTL

\* Nobody sends on a communicator that a member does not have yet, unless a loop
\* has found no free entry (comm_cid.c:199, :423-427).
THEOREM NoEarlyUseInvariant == Spec => []NoEarlyUse
<1>1. FullInv => NoEarlyUse
  <2>. SUFFICES ASSUME IInv, NEW j \in Creation, pc[j] = "done", NEW p \in Members[j[2]]
                PROVE  communicators[p][nextcid[j]] = j[2]
    BY DEF NoEarlyUse, FullInv, IInv
  <2>. DEFINE u == <<p, j[2]>>
  <2>1. u \in Creation /\ u \in Peers(j) /\ u[1] = p /\ u[2] = j[2]
    BY CreationOf, CreationsOf DEF Peers
  <2>. HIDE DEF u
  <2>2. pc[u] \in {"barrier", "done"} /\ nextcid[u] = nextcid[j]
    BY <2>1 DEF IInv, Rounds, AllBehindBarrier, SameId
  <2>. QED  BY <2>1, <2>2 DEF IInv, Tables, JoinedIsThere
<1>. QED  BY Invariance, <1>1, PTL

----------------------------------------------------------------------------
(* The rounds of proposals implement CommIds *)

\* What it means that the members agree.
AgreedOn ==
    \A k \in Child : Agreed(k) =>
        /\ agreed[k] \in Id
        /\ \A u \in Creation : u[2] = k =>
             /\ nextcid[u] = agreed[k] /\ agreed[k] \in Owned(u) /\ response[u]
             /\ pc[u] \in {"min", "set", "barrier", "done"}

\* The members who agree have reserved the one identifier, each in its table.
LEMMA AgreedMeans == IInv => AgreedOn
<1>. SUFFICES ASSUME IInv, NEW k \in Child, Agreed(k)
     PROVE  /\ agreed[k] \in Id
            /\ \A u \in Creation : u[2] = k =>
                 /\ nextcid[u] = agreed[k] /\ agreed[k] \in Owned(u) /\ response[u]
                 /\ pc[u] \in {"min", "set", "barrier", "done"}
  BY DEF AgreedOn
<1>. DEFINE J == {<<p, k>> : p \in Members[k]}
            one == CHOOSE j \in Creation : j[2] = k
<1>1. J # {} /\ J = {u \in Creation : u[2] = k}
  <2>1. PICK p \in Members[k] : TRUE
    BY CreationsOf
  <2>2. <<p, k>> \in Creation /\ <<p, k>>[2] = k
    BY CreationsOf
  <2>3. J = Peers(<<p, k>>)
    BY <2>2 DEF Peers
  <2>. QED  BY <2>2, <2>3, PeersAre
<1>2. one \in J
  BY <1>1
<1>3. agreed[k] = nextcid[one]
  BY DEF agreed
<1>4. \A u \in J : Peers(u) = J
  BY <1>1, PeersAre
<1>5. \/ \E j \in J : pc[j] \in {"set", "barrier", "done"}
      \/ \A j \in J : pc[j] = "min" /\ response[j] /\ \A u \in J : round[u] = round[j]
  BY DEF Agreed
<1>. HIDE DEF J, one
<1>6. /\ \A u \in J : response[u] /\ pc[u] \in {"min", "set", "barrier", "done"}
      /\ \A u, v \in J : nextcid[u] = nextcid[v]
  <2>1. CASE \E j \in J : pc[j] \in {"set", "barrier", "done"}
    BY <1>1, <1>4, <2>1 DEF IInv, Rounds, SameId
  <2>2. CASE \A j \in J : /\ pc[j] = "min" /\ response[j]
                          /\ \A u \in J : round[u] = round[j]
    BY <1>1, <1>4, <2>2 DEF IInv, Rounds, SameRound, Left
  <2>. QED  BY <1>5, <2>1, <2>2
<1>7. \A u \in J : nextcid[u] \in Owned(u) /\ nextcid[u] \in Id
  BY <1>1, <1>6 DEF Owned, Held, IInv, Rounds, RoundTypes
<1>. QED  BY <1>1, <1>2, <1>3, <1>6, <1>7

\* The other communicators of a process are not concerned.
LEMMA OthersStep ==
    ASSUME IInv, IInv', NEW j \in Creation, Step(j), ~exhausted'
    PROVE  others' = others
<1>1. \A u \in Creation : u[1] \in Proc /\ u[2] \in Child /\ Parent[u[2]] \in Comm
  BY CreationOf
<1>2. /\ TypeOK /\ Rounds /\ HeldHasParent /\ Owned(j) \subseteq Id
      /\ pc[j] \notin {"barrier", "done"} => Held(j) = Owned(j)
  BY OwnedIs DEF IInv, Registry, Tables
<1>3. ASSUME NEW p \in Proc, NEW c \in Comm
      PROVE  communicators'[p][contextid[c]] = c <=> communicators[p][contextid[c]] = c
  <2>1. contextid[c] \in Id
    OBVIOUS
  <2>2. CASE \E i \in Id : /\ Free(j[1], i) /\ SetItem(j[1], i, Parent[j[2]])
                           /\ Owned(j)' = {i} /\ pc'[j] \notin {"barrier", "done"}
    <3>1. PICK i \in Id : /\ Free(j[1], i) /\ SetItem(j[1], i, Parent[j[2]])
                          /\ Owned(j)' = {i}
      BY <2>2
    <3>2. i # contextid[Parent[j[2]]]
      BY <2>2, <3>1 DEF IInv, Tables, HeldHasParent, Owned
    <3>3. \A q \in Proc, n \in Id : communicators'[q][n] =
            IF q = j[1] /\ n = i THEN Parent[j[2]] ELSE communicators[q][n]
      BY <1>1, <1>2, <3>1, SetItemIs
    <3>4. communicators[j[1]][i] = NULL
      BY <3>1 DEF Free
    <3>. QED  BY <1>1, <2>1, <3>2, <3>3, <3>4
  <2>3. CASE \E i \in Id : Held(j) = {i} /\ \E x \in Child \cup {NULL} : SetItem(j[1], i, x)
    <3>1. PICK i \in Id, x \in Child \cup {NULL} : Held(j) = {i} /\ SetItem(j[1], i, x)
      BY <2>3
    <3>2. communicators[j[1]][i] = Parent[j[2]] /\ i # contextid[Parent[j[2]]]
      BY <1>2, <3>1 DEF HeldHasParent
    <3>. QED  BY <1>1, <1>2, <2>1, <3>1, <3>2, SetItemIs
  <2>. QED  BY SMTT(30), <1>1, <1>2, <2>2, <2>3, EntryStep
<1>. QED  BY <1>3 DEF others

\* What concerns one communicator is not changed by the creation of another.
LEMMA AgreedElsewhere ==
    ASSUME IInv, NEW j \in Creation, Step(j), NEW k \in Child, k # j[2]
    PROVE  Agreed(k)' = Agreed(k) /\ agreed'[k] = agreed[k]
<1>. DEFINE J == {<<p, k>> : p \in Members[k]}
            one == CHOOSE u \in Creation : u[2] = k
<1>1. \A u \in Creation : u[2] = k =>
        /\ pc'[u] = pc[u] /\ nextcid'[u] = nextcid[u]
        /\ response'[u] = response[u] /\ round'[u] = round[u]
  BY OnlyItsOwn DEF IInv, Rounds
<1>2. \A u \in J : u \in Creation /\ u[2] = k
  BY CreationsOf
<1>3. \E u \in J : TRUE
  <2>1. PICK p \in Members[k] : TRUE
    BY CreationsOf
  <2>2. <<p, k>> \in J
    OBVIOUS
  <2>. QED  BY <2>2
<1>4. one \in Creation /\ one[2] = k
  BY <1>2, <1>3
<1>5. Agreed(k)' = Agreed(k)
  <2>. HIDE DEF J
  <2>1. Agreed(k) <=>
          \/ \E u \in J : pc[u] \in {"set", "barrier", "done"}
          \/ \A u \in J : pc[u] = "min" /\ response[u] /\ \A v \in J : round[v] = round[u]
    BY DEF Agreed, J
  <2>2. Agreed(k)' <=>
          \/ \E u \in J : pc'[u] \in {"set", "barrier", "done"}
          \/ \A u \in J : pc'[u] = "min" /\ response'[u] /\ \A v \in J : round'[v] = round'[u]
    BY DEF Agreed, J
  <2>3. Agreed(k)' <=> Agreed(k)
    BY <1>1, <1>2, <2>1, <2>2
  <2>. QED  BY <2>3 DEF Agreed
<1>6. agreed'[k] = IF Agreed(k)' THEN nextcid'[one] ELSE -1
  BY DEF agreed
<1>7. agreed[k] = IF Agreed(k) THEN nextcid[one] ELSE -1
  BY DEF agreed
<1>. HIDE DEF one
<1>. QED  BY <1>1, <1>4, <1>5, <1>6, <1>7

\* A creation that is agreed on stays so, and its identifier too.
LEMMA AgreedStays ==
    ASSUME IInv, IInv', NEW j \in Creation, Step(j), Agreed(j[2])
    PROVE  Agreed(j[2])' /\ agreed'[j[2]] = agreed[j[2]]
<1>1. AgreedOn /\ AgreedOn'
  BY AgreedMeans, PTL
<1>2. j[2] \in Child /\ j \in {<<p, j[2]>> : p \in Members[j[2]]}
  BY CreationOf DEF Creation
<1>3. pc[j] \in {"min", "set", "barrier", "done"} /\ AllAgree(j)
  BY <1>1, <1>2, PeersAre DEF AgreedOn, AllAgree
<1>4. pc'[j] \in {"set", "barrier", "done"} /\ nextcid' = nextcid
  BY <1>3, StepIs DEF IInv
<1>5. Agreed(j[2])'
  BY <1>2, <1>4 DEF Agreed
<1>. QED  BY <1>1, <1>2, <1>4, <1>5 DEF AgreedOn

\* Agreeing on an identifier, no member has it for another communicator.
LEMMA AgreeStep ==
    ASSUME IInv, IInv', NEW j \in Creation, Step(j), ~exhausted', exhausted' = exhausted,
           ~Agreed(j[2]), Agreed(j[2])', joined' = joined, users' = users
    PROVE  Ids!Agree(j[2])
<1>. DEFINE k == j[2] i == agreed'[k]
<1>1. AgreedOn /\ AgreedOn' /\ others' = others
  BY AgreedMeans, OthersStep, PTL
<1>2. k \in Child
  BY CreationOf
<1>3. agreed[k] = -1 /\ i \in Id
  BY <1>1, <1>2 DEF agreed, AgreedOn
<1>4. ASSUME NEW p \in Members[k]
      PROVE  i \notin others[p]
  <2>. DEFINE u == <<p, k>>
  <2>1. u \in Creation /\ u[1] = p /\ u[2] = k /\ p \in Proc
    BY <1>2, CreationsOf
  <2>. HIDE DEF u
  <2>2. /\ i \in Owned(u)' /\ nextcid'[u] = i
        /\ Parent[k] \in Comm /\ k \notin Comm
    BY <1>1, <1>2, <2>1 DEF AgreedOn
  <2>3. \A c \in Comm : ~(contextid[c] = i /\ communicators'[p][i] = c)
    BY <2>1, <2>2 DEF Owned, IInv, Tables, HeldHasParent, JoinedIsThere
  <2>4. i \notin others'[p]
    BY <2>1, <2>3 DEF others
  <2>. QED  BY <1>1, <2>4
<1>5. ASSUME NEW e \in Child, agreed[e] = i
      PROVE  Members[e] \cap Members[k] = {}
  <2>. SUFFICES ASSUME NEW p \in Members[e] \cap Members[k] PROVE FALSE
    OBVIOUS
  <2>1. e # k /\ i # -1
    BY <1>3, <1>5 DEF Id
  <2>2. agreed'[e] = i /\ Agreed(e)'
    BY <1>5, <2>1, AgreedElsewhere DEF agreed
  <2>3. i \in Owned(<<p, e>>)' /\ i \in Owned(<<p, k>>)'
    BY <1>1, <1>2, <2>2, CreationsOf DEF AgreedOn
  <2>4. <<p, e>> = <<p, k>>
    BY <1>2, <2>3, CreationsOf DEF IInv, Tables, OneOwner
  <2>. QED  BY <2>1, <2>4
<1>6. agreed' = [agreed EXCEPT ![k] = i]
  <2>1. \A e \in Child : e # k => agreed'[e] = agreed[e]
    BY AgreedElsewhere
  <2>2. /\ agreed = [e \in Child |-> agreed[e]]
        /\ agreed' = [e \in Child |-> agreed'[e]]
    BY DEF agreed
  <2>. QED  BY <1>2, <2>1, <2>2
<1>. HIDE DEF i
<1>. QED  BY <1>1, <1>3, <1>4, <1>5, <1>6 DEF Ids!Agree, Ids!NoId

\* Each step of a creation is a step of the agreement, or none.
LEMMA IdsStep ==
    ASSUME IInv, IInv', NEW j \in Creation, Step(j), ~exhausted', exhausted' = exhausted
    PROVE  [Ids!Next]_Ids!idVars
<1>. DEFINE k == j[2] p == j[1]
<1>1. /\ k \in Child /\ p \in Members[k] /\ p \in Proc /\ j = <<p, k>>
      /\ \A e \in Child : \A q \in Members[e] : <<q, e>> \in Creation
  BY CreationOf, CreationsOf DEF Creation
<1>2. others' = others
  BY OthersStep
<1>3. /\ pc \in [Creation -> {"call", "done", "barrier"} \cup Registered]
      /\ \A e \in Child : \A q \in Members[e] : <<q, e>> # j => pc'[<<q, e>>] = pc[<<q, e>>]
  BY <1>1, OnlyItsOwn DEF IInv, Rounds, RoundTypes
<1>4. Agreed(k) => agreed' = agreed
  <2>. SUFFICES ASSUME Agreed(k) PROVE agreed' = agreed
    OBVIOUS
  <2>1. \A e \in Child : agreed'[e] = agreed[e]
    BY AgreedElsewhere, AgreedStays
  <2>. QED  BY <2>1 DEF agreed
<1>5. ~Agreed(k) /\ ~Agreed(k)' => agreed' = agreed
  <2>. SUFFICES ASSUME ~Agreed(k), ~Agreed(k)' PROVE agreed' = agreed
    OBVIOUS
  <2>1. \A e \in Child : agreed'[e] = agreed[e]
    <3>1. agreed[k] = -1 /\ agreed'[k] = -1
      BY <1>1 DEF agreed
    <3>. QED  BY <3>1, AgreedElsewhere
  <2>. QED  BY <2>1 DEF agreed
<1>6. CASE pc[j] \notin {"set", "barrier"}
  <2>1. /\ pc[j] \in {"barrier", "done"} <=> pc'[j] \in {"barrier", "done"}
        /\ pc[j] = "done" <=> pc'[j] = "done"
    BY <1>6, StepIs DEF IInv
  <2>2. joined' = joined /\ users' = users
    BY <1>1, <1>3, <2>1 DEF joined, users
  <2>. QED  BY <1>1, <1>2, <1>4, <1>5, <2>2, AgreeStep DEF Ids!Next, Ids!idVars
<1>7. CASE pc[j] = "set"
  <2>1. Agreed(k) /\ agreed' = agreed /\ pc'[j] = "barrier"
    BY <1>1, <1>4, <1>7, StepIs DEF Agreed, IInv
  <2>2. agreed[k] # -1
    <3>1. AgreedOn
      BY AgreedMeans
    <3>. QED  BY <1>1, <2>1, <3>1 DEF AgreedOn, Id
  <2>3. joined' = [joined EXCEPT ![k] = @ \cup {p}] /\ users' = users
    <3>1. \A e \in Child : \A q \in Members[e] :
            /\ pc'[<<q, e>>] \in {"barrier", "done"} <=>
                 (e = k /\ q = p) \/ pc[<<q, e>>] \in {"barrier", "done"}
            /\ pc'[<<q, e>>] = "done" <=> pc[<<q, e>>] = "done"
      <4>. SUFFICES ASSUME NEW e \in Child, NEW q \in Members[e]
                    PROVE  /\ pc'[<<q, e>>] \in {"barrier", "done"} <=>
                              (e = k /\ q = p) \/ pc[<<q, e>>] \in {"barrier", "done"}
                           /\ pc'[<<q, e>>] = "done" <=> pc[<<q, e>>] = "done"
        OBVIOUS
      <4>1. CASE e = k /\ q = p
        BY <1>1, <1>7, <2>1, <4>1
      <4>2. CASE ~(e = k /\ q = p)
        BY <1>1, <1>3, <4>2
      <4>. QED  BY <4>1, <4>2
    <3>2. \A e \in Child :
            /\ joined'[e] = IF e = k THEN joined[e] \cup {p} ELSE joined[e]
            /\ users'[e] = users[e]
      BY <1>1, <3>1 DEF joined, users
    <3>3. /\ joined = [e \in Child |-> joined[e]] /\ joined' = [e \in Child |-> joined'[e]]
          /\ users = [e \in Child |-> users[e]] /\ users' = [e \in Child |-> users'[e]]
      BY DEF joined, users
    <3>. QED  BY <1>1, <3>2, <3>3
  <2>4. Ids!Join(k, p)
    BY <1>1, <1>2, <2>1, <2>2, <2>3 DEF Ids!Join, Ids!NoId
  <2>. QED  BY <1>1, <2>4 DEF Ids!Next
<1>8. CASE pc[j] = "barrier"
  <2>1. Agreed(k) /\ agreed' = agreed /\ pc'[j] = "done" /\ AllActive(j)
    BY <1>1, <1>4, <1>8, StepIs DEF Agreed, IInv
  <2>2. joined[k] = Members[k]
    BY <1>1, <2>1 DEF joined, AllActive, Peers
  <2>3. users' = [users EXCEPT ![k] = @ \cup {p}] /\ joined' = joined
    <3>1. \A e \in Child : \A q \in Members[e] :
            /\ pc'[<<q, e>>] \in {"barrier", "done"} <=> pc[<<q, e>>] \in {"barrier", "done"}
            /\ pc'[<<q, e>>] = "done" <=> (e = k /\ q = p) \/ pc[<<q, e>>] = "done"
      <4>. SUFFICES ASSUME NEW e \in Child, NEW q \in Members[e]
                    PROVE  /\ pc'[<<q, e>>] \in {"barrier", "done"} <=>
                              pc[<<q, e>>] \in {"barrier", "done"}
                           /\ pc'[<<q, e>>] = "done" <=> (e = k /\ q = p) \/ pc[<<q, e>>] = "done"
        OBVIOUS
      <4>1. CASE e = k /\ q = p
        BY <1>1, <1>8, <2>1, <4>1
      <4>2. CASE ~(e = k /\ q = p)
        BY <1>1, <1>3, <4>2
      <4>. QED  BY <4>1, <4>2
    <3>2. \A e \in Child :
            /\ users'[e] = IF e = k THEN users[e] \cup {p} ELSE users[e]
            /\ joined'[e] = joined[e]
      BY <1>1, <3>1 DEF joined, users
    <3>3. /\ joined = [e \in Child |-> joined[e]] /\ joined' = [e \in Child |-> joined'[e]]
          /\ users = [e \in Child |-> users[e]] /\ users' = [e \in Child |-> users'[e]]
      BY DEF joined, users
    <3>. QED  BY <1>1, <3>2, <3>3
  <2>4. Ids!Use(k, p)
    BY <1>1, <1>2, <2>1, <2>2, <2>3 DEF Ids!Use
  <2>. QED  BY <1>1, <2>4 DEF Ids!Next
<1>. QED  BY <1>6, <1>7, <1>8

\* Freeing a communicator forgets its identifier, at that process.
LEMMA IdsForget ==
    ASSUME IInv, NEW c \in Freed, NEW p \in Member[c], CommFree(p, c)
    PROVE  Ids!Forget(p)
<1>1. /\ c \in Comm /\ p \in Proc /\ contextid[c] \in Id /\ TypeOK
      /\ communicators[p][contextid[c]] = c
  BY DEF CommFree, IInv, Registry, Tables, NotFreedStays
<1>2. \A q \in Proc, n \in Id : communicators'[q][n] =
        IF q = p /\ n = contextid[c] THEN NULL ELSE communicators[q][n]
  BY <1>1, SetItemIs DEF CommFree
<1>3. \A d \in Comm : p \in Member[d] /\ d # c => contextid[d] # contextid[c]
  BY <1>1
<1>4. \A q \in Proc : others'[q] =
        IF q = p THEN others[q] \ {contextid[c]} ELSE others[q]
  <2>. SUFFICES ASSUME NEW q \in Proc, NEW i
                PROVE  i \in others'[q] <=>
                         i \in others[q] /\ ~(q = p /\ i = contextid[c])
    BY DEF others
  <2>1. i \in others[q] <=> \E d \in Comm : /\ i = contextid[d] /\ q \in Member[d]
                                            /\ communicators[q][contextid[d]] = d
    BY DEF others
  <2>2. i \in others'[q] <=> \E d \in Comm : /\ i = contextid[d] /\ q \in Member[d]
                                             /\ communicators'[q][contextid[d]] = d
    BY DEF others
  <2>3. \A d \in Comm : contextid[d] \in Id
    OBVIOUS
  <2>. QED  BY <1>1, <1>2, <1>3, <2>1, <2>2, <2>3
<1>5. contextid[c] \in others[p]
  BY <1>1 DEF others
<1>6. others' = [others EXCEPT ![p] = @ \ {contextid[c]}]
  BY <1>1, <1>4 DEF others
<1>7. UNCHANGED <<agreed, joined, users, exhausted>>
  BY DEF CommFree, roundVars, agreed, joined, users, Agreed
<1>. QED  BY <1>5, <1>6, <1>7 DEF Ids!Forget

\* Proposals, retries and reservations amount to one agreement on an identifier
\* that is free at every member, which each joins before any uses it, until a
\* loop finds no free entry (comm_cid.c:187-242, :423-427).
THEOREM IdsRefinement == Spec => ImplementsCommIds
<1>1. Init => Ids!Init
  <2>. SUFFICES ASSUME Init PROVE Ids!Init
    OBVIOUS
  <2>1. \A j \in Creation : pc[j] = "call"
    BY DEF Init
  <2>2. \A k \in Child : ~Agreed(k) /\ \A q \in Members[k] : pc[<<q, k>>] = "call"
    <3>. SUFFICES ASSUME NEW k \in Child
                  PROVE  ~Agreed(k) /\ \A q \in Members[k] : pc[<<q, k>>] = "call"
      OBVIOUS
    <3>1. PICK p \in Members[k] : TRUE
      BY CreationsOf
    <3>2. \A q \in Members[k] : pc[<<q, k>>] = "call"
      BY <2>1, CreationsOf
    <3>3. \A j \in {<<q, k>> : q \in Members[k]} : pc[j] = "call"
      BY <3>2
    <3>4. <<p, k>> \in {<<q, k>> : q \in Members[k]}
      OBVIOUS
    <3>. QED  BY <3>2, <3>3, <3>4 DEF Agreed
  <2>3. \A p \in Proc : others[p] \subseteq Id
    BY DEF others
  <2>4. DOMAIN others = Proc
    BY DEF others
  <2>5. agreed = [k \in Child |-> -1]
    BY <2>2 DEF agreed
  <2>6. joined = [k \in Child |-> {}] /\ users = [k \in Child |-> {}]
    BY <2>2 DEF joined, users
  <2>7. exhausted = FALSE
    BY DEF Init
  <2>. QED  BY <2>3, <2>4, <2>5, <2>6, <2>7 DEF Ids!Init, Ids!NoId
<1>2. FullInv /\ FullInv' /\ [Next]_vars => [Ids!Next]_Ids!idVars
  <2>. SUFFICES ASSUME FullInv, FullInv', [Next]_vars, ~exhausted'
                PROVE  [Ids!Next]_Ids!idVars
    BY DEF Ids!Next, Ids!NoneLeft
  <2>0. exhausted' = exhausted /\ IInv /\ IInv'
    BY FullStays DEF FullInv, IInv
  <2>1. CASE \E j \in Creation : Step(j)
    BY <2>0, <2>1, IdsStep
  <2>2. CASE \E c \in Freed : \E p \in Member[c] : CommFree(p, c)
    <3>1. PICK c \in Freed : \E p \in Member[c] : CommFree(p, c)
      BY <2>2
    <3>2. PICK p \in Member[c] : CommFree(p, c)
      BY <3>1
    <3>3. p \in DOMAIN others
      BY DEF others
    <3>. QED  BY <2>0, <3>2, <3>3, IdsForget DEF Ids!Next
  <2>3. CASE UNCHANGED vars
    BY <2>3 DEF vars, tableVars, roundVars, Ids!idVars, others, agreed, joined, users, Agreed
  <2>. QED  BY <2>1, <2>2, <2>3 DEF Next
<1>. QED  BY <1>1, <1>2, Invariance, PTL DEF Spec, ImplementsCommIds, Ids!IdSpec
=============================================================================
