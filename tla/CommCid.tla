------------------------------ MODULE CommCid ------------------------------
(***************************************************************************)
(* How the processes of a communicator agree on the identifier of a new    *)
(* one (openmpi-1.4.2/ompi/communicator/comm_cid.c): each proposes a free  *)
(* entry of its own table, all take the largest, and all begin again above *)
(* it unless each could reserve it.  The threads of a process create       *)
(* communicators at once: an action is what one of them does between two   *)
(* points where it takes a lock, or waits for the other processes.  Both   *)
(* allreduce operations are over the members of the parent, for the modes  *)
(* INTRA and INTER.                                                        *)
(***************************************************************************)
EXTENDS Integers, FiniteSets

CONSTANTS
    Proc,               \* processes
    Comm,               \* communicators that exist
    Member,             \* for each, the processes it joins
    contextid,          \* for each, its c_contextid
    Child,              \* communicators to create
    Parent,             \* for each, the communicator it is created from
    After,              \* pairs <<p, e, k>>: a thread of p creates e, then k
    Freed,              \* communicators that their processes may free
    MaxId,              \* mca_pml.pml_max_contextid
    MaxRounds           \* bound: rounds of one creation

NULL == "null"

Id == 0..MaxId - 1
Members == [k \in Child |-> Member[Parent[k]]]
Creation == {j \in Proc \X Child : j[1] \in Members[j[2]]}

ASSUME CommAssumption ==
    /\ MaxId \in Nat \ {0} /\ MaxRounds \in Nat
    /\ Member \in [Comm -> (SUBSET Proc) \ {{}}] /\ contextid \in [Comm -> Id]
    /\ \A c, d \in Comm : c # d /\ Member[c] \cap Member[d] # {} =>
                              contextid[c] # contextid[d]
    /\ Parent \in [Child -> Comm \ Freed] /\ Freed \subseteq Comm
    /\ After \subseteq Proc \X Child \X Child
    /\ Child \cap Comm = {} /\ NULL \notin Child \cup Comm

\* "It is the user responsibility to schedule" creations from one parent
\* (comm_cid.c:372): each process makes them in the same order.
ASSUME ScheduleAssumption ==
    \A e, k \in Child : Parent[e] = Parent[k] /\ e # k =>
        \/ \A p \in Members[k] : <<p, e, k>> \in After
        \/ \A p \in Members[k] : <<p, k, e>> \in After

\* A round that fails ends above the number proposed, so the bound only stops
\* a creation that went on with a full table.
ASSUME RoundsAssumption == MaxId <= MaxRounds

VARIABLES
    communicators,      \* ompi_mpi_communicators of each process
    registered,         \* ompi_registered_comms of each process
    pc,                 \* by creation: where ompi_comm_nextcid() is
    start,              \* by creation: the entry that the loop looks at, start or i
    nextlocal_cid,      \* by creation: the number proposed, or left from before
    nextcid,            \* by creation: the largest proposed
    response,           \* by creation: whether nextcid could be reserved
    round,              \* by creation: proposals made before this one
    freed,              \* pairs <<p, c>>: p has freed c
    exhausted           \* history: a loop has come to the end of the table

tableVars == <<communicators, registered>>
roundVars == <<nextcid, response, round>>
vars == <<tableVars, pc, start, nextlocal_cid, roundVars, freed, exhausted>>

\* Where a creation has its parent registered.
Registered == {"start", "turn", "scan", "max", "release", "retake", "min", "set"}

TypeOK ==
    /\ communicators \in [Proc -> [Id -> Comm \cup Child \cup {NULL}]]
    /\ pc \in [Creation -> {"call", "done", "barrier"} \cup Registered]
    /\ start \in [Creation -> 0..MaxId]
    /\ nextlocal_cid \in [Creation -> Id]
    /\ nextcid \in [Creation -> Id]
    /\ response \in [Creation -> BOOLEAN]
    /\ round \in [Creation -> 0..MaxRounds]
    /\ freed \subseteq Proc \X Freed
    /\ exhausted \in BOOLEAN
    /\ registered = [p \in Proc |->
         {Parent[k] : k \in {e \in Child : <<p, e>> \in Creation /\
                                           pc[<<p, e>>] \in Registered}}]

Init ==
    /\ communicators = [p \in Proc |-> [i \in Id |->
         IF \E c \in Comm : p \in Member[c] /\ contextid[c] = i
         THEN CHOOSE c \in Comm : p \in Member[c] /\ contextid[c] = i ELSE NULL]]
    /\ registered = [p \in Proc |-> {}]
    /\ pc = [j \in Creation |-> "call"]
    /\ start = [j \in Creation |-> 0]
    /\ nextlocal_cid = [j \in Creation |-> 0]
    /\ nextcid = [j \in Creation |-> 0]
    /\ response = [j \in Creation |-> FALSE]
    /\ round = [j \in Creation |-> 0]
    /\ freed = {}
    /\ exhausted = FALSE

----------------------------------------------------------------------------
(* The table of communicators, a pointer array with a lock of its own *)

Free(p, i) == i \in Id /\ communicators[p][i] = NULL

\* opal_pointer_array_set_item(), which does not ask who has the entry.
SetItem(p, i, value) ==
    communicators' = [communicators EXCEPT ![p][i] = value]

\* Its field lowest_free, which every function above keeps: MaxId when full.
lowest_free(p) ==
    CHOOSE i \in 0..MaxId : /\ i = MaxId \/ Free(p, i)
                            /\ \A n \in 0..i - 1 : ~Free(p, n)

\* A communicator is freed: its destructor clears the entry, whatever is in it.
CommFree(p, c) ==
    /\ c \in Freed /\ <<p, c>> \notin freed
    /\ freed' = freed \cup {<<p, c>>}
    /\ SetItem(p, contextid[c], NULL)
    /\ UNCHANGED <<registered, pc, start, nextlocal_cid, roundVars, exhausted>>

----------------------------------------------------------------------------
(* ompi_comm_nextcid() *)

Goto(j, label) == pc' = [pc EXCEPT ![j] = label]

\* Under ompi_cid_lock, again and again while the parent is registered.
RegisterCid(j) ==
    LET p == j[1] c == Parent[j[2]]
    IN  /\ pc[j] = "call"
        /\ \A e \in Child : <<p, e, j[2]>> \in After => pc[<<p, e>>] = "done"
        /\ c \notin registered[p]
        /\ registered' = [registered EXCEPT ![p] = @ \cup {c}]
        /\ Goto(j, "start")
        /\ UNCHANGED <<communicators, start, nextlocal_cid, roundVars, freed, exhausted>>

\* start = lowest_free, which takes no lock.
ReadStart(j) ==
    /\ pc[j] = "start"
    /\ start' = [start EXCEPT ![j] = lowest_free(j[1])]
    /\ Goto(j, "turn")
    /\ UNCHANGED <<tableVars, nextlocal_cid, roundVars, freed, exhausted>>

\* ompi_comm_lowest_cid(): of the parents registered, this one's is lowest.
LowestCid(j) ==
    \A c \in registered[j[1]] : contextid[Parent[j[2]]] <= contextid[c]

Turn(j) ==
    /\ pc[j] = "turn"
    /\ LowestCid(j)
    /\ Goto(j, "scan")
    /\ UNCHANGED <<tableVars, start, nextlocal_cid, roundVars, freed, exhausted>>

\* One turn of the loop over the entries: the first free one is reserved, with
\* the parent in it.
Scan(j) ==
    LET p == j[1] i == start[j]
    IN  /\ pc[j] = "scan"
        /\ \/ /\ Free(p, i)
              /\ SetItem(p, i, Parent[j[2]])
              /\ nextlocal_cid' = [nextlocal_cid EXCEPT ![j] = i]
              /\ Goto(j, "max")
              /\ UNCHANGED start
           \/ /\ ~Free(p, i) /\ i < MaxId
              /\ start' = [start EXCEPT ![j] = i + 1]
              /\ UNCHANGED <<communicators, pc, nextlocal_cid>>
        /\ UNCHANGED <<registered, roundVars, freed, exhausted>>

\* The loop ends with no entry reserved, and the number it proposes is the one
\* of the round before; in the first round that variable has no value yet.
ScanEnds(j) ==
    /\ pc[j] = "scan" /\ start[j] = MaxId
    /\ exhausted' = TRUE
    /\ IF round[j] = 0
       THEN \E i \in Id : nextlocal_cid' = [nextlocal_cid EXCEPT ![j] = i]
       ELSE UNCHANGED nextlocal_cid
    /\ Goto(j, "max")
    /\ UNCHANGED <<tableVars, start, roundVars, freed>>

\* The same creation at the members, j among them.
Peers(j) == {<<p, j[2]>> : p \in Members[j[2]]}

\* All have come to the allreduce with MPI_MAX that j is in.
AllProposed(j) ==
    \A u \in Peers(j) :
        round[u] = round[j] /\ pc[u] \in {"max", "release", "retake", "min"}

Largest(j) ==
    {nextlocal_cid[u] : u \in
        {v \in Peers(j) : \A w \in Peers(j) : nextlocal_cid[w] <= nextlocal_cid[v]}}

LeaveMax(j) ==
    /\ pc[j] = "max" /\ AllProposed(j)
    /\ \E n \in Largest(j) :
         /\ nextcid' = [nextcid EXCEPT ![j] = n]
         /\ response' = [response EXCEPT ![j] = (n = nextlocal_cid[j])]
         /\ Goto(j, IF n = nextlocal_cid[j] THEN "min" ELSE "release")
    /\ UNCHANGED <<tableVars, start, nextlocal_cid, round, freed, exhausted>>

\* Mutation of GiveUp: the entry proposed stays reserved.
GiveUpNothing(j) == UNCHANGED communicators
GiveUp(j) == SetItem(j[1], nextlocal_cid[j], NULL)

Release(j) ==
    /\ pc[j] = "release"
    /\ GiveUp(j)
    /\ Goto(j, "retake")
    /\ UNCHANGED <<registered, start, nextlocal_cid, roundVars, freed, exhausted>>

\* Mutation of CanTake: the entry is not tested.
CanTakeAny(j) == TRUE
CanTake(j) == Free(j[1], nextcid[j])

\* opal_pointer_array_test_and_set_item() of the largest.
Retake(j) ==
    /\ pc[j] = "retake"
    /\ response' = [response EXCEPT ![j] = CanTake(j)]
    /\ IF CanTake(j) THEN SetItem(j[1], nextcid[j], Parent[j[2]])
       ELSE UNCHANGED communicators
    /\ Goto(j, "min")
    /\ UNCHANGED <<registered, start, nextlocal_cid, nextcid, round, freed, exhausted>>

\* All have come to the allreduce with MPI_MIN that j is in.
AllAnswered(j) ==
    \A u \in Peers(j) : \/ round[u] > round[j]
                        \/ round[u] = round[j] /\ pc[u] \in {"min", "set", "barrier"}

\* Mutation of AllAgree: each process goes by its own answer.
AgreeAlone(j) == response[j]
AllAgree(j) == \A u \in Peers(j) : response[u]

LeaveMin(j) ==
    /\ pc[j] = "min" /\ AllAnswered(j)
    /\ \/ /\ AllAgree(j)
          /\ Goto(j, "set")
          /\ UNCHANGED <<communicators, start, round>>
       \/ /\ ~AllAgree(j) /\ round[j] < MaxRounds
          /\ IF response[j] THEN SetItem(j[1], nextcid[j], NULL)
             ELSE UNCHANGED communicators
          /\ start' = [start EXCEPT ![j] = nextcid[j] + 1]
          /\ round' = [round EXCEPT ![j] = @ + 1]
          /\ Goto(j, "turn")
    /\ UNCHANGED <<registered, nextlocal_cid, nextcid, response, freed, exhausted>>

\* Mutation of Unregister: the parent stays registered.
UnregisterNothing(j) == UNCHANGED registered
Unregister(j) ==
    registered' = [registered EXCEPT ![j[1]] = @ \ {Parent[j[2]]}]

\* newcomm takes its identifier and its entry, and the parent is unregistered.
\* (Two locks; nobody reads the entry between them.)
SetComm(j) ==
    /\ pc[j] = "set"
    /\ SetItem(j[1], nextcid[j], j[2])
    /\ Unregister(j)
    /\ Goto(j, "barrier")
    /\ UNCHANGED <<start, nextlocal_cid, roundVars, freed, exhausted>>

\* Mutation of AllActive: no barrier.
AllActiveAlone(j) == TRUE
AllActive(j) == \A u \in Peers(j) : pc[u] \in {"barrier", "done"}

\* ompi_comm_activate(): add_comm(), then the allreduce that is a barrier.
Activate(j) ==
    /\ pc[j] = "barrier" /\ AllActive(j)
    /\ Goto(j, "done")
    /\ UNCHANGED <<tableVars, start, nextlocal_cid, roundVars, freed, exhausted>>

----------------------------------------------------------------------------

Step(j) ==
    \/ RegisterCid(j) \/ ReadStart(j) \/ Turn(j) \/ Scan(j) \/ ScanEnds(j)
    \/ LeaveMax(j) \/ Release(j) \/ Retake(j) \/ LeaveMin(j)
    \/ SetComm(j) \/ Activate(j)

Next ==
    \/ \E j \in Creation : Step(j)
    \/ \E c \in Freed : \E p \in Member[c] : CommFree(p, c)

Spec == Init /\ [][Next]_vars

\* Threads run, and the processes make progress in an allreduce.
FairSpec == Spec /\ \A j \in Creation : WF_vars(Step(j))

----------------------------------------------------------------------------
(* Properties *)

\* The entry of its table that a creation holds reserved, if any.
Held(j) ==
    IF pc[j] \in {"max", "release"} THEN {nextlocal_cid[j]}
    ELSE IF pc[j] = "set" \/ (pc[j] = "min" /\ response[j]) THEN {nextcid[j]}
    ELSE {}

\* Members do not end a creation with different identifiers, and until then
\* they are in the same round, whatever they propose, also what the loop left
\* in nextlocal_cid when a table was full (comm_cid.c:198-227).
SameId ==
    \A j \in Creation : \A u \in Peers(j) :
        pc[j] \in {"set", "barrier", "done"} =>
            /\ response[u] /\ round[u] = round[j] /\ nextcid[u] = nextcid[j]
            /\ pc[u] \in {"min", "set", "barrier", "done"}

\* Until a loop finds no free entry, each entry is what one communicator, or
\* one creation, made it: nothing that is in use is overwritten, two threads of
\* a process never hold the same entry, and one that a creation gave up does
\* not stay reserved (comm_cid.c:213-218, :235).  Afterwards the number
\* released, or agreed on, may be of an entry in use (comm_cid.c:198-213).
EveryEntryHasOneOwner ==
    ~exhausted => \A p \in Proc : \A i \in Id :
        LET holders == {j \in Creation : j[1] = p /\ i \in Held(j)}
            children == {j \in Creation : /\ j[1] = p /\ nextcid[j] = i
                                          /\ pc[j] \in {"barrier", "done"}}
            x == communicators[p][i]
        IN  /\ Cardinality(holders \cup children) <= 1
            /\ \A j \in holders : x = Parent[j[2]] /\ x \in registered[p]
            /\ \A j \in children : x = j[2]
            /\ holders \cup children = {} =>
                 x = NULL \/ (x \in Comm /\ contextid[x] = i /\ p \in Member[x])

\* Once a member may send on the new communicator, every member has it under
\* the identifier in its messages, and not the parent that kept its place
\* (comm_cid.c:199, :423-427), unless a loop has found no free entry.
NoEarlyUse ==
    ~exhausted => \A j \in Creation : pc[j] = "done" =>
        \A p \in Members[j[2]] : communicators[p][nextcid[j]] = j[2]

\* Every creation ends, or a loop comes to the end of the table: no creation
\* waits for ever for its turn, for a parent to be unregistered or for the other
\* members, and the retries do not go on without end (comm_cid.c:190-194, :238).
EveryCreationEnds == <>(exhausted \/ \A j \in Creation : pc[j] = "done")

\* The child has an identifier when every member has reserved it.
Agreed(k) ==
    LET J == {<<p, k>> : p \in Members[k]}
    IN  \/ \E j \in J : pc[j] \in {"set", "barrier", "done"}
        \/ \A j \in J : /\ pc[j] = "min" /\ response[j]
                        /\ \A u \in J : round[u] = round[j]

\* What CommIds calls others, agreed, joined and users.
others == [p \in Proc |->
    {contextid[c] : c \in {d \in Comm : p \in Member[d] /\
                              communicators[p][contextid[d]] = d}}]
agreed == [k \in Child |->
    IF Agreed(k) THEN nextcid[CHOOSE j \in Creation : j[2] = k] ELSE -1]
joined == [k \in Child |->
    {p \in Members[k] : pc[<<p, k>>] \in {"barrier", "done"}}]
users == [k \in Child |-> {p \in Members[k] : pc[<<p, k>>] = "done"}]

Ids == INSTANCE CommIds

\* Proposals, retries and reservations amount to one agreement on an identifier
\* that is free at every member, until a loop finds no free entry
\* (comm_cid.c:187-242).
ImplementsCommIds == Ids!IdSpec

\* ompi/mpi/man/man3/MPI_Init_thread.3in:71: "If the process is multithreaded,
\* multiple threads may call MPI at once with no restrictions."
ThreadsUnrestricted == <>(\A j \in Creation : pc[j] = "done")
=============================================================================
