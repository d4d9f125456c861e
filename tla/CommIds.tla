------------------------------ MODULE CommIds ------------------------------
(***************************************************************************)
(* What choosing an identifier for a new communicator promises: all its    *)
(* members join it under one identifier, which none of them has for        *)
(* another communicator; and none uses it before all have joined.  Nothing *)
(* is promised once some process has no identifier left.                   *)
(***************************************************************************)
EXTENDS Integers

CONSTANTS
    Child,      \* the communicators created
    Members,    \* for each of them, the processes that take part
    Id          \* identifiers

NoId == -1

VARIABLES
    others,     \* by process: identifiers of its other communicators
    agreed,     \* by child: its identifier, once all agree on it
    joined,     \* by child: members that know it under that identifier
    users,      \* by child: members that may send on it
    exhausted   \* a process has found no identifier left

idVars == <<others, agreed, joined, users, exhausted>>

Init ==
    /\ \A p \in DOMAIN others : others[p] \subseteq Id
    /\ agreed = [k \in Child |-> NoId]
    /\ joined = [k \in Child |-> {}]
    /\ users = [k \in Child |-> {}]
    /\ exhausted = FALSE

Agree(k) ==
    /\ agreed[k] = NoId
    /\ \E i \in Id :
         /\ \A p \in Members[k] : i \notin others[p]
         /\ \A e \in Child : agreed[e] = i => Members[e] \cap Members[k] = {}
         /\ agreed' = [agreed EXCEPT ![k] = i]
    /\ UNCHANGED <<others, joined, users, exhausted>>

Join(k, p) ==
    /\ agreed[k] # NoId /\ p \in Members[k]
    /\ joined' = [joined EXCEPT ![k] = @ \cup {p}]
    /\ UNCHANGED <<others, agreed, users, exhausted>>

Use(k, p) ==
    /\ joined[k] = Members[k] /\ p \in Members[k]
    /\ users' = [users EXCEPT ![k] = @ \cup {p}]
    /\ UNCHANGED <<others, agreed, joined, exhausted>>

Forget(p) ==
    /\ \E i \in others[p] : others' = [others EXCEPT ![p] = @ \ {i}]
    /\ UNCHANGED <<agreed, joined, users, exhausted>>

NoneLeft == exhausted'

Next ==
    \/ \E k \in Child : Agree(k) \/ \E p \in Members[k] : Join(k, p) \/ Use(k, p)
    \/ \E p \in DOMAIN others : Forget(p)
    \/ NoneLeft

IdSpec == Init /\ [][Next]_idVars
=============================================================================
