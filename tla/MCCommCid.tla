----------------------------- MODULE MCCommCid -----------------------------
(* Small instances of CommCid. *)
EXTENDS CommCid, TLC

CONSTANTS p1, p2, world, pair, extra, k1, k2, k3

\* Two communicators of both processes; a third is at one only, and may go.
MCProc == {p1, p2}
MCComm == {world, pair, extra}
MCMember == (world :> MCProc) @@ (pair :> MCProc) @@ (extra :> {p1})
MCcontextid == (world :> 0) @@ (pair :> 1) @@ (extra :> 2)

\* One thread of each process creates k1 and then k3 from world, another creates
\* k2 from pair.
MCChild == {k1, k2, k3}
MCParent == (k1 :> world) @@ (k2 :> pair) @@ (k3 :> world)
MCAfter == MCProc \X {k1} \X {k3}

\* At p2, one thread creates k2 and then k1.
OrderChild == {k1, k2}
OrderParent == (k1 :> world) @@ (k2 :> pair)
OrderAfter == {<<p2, k2, k1>>}
=============================================================================
