--------------------------- MODULE MCTcpEndpoint ---------------------------
(* Small instances of TcpEndpoint. *)
EXTENDS TcpEndpoint

CONSTANTS p1, p2

MCProc == {p1, p2}
=============================================================================
