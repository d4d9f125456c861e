--------------------------- MODULE MCOb1Matching ---------------------------
(* Small instances of Ob1Matching. *)
EXTENDS Ob1Matching

CONSTANTS t1, t2

MCThread == {t1, t2}
MCTag == {-1, 1}

\* One source sends enough to wrap; the other gives receives a choice.
MCMaxMsgs == [s \in {0, 1} |-> IF s = 0 THEN 3 ELSE 1]

MCLongMsg == {<<0, 3>>}

\* All are long, for the cancellation of one whose data goes on.
CancelLongMsg == {0, 1} \X (3..5)

\* A receive of anything, one of a source and tag, and probes.
MCPosts ==
    {[peer |-> AnySource, tag |-> AnyTag, type |-> "RECV"],
     [peer |-> 0, tag |-> 1, type |-> "RECV"],
     [peer |-> AnySource, tag |-> 1, type |-> "PROBE"],
     [peer |-> 0, tag |-> AnyTag, type |-> "IPROBE"]}
=============================================================================
