------------------------- MODULE MCRawTransferCrash -------------------------
(***************************************************************************)
(* Small instances of RawTransferCrash.                                    *)
(***************************************************************************)
EXTENDS RawTransferCrash

\* One window and one chunk; one chunk.
LargoCorto == [f \in Archivos |-> IF f = 1 THEN 3 ELSE 1]
=============================================================================
