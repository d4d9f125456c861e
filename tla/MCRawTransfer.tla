--------------------------- MODULE MCRawTransfer ---------------------------
(***************************************************************************)
(* Small instances of RawTransfer: windows of two chunks, and three        *)
(* windows before the numbers wrap.                                        *)
(***************************************************************************)
EXTENDS RawTransferInv

\* Chunks of three bytes.  File 1 fills three windows and half of the fourth,
\* which wraps to 0; the others end in a short chunk: file 2 in one of two
\* bytes, alone in its window; file 3 in one of two, in its only window; file 4
\* in one of one byte, which is padded.
LargoVario == [f \in Archivos |-> CASE f = 1 -> 21 [] f = 2 -> 8 [] f = 3 -> 5 [] f = 4 -> 7]

\* File 1 ends past the wrap in a chunk of two bytes; file 2 is padded.
LargoConResto == [f \in Archivos |-> IF f = 1 THEN 23 ELSE 7]

\* Chunks of one byte: three windows and a half.
LargoVivo == [f \in Archivos |-> 7]
=============================================================================
