---------------------------- MODULE RawProtocol ----------------------------
(***************************************************************************)
(* What the two programs of src/socketraw share: the frame codes, the      *)
(* arithmetic of the sequence numbers and the way a file is cut into       *)
(* chunks.  One chunk travels in one raw Ethernet frame; CANT_CHUNKS       *)
(* consecutive sequence numbers form a window ("porcion" in the source);   *)
(* the numbers from TOPE up are reserved for control frames.               *)
(*                                                                         *)
(* File contents are abstract: the k-th byte of file f is the cell <<f,k>>,*)
(* so two cells are equal exactly when they are the same byte of the same  *)
(* file, and a digest is modelled by the content it digests.               *)
(***************************************************************************)
EXTENDS Integers, Sequences

CONSTANTS
    CANT_CHUNKS,   \* chunks in a window (common.h: 8)
    CHUNK,         \* bytes of file in a full chunk (common.h: 1498)
    TOPE,          \* first reserved sequence number (0xF0 in the code)
    MIN_DATOS,     \* bytes of file the shortest Ethernet frame carries (60 - 16)
    Archivos,      \* the files that clients may be asked to copy
    Largo          \* Largo[f]: the size of file f in bytes

(***************************************************************************)
(* The window size divides the reserved bound (0xF0 = 30 * 8) and leaves   *)
(* three windows at least; control codes are above the data numbers.       *)
(***************************************************************************)
ASSUME VentanaAssumption ==
    /\ CANT_CHUNKS \in Nat \ {0}
    /\ TOPE \in Nat
    /\ TOPE % CANT_CHUNKS = 0
    /\ 4 * CANT_CHUNKS <= TOPE
    /\ TOPE <= 240

ASSUME ChunkAssumption ==
    /\ CHUNK \in Nat \ {0}
    /\ MIN_DATOS \in 1..CHUNK

\* Files are named by positive integers: 0 is kept for "no file".
ASSUME ArchivosAssumption ==
    /\ Archivos \subseteq Nat \ {0}
    /\ Largo \in [Archivos -> Nat]

----------------------------------------------------------------------------
(* Control frames *)

FF == 255    \* start of transmission: name and size of the file
FE == 254    \* end of transmission
FD == 253    \* request of the MD5 digest of the copy

Control == {FF, FE, FD}
NroDatos == 0..(TOPE - 1)          \* numbers a chunk may carry
Ventanas == {n \in 0..(TOPE - 2 * CANT_CHUNKS) : n % CANT_CHUNKS = 0}
Pos == 0..(CANT_CHUNKS - 1)        \* position of a chunk in its window

(* Sequence numbers *)

\* How far a received number is ahead of the first of the expected window.
\* 0xEF is TOPE - 1.
distancia(nro, anterior) ==
    IF nro >= anterior THEN nro - anterior
                       ELSE (TOPE - 1) - anterior + nro

\* Mutations of ProximaCliente: no wrap at all, and a wrap one window late.
ProximaClienteSinVuelta(nro) == nro + CANT_CHUNKS
ProximaClienteSinMargen(nro) ==
    IF nro + CANT_CHUNKS >= TOPE THEN 0 ELSE nro + CANT_CHUNKS

\* The client's next window: back to 0 when the window after it would touch
\* the reserved numbers.
ProximaCliente(nro) ==
    IF nro + 2 * CANT_CHUNKS >= TOPE THEN 0 ELSE nro + CANT_CHUNKS

\* Mutation of ProximaServidor: it wraps one window later than the client.
ProximaServidorSinMargen(anterior) ==
    LET suma == (anterior + CANT_CHUNKS) % 256
    IN  IF suma >= TOPE THEN suma - TOPE ELSE suma

\* The server's next window: an unsigned char, reduced by the bound.
ProximaServidor(anterior) ==
    LET suma == (anterior + CANT_CHUNKS) % 256
    IN  IF suma >= TOPE - CANT_CHUNKS THEN suma - (TOPE - CANT_CHUNKS) ELSE suma

----------------------------------------------------------------------------
(* The acknowledgement grid: one byte per position of the window *)

VACIO == 0      \* chunk not received
LLENO == 255    \* chunk received
MD5 == 1        \* a byte of a digest: neither of the two

GrillaVacia == [p \in Pos |-> VACIO]
GrillaLlena == [p \in Pos |-> LLENO]
GrillaMD5   == [p \in Pos |-> MD5]

----------------------------------------------------------------------------
(* Contents *)

CERO   == <<0, 0>>    \* a zero byte
BASURA == <<0, 1>>    \* an uninitialised byte of a malloc'ed buffer

Celda == Nat \X Nat

Fuente(f) == [k \in 1..Largo[f] |-> <<f, k>>]

\* The larger and the smaller of two numbers.
Mayor(a, b) == IF a >= b THEN a ELSE b
Menor(a, b) == IF a <= b THEN a ELSE b

LARGO_TRAMO == CANT_CHUNKS * CHUNK    \* bytes of file in a full window
Buffer == [1..LARGO_TRAMO -> Celda]   \* buffer_read, buffer_write

\* largo bytes of a buffer from chunk p on; past its end is memory of no file.
Porcion(buffer, p, largo) ==
    [k \in 1..largo |-> IF p * CHUNK + k <= LARGO_TRAMO
                        THEN buffer[p * CHUNK + k] ELSE BASURA]

\* Copying datos over a buffer from chunk p on.
Copiado(buffer, p, datos) ==
    [k \in 1..LARGO_TRAMO |->
        IF k > p * CHUNK /\ k <= p * CHUNK + Len(datos)
        THEN datos[k - p * CHUNK] ELSE buffer[k]]

\* Ethernet pads a short payload with zeros up to its minimum.
EnCable(datos) ==
    [k \in 1..Mayor(Len(datos), MIN_DATOS) |->
        IF k <= Len(datos) THEN datos[k] ELSE CERO]
=============================================================================
