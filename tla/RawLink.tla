------------------------------ MODULE RawLink ------------------------------
(***************************************************************************)
(* The Ethernet segment between one client and the server, as the programs *)
(* of src/socketraw use it: one queue per direction, holding what is on    *)
(* the wire or in the receiver's socket buffer.  Frames are not reordered  *)
(* nor duplicated; a frame may be lost at any time, and one that finds the *)
(* bounded buffers full is dropped (the programs send on a non-blocking    *)
(* socket and ignore EAGAIN for data frames, client.c:415 and 437).        *)
(***************************************************************************)
EXTENDS RawProtocol

CONSTANT Capacidad    \* frames a direction holds

ASSUME CapacidadAssumption == Capacidad \in Nat \ {0}

VARIABLES
    c2s,    \* frames from the client to the server
    s2c     \* frames from the server to the client

linkVars == <<c2s, s2c>>

\* A frame of a client: a chunk, or a control code, of which 0xFF names a file.
TramaCliente ==
    [nro : NroDatos, datos : Seq(Celda), archivo : {0}]
      \cup [nro : {FE, FD}, datos : {<<>>}, archivo : {0}]
      \cup [nro : {FF}, datos : {<<>>}, archivo : Archivos]

\* An ACK: number, grid, and the digest (a sequence of one) after 0xFD.
TramaServidor ==
    [nro : 0..255, grilla : [Pos -> {VACIO, LLENO, MD5}], resumen : Seq(Seq(Celda))]

Datos(nro, datos) == [nro |-> nro, datos |-> EnCable(datos), archivo |-> 0]
Orden(codigo, f)  == [nro |-> codigo, datos |-> <<>>, archivo |-> f]

\* A queue after a send: the frame is dropped when there is no room.
Enviado(cola, trama) ==
    IF Len(cola) < Capacidad THEN Append(cola, trama) ELSE cola

PerderAlServidor ==
    /\ c2s # <<>>
    /\ c2s' = Tail(c2s)
    /\ UNCHANGED s2c

PerderAlCliente ==
    /\ s2c # <<>>
    /\ s2c' = Tail(s2c)
    /\ UNCHANGED c2s

LinkTypeOK ==
    /\ c2s \in Seq(TramaCliente)
    /\ s2c \in Seq(TramaServidor)

LinkInit ==
    /\ c2s = <<>>
    /\ s2c = <<>>
=============================================================================
