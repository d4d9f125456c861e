----------------------------- MODULE RawServer -----------------------------
(***************************************************************************)
(* The server, src/socketraw/server.c: a loop that waits for a frame or a  *)
(* timeout and handles what came.  Each action is one turn of the loop.    *)
(* The grid of received chunks lives in the payload of the outgoing ACK    *)
(* (buffer_sent), so every ACK carries it, and the digest reply overwrites *)
(* it.  An ACK goes to the source address of the last frame read,          *)
(* whichever it was.                                                       *)
(***************************************************************************)
EXTENDS RawLink

VARIABLES
    nro_secuencia_anterior,   \* first number of the window being received
    grilla,                   \* payload of buffer_sent, its first CANT_CHUNKS bytes
    resumen,                  \* the rest of that payload: a digest or nothing
    ack_completo,             \* the grid was full when last looked at
    buffer_write,             \* contents of the window
    bytes_archivo,            \* bytes counted for the window
    total_escrito,            \* bytes counted as written
    filesize,                 \* size announced by 0xFF
    primer_paquete,           \* no data nor digest frame since the start
    filefd,                   \* is a file open (filefd # 0)?
    path,                     \* the file named by the last 0xFF, 0 at the start
    disco,                    \* the destination directory
    origen,                   \* who sent the last frame read into buffer_recv
    activo                    \* the process has not exited

ventanaVars == <<nro_secuencia_anterior, grilla, resumen, ack_completo,
                 buffer_write, bytes_archivo>>
archivoVars == <<total_escrito, filesize, filefd, path, disco>>
serverVars  == <<ventanaVars, archivoVars, primer_paquete, origen, activo>>

ServerTypeOK ==
    /\ nro_secuencia_anterior \in 0..255
    /\ grilla \in [Pos -> {VACIO, LLENO, MD5}]
    /\ resumen \in Seq(Seq(Celda))
    /\ ack_completo \in BOOLEAN
    /\ buffer_write \in Buffer
    /\ bytes_archivo \in Nat
    /\ total_escrito \in Nat
    /\ filesize \in Nat
    /\ primer_paquete \in BOOLEAN
    /\ filefd \in BOOLEAN
    /\ path \in Archivos \cup {0}
    /\ disco \in [Archivos -> Seq(Celda)]
    /\ origen \in {"cliente", "otro"}
    /\ activo \in BOOLEAN

\* main() up to its loop.  0xEF is TOPE - 1.
ServerInit ==
    /\ nro_secuencia_anterior = TOPE - 1
    /\ grilla = GrillaVacia
    /\ resumen = <<>>
    /\ ack_completo = FALSE
    /\ buffer_write = [k \in 1..LARGO_TRAMO |-> BASURA]
    /\ bytes_archivo = 0
    /\ total_escrito = 0
    /\ filesize = 0
    /\ primer_paquete = TRUE
    /\ filefd = FALSE
    /\ path = 0
    /\ disco = [f \in Archivos |-> <<>>]
    /\ origen = "otro"
    /\ activo = TRUE

----------------------------------------------------------------------------

\* The frame the server reads next.
trama == Head(c2s)

\* It is read into buffer_recv: its sender is where the next ACK goes.
Recibir ==
    /\ activo
    /\ c2s # <<>>
    /\ c2s' = Tail(c2s)
    /\ origen' = "cliente"

\* enviar_ack(): buffer_sent as it is after the step, to the last source.
enviar_ack(nro) ==
    s2c' = IF origen' = "cliente"
           THEN Enviado(s2c, [nro |-> nro, grilla |-> grilla', resumen |-> resumen'])
           ELSE s2c

\* Mutation of Escrito: every write starts at the beginning of the file.
EscritoDesdeCero ==
    IF filefd
    THEN [disco EXCEPT ![path] = Porcion(buffer_write, 0, bytes_archivo)]
    ELSE disco

\* The destination directory after write(filefd, buffer_write, bytes_archivo).
\* A write to descriptor 0 does not reach it.
Escrito ==
    IF filefd
    THEN [disco EXCEPT ![path] = @ \o Porcion(buffer_write, 0, bytes_archivo)]
    ELSE disco

\* 0xFF: the file is opened and truncated, the window starts at 0.  The text
\* of the request stays in buffer_write: bytes of no file.
RecibirNombre ==
    /\ Recibir
    /\ trama.nro = FF
    /\ buffer_write' = [k \in 1..LARGO_TRAMO |-> BASURA]
    /\ path' = trama.archivo
    /\ filesize' = Largo[trama.archivo]
    /\ disco' = [disco EXCEPT ![trama.archivo] = <<>>]
    /\ filefd' = TRUE
    /\ grilla' = GrillaVacia
    /\ resumen' = <<>>
    /\ bytes_archivo' = 0
    /\ nro_secuencia_anterior' = 0
    /\ total_escrito' = 0
    /\ enviar_ack(FF)
    /\ UNCHANGED <<ack_completo, primer_paquete, activo>>

\* Mutation of Saldo: only a complete window is written at the end.
SaldoSiCompleto == grilla = GrillaLlena

\* Is there something of the window to write?
Saldo == grilla # GrillaVacia

\* 0xFE: what is left in the window is written and the file closed.
RecibirFin ==
    /\ Recibir
    /\ trama.nro = FE
    /\ IF Saldo
       THEN /\ disco' = Escrito
            /\ total_escrito' = total_escrito + bytes_archivo
       ELSE UNCHANGED <<disco, total_escrito>>
    /\ filefd' = FALSE
    /\ grilla' = GrillaVacia
    /\ nro_secuencia_anterior' = FE
    /\ UNCHANGED <<resumen, ack_completo, buffer_write, bytes_archivo,
                   filesize, primer_paquete, path, activo>>
    /\ enviar_ack(FE)

\* 0xFD: the digest of the copy goes into the payload of the ACK.
RecibirPedidoResumen ==
    /\ Recibir
    /\ trama.nro = FD
    /\ path # 0
    /\ grilla' = GrillaMD5
    /\ resumen' = <<disco[path]>>
    /\ nro_secuencia_anterior' = FD
    /\ enviar_ack(FD)
    /\ primer_paquete' = FALSE
    /\ buffer_write' = [k \in 1..LARGO_TRAMO |-> CERO]
    /\ UNCHANGED <<ack_completo, bytes_archivo, archivoVars, activo>>

\* The same when no file was ever named: md5sum() cannot open it and exits.
ResumenSinArchivo ==
    /\ Recibir
    /\ trama.nro = FD
    /\ path = 0
    /\ activo' = FALSE
    /\ UNCHANGED <<s2c, ventanaVars, archivoVars, primer_paquete>>

\* The chunk is not of the window being received.
Avanza == distancia(trama.nro, nro_secuencia_anterior) >= CANT_CHUNKS

\* A chunk that opens the next window although this one was never complete:
\* the server prints ERROR and exits.
SecuenciaInesperada == trama.nro \notin Control /\ Avanza /\ ~ ack_completo

RecibirFueraDeSecuencia ==
    /\ Recibir
    /\ SecuenciaInesperada
    /\ activo' = FALSE
    /\ UNCHANGED <<s2c, ventanaVars, archivoVars, primer_paquete>>

\* Mutations of GrillaBase and BytesBase: the grid, the count, is not cleared.
GrillaBaseSinBlanqueo == grilla
BytesBaseSinBlanqueo == bytes_archivo

\* The grid and the count of bytes that the chunk is added to: blank when it
\* opens a window.
GrillaBase == IF Avanza THEN GrillaVacia ELSE grilla
BytesBase == IF Avanza THEN 0 ELSE bytes_archivo

\* Mutation of MandarAck: the last chunk of the file is not looked for.
MandarAckSinFinal(nro, completa, escrito) ==
    \/ completa
    \/ (nro + 1) % CANT_CHUNKS = 0 /\ ~ primer_paquete

\* Is an ACK sent after chunk nro?  (completa: the grid is full; escrito:
\* bytes written before this window)
MandarAck(nro, completa, escrito) ==
    \/ completa
    \/ (nro + 1) % CANT_CHUNKS = 0 /\ ~ primer_paquete
    \/ escrito + ((nro % CANT_CHUNKS) + 1) * CHUNK >= filesize

\* A chunk, of this window or the first to come of the next: in the latter
\* case the window that was complete is written first.
RecibirDatos ==
    /\ Recibir
    /\ trama.nro \notin Control
    /\ ~ SecuenciaInesperada
    /\ IF Avanza
       THEN /\ disco' = Escrito
            /\ total_escrito' = total_escrito + LARGO_TRAMO
            /\ nro_secuencia_anterior' = ProximaServidor(nro_secuencia_anterior)
       ELSE UNCHANGED <<disco, total_escrito, nro_secuencia_anterior>>
    /\ LET p == trama.nro % CANT_CHUNKS
       IN  IF GrillaBase[p] = VACIO
           THEN /\ grilla' = [GrillaBase EXCEPT ![p] = LLENO]
                /\ buffer_write' = Copiado(buffer_write, p, trama.datos)
                /\ bytes_archivo' = BytesBase + Len(trama.datos)
           ELSE /\ grilla' = GrillaBase
                /\ bytes_archivo' = BytesBase
                /\ UNCHANGED buffer_write
    /\ ack_completo' = (grilla' = GrillaLlena \/ (ack_completo /\ ~ Avanza))
    /\ primer_paquete' = FALSE
    /\ UNCHANGED <<resumen, filesize, filefd, path, activo>>
    /\ IF MandarAck(trama.nro, grilla' = GrillaLlena, total_escrito')
       THEN enviar_ack(nro_secuencia_anterior')
       ELSE UNCHANGED s2c

\* A frame of another host or protocol: it is ignored, but it is in
\* buffer_recv, and the next ACK on a timeout goes to its sender.
TramaAjena ==
    /\ activo
    /\ origen' = "otro"
    /\ UNCHANGED <<linkVars, ventanaVars, archivoVars, primer_paquete, activo>>

\* No frame for TIMEOUT microseconds: the last ACK is repeated.
TimeoutServidor ==
    /\ activo
    /\ ~ primer_paquete
    /\ UNCHANGED <<c2s, serverVars>>
    /\ enviar_ack(nro_secuencia_anterior)

RecibirTrama ==
    \/ RecibirNombre
    \/ RecibirFin
    \/ RecibirPedidoResumen
    \/ ResumenSinArchivo
    \/ RecibirFueraDeSecuencia
    \/ RecibirDatos

ServerNext ==
    \/ RecibirTrama
    \/ TramaAjena
    \/ TimeoutServidor
=============================================================================
