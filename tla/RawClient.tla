----------------------------- MODULE RawClient -----------------------------
(***************************************************************************)
(* The client, src/socketraw/client.c: one process per file.  It names the *)
(* file (startOfTx), sends it window by window and waits for the grid of   *)
(* each to be full, ends the transmission (endOfTx) and compares digests   *)
(* (compareChecksum).  An action is one frame sent, one frame read or one  *)
(* return of esperar_ack(); frames of a burst go out one action at a time. *)
(***************************************************************************)
EXTENDS RawLink

VARIABLES
    cpc,                     \* where the client is
    archivo,                 \* the file it copies
    leido,                   \* total_file_read: bytes read from the file
    length_read,             \* bytes read for this window
    buffer_read,             \* the window as read
    nro_secuencia_enviado,   \* first number of the window being sent
    cantidad_ack,            \* chunks of the window put on the wire
    ultimo,                  \* position of the chunk left in buffer_sent
    esperado,                \* number esperar_ack() waits for
    huecos,                  \* holes of the last grid still to be resent
    informe                  \* what compareChecksum() printed

tramoVars  == <<leido, length_read, buffer_read, nro_secuencia_enviado>>
clientVars == <<cpc, archivo, tramoVars, cantidad_ack, ultimo, esperado,
                huecos, informe>>

Etapas == {"startOfTx", "leer", "tramo", "ultimo", "esperar", "huecos",
           "endOfTx", "compareChecksum", "esperar_checksum", "exit"}

ClientTypeOK ==
    /\ cpc \in Etapas
    /\ archivo \in Archivos
    /\ leido \in 0..Largo[archivo]
    /\ length_read \in 0..LARGO_TRAMO
    /\ buffer_read \in Buffer
    /\ nro_secuencia_enviado \in Ventanas
    /\ cantidad_ack \in 0..CANT_CHUNKS
    /\ ultimo \in Pos
    /\ esperado \in Ventanas \cup {FF, FE}
    /\ huecos \subseteq Pos
    /\ informe \in {"ninguno", "correctamente", "errores"}

ClientInit ==
    /\ cpc = "startOfTx"
    /\ archivo \in Archivos
    /\ leido = 0
    /\ length_read = 0
    /\ buffer_read = [k \in 1..LARGO_TRAMO |-> BASURA]
    /\ nro_secuencia_enviado = 0
    /\ cantidad_ack = 0
    /\ ultimo = 0
    /\ esperado = FF
    /\ huecos = {}
    /\ informe = "ninguno"

----------------------------------------------------------------------------
(* Sending *)

Enviar(t) == c2s' = Enviado(c2s, t)

\* startOfTx(): the name is sent, and sent again for whatever comes but ACK 0xFF.
EnviarNombre ==
    /\ cpc = "startOfTx"
    /\ Enviar(Orden(FF, archivo))
    /\ cpc' = "esperar"
    /\ esperado' = FF
    /\ UNCHANGED <<s2c, archivo, tramoVars, cantidad_ack, ultimo, huecos, informe>>

\* read() of the next window; what a short read does not reach stays as it was.
LeerTramo ==
    LET resto == Largo[archivo] - leido
        largo == Menor(resto, LARGO_TRAMO)
    IN  /\ cpc = "leer"
        /\ largo > 0
        /\ length_read' = largo
        /\ buffer_read' = Copiado(buffer_read, 0,
                                  [k \in 1..largo |-> <<archivo, leido + k>>])
        /\ leido' = leido + largo
        /\ cantidad_ack' = 0
        /\ cpc' = "tramo"
        /\ UNCHANGED <<linkVars, archivo, nro_secuencia_enviado, ultimo,
                       esperado, huecos, informe>>

\* read() returns 0.
LeerFin ==
    /\ cpc = "leer"
    /\ Largo[archivo] = leido
    /\ length_read' = 0
    /\ cpc' = "endOfTx"
    /\ UNCHANGED <<linkVars, archivo, leido, buffer_read, nro_secuencia_enviado,
                   cantidad_ack, ultimo, esperado, huecos, informe>>

\* One turn of the loop that sends the window: chunk number cantidad_ack.
EnviarChunk ==
    LET falta == length_read - cantidad_ack * CHUNK
    IN  /\ cpc = "tramo"
        /\ Enviar(Datos(nro_secuencia_enviado + cantidad_ack,
                        Porcion(buffer_read, cantidad_ack, Menor(CHUNK, falta))))
        /\ ultimo' = cantidad_ack
        /\ cantidad_ack' = cantidad_ack + 1
        /\ IF cantidad_ack + 1 < CANT_CHUNKS /\ falta > CHUNK
           THEN UNCHANGED <<cpc, esperado>>
           ELSE /\ cpc' = "esperar"
                /\ esperado' = nro_secuencia_enviado
        /\ UNCHANGED <<s2c, archivo, tramoVars, huecos, informe>>

\* The frame left in buffer_sent goes out again, with the length of a full
\* chunk whenever the window holds one.
ReenviarUltimo ==
    /\ cpc = "ultimo"
    /\ Enviar(Datos(nro_secuencia_enviado + ultimo,
                    Porcion(buffer_read, ultimo, Menor(CHUNK, length_read))))
    /\ cpc' = "esperar"
    /\ UNCHANGED <<s2c, archivo, tramoVars, cantidad_ack, ultimo, esperado,
                   huecos, informe>>

\* Mutation of ChunkDeHueco: the chunk left in buffer_sent goes out.
ChunkDeHuecoSinCopiar(p) == Porcion(buffer_read, ultimo, CHUNK)

\* What fills a hole: always a full chunk.
ChunkDeHueco(p) == Porcion(buffer_read, p, CHUNK)

\* The holes of the grid are filled in order.
LlenarHueco ==
    \E p \in huecos :
        /\ cpc = "huecos"
        /\ \A q \in huecos : p <= q
        /\ Enviar(Datos(nro_secuencia_enviado + p, ChunkDeHueco(p)))
        /\ ultimo' = p
        /\ huecos' = huecos \ {p}
        /\ cpc' = IF huecos = {p} THEN "esperar" ELSE "huecos"
        /\ UNCHANGED <<s2c, archivo, tramoVars, cantidad_ack, esperado, informe>>

\* endOfTx(): 0xFE is sent, once.
EnviarFin ==
    /\ cpc = "endOfTx"
    /\ Enviar(Orden(FE, 0))
    /\ cpc' = "esperar"
    /\ esperado' = FE
    /\ UNCHANGED <<s2c, archivo, tramoVars, cantidad_ack, ultimo, huecos, informe>>

\* compareChecksum(): 0xFD is sent.
PedirResumen ==
    /\ cpc = "compareChecksum"
    /\ Enviar(Orden(FD, 0))
    /\ cpc' = "esperar_checksum"
    /\ UNCHANGED <<s2c, archivo, tramoVars, cantidad_ack, ultimo, esperado,
                   huecos, informe>>

----------------------------------------------------------------------------
(* Waiting: esperar_ack(esperado, cantidad_ack) and esperar_checksum() *)

ack == Head(s2c)

Leer ==
    /\ s2c # <<>>
    /\ s2c' = Tail(s2c)

\* An ACK ends in zeros: one that carries a digest is not taken for an ACK.
EsAck == ack.resumen = <<>>

\* Mutation of SinHuecos: only the last chunk sent is looked at.
SinHuecosUltimo == ack.grilla[cantidad_ack - 1] = LLENO

\* The grid marks every chunk that was put on the wire.
SinHuecos == \A p \in 0..(cantidad_ack - 1) : ack.grilla[p] = LLENO

\* Return 0: to the caller of esperar_ack().
AckEsperado ==
    /\ cpc = "esperar"
    /\ Leer
    /\ EsAck
    /\ ack.nro = esperado
    /\ esperado \in Ventanas => SinHuecos
    /\ cpc' = IF esperado = FE THEN "compareChecksum" ELSE "leer"
    /\ nro_secuencia_enviado' =
         CASE esperado = FF -> 0
           [] esperado = FE -> nro_secuencia_enviado
           [] OTHER         -> ProximaCliente(nro_secuencia_enviado)
    /\ UNCHANGED <<c2s, archivo, leido, length_read, buffer_read, cantidad_ack,
                   ultimo, esperado, huecos, informe>>

\* The grid has holes: they are filled, and the wait goes on.
AckConHuecos ==
    /\ cpc = "esperar"
    /\ Leer
    /\ EsAck
    /\ ack.nro = esperado
    /\ esperado \in Ventanas
    /\ ~ SinHuecos
    /\ huecos' = {p \in 0..(cantidad_ack - 1) : ack.grilla[p] = VACIO}
    /\ cpc' = IF huecos' = {} THEN "esperar" ELSE "huecos"
    /\ UNCHANGED <<c2s, archivo, tramoVars, cantidad_ack, ultimo, esperado, informe>>

\* Where the caller goes when esperar_ack() returns retval # 0.
Reintento(retval) ==
    CASE esperado = FF -> "startOfTx"
      [] esperado = FE -> "esperar"
      [] esperado \in Ventanas /\ retval \in {1, 3} -> "ultimo"
      [] OTHER -> "tramo"

\* The window is sent from its first chunk.
Reintentar(retval) ==
    /\ cpc' = Reintento(retval)
    /\ cantidad_ack' = IF Reintento(retval) = "tramo" THEN 0 ELSE cantidad_ack
    /\ UNCHANGED <<c2s, archivo, tramoVars, ultimo, esperado, huecos, informe>>

\* What esperar_ack() makes of an ACK of another number.
RetvalOtroAck(recibido) ==
    IF \/ esperado = 0 /\ recibido = TOPE - 1
       \/ esperado = recibido + CANT_CHUNKS
    THEN 1 ELSE 4

AckDeOtro ==
    /\ cpc = "esperar"
    /\ Leer
    /\ EsAck
    /\ ack.nro # esperado
    /\ Reintentar(RetvalOtroAck(ack.nro))

\* A frame of the server that is not an ACK: the wait goes on.
NoEsAck ==
    /\ cpc = "esperar"
    /\ Leer
    /\ ~ EsAck
    /\ UNCHANGED <<c2s, clientVars>>

\* Return 2: LIMITE_PAQUETES_ENTRANTES frames of others came instead.
LimitePaquetes ==
    /\ cpc = "esperar"
    /\ Reintentar(2)
    /\ UNCHANGED s2c

\* Return 3: nothing came for TIMEOUT microseconds.
TimeoutCliente ==
    /\ cpc = "esperar"
    /\ Reintentar(3)
    /\ UNCHANGED s2c

\* Mutation of EsResumen: any ACK is taken for the reply to 0xFD.
EsResumenCualquiera == TRUE

\* The reply to 0xFD.
EsResumen == ack.nro = FD

\* The digest of the copy is that of the source.
Coincide == ack.resumen = <<Fuente(archivo)>>

\* The reply to 0xFD, compared with the digest of the source.
RecibirResumen ==
    /\ cpc = "esperar_checksum"
    /\ Leer
    /\ EsResumen
    /\ informe' = IF Coincide THEN "correctamente" ELSE "errores"
    /\ cpc' = "exit"
    /\ UNCHANGED <<c2s, archivo, tramoVars, cantidad_ack, ultimo, esperado, huecos>>

\* Return 1, another ACK, and return 3, a timeout: the wait starts again.
\* The latter changes nothing, so it is not an action.
OtroEnVezDeResumen ==
    /\ cpc = "esperar_checksum"
    /\ Leer
    /\ ~ EsResumen
    /\ UNCHANGED <<c2s, clientVars>>

\* Return 2: 0xFD is sent again.
LimitePaquetesResumen ==
    /\ cpc = "esperar_checksum"
    /\ Enviar(Orden(FD, 0))
    /\ UNCHANGED <<s2c, clientVars>>

\* The next client starts on the same host; its memory is its own.
NuevoCliente ==
    /\ cpc = "exit"
    /\ cpc' = "startOfTx"
    /\ archivo' \in Archivos
    /\ leido' = 0
    /\ length_read' = 0
    /\ buffer_read' = [k \in 1..LARGO_TRAMO |-> BASURA]
    /\ nro_secuencia_enviado' = 0
    /\ cantidad_ack' = 0
    /\ ultimo' = 0
    /\ esperado' = FF
    /\ huecos' = {}
    /\ informe' = "ninguno"
    /\ UNCHANGED linkVars

ClientNext ==
    \/ EnviarNombre
    \/ LeerTramo
    \/ LeerFin
    \/ EnviarChunk
    \/ ReenviarUltimo
    \/ LlenarHueco
    \/ EnviarFin
    \/ PedirResumen
    \/ AckEsperado
    \/ AckConHuecos
    \/ AckDeOtro
    \/ NoEsAck
    \/ LimitePaquetes
    \/ TimeoutCliente
    \/ RecibirResumen
    \/ OtroEnVezDeResumen
    \/ LimitePaquetesResumen
    \/ NuevoCliente
=============================================================================
