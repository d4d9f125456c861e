---------------------------- MODULE RawTransfer ----------------------------
(***************************************************************************)
(* The file transfer of src/socketraw: one server, clients that come one   *)
(* after another, and the Ethernet segment between them.                   *)
(***************************************************************************)
EXTENDS RawClient, RawServer, SequencesExt

vars == <<linkVars, clientVars, serverVars>>

Init == LinkInit /\ ClientInit /\ ServerInit

\* A frame is lost.  One to the client is lost, at the latest, when the client
\* would read it: losing it sooner makes no difference to anyone.
Perder ==
    /\ \/ PerderAlServidor
       \/ PerderAlCliente /\ cpc \in {"esperar", "esperar_checksum"}
    /\ UNCHANGED <<clientVars, serverVars>>

Next ==
    \/ ClientNext /\ UNCHANGED serverVars
    \/ ServerNext /\ UNCHANGED clientVars
    \/ Perder

Spec == Init /\ [][Next]_vars

TypeOK == LinkTypeOK /\ ClientTypeOK /\ ServerTypeOK

----------------------------------------------------------------------------
(* What the properties talk about *)

\* The client has a window on its way.
Enviando ==
    \/ cpc \in {"tramo", "ultimo", "huecos"}
    \/ cpc = "esperar" /\ esperado \in Ventanas

\* The client is past startOfTx() and before endOfTx().
EnDatos == cpc = "leer" \/ Enviando

\* Files whose last chunk is full, or is alone in a window that is not the
\* first and fills an Ethernet frame.  Another short chunk may be resent with
\* the length of a full one, so what is promised of other files is less.
Conservable(f) ==
    \/ Largo[f] % CHUNK = 0
    \/ /\ Largo[f] > LARGO_TRAMO
       /\ Largo[f] % LARGO_TRAMO \in MIN_DATOS..CHUNK

\* Everything the server has of the file: what it wrote and the window.
Recibido == disco[archivo] \o Porcion(buffer_write, 0, bytes_archivo)

----------------------------------------------------------------------------
(* Safety *)

\* The server never meets a chunk it cannot place: it does not print ERROR
\* and exit in the middle of a copy (server.c:418).
SinErrorDeSecuencia == activo

\* While a window is on its way the server is writing that file, and expects
\* that window or holds the whole of the one before: the two ends wrap their
\* sequence numbers at the same place (client.c:476, server.c:409).
AcuerdoDeVentana ==
    Enviando =>
        /\ filefd
        /\ path = archivo
        /\ \/ nro_secuencia_anterior = nro_secuencia_enviado
           \/ /\ ack_completo
              /\ ProximaServidor(nro_secuencia_anterior) = nro_secuencia_enviado

\* A grid on its way to a client that would accept it tells the truth: each
\* chunk it marks is in the server's window, with the bytes of the source.
\* The grid is never cleared when its window is, only one event later
\* (server.c:405), so an old grid must not pass for a new one.
AckVeraz ==
    Enviando =>
        \A k \in 1..Len(s2c) :
            s2c[k].nro = nro_secuencia_enviado /\ s2c[k].resumen = <<>> =>
                \A p \in 0..((length_read - 1) \div CHUNK) :
                    s2c[k].grilla[p] = LLENO =>
                        /\ nro_secuencia_anterior = nro_secuencia_enviado
                        /\ grilla[p] = LLENO
                        /\ \A j \in (p * CHUNK + 1)..Menor((p + 1) * CHUNK, length_read) :
                             buffer_write[j] = buffer_read[j]

\* When the client overwrites its only copy of a window (client.c:335), the
\* server holds every byte read so far, once and in order.  For files that are
\* Conservable: the last chunk of the others may be resent too long.
NadaSeSuelta ==
    cpc = "leer" /\ Conservable(archivo) => Recibido = SubSeq(Fuente(archivo), 1, leido)

\* The server's count of bytes written, which decides whether a chunk is the
\* last of the file (server.c:470), is the length of the copy.
CuentaDeBytes == filefd => total_escrito = Len(disco[path])

\* "Archivo copiado con exito" (client.c:637) is printed over a whole copy.
CopiadoConExito ==
    cpc \in {"compareChecksum", "esperar_checksum"} =>
        disco[archivo] = Fuente(archivo)

CopiadoSiConservable == Conservable(archivo) => CopiadoConExito

\* The verdict of compareChecksum() (client.c:958 and 963) is the truth about
\* the copy, for every file and whatever digest replies crossed it.
InformeVeraz ==
    cpc = "exit" =>
        /\ informe = "correctamente" => disco[archivo] = Fuente(archivo)
        /\ informe = "errores" => disco[archivo] # Fuente(archivo)
        /\ informe # "ninguno"

----------------------------------------------------------------------------
(* Steps *)

\* Once the content is flowing the copy is not truncated: a 0xFF that was
\* repeated on a timeout (client.c:570) never restarts a copy in progress.
CopiaNuncaRetrocede ==
    [][EnDatos /\ EnDatos' => IsPrefix(disco[archivo], disco'[archivo])]_vars

\* The transfer implements FileCopy, whatever the length of the file; that the
\* copy is the file is promised of those that are Conservable (Fieles).
Copia == INSTANCE FileCopy WITH
    Nombres   <- Archivos,
    Contenido <- [f \in Archivos |-> Fuente(f)],
    Fieles    <- {f \in Archivos : Conservable(f)},
    pedido    <- archivo,
    copia     <- disco,
    abierta   <- IF filefd THEN path ELSE 0,
    veredicto <- informe

ImplementaCopia == Copia!Spec

----------------------------------------------------------------------------
(* Fairness *)

\* The client does not stop in the middle of its own code, and select()
\* returns in the end: by a frame or by a timeout.
PasoCliente ==
    \/ EnviarNombre \/ LeerTramo \/ LeerFin \/ EnviarChunk \/ ReenviarUltimo
    \/ LlenarHueco \/ EnviarFin \/ PedirResumen \/ NuevoCliente
EsperaCliente == AckEsperado \/ AckConHuecos \/ AckDeOtro \/ NoEsAck
EsperaResumen == RecibirResumen \/ OtroEnVezDeResumen

\* A frame that is sent again and again is received in the end.  Frames are
\* told apart by what they are: a control code or a position of the window.
LlegaDatos(p) == RecibirDatos /\ trama.nro % CANT_CHUNKS = p

EquidadEnlace ==
    /\ SF_vars(RecibirNombre /\ UNCHANGED clientVars)
    /\ \A p \in Pos : SF_vars(LlegaDatos(p) /\ UNCHANGED clientVars)
    /\ SF_vars(RecibirFin /\ UNCHANGED clientVars)
    /\ SF_vars(RecibirPedidoResumen /\ UNCHANGED clientVars)
    /\ SF_vars(AckEsperado /\ UNCHANGED serverVars)
    /\ SF_vars(AckConHuecos /\ UNCHANGED serverVars)
    /\ SF_vars(RecibirResumen /\ UNCHANGED serverVars)

Equidad ==
    /\ WF_vars(PasoCliente /\ UNCHANGED serverVars)
    /\ SF_vars(EsperaCliente /\ UNCHANGED serverVars)
    /\ SF_vars(TimeoutCliente /\ UNCHANGED serverVars)
    /\ WF_vars(EsperaResumen /\ UNCHANGED serverVars)
    /\ WF_vars(RecibirTrama /\ UNCHANGED clientVars)
    /\ EquidadEnlace

\* Half a second is longer than any frame waits to be read.
EsperaLarga ==
    \/ TimeoutCliente \/ LimitePaquetes \/ LimitePaquetesResumen
    \/ TimeoutServidor /\ UNCHANGED clientVars
    => c2s = <<>> /\ s2c = <<>>

FairSpec == Init /\ [][Next /\ EsperaLarga]_vars /\ Equidad

\* Whatever is lost, a client gets its file named, sent and acknowledged.
ContenidoLlega == cpc = "startOfTx" ~> cpc = "endOfTx"

\* client.c:932: the request of the digest is sent again after a timeout; so
\* the client gives its verdict in the end.
ResumenComparado == cpc = "compareChecksum" ~> cpc = "exit"
=============================================================================
