--------------------------- MODULE RawTransferInv ---------------------------
(***************************************************************************)
(* An inductive invariant of RawTransfer: why the server never meets a     *)
(* chunk it cannot place.  It says, for each phase of the client, what may *)
(* be in either direction of the link and where the server may be.  The    *)
(* argument is the order of the frames: what belongs to an earlier phase,  *)
(* or to an earlier window, is always in front.                            *)
(***************************************************************************)
EXTENDS RawTransfer, FiniteSets

\* The window the client sends and the one the server receives.
Enviada  == nro_secuencia_enviado
Esperada == nro_secuencia_anterior

\* The numbers of the window that begins at w.
Tramo(w) == w..(w + CANT_CHUNKS - 1)

EnNombre  == cpc = "startOfTx" \/ (cpc = "esperar" /\ esperado = FF)
EnFin     == cpc = "endOfTx" \/ (cpc = "esperar" /\ esperado = FE)
EnResumen == cpc \in {"compareChecksum", "esperar_checksum"}

----------------------------------------------------------------------------

\* The client's own counters: the window in memory is not empty, is short only
\* at the end of the file, and was sent whole before the client waits.
InvCliente ==
    /\ Enviando =>
         /\ length_read > 0
         /\ length_read < LARGO_TRAMO => leido = Largo[archivo]
    /\ cpc = "tramo" =>
         cantidad_ack < CANT_CHUNKS /\ cantidad_ack * CHUNK < length_read
    /\ cpc \in {"ultimo", "huecos"} => esperado \in Ventanas
    /\ Enviando /\ cpc # "tramo" =>
         /\ esperado = Enviada
         /\ cantidad_ack > 0
         /\ cantidad_ack = CANT_CHUNKS \/ leido = Largo[archivo]

\* While the file is named: 0xFD of the client before, then 0xFF of this one;
\* the server answers 0xFF when only 0xFF is left to come.
NombreServidor ==
    /\ Esperada \in {FD, 0, TOPE - 1}
    /\ Esperada = TOPE - 1 => primer_paquete
    /\ Esperada = 0 => filefd /\ path = archivo /\ grilla = GrillaVacia

NombreIda ==
    /\ path = 0 \/ Esperada = 0 => \A i \in 1..Len(c2s) : c2s[i].nro = FF
    /\ \A i \in 1..Len(c2s) :
         /\ c2s[i].nro \in {FD, FF}
         /\ c2s[i].nro = FF =>
              /\ c2s[i].archivo = archivo
              /\ \A j \in i..Len(c2s) : c2s[j].nro = FF

NombreVuelta ==
    \A k \in 1..Len(s2c) :
        /\ s2c[k].nro \in {FD, FF, 0}
        /\ s2c[k].nro = 0 => s2c[k].grilla = GrillaVacia
        /\ s2c[k].nro = FF =>
             /\ Esperada = 0
             /\ \A j \in k..Len(s2c) : s2c[j].nro \in {FF, 0}

InvNombre == EnNombre => NombreServidor /\ NombreIda /\ NombreVuelta

\* The server receives the window that the client sends: 0xFF repeated, in the
\* first one, and chunks of this window.  A grid of this window that marks
\* something is followed by grids of this window only.
AlDiaIda ==
    \A i \in 1..Len(c2s) :
        \/ /\ c2s[i].nro = FF
           /\ Enviada = 0
           /\ grilla = GrillaVacia
           /\ c2s[i].archivo = archivo
           /\ \A j \in 1..i : c2s[j].nro = FF
        \/ c2s[i].nro \in Tramo(Enviada)

AlDiaVuelta ==
    \A k \in 1..Len(s2c) :
        s2c[k].nro = Enviada /\ s2c[k].grilla # GrillaVacia =>
            /\ grilla # GrillaVacia
            /\ s2c[k].grilla = GrillaLlena => ack_completo
            /\ \A j \in k..Len(s2c) : s2c[j].nro = Enviada

AlDia ==
    /\ Esperada = Enviada
    /\ grilla = GrillaLlena => ack_completo
    /\ AlDiaIda
    /\ AlDiaVuelta

\* The server is one window behind, which is complete unless it is the last:
\* chunks of that window, then chunks of the client's.
AtrasIda ==
    \A i \in 1..Len(c2s) :
        \/ c2s[i].nro \in Tramo(Esperada)
        \/ /\ c2s[i].nro \in Tramo(Enviada)
           /\ cpc # "leer"
           /\ \A j \in i..Len(c2s) : c2s[j].nro \in Tramo(Enviada)

AtrasVuelta == \A k \in 1..Len(s2c) : s2c[k].nro # Enviada

Atras ==
    /\ Esperada \in 0..(TOPE - 2 * CANT_CHUNKS)
    /\ Enviada = ProximaServidor(Esperada)
    /\ ack_completo \/ (cpc = "leer" /\ leido = Largo[archivo])
    /\ AtrasIda
    /\ AtrasVuelta

DatosVuelta == \A k \in 1..Len(s2c) : s2c[k].nro \notin {FD, FE}

InvDatos ==
    EnDatos => filefd /\ path = archivo /\ DatosVuelta /\ (AlDia \/ Atras)

\* Chunks of the window the server is in, then 0xFE, once.
FinServidor ==
    /\ path # 0
    /\ \/ Esperada \in 0..(TOPE - 2 * CANT_CHUNKS)
       \/ Esperada = FE /\ c2s = <<>> /\ cpc = "esperar"

FinIda ==
    \A i \in 1..Len(c2s) :
        \/ c2s[i].nro = FF /\ Esperada = 0
        \/ c2s[i].nro \in Tramo(Esperada)
        \/ c2s[i].nro = FE /\ i = Len(c2s) /\ cpc = "esperar"

FinVuelta ==
    \A k \in 1..Len(s2c) :
        /\ s2c[k].nro # FD
        /\ s2c[k].nro = FE => Esperada = FE /\ \A j \in k..Len(s2c) : s2c[j].nro = FE

InvFin == EnFin => FinServidor /\ FinIda /\ FinVuelta

\* Only 0xFD is left to send, and its answers come after those to 0xFE.
ResumenIda == \A i \in 1..Len(c2s) : c2s[i].nro = FD

ResumenVuelta ==
    \A k \in 1..Len(s2c) :
        /\ s2c[k].nro \in {FE, FD}
        /\ s2c[k].nro = FD => Esperada = FD /\ \A j \in k..Len(s2c) : s2c[j].nro = FD

InvResumen ==
    EnResumen => path # 0 /\ Esperada \in {FE, FD} /\ ResumenIda /\ ResumenVuelta

InvExit ==
    cpc = "exit" =>
        /\ path # 0
        /\ Esperada = FD
        /\ ResumenIda
        /\ \A k \in 1..Len(s2c) : s2c[k].nro = FD

\* The order of what is in flight, from the name of the file to its digest.
OrdenEnElCable ==
    /\ activo
    /\ InvCliente
    /\ InvNombre
    /\ InvDatos
    /\ InvFin
    /\ InvResumen
    /\ InvExit

----------------------------------------------------------------------------
(* What the frames and the buffers contain.  b is always the place in the  *)
(* file f where a window begins: how many bytes are before it.             *)

\* The bytes of the file in a window, and in its chunk p.
LargoVentana(f, b) == Menor(LARGO_TRAMO, Largo[f] - b)
LargoChunk(f, b, p) == Menor(CHUNK, LargoVentana(f, b) - p * CHUNK)

\* Chunk p has bytes of the file; all of it is.
EnVentana(f, b, p) == p * CHUNK < LargoVentana(f, b)
Lleno(f, b, p) == (p + 1) * CHUNK <= LargoVentana(f, b)

\* The chunks of a window travel with the length they have in the file, also
\* those that are sent again.
Exacta(f, b) ==
    \/ \A p \in Pos : EnVentana(f, b, p) => Lleno(f, b, p)
    \/ b > 0 /\ LargoVentana(f, b) \in MIN_DATOS..CHUNK

\* datos begins with chunk p.
EsChunk(f, b, p, datos) ==
    /\ EnVentana(f, b, p)
    /\ Len(datos) \in LargoChunk(f, b, p)..CHUNK
    /\ Exacta(f, b) => Len(datos) = LargoChunk(f, b, p)
    /\ \A k \in 1..LargoChunk(f, b, p) : datos[k] = <<f, b + p * CHUNK + k>>

\* So do the frames of the window numbered from w.
Tramas(cola, w, f, b) ==
    \A i \in 1..Len(cola) :
        cola[i].nro \in Tramo(w) => EsChunk(f, b, cola[i].nro - w, cola[i].datos)

\* The window in memory is that of the file; what was sent is of it.
Base == leido - length_read

Memoria(f, b) ==
    /\ b \in 0..Largo[f] /\ b % LARGO_TRAMO = 0
    /\ length_read = LargoVentana(f, b)
    /\ \A k \in 1..length_read : buffer_read[k] = <<f, b + k>>

InvLeido ==
    /\ EnNombre => leido = 0 /\ length_read = 0
    /\ Enviando =>
         /\ Memoria(archivo, Base)
         /\ cantidad_ack > 0 => EnVentana(archivo, Base, cantidad_ack - 1)
    /\ Enviando /\ cpc # "tramo" =>
         /\ length_read <= cantidad_ack * CHUNK
         /\ EnVentana(archivo, Base, ultimo)
    /\ cpc = "huecos" => \A p \in huecos :
         /\ EnVentana(archivo, Base, p)
         /\ Exacta(archivo, Base) => Lleno(archivo, Base, p)
    /\ informe = "ninguno" <=> cpc # "exit"

\* What the server has written, d, is the file up to the window it receives.
Escrita(f, b, d) ==
    /\ b \in 0..Largo[f] /\ b % LARGO_TRAMO = 0
    /\ d = SubSeq(Fuente(f), 1, b)

Marcados(g) == {p \in Pos : g[p] = LLENO}

\* What its grid g marks is in its buffer w, and in its count of bytes.
Ventana(f, b, g, w, bytes) ==
    /\ \A p \in Pos : g[p] \in {VACIO, LLENO}
    /\ \A p \in Marcados(g) :
         /\ EnVentana(f, b, p)
         /\ \A k \in 1..LargoChunk(f, b, p) :
              w[p * CHUNK + k] = <<f, b + p * CHUNK + k>>
    /\ Exacta(f, b) =>
         bytes = Cardinality(Marcados(g)) * Menor(CHUNK, LargoVentana(f, b))

InvCopia ==
    /\ Esperada \in Ventanas
    /\ Escrita(archivo, total_escrito, disco[archivo])
    /\ Ventana(archivo, total_escrito, grilla, buffer_write, bytes_archivo)
    /\ Tramas(c2s, Esperada, archivo, total_escrito)
    /\ Marcados(grilla) = {} => total_escrito = 0 /\ bytes_archivo = 0

\* The server has every chunk of the window.
Entera == \A p \in Pos : EnVentana(archivo, total_escrito, p) => grilla[p] = LLENO

\* A grid of this window marks no more than the server has.
GrillasVeraces ==
    \A k \in 1..Len(s2c) :
        s2c[k].nro = Enviada =>
            /\ Marcados(s2c[k].grilla) \subseteq Marcados(grilla)
            /\ total_escrito > 0 => Marcados(s2c[k].grilla) # {}

\* The server receives the client's window.
MismaVentana ==
    /\ cpc = "leer" =>
         /\ leido = 0 /\ Marcados(grilla) = {}
         /\ \A i \in 1..Len(c2s) : c2s[i].nro = FF
    /\ cpc # "leer" => total_escrito = Base
    /\ GrillasVeraces

\* It has the whole of the one before.
VentanaAnterior ==
    /\ Entera
    /\ cpc = "leer" => leido = total_escrito + LargoVentana(archivo, total_escrito)
    /\ cpc # "leer" =>
         /\ Base = total_escrito + LARGO_TRAMO
         /\ Tramas(c2s, Enviada, archivo, Base)

\* The copy is closed, and whole where that is promised.
Cerrada ==
    /\ ~ filefd
    /\ path = archivo
    /\ Conservable(archivo) => disco[archivo] = Fuente(archivo)

\* The window is the last one: the file ends in it.
Ultima ==
    /\ filefd /\ path = archivo
    /\ InvCopia /\ Entera
    /\ LargoVentana(archivo, total_escrito) = Largo[archivo] - total_escrito
    /\ \A i \in 1..Len(c2s) :
         c2s[i].nro = FF => c2s[i].archivo = archivo /\ Largo[archivo] = 0

\* The digests on their way are those of the copy.
Resumenes ==
    /\ Esperada = FD => resumen = <<disco[archivo]>>
    /\ \A k \in 1..Len(s2c) : s2c[k].nro = FD => s2c[k].resumen = <<disco[archivo]>>

ContNombre ==
    EnNombre => (filefd => Esperada = 0) /\ (Esperada = 0 => InvCopia)

ContDatos ==
    EnDatos => InvCopia /\ IF Esperada = Enviada THEN MismaVentana ELSE VentanaAnterior

ContFin == EnFin => IF Esperada = FE THEN Cerrada ELSE Ultima

ContResumen == EnResumen \/ cpc = "exit" => Cerrada /\ Resumenes

\* What is in flight and in the buffers, from the name of the file to its digest.
ContenidoEnOrden ==
    InvLeido /\ ContNombre /\ ContDatos /\ ContFin /\ ContResumen /\ InformeVeraz
=============================================================================
