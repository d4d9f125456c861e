--------------------------- MODULE RawOrderProofs ---------------------------
(***************************************************************************)
(* Types and order of the file transfer, for every size of window, chunk   *)
(* and file and every capacity of the link: the invariant of               *)
(* RawTransferInv on the order of the frames is inductive, so the server   *)
(* never meets a chunk it cannot place, and the two ends agree on the      *)
(* window.                                                                 *)
(***************************************************************************)
EXTENDS RawTransferInv, SequenceTheorems, TLAPS

USE VentanaAssumption, ChunkAssumption, ArchivosAssumption, CapacidadAssumption
    DEF VentanaAssumption, ChunkAssumption, ArchivosAssumption, CapacidadAssumption

----------------------------------------------------------------------------
(* Arithmetic of the sequence numbers *)

\* A number is the sum of a multiple of the window and its position in it.
LEMMA Division ==
    ASSUME NEW n \in Nat
    PROVE  /\ n % CANT_CHUNKS \in Pos
           /\ n \div CANT_CHUNKS \in Nat
           /\ n = CANT_CHUNKS * (n \div CANT_CHUNKS) + (n % CANT_CHUNKS)
  BY Z3 DEF Pos

\* The position of a chunk does not depend on its window.
LEMMA RestoDeSuma ==
    ASSUME NEW q \in Nat, NEW r \in Pos
    PROVE  (CANT_CHUNKS * q + r) % CANT_CHUNKS = r
  BY Z3 DEF Pos

\* The client's next window (client.c:476) is a window.
LEMMA ProximaClienteTipo ==
    ASSUME NEW n \in Ventanas
    PROVE  ProximaCliente(n) \in Ventanas
<1>1. 0 \in Ventanas
  <2>1. 0 % CANT_CHUNKS = 0
    BY RestoDeSuma, (CANT_CHUNKS * 0) + 0 = 0, 0 \in Pos, Z3 DEF Pos
  <2>. QED  BY <2>1 DEF Ventanas
<1>2. ASSUME n + 2 * CANT_CHUNKS < TOPE
      PROVE  n + CANT_CHUNKS \in Ventanas
  <2>. DEFINE q == n \div CANT_CHUNKS
  <2>1. n \in Nat /\ n % CANT_CHUNKS = 0
    BY DEF Ventanas
  <2>2. q \in Nat /\ n = CANT_CHUNKS * q
    BY <2>1, Division
  <2>3. n + CANT_CHUNKS = CANT_CHUNKS * (q + 1) + 0
    BY <2>2, Z3
  <2>4. (n + CANT_CHUNKS) % CANT_CHUNKS = 0
    BY <2>2, <2>3, RestoDeSuma, q + 1 \in Nat, 0 \in Pos DEF Pos
  <2>5. n + CANT_CHUNKS \in 0..(TOPE - 2 * CANT_CHUNKS)
    BY <1>2, <2>1
  <2>. QED  BY <2>4, <2>5 DEF Ventanas
<1>. QED  BY <1>1, <1>2 DEF ProximaCliente, Ventanas

\* The server's next window (server.c:409) is an unsigned char.
LEMMA ProximaServidorTipo ==
    ASSUME NEW n \in 0..255
    PROVE  ProximaServidor(n) \in 0..255
  BY DEF ProximaServidor

----------------------------------------------------------------------------
(* Types of the operators the model is built from *)

\* A function on 1..n is a sequence of n elements.
LEMMA FuncionEsSecuencia ==
    ASSUME NEW A, NEW n \in Nat, NEW f \in [1..n -> A]
    PROVE  f \in Seq(A) /\ Len(f) = n
  OBVIOUS

\* Every byte the model writes, of a file or of none, is a cell.
LEMMA CeldaTipo ==
    /\ CERO \in Celda /\ BASURA \in Celda
    /\ \A f \in Archivos, k \in Nat : <<f, k>> \in Celda
  BY DEF CERO, BASURA, Celda

\* A window holds at least one byte.
LEMMA TramoTipo == LARGO_TRAMO \in Nat \ {0}
  BY Z3 DEF LARGO_TRAMO

\* What is sent or written of a buffer is made of cells.
LEMMA PorcionTipo ==
    ASSUME NEW buffer \in Buffer, NEW p \in Nat, NEW largo \in Nat
    PROVE  Porcion(buffer, p, largo) \in Seq(Celda)
<1>1. ASSUME NEW k \in 1..largo, p * CHUNK + k <= LARGO_TRAMO
      PROVE  buffer[p * CHUNK + k] \in Celda
  <2>1. p * CHUNK \in Nat
    BY Z3
  <2>2. p * CHUNK + k \in 1..LARGO_TRAMO
    BY <1>1, <2>1, TramoTipo
  <2>. QED  BY <2>2 DEF Buffer
<1>2. Porcion(buffer, p, largo) \in [1..largo -> Celda]
  BY <1>1, CeldaTipo DEF Porcion
<1>. QED  BY <1>2, FuncionEsSecuencia

\* Copying a chunk over a buffer, memcpy() in both programs, keeps it a buffer.
LEMMA CopiadoTipo ==
    ASSUME NEW buffer \in Buffer, NEW p \in Nat, NEW datos \in Seq(Celda)
    PROVE  Copiado(buffer, p, datos) \in Buffer
<1>1. p * CHUNK \in Nat
  BY Z3
<1>2. ASSUME NEW k \in 1..LARGO_TRAMO,
             k > p * CHUNK, k <= p * CHUNK + Len(datos)
      PROVE  datos[k - p * CHUNK] \in Celda
  <2>1. k - p * CHUNK \in 1..Len(datos)
    BY <1>1, <1>2, TramoTipo
  <2>. QED  BY <2>1, ElementOfSeq
<1>. QED  BY <1>2 DEF Copiado, Buffer

\* Padding a payload leaves it made of cells.
LEMMA EnCableTipo ==
    ASSUME NEW datos \in Seq(Celda)
    PROVE  EnCable(datos) \in Seq(Celda)
<1>1. Mayor(Len(datos), MIN_DATOS) \in Nat
  BY DEF Mayor
<1>2. EnCable(datos) \in [1..Mayor(Len(datos), MIN_DATOS) -> Celda]
  BY ElementOfSeq, CeldaTipo, <1>1 DEF EnCable
<1>. QED  BY <1>1, <1>2, FuncionEsSecuencia

\* What the client sends of a window is a frame of its.
LEMMA DatosTipo ==
    ASSUME NEW nro \in NroDatos, NEW datos \in Seq(Celda)
    PROVE  Datos(nro, datos) \in TramaCliente
  BY EnCableTipo DEF Datos, TramaCliente

\* So are its control frames.
LEMMA OrdenTipo ==
    /\ Orden(FE, 0) \in TramaCliente
    /\ Orden(FD, 0) \in TramaCliente
    /\ \A f \in Archivos : Orden(FF, f) \in TramaCliente
  BY DEF Orden, TramaCliente

\* A send, dropped or not, keeps the queue's type.
LEMMA EnviadoTipo ==
    ASSUME NEW T, NEW cola \in Seq(T), NEW t \in T
    PROVE  Enviado(cola, t) \in Seq(T)
  BY DEF Enviado

\* Reading a frame does too, and gives one of that type.
LEMMA ColaTipo ==
    ASSUME NEW T, NEW cola \in Seq(T), cola # <<>>
    PROVE  Head(cola) \in T /\ Tail(cola) \in Seq(T)
  BY HeadTailProperties

\* The grids the server sets are grids.
LEMMA GrillaTipo ==
    /\ GrillaVacia \in [Pos -> {VACIO, LLENO, MD5}]
    /\ GrillaLlena \in [Pos -> {VACIO, LLENO, MD5}]
    /\ GrillaMD5 \in [Pos -> {VACIO, LLENO, MD5}]
  BY DEF GrillaVacia, GrillaLlena, GrillaMD5

\* A frame that is no control code carries the number of a chunk.
LEMMA TramaDatosTipo ==
    ASSUME NEW t \in TramaCliente
    PROVE  /\ t.datos \in Seq(Celda)
           /\ t.nro \in Nat
           /\ t.nro \notin Control => t.nro \in NroDatos
           /\ t.nro = FF => t.archivo \in Archivos
           /\ t.nro \in NroDatos => t.nro \notin Control
<1>1. <<>> \in Seq(Celda)
  OBVIOUS
<1>2. NroDatos \subseteq Nat /\ NroDatos \cap Control = {}
  BY DEF NroDatos, Control, FF, FE, FD
<1>3. Control \subseteq Nat
  BY DEF Control, FF, FE, FD
<1>4. CASE t \in [nro : NroDatos, datos : Seq(Celda), archivo : {0}]
  <2>1. t.nro \in NroDatos /\ t.datos \in Seq(Celda)
    BY <1>4
  <2>. QED  BY <2>1, <1>2 DEF Control
<1>5. CASE t \in [nro : {FE, FD}, datos : {<<>>}, archivo : {0}]
  <2>1. t.nro \in {FE, FD} /\ t.datos = <<>>
    BY <1>5
  <2>2. t.nro # FF
    BY <2>1 DEF FF, FE, FD
  <2>. QED  BY <2>1, <2>2, <1>1, <1>2, <1>3 DEF Control
<1>6. CASE t \in [nro : {FF}, datos : {<<>>}, archivo : Archivos]
  <2>1. t.nro = FF /\ t.datos = <<>> /\ t.archivo \in Archivos
    BY <1>6
  <2>. QED  BY <2>1, <1>1, <1>2, <1>3 DEF Control
<1>. QED  BY <1>4, <1>5, <1>6 DEF TramaCliente

\* write() appends cells to the open file.
LEMMA EscritoTipo ==
    ASSUME disco \in [Archivos -> Seq(Celda)], buffer_write \in Buffer,
           bytes_archivo \in Nat
    PROVE  Escrito \in [Archivos -> Seq(Celda)]
<1>1. Porcion(buffer_write, 0, bytes_archivo) \in Seq(Celda)
  BY PorcionTipo
<1>. QED  BY <1>1, ConcatProperties DEF Escrito

\* One chunk less than a window is less than a window.
LEMMA Producto ==
    ASSUME NEW c \in Nat, c + 1 < CANT_CHUNKS
    PROVE  (c + 1) * CHUNK < LARGO_TRAMO
<1>. DEFINE d == CANT_CHUNKS - (c + 1)
<1>1. d \in Nat /\ d > 0 /\ CANT_CHUNKS = (c + 1) + d
  OBVIOUS
<1>. HIDE DEF d
<1>2. CANT_CHUNKS * CHUNK = (c + 1) * CHUNK + d * CHUNK
  BY <1>1, Z3
<1>3. d * CHUNK > 0
  BY <1>1, Z3
<1>4. (c + 1) * CHUNK \in Nat /\ d * CHUNK \in Nat
  BY <1>1, Z3
<1>. QED  BY <1>2, <1>3, <1>4 DEF LARGO_TRAMO

----------------------------------------------------------------------------
(* Type correctness *)

TipoInv == TypeOK /\ InvCliente

\* No number of a window is a control code.
LEMMA VentanaNoEsControl ==
    /\ FF \notin Ventanas /\ FE \notin Ventanas /\ FF # FE
    /\ 0 \in Ventanas
    /\ Ventanas \subseteq Nat
<1>1. 0 % CANT_CHUNKS = 0
  BY RestoDeSuma, (CANT_CHUNKS * 0) + 0 = 0, 0 \in Pos, Z3 DEF Pos
<1>. QED  BY <1>1 DEF Ventanas, FF, FE

\* The chunks of a window that the client numbers have numbers for data.
LEMMA NroDeChunk ==
    ASSUME NEW w \in Ventanas, NEW p \in Pos
    PROVE  w + p \in NroDatos
  BY DEF Ventanas, Pos, NroDatos

\* After a failed wait the client names the file again, waits again, or sends
\* chunks of its window, as it was doing.
LEMMA ReintentoDestino ==
    ASSUME NEW r
    PROVE  /\ esperado = FF => Reintento(r) = "startOfTx"
           /\ esperado = FE => Reintento(r) = "esperar"
           /\ esperado \in Ventanas => Reintento(r) \in {"ultimo", "tramo"}
<1>1. ASSUME esperado = FF PROVE Reintento(r) = "startOfTx"
  BY <1>1, VentanaNoEsControl DEF Reintento
<1>2. ASSUME esperado = FE PROVE Reintento(r) = "esperar"
  BY <1>2, VentanaNoEsControl DEF Reintento
<1>3. ASSUME esperado \in Ventanas PROVE Reintento(r) \in {"ultimo", "tramo"}
  <2>1. esperado # FF /\ esperado # FE
    BY <1>3, VentanaNoEsControl
  <2>. QED  BY <1>3, <2>1 DEF Reintento
<1>. QED  BY <1>1, <1>2, <1>3

\* Both programs start well typed.
LEMMA InitTipo == Init => TipoInv
<1>. SUFFICES ASSUME Init PROVE TipoInv
  OBVIOUS
<1>. USE DEF Init, LinkInit, ClientInit, ServerInit
<1>1. LinkTypeOK
  BY DEF LinkTypeOK
<1>2. [k \in 1..LARGO_TRAMO |-> BASURA] \in Buffer
  BY CeldaTipo DEF Buffer
<1>3. ClientTypeOK
  <2>1. Largo[archivo] \in Nat
    OBVIOUS
  <2>. QED  BY <1>2, <2>1, TramoTipo, VentanaNoEsControl DEF ClientTypeOK, Etapas, Pos
<1>4. ServerTypeOK
  <2>1. TOPE - 1 \in 0..255
    OBVIOUS
  <2>2. <<>> \in Seq(Celda) /\ <<>> \in Seq(Seq(Celda))
    OBVIOUS
  <2>3. [f \in Archivos |-> <<>>] \in [Archivos -> Seq(Celda)]
    BY <2>2
  <2>. QED  BY <1>2, <2>1, <2>2, <2>3, GrillaTipo DEF ServerTypeOK
<1>5. InvCliente
  BY VentanaNoEsControl DEF InvCliente, Enviando, Enviada
<1>. QED  BY <1>1, <1>3, <1>4, <1>5 DEF TipoInv, TypeOK

\* What the client reads and writes keeps its types.
LEMMA ClienteTipo ==
    ASSUME TipoInv, ClientNext, UNCHANGED serverVars
    PROVE  TipoInv'
<1>. USE DEF TipoInv, TypeOK
<1>0. ServerTypeOK'
  BY DEF serverVars, ventanaVars, archivoVars, ServerTypeOK
<1>. USE DEF LinkTypeOK, ClientTypeOK
<1>a. \A t \in TramaCliente : Enviado(c2s, t) \in Seq(TramaCliente)
  BY EnviadoTipo
<1>b. Leer => s2c' \in Seq(TramaServidor) /\ ack \in TramaServidor
  BY ColaTipo DEF Leer, ack
<1>c. Largo[archivo] \in Nat
  OBVIOUS
<1>. USE DEF tramoVars, linkVars, clientVars, Etapas
<1>1. CASE EnviarNombre
  <2>1. LinkTypeOK'
    BY <1>1, <1>a, OrdenTipo DEF EnviarNombre, Enviar
  <2>2. ClientTypeOK'
    BY <1>1 DEF EnviarNombre
  <2>3. InvCliente'
    BY <1>1, VentanaNoEsControl DEF EnviarNombre, InvCliente, Enviando, Enviada
  <2>. QED  BY <1>0, <2>1, <2>2, <2>3
<1>2. CASE LeerTramo
  <2>. DEFINE largo == Menor(Largo[archivo] - leido, LARGO_TRAMO)
              lectura == [k \in 1..largo |-> <<archivo, leido + k>>]
  <2>1. largo \in 1..LARGO_TRAMO /\ leido + largo \in 0..Largo[archivo]
    BY <1>2, <1>c, TramoTipo DEF LeerTramo, Menor
  <2>2. lectura \in Seq(Celda)
    <3>1. lectura \in [1..largo -> Celda]
      BY <2>1, CeldaTipo
    <3>2. largo \in Nat
      BY <2>1, TramoTipo
    <3>. HIDE DEF largo, lectura
    <3>. QED  BY <3>1, <3>2, FuncionEsSecuencia
  <2>3. Copiado(buffer_read, 0, lectura) \in Buffer
    BY <2>2, CopiadoTipo
  <2>4. largo < LARGO_TRAMO => leido + largo = Largo[archivo]
    BY <1>c, TramoTipo DEF Menor
  <2>5. /\ length_read' = largo
        /\ buffer_read' = Copiado(buffer_read, 0, lectura)
        /\ leido' = leido + largo
        /\ cantidad_ack' = 0
        /\ cpc' = "tramo"
        /\ UNCHANGED <<linkVars, archivo, nro_secuencia_enviado, ultimo,
                       esperado, huecos, informe>>
    BY <1>2 DEF LeerTramo
  <2>. HIDE DEF largo, lectura
  <2>6. LinkTypeOK' /\ ClientTypeOK'
    BY <2>1, <2>3, <2>5, TramoTipo
  <2>7. InvCliente'
    <3>1. 0 * CHUNK = 0
      OBVIOUS
    <3>. QED  BY <2>1, <2>4, <2>5, <3>1, TramoTipo DEF InvCliente, Enviando, Enviada
  <2>. QED  BY <1>0, <2>6, <2>7
<1>3. CASE LeerFin
  <2>1. LinkTypeOK' /\ ClientTypeOK'
    BY <1>3, TramoTipo DEF LeerFin
  <2>2. InvCliente'
    BY <1>3 DEF LeerFin, InvCliente, Enviando, Enviada
  <2>. QED  BY <1>0, <2>1, <2>2
<1>4. CASE EnviarChunk
  <2>. DEFINE falta == length_read - cantidad_ack * CHUNK
              datos == Porcion(buffer_read, cantidad_ack, Menor(CHUNK, falta))
  <2>1. cantidad_ack \in Pos /\ cantidad_ack * CHUNK \in Nat
        /\ cantidad_ack * CHUNK < length_read /\ length_read > 0
        /\ (length_read < LARGO_TRAMO => leido = Largo[archivo])
    <3>1. cantidad_ack * CHUNK \in Nat
      BY Z3
    <3>. QED  BY <1>4, <3>1 DEF EnviarChunk, InvCliente, Enviando, Enviada, Pos
  <2>2. Menor(CHUNK, falta) \in Nat
    BY <2>1, TramoTipo DEF Menor
  <2>3. datos \in Seq(Celda)
    BY <2>2, PorcionTipo
  <2>4. Datos(nro_secuencia_enviado + cantidad_ack, datos) \in TramaCliente
    BY <2>1, <2>3, NroDeChunk, DatosTipo
  <2>5. LinkTypeOK'
    BY <1>4, <1>a, <2>4 DEF EnviarChunk, Enviar
  <2>6. ClientTypeOK'
    BY <1>4, <2>1 DEF EnviarChunk, Pos
  <2>7. InvCliente'
    <3>1. (cantidad_ack + 1) * CHUNK = cantidad_ack * CHUNK + CHUNK
      BY Z3
    <3>2. CASE cantidad_ack + 1 < CANT_CHUNKS /\ falta > CHUNK
      <4>1. cpc' = "tramo" /\ cantidad_ack' = cantidad_ack + 1
            /\ UNCHANGED <<leido, length_read, archivo, esperado>>
        BY <1>4, <3>2 DEF EnviarChunk
      <4>. QED  BY <4>1, <3>1, <3>2, <2>1, TramoTipo DEF InvCliente, Enviando, Enviada
    <3>3. CASE ~ (cantidad_ack + 1 < CANT_CHUNKS /\ falta > CHUNK)
      <4>1. cpc' = "esperar" /\ esperado' = nro_secuencia_enviado
            /\ cantidad_ack' = cantidad_ack + 1
            /\ UNCHANGED <<leido, length_read, archivo, nro_secuencia_enviado>>
        BY <1>4, <3>3 DEF EnviarChunk
      <4>2. cantidad_ack + 1 < CANT_CHUNKS => length_read < LARGO_TRAMO
        <5>. SUFFICES ASSUME cantidad_ack + 1 < CANT_CHUNKS
                      PROVE  length_read < LARGO_TRAMO
          OBVIOUS
        <5>1. (cantidad_ack + 1) * CHUNK < LARGO_TRAMO
          BY <2>1, Producto DEF Pos
        <5>2. length_read <= cantidad_ack * CHUNK + CHUNK
          BY <3>3, <2>1, TramoTipo
        <5>. QED  BY <5>1, <5>2, <3>1, <2>1, TramoTipo
      <4>. QED  BY <4>1, <4>2, <2>1 DEF InvCliente, Enviando, Enviada, Pos
    <3>. QED  BY <3>2, <3>3
  <2>. QED  BY <1>0, <2>5, <2>6, <2>7
<1>5. CASE ReenviarUltimo
  <2>1. Menor(CHUNK, length_read) \in Nat
    BY TramoTipo DEF Menor
  <2>2. Datos(nro_secuencia_enviado + ultimo,
              Porcion(buffer_read, ultimo, Menor(CHUNK, length_read))) \in TramaCliente
    BY <2>1, PorcionTipo, NroDeChunk, DatosTipo DEF Pos
  <2>3. LinkTypeOK' /\ ClientTypeOK'
    BY <1>5, <1>a, <2>2 DEF ReenviarUltimo, Enviar
  <2>4. InvCliente'
    BY <1>5 DEF ReenviarUltimo, InvCliente, Enviando, Enviada
  <2>. QED  BY <1>0, <2>3, <2>4
<1>6. CASE LlenarHueco
  <2>1. PICK p \in huecos :
          /\ cpc = "huecos"
          /\ Enviar(Datos(nro_secuencia_enviado + p, ChunkDeHueco(p)))
          /\ ultimo' = p
          /\ huecos' = huecos \ {p}
          /\ cpc' = IF huecos = {p} THEN "esperar" ELSE "huecos"
          /\ UNCHANGED <<s2c, archivo, tramoVars, cantidad_ack, esperado, informe>>
    BY <1>6 DEF LlenarHueco
  <2>2. p \in Pos
    OBVIOUS
  <2>3. Datos(nro_secuencia_enviado + p, ChunkDeHueco(p)) \in TramaCliente
    BY <2>2, PorcionTipo, NroDeChunk, DatosTipo DEF Pos, ChunkDeHueco
  <2>4. LinkTypeOK' /\ ClientTypeOK'
    BY <2>1, <1>a, <2>2, <2>3 DEF Enviar
  <2>5. InvCliente'
    BY <2>1 DEF InvCliente, Enviando, Enviada
  <2>. QED  BY <1>0, <2>4, <2>5
<1>7. CASE EnviarFin
  <2>1. LinkTypeOK' /\ ClientTypeOK'
    BY <1>7, <1>a, OrdenTipo DEF EnviarFin, Enviar
  <2>2. InvCliente'
    BY <1>7, VentanaNoEsControl DEF EnviarFin, InvCliente, Enviando, Enviada
  <2>. QED  BY <1>0, <2>1, <2>2
<1>8. CASE PedirResumen
  <2>1. LinkTypeOK' /\ ClientTypeOK'
    BY <1>8, <1>a, OrdenTipo DEF PedirResumen, Enviar
  <2>2. InvCliente'
    BY <1>8 DEF PedirResumen, InvCliente, Enviando, Enviada
  <2>. QED  BY <1>0, <2>1, <2>2
<1>9. CASE AckEsperado
  <2>1. nro_secuencia_enviado' \in Ventanas
    BY <1>9, ProximaClienteTipo, VentanaNoEsControl DEF AckEsperado
  <2>2. LinkTypeOK' /\ ClientTypeOK'
    BY <1>9, <1>b, <2>1 DEF AckEsperado
  <2>3. InvCliente'
    BY <1>9 DEF AckEsperado, InvCliente, Enviando, Enviada
  <2>. QED  BY <1>0, <2>2, <2>3
<1>10. CASE AckConHuecos
  <2>1. huecos' \subseteq Pos
    BY <1>10 DEF AckConHuecos, Pos
  <2>2. LinkTypeOK' /\ ClientTypeOK'
    BY <1>10, <1>b, <2>1 DEF AckConHuecos
  <2>3. InvCliente'
    BY <1>10 DEF AckConHuecos, InvCliente, Enviando, Enviada
  <2>. QED  BY <1>0, <2>2, <2>3
<1>11. ASSUME cpc = "esperar", NEW r \in 1..4, Reintentar(r), s2c' \in Seq(TramaServidor)
       PROVE  TipoInv'
  <2>1. LinkTypeOK' /\ ClientTypeOK'
    BY <1>11 DEF Reintentar, Reintento
  <2>2. /\ esperado = FF => Reintento(r) = "startOfTx"
        /\ esperado = FE => Reintento(r) = "esperar"
        /\ esperado \in Ventanas => Reintento(r) \in {"ultimo", "tramo"}
    BY ReintentoDestino
  <2>5. 0 * CHUNK = 0
    OBVIOUS
  <2>6. InvCliente'
    BY <1>11, <2>2, <2>5, VentanaNoEsControl DEF Reintentar, InvCliente, Enviando, Enviada
  <2>. QED  BY <1>0, <2>1, <2>6
<1>12. CASE AckDeOtro
  BY <1>12, <1>b, <1>11 DEF AckDeOtro, RetvalOtroAck
<1>13. CASE NoEsAck
  <2>1. LinkTypeOK' /\ ClientTypeOK'
    BY <1>13, <1>b DEF NoEsAck
  <2>2. InvCliente'
    BY <1>13 DEF NoEsAck, InvCliente, Enviando, Enviada
  <2>. QED  BY <1>0, <2>1, <2>2
<1>14. CASE LimitePaquetes
  BY <1>14, <1>11 DEF LimitePaquetes
<1>15. CASE TimeoutCliente
  BY <1>15, <1>11 DEF TimeoutCliente
<1>16. CASE RecibirResumen
  <2>1. LinkTypeOK' /\ ClientTypeOK'
    BY <1>16, <1>b DEF RecibirResumen
  <2>2. InvCliente'
    BY <1>16 DEF RecibirResumen, InvCliente, Enviando, Enviada
  <2>. QED  BY <1>0, <2>1, <2>2
<1>17. CASE OtroEnVezDeResumen
  <2>1. LinkTypeOK' /\ ClientTypeOK'
    BY <1>17, <1>b DEF OtroEnVezDeResumen
  <2>2. InvCliente'
    BY <1>17 DEF OtroEnVezDeResumen, InvCliente, Enviando, Enviada
  <2>. QED  BY <1>0, <2>1, <2>2
<1>18. CASE LimitePaquetesResumen
  <2>1. LinkTypeOK' /\ ClientTypeOK'
    BY <1>18, <1>a, OrdenTipo DEF LimitePaquetesResumen, Enviar
  <2>2. InvCliente'
    BY <1>18 DEF LimitePaquetesResumen, InvCliente, Enviando, Enviada
  <2>. QED  BY <1>0, <2>1, <2>2
<1>19. CASE NuevoCliente
  <2>1. [k \in 1..LARGO_TRAMO |-> BASURA] \in Buffer
    BY CeldaTipo DEF Buffer
  <2>2. Largo[archivo'] \in Nat
    BY <1>19 DEF NuevoCliente
  <2>3. LinkTypeOK' /\ ClientTypeOK'
    BY <1>19, <2>1, <2>2, TramoTipo, VentanaNoEsControl DEF NuevoCliente, Pos
  <2>4. InvCliente'
    BY <1>19, VentanaNoEsControl DEF NuevoCliente, InvCliente, Enviando, Enviada
  <2>. QED  BY <1>0, <2>3, <2>4
<1>. QED
  BY <1>1, <1>2, <1>3, <1>4, <1>5, <1>6, <1>7, <1>8, <1>9, <1>10, <1>12, <1>13,
     <1>14, <1>15, <1>16, <1>17, <1>18, <1>19 DEF ClientNext

\* An ACK of the server has its types.
LEMMA AckTipo ==
    ASSUME s2c \in Seq(TramaServidor), NEW n \in 0..255,
           grilla' \in [Pos -> {VACIO, LLENO, MD5}],
           resumen' \in Seq(Seq(Celda)), enviar_ack(n)
    PROVE  s2c' \in Seq(TramaServidor)
<1>1. [nro |-> n, grilla |-> grilla', resumen |-> resumen'] \in TramaServidor
  BY DEF TramaServidor
<1>. QED  BY <1>1, EnviadoTipo DEF enviar_ack

\* The codes are unsigned chars.
LEMMA CodigoTipo ==
    FF \in 0..255 /\ FE \in 0..255 /\ FD \in 0..255
  BY DEF FF, FE, FD

\* What the server reads and writes keeps its types.
LEMMA ServidorTipo ==
    ASSUME TipoInv, ServerNext, UNCHANGED clientVars
    PROVE  TipoInv'
<1>. USE DEF TipoInv, TypeOK
<1>0. ClientTypeOK' /\ InvCliente'
  BY DEF clientVars, tramoVars, ClientTypeOK, InvCliente, Enviando, Enviada
<1>. USE DEF LinkTypeOK, ServerTypeOK, ventanaVars, archivoVars
<1>a. Recibir => /\ c2s' \in Seq(TramaCliente)
                 /\ trama \in TramaCliente
                 /\ origen' = "cliente"
  BY ColaTipo DEF Recibir, trama
<1>b. [k \in 1..LARGO_TRAMO |-> BASURA] \in Buffer
      /\ [k \in 1..LARGO_TRAMO |-> CERO] \in Buffer
  BY CeldaTipo DEF Buffer
<1>1. CASE RecibirNombre
  <2>1. trama.archivo \in Archivos /\ c2s' \in Seq(TramaCliente)
    BY <1>1, <1>a, TramaDatosTipo DEF RecibirNombre
  <2>2. Largo[trama.archivo] \in Nat
    BY <2>1
  <2>3. ServerTypeOK'
    <3>1. disco' \in [Archivos -> Seq(Celda)]
      <4>1. <<>> \in Seq(Celda)
        OBVIOUS
      <4>. QED  BY <1>1, <4>1 DEF RecibirNombre
    <3>2. <<>> \in Seq(Seq(Celda))
      OBVIOUS
    <3>. QED  BY <1>1, <1>a, <1>b, <2>1, <2>2, <3>1, <3>2, GrillaTipo DEF RecibirNombre
  <2>4. LinkTypeOK'
    BY <1>1, <2>1, <2>3, CodigoTipo, AckTipo DEF RecibirNombre
  <2>. QED  BY <1>0, <2>3, <2>4
<1>2. CASE RecibirFin
  <2>1. disco' \in [Archivos -> Seq(Celda)] /\ total_escrito' \in Nat
    BY <1>2, EscritoTipo DEF RecibirFin
  <2>2. ServerTypeOK'
    BY <1>2, <1>a, <2>1, GrillaTipo, CodigoTipo DEF RecibirFin
  <2>3. LinkTypeOK'
    BY <1>2, <1>a, <2>2, CodigoTipo, AckTipo DEF RecibirFin
  <2>. QED  BY <1>0, <2>2, <2>3
<1>3. CASE RecibirPedidoResumen
  <2>1. resumen' \in Seq(Seq(Celda))
    <3>1. disco[path] \in Seq(Celda)
      BY <1>3 DEF RecibirPedidoResumen
    <3>. QED  BY <1>3, <3>1 DEF RecibirPedidoResumen
  <2>2. ServerTypeOK'
    BY <1>3, <1>a, <1>b, <2>1, GrillaTipo, CodigoTipo DEF RecibirPedidoResumen
  <2>3. LinkTypeOK'
    BY <1>3, <1>a, <2>2, CodigoTipo, AckTipo DEF RecibirPedidoResumen
  <2>. QED  BY <1>0, <2>2, <2>3
<1>4. CASE ResumenSinArchivo
  BY <1>4, <1>0, <1>a DEF ResumenSinArchivo
<1>5. CASE RecibirFueraDeSecuencia
  BY <1>5, <1>0, <1>a DEF RecibirFueraDeSecuencia
<1>6. CASE RecibirDatos
  <2>1. /\ c2s' \in Seq(TramaCliente)
        /\ trama.nro \in NroDatos
        /\ trama.datos \in Seq(Celda)
        /\ origen' = "cliente"
    BY <1>6, <1>a, TramaDatosTipo DEF RecibirDatos
  <2>. DEFINE p == trama.nro % CANT_CHUNKS
  <2>2. p \in Pos
    <3>1. trama.nro \in Nat
      BY <2>1 DEF NroDatos
    <3>. QED  BY <3>1, Division
  <2>3. /\ disco' \in [Archivos -> Seq(Celda)]
        /\ total_escrito' \in Nat
        /\ nro_secuencia_anterior' \in 0..255
    <3>1. Escrito \in [Archivos -> Seq(Celda)]
      BY EscritoTipo
    <3>2. ProximaServidor(nro_secuencia_anterior) \in 0..255
      BY ProximaServidorTipo
    <3>3. CASE Avanza
      <4>1. /\ disco' = Escrito
            /\ total_escrito' = total_escrito + LARGO_TRAMO
            /\ nro_secuencia_anterior' = ProximaServidor(nro_secuencia_anterior)
        BY <1>6, <3>3 DEF RecibirDatos
      <4>. QED  BY <4>1, <3>1, <3>2, TramoTipo
    <3>4. CASE ~ Avanza
      BY <1>6, <3>4 DEF RecibirDatos
    <3>. QED  BY <3>3, <3>4
  <2>4. GrillaBase \in [Pos -> {VACIO, LLENO, MD5}] /\ BytesBase \in Nat
    BY GrillaTipo DEF GrillaBase, BytesBase
  <2>5. /\ grilla' \in [Pos -> {VACIO, LLENO, MD5}]
        /\ buffer_write' \in Buffer
        /\ bytes_archivo' \in Nat
    <3>1. CASE GrillaBase[p] = VACIO
      <4>1. /\ grilla' = [GrillaBase EXCEPT ![p] = LLENO]
            /\ buffer_write' = Copiado(buffer_write, p, trama.datos)
            /\ bytes_archivo' = BytesBase + Len(trama.datos)
        BY <1>6, <3>1 DEF RecibirDatos
      <4>2. Copiado(buffer_write, p, trama.datos) \in Buffer
        BY <2>1, <2>2, CopiadoTipo DEF Pos
      <4>3. Len(trama.datos) \in Nat
        BY <2>1, LenProperties
      <4>4. [GrillaBase EXCEPT ![p] = LLENO] \in [Pos -> {VACIO, LLENO, MD5}]
        BY <2>4
      <4>. HIDE DEF p
      <4>. QED  BY <4>1, <4>2, <4>3, <4>4, <2>4
    <3>2. CASE GrillaBase[p] # VACIO
      BY <1>6, <3>2, <2>4 DEF RecibirDatos
    <3>. QED  BY <3>1, <3>2
  <2>6. /\ ack_completo' \in BOOLEAN
        /\ primer_paquete' \in BOOLEAN
        /\ UNCHANGED <<resumen, filesize, filefd, path, activo>>
    BY <1>6 DEF RecibirDatos
  <2>7. ServerTypeOK'
    BY <2>1, <2>3, <2>5, <2>6
  <2>8. s2c' \in Seq(TramaServidor)
    BY <1>6, <2>7, AckTipo DEF RecibirDatos
  <2>. QED  BY <1>0, <2>1, <2>7, <2>8
<1>7. CASE TramaAjena
  BY <1>7, <1>0 DEF TramaAjena, linkVars
<1>8. CASE TimeoutServidor
  <2>1. ServerTypeOK' /\ c2s' = c2s
    BY <1>8 DEF TimeoutServidor, serverVars
  <2>2. LinkTypeOK'
    BY <1>8, <2>1, AckTipo DEF TimeoutServidor, serverVars
  <2>. QED  BY <1>0, <2>1, <2>2
<1>. QED
  BY <1>1, <1>2, <1>3, <1>4, <1>5, <1>6, <1>7, <1>8 DEF ServerNext, RecibirTrama

\* Type correctness and the client's counters are inductive.
LEMMA TipoInductivo == TipoInv /\ [Next]_vars => TipoInv'
<1>. SUFFICES ASSUME TipoInv, [Next]_vars PROVE TipoInv'
  OBVIOUS
<1>1. CASE ClientNext /\ UNCHANGED serverVars
  BY <1>1, ClienteTipo
<1>2. CASE ServerNext /\ UNCHANGED clientVars
  BY <1>2, ServidorTipo
<1>3. ASSUME UNCHANGED <<clientVars, serverVars>>,
             c2s' \in Seq(TramaCliente), s2c' \in Seq(TramaServidor)
      PROVE  TipoInv'
  <2>1. ClientTypeOK' /\ InvCliente'
    BY <1>3 DEF TipoInv, TypeOK, clientVars, tramoVars, ClientTypeOK, InvCliente,
                Enviando, Enviada
  <2>2. ServerTypeOK'
    BY <1>3 DEF TipoInv, TypeOK, serverVars, ventanaVars, archivoVars, ServerTypeOK
  <2>. QED  BY <1>3, <2>1, <2>2 DEF TipoInv, TypeOK, LinkTypeOK
<1>4. CASE Perder
  <2>1. c2s \in Seq(TramaCliente) /\ s2c \in Seq(TramaServidor)
    BY DEF TipoInv, TypeOK, LinkTypeOK
  <2>2. CASE PerderAlServidor
    <3>1. c2s' \in Seq(TramaCliente) /\ s2c' = s2c
      BY <2>1, <2>2, ColaTipo DEF PerderAlServidor
    <3>. QED  BY <1>4, <2>1, <3>1, <1>3 DEF Perder
  <2>3. CASE PerderAlCliente
    <3>1. s2c' \in Seq(TramaServidor) /\ c2s' = c2s
      BY <2>1, <2>3, ColaTipo DEF PerderAlCliente
    <3>. QED  BY <1>4, <2>1, <3>1, <1>3 DEF Perder
  <2>. QED  BY <1>4, <2>2, <2>3 DEF Perder
<1>5. CASE UNCHANGED vars
  BY <1>5, <1>3 DEF vars, linkVars, TipoInv, TypeOK, LinkTypeOK
<1>. QED
  BY <1>1, <1>2, <1>4, <1>5 DEF Next

\* Every variable of the transfer keeps its type, for every size of the window,
\* the chunk, the files and the link (RawClient and RawServer, every action).
THEOREM TypeCorrect == Spec => []TypeOK
<1>1. Init => TipoInv
  BY InitTipo
<1>2. TipoInv /\ [Next]_vars => TipoInv'
  BY TipoInductivo
<1>3. TipoInv => TypeOK
  BY DEF TipoInv
<1>. QED  BY <1>1, <1>2, <1>3, PTL DEF Spec

----------------------------------------------------------------------------
(* Windows *)

\* First numbers of a window, aligned or not: all that the argument needs.
Inicios == 0..(TOPE - 2 * CANT_CHUNKS)

\* Both ends move to the same window (client.c:476, server.c:409), and it is
\* another one.
LEMMA MismaProxima ==
    ASSUME NEW n \in Inicios
    PROVE  /\ ProximaServidor(n) = ProximaCliente(n)
           /\ ProximaServidor(n) # n
<1>1. n + CANT_CHUNKS \in 0..255 /\ (n + CANT_CHUNKS) % 256 = n + CANT_CHUNKS
  BY DEF Inicios
<1>2. CASE n = TOPE - 2 * CANT_CHUNKS
  BY <1>1, <1>2 DEF Inicios, ProximaServidor, ProximaCliente
<1>3. CASE n < TOPE - 2 * CANT_CHUNKS
  BY <1>1, <1>3 DEF Inicios, ProximaServidor, ProximaCliente
<1>. QED  BY <1>2, <1>3 DEF Inicios

\* The windows that the client sends are such numbers.
LEMMA VentanaEsInicio == Ventanas \subseteq Inicios
  BY DEF Ventanas, Inicios

\* The numbers of a window are numbers of data.
LEMMA TramoSinControl ==
    ASSUME NEW w \in Inicios, NEW n \in Tramo(w)
    PROVE  n \in Nat /\ n # FF /\ n # FE /\ n # FD /\ n \notin Control
  BY DEF Inicios, Tramo, Control, FF, FE, FD

\* A first number is no code.
LEMMA InicioSinControl ==
    ASSUME NEW w \in Inicios
    PROVE  w \in Nat /\ w # FF /\ w # FE /\ w # FD
  BY DEF Inicios, FF, FE, FD

\* A chunk of the window being received does not advance it (server.c:387).
LEMMA TramoNoAvanza ==
    ASSUME Esperada \in Inicios, trama.nro \in Tramo(Esperada)
    PROVE  ~ Avanza
  BY DEF Inicios, Tramo, Esperada, Avanza, distancia

\* A chunk of the next window does, also where the numbers wrap.
LEMMA TramoAvanza ==
    ASSUME Esperada \in Inicios, trama.nro \in Tramo(ProximaServidor(Esperada))
    PROVE  Avanza
<1>1. ProximaServidor(Esperada) = ProximaCliente(Esperada)
  BY MismaProxima
<1>2. CASE Esperada = TOPE - 2 * CANT_CHUNKS
  BY <1>1, <1>2 DEF Inicios, Tramo, Esperada, Avanza, distancia, ProximaCliente
<1>3. CASE Esperada < TOPE - 2 * CANT_CHUNKS
  BY <1>1, <1>3 DEF Inicios, Tramo, Esperada, Avanza, distancia, ProximaCliente
<1>. QED  BY <1>2, <1>3 DEF Inicios

----------------------------------------------------------------------------
(* Queues *)

\* r is s without its first frame.
Quita(s, r) ==
    /\ Len(s) \in Nat /\ Len(r) \in Nat /\ Len(s) = Len(r) + 1
    /\ \A i \in 1..Len(r) : r[i] = s[i + 1]

\* r is s, perhaps with a frame t behind.
Agrega(s, r, t) ==
    /\ Len(s) \in Nat /\ Len(r) \in Nat
    /\ Len(s) <= Len(r)
    /\ \A i \in 1..Len(r) :
         \/ i <= Len(s) /\ r[i] = s[i]
         \/ i = Len(s) + 1 /\ i = Len(r) /\ r[i] = t

\* Reading a frame takes the first one away.
LEMMA TailQuita ==
    ASSUME NEW T, NEW s \in Seq(T), s # <<>>
    PROVE  Quita(s, Tail(s)) /\ Head(s) = s[1]
  BY HeadTailProperties, LenProperties, EmptySeq DEF Quita

\* A frame that is dropped for want of room leaves the queue as it was.
LEMMA IgualAgrega ==
    ASSUME NEW T, NEW s \in Seq(T), NEW t
    PROVE  Agrega(s, s, t)
  BY LenProperties DEF Agrega

\* A frame that is sent goes behind the others, or is dropped.
LEMMA EnviadoAgrega ==
    ASSUME NEW T, NEW s \in Seq(T), NEW t
    PROVE  Agrega(s, Enviado(s, t), t)
<1>1. CASE Len(s) < Capacidad
  <2>1. Enviado(s, t) = Append(s, t)
    BY <1>1 DEF Enviado
  <2>2. Len(Append(s, t)) = Len(s) + 1
    OBVIOUS
  <2>3. \A i \in 1..Len(s) : Append(s, t)[i] = s[i]
    OBVIOUS
  <2>4. Append(s, t)[Len(s) + 1] = t
    OBVIOUS
  <2>. QED  BY <2>1, <2>2, <2>3, <2>4, LenProperties DEF Agrega
<1>2. CASE ~ (Len(s) < Capacidad)
  BY <1>2, IgualAgrega DEF Enviado
<1>. QED  BY <1>1, <1>2

\* The ACK that the server sends after a step.
AckDe(n) == [nro |-> n, grilla |-> grilla', resumen |-> resumen']

\* So does an ACK, unless it goes to another host.
LEMMA AckAgrega ==
    ASSUME TipoInv, NEW n, enviar_ack(n)
    PROVE  Agrega(s2c, s2c', AckDe(n))
  BY EnviadoAgrega, IgualAgrega DEF enviar_ack, AckDe, TipoInv, TypeOK, LinkTypeOK

\* The server reads the first frame of its queue.
LEMMA RecibirQuita ==
    ASSUME TipoInv, Recibir
    PROVE  Quita(c2s, c2s') /\ trama = c2s[1]
  BY TailQuita DEF Recibir, trama, TipoInv, TypeOK, LinkTypeOK

----------------------------------------------------------------------------
(* What a data frame does to the server's window *)

\* The fields of RecibirDatos that the order of the frames depends on.
LEMMA DatosGrilla ==
    ASSUME TipoInv, RecibirDatos
    PROVE  /\ GrillaBase \in [Pos -> {VACIO, LLENO, MD5}]
           /\ grilla' # GrillaVacia
           /\ grilla' = GrillaLlena => ack_completo'
           /\ ack_completo /\ ~ Avanza => ack_completo'
           /\ UNCHANGED <<filefd, path, activo>>
           /\ Quita(c2s, c2s') /\ trama = c2s[1] /\ trama.nro \notin Control
           /\ Agrega(s2c, s2c', AckDe(nro_secuencia_anterior'))
<1>. DEFINE p == trama.nro % CANT_CHUNKS
<1>1. GrillaBase \in [Pos -> {VACIO, LLENO, MD5}]
  BY GrillaTipo DEF GrillaBase, TipoInv, TypeOK, ServerTypeOK
<1>2. p \in Pos
  <2>1. trama \in TramaCliente
    BY ColaTipo DEF RecibirDatos, Recibir, trama, TipoInv, TypeOK, LinkTypeOK
  <2>. QED  BY <2>1, TramaDatosTipo, Division
<1>3. grilla'[p] # VACIO
  <2>1. CASE GrillaBase[p] = VACIO
    <3>1. grilla' = [GrillaBase EXCEPT ![p] = LLENO]
      BY <2>1 DEF RecibirDatos
    <3>. QED  BY <3>1, <1>1, <1>2 DEF VACIO, LLENO
  <2>2. CASE GrillaBase[p] # VACIO
    BY <2>2 DEF RecibirDatos
  <2>. QED  BY <2>1, <2>2
<1>4. grilla' # GrillaVacia
  BY <1>2, <1>3 DEF GrillaVacia
<1>5. /\ grilla' = GrillaLlena => ack_completo'
      /\ ack_completo /\ ~ Avanza => ack_completo'
      /\ UNCHANGED <<filefd, path, activo>>
      /\ trama.nro \notin Control
  BY DEF RecibirDatos
<1>6. Quita(c2s, c2s') /\ trama = c2s[1]
  BY RecibirQuita DEF RecibirDatos
<1>7. Agrega(s2c, s2c', AckDe(nro_secuencia_anterior'))
  <2>1. \/ enviar_ack(nro_secuencia_anterior')
        \/ s2c' = s2c
    BY DEF RecibirDatos
  <2>2. Agrega(s2c, s2c, AckDe(nro_secuencia_anterior'))
    BY IgualAgrega DEF TipoInv, TypeOK, LinkTypeOK
  <2>. QED  BY <2>1, <2>2, AckAgrega
<1>. QED  BY <1>1, <1>4, <1>5, <1>6, <1>7

\* A chunk of the window being received leaves it the one expected.
LEMMA DatosDeLaVentana ==
    ASSUME TipoInv, RecibirDatos, ~ Avanza
    PROVE  Esperada' = Esperada
  BY DEF RecibirDatos, Esperada

\* A chunk of the next one moves the server to it (server.c:409).
LEMMA DatosDeLaSiguiente ==
    ASSUME TipoInv, RecibirDatos, Avanza
    PROVE  Esperada' = ProximaServidor(Esperada)
  BY DEF RecibirDatos, Esperada

----------------------------------------------------------------------------
(* Steps of the server, phase by phase of the client *)

\* What an action of the server does to the order, one action at a time.
LEMMA NombreEfecto ==
    ASSUME TipoInv, RecibirNombre
    PROVE  /\ Quita(c2s, c2s') /\ trama = c2s[1] /\ trama.nro = FF
           /\ path' = trama.archivo /\ path' # 0 /\ filefd'
           /\ grilla' = GrillaVacia /\ Esperada' = 0
           /\ Agrega(s2c, s2c', AckDe(FF))
           /\ UNCHANGED <<ack_completo, primer_paquete, activo>>
<1>1. trama \in TramaCliente
  BY ColaTipo DEF RecibirNombre, Recibir, trama, TipoInv, TypeOK, LinkTypeOK
<1>2. trama.archivo \in Archivos
  BY <1>1, TramaDatosTipo DEF RecibirNombre
<1>. QED  BY <1>2, RecibirQuita, AckAgrega DEF RecibirNombre, Esperada

\* 0xFE (server.c:318).
LEMMA FinEfecto ==
    ASSUME TipoInv, RecibirFin
    PROVE  /\ Quita(c2s, c2s') /\ trama = c2s[1] /\ trama.nro = FE
           /\ Esperada' = FE
           /\ Agrega(s2c, s2c', AckDe(FE))
           /\ UNCHANGED <<path, activo>>
  BY RecibirQuita, AckAgrega DEF RecibirFin, Esperada

\* 0xFD (server.c:357).
LEMMA PedidoEfecto ==
    ASSUME TipoInv, RecibirPedidoResumen
    PROVE  /\ Quita(c2s, c2s') /\ trama = c2s[1] /\ trama.nro = FD
           /\ Esperada' = FD
           /\ Agrega(s2c, s2c', AckDe(FD))
           /\ ~ primer_paquete'
           /\ UNCHANGED <<path, activo>>
  BY RecibirQuita, AckAgrega DEF RecibirPedidoResumen, Esperada, archivoVars

\* 0xFD before any file was named (common.c:49).
LEMMA SinArchivoEfecto ==
    ASSUME TipoInv, ResumenSinArchivo
    PROVE  Quita(c2s, c2s') /\ trama = c2s[1] /\ trama.nro = FD /\ path = 0
  BY RecibirQuita DEF ResumenSinArchivo

\* A chunk out of sequence (server.c:418).
LEMMA FueraEfecto ==
    ASSUME TipoInv, RecibirFueraDeSecuencia
    PROVE  /\ Quita(c2s, c2s') /\ trama = c2s[1]
           /\ trama.nro \notin Control /\ Avanza /\ ~ ack_completo
  BY RecibirQuita DEF RecibirFueraDeSecuencia, SecuenciaInesperada

\* A frame of others (server.c:255).
LEMMA AjenaEfecto ==
    ASSUME TipoInv, TramaAjena
    PROVE  UNCHANGED <<c2s, s2c, nro_secuencia_anterior, grilla, ack_completo,
                       filefd, path, primer_paquete, activo>>
  BY DEF TramaAjena, linkVars, ventanaVars, archivoVars

\* The repetition of the last ACK (server.c:602).
LEMMA TimeoutEfecto ==
    ASSUME TipoInv, TimeoutServidor
    PROVE  /\ UNCHANGED <<c2s, nro_secuencia_anterior, grilla, ack_completo,
                          filefd, path, primer_paquete, activo>>
           /\ ~ primer_paquete
           /\ Agrega(s2c, s2c', AckDe(Esperada))
  BY AckAgrega DEF TimeoutServidor, Esperada, serverVars, ventanaVars, archivoVars

\* The control codes are three, and a grid that is empty is not full.
LEMMA Codigos ==
    FF = 255 /\ FE = 254 /\ FD = 253 /\ GrillaVacia # GrillaLlena
<1>1. GrillaVacia[0] # GrillaLlena[0]
  BY DEF GrillaVacia, GrillaLlena, VACIO, LLENO, Pos
<1>. QED  BY <1>1 DEF FF, FE, FD

\* The ACK that is added is known by its number and its grid.
LEMMA AckCampos ==
    ASSUME NEW n
    PROVE  AckDe(n).nro = n /\ AckDe(n).grilla = grilla'
  BY DEF AckDe

\* While the client names the file.
LEMMA ServidorNombre ==
    ASSUME TipoInv, activo, NombreServidor, NombreIda, NombreVuelta,
           ServerNext, UNCHANGED clientVars
    PROVE  NombreServidor' /\ NombreIda' /\ NombreVuelta' /\ activo'
<1>. USE Codigos, AckCampos
<1>0. archivo' = archivo /\ archivo # 0
  BY DEF clientVars, TipoInv, TypeOK, ClientTypeOK
<1>1. CASE RecibirNombre
  <2>1. \A i \in 1..Len(c2s) : c2s[i].nro = FF /\ c2s[i].archivo = archivo
    BY <1>1, NombreEfecto DEF NombreIda, Quita
  <2>2. NombreServidor'
    BY <1>0, <1>1, <2>1, NombreEfecto DEF NombreServidor, Quita
  <2>3. NombreIda'
    <3>1. \A i \in 1..Len(c2s') : c2s'[i].nro = FF /\ c2s'[i].archivo = archivo'
      BY <1>0, <1>1, <2>1, NombreEfecto DEF Quita
    <3>2. Len(c2s') \in Nat
      BY <1>1, NombreEfecto DEF Quita
    <3>. QED  BY <3>1, <3>2 DEF NombreIda
  <2>4. NombreVuelta'
    BY <1>1, NombreEfecto DEF NombreVuelta, Agrega
  <2>. QED  BY <1>1, <2>2, <2>3, <2>4, NombreEfecto
<1>2. CASE RecibirFin
  BY <1>2, FinEfecto DEF NombreIda, Quita
<1>3. CASE RecibirPedidoResumen
  <2>1. path # 0 /\ Esperada # 0
    BY <1>3, PedidoEfecto DEF NombreIda, Quita
  <2>2. NombreServidor'
    BY <1>3, PedidoEfecto DEF NombreServidor
  <2>3. NombreIda'
    <3>1. ASSUME NEW i \in 1..Len(c2s')
          PROVE  /\ c2s'[i].nro \in {FD, FF}
                 /\ c2s'[i].nro = FF =>
                      /\ c2s'[i].archivo = archivo
                      /\ \A j \in i..Len(c2s') : c2s'[j].nro = FF
      <4>1. Quita(c2s, c2s')
        BY <1>3, PedidoEfecto
      <4>2. i + 1 \in 1..Len(c2s) /\ c2s'[i] = c2s[i + 1]
        BY <4>1 DEF Quita
      <4>3. ASSUME NEW j \in i..Len(c2s')
            PROVE  j + 1 \in (i + 1)..Len(c2s) /\ c2s'[j] = c2s[j + 1]
        BY <4>1, i \in Nat DEF Quita
      <4>. QED  BY <4>2, <4>3 DEF NombreIda
    <3>2. path' # 0 /\ Esperada' # 0
      BY <1>3, <2>1, PedidoEfecto
    <3>. QED  BY <1>0, <3>1, <3>2 DEF NombreIda
  <2>4. NombreVuelta'
    BY <1>3, <2>1, PedidoEfecto DEF NombreVuelta, Agrega
  <2>. QED  BY <1>3, <2>2, <2>3, <2>4, PedidoEfecto
<1>4. CASE ResumenSinArchivo
  BY <1>4, SinArchivoEfecto DEF NombreIda, Quita
<1>5. CASE RecibirFueraDeSecuencia
  BY <1>5, FueraEfecto DEF NombreIda, Quita, Control
<1>6. CASE RecibirDatos
  BY <1>6, DatosGrilla DEF NombreIda, Quita, Control
<1>7. CASE TramaAjena
  BY <1>0, <1>7, AjenaEfecto
  DEF NombreServidor, NombreIda, NombreVuelta, Esperada
<1>8. CASE TimeoutServidor
  <2>1. NombreServidor' /\ NombreIda'
    BY <1>0, <1>8, TimeoutEfecto DEF NombreServidor, NombreIda, Esperada
  <2>2. Esperada' = Esperada /\ Esperada \in {FD, 0} /\ grilla' = grilla
    BY <1>8, TimeoutEfecto DEF NombreServidor, Esperada
  <2>3. Esperada = 0 => grilla = GrillaVacia
    BY DEF NombreServidor
  <2>4. Agrega(s2c, s2c', AckDe(Esperada))
    BY <1>8, TimeoutEfecto
  <2>5. NombreVuelta'
    BY <2>2, <2>3, <2>4 DEF NombreVuelta, Agrega
  <2>. QED  BY <1>8, <2>1, <2>5, TimeoutEfecto
<1>. QED
  BY <1>1, <1>2, <1>3, <1>4, <1>5, <1>6, <1>7, <1>8 DEF ServerNext, RecibirTrama

\* While a window is sent and the server is receiving that window.
LEMMA ServidorAlDia ==
    ASSUME TipoInv, activo, filefd, path = archivo, DatosVuelta, AlDia,
           ServerNext, UNCHANGED clientVars
    PROVE  /\ filefd' /\ path' = archivo' /\ activo'
           /\ DatosVuelta' /\ AlDia'
<1>. USE Codigos, AckCampos
<1>0. /\ Enviada' = Enviada /\ archivo' = archivo
      /\ Enviada \in Inicios /\ Enviada \in Nat
      /\ Enviada # FF /\ Enviada # FE /\ Enviada # FD
  <2>1. Enviada \in Inicios
    BY VentanaEsInicio DEF TipoInv, TypeOK, ClientTypeOK, Enviada
  <2>. QED  BY <2>1, InicioSinControl DEF clientVars, tramoVars, Enviada
<1>a. \A i \in 1..Len(c2s) : c2s[i].nro = FF \/ c2s[i].nro \in Tramo(Enviada)
  BY DEF AlDia, AlDiaIda
<1>b. \A n \in Tramo(Enviada) : n # FF /\ n # FE /\ n # FD /\ n \notin Control
  BY <1>0, TramoSinControl
<1>1. CASE RecibirNombre
  <2>1. /\ Quita(c2s, c2s') /\ c2s[1].nro = FF /\ path' = c2s[1].archivo
        /\ filefd' /\ grilla' = GrillaVacia /\ Esperada' = 0
        /\ Agrega(s2c, s2c', AckDe(FF))
        /\ activo' /\ ack_completo' = ack_completo
    BY <1>1, NombreEfecto
  <2>2. /\ Enviada = 0 /\ grilla = GrillaVacia
        /\ c2s[1].archivo = archivo
    <3>1. 1 \in 1..Len(c2s)
      BY <2>1 DEF Quita
    <3>. QED  BY <1>b, <2>1, <3>1 DEF AlDia, AlDiaIda
  <2>3. DatosVuelta'
    BY <2>1 DEF DatosVuelta, Agrega
  <2>4. AlDiaIda'
    <3>1. ASSUME NEW i \in 1..Len(c2s'), c2s'[i].nro \notin Tramo(Enviada)
          PROVE  /\ c2s'[i].nro = FF
                 /\ c2s'[i].archivo = archivo
                 /\ \A j \in 1..i : c2s'[j].nro = FF
      <4>1. i + 1 \in 1..Len(c2s) /\ c2s'[i] = c2s[i + 1]
        BY <2>1 DEF Quita
      <4>2. ASSUME NEW j \in 1..i
            PROVE  j + 1 \in 1..(i + 1) /\ c2s'[j] = c2s[j + 1]
        BY <2>1, i \in Nat DEF Quita
      <4>3. /\ c2s[i + 1].nro = FF
            /\ c2s[i + 1].archivo = archivo
            /\ \A j \in 1..(i + 1) : c2s[j].nro = FF
        BY <3>1, <4>1 DEF AlDia, AlDiaIda
      <4>4. ASSUME NEW j \in 1..i
            PROVE  c2s'[j].nro = FF
        BY <4>2, <4>3
      <4>. QED  BY <4>1, <4>3, <4>4
    <3>. QED  BY <1>0, <2>1, <2>2, <3>1 DEF AlDiaIda
  <2>5. AlDiaVuelta'
    <3>1. \A k \in 1..Len(s2c) :
             s2c[k].nro = Enviada => s2c[k].grilla = GrillaVacia
      BY <2>2 DEF AlDia, AlDiaVuelta
    <3>. QED  BY <1>0, <2>1, <3>1 DEF AlDiaVuelta, Agrega
  <2>. QED  BY <1>0, <2>1, <2>2, <2>3, <2>4, <2>5 DEF AlDia
<1>2. CASE RecibirFin
  BY <1>2, <1>a, <1>b, FinEfecto DEF Quita
<1>3. CASE RecibirPedidoResumen
  BY <1>3, <1>a, <1>b, PedidoEfecto DEF Quita
<1>4. CASE ResumenSinArchivo
  BY <1>4, <1>a, <1>b, SinArchivoEfecto DEF Quita
<1>c. \/ RecibirFueraDeSecuencia \/ RecibirDatos
      => /\ ~ Avanza /\ Esperada = Enviada
         /\ \A i \in 1..Len(c2s) : c2s[i].nro \in Tramo(Enviada)
  <2>1. SUFFICES ASSUME RecibirFueraDeSecuencia \/ RecibirDatos
                 PROVE  /\ ~ Avanza /\ Esperada = Enviada
                        /\ \A i \in 1..Len(c2s) : c2s[i].nro \in Tramo(Enviada)
    OBVIOUS
  <2>2. Quita(c2s, c2s') /\ trama = c2s[1] /\ trama.nro # FF
    BY <2>1, FueraEfecto, DatosGrilla DEF Control
  <2>3. 1 \in 1..Len(c2s)
    BY <2>2 DEF Quita
  <2>4. \A i \in 1..Len(c2s) : c2s[i].nro \in Tramo(Enviada)
    BY <2>2, <2>3 DEF AlDia, AlDiaIda
  <2>. QED  BY <1>0, <2>2, <2>3, <2>4, TramoNoAvanza DEF AlDia
<1>5. CASE RecibirFueraDeSecuencia
  BY <1>5, <1>c, FueraEfecto
<1>6. CASE RecibirDatos
  <2>1. /\ ~ Avanza /\ Esperada = Enviada /\ Esperada' = Esperada
        /\ \A i \in 1..Len(c2s) : c2s[i].nro \in Tramo(Enviada)
    BY <1>6, <1>c, DatosDeLaVentana
  <2>2. /\ filefd' /\ path' = archivo' /\ activo'
        /\ grilla' # GrillaVacia
        /\ grilla' = GrillaLlena => ack_completo'
        /\ ack_completo => ack_completo'
        /\ Quita(c2s, c2s')
        /\ Agrega(s2c, s2c', AckDe(Enviada))
    <3>1. nro_secuencia_anterior' = Enviada
      BY <2>1 DEF Esperada
    <3>. QED  BY <1>0, <1>6, <2>1, <3>1, DatosGrilla
  <2>3. DatosVuelta'
    BY <1>0, <2>2 DEF DatosVuelta, Agrega
  <2>4. AlDiaIda'
    BY <1>0, <2>1, <2>2 DEF AlDiaIda, Quita
  <2>5. AlDiaVuelta'
    BY <1>0, <2>2 DEF AlDia, AlDiaVuelta, Agrega
  <2>. QED  BY <1>0, <2>1, <2>2, <2>3, <2>4, <2>5 DEF AlDia
<1>7. CASE TramaAjena
  BY <1>0, <1>7, AjenaEfecto
  DEF DatosVuelta, AlDia, AlDiaIda, AlDiaVuelta, Esperada
<1>8. CASE TimeoutServidor
  <2>1. /\ UNCHANGED <<c2s, grilla, ack_completo, filefd, path, activo>>
        /\ Esperada' = Esperada /\ Esperada = Enviada
        /\ Agrega(s2c, s2c', AckDe(Enviada))
        /\ grilla = GrillaLlena => ack_completo
    BY <1>8, TimeoutEfecto DEF Esperada, AlDia
  <2>2. DatosVuelta'
    BY <1>0, <2>1 DEF DatosVuelta, Agrega
  <2>3. AlDiaIda'
    BY <1>0, <2>1 DEF AlDia, AlDiaIda
  <2>4. AlDiaVuelta'
    BY <1>0, <2>1 DEF AlDia, AlDiaVuelta, Agrega
  <2>. QED  BY <1>0, <2>1, <2>2, <2>3, <2>4 DEF AlDia
<1>. QED
  BY <1>1, <1>2, <1>3, <1>4, <1>5, <1>6, <1>7, <1>8 DEF ServerNext, RecibirTrama

\* While the server is one window behind.
LEMMA ServidorAtras ==
    ASSUME TipoInv, activo, filefd, path = archivo, DatosVuelta, Atras,
           ServerNext, UNCHANGED clientVars
    PROVE  /\ filefd' /\ path' = archivo' /\ activo'
           /\ DatosVuelta' /\ (AlDia' \/ Atras')
<1>. USE Codigos, AckCampos
<1>0. /\ Enviada' = Enviada /\ archivo' = archivo /\ cpc' = cpc /\ leido' = leido
      /\ Enviada \in Inicios /\ Esperada \in Inicios
      /\ Enviada = ProximaServidor(Esperada) /\ Enviada # Esperada
      /\ Esperada # FF /\ Esperada # FE /\ Esperada # FD
      /\ Enviada # FE /\ Enviada # FD
  <2>1. Enviada \in Inicios
    BY VentanaEsInicio DEF TipoInv, TypeOK, ClientTypeOK, Enviada
  <2>2. Esperada \in Inicios /\ Enviada = ProximaServidor(Esperada)
    BY DEF Atras, Inicios
  <2>3. UNCHANGED <<cpc, archivo, leido, nro_secuencia_enviado>>
    BY DEF clientVars, tramoVars
  <2>. QED  BY <2>1, <2>2, <2>3, InicioSinControl, MismaProxima DEF Enviada
<1>a. \A i \in 1..Len(c2s) : c2s[i].nro \in Tramo(Esperada) \/ c2s[i].nro \in Tramo(Enviada)
  BY DEF Atras, AtrasIda
<1>b. \A n \in Tramo(Enviada) \cup Tramo(Esperada) :
         n # FF /\ n # FE /\ n # FD /\ n \notin Control
  BY <1>0, TramoSinControl
<1>1. CASE RecibirNombre
  BY <1>1, <1>a, <1>b, NombreEfecto DEF Quita
<1>2. CASE RecibirFin
  BY <1>2, <1>a, <1>b, FinEfecto DEF Quita
<1>3. CASE RecibirPedidoResumen
  BY <1>3, <1>a, <1>b, PedidoEfecto DEF Quita
<1>4. CASE ResumenSinArchivo
  BY <1>4, <1>a, <1>b, SinArchivoEfecto DEF Quita
<1>c. ASSUME Quita(c2s, c2s'), trama = c2s[1], Avanza
      PROVE  /\ ack_completo
             /\ \A i \in 1..Len(c2s) : c2s[i].nro \in Tramo(Enviada)
  <2>1. 1 \in 1..Len(c2s)
    BY <1>c DEF Quita
  <2>2. c2s[1].nro \notin Tramo(Esperada)
    BY <1>0, <1>c, TramoNoAvanza
  <2>. QED  BY <2>1, <2>2 DEF Atras, AtrasIda
<1>d. ASSUME Quita(c2s, c2s'), trama = c2s[1], ~ Avanza
      PROVE  c2s[1].nro \in Tramo(Esperada)
  <2>1. 1 \in 1..Len(c2s)
    BY <1>d DEF Quita
  <2>. QED  BY <1>0, <1>a, <1>d, <2>1, TramoAvanza
<1>5. CASE RecibirFueraDeSecuencia
  BY <1>5, <1>c, FueraEfecto
<1>6. CASE RecibirDatos
  <2>1. /\ filefd' /\ path' = archivo' /\ activo'
        /\ grilla' # GrillaVacia
        /\ grilla' = GrillaLlena => ack_completo'
        /\ ack_completo /\ ~ Avanza => ack_completo'
        /\ Quita(c2s, c2s') /\ trama = c2s[1]
        /\ Agrega(s2c, s2c', AckDe(Esperada'))
    BY <1>0, <1>6, DatosGrilla DEF Esperada
  <2>2. CASE Avanza
    <3>1. Esperada' = Enviada
      BY <1>0, <1>6, <2>2, DatosDeLaSiguiente
    <3>2. \A i \in 1..Len(c2s) : c2s[i].nro \in Tramo(Enviada)
      BY <1>c, <2>1, <2>2
    <3>3. DatosVuelta'
      BY <1>0, <2>1, <3>1 DEF DatosVuelta, Agrega
    <3>4. AlDiaIda'
      BY <1>0, <2>1, <3>2 DEF AlDiaIda, Quita
    <3>5. AlDiaVuelta'
      BY <1>0, <2>1, <3>1 DEF Atras, AtrasVuelta, AlDiaVuelta, Agrega
    <3>. QED  BY <1>0, <2>1, <3>1, <3>3, <3>4, <3>5 DEF AlDia
  <2>3. CASE ~ Avanza
    <3>1. Esperada' = Esperada
      BY <1>6, <2>3, DatosDeLaVentana
    <3>2. DatosVuelta'
      BY <1>0, <2>1, <3>1 DEF DatosVuelta, Agrega
    <3>3. AtrasIda'
      <4>1. ASSUME NEW i \in 1..Len(c2s'), c2s'[i].nro \notin Tramo(Esperada)
            PROVE  /\ c2s'[i].nro \in Tramo(Enviada)
                   /\ cpc # "leer"
                   /\ \A j \in i..Len(c2s') : c2s'[j].nro \in Tramo(Enviada)
        <5>1. i + 1 \in 1..Len(c2s) /\ c2s'[i] = c2s[i + 1]
          BY <2>1 DEF Quita
        <5>2. ASSUME NEW j \in i..Len(c2s')
              PROVE  j + 1 \in (i + 1)..Len(c2s) /\ c2s'[j] = c2s[j + 1]
          BY <2>1, i \in Nat DEF Quita
        <5>. QED  BY <4>1, <5>1, <5>2 DEF Atras, AtrasIda
      <4>. QED  BY <1>0, <3>1, <4>1 DEF AtrasIda
    <3>4. AtrasVuelta'
      BY <1>0, <2>1, <3>1 DEF Atras, AtrasVuelta, Agrega
    <3>5. Atras'
      BY <1>0, <2>1, <2>3, <3>1, <3>3, <3>4 DEF Atras
    <3>. QED  BY <2>1, <3>2, <3>5
  <2>. QED  BY <2>2, <2>3
<1>7. CASE TramaAjena
  BY <1>0, <1>7, AjenaEfecto
  DEF DatosVuelta, Atras, AtrasIda, AtrasVuelta, Esperada
<1>8. CASE TimeoutServidor
  <2>1. /\ UNCHANGED <<c2s, grilla, ack_completo, filefd, path, activo>>
        /\ Esperada' = Esperada
        /\ Agrega(s2c, s2c', AckDe(Esperada))
    BY <1>8, TimeoutEfecto DEF Esperada
  <2>2. DatosVuelta'
    BY <1>0, <2>1 DEF DatosVuelta, Agrega
  <2>3. AtrasIda'
    BY <1>0, <2>1 DEF Atras, AtrasIda
  <2>4. AtrasVuelta'
    BY <1>0, <2>1 DEF Atras, AtrasVuelta, Agrega
  <2>5. Atras'
    BY <1>0, <2>1, <2>3, <2>4 DEF Atras
  <2>. QED  BY <1>0, <2>1, <2>2, <2>5
<1>. QED
  BY <1>1, <1>2, <1>3, <1>4, <1>5, <1>6, <1>7, <1>8 DEF ServerNext, RecibirTrama

\* While the client ends the transmission.
LEMMA ServidorFin ==
    ASSUME TipoInv, activo, FinServidor, FinIda, FinVuelta,
           ServerNext, UNCHANGED clientVars
    PROVE  FinServidor' /\ FinIda' /\ FinVuelta' /\ activo'
<1>. USE Codigos, AckCampos
<1>0. cpc' = cpc /\ 0 \in Inicios
  BY DEF clientVars, Inicios
<1>a. ASSUME Quita(c2s, c2s')
      PROVE  /\ 1 \in 1..Len(c2s) /\ c2s # <<>>
             /\ Esperada \in Inicios
             /\ Esperada # FE /\ Esperada # FF /\ Esperada # FD
             /\ \A n \in Tramo(Esperada) :
                  n # FF /\ n # FE /\ n # FD /\ n \notin Control
             /\ \A k \in 1..Len(s2c) : s2c[k].nro # FE
  <2>1. 1 \in 1..Len(c2s)
    BY <1>a DEF Quita
  <2>2. c2s # <<>>
    BY <2>1
  <2>3. Esperada \in Inicios
    BY <2>2 DEF FinServidor, Inicios
  <2>. QED  BY <2>1, <2>2, <2>3, TramoSinControl, InicioSinControl DEF FinVuelta
<1>b. ASSUME Quita(c2s, c2s'), Esperada' = Esperada
      PROVE  FinIda'
  <2>1. \A i \in 1..Len(c2s') : /\ i + 1 \in 1..Len(c2s)
                                /\ c2s'[i] = c2s[i + 1]
                                /\ i + 1 = Len(c2s) => i = Len(c2s')
    BY <1>b DEF Quita
  <2>. QED  BY <1>0, <1>b, <2>1 DEF FinIda
<1>c. ASSUME Esperada' = Esperada, Esperada # FD,
             \A k \in 1..Len(s2c) : s2c[k].nro = FE => Esperada = FE,
             NEW n, n # FD, n = FE => Esperada = FE, Esperada = FE => n = FE,
             Agrega(s2c, s2c', AckDe(n))
      PROVE  FinVuelta'
  BY <1>c DEF FinVuelta, Agrega
<1>1. CASE RecibirNombre
  <2>1. /\ Quita(c2s, c2s') /\ trama = c2s[1] /\ trama.nro = FF
        /\ path' # 0 /\ Esperada' = 0 /\ activo'
        /\ Agrega(s2c, s2c', AckDe(FF))
    BY <1>1, NombreEfecto
  <2>2. Esperada = 0
    BY <2>1, <1>a DEF FinIda
  <2>. QED  BY <1>0, <1>a, <1>b, <1>c, <2>1, <2>2 DEF FinServidor, Inicios
<1>2. CASE RecibirFin
  <2>1. /\ Quita(c2s, c2s') /\ trama = c2s[1] /\ trama.nro = FE
        /\ path' = path /\ Esperada' = FE /\ activo'
        /\ Agrega(s2c, s2c', AckDe(FE))
    BY <1>2, FinEfecto
  <2>2. 1 = Len(c2s) /\ cpc = "esperar"
    <3>1. c2s[1].nro # FF /\ c2s[1].nro \notin Tramo(Esperada) /\ 1 \in 1..Len(c2s)
      BY <2>1, <1>a
    <3>2. \/ c2s[1].nro = FF
          \/ c2s[1].nro \in Tramo(Esperada)
          \/ 1 = Len(c2s) /\ cpc = "esperar"
      <4>1. \A i \in 1..Len(c2s) :
               \/ c2s[i].nro = FF /\ Esperada = 0
               \/ c2s[i].nro \in Tramo(Esperada)
               \/ c2s[i].nro = FE /\ i = Len(c2s) /\ cpc = "esperar"
        BY DEF FinIda
      <4>2. 1 \in 1..Len(c2s)
        BY <3>1
      <4>3. \/ c2s[1].nro = FF /\ Esperada = 0
            \/ c2s[1].nro \in Tramo(Esperada)
            \/ c2s[1].nro = FE /\ 1 = Len(c2s) /\ cpc = "esperar"
        BY <4>1, <4>2
      <4>. QED  BY <4>3
    <3>. QED  BY <3>1, <3>2
  <2>3. c2s' = <<>> /\ Len(c2s') = 0
    <3>1. c2s' \in Seq(TramaCliente)
      BY ServidorTipo DEF TipoInv, TypeOK, LinkTypeOK
    <3>2. Len(c2s') = 0
      BY <2>1, <2>2 DEF Quita
    <3>. QED  BY <3>1, <3>2, EmptySeq
  <2>4. FinServidor'
    BY <1>0, <2>1, <2>2, <2>3 DEF FinServidor
  <2>5. FinIda'
    BY <2>3 DEF FinIda
  <2>6. FinVuelta'
    BY <2>1, <1>a DEF FinVuelta, Agrega
  <2>. QED  BY <2>1, <2>4, <2>5, <2>6
<1>3. CASE RecibirPedidoResumen
  BY <1>3, <1>a, PedidoEfecto DEF FinIda
<1>4. CASE ResumenSinArchivo
  BY <1>4, <1>a, SinArchivoEfecto DEF FinIda
<1>d. ASSUME Quita(c2s, c2s'), trama = c2s[1], trama.nro \notin Control
      PROVE  ~ Avanza
  <2>1. trama.nro \in Tramo(Esperada)
    BY <1>a, <1>d DEF FinIda, Control
  <2>. QED  BY <1>a, <1>d, <2>1, TramoNoAvanza
<1>5. CASE RecibirFueraDeSecuencia
  BY <1>5, <1>d, FueraEfecto
<1>6. CASE RecibirDatos
  <2>1. /\ Quita(c2s, c2s') /\ ~ Avanza /\ path' = path /\ activo'
    BY <1>6, <1>d, DatosGrilla
  <2>2. Esperada' = Esperada
    BY <1>6, <2>1, DatosDeLaVentana
  <2>3. Agrega(s2c, s2c', AckDe(Esperada))
    <3>1. nro_secuencia_anterior' = Esperada
      BY <2>2 DEF Esperada
    <3>. QED  BY <1>6, <3>1, DatosGrilla
  <2>. QED  BY <1>0, <1>a, <1>b, <1>c, <2>1, <2>2, <2>3 DEF FinServidor, Inicios
<1>7. CASE TramaAjena
  BY <1>0, <1>7, AjenaEfecto DEF FinServidor, FinIda, FinVuelta, Esperada
<1>8. CASE TimeoutServidor
  <2>1. /\ UNCHANGED <<c2s, path, activo>>
        /\ Esperada' = Esperada
        /\ Agrega(s2c, s2c', AckDe(Esperada))
    BY <1>8, TimeoutEfecto DEF Esperada
  <2>2. FinServidor' /\ FinIda'
    BY <1>0, <2>1 DEF FinServidor, FinIda
  <2>3. Esperada # FD
    BY InicioSinControl DEF FinServidor, Inicios
  <2>. QED  BY <1>c, <2>1, <2>2, <2>3 DEF FinVuelta
<1>. QED
  BY <1>1, <1>2, <1>3, <1>4, <1>5, <1>6, <1>7, <1>8 DEF ServerNext, RecibirTrama

\* While the client compares the digests, and after.
LEMMA ServidorResumen ==
    ASSUME TipoInv, activo, path # 0, Esperada \in {FE, FD}, ResumenIda,
           ResumenVuelta, ServerNext, UNCHANGED clientVars
    PROVE  path' # 0 /\ Esperada' \in {FE, FD} /\ ResumenIda' /\ ResumenVuelta' /\ activo'
<1>. USE Codigos, AckCampos
<1>a. ASSUME Quita(c2s, c2s')
      PROVE  c2s[1].nro = FD /\ ResumenIda'
  BY <1>a DEF ResumenIda, Quita
<1>1. CASE RecibirNombre
  BY <1>1, <1>a, NombreEfecto
<1>2. CASE RecibirFin
  BY <1>2, <1>a, FinEfecto
<1>3. CASE RecibirPedidoResumen
  <2>1. /\ ResumenIda' /\ path' = path /\ Esperada' = FD /\ activo'
        /\ Agrega(s2c, s2c', AckDe(FD))
    BY <1>3, <1>a, PedidoEfecto
  <2>. QED  BY <2>1 DEF ResumenVuelta, Agrega
<1>4. CASE ResumenSinArchivo
  BY <1>4, SinArchivoEfecto
<1>5. CASE RecibirFueraDeSecuencia
  BY <1>5, <1>a, FueraEfecto DEF Control
<1>6. CASE RecibirDatos
  BY <1>6, <1>a, DatosGrilla DEF Control
<1>7. CASE TramaAjena
  BY <1>7, AjenaEfecto DEF ResumenIda, ResumenVuelta, Esperada
<1>8. CASE TimeoutServidor
  <2>1. /\ UNCHANGED <<c2s, path, activo>>
        /\ Esperada' = Esperada
        /\ Agrega(s2c, s2c', AckDe(Esperada))
    BY <1>8, TimeoutEfecto DEF Esperada
  <2>. QED  BY <2>1 DEF ResumenIda, ResumenVuelta, Agrega
<1>. QED
  BY <1>1, <1>2, <1>3, <1>4, <1>5, <1>6, <1>7, <1>8 DEF ServerNext, RecibirTrama

\* When Esperada is the code 0xFD nothing but its ACKs is sent any more.
LEMMA ServidorExit ==
    ASSUME TipoInv, activo, path # 0, Esperada = FD, ResumenIda,
           \A k \in 1..Len(s2c) : s2c[k].nro = FD,
           ServerNext, UNCHANGED clientVars
    PROVE  /\ path' # 0 /\ Esperada' = FD /\ ResumenIda' /\ activo'
           /\ \A k \in 1..Len(s2c') : s2c'[k].nro = FD
<1>. USE Codigos, AckCampos
<1>a. ASSUME Quita(c2s, c2s')
      PROVE  c2s[1].nro = FD /\ ResumenIda'
  BY <1>a DEF ResumenIda, Quita
<1>1. CASE RecibirNombre
  BY <1>1, <1>a, NombreEfecto
<1>2. CASE RecibirFin
  BY <1>2, <1>a, FinEfecto
<1>3. CASE RecibirPedidoResumen
  <2>1. /\ ResumenIda' /\ path' = path /\ Esperada' = FD /\ activo'
        /\ Agrega(s2c, s2c', AckDe(FD))
    BY <1>3, <1>a, PedidoEfecto
  <2>. QED  BY <2>1 DEF Agrega
<1>4. CASE ResumenSinArchivo
  BY <1>4, SinArchivoEfecto
<1>5. CASE RecibirFueraDeSecuencia
  BY <1>5, <1>a, FueraEfecto DEF Control
<1>6. CASE RecibirDatos
  BY <1>6, <1>a, DatosGrilla DEF Control
<1>7. CASE TramaAjena
  BY <1>7, AjenaEfecto DEF ResumenIda, Esperada
<1>8. CASE TimeoutServidor
  <2>1. /\ UNCHANGED <<c2s, path, activo>>
        /\ Esperada' = Esperada
        /\ Agrega(s2c, s2c', AckDe(FD))
    BY <1>8, TimeoutEfecto DEF Esperada
  <2>. QED  BY <2>1 DEF ResumenIda, Agrega
<1>. QED
  BY <1>1, <1>2, <1>3, <1>4, <1>5, <1>6, <1>7, <1>8 DEF ServerNext, RecibirTrama

\* A step of the server keeps the order.
LEMMA ServidorOrden ==
    ASSUME TipoInv, OrdenEnElCable, ServerNext, UNCHANGED clientVars
    PROVE  OrdenEnElCable'
<1>. USE DEF OrdenEnElCable
<1>1. /\ cpc' = cpc /\ esperado' = esperado
      /\ EnNombre' = EnNombre /\ EnDatos' = EnDatos /\ EnFin' = EnFin
      /\ EnResumen' = EnResumen
  BY DEF clientVars, EnNombre, EnDatos, Enviando, EnFin, EnResumen
<1>2. InvCliente'
  BY ServidorTipo DEF TipoInv
<1>3. InvNombre' /\ (EnNombre => activo')
  BY <1>1, ServidorNombre DEF InvNombre
<1>4. InvDatos' /\ (EnDatos => activo')
  BY <1>1, ServidorAlDia, ServidorAtras DEF InvDatos
<1>5. InvFin' /\ (EnFin => activo')
  BY <1>1, ServidorFin DEF InvFin
<1>6. InvResumen' /\ (EnResumen => activo')
  BY <1>1, ServidorResumen DEF InvResumen
<1>7. InvExit' /\ (cpc = "exit" => activo')
  BY <1>1, ServidorExit DEF InvExit
<1>8. EnNombre \/ EnDatos \/ EnFin \/ EnResumen \/ cpc = "exit"
  BY DEF TipoInv, TypeOK, ClientTypeOK, Etapas, EnNombre, EnDatos, Enviando, EnFin, EnResumen
<1>. QED  BY <1>2, <1>3, <1>4, <1>5, <1>6, <1>7, <1>8

----------------------------------------------------------------------------
(* Steps of the client *)

\* The phase that a step leads to is all that is left to show: the client is
\* in one phase at a time.
LEMMA DestinoNombre ==
    ASSUME EnNombre', NombreServidor', NombreIda', NombreVuelta', InvCliente', activo'
    PROVE  OrdenEnElCable'
<1>1. ~ EnDatos' /\ ~ EnFin' /\ ~ EnResumen' /\ cpc' # "exit"
  BY VentanaNoEsControl DEF EnNombre, EnDatos, Enviando, EnFin, EnResumen
<1>. QED  BY <1>1 DEF OrdenEnElCable, InvNombre, InvDatos, InvFin, InvResumen, InvExit

\* The same for a step that leads to the sending of windows.
LEMMA DestinoDatos ==
    ASSUME EnDatos', filefd', path' = archivo', DatosVuelta', AlDia' \/ Atras',
           InvCliente', activo'
    PROVE  OrdenEnElCable'
<1>1. ~ EnNombre' /\ ~ EnFin' /\ ~ EnResumen' /\ cpc' # "exit"
  BY VentanaNoEsControl DEF EnNombre, EnDatos, Enviando, EnFin, EnResumen
<1>. QED  BY <1>1 DEF OrdenEnElCable, InvNombre, InvDatos, InvFin, InvResumen, InvExit

\* The same for a step that leads to the wait for ACK 0xFE.
LEMMA DestinoFin ==
    ASSUME EnFin', FinServidor', FinIda', FinVuelta', InvCliente', activo'
    PROVE  OrdenEnElCable'
<1>1. ~ EnNombre' /\ ~ EnDatos' /\ ~ EnResumen' /\ cpc' # "exit"
  BY VentanaNoEsControl DEF EnNombre, EnDatos, Enviando, EnFin, EnResumen
<1>. QED  BY <1>1 DEF OrdenEnElCable, InvNombre, InvDatos, InvFin, InvResumen, InvExit

\* The same for a step that leads to the comparison of the digests.
LEMMA DestinoResumen ==
    ASSUME EnResumen', path' # 0, Esperada' \in {FE, FD}, ResumenIda',
           ResumenVuelta', InvCliente', activo'
    PROVE  OrdenEnElCable'
<1>1. ~ EnNombre' /\ ~ EnDatos' /\ ~ EnFin' /\ cpc' # "exit"
  BY DEF EnNombre, EnDatos, Enviando, EnFin, EnResumen
<1>. QED  BY <1>1 DEF OrdenEnElCable, InvNombre, InvDatos, InvFin, InvResumen, InvExit

\* The same for the step that ends the client.
LEMMA DestinoExit ==
    ASSUME cpc' = "exit", path' # 0, Esperada' = FD, ResumenIda',
           \A k \in 1..Len(s2c') : s2c'[k].nro = FD, InvCliente', activo'
    PROVE  OrdenEnElCable'
<1>1. ~ EnNombre' /\ ~ EnDatos' /\ ~ EnFin' /\ ~ EnResumen'
  BY DEF EnNombre, EnDatos, Enviando, EnFin, EnResumen
<1>. QED  BY <1>1 DEF OrdenEnElCable, InvNombre, InvDatos, InvFin, InvResumen, InvExit

\* Taking the first frame away, read or lost, keeps the order of the rest.
LEMMA VueltaQuita ==
    ASSUME Quita(s2c, s2c'),
           UNCHANGED <<nro_secuencia_enviado, nro_secuencia_anterior, grilla, ack_completo>>
    PROVE  /\ NombreVuelta => NombreVuelta'
           /\ DatosVuelta => DatosVuelta'
           /\ AlDiaVuelta => AlDiaVuelta'
           /\ AtrasVuelta => AtrasVuelta'
           /\ FinVuelta => FinVuelta'
           /\ ResumenVuelta => ResumenVuelta'
<1>0. Enviada' = Enviada /\ Esperada' = Esperada
  BY DEF Enviada, Esperada
<1>1. \A k \in 1..Len(s2c') :
        /\ k + 1 \in 1..Len(s2c) /\ s2c'[k] = s2c[k + 1]
        /\ \A j \in k..Len(s2c') : j + 1 \in (k + 1)..Len(s2c) /\ s2c'[j] = s2c[j + 1]
  BY DEF Quita
<1>2. NombreVuelta => NombreVuelta'
  <2>1. ASSUME NombreVuelta, NEW k \in 1..Len(s2c')
        PROVE  /\ s2c'[k].nro \in {FD, FF, 0}
               /\ s2c'[k].nro = 0 => s2c'[k].grilla = GrillaVacia
               /\ s2c'[k].nro = FF =>
                    /\ Esperada = 0
                    /\ \A j \in k..Len(s2c') : s2c'[j].nro \in {FF, 0}
    <3>1. k + 1 \in 1..Len(s2c) /\ s2c'[k] = s2c[k + 1]
      BY <1>1
    <3>2. \A j \in k..Len(s2c') : j + 1 \in (k + 1)..Len(s2c) /\ s2c'[j] = s2c[j + 1]
      BY <1>1
    <3>. QED  BY <2>1, <3>1, <3>2 DEF NombreVuelta
  <2>. QED  BY <1>0, <2>1 DEF NombreVuelta
<1>3. DatosVuelta => DatosVuelta'
  BY <1>1 DEF DatosVuelta
<1>4. AlDiaVuelta => AlDiaVuelta'
  <2>1. ASSUME AlDiaVuelta, NEW k \in 1..Len(s2c')
        PROVE  s2c'[k].nro = Enviada /\ s2c'[k].grilla # GrillaVacia =>
                 /\ grilla # GrillaVacia
                 /\ s2c'[k].grilla = GrillaLlena => ack_completo
                 /\ \A j \in k..Len(s2c') : s2c'[j].nro = Enviada
    <3>1. k + 1 \in 1..Len(s2c) /\ s2c'[k] = s2c[k + 1]
      BY <1>1
    <3>2. \A j \in k..Len(s2c') : j + 1 \in (k + 1)..Len(s2c) /\ s2c'[j] = s2c[j + 1]
      BY <1>1
    <3>. QED  BY <2>1, <3>1, <3>2 DEF AlDiaVuelta
  <2>. QED  BY <1>0, <2>1 DEF AlDiaVuelta
<1>5. AtrasVuelta => AtrasVuelta'
  BY <1>0, <1>1 DEF AtrasVuelta
<1>6. FinVuelta => FinVuelta'
  <2>1. ASSUME FinVuelta, NEW k \in 1..Len(s2c')
        PROVE  /\ s2c'[k].nro # FD
               /\ s2c'[k].nro = FE =>
                    Esperada = FE /\ \A j \in k..Len(s2c') : s2c'[j].nro = FE
    <3>1. k + 1 \in 1..Len(s2c) /\ s2c'[k] = s2c[k + 1]
      BY <1>1
    <3>2. \A j \in k..Len(s2c') : j + 1 \in (k + 1)..Len(s2c) /\ s2c'[j] = s2c[j + 1]
      BY <1>1
    <3>. QED  BY <2>1, <3>1, <3>2 DEF FinVuelta
  <2>. QED  BY <1>0, <2>1 DEF FinVuelta
<1>7. ResumenVuelta => ResumenVuelta'
  <2>1. ASSUME ResumenVuelta, NEW k \in 1..Len(s2c')
        PROVE  /\ s2c'[k].nro \in {FE, FD}
               /\ s2c'[k].nro = FD =>
                    Esperada = FD /\ \A j \in k..Len(s2c') : s2c'[j].nro = FD
    <3>1. k + 1 \in 1..Len(s2c) /\ s2c'[k] = s2c[k + 1]
      BY <1>1
    <3>2. \A j \in k..Len(s2c') : j + 1 \in (k + 1)..Len(s2c) /\ s2c'[j] = s2c[j + 1]
      BY <1>1
    <3>. QED  BY <2>1, <3>1, <3>2 DEF ResumenVuelta
  <2>. QED  BY <1>0, <2>1 DEF ResumenVuelta
<1>. QED  BY <1>2, <1>3, <1>4, <1>5, <1>6, <1>7

\* The same for the frames to the server.
LEMMA IdaQuita ==
    ASSUME Quita(c2s, c2s'),
           UNCHANGED <<nro_secuencia_enviado, nro_secuencia_anterior, grilla,
                       archivo, path, cpc>>
    PROVE  /\ NombreIda => NombreIda'
           /\ AlDiaIda => AlDiaIda'
           /\ AtrasIda => AtrasIda'
           /\ FinIda => FinIda'
           /\ ResumenIda => ResumenIda'
<1>0. Enviada' = Enviada /\ Esperada' = Esperada
  BY DEF Enviada, Esperada
<1>1. \A i \in 1..Len(c2s') :
        /\ i + 1 \in 1..Len(c2s) /\ c2s'[i] = c2s[i + 1]
        /\ i + 1 = Len(c2s) => i = Len(c2s')
        /\ \A j \in i..Len(c2s') : j + 1 \in (i + 1)..Len(c2s) /\ c2s'[j] = c2s[j + 1]
        /\ \A j \in 1..i : j + 1 \in 1..(i + 1) /\ c2s'[j] = c2s[j + 1]
  BY DEF Quita
<1>2. NombreIda => NombreIda'
  <2>1. ASSUME NombreIda, NEW i \in 1..Len(c2s')
        PROVE  /\ path = 0 \/ Esperada = 0 => c2s'[i].nro = FF
               /\ c2s'[i].nro \in {FD, FF}
               /\ c2s'[i].nro = FF =>
                    /\ c2s'[i].archivo = archivo
                    /\ \A j \in i..Len(c2s') : c2s'[j].nro = FF
    <3>1. i + 1 \in 1..Len(c2s) /\ c2s'[i] = c2s[i + 1]
      BY <1>1
    <3>2. \A j \in i..Len(c2s') : j + 1 \in (i + 1)..Len(c2s) /\ c2s'[j] = c2s[j + 1]
      BY <1>1
    <3>3. /\ path = 0 \/ Esperada = 0 => c2s[i + 1].nro = FF
          /\ c2s[i + 1].nro \in {FD, FF}
      BY <2>1, <3>1 DEF NombreIda
    <3>4. c2s[i + 1].nro = FF =>
            /\ c2s[i + 1].archivo = archivo
            /\ \A j \in (i + 1)..Len(c2s) : c2s[j].nro = FF
      BY <2>1, <3>1 DEF NombreIda
    <3>. QED  BY <3>1, <3>2, <3>3, <3>4
  <2>. QED  BY <1>0, <2>1 DEF NombreIda
<1>3. AlDiaIda => AlDiaIda'
  <2>1. ASSUME AlDiaIda, NEW i \in 1..Len(c2s')
        PROVE  \/ /\ c2s'[i].nro = FF
                  /\ Enviada = 0
                  /\ grilla = GrillaVacia
                  /\ c2s'[i].archivo = archivo
                  /\ \A j \in 1..i : c2s'[j].nro = FF
               \/ c2s'[i].nro \in Tramo(Enviada)
    <3>1. i + 1 \in 1..Len(c2s) /\ c2s'[i] = c2s[i + 1]
      BY <1>1
    <3>2. \A j \in 1..i : j + 1 \in 1..(i + 1) /\ c2s'[j] = c2s[j + 1]
      BY <1>1
    <3>. QED  BY <2>1, <3>1, <3>2 DEF AlDiaIda
  <2>. QED  BY <1>0, <2>1 DEF AlDiaIda
<1>4. AtrasIda => AtrasIda'
  BY <1>0, <1>1 DEF AtrasIda
<1>5. FinIda => FinIda'
  BY <1>0, <1>1 DEF FinIda
<1>6. ResumenIda => ResumenIda'
  BY <1>1 DEF ResumenIda
<1>. QED  BY <1>2, <1>3, <1>4, <1>5, <1>6

\* A frame of the client goes behind the others.
LEMMA EnviarAgrega ==
    ASSUME TipoInv, NEW t, Enviar(t)
    PROVE  Agrega(c2s, c2s', t)
  BY EnviadoAgrega DEF Enviar, TipoInv, TypeOK, LinkTypeOK

\* The client reads the first frame of its queue.
LEMMA LeerQuita ==
    ASSUME TipoInv, Leer
    PROVE  Quita(s2c, s2c') /\ ack = s2c[1] /\ 1 \in 1..Len(s2c)
  BY TailQuita DEF Leer, ack, Quita, TipoInv, TypeOK, LinkTypeOK

\* The server does nothing in a step of the client.
LEMMA ServidorQuieto ==
    ASSUME UNCHANGED serverVars
    PROVE  /\ UNCHANGED <<nro_secuencia_anterior, grilla, ack_completo, filefd,
                          path, primer_paquete, activo>>
           /\ Esperada' = Esperada
  BY DEF serverVars, ventanaVars, archivoVars, Esperada

\* A chunk of the window is sent.
LEMMA EnvioDeDatos ==
    ASSUME TipoInv, OrdenEnElCable, UNCHANGED serverVars,
           cpc \in {"tramo", "ultimo", "huecos"}, EnDatos', cpc' # "leer",
           UNCHANGED <<s2c, archivo, nro_secuencia_enviado>>,
           NEW p \in Pos, NEW datos, Enviar(Datos(Enviada + p, datos)),
           InvCliente'
    PROVE  OrdenEnElCable'
<1>. DEFINE t == Datos(Enviada + p, datos)
<1>0. /\ EnDatos /\ Enviada' = Enviada /\ archivo' = archivo /\ s2c' = s2c
      /\ t.nro \in Tramo(Enviada)
  BY DEF EnDatos, Enviando, Enviada, Datos, Tramo, Pos, TipoInv, TypeOK, ClientTypeOK,
         Ventanas
<1>. HIDE DEF t
<1>1. Agrega(c2s, c2s', t)
  BY EnviarAgrega DEF t
<1>2. activo' /\ filefd' /\ path' = archivo' /\ DatosVuelta'
  BY <1>0, ServidorQuieto DEF OrdenEnElCable, InvDatos, DatosVuelta
<1>3. CASE AlDia
  <2>1. AlDiaVuelta' /\ Esperada' = Enviada' /\ (grilla' = GrillaLlena => ack_completo')
    BY <1>0, <1>3, ServidorQuieto DEF AlDia, AlDiaVuelta
  <2>2. AlDiaIda'
    <3>1. ASSUME NEW i \in 1..Len(c2s'), c2s'[i].nro \notin Tramo(Enviada)
          PROVE  /\ c2s'[i].nro = FF
                 /\ Enviada = 0
                 /\ grilla = GrillaVacia
                 /\ c2s'[i].archivo = archivo
                 /\ \A j \in 1..i : c2s'[j].nro = FF
      <4>1. i \in 1..Len(c2s) /\ c2s'[i] = c2s[i]
        BY <1>0, <1>1, <3>1 DEF Agrega
      <4>2. \A j \in 1..i : j \in 1..Len(c2s) /\ c2s'[j] = c2s[j]
        BY <1>1, <4>1 DEF Agrega
      <4>. QED  BY <1>3, <3>1, <4>1, <4>2 DEF AlDia, AlDiaIda
    <3>. QED  BY <1>0, <3>1, ServidorQuieto DEF AlDiaIda
  <2>. QED  BY <1>2, <2>1, <2>2, DestinoDatos DEF AlDia
<1>4. CASE Atras
  <2>1. AtrasVuelta' /\ Esperada' = Esperada /\ cpc # "leer"
    BY <1>0, <1>4, ServidorQuieto DEF Atras, AtrasVuelta
  <2>2. AtrasIda'
    <3>1. ASSUME NEW i \in 1..Len(c2s'), c2s'[i].nro \notin Tramo(Esperada)
          PROVE  /\ c2s'[i].nro \in Tramo(Enviada)
                 /\ \A j \in i..Len(c2s') : c2s'[j].nro \in Tramo(Enviada)
      <4>1. CASE i \in 1..Len(c2s) /\ c2s'[i] = c2s[i]
        <5>1. \A j \in i..Len(c2s) : c2s[j].nro \in Tramo(Enviada)
          BY <1>4, <3>1, <4>1 DEF Atras, AtrasIda
        <5>2. \A j \in i..Len(c2s') :
                  \/ j \in i..Len(c2s) /\ c2s'[j] = c2s[j]
                  \/ c2s'[j] = t
          BY <1>1, <4>1 DEF Agrega
        <5>. QED  BY <1>0, <4>1, <5>1, <5>2
      <4>2. CASE i = Len(c2s') /\ c2s'[i] = t
        BY <1>0, <1>1, <4>2 DEF Agrega
      <4>. QED  BY <1>1, <4>1, <4>2 DEF Agrega
    <3>. QED  BY <1>0, <2>1, <3>1 DEF AtrasIda
  <2>3. Atras'
    BY <1>0, <1>4, <2>1, <2>2, ServidorQuieto DEF Atras
  <2>. QED  BY <1>2, <2>3, DestinoDatos
<1>. QED  BY <1>0, <1>3, <1>4 DEF OrdenEnElCable, InvDatos

\* A wait goes on, or is given up: the client stays in its phase, and at most
\* a frame of the server is read.
LEMMA EsperaOrden ==
    ASSUME TipoInv, OrdenEnElCable, UNCHANGED serverVars, InvCliente',
           cpc = "esperar", UNCHANGED <<c2s, archivo, leido, nro_secuencia_enviado, esperado>>,
           s2c' = s2c \/ Quita(s2c, s2c'),
           esperado = FF => cpc' \in {"startOfTx", "esperar"},
           esperado = FE => cpc' = "esperar",
           esperado \in Ventanas => cpc' \in {"esperar", "ultimo", "tramo", "huecos"}
    PROVE  OrdenEnElCable'
<1>0. Enviada' = Enviada /\ Esperada' = Esperada
  BY ServidorQuieto DEF Enviada
<1>1. /\ NombreVuelta => NombreVuelta'
      /\ DatosVuelta => DatosVuelta'
      /\ AlDiaVuelta => AlDiaVuelta'
      /\ AtrasVuelta => AtrasVuelta'
      /\ FinVuelta => FinVuelta'
  <2>1. CASE Quita(s2c, s2c')
    BY <2>1, ServidorQuieto, VueltaQuita
  <2>2. CASE s2c' = s2c
    BY <1>0, <2>2, ServidorQuieto
    DEF NombreVuelta, DatosVuelta, AlDiaVuelta, AtrasVuelta, FinVuelta
  <2>. QED  BY <2>1, <2>2
<1>2. CASE esperado = FF
  <2>1. NombreServidor /\ NombreIda /\ NombreVuelta /\ activo
    BY <1>2 DEF OrdenEnElCable, InvNombre, EnNombre
  <2>2. NombreServidor' /\ NombreIda' /\ activo'
    BY <1>0, <2>1, ServidorQuieto DEF NombreServidor, NombreIda
  <2>3. EnNombre'
    BY <1>2 DEF EnNombre
  <2>. QED  BY <1>1, <2>1, <2>2, <2>3, DestinoNombre
<1>3. CASE esperado = FE
  <2>1. FinServidor /\ FinIda /\ FinVuelta /\ activo
    BY <1>3 DEF OrdenEnElCable, InvFin, EnFin
  <2>2. FinServidor' /\ FinIda' /\ activo'
    BY <1>0, <1>3, <2>1, ServidorQuieto DEF FinServidor, FinIda
  <2>3. EnFin'
    BY <1>3 DEF EnFin
  <2>. QED  BY <1>1, <2>1, <2>2, <2>3, DestinoFin
<1>4. CASE esperado \in Ventanas
  <2>1. filefd /\ path = archivo /\ DatosVuelta /\ (AlDia \/ Atras) /\ activo
    BY <1>4 DEF OrdenEnElCable, InvDatos, EnDatos, Enviando
  <2>2. EnDatos' /\ cpc' # "leer"
    BY <1>4 DEF EnDatos, Enviando
  <2>3. filefd' /\ path' = archivo' /\ activo'
    BY <2>1, ServidorQuieto
  <2>4. AlDia => AlDia'
    BY <1>0, <1>1, ServidorQuieto DEF AlDia, AlDiaIda
  <2>5. Atras => Atras'
    <3>1. AtrasIda => AtrasIda'
      BY <1>0, <2>2 DEF AtrasIda
    <3>. QED  BY <1>0, <1>1, <2>2, <3>1, ServidorQuieto DEF Atras
  <2>. QED  BY <1>1, <2>1, <2>2, <2>3, <2>4, <2>5, DestinoDatos
<1>. QED  BY <1>2, <1>3, <1>4 DEF TipoInv, TypeOK, ClientTypeOK

\* The ACK that was waited for moves the client to its next phase or window.
LEMMA AckEsperadoOrden ==
    ASSUME TipoInv, OrdenEnElCable, UNCHANGED serverVars, InvCliente', AckEsperado,
           nro_secuencia_enviado' \in Ventanas
    PROVE  OrdenEnElCable'
<1>0. /\ cpc = "esperar" /\ ack.nro = esperado
      /\ UNCHANGED <<c2s, archivo, leido, esperado>>
      /\ Quita(s2c, s2c') /\ ack = s2c[1] /\ 1 \in 1..Len(s2c)
      /\ activo' /\ activo
  BY LeerQuita, ServidorQuieto DEF AckEsperado, tramoVars, OrdenEnElCable
<1>q. \A k \in 1..Len(s2c') : k + 1 \in 1..Len(s2c) /\ s2c'[k] = s2c[k + 1]
  BY <1>0 DEF Quita
<1>1. CASE esperado = FF
  <2>1. NombreServidor /\ NombreIda /\ NombreVuelta
    BY <1>0, <1>1 DEF OrdenEnElCable, InvNombre, EnNombre
  <2>2. Esperada = 0 /\ \A k \in 1..Len(s2c) : s2c[k].nro \in {FF, 0}
    BY <1>0, <1>1, <2>1 DEF NombreVuelta
  <2>3. filefd /\ path = archivo /\ grilla = GrillaVacia
    BY <2>1, <2>2 DEF NombreServidor
  <2>4. cpc' = "leer" /\ Enviada' = 0
    BY <1>1, VentanaNoEsControl DEF AckEsperado, Enviada
  <2>5. DatosVuelta'
    BY <1>q, <2>2, Codigos DEF DatosVuelta
  <2>6. AlDiaIda'
    <3>1. \A i \in 1..Len(c2s) : c2s[i].nro = FF /\ c2s[i].archivo = archivo
      BY <2>1, <2>2 DEF NombreIda
    <3>2. \A i \in 1..Len(c2s) : \A j \in 1..i : j \in 1..Len(c2s)
      OBVIOUS
    <3>. QED  BY <1>0, <2>3, <2>4, <3>1, <3>2, ServidorQuieto DEF AlDiaIda
  <2>7. AlDiaVuelta'
    <3>1. \A k \in 1..Len(s2c) : s2c[k].nro = 0 => s2c[k].grilla = GrillaVacia
      BY <2>1 DEF NombreVuelta
    <3>. QED  BY <1>q, <2>4, <3>1 DEF AlDiaVuelta
  <2>8. AlDia'
    BY <2>2, <2>3, <2>4, <2>6, <2>7, ServidorQuieto, Codigos DEF AlDia
  <2>9. EnDatos'
    BY <2>4 DEF EnDatos
  <2>. QED  BY <1>0, <2>3, <2>5, <2>8, <2>9, ServidorQuieto, DestinoDatos
<1>2. CASE esperado = FE
  <2>1. FinServidor /\ FinIda /\ FinVuelta
    BY <1>0, <1>2 DEF OrdenEnElCable, InvFin, EnFin
  <2>2. Esperada = FE /\ \A k \in 1..Len(s2c) : s2c[k].nro = FE
    BY <1>0, <1>2, <2>1 DEF FinVuelta
  <2>3. path # 0 /\ c2s = <<>>
    BY <2>1, <2>2, InicioSinControl DEF FinServidor, Inicios
  <2>4. cpc' = "compareChecksum"
    BY <1>2 DEF AckEsperado
  <2>5. ResumenIda'
    BY <1>0, <2>3 DEF ResumenIda
  <2>6. ResumenVuelta'
    BY <1>q, <2>2, Codigos DEF ResumenVuelta
  <2>7. EnResumen'
    BY <2>4 DEF EnResumen
  <2>. QED  BY <1>0, <2>2, <2>3, <2>5, <2>6, <2>7, ServidorQuieto, DestinoResumen
<1>3. CASE esperado \in Ventanas
  <2>1. /\ filefd /\ path = archivo /\ DatosVuelta /\ (AlDia \/ Atras)
        /\ esperado = Enviada /\ cantidad_ack > 0
        /\ cantidad_ack = CANT_CHUNKS \/ leido = Largo[archivo]
        /\ Enviada \in Ventanas
    BY <1>0, <1>3 DEF OrdenEnElCable, InvDatos, EnDatos, Enviando, InvCliente,
                      TipoInv, TypeOK, ClientTypeOK
  <2>2. AlDia
    BY <1>0, <2>1 DEF Atras, AtrasVuelta
  <2>3. ack \in TramaServidor
    BY ColaTipo DEF AckEsperado, Leer, ack, TipoInv, TypeOK, LinkTypeOK
  <2>4. \A p \in 0..(cantidad_ack - 1) : ack.grilla[p] = LLENO
    BY <1>3 DEF AckEsperado, SinHuecos
  <2>5. ack.grilla # GrillaVacia
    <3>1. 0 \in 0..(cantidad_ack - 1) /\ 0 \in Pos
      BY <2>1 DEF Pos, TipoInv, TypeOK, ClientTypeOK
    <3>2. GrillaVacia[0] = VACIO /\ VACIO # LLENO
      BY <3>1 DEF GrillaVacia, VACIO, LLENO
    <3>. QED  BY <2>4, <3>1, <3>2
  <2>6. cantidad_ack = CANT_CHUNKS => ack.grilla = GrillaLlena
    BY <2>3, <2>4 DEF TramaServidor, GrillaLlena, Pos
  <2>7. /\ Esperada = Enviada /\ grilla # GrillaVacia
        /\ ack.grilla = GrillaLlena => ack_completo
        /\ \A k \in 1..Len(s2c) : s2c[k].nro = Enviada
    BY <1>0, <2>1, <2>2, <2>5 DEF AlDia, AlDiaVuelta
  <2>8. ack_completo \/ leido = Largo[archivo]
    BY <2>1, <2>6, <2>7
  <2>9. \A i \in 1..Len(c2s) : c2s[i].nro \in Tramo(Enviada)
    BY <2>2, <2>7 DEF AlDia, AlDiaIda
  <2>10. /\ cpc' = "leer" /\ nro_secuencia_enviado' = ProximaCliente(nro_secuencia_enviado)
         /\ Esperada' = Esperada
    BY <1>3, VentanaNoEsControl, ServidorQuieto DEF AckEsperado
  <2>11. Enviada' = ProximaServidor(Esperada) /\ Enviada' # Esperada /\ Esperada \in Inicios
    BY <2>1, <2>7, <2>10, VentanaEsInicio, MismaProxima DEF Enviada
  <2>12. DatosVuelta'
    BY <1>q, <2>1 DEF DatosVuelta
  <2>13. AtrasIda' /\ AtrasVuelta'
    BY <1>0, <1>q, <2>7, <2>9, <2>10, <2>11 DEF AtrasIda, AtrasVuelta
  <2>14. Atras'
    BY <1>0, <2>8, <2>10, <2>11, <2>13, ServidorQuieto DEF Atras, Inicios
  <2>15. EnDatos'
    BY <2>10 DEF EnDatos
  <2>. QED  BY <1>0, <2>1, <2>12, <2>14, <2>15, ServidorQuieto, DestinoDatos
<1>. QED  BY <1>1, <1>2, <1>3 DEF TipoInv, TypeOK, ClientTypeOK

\* A step of the client keeps the order.
LEMMA ClienteOrden ==
    ASSUME TipoInv, OrdenEnElCable, ClientNext, UNCHANGED serverVars
    PROVE  OrdenEnElCable'
<1>0. TipoInv' /\ InvCliente' /\ activo'
  BY ClienteTipo, ServidorQuieto DEF TipoInv, OrdenEnElCable
<1>1. CASE EnviarNombre
  <2>1. NombreServidor /\ NombreIda /\ NombreVuelta
    BY <1>1 DEF EnviarNombre, OrdenEnElCable, InvNombre, EnNombre
  <2>2. UNCHANGED <<s2c, archivo>> /\ EnNombre' /\ Esperada' = Esperada
    BY <1>1, ServidorQuieto DEF EnviarNombre, EnNombre
  <2>3. Agrega(c2s, c2s', Orden(FF, archivo))
    BY <1>1, EnviarAgrega DEF EnviarNombre
  <2>4. Orden(FF, archivo).nro = FF /\ Orden(FF, archivo).archivo = archivo
    BY DEF Orden
  <2>5. NombreServidor' /\ NombreVuelta'
    BY <2>1, <2>2, ServidorQuieto DEF NombreServidor, NombreVuelta
  <2>6. NombreIda'
    <3>1. ASSUME NEW i \in 1..Len(c2s')
          PROVE  /\ path = 0 \/ Esperada = 0 => c2s'[i].nro = FF
                 /\ c2s'[i].nro \in {FD, FF}
                 /\ c2s'[i].nro = FF =>
                      /\ c2s'[i].archivo = archivo
                      /\ \A j \in i..Len(c2s') : c2s'[j].nro = FF
      <4>1. CASE i \in 1..Len(c2s) /\ c2s'[i] = c2s[i]
        <5>1. /\ path = 0 \/ Esperada = 0 => c2s[i].nro = FF
              /\ c2s[i].nro \in {FD, FF}
          BY <2>1, <4>1 DEF NombreIda
        <5>2. c2s[i].nro = FF =>
                /\ c2s[i].archivo = archivo
                /\ \A j \in i..Len(c2s) : c2s[j].nro = FF
          BY <2>1, <4>1 DEF NombreIda
        <5>3. \A j \in i..Len(c2s') : \/ j \in i..Len(c2s) /\ c2s'[j] = c2s[j]
                                      \/ c2s'[j] = Orden(FF, archivo)
          BY <2>3, <4>1 DEF Agrega
        <5>. QED  BY <2>4, <4>1, <5>1, <5>2, <5>3
      <4>2. CASE i = Len(c2s') /\ c2s'[i] = Orden(FF, archivo)
        BY <2>3, <2>4, <4>2 DEF Agrega
      <4>. QED  BY <2>3, <4>1, <4>2 DEF Agrega
    <3>. QED  BY <2>2, <3>1, ServidorQuieto DEF NombreIda
  <2>. QED  BY <1>0, <2>2, <2>5, <2>6, DestinoNombre
<1>2. CASE LeerTramo
  <2>1. /\ cpc = "leer" /\ cpc' = "tramo" /\ leido # Largo[archivo]
        /\ UNCHANGED <<c2s, s2c, archivo, nro_secuencia_enviado>>
    BY <1>2 DEF LeerTramo, Menor, linkVars, TipoInv, TypeOK, ClientTypeOK
  <2>2. filefd /\ path = archivo /\ DatosVuelta /\ (AlDia \/ Atras)
    BY <2>1 DEF OrdenEnElCable, InvDatos, EnDatos
  <2>3. EnDatos' /\ Enviada' = Enviada /\ Esperada' = Esperada
    BY <2>1, ServidorQuieto DEF EnDatos, Enviando, Enviada
  <2>4. filefd' /\ path' = archivo' /\ DatosVuelta'
    BY <2>1, <2>2, ServidorQuieto DEF DatosVuelta
  <2>5. AlDia => AlDia'
    BY <2>1, <2>3, ServidorQuieto DEF AlDia, AlDiaIda, AlDiaVuelta
  <2>6. Atras => Atras'
    <3>1. AtrasIda => AtrasIda'
      BY <2>1, <2>3 DEF AtrasIda
    <3>2. AtrasVuelta => AtrasVuelta'
      BY <2>1, <2>3 DEF AtrasVuelta
    <3>. QED  BY <2>1, <2>3, <3>1, <3>2, ServidorQuieto DEF Atras
  <2>. QED  BY <1>0, <2>2, <2>3, <2>4, <2>5, <2>6, DestinoDatos
<1>3. CASE LeerFin
  <2>1. cpc = "leer" /\ cpc' = "endOfTx" /\ UNCHANGED <<c2s, s2c, archivo, nro_secuencia_enviado>>
    BY <1>3 DEF LeerFin, linkVars
  <2>2. filefd /\ path = archivo /\ DatosVuelta /\ (AlDia \/ Atras)
    BY <2>1 DEF OrdenEnElCable, InvDatos, EnDatos
  <2>3. EnFin' /\ Esperada' = Esperada /\ path' = path /\ path # 0
    BY <2>1, <2>2, ServidorQuieto DEF EnFin, TipoInv, TypeOK, ClientTypeOK
  <2>4. Esperada \in Inicios
    BY <2>2, VentanaEsInicio
    DEF AlDia, Atras, Inicios, Enviada, TipoInv, TypeOK, ClientTypeOK
  <2>5. \A i \in 1..Len(c2s) :
          (c2s[i].nro = FF /\ Esperada = 0) \/ c2s[i].nro \in Tramo(Esperada)
    BY <2>1, <2>2 DEF AlDia, AlDiaIda, Atras, AtrasIda
  <2>6. FinServidor'
    BY <2>3, <2>4 DEF FinServidor, Inicios
  <2>7. FinIda' /\ FinVuelta'
    BY <2>1, <2>2, <2>3, <2>5 DEF FinIda, FinVuelta, DatosVuelta
  <2>. QED  BY <1>0, <2>3, <2>6, <2>7, DestinoFin
<1>4. CASE EnviarChunk
  <2>. DEFINE datos == Porcion(buffer_read, cantidad_ack,
                               Menor(CHUNK, length_read - cantidad_ack * CHUNK))
  <2>1. /\ cpc = "tramo" /\ Enviar(Datos(Enviada + cantidad_ack, datos))
        /\ UNCHANGED <<s2c, archivo, nro_secuencia_enviado>>
    BY <1>4 DEF EnviarChunk, tramoVars, Enviada
  <2>2. cantidad_ack \in Pos
    BY <2>1 DEF OrdenEnElCable, InvCliente, Pos, TipoInv, TypeOK, ClientTypeOK
  <2>3. EnDatos' /\ cpc' # "leer"
    <3>1. \/ cpc' = cpc
          \/ cpc' = "esperar" /\ esperado' = nro_secuencia_enviado
      BY <1>4 DEF EnviarChunk
    <3>. QED  BY <2>1, <3>1 DEF EnDatos, Enviando, TipoInv, TypeOK, ClientTypeOK
  <2>. HIDE DEF datos
  <2>. QED  BY <1>0, <2>1, <2>2, <2>3, EnvioDeDatos
<1>5. CASE ReenviarUltimo
  <2>. DEFINE datos == Porcion(buffer_read, ultimo, Menor(CHUNK, length_read))
  <2>1. /\ cpc = "ultimo" /\ Enviar(Datos(Enviada + ultimo, datos))
        /\ cpc' = "esperar" /\ esperado' = esperado
        /\ UNCHANGED <<s2c, archivo, nro_secuencia_enviado>>
    BY <1>5 DEF ReenviarUltimo, tramoVars, Enviada
  <2>2. ultimo \in Pos
    BY DEF TipoInv, TypeOK, ClientTypeOK
  <2>3. EnDatos'
    BY <2>1 DEF OrdenEnElCable, InvCliente, EnDatos, Enviando
  <2>. HIDE DEF datos
  <2>. QED  BY <1>0, <2>1, <2>2, <2>3, EnvioDeDatos
<1>6. CASE LlenarHueco
  <2>1. PICK p \in huecos :
          /\ cpc = "huecos"
          /\ Enviar(Datos(Enviada + p, ChunkDeHueco(p)))
          /\ cpc' \in {"esperar", "huecos"}
          /\ UNCHANGED <<s2c, archivo, nro_secuencia_enviado, esperado>>
    BY <1>6 DEF LlenarHueco, tramoVars, Enviada
  <2>2. p \in Pos
    BY DEF TipoInv, TypeOK, ClientTypeOK
  <2>3. EnDatos' /\ cpc' # "leer"
    BY <2>1 DEF OrdenEnElCable, InvCliente, EnDatos, Enviando
  <2>. QED  BY <1>0, <2>1, <2>2, <2>3, EnvioDeDatos
<1>7. CASE EnviarFin
  <2>1. FinServidor /\ FinIda /\ FinVuelta /\ cpc = "endOfTx"
    BY <1>7 DEF EnviarFin, OrdenEnElCable, InvFin, EnFin
  <2>2. s2c' = s2c /\ EnFin' /\ cpc' = "esperar" /\ Esperada' = Esperada
    BY <1>7, ServidorQuieto DEF EnviarFin, EnFin
  <2>3. Agrega(c2s, c2s', Orden(FE, 0)) /\ Orden(FE, 0).nro = FE
    BY <1>7, EnviarAgrega DEF EnviarFin, Orden
  <2>4. FinServidor' /\ FinVuelta'
    BY <2>1, <2>2, ServidorQuieto DEF FinServidor, FinVuelta
  <2>5. \A i \in 1..Len(c2s) :
          (c2s[i].nro = FF /\ Esperada = 0) \/ c2s[i].nro \in Tramo(Esperada)
    BY <2>1 DEF FinIda
  <2>6. FinIda'
    BY <2>2, <2>3, <2>5 DEF FinIda, Agrega
  <2>. QED  BY <1>0, <2>2, <2>4, <2>6, DestinoFin
<1>a. ASSUME cpc \in {"compareChecksum", "esperar_checksum"},
             cpc' = "esperar_checksum", s2c' = s2c, Enviar(Orden(FD, 0))
      PROVE  OrdenEnElCable'
  <2>1. path # 0 /\ Esperada \in {FE, FD} /\ ResumenIda /\ ResumenVuelta
    BY <1>a DEF OrdenEnElCable, InvResumen, EnResumen
  <2>2. EnResumen' /\ Esperada' = Esperada
    BY <1>a, ServidorQuieto DEF EnResumen
  <2>3. Agrega(c2s, c2s', Orden(FD, 0)) /\ Orden(FD, 0).nro = FD
    BY <1>a, EnviarAgrega DEF Orden
  <2>4. ResumenIda' /\ ResumenVuelta'
    BY <1>a, <2>1, <2>2, <2>3 DEF ResumenIda, ResumenVuelta, Agrega
  <2>. QED  BY <1>0, <2>1, <2>2, <2>4, ServidorQuieto, DestinoResumen
<1>8. CASE PedirResumen
  BY <1>8, <1>a DEF PedirResumen
<1>9. CASE AckEsperado
  <2>1. nro_secuencia_enviado' \in Ventanas
    BY <1>0 DEF TipoInv, TypeOK, ClientTypeOK
  <2>. QED  BY <1>0, <1>9, <2>1, AckEsperadoOrden
<1>10. CASE AckConHuecos
  <2>1. /\ cpc = "esperar" /\ esperado \in Ventanas /\ cpc' \in {"esperar", "huecos"}
        /\ UNCHANGED <<c2s, archivo, leido, nro_secuencia_enviado, esperado>>
        /\ Quita(s2c, s2c')
    BY <1>10, LeerQuita DEF AckConHuecos, tramoVars
  <2>. QED  BY <1>0, <2>1, VentanaNoEsControl, EsperaOrden
<1>b. ASSUME NEW r, cpc = "esperar", Reintentar(r), s2c' = s2c \/ Leer
      PROVE  OrdenEnElCable'
  <2>1. /\ cpc' = Reintento(r)
        /\ UNCHANGED <<c2s, archivo, leido, nro_secuencia_enviado, esperado>>
    BY <1>b DEF Reintentar, tramoVars
  <2>2. s2c' = s2c \/ Quita(s2c, s2c')
    BY <1>b, LeerQuita
  <2>. QED  BY <1>0, <1>b, <2>1, <2>2, ReintentoDestino, EsperaOrden
<1>11. CASE AckDeOtro
  BY <1>11, <1>b DEF AckDeOtro
<1>12. CASE NoEsAck
  <2>1. /\ cpc = "esperar" /\ cpc' = "esperar"
        /\ UNCHANGED <<c2s, archivo, leido, nro_secuencia_enviado, esperado>>
        /\ Quita(s2c, s2c')
    BY <1>12, LeerQuita DEF NoEsAck, clientVars, tramoVars
  <2>. QED  BY <1>0, <2>1, EsperaOrden
<1>13. CASE LimitePaquetes
  BY <1>13, <1>b DEF LimitePaquetes
<1>14. CASE TimeoutCliente
  BY <1>14, <1>b DEF TimeoutCliente
<1>15. CASE RecibirResumen
  <2>1. /\ cpc = "esperar_checksum" /\ cpc' = "exit" /\ c2s' = c2s
        /\ Quita(s2c, s2c') /\ 1 \in 1..Len(s2c) /\ s2c[1].nro = FD
    BY <1>15, LeerQuita DEF RecibirResumen, EsResumen
  <2>2. path # 0 /\ ResumenIda /\ ResumenVuelta
    BY <2>1 DEF OrdenEnElCable, InvResumen, EnResumen
  <2>3. Esperada = FD /\ \A k \in 1..Len(s2c) : s2c[k].nro = FD
    BY <2>1, <2>2 DEF ResumenVuelta
  <2>4. \A k \in 1..Len(s2c') : s2c'[k].nro = FD
    BY <2>1, <2>3 DEF Quita
  <2>5. ResumenIda'
    BY <2>1, <2>2 DEF ResumenIda
  <2>. QED  BY <1>0, <2>1, <2>2, <2>3, <2>4, <2>5, ServidorQuieto, DestinoExit
<1>16. CASE OtroEnVezDeResumen
  <2>1. /\ cpc = "esperar_checksum" /\ cpc' = cpc /\ c2s' = c2s
        /\ nro_secuencia_enviado' = nro_secuencia_enviado
        /\ Quita(s2c, s2c')
    BY <1>16, LeerQuita DEF OtroEnVezDeResumen, clientVars, tramoVars
  <2>2. path # 0 /\ Esperada \in {FE, FD} /\ ResumenIda /\ ResumenVuelta
    BY <2>1 DEF OrdenEnElCable, InvResumen, EnResumen
  <2>3. ResumenIda' /\ ResumenVuelta' /\ EnResumen'
    BY <2>1, <2>2, ServidorQuieto, VueltaQuita DEF ResumenIda, EnResumen
  <2>. QED  BY <1>0, <2>2, <2>3, ServidorQuieto, DestinoResumen
<1>17. CASE LimitePaquetesResumen
  <2>1. cpc = "esperar_checksum" /\ cpc' = cpc
    BY <1>17 DEF LimitePaquetesResumen, clientVars
  <2>. QED  BY <1>17, <1>a, <2>1 DEF LimitePaquetesResumen
<1>18. CASE NuevoCliente
  <2>1. cpc = "exit" /\ cpc' = "startOfTx" /\ UNCHANGED <<c2s, s2c>>
    BY <1>18 DEF NuevoCliente, linkVars
  <2>2. /\ path # 0 /\ Esperada = FD /\ ResumenIda
        /\ \A k \in 1..Len(s2c) : s2c[k].nro = FD
    BY <2>1 DEF OrdenEnElCable, InvExit
  <2>3. EnNombre' /\ Esperada' = FD /\ path' # 0
    BY <2>1, <2>2, ServidorQuieto DEF EnNombre
  <2>4. NombreServidor' /\ NombreIda' /\ NombreVuelta'
    BY <2>1, <2>2, <2>3, Codigos
    DEF NombreServidor, NombreIda, NombreVuelta, ResumenIda
  <2>. QED  BY <1>0, <2>3, <2>4, DestinoNombre
<1>. QED
  BY <1>1, <1>2, <1>3, <1>4, <1>5, <1>6, <1>7, <1>8, <1>9, <1>10, <1>11, <1>12,
     <1>13, <1>14, <1>15, <1>16, <1>17, <1>18 DEF ClientNext

----------------------------------------------------------------------------
(* The theorems *)

\* With nothing on the wire, the order holds.
LEMMA InitOrden == Init => OrdenEnElCable
<1>. SUFFICES ASSUME Init PROVE OrdenEnElCable
  OBVIOUS
<1>1. /\ cpc = "startOfTx" /\ esperado = FF /\ activo /\ primer_paquete
      /\ Esperada = TOPE - 1 /\ c2s = <<>> /\ s2c = <<>>
  BY DEF Init, ClientInit, ServerInit, LinkInit, Esperada
<1>2. Len(c2s) = 0 /\ Len(s2c) = 0 /\ TOPE - 1 # 0
  BY <1>1
<1>3. NombreServidor /\ NombreIda /\ NombreVuelta
  BY <1>1, <1>2 DEF NombreServidor, NombreIda, NombreVuelta
<1>4. InvCliente
  BY InitTipo DEF TipoInv
<1>5. ~ EnDatos /\ ~ EnFin /\ ~ EnResumen /\ cpc # "exit"
  BY <1>1 DEF EnDatos, Enviando, EnFin, EnResumen
<1>. QED
  BY <1>1, <1>3, <1>4, <1>5
  DEF OrdenEnElCable, InvNombre, InvDatos, InvFin, InvResumen, InvExit

\* A lost frame does not change the order of the others.
LEMMA PerderOrden ==
    ASSUME TipoInv, OrdenEnElCable, Perder
    PROVE  OrdenEnElCable'
<1>0. UNCHANGED clientVars /\ UNCHANGED serverVars
  BY DEF Perder
<1>1. /\ UNCHANGED <<cpc, archivo, leido, nro_secuencia_enviado, esperado>>
      /\ Enviada' = Enviada /\ Esperada' = Esperada
      /\ EnNombre' = EnNombre /\ EnDatos' = EnDatos /\ EnFin' = EnFin
      /\ EnResumen' = EnResumen /\ InvCliente'
  BY <1>0 DEF clientVars, tramoVars, serverVars, ventanaVars, Enviada, Esperada,
     EnNombre, EnDatos, EnFin, EnResumen, Enviando, OrdenEnElCable, InvCliente
<1>2. \/ c2s' = c2s /\ Quita(s2c, s2c')
      \/ s2c' = s2c /\ Quita(c2s, c2s') /\ c2s # <<>>
  BY TailQuita DEF Perder, PerderAlServidor, PerderAlCliente, TipoInv, TypeOK, LinkTypeOK
<1>3. /\ NombreVuelta => NombreVuelta'
      /\ DatosVuelta => DatosVuelta'
      /\ AlDiaVuelta => AlDiaVuelta'
      /\ AtrasVuelta => AtrasVuelta'
      /\ FinVuelta => FinVuelta'
      /\ ResumenVuelta => ResumenVuelta'
  <2>1. CASE Quita(s2c, s2c')
    BY <1>0, <1>1, <2>1, ServidorQuieto, VueltaQuita
  <2>2. CASE s2c' = s2c
    BY <1>0, <1>1, <2>2, ServidorQuieto
    DEF NombreVuelta, DatosVuelta, AlDiaVuelta, AtrasVuelta, FinVuelta, ResumenVuelta
  <2>. QED  BY <1>2, <2>1, <2>2
<1>4. /\ NombreIda => NombreIda'
      /\ AlDiaIda => AlDiaIda'
      /\ AtrasIda => AtrasIda'
      /\ FinIda => FinIda'
      /\ ResumenIda => ResumenIda'
  <2>1. CASE Quita(c2s, c2s')
    BY <1>0, <1>1, <2>1, ServidorQuieto, IdaQuita
  <2>2. CASE c2s' = c2s
    BY <1>0, <1>1, <2>2, ServidorQuieto
    DEF NombreIda, AlDiaIda, AtrasIda, FinIda, ResumenIda
  <2>. QED  BY <1>2, <2>1, <2>2
<1>5. InvNombre'
  BY <1>0, <1>1, <1>3, <1>4, ServidorQuieto DEF OrdenEnElCable, InvNombre, NombreServidor
<1>6. InvDatos'
  BY <1>0, <1>1, <1>3, <1>4, ServidorQuieto DEF OrdenEnElCable, InvDatos, AlDia, Atras
<1>7. InvFin'
  <2>1. FinServidor => FinServidor'
    <3>1. c2s = <<>> => c2s' = <<>>
      BY <1>2
    <3>. QED  BY <1>0, <1>1, <3>1, ServidorQuieto DEF FinServidor
  <2>. QED  BY <1>1, <1>3, <1>4, <2>1 DEF OrdenEnElCable, InvFin
<1>8. InvResumen'
  BY <1>0, <1>1, <1>3, <1>4, ServidorQuieto DEF OrdenEnElCable, InvResumen
<1>9. InvExit'
  <2>1. ASSUME \A k \in 1..Len(s2c) : s2c[k].nro = FD, NEW k \in 1..Len(s2c')
        PROVE  s2c'[k].nro = FD
    <3>1. CASE Quita(s2c, s2c')
      <4>1. k + 1 \in 1..Len(s2c) /\ s2c'[k] = s2c[k + 1]
        BY <3>1 DEF Quita
      <4>. QED  BY <2>1, <4>1
    <3>2. CASE s2c' = s2c
      BY <2>1, <3>2
    <3>. QED  BY <1>2, <3>1, <3>2
  <2>. QED  BY <1>0, <1>1, <1>4, <2>1, ServidorQuieto DEF OrdenEnElCable, InvExit
<1>. QED
  BY <1>0, <1>1, <1>5, <1>6, <1>7, <1>8, <1>9, ServidorQuieto DEF OrdenEnElCable

\* Every step keeps the order: it is inductive, given the types.
LEMMA OrdenInductivo ==
    TipoInv /\ OrdenEnElCable /\ [Next]_vars => OrdenEnElCable'
<1>. SUFFICES ASSUME TipoInv, OrdenEnElCable, [Next]_vars PROVE OrdenEnElCable'
  OBVIOUS
<1>1. CASE ClientNext /\ UNCHANGED serverVars
  BY <1>1, ClienteOrden
<1>2. CASE ServerNext /\ UNCHANGED clientVars
  BY <1>2, ServidorOrden
<1>3. CASE Perder
  BY <1>3, PerderOrden
<1>4. CASE UNCHANGED vars
  <2>1. /\ UNCHANGED <<c2s, s2c, cpc, archivo, leido, length_read,
                       nro_secuencia_enviado, cantidad_ack, esperado, huecos>>
        /\ UNCHANGED <<nro_secuencia_anterior, grilla, ack_completo, filefd,
                       path, primer_paquete, activo>>
    BY <1>4 DEF vars, linkVars, clientVars, tramoVars, serverVars, ventanaVars, archivoVars
  <2>2. InvCliente' = InvCliente
    BY <2>1 DEF InvCliente, Enviando, Enviada
  <2>3. InvNombre' = InvNombre
    BY <2>1 DEF InvNombre, EnNombre, NombreServidor, NombreIda, NombreVuelta, Esperada
  <2>4. InvDatos' = InvDatos
    BY <2>1 DEF InvDatos, EnDatos, Enviando, DatosVuelta, AlDia, AlDiaIda, AlDiaVuelta,
                Atras, AtrasIda, AtrasVuelta, Enviada, Esperada
  <2>5. InvFin' = InvFin
    BY <2>1 DEF InvFin, EnFin, FinServidor, FinIda, FinVuelta, Esperada
  <2>6. InvResumen' = InvResumen /\ InvExit' = InvExit
    BY <2>1 DEF InvResumen, InvExit, EnResumen, ResumenIda, ResumenVuelta, Esperada
  <2>. QED  BY <2>1, <2>2, <2>3, <2>4, <2>5, <2>6 DEF OrdenEnElCable
<1>. QED  BY <1>1, <1>2, <1>3, <1>4 DEF Next

\* What is in flight is in order, from the name of a file to its digest
\* (client.c and server.c, every action).
THEOREM OrdenDeTramas == Spec => []OrdenEnElCable
<1>1. Init => TipoInv /\ OrdenEnElCable
  BY InitTipo, InitOrden
<1>2. TipoInv /\ OrdenEnElCable /\ [Next]_vars => (TipoInv /\ OrdenEnElCable)'
  BY TipoInductivo, OrdenInductivo
<1>. QED  BY <1>1, <1>2, PTL DEF Spec

\* The server never prints ERROR and exits in the middle of a copy
\* (server.c:418), whatever is lost or times out.
THEOREM SinError == Spec => []SinErrorDeSecuencia
<1>1. OrdenEnElCable => SinErrorDeSecuencia
  BY DEF OrdenEnElCable, SinErrorDeSecuencia
<1>. QED  BY <1>1, OrdenDeTramas, PTL

\* While a window is on its way both ends are at that window, or the server
\* holds the whole of the one before (client.c:476, server.c:409).
THEOREM Acuerdo == Spec => []AcuerdoDeVentana
<1>1. OrdenEnElCable => AcuerdoDeVentana
  <2>. SUFFICES ASSUME OrdenEnElCable, Enviando
                PROVE  /\ filefd /\ path = archivo
                       /\ \/ Esperada = Enviada
                          \/ ack_completo /\ ProximaServidor(Esperada) = Enviada
    BY DEF AcuerdoDeVentana, Esperada, Enviada
  <2>1. filefd /\ path = archivo /\ (AlDia \/ Atras)
    BY DEF OrdenEnElCable, InvDatos, EnDatos
  <2>2. cpc # "leer"
    BY DEF Enviando
  <2>. QED  BY <2>1, <2>2 DEF AlDia, Atras
<1>. QED  BY <1>1, OrdenDeTramas, PTL
=============================================================================
