--------------------------- MODULE RawCrashProofs ---------------------------
(***************************************************************************)
(* The file transfer when clients are interrupted or die and the server is *)
(* killed and started again, any number of times: what is still true of    *)
(* the verdict that a client prints.                                       *)
(***************************************************************************)
EXTENDS RawOrderProofs, RawTransferCrash

----------------------------------------------------------------------------
(* The inductive invariant *)

\* The server was told the name of this client's file, or has been started
\* again since.
SuArchivo == path \in {0, archivo}

\* What is on its way names this client's file, or no other.
Nombra(s, f) == \A i \in 1..Len(s) : s[i].nro = FF => s[i].archivo = f
SusNombres == Nombra(c2s, archivo)

\* The numbers of the frames in a queue.
Todo(s, N) == \A i \in 1..Len(s) : s[i].nro \in N

\* No frame is behind one of number n.
AlFinal(s, n) == \A i \in 1..Len(s) : s[i].nro = n => i = Len(s)

\* What others left on the wire, of any kind but 0xFF, is in front of the 0xFF
\* of this client; an ACK of it comes when all that was read.
NombreLimpio ==
    EnNombre =>
        /\ SusNombres
        /\ \A i \in 1..Len(c2s) : c2s[i].nro = FF =>
             \A j \in i..Len(c2s) : c2s[j].nro = FF
        /\ \A k \in 1..Len(s2c) : s2c[k].nro = FF =>
             /\ SuArchivo /\ Esperada \in NroDatos /\ Todo(c2s, {FF})
             /\ \A j \in k..Len(s2c) : s2c[j].nro \in NroDatos \cup {FF}

\* From there on to 0xFE no answer to a 0xFE or a 0xFD can come.
DatosLimpios ==
    EnDatos \/ cpc = "endOfTx" =>
        /\ SuArchivo /\ Esperada \in NroDatos
        /\ SusNombres
        /\ Todo(c2s, NroDatos \cup {FF}) /\ Todo(s2c, NroDatos \cup {FF})

\* 0xFE is sent once, behind all the rest, and answered when all was read.
FinLimpio ==
    cpc = "esperar" /\ esperado = FE =>
        /\ SuArchivo /\ Esperada \in NroDatos \cup {FE}
        /\ SusNombres
        /\ Todo(c2s, NroDatos \cup {FF, FE}) /\ Todo(s2c, NroDatos \cup {FF, FE})
        /\ AlFinal(c2s, FE)
        /\ Esperada = FE \/ ~ Todo(s2c, NroDatos \cup {FF}) => Len(c2s) = 0

\* So only 0xFD is left to read, which leaves the directory alone: digests on
\* their way are those of the copy.
ResumenLimpio ==
    EnResumen \/ informe # "ninguno" =>
        /\ SuArchivo
        /\ Todo(c2s, {FD})
        /\ Resumenes

Limpia ==
    limpio => NombreLimpio /\ DatosLimpios /\ FinLimpio /\ ResumenLimpio

CrashInv ==
    /\ TipoInv
    /\ limpio \in BOOLEAN
    /\ Esperada # FF
    /\ informe # "ninguno" => cpc = "exit"
    /\ Limpia
    /\ VeredictoTrasCortes

----------------------------------------------------------------------------
(* Types *)

\* A client that stops, and a server that stops or starts, leave every variable
\* of its type.
LEMMA TipoTrasCortes == TipoInv /\ [CrashNext]_crashVars => TipoInv'
<1>. SUFFICES ASSUME TipoInv, [CrashNext]_crashVars PROVE TipoInv'
  OBVIOUS
<1>1. CASE Paso \/ UNCHANGED crashVars
  BY <1>1, TipoInductivo DEF Paso, crashVars
<1>2. CASE InterrumpirCliente \/ ErrorDeEnvio
  <2>1. /\ cpc' = "exit"
        /\ UNCHANGED <<linkVars, archivo, tramoVars, cantidad_ack, ultimo, esperado,
                       huecos, informe, serverVars>>
    BY <1>2 DEF InterrumpirCliente, ErrorDeEnvio
  <2>2. LinkTypeOK' /\ ServerTypeOK'
    BY <2>1 DEF TipoInv, TypeOK, LinkTypeOK, ServerTypeOK, linkVars, serverVars,
                ventanaVars, archivoVars
  <2>3. ClientTypeOK'
    BY <2>1 DEF TipoInv, TypeOK, ClientTypeOK, tramoVars, Etapas
  <2>4. InvCliente'
    BY <2>1 DEF InvCliente, Enviando
  <2>. QED  BY <2>2, <2>3, <2>4 DEF TipoInv, TypeOK
<1>3. ASSUME UNCHANGED <<linkVars, clientVars>>, ServerTypeOK'
      PROVE  TipoInv'
  BY <1>3 DEF TipoInv, TypeOK, LinkTypeOK, linkVars, clientVars, tramoVars,
              ClientTypeOK, InvCliente, Enviando, Enviada
<1>4. CASE CaidaServidor
  BY <1>3, <1>4 DEF CaidaServidor, ventanaVars, ServerTypeOK, TipoInv, TypeOK
<1>5. CASE ArranqueServidor
  <2>1. [k \in 1..LARGO_TRAMO |-> BASURA] \in Buffer
    BY CeldaTipo DEF Buffer
  <2>2. TOPE - 1 \in 0..255
    BY VentanaAssumption
  <2>3. disco \in [Archivos -> Seq(Celda)] /\ <<>> \in Seq(Seq(Celda))
    BY DEF TipoInv, TypeOK, ServerTypeOK
  <2>4. ServerTypeOK'
    BY <1>5, <2>1, <2>2, <2>3, GrillaTipo DEF ArranqueServidor, ServerTypeOK
  <2>. QED  BY <1>3, <1>5, <2>4 DEF ArranqueServidor
<1>. QED  BY <1>1, <1>2, <1>4, <1>5 DEF CrashNext

----------------------------------------------------------------------------
(* The steps of the server and of the link *)

Igual == path' = path /\ Esperada' = Esperada /\ resumen' = resumen

\* What is read from the client, and what is answered.
LeeNombre ==
    /\ Quita(c2s, c2s') /\ c2s[1].nro = FF
    /\ path' = c2s[1].archivo /\ Esperada' = 0
    /\ Agrega(s2c, s2c', AckDe(FF))

LeeFin ==
    /\ Quita(c2s, c2s') /\ c2s[1].nro = FE
    /\ path' = path /\ Esperada' = FE
    /\ Agrega(s2c, s2c', AckDe(FE))

LeePedido ==
    /\ Quita(c2s, c2s') /\ c2s[1].nro = FD
    /\ path # 0 /\ path' = path /\ Esperada' = FD
    /\ resumen' = <<disco[path]>> /\ disco' = disco
    /\ Agrega(s2c, s2c', AckDe(FD))

LeeDatos ==
    /\ Quita(c2s, c2s') /\ c2s[1].nro \in NroDatos
    /\ path' = path
    /\ Esperada \in NroDatos => Esperada' \in NroDatos
    /\ Esperada # FF => Esperada' # FF
    /\ Agrega(s2c, s2c', AckDe(Esperada'))

\* A frame is read, or lost, and not answered.
Pierde == Quita(c2s, c2s') /\ s2c' = s2c /\ Igual /\ disco' = disco

PierdeVuelta == c2s' = c2s /\ Quita(s2c, s2c') /\ Igual /\ disco' = disco

Repite ==
    /\ c2s' = c2s /\ Igual /\ disco' = disco
    /\ s2c' = s2c \/ Agrega(s2c, s2c', AckDe(Esperada))

Arranca ==
    /\ UNCHANGED <<c2s, s2c, disco>>
    /\ path' = 0 /\ Esperada' \in NroDatos

Mueve ==
    \/ LeeNombre \/ LeeFin \/ LeePedido \/ LeeDatos
    \/ Pierde \/ PierdeVuelta \/ Repite \/ Arranca

\* Numbers of chunks and control codes are apart, and stay so when the server
\* goes to its next window.
LEMMA NumerosDeDatos ==
    /\ FF \notin NroDatos /\ FE \notin NroDatos /\ FD \notin NroDatos
    /\ FF # FE /\ FF # FD /\ FE # FD
    /\ 0 \in NroDatos /\ TOPE - 1 \in NroDatos
    /\ \A n \in NroDatos : ProximaServidor(n) \in NroDatos
    /\ \A n \in 0..255 : ProximaServidor(n) # FF
<1>1. \A n \in NroDatos : ProximaServidor(n) \in NroDatos
  BY VentanaAssumption DEF NroDatos, ProximaServidor
<1>2. \A n \in 0..255 : ProximaServidor(n) # FF
  BY VentanaAssumption DEF FF, ProximaServidor
<1>. QED  BY <1>1, <1>2, VentanaAssumption DEF NroDatos, FF, FE, FD

\* Every step of the server is one of those.
LEMMA ServidorMueve ==
    ASSUME TipoInv, ServerNext
    PROVE  Mueve
<1>1. CASE RecibirNombre
  BY <1>1, NombreEfecto DEF LeeNombre, Mueve
<1>2. CASE RecibirFin
  BY <1>2, FinEfecto DEF LeeFin, Mueve
<1>3. CASE RecibirPedidoResumen
  <2>1. path # 0 /\ resumen' = <<disco[path]>> /\ disco' = disco
    BY <1>3 DEF RecibirPedidoResumen, archivoVars
  <2>. QED  BY <1>3, <2>1, PedidoEfecto DEF LeePedido, Mueve
<1>4. CASE ResumenSinArchivo
  <2>1. s2c' = s2c /\ Igual /\ disco' = disco
    BY <1>4 DEF ResumenSinArchivo, Igual, Esperada, ventanaVars, archivoVars
  <2>. QED  BY <1>4, <2>1, SinArchivoEfecto DEF Pierde, Mueve
<1>5. CASE RecibirFueraDeSecuencia
  <2>1. s2c' = s2c /\ Igual /\ disco' = disco
    BY <1>5 DEF RecibirFueraDeSecuencia, Igual, Esperada, ventanaVars, archivoVars
  <2>. QED  BY <1>5, <2>1, FueraEfecto DEF Pierde, Mueve
<1>6. CASE RecibirDatos
  <2>1. /\ Quita(c2s, c2s') /\ trama = c2s[1] /\ trama.nro \notin Control
        /\ path' = path /\ Agrega(s2c, s2c', AckDe(Esperada'))
    BY <1>6, DatosGrilla DEF Esperada
  <2>2. trama \in TramaCliente
    BY <1>6, ColaTipo DEF RecibirDatos, Recibir, trama, TipoInv, TypeOK, LinkTypeOK
  <2>3. trama.nro \in NroDatos
    BY <2>1, <2>2, TramaDatosTipo
  <2>4. /\ Esperada \in NroDatos => Esperada' \in NroDatos
        /\ Esperada # FF => Esperada' # FF
    <3>0. Esperada \in 0..255
      BY DEF Esperada, TipoInv, TypeOK, ServerTypeOK
    <3>1. CASE Avanza
      BY <1>6, <3>0, <3>1, DatosDeLaSiguiente, NumerosDeDatos
    <3>2. CASE ~ Avanza
      BY <1>6, <3>2, DatosDeLaVentana
    <3>. QED  BY <3>1, <3>2
  <2>. QED  BY <2>1, <2>3, <2>4 DEF LeeDatos, Mueve
<1>7. CASE TramaAjena
  <2>1. c2s' = c2s /\ s2c' = s2c /\ Igual /\ disco' = disco
    BY <1>7 DEF TramaAjena, Igual, Esperada, linkVars, ventanaVars, archivoVars
  <2>. QED  BY <2>1 DEF Repite, Mueve
<1>8. CASE TimeoutServidor
  <2>1. c2s' = c2s /\ Igual /\ disco' = disco
    BY <1>8 DEF TimeoutServidor, Igual, Esperada, serverVars, ventanaVars, archivoVars
  <2>. QED  BY <1>8, <2>1, TimeoutEfecto DEF Repite, Mueve
<1>. QED
  BY <1>1, <1>2, <1>3, <1>4, <1>5, <1>6, <1>7, <1>8 DEF ServerNext, RecibirTrama

\* So are the loss of a frame and the stop and the start of the server.
LEMMA OtrosMueven ==
    ASSUME TipoInv, Perder \/ CaidaServidor \/ ArranqueServidor
    PROVE  Mueve
<1>1. CASE Perder
  <2>1. Igual /\ disco' = disco
    BY <1>1 DEF Perder, Igual, Esperada, serverVars, ventanaVars, archivoVars
  <2>2. CASE PerderAlServidor
    BY <2>1, <2>2, TailQuita DEF PerderAlServidor, TipoInv, TypeOK, LinkTypeOK, Pierde,
                                 Mueve
  <2>3. CASE PerderAlCliente
    BY <2>1, <2>3, TailQuita DEF PerderAlCliente, TipoInv, TypeOK, LinkTypeOK,
                                 PierdeVuelta, Mueve
  <2>. QED  BY <1>1, <2>2, <2>3 DEF Perder
<1>2. CASE CaidaServidor
  BY <1>2 DEF CaidaServidor, linkVars, ventanaVars, Igual, Esperada, Repite, Mueve
<1>3. CASE ArranqueServidor
  BY <1>3, NumerosDeDatos DEF ArranqueServidor, linkVars, Esperada, Arranca, Mueve
<1>. QED  BY <1>1, <1>2, <1>3

----------------------------------------------------------------------------
(* What they leave, phase by phase of the client *)

\* r without s in front: what comes behind a frame still does.
Corrida(s, r) ==
    /\ 1 \in 1..Len(s)
    /\ \A i \in 1..Len(r) :
         /\ i + 1 \in 1..Len(s) /\ r[i] = s[i + 1]
         /\ \A j \in i..Len(r) : j + 1 \in (i + 1)..Len(s) /\ r[j] = s[j + 1]

\* Reading gives such a queue.
LEMMA TrasQuita ==
    ASSUME NEW s, NEW r, Quita(s, r)
    PROVE  Corrida(s, r)
<1>1. Len(s) \in Nat /\ Len(r) \in Nat /\ Len(s) = Len(r) + 1
  BY DEF Quita
<1>2. ASSUME NEW i \in 1..Len(r)
      PROVE  i + 1 \in 1..Len(s) /\ r[i] = s[i + 1]
  BY <1>1 DEF Quita
<1>3. ASSUME NEW i \in 1..Len(r), NEW j \in i..Len(r)
      PROVE  j \in 1..Len(r) /\ j + 1 \in (i + 1)..Len(s)
  <2>1. i \in Nat /\ j \in Int
    OBVIOUS
  <2>. QED  BY <1>1, <1>3, <2>1
<1>4. 1 \in 1..Len(s)
  BY <1>1
<1>. QED  BY <1>2, <1>3, <1>4 DEF Corrida

\* What is added to s is behind all of it.
Alargada(s, r, t) ==
    \A i \in 1..Len(r) :
        \/ /\ i \in 1..Len(s) /\ r[i] = s[i]
           /\ \A j \in i..Len(r) : (j \in i..Len(s) /\ r[j] = s[j]) \/ r[j] = t
        \/ \A j \in i..Len(r) : r[j] = t

\* Sending gives such a queue.
LEMMA TrasAgrega ==
    ASSUME NEW s, NEW r, NEW t, Agrega(s, r, t)
    PROVE  Alargada(s, r, t)
<1>. SUFFICES ASSUME NEW i \in 1..Len(r)
              PROVE  \/ /\ i \in 1..Len(s) /\ r[i] = s[i]
                        /\ \A j \in i..Len(r) :
                             (j \in i..Len(s) /\ r[j] = s[j]) \/ r[j] = t
                     \/ \A j \in i..Len(r) : r[j] = t
  BY DEF Alargada
<1>1. Len(s) \in Nat /\ Len(r) \in Nat /\ Len(s) <= Len(r) /\ i \in Nat
  BY DEF Agrega
<1>2. ASSUME NEW j \in 1..Len(r)
      PROVE  \/ j \in 1..Len(s) /\ r[j] = s[j]
             \/ j = Len(r) /\ j = Len(s) + 1 /\ r[j] = t
  BY <1>1, <1>2 DEF Agrega
<1>3. ASSUME NEW j \in i..Len(r)
      PROVE  j \in 1..Len(r) /\ (j \in 1..Len(s) => j \in i..Len(s))
  BY <1>1, <1>3
<1>4. CASE i \in 1..Len(s) /\ r[i] = s[i]
  BY <1>2, <1>3, <1>4
<1>5. CASE i = Len(r) /\ r[i] = t
  <2>1. \A j \in i..Len(r) : j = i
    BY <1>1, <1>5
  <2>. QED  BY <1>5, <2>1
<1>. QED  BY <1>2, <1>4, <1>5

\* While the client names its file.
LEMMA NombreMueve ==
    ASSUME Mueve, archivo' = archivo, Esperada # FF, EnNombre, NombreLimpio
    PROVE  NombreLimpio'
<1>. USE NumerosDeDatos, AckCampos
<1>0. /\ SusNombres
      /\ \A i \in 1..Len(c2s) : c2s[i].nro = FF => \A j \in i..Len(c2s) : c2s[j].nro = FF
      /\ \A k \in 1..Len(s2c) : s2c[k].nro = FF =>
           /\ SuArchivo /\ Esperada \in NroDatos /\ Todo(c2s, {FF})
           /\ \A j \in k..Len(s2c) : s2c[j].nro \in NroDatos \cup {FF}
  BY DEF NombreLimpio
<1>. DEFINE Sola == \E k \in 1..Len(s2c) : s2c[k].nro = FF
            Ida == /\ SusNombres'
                   /\ \A i \in 1..Len(c2s') : c2s'[i].nro = FF =>
                        \A j \in i..Len(c2s') : c2s'[j].nro = FF
            Vuelta == \A k \in 1..Len(s2c') : s2c'[k].nro = FF =>
                        /\ SuArchivo' /\ Esperada' \in NroDatos /\ Todo(c2s', {FF})
                        /\ \A j \in k..Len(s2c') : s2c'[j].nro \in NroDatos \cup {FF}
<1>1. ASSUME Quita(c2s, c2s')
      PROVE  Ida /\ (Todo(c2s, {FF}) => Todo(c2s', {FF}) /\ c2s[1].nro = FF)
  <2>0. Corrida(c2s, c2s')
    BY <1>1, TrasQuita
  <2>1. ASSUME NEW i \in 1..Len(c2s')
        PROVE  /\ i + 1 \in 1..Len(c2s) /\ c2s'[i] = c2s[i + 1]
               /\ \A j \in i..Len(c2s') :
                    j + 1 \in (i + 1)..Len(c2s) /\ c2s'[j] = c2s[j + 1]
    BY <2>0, <2>1 DEF Corrida
  <2>2. 1 \in 1..Len(c2s)
    BY <2>0 DEF Corrida
  <2>3. SusNombres'
    BY <1>0, <2>1 DEF SusNombres, Nombra
  <2>4. ASSUME NEW i \in 1..Len(c2s'), c2s'[i].nro = FF, NEW j \in i..Len(c2s')
        PROVE  c2s'[j].nro = FF
    <3>1. i + 1 \in 1..Len(c2s) /\ c2s[i + 1].nro = FF
      BY <2>1, <2>4
    <3>2. \A l \in (i + 1)..Len(c2s) : c2s[l].nro = FF
      BY <1>0, <3>1
    <3>. QED  BY <2>1, <3>2
  <2>5. Todo(c2s, {FF}) => Todo(c2s', {FF}) /\ c2s[1].nro = FF
    BY <2>1, <2>2 DEF Todo
  <2>. QED  BY <2>3, <2>4, <2>5
<1>2. ASSUME NEW n, n \in NroDatos \cup {FF} \/ ~ Sola, n # FF,
             s2c' = s2c \/ Agrega(s2c, s2c', AckDe(n)),
             Sola => SuArchivo' /\ Esperada' \in NroDatos /\ Todo(c2s', {FF})
      PROVE  Vuelta
  <2>. SUFFICES ASSUME NEW k \in 1..Len(s2c'), s2c'[k].nro = FF
                PROVE  /\ SuArchivo' /\ Esperada' \in NroDatos /\ Todo(c2s', {FF})
                       /\ \A j \in k..Len(s2c') : s2c'[j].nro \in NroDatos \cup {FF}
    OBVIOUS
  <2>1. CASE s2c' = s2c
    BY <1>0, <1>2, <2>1
  <2>2. CASE Agrega(s2c, s2c', AckDe(n))
    <3>0. Alargada(s2c, s2c', AckDe(n))
      BY <2>2, TrasAgrega
    <3>4. AckDe(n).nro = n /\ k \in k..Len(s2c')
      OBVIOUS
    <3>5. \/ /\ k \in 1..Len(s2c) /\ s2c'[k] = s2c[k]
             /\ \A j \in k..Len(s2c') :
                  (j \in k..Len(s2c) /\ s2c'[j] = s2c[j]) \/ s2c'[j] = AckDe(n)
          \/ \A j \in k..Len(s2c') : s2c'[j] = AckDe(n)
      BY <3>0 DEF Alargada
    <3>6. ~ \A j \in k..Len(s2c') : s2c'[j] = AckDe(n)
      BY <1>2, <3>4
    <3>1. /\ k \in 1..Len(s2c) /\ s2c[k].nro = FF
          /\ \A j \in k..Len(s2c') :
               (j \in k..Len(s2c) /\ s2c'[j] = s2c[j]) \/ s2c'[j] = AckDe(n)
      BY <3>5, <3>6
    <3>2. \A j \in k..Len(s2c) : s2c[j].nro \in NroDatos \cup {FF}
      BY <1>0, <3>1
    <3>3. AckDe(n).nro \in NroDatos \cup {FF}
      BY <1>2, <3>1
    <3>. QED  BY <1>2, <3>1, <3>2, <3>3
  <2>. QED  BY <1>2, <2>1, <2>2
<1>. HIDE DEF Ida, Vuelta
<1>3. CASE LeeNombre
  <2>1. 1 \in 1..Len(c2s) /\ c2s[1].nro = FF
    BY <1>3, TrasQuita DEF Corrida, LeeNombre
  <2>0. \A j \in 1..Len(c2s) : c2s[j].nro = FF
    BY <1>0, <2>1
  <2>2. Ida /\ Todo(c2s', {FF})
    BY <1>1, <1>3, <2>0 DEF LeeNombre, Todo
  <2>3. SuArchivo' /\ Esperada' \in NroDatos
    BY <1>0, <1>3, <2>1 DEF LeeNombre, SusNombres, Nombra, SuArchivo
  <2>4. ASSUME NEW k \in 1..Len(s2c'), s2c'[k].nro = FF, NEW j \in k..Len(s2c')
        PROVE  s2c'[j].nro \in NroDatos \cup {FF}
    <3>1. Agrega(s2c, s2c', AckDe(FF))
      BY <1>3 DEF LeeNombre
    <3>2. CASE s2c'[j] = AckDe(FF)
      BY <3>2
    <3>3. CASE s2c'[j] # AckDe(FF)
      <4>0. Alargada(s2c, s2c', AckDe(FF))
        BY <3>1, TrasAgrega
      <4>1. /\ k \in 1..Len(s2c) /\ s2c'[k] = s2c[k]
            /\ j \in k..Len(s2c) /\ s2c'[j] = s2c[j]
        BY <2>4, <3>3, <4>0 DEF Alargada
      <4>. QED  BY <1>0, <2>4, <4>1
    <3>. QED  BY <3>2, <3>3
  <2>5. Vuelta
    BY <2>2, <2>3, <2>4 DEF Vuelta
  <2>. QED  BY <2>2, <2>5 DEF Ida, Vuelta, NombreLimpio
<1>4. CASE LeeFin \/ LeePedido \/ LeeDatos
  <2>1. Quita(c2s, c2s') /\ c2s[1].nro # FF
    BY <1>4 DEF LeeFin, LeePedido, LeeDatos
  <2>2. Ida /\ ~ Sola
    BY <1>0, <1>1, <2>1
  <2>3. PICK n : n # FF /\ Agrega(s2c, s2c', AckDe(n))
    <3>1. CASE LeeFin
      BY <3>1 DEF LeeFin
    <3>2. CASE LeePedido
      BY <3>2 DEF LeePedido
    <3>3. CASE LeeDatos
      BY <3>3 DEF LeeDatos
    <3>. QED  BY <1>4, <3>1, <3>2, <3>3
  <2>4. Vuelta
    BY <1>2, <2>2, <2>3
  <2>. QED  BY <2>2, <2>4 DEF Ida, Vuelta, NombreLimpio
<1>5. CASE Pierde
  <2>1. Ida /\ (Todo(c2s, {FF}) => Todo(c2s', {FF}))
    BY <1>1, <1>5 DEF Pierde
  <2>2. Sola => SuArchivo' /\ Esperada' \in NroDatos /\ Todo(c2s', {FF})
    BY <1>0, <1>5, <2>1 DEF Pierde, Igual, SuArchivo
  <2>3. Vuelta
    BY <1>2, <1>5, <2>2 DEF Pierde
  <2>. QED  BY <2>1, <2>3 DEF Ida, Vuelta, NombreLimpio
<1>6. ASSUME c2s' = c2s
      PROVE  Ida /\ (Todo(c2s, {FF}) => Todo(c2s', {FF}))
  BY <1>0, <1>6 DEF Ida, SusNombres, Nombra, Todo
<1>7. CASE PierdeVuelta
  <2>1. Ida /\ (Todo(c2s, {FF}) => Todo(c2s', {FF}))
    BY <1>6, <1>7 DEF PierdeVuelta
  <2>2. ASSUME NEW k \in 1..Len(s2c'), s2c'[k].nro = FF
        PROVE  /\ SuArchivo' /\ Esperada' \in NroDatos /\ Todo(c2s', {FF})
               /\ \A j \in k..Len(s2c') : s2c'[j].nro \in NroDatos \cup {FF}
    <3>0. Corrida(s2c, s2c')
      BY <1>7, TrasQuita DEF PierdeVuelta
    <3>1. /\ k + 1 \in 1..Len(s2c) /\ s2c[k + 1].nro = FF
          /\ \A j \in k..Len(s2c') : j + 1 \in (k + 1)..Len(s2c) /\ s2c'[j] = s2c[j + 1]
      BY <2>2, <3>0 DEF Corrida
    <3>2. /\ SuArchivo /\ Esperada \in NroDatos /\ Todo(c2s, {FF})
          /\ \A j \in (k + 1)..Len(s2c) : s2c[j].nro \in NroDatos \cup {FF}
      BY <1>0, <3>1
    <3>. QED  BY <1>7, <2>1, <3>1, <3>2 DEF PierdeVuelta, Igual, SuArchivo
  <2>3. Vuelta
    BY <2>2 DEF Vuelta
  <2>. QED  BY <2>1, <2>3 DEF Ida, Vuelta, NombreLimpio
<1>8. CASE Repite
  <2>1. Ida /\ (Todo(c2s, {FF}) => Todo(c2s', {FF}))
    BY <1>6, <1>8 DEF Repite
  <2>2. Sola => SuArchivo' /\ Esperada' \in NroDatos /\ Todo(c2s', {FF})
    BY <1>0, <1>8, <2>1 DEF Repite, Igual, SuArchivo
  <2>3. Sola => Esperada \in NroDatos
    BY <1>0
  <2>4. Vuelta
    BY <1>2, <1>8, <2>2, <2>3 DEF Repite
  <2>. QED  BY <2>1, <2>4 DEF Ida, Vuelta, NombreLimpio
<1>9. CASE Arranca
  <2>1. Ida /\ (Todo(c2s, {FF}) => Todo(c2s', {FF}))
    BY <1>6, <1>9 DEF Arranca
  <2>2. Sola => SuArchivo' /\ Esperada' \in NroDatos /\ Todo(c2s', {FF})
    BY <1>0, <1>9, <2>1 DEF Arranca, SuArchivo
  <2>3. Vuelta
    BY <1>2, <1>9, <2>2 DEF Arranca
  <2>. QED  BY <2>1, <2>3 DEF Ida, Vuelta, NombreLimpio
<1>. QED  BY <1>3, <1>4, <1>5, <1>7, <1>8, <1>9 DEF Mueve

\* Reading keeps what holds of all that is on its way; so does answering.
LEMMA TodoQuita ==
    ASSUME NEW s, NEW r, NEW N, Quita(s, r), Todo(s, N)
    PROVE  s[1].nro \in N /\ Todo(r, N)
  BY TrasQuita DEF Corrida, Todo

\* The same of the names in it.
LEMMA NombraQuita ==
    ASSUME NEW s, NEW r, NEW f, Quita(s, r), Nombra(s, f)
    PROVE  Nombra(r, f) /\ (s[1].nro = FF => s[1].archivo = f)
  BY TrasQuita DEF Corrida, Nombra

\* And so does sending a frame of which it holds.
LEMMA TodoAgrega ==
    ASSUME NEW s, NEW r, NEW t, NEW N, Agrega(s, r, t), Todo(s, N), t.nro \in N
    PROVE  Todo(r, N)
  BY DEF Todo, Agrega

\* The same of the names.
LEMMA NombraAgrega ==
    ASSUME NEW s, NEW r, NEW t, NEW f, Agrega(s, r, t), Nombra(s, f),
           t.nro = FF => t.archivo = f
    PROVE  Nombra(r, f)
  BY DEF Nombra, Agrega

\* While the client sends its windows.
LEMMA DatosMueve ==
    ASSUME Mueve, archivo' = archivo, EnDatos \/ cpc = "endOfTx", DatosLimpios
    PROVE  DatosLimpios'
<1>. USE NumerosDeDatos
<1>0. /\ SuArchivo /\ Esperada \in NroDatos
      /\ SusNombres /\ Todo(c2s, NroDatos \cup {FF}) /\ Todo(s2c, NroDatos \cup {FF})
  BY DEF DatosLimpios
<1>1. SUFFICES /\ SuArchivo' /\ Esperada' \in NroDatos
               /\ SusNombres'
               /\ Todo(c2s', NroDatos \cup {FF}) /\ Todo(s2c', NroDatos \cup {FF})
  BY DEF DatosLimpios
<1>3. CASE LeeNombre
  BY <1>0, <1>3, TodoQuita, NombraQuita, TodoAgrega, AckCampos
     DEF LeeNombre, SuArchivo, SusNombres
<1>4. CASE LeeFin \/ LeePedido
  BY <1>0, <1>4, TodoQuita DEF LeeFin, LeePedido
<1>5. CASE LeeDatos
  BY <1>0, <1>5, TodoQuita, NombraQuita, TodoAgrega, AckCampos
     DEF LeeDatos, SuArchivo, SusNombres
<1>6. CASE Pierde
  BY <1>0, <1>6, TodoQuita, NombraQuita DEF Pierde, Igual, SuArchivo, SusNombres
<1>7. CASE PierdeVuelta
  BY <1>0, <1>7, TodoQuita DEF PierdeVuelta, Igual, SuArchivo, SusNombres
<1>8. CASE Repite
  BY <1>0, <1>8, TodoAgrega, AckCampos DEF Repite, Igual, SuArchivo, SusNombres
<1>9. CASE Arranca
  BY <1>0, <1>9 DEF Arranca, SuArchivo, SusNombres
<1>. QED  BY <1>3, <1>4, <1>5, <1>6, <1>7, <1>8, <1>9 DEF Mueve

\* What is last is last until it is read.
LEMMA AlFinalQuita ==
    ASSUME NEW s, NEW r, NEW n, Quita(s, r), AlFinal(s, n)
    PROVE  AlFinal(r, n) /\ Len(s) # 0 /\ (s[1].nro = n => Len(r) = 0)
<1>0. Len(s) \in Nat /\ Len(r) \in Nat /\ Len(s) = Len(r) + 1
  BY DEF Quita
<1>1. ASSUME NEW i \in 1..Len(r), r[i].nro = n PROVE i = Len(r)
  <2>1. i + 1 \in 1..Len(s) /\ s[i + 1].nro = n
    BY <1>0, <1>1 DEF Quita
  <2>2. i + 1 = Len(s)
    BY <2>1 DEF AlFinal
  <2>. QED  BY <1>0, <2>2
<1>2. s[1].nro = n => Len(r) = 0
  BY <1>0 DEF AlFinal
<1>. QED  BY <1>0, <1>1, <1>2 DEF AlFinal

\* While the client waits for ACK 0xFE.
LEMMA FinMueve ==
    ASSUME Mueve, archivo' = archivo, cpc = "esperar" /\ esperado = FE, FinLimpio
    PROVE  FinLimpio'
<1>. USE NumerosDeDatos
<1>. DEFINE Antes == NroDatos \cup {FF}
            N == NroDatos \cup {FF, FE}
<1>0. /\ SuArchivo /\ Esperada \in NroDatos \cup {FE}
      /\ SusNombres /\ Todo(c2s, N) /\ Todo(s2c, N) /\ AlFinal(c2s, FE)
      /\ Esperada = FE \/ ~ Todo(s2c, Antes) => Len(c2s) = 0
  BY DEF FinLimpio
<1>1. SUFFICES /\ SuArchivo' /\ Esperada' \in NroDatos \cup {FE}
               /\ SusNombres' /\ Todo(c2s', N) /\ Todo(s2c', N) /\ AlFinal(c2s', FE)
               /\ Esperada' = FE \/ ~ Todo(s2c', Antes) => Len(c2s') = 0
  BY DEF FinLimpio
<1>2. /\ \A n \in Antes : n \in N
      /\ \A n \in NroDatos : n \in Antes
      /\ FE \in N /\ FF \in Antes /\ FD \notin N
  OBVIOUS
<1>. HIDE DEF Antes, N
<1>3. ASSUME Quita(c2s, c2s')
      PROVE  /\ SusNombres' /\ Todo(c2s', N) /\ AlFinal(c2s', FE)
             /\ Esperada \in NroDatos /\ Todo(s2c, Antes)
             /\ c2s[1].nro \in N
             /\ c2s[1].nro = FF => c2s[1].archivo = archivo
             /\ c2s[1].nro = FE => Len(c2s') = 0
  BY <1>0, <1>3, AlFinalQuita, TodoQuita, NombraQuita DEF SusNombres
<1>4. CASE LeeNombre
  BY <1>0, <1>2, <1>3, <1>4, TodoAgrega, AckCampos DEF LeeNombre, SuArchivo
<1>5. CASE LeeFin
  BY <1>0, <1>2, <1>3, <1>5, TodoAgrega, AckCampos DEF LeeFin, SuArchivo
<1>6. CASE LeePedido
  BY <1>2, <1>3, <1>6 DEF LeePedido
<1>7. CASE LeeDatos
  BY <1>0, <1>2, <1>3, <1>7, TodoAgrega, AckCampos DEF LeeDatos, SuArchivo
<1>8. CASE Pierde
  BY <1>0, <1>3, <1>8 DEF Pierde, Igual, SuArchivo
<1>9. CASE PierdeVuelta
  BY <1>0, <1>9, TodoQuita DEF PierdeVuelta, Igual, SuArchivo, SusNombres
<1>10. CASE Repite
  <2>1. /\ c2s' = c2s /\ path' = path /\ Esperada' = Esperada
        /\ s2c' = s2c \/ Agrega(s2c, s2c', AckDe(Esperada))
    BY <1>10 DEF Repite, Igual
  <2>2. Todo(s2c', N)
    BY <1>0, <1>2, <2>1, TodoAgrega, AckCampos
  <2>3. Todo(s2c, Antes) /\ Esperada # FE => Todo(s2c', Antes)
    BY <1>0, <1>2, <2>1, TodoAgrega, AckCampos
  <2>. QED  BY <1>0, <2>1, <2>2, <2>3 DEF SuArchivo, SusNombres
<1>11. CASE Arranca
  BY <1>0, <1>11 DEF Arranca, SuArchivo, SusNombres
<1>. QED  BY <1>4, <1>5, <1>6, <1>7, <1>8, <1>9, <1>10, <1>11 DEF Mueve

\* The copy stays as it is.
LEMMA ResumenMueve ==
    ASSUME Mueve, archivo' = archivo, SuArchivo, Todo(c2s, {FD}), Resumenes
    PROVE  SuArchivo' /\ Todo(c2s', {FD}) /\ Resumenes' /\ disco' = disco
<1>. USE NumerosDeDatos
<1>1. ASSUME Quita(c2s, c2s')
      PROVE  c2s[1].nro = FD /\ Todo(c2s', {FD})
  BY <1>1, TodoQuita
<1>2. ASSUME NEW n, n = FD => resumen' = <<disco[archivo]>>, disco' = disco,
             s2c' = s2c \/ Quita(s2c, s2c') \/ Agrega(s2c, s2c', AckDe(n))
      PROVE  \A k \in 1..Len(s2c') :
               s2c'[k].nro = FD => s2c'[k].resumen = <<disco'[archivo']>>
  <2>0. \A k \in 1..Len(s2c) : s2c[k].nro = FD => s2c[k].resumen = <<disco[archivo]>>
    BY DEF Resumenes
  <2>1. AckDe(n).nro = n /\ AckDe(n).resumen = resumen'
    BY DEF AckDe
  <2>4. disco'[archivo'] = disco[archivo]
    BY <1>2
  <2>. SUFFICES ASSUME NEW k \in 1..Len(s2c'), s2c'[k].nro = FD
                PROVE  s2c'[k].resumen = <<disco[archivo]>>
    BY <2>4
  <2>2. CASE Quita(s2c, s2c')
    <3>1. Corrida(s2c, s2c')
      BY <2>2, TrasQuita
    <3>2. k + 1 \in 1..Len(s2c) /\ s2c'[k] = s2c[k + 1]
      BY <3>1 DEF Corrida
    <3>. QED  BY <2>0, <3>2
  <2>3. CASE Agrega(s2c, s2c', AckDe(n))
    <3>1. (k \in 1..Len(s2c) /\ s2c'[k] = s2c[k]) \/ s2c'[k] = AckDe(n)
      BY <2>3 DEF Agrega
    <3>. QED  BY <1>2, <2>0, <2>1, <3>1
  <2>5. CASE s2c' = s2c
    <3>1. k \in 1..Len(s2c) /\ s2c'[k] = s2c[k]
      BY <2>5
    <3>. QED  BY <2>0, <3>1
  <2>. QED  BY <1>2, <2>2, <2>3, <2>5
<1>3. CASE LeeNombre \/ LeeFin \/ LeeDatos
  BY <1>1, <1>3 DEF LeeNombre, LeeFin, LeeDatos
<1>4. CASE LeePedido
  BY <1>1, <1>2, <1>4 DEF LeePedido, SuArchivo, Resumenes
<1>5. CASE Pierde
  BY <1>1, <1>2, <1>5 DEF Pierde, Igual, SuArchivo, Resumenes
<1>6. CASE PierdeVuelta
  BY <1>2, <1>6 DEF PierdeVuelta, Igual, SuArchivo, Resumenes
<1>7. CASE Repite
  BY <1>2, <1>7 DEF Repite, Igual, SuArchivo, Resumenes
<1>8. CASE Arranca
  BY <1>2, <1>8 DEF Arranca, SuArchivo, Resumenes
<1>. QED  BY <1>3, <1>4, <1>5, <1>6, <1>7, <1>8 DEF Mueve

\* The server's number never becomes a 0xFF.
LEMMA EsperadaMueve ==
    ASSUME Mueve, Esperada # FF
    PROVE  Esperada' # FF
  BY NumerosDeDatos
     DEF Mueve, LeeNombre, LeeFin, LeePedido, LeeDatos, Pierde, PierdeVuelta, Repite,
         Arranca, Igual

----------------------------------------------------------------------------
(* The steps of the client *)

Limpios == NombreLimpio /\ DatosLimpios /\ FinLimpio /\ ResumenLimpio

\* The client is in one phase at a time: what is left to show is that of the
\* phase that a step leads to.
LEMMA DestinoLimpio ==
    ASSUME informe' = "ninguno" \/ cpc' = "exit",
           \/ EnNombre' /\ NombreLimpio'
           \/ (EnDatos' \/ cpc' = "endOfTx") /\ DatosLimpios'
           \/ cpc' = "esperar" /\ esperado' = FE /\ FinLimpio'
           \/ (EnResumen' \/ cpc' = "exit") /\ ResumenLimpio'
    PROVE  Limpios'
<1>. USE VentanaNoEsControl
<1>. USE DEF EnNombre, EnDatos, Enviando, EnResumen
<1>1. CASE EnNombre' /\ NombreLimpio'
  BY <1>1 DEF Limpios, DatosLimpios, FinLimpio, ResumenLimpio
<1>2. CASE (EnDatos' \/ cpc' = "endOfTx") /\ DatosLimpios'
  BY <1>2 DEF Limpios, NombreLimpio, FinLimpio, ResumenLimpio
<1>3. CASE cpc' = "esperar" /\ esperado' = FE /\ FinLimpio'
  BY <1>3 DEF Limpios, NombreLimpio, DatosLimpios, ResumenLimpio
<1>4. CASE (EnResumen' \/ cpc' = "exit") /\ ResumenLimpio'
  BY <1>4 DEF Limpios, NombreLimpio, DatosLimpios, FinLimpio
<1>. QED  BY <1>1, <1>2, <1>3, <1>4

\* A step in which the client sends nothing is, for what is on the wire, the
\* loss of what it read.
LEMMA LecturaMueve ==
    ASSUME TipoInv, UNCHANGED serverVars, c2s' = c2s, s2c' = s2c \/ Leer
    PROVE  Mueve
<1>1. Igual /\ disco' = disco
  BY DEF Igual, Esperada, serverVars, ventanaVars, archivoVars
<1>2. CASE s2c' = s2c
  BY <1>1, <1>2 DEF Repite, Mueve
<1>3. CASE Leer
  BY <1>1, <1>3, LeerQuita DEF PierdeVuelta, Mueve
<1>. QED  BY <1>2, <1>3

\* esperar_ack() returns an error, or goes on.
LEMMA EsperaFallida ==
    ASSUME cpc = "esperar",
           AckDeOtro \/ NoEsAck \/ LimitePaquetes \/ TimeoutCliente
    PROVE  /\ c2s' = c2s /\ (s2c' = s2c \/ Leer)
           /\ UNCHANGED <<archivo, esperado, informe>>
           /\ cpc' = "esperar" \/ (\E r : cpc' = Reintento(r))
  BY DEF AckDeOtro, NoEsAck, LimitePaquetes, TimeoutCliente, Reintentar, clientVars

\* Each phase leads to itself or to the next: naming the file.
LEMMA NombreCliente ==
    ASSUME TipoInv, EnNombre, informe = "ninguno", Esperada # FF, NombreLimpio,
           ClientNext, UNCHANGED serverVars
    PROVE  Limpios'
<1>. USE NumerosDeDatos, VentanaNoEsControl
<1>1. CASE EnviarNombre
  <2>. DEFINE t == Orden(FF, archivo)
  <2>1. /\ Agrega(c2s, c2s', t) /\ t.nro = FF /\ t.archivo = archivo
        /\ UNCHANGED <<s2c, archivo, informe, path, nro_secuencia_anterior>>
        /\ EnNombre'
    BY <1>1, EnviarAgrega DEF EnviarNombre, EnNombre, Orden, serverVars, archivoVars,
                              ventanaVars
  <2>. HIDE DEF t
  <2>2. /\ SusNombres
        /\ \A i \in 1..Len(c2s) : c2s[i].nro = FF =>
             \A j \in i..Len(c2s) : c2s[j].nro = FF
        /\ \A k \in 1..Len(s2c) : s2c[k].nro = FF =>
             /\ SuArchivo /\ Esperada \in NroDatos /\ Todo(c2s, {FF})
             /\ \A j \in k..Len(s2c) : s2c[j].nro \in NroDatos \cup {FF}
    BY DEF NombreLimpio
  <2>3. SusNombres'
    BY <2>1, <2>2, NombraAgrega DEF SusNombres
  <2>4. ASSUME NEW i \in 1..Len(c2s'), c2s'[i].nro = FF, NEW j \in i..Len(c2s')
        PROVE  c2s'[j].nro = FF
    <3>0. Alargada(c2s, c2s', t)
      BY <2>1, TrasAgrega
    <3>1. \/ /\ i \in 1..Len(c2s) /\ c2s'[i] = c2s[i]
             /\ (j \in i..Len(c2s) /\ c2s'[j] = c2s[j]) \/ c2s'[j] = t
          \/ c2s'[j] = t
      BY <2>4, <3>0 DEF Alargada
    <3>. QED  BY <2>1, <2>2, <2>4, <3>1
  <2>5. ASSUME NEW k \in 1..Len(s2c'), s2c'[k].nro = FF
        PROVE  /\ SuArchivo' /\ Esperada' \in NroDatos /\ Todo(c2s', {FF})
               /\ \A j \in k..Len(s2c') : s2c'[j].nro \in NroDatos \cup {FF}
    <3>1. /\ SuArchivo /\ Esperada \in NroDatos /\ Todo(c2s, {FF})
          /\ \A j \in k..Len(s2c) : s2c[j].nro \in NroDatos \cup {FF}
      BY <2>1, <2>2, <2>5
    <3>2. Todo(c2s', {FF})
      BY <2>1, <3>1, TodoAgrega
    <3>. QED  BY <2>1, <3>1, <3>2 DEF SuArchivo, Esperada
  <2>6. NombreLimpio'
    BY <2>3, <2>4, <2>5 DEF NombreLimpio
  <2>. QED  BY <2>1, <2>6, DestinoLimpio
<1>2. CASE AckEsperado
  <2>1. /\ cpc = "esperar" /\ esperado = FF /\ Leer /\ ack.nro = FF /\ cpc' = "leer"
        /\ UNCHANGED <<c2s, archivo, informe, path, nro_secuencia_anterior>>
    BY <1>2 DEF AckEsperado, EnNombre, serverVars, archivoVars, ventanaVars
  <2>2. 1 \in 1..Len(s2c) /\ s2c[1].nro = FF /\ Quita(s2c, s2c')
    BY <2>1, LeerQuita
  <2>3. /\ SuArchivo /\ Esperada \in NroDatos /\ Todo(c2s, {FF}) /\ SusNombres
        /\ \A j \in 1..Len(s2c) : s2c[j].nro \in NroDatos \cup {FF}
    BY <2>2 DEF NombreLimpio
  <2>4. Todo(c2s', NroDatos \cup {FF}) /\ Todo(s2c', NroDatos \cup {FF})
    BY <2>1, <2>2, <2>3, TodoQuita DEF Todo
  <2>5. DatosLimpios'
    BY <2>1, <2>3, <2>4 DEF DatosLimpios, SuArchivo, SusNombres, Esperada
  <2>. QED  BY <2>1, <2>5, DestinoLimpio DEF EnDatos
<1>3. CASE AckDeOtro \/ NoEsAck \/ LimitePaquetes \/ TimeoutCliente
  <2>1. cpc = "esperar" /\ esperado = FF
    BY <1>3 DEF AckDeOtro, NoEsAck, LimitePaquetes, TimeoutCliente, EnNombre
  <2>2. /\ c2s' = c2s /\ (s2c' = s2c \/ Leer)
        /\ UNCHANGED <<archivo, esperado, informe>>
        /\ EnNombre'
    BY <1>3, <2>1, EsperaFallida, ReintentoDestino DEF EnNombre
  <2>3. NombreLimpio'
    BY <2>2, LecturaMueve, NombreMueve
  <2>. QED  BY <2>2, <2>3, DestinoLimpio
<1>. QED
  BY <1>1, <1>2, <1>3
     DEF ClientNext, EnNombre, LeerTramo, LeerFin, EnviarChunk, ReenviarUltimo,
         LlenarHueco, EnviarFin, PedirResumen, AckConHuecos, RecibirResumen,
         OtroEnVezDeResumen, LimitePaquetesResumen, NuevoCliente

\* A chunk of the window goes out.
LEMMA ChunkCliente ==
    ASSUME TipoInv, EnviarChunk \/ ReenviarUltimo \/ LlenarHueco
    PROVE  /\ \E t : Agrega(c2s, c2s', t) /\ t.nro \in NroDatos
           /\ UNCHANGED <<s2c, archivo, informe>>
           /\ EnDatos'
<1>. USE DEF TipoInv, TypeOK, ClientTypeOK
<1>1. ASSUME NEW p \in Pos, NEW d, Enviar(Datos(nro_secuencia_enviado + p, d))
      PROVE  \E t : Agrega(c2s, c2s', t) /\ t.nro \in NroDatos
  <2>1. Agrega(c2s, c2s', Datos(nro_secuencia_enviado + p, d))
    BY <1>1, EnviarAgrega
  <2>2. Datos(nro_secuencia_enviado + p, d).nro \in NroDatos
    BY NroDeChunk DEF Datos
  <2>. QED  BY <2>1, <2>2
<1>2. CASE EnviarChunk
  <2>1. cantidad_ack \in Pos
    <3>1. cpc = "tramo"
      BY <1>2 DEF EnviarChunk
    <3>2. cantidad_ack < CANT_CHUNKS
      BY <3>1 DEF InvCliente
    <3>3. cantidad_ack \in 0..CANT_CHUNKS
      OBVIOUS
    <3>. QED  BY <3>2, <3>3, VentanaAssumption DEF Pos
  <2>2. UNCHANGED <<s2c, archivo, informe, nro_secuencia_enviado>> /\ EnDatos'
    BY <1>2 DEF EnviarChunk, tramoVars, EnDatos, Enviando
  <2>. QED  BY <1>1, <1>2, <2>1, <2>2 DEF EnviarChunk
<1>3. CASE ReenviarUltimo
  <2>1. UNCHANGED <<s2c, archivo, informe>> /\ EnDatos'
    BY <1>3 DEF ReenviarUltimo, InvCliente, EnDatos, Enviando
  <2>. QED  BY <1>1, <1>3, <2>1 DEF ReenviarUltimo
<1>4. CASE LlenarHueco
  <2>1. PICK p \in huecos : Enviar(Datos(nro_secuencia_enviado + p, ChunkDeHueco(p)))
    BY <1>4 DEF LlenarHueco
  <2>2. UNCHANGED <<s2c, archivo, informe>> /\ EnDatos'
    BY <1>4 DEF LlenarHueco, InvCliente, EnDatos, Enviando
  <2>. QED  BY <1>1, <2>1, <2>2
<1>. QED  BY <1>2, <1>3, <1>4

\* Sending the windows, to the 0xFE that ends them.
LEMMA DatosCliente ==
    ASSUME TipoInv, EnDatos \/ cpc = "endOfTx", informe = "ninguno", DatosLimpios,
           ClientNext, UNCHANGED serverVars
    PROVE  Limpios'
<1>. USE NumerosDeDatos
<1>0. /\ SuArchivo /\ Esperada \in NroDatos /\ SusNombres
      /\ Todo(c2s, NroDatos \cup {FF}) /\ Todo(s2c, NroDatos \cup {FF})
  BY DEF DatosLimpios
<1>a. path' = path /\ Esperada' = Esperada
  BY DEF serverVars, archivoVars, ventanaVars, Esperada
<1>b. cpc = "esperar" => esperado \in Ventanas /\ esperado # FF /\ esperado # FE
  BY VentanaNoEsControl DEF EnDatos, Enviando
<1>1. CASE EnviarChunk \/ ReenviarUltimo \/ LlenarHueco
  <2>1. PICK t : Agrega(c2s, c2s', t) /\ t.nro \in NroDatos
    BY <1>1, ChunkCliente
  <2>2. UNCHANGED <<s2c, archivo, informe>> /\ EnDatos'
    BY <1>1, ChunkCliente
  <2>3. SusNombres' /\ Todo(c2s', NroDatos \cup {FF})
    BY <1>0, <2>1, <2>2, TodoAgrega, NombraAgrega DEF SusNombres
  <2>4. DatosLimpios'
    BY <1>0, <1>a, <2>2, <2>3 DEF DatosLimpios, SuArchivo
  <2>. QED  BY <2>2, <2>4, DestinoLimpio
<1>2. CASE EnviarFin
  <2>. DEFINE t == Orden(FE, 0)
  <2>1. /\ Agrega(c2s, c2s', t) /\ t.nro = FE
        /\ cpc' = "esperar" /\ esperado' = FE
        /\ UNCHANGED <<s2c, archivo, informe>>
    BY <1>2, EnviarAgrega DEF EnviarFin, Orden
  <2>. HIDE DEF t
  <2>2. /\ SusNombres'
        /\ Todo(c2s', NroDatos \cup {FF, FE}) /\ Todo(s2c', NroDatos \cup {FF, FE})
    <3>1. Todo(c2s, NroDatos \cup {FF, FE}) /\ Todo(s2c, NroDatos \cup {FF, FE})
      BY <1>0 DEF Todo
    <3>. QED  BY <1>0, <2>1, <3>1, TodoAgrega, NombraAgrega DEF SusNombres
  <2>3. AlFinal(c2s', FE)
    <3>1. \A i \in 1..Len(c2s) : c2s[i].nro # FE
      BY <1>0 DEF Todo
    <3>2. ASSUME NEW i \in 1..Len(c2s'), c2s'[i].nro = FE
          PROVE  i = Len(c2s')
      <4>1. \/ i \in 1..Len(c2s) /\ c2s'[i] = c2s[i]
            \/ i = Len(c2s')
        BY <2>1 DEF Agrega
      <4>. QED  BY <3>1, <3>2, <4>1
    <3>. QED  BY <3>2 DEF AlFinal
  <2>4. FinLimpio'
    BY <1>0, <1>a, <2>1, <2>2, <2>3 DEF FinLimpio, SuArchivo
  <2>. QED  BY <2>1, <2>4, DestinoLimpio
<1>3. ASSUME c2s' = c2s, s2c' = s2c \/ Leer, UNCHANGED <<archivo, informe>>,
             EnDatos' \/ cpc' = "endOfTx"
      PROVE  Limpios'
  BY <1>3, LecturaMueve, DatosMueve, DestinoLimpio
<1>4. CASE LeerTramo \/ LeerFin
  BY <1>3, <1>4 DEF LeerTramo, LeerFin, linkVars, EnDatos, Enviando
<1>5. CASE AckEsperado
  BY <1>3, <1>5, <1>b DEF AckEsperado, EnDatos
<1>6. CASE AckConHuecos
  BY <1>3, <1>6 DEF AckConHuecos, EnDatos, Enviando
<1>7. CASE AckDeOtro \/ NoEsAck \/ LimitePaquetes \/ TimeoutCliente
  <2>1. cpc = "esperar"
    BY <1>7 DEF AckDeOtro, NoEsAck, LimitePaquetes, TimeoutCliente
  <2>2. EnDatos'
    BY <1>7, <1>b, <2>1, EsperaFallida, ReintentoDestino DEF EnDatos, Enviando
  <2>. QED  BY <1>3, <1>7, <2>1, <2>2, EsperaFallida
<1>. QED
  BY <1>1, <1>2, <1>4, <1>5, <1>6, <1>7
     DEF ClientNext, EnDatos, Enviando, EnviarNombre, PedirResumen, RecibirResumen,
         OtroEnVezDeResumen, LimitePaquetesResumen, NuevoCliente

\* Waiting for ACK 0xFE, to the comparison of the digests.
LEMMA FinCliente ==
    ASSUME TipoInv, cpc = "esperar" /\ esperado = FE, informe = "ninguno", FinLimpio,
           ClientNext, UNCHANGED serverVars
    PROVE  Limpios'
<1>. USE NumerosDeDatos, VentanaNoEsControl
<1>1. CASE AckEsperado
  <2>0. /\ SuArchivo /\ Esperada \in NroDatos \cup {FE}
        /\ Todo(s2c, NroDatos \cup {FF, FE})
        /\ ~ Todo(s2c, NroDatos \cup {FF}) => Len(c2s) = 0
    BY DEF FinLimpio
  <2>1. /\ Leer /\ ack.nro = FE /\ cpc' = "compareChecksum"
        /\ UNCHANGED <<c2s, archivo, informe, path, nro_secuencia_anterior, disco>>
    BY <1>1 DEF AckEsperado, serverVars, archivoVars, ventanaVars
  <2>2. Quita(s2c, s2c') /\ s2c[1].nro = FE
    BY <2>1, LeerQuita
  <2>3. Len(c2s) = 0
    BY <2>0, <2>2, TodoQuita
  <2>4. Todo(c2s', {FD})
    BY <2>1, <2>3 DEF Todo
  <2>5. Todo(s2c', NroDatos \cup {FF, FE})
    BY <2>0, <2>2, TodoQuita
  <2>6. Resumenes'
    BY <2>0, <2>1, <2>5 DEF Resumenes, Todo, Esperada
  <2>7. ResumenLimpio'
    BY <2>0, <2>1, <2>4, <2>6 DEF ResumenLimpio, SuArchivo
  <2>. QED  BY <2>1, <2>7, DestinoLimpio DEF EnResumen
<1>2. CASE AckDeOtro \/ NoEsAck \/ LimitePaquetes \/ TimeoutCliente
  <2>1. /\ c2s' = c2s /\ (s2c' = s2c \/ Leer)
        /\ UNCHANGED <<archivo, esperado, informe>>
        /\ cpc' = "esperar"
    BY <1>2, EsperaFallida, ReintentoDestino
  <2>2. FinLimpio'
    BY <2>1, LecturaMueve, FinMueve
  <2>. QED  BY <2>1, <2>2, DestinoLimpio
<1>. QED
  BY <1>1, <1>2
     DEF ClientNext, EnviarNombre, LeerTramo, LeerFin, EnviarChunk, ReenviarUltimo,
         LlenarHueco, EnviarFin, PedirResumen, AckConHuecos, RecibirResumen,
         OtroEnVezDeResumen, LimitePaquetesResumen, NuevoCliente

\* Comparing the digests, to the verdict.
LEMMA ResumenCliente ==
    ASSUME TipoInv, EnResumen, informe = "ninguno", ResumenLimpio,
           ClientNext, UNCHANGED serverVars
    PROVE  Limpios' /\ VeredictoTrasCortes'
<1>0. SuArchivo /\ Todo(c2s, {FD}) /\ Resumenes
  BY DEF ResumenLimpio
<1>a. UNCHANGED <<path, nro_secuencia_anterior, disco, resumen>>
  BY DEF serverVars, archivoVars, ventanaVars
<1>1. CASE PedirResumen \/ LimitePaquetesResumen
  <2>. DEFINE t == Orden(FD, 0)
  <2>1. /\ Agrega(c2s, c2s', t) /\ t.nro = FD /\ EnResumen' /\ cpc' # "exit"
        /\ UNCHANGED <<s2c, archivo, informe>>
    BY <1>1, EnviarAgrega
       DEF PedirResumen, LimitePaquetesResumen, Orden, EnResumen, clientVars
  <2>. HIDE DEF t
  <2>2. Todo(c2s', {FD})
    BY <1>0, <2>1, TodoAgrega
  <2>3. ResumenLimpio'
    BY <1>0, <1>a, <2>1, <2>2 DEF ResumenLimpio, SuArchivo, Resumenes, Esperada
  <2>. QED  BY <2>1, <2>3, DestinoLimpio DEF VeredictoTrasCortes
<1>2. CASE OtroEnVezDeResumen
  <2>1. /\ c2s' = c2s /\ Leer /\ EnResumen' /\ cpc' # "exit"
        /\ UNCHANGED <<archivo, informe>>
    BY <1>2 DEF OtroEnVezDeResumen, EnResumen, clientVars
  <2>2. ResumenLimpio'
    BY <1>0, <2>1, LecturaMueve, ResumenMueve DEF ResumenLimpio
  <2>. QED  BY <2>1, <2>2, DestinoLimpio DEF VeredictoTrasCortes
<1>3. CASE RecibirResumen
  <2>1. /\ c2s' = c2s /\ Leer /\ cpc' = "exit" /\ archivo' = archivo
        /\ ack.nro = FD
        /\ informe' = IF ack.resumen = <<Fuente(archivo)>>
                      THEN "correctamente" ELSE "errores"
    BY <1>3 DEF RecibirResumen, EsResumen, Coincide
  <2>2. ResumenLimpio'
    BY <1>0, <2>1, LecturaMueve, ResumenMueve DEF ResumenLimpio
  <2>3. ack.resumen = <<disco[archivo]>>
    BY <1>0, <2>1, LeerQuita DEF Resumenes
  <2>4. ack.resumen = <<Fuente(archivo)>> <=> disco[archivo] = Fuente(archivo)
    BY <2>3
  <2>5. VeredictoTrasCortes'
    BY <1>a, <2>1, <2>4 DEF VeredictoTrasCortes
  <2>. QED  BY <2>1, <2>2, <2>5, DestinoLimpio
<1>. QED
  BY <1>1, <1>2, <1>3
     DEF ClientNext, EnResumen, EnviarNombre, LeerTramo, LeerFin, EnviarChunk,
         ReenviarUltimo, LlenarHueco, EnviarFin, AckEsperado, AckConHuecos, AckDeOtro,
         NoEsAck, LimitePaquetes, TimeoutCliente, NuevoCliente

----------------------------------------------------------------------------
(* The invariant *)

\* The server, the link, and what stops or starts the server.
LEMMA OtrosLimpios ==
    ASSUME Mueve, UNCHANGED clientVars, limpio' = limpio, limpio,
           Esperada # FF, Limpios, VeredictoTrasCortes
    PROVE  Limpios' /\ VeredictoTrasCortes'
<1>0. UNCHANGED <<cpc, archivo, esperado, informe>>
  BY DEF clientVars
<1>a. NombreLimpio /\ DatosLimpios /\ FinLimpio /\ ResumenLimpio
  BY DEF Limpios
<1>1. NombreLimpio'
  BY <1>0, <1>a, NombreMueve DEF NombreLimpio, EnNombre
<1>2. DatosLimpios'
  BY <1>0, <1>a, DatosMueve DEF DatosLimpios, EnDatos, Enviando
<1>3. FinLimpio'
  BY <1>0, <1>a, FinMueve DEF FinLimpio
<1>4. ASSUME EnResumen \/ informe # "ninguno"
      PROVE  ResumenLimpio' /\ disco' = disco
  BY <1>0, <1>4, <1>a, ResumenMueve DEF ResumenLimpio, EnResumen
<1>5. ResumenLimpio'
  BY <1>0, <1>4 DEF ResumenLimpio, EnResumen
<1>6. VeredictoTrasCortes'
  BY <1>0, <1>4 DEF VeredictoTrasCortes
<1>. QED  BY <1>1, <1>2, <1>3, <1>5, <1>6 DEF Limpios

\* A client that did not start over the 0xFF of another.
LEMMA ClienteLimpio ==
    ASSUME TipoInv, ClientNext, UNCHANGED serverVars, cpc # "exit",
           informe = "ninguno", Esperada # FF, Limpios
    PROVE  Limpios' /\ VeredictoTrasCortes'
<1>0. NombreLimpio /\ DatosLimpios /\ FinLimpio /\ ResumenLimpio
  BY DEF Limpios
<1>1. ASSUME informe' = "ninguno" PROVE VeredictoTrasCortes'
  BY <1>1 DEF VeredictoTrasCortes
<1>2. CASE EnResumen
  BY <1>0, <1>2, ResumenCliente
<1>3. CASE ~ EnResumen
  <2>1. Limpios'
    <3>1. EnNombre \/ EnDatos \/ cpc = "endOfTx" \/ (cpc = "esperar" /\ esperado = FE)
      BY <1>3 DEF EnNombre, EnDatos, Enviando, EnResumen, TipoInv, TypeOK, ClientTypeOK,
                  Etapas
    <3>. QED  BY <1>0, <3>1, NombreCliente, DatosCliente, FinCliente
  <2>2. informe' = "ninguno"
    BY <1>3 DEF ClientNext, EnResumen, EnviarNombre, LeerTramo, LeerFin, EnviarChunk,
                ReenviarUltimo, LlenarHueco, EnviarFin, PedirResumen, AckEsperado,
                AckConHuecos, AckDeOtro, NoEsAck, LimitePaquetes, TimeoutCliente,
                Reintentar, clientVars, RecibirResumen, OtroEnVezDeResumen,
                LimitePaquetesResumen, NuevoCliente
  <2>. QED  BY <1>1, <2>1, <2>2
<1>. QED  BY <1>2, <1>3

\* One that found no 0xFF, nor the ACK of one, has nothing to mistake.
LEMMA NuevoLimpio ==
    ASSUME NuevoCliente, ~ NombreEnCamino
    PROVE  Limpios'
<1>1. /\ EnNombre' /\ informe' = "ninguno" /\ UNCHANGED <<c2s, s2c>>
  BY DEF NuevoCliente, EnNombre, linkVars
<1>2. /\ \A i \in 1..Len(c2s') : c2s'[i].nro # FF
      /\ \A k \in 1..Len(s2c') : s2c'[k].nro # FF
  BY <1>1 DEF NombreEnCamino
<1>3. NombreLimpio'
  BY <1>2 DEF NombreLimpio, SusNombres, Nombra
<1>. QED  BY <1>1, <1>3, DestinoLimpio

\* Only a client that exits has given a verdict.
LEMMA InformeAlSalir ==
    ASSUME [CrashNext]_crashVars, informe # "ninguno" => cpc = "exit"
    PROVE  informe' # "ninguno" => cpc' = "exit"
<1>1. CASE ClientNext
  BY <1>1 DEF ClientNext, EnviarNombre, LeerTramo, LeerFin, EnviarChunk,
              ReenviarUltimo, LlenarHueco, EnviarFin, PedirResumen, AckEsperado,
              AckConHuecos, AckDeOtro, NoEsAck, LimitePaquetes, TimeoutCliente,
              Reintentar, clientVars, RecibirResumen, OtroEnVezDeResumen,
              LimitePaquetesResumen, NuevoCliente
<1>2. CASE UNCHANGED clientVars
  BY <1>2 DEF clientVars
<1>3. CASE InterrumpirCliente \/ ErrorDeEnvio
  BY <1>3 DEF InterrumpirCliente, ErrorDeEnvio
<1>. QED
  BY <1>1, <1>2, <1>3
     DEF CrashNext, Paso, Next, Perder, CaidaServidor, ArranqueServidor, crashVars, vars

\* Every step, those of processes that stop and start among them, preserves it.
LEMMA CrashInductivo == CrashInv /\ [CrashNext]_crashVars => CrashInv'
<1>. SUFFICES ASSUME CrashInv, [CrashNext]_crashVars PROVE CrashInv'
  OBVIOUS
<1>0. /\ TipoInv /\ limpio \in BOOLEAN /\ Esperada # FF
      /\ informe # "ninguno" => cpc = "exit"
      /\ limpio => Limpios
      /\ VeredictoTrasCortes
  BY DEF CrashInv, Limpia, Limpios
<1>1. TipoInv' /\ (informe' # "ninguno" => cpc' = "exit")
  BY <1>0, TipoTrasCortes, InformeAlSalir
<1>2. SUFFICES /\ limpio' \in BOOLEAN /\ Esperada' # FF
               /\ limpio' => Limpios' /\ VeredictoTrasCortes'
  <2>1. ~ limpio' => VeredictoTrasCortes'
    BY DEF VeredictoTrasCortes
  <2>2. (limpio' => Limpios') => Limpia'
    BY DEF Limpia, Limpios
  <2>. QED  BY <1>1, <1>2, <2>1, <2>2 DEF CrashInv
<1>a. ASSUME UNCHANGED serverVars PROVE Esperada' = Esperada
  BY <1>a DEF Esperada, serverVars, ventanaVars
<1>b. ASSUME Mueve, UNCHANGED clientVars, limpio' = limpio
      PROVE  /\ limpio' \in BOOLEAN /\ Esperada' # FF
             /\ limpio' => Limpios' /\ VeredictoTrasCortes'
  BY <1>0, <1>b, OtrosLimpios, EsperadaMueve
<1>3. CASE Paso
  <2>1. CASE ClientNext /\ UNCHANGED serverVars
    <3>1. CASE cpc = "exit"
      <4>1. NuevoCliente
        BY <2>1, <3>1 DEF ClientNext, EnviarNombre, LeerTramo, LeerFin, EnviarChunk,
              ReenviarUltimo, LlenarHueco, EnviarFin, PedirResumen, AckEsperado,
              AckConHuecos, AckDeOtro, NoEsAck, LimitePaquetes, TimeoutCliente,
              RecibirResumen, OtroEnVezDeResumen, LimitePaquetesResumen
      <4>2. limpio' = ~ NombreEnCamino /\ cpc' # "exit"
        BY <1>3, <3>1, <4>1 DEF Paso, NuevoCliente
      <4>3. VeredictoTrasCortes'
        BY <4>2 DEF VeredictoTrasCortes
      <4>4. limpio' \in BOOLEAN
        BY <4>2 DEF NombreEnCamino
      <4>. QED  BY <1>0, <1>a, <2>1, <4>1, <4>2, <4>3, <4>4, NuevoLimpio
    <3>2. CASE cpc # "exit"
      <4>1. limpio' = limpio
        BY <1>3, <3>2 DEF Paso
      <4>. QED  BY <1>0, <1>a, <2>1, <3>2, <4>1, ClienteLimpio
    <3>. QED  BY <3>1, <3>2
  <2>2. CASE ~ (ClientNext /\ UNCHANGED serverVars)
    <3>1. UNCHANGED clientVars /\ (ServerNext \/ Perder)
      BY <1>3, <2>2 DEF Paso, Next, Perder
    <3>2. limpio' = limpio
      BY <1>3, <3>1 DEF Paso, clientVars
    <3>3. Mueve
      BY <1>0, <3>1, ServidorMueve, OtrosMueven
    <3>. QED  BY <1>b, <3>1, <3>2, <3>3
  <2>. QED  BY <2>1, <2>2
<1>4. CASE CaidaServidor \/ ArranqueServidor
  <2>1. UNCHANGED clientVars /\ limpio' = limpio
    BY <1>4 DEF CaidaServidor, ArranqueServidor, Corte
  <2>. QED  BY <1>0, <1>4, <1>b, <2>1, OtrosMueven
<1>5. CASE InterrumpirCliente \/ ErrorDeEnvio
  <2>1. /\ cpc # "exit" /\ cpc' = "exit" /\ UNCHANGED <<informe, serverVars>>
        /\ limpio' = limpio
    BY <1>5 DEF InterrumpirCliente, ErrorDeEnvio, Corte
  <2>2. informe' = "ninguno"
    BY <1>0, <2>1
  <2>3. Limpios'
    BY <2>1, <2>2 DEF Limpios, NombreLimpio, DatosLimpios, FinLimpio, ResumenLimpio,
                      EnNombre, EnDatos, Enviando, EnResumen
  <2>4. VeredictoTrasCortes'
    BY <2>2 DEF VeredictoTrasCortes
  <2>. QED  BY <1>0, <1>a, <2>1, <2>3, <2>4
<1>6. CASE UNCHANGED crashVars
  <2>1. UNCHANGED <<linkVars, clientVars, serverVars, limpio>>
    BY <1>6 DEF crashVars, vars
  <2>2. Mueve
    BY <2>1 DEF Mueve, Repite, Igual, linkVars, serverVars, archivoVars, ventanaVars,
                Esperada
  <2>. QED  BY <1>b, <2>1, <2>2
<1>. QED  BY <1>3, <1>4, <1>5, <1>6 DEF CrashNext

\* It holds at the start.
LEMMA CrashInicio == CrashInit => CrashInv
<1>. SUFFICES ASSUME CrashInit PROVE CrashInv
  OBVIOUS
<1>1. TipoInv
  BY InitTipo DEF CrashInit
<1>2. /\ c2s = <<>> /\ s2c = <<>> /\ cpc = "startOfTx" /\ informe = "ninguno"
      /\ limpio = TRUE /\ Esperada = TOPE - 1
  BY DEF CrashInit, Init, LinkInit, ClientInit, ServerInit, Esperada
<1>3. NombreLimpio
  BY <1>2 DEF NombreLimpio, SusNombres, Nombra
<1>4. Limpia
  BY <1>2, <1>3 DEF Limpia, DatosLimpios, FinLimpio, ResumenLimpio, EnDatos, Enviando,
                    EnResumen
<1>5. Esperada # FF
  BY <1>2, VentanaAssumption DEF FF
<1>. QED  BY <1>1, <1>2, <1>4, <1>5 DEF CrashInv, VeredictoTrasCortes

\* So it holds always.
LEMMA CrashInvariante == CrashSpec => []CrashInv
  BY CrashInicio, CrashInductivo, PTL DEF CrashSpec

\* Types survive every stop and start: memory that is lost is the memory of a
\* process that starts.
THEOREM TipoConCortes == CrashSpec => []TypeOK
<1>1. CrashInv => TypeOK
  BY DEF CrashInv, TipoInv
<1>. QED  BY <1>1, CrashInvariante, PTL

\* However many clients are interrupted or die, and however often the server is
\* killed and started again, the verdict of compareChecksum() (client.c:958 and
\* 963) of a client that found no 0xFF of another on its way is the truth.
THEOREM VeredictoConCortes == CrashSpec => []VeredictoTrasCortes
<1>1. CrashInv => VeredictoTrasCortes
  BY DEF CrashInv
<1>. QED  BY <1>1, CrashInvariante, PTL
=============================================================================
