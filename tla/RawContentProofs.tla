-------------------------- MODULE RawContentProofs --------------------------
(***************************************************************************)
(* What the frames and the buffers contain is the file: for every size of  *)
(* window, chunk, file and frame and every capacity of the link, the grids *)
(* tell the truth, nothing is dropped before the server has it, the copy   *)
(* only grows, and the verdict on it is right.  The steps of the transfer  *)
(* are steps of FileCopy.                                                  *)
(***************************************************************************)
EXTENDS RawOrderProofs, FiniteSetTheorems

USE VentanaAssumption, ChunkAssumption, ArchivosAssumption, CapacidadAssumption
    DEF VentanaAssumption, ChunkAssumption, ArchivosAssumption, CapacidadAssumption

----------------------------------------------------------------------------
(* Places in a window *)

\* Chunks are one behind the other.
LEMMA Lugar ==
    ASSUME NEW p \in Nat
    PROVE  p * CHUNK \in Nat /\ (p + 1) * CHUNK = p * CHUNK + CHUNK
  BY Z3

\* The first chunk begins where the window does.
LEMMA LugarCero == 0 * CHUNK = 0
  OBVIOUS

\* An earlier chunk ends before a later one.
LEMMA LugarAntes ==
    ASSUME NEW p \in Nat, NEW q \in Nat, p < q
    PROVE  p * CHUNK + CHUNK <= q * CHUNK
<1>. DEFINE d == q - (p + 1)
<1>1. d \in Nat /\ q = (p + 1) + d
  OBVIOUS
<1>. HIDE DEF d
<1>2. q * CHUNK = (p + 1) * CHUNK + d * CHUNK
  BY <1>1, Z3
<1>3. d * CHUNK >= 0
  BY <1>1, Z3
<1>4. (p + 1) * CHUNK = p * CHUNK + CHUNK
  BY Z3
<1>. QED  BY <1>2, <1>3, <1>4, Lugar

\* Every chunk of a window fits in it.
LEMMA LugarDentro ==
    ASSUME NEW p \in Pos
    PROVE  p * CHUNK \in Nat /\ p * CHUNK + CHUNK <= LARGO_TRAMO
<1>1. p \in Nat /\ CANT_CHUNKS \in Nat /\ p < CANT_CHUNKS
  BY DEF Pos
<1>2. p * CHUNK + CHUNK <= CANT_CHUNKS * CHUNK
  BY <1>1, LugarAntes
<1>. QED  BY <1>1, <1>2, Lugar DEF LARGO_TRAMO

\* The smaller of two numbers is one of them.
LEMMA MenorDe ==
    ASSUME NEW a \in Int, NEW b \in Int
    PROVE  /\ Menor(a, b) \in {a, b} /\ Menor(a, b) <= a /\ Menor(a, b) <= b
           /\ Menor(a, b) \in Int
  BY DEF Menor

\* The size of a file is a number.
LEMMA LargoTipo ==
    ASSUME NEW f \in Archivos
    PROVE  Largo[f] \in Nat
  OBVIOUS

\* The bytes of a window are in it and in the file.
LEMMA VentanaTipo ==
    ASSUME NEW f \in Archivos, NEW b \in 0..Largo[f]
    PROVE  /\ LargoVentana(f, b) \in 0..LARGO_TRAMO
           /\ LargoVentana(f, b) <= Largo[f] - b
           /\ LargoVentana(f, b) \in {LARGO_TRAMO, Largo[f] - b}
<1>1. Largo[f] \in Nat /\ LARGO_TRAMO \in Nat
  BY TramoTipo
<1>2. Largo[f] - b \in Nat
  BY <1>1
<1>. QED  BY <1>1, <1>2 DEF LargoVentana, Menor

\* A chunk of a window has a byte at least, and no more than a chunk.
LEMMA ChunkTipo ==
    ASSUME NEW f \in Archivos, NEW b \in 0..Largo[f], NEW p \in Pos, EnVentana(f, b, p)
    PROVE  /\ LargoChunk(f, b, p) \in 1..CHUNK
           /\ p * CHUNK + LargoChunk(f, b, p) <= LargoVentana(f, b)
           /\ Lleno(f, b, p) => LargoChunk(f, b, p) = CHUNK
<1>1. LargoVentana(f, b) \in Nat /\ p * CHUNK \in Nat /\ p \in Nat
  BY VentanaTipo, LugarDentro, TramoTipo DEF Pos
<1>2. (p + 1) * CHUNK = p * CHUNK + CHUNK
  BY <1>1, Lugar
<1>. QED  BY <1>1, <1>2 DEF EnVentana, Lleno, LargoChunk, Menor

\* In an exact window all chunks have one length.
LEMMA ChunkExacto ==
    ASSUME NEW f \in Archivos, NEW b \in 0..Largo[f], NEW p \in Pos,
           EnVentana(f, b, p), Exacta(f, b)
    PROVE  /\ LargoChunk(f, b, p) = Menor(CHUNK, LargoVentana(f, b))
           /\ LargoChunk(f, b, p) >= MIN_DATOS
<1>1. LargoVentana(f, b) \in Nat /\ p * CHUNK \in Nat /\ p \in Nat
  BY VentanaTipo, LugarDentro, TramoTipo DEF Pos
<1>2. CASE Lleno(f, b, p)
  <2>1. (p + 1) * CHUNK = p * CHUNK + CHUNK
    BY <1>1, Lugar
  <2>. QED  BY <1>1, <1>2, <2>1 DEF Lleno, LargoChunk, Menor
<1>3. CASE ~Lleno(f, b, p)
  <2>1. LargoVentana(f, b) \in MIN_DATOS..CHUNK
    BY <1>3 DEF Exacta
  <2>2. p = 0
    <3>. SUFFICES ASSUME 0 < p PROVE FALSE
      BY <1>1
    <3>1. CHUNK <= p * CHUNK
      BY <1>1, LugarAntes, LugarCero
    <3>. QED  BY <1>1, <2>1, <3>1 DEF EnVentana
  <2>. QED  BY <1>1, <2>1, <2>2, LugarCero DEF LargoChunk, Menor
<1>. QED  BY <1>2, <1>3

\* A whole window of the file is exact.
LEMMA EnteraExacta ==
    ASSUME NEW f \in Archivos, NEW b \in 0..Largo[f], LargoVentana(f, b) = LARGO_TRAMO
    PROVE  /\ Exacta(f, b)
           /\ \A p \in Pos : EnVentana(f, b, p)
           /\ Menor(CHUNK, LargoVentana(f, b)) = CHUNK
<1>1. ASSUME NEW p \in Pos PROVE EnVentana(f, b, p) /\ Lleno(f, b, p)
  <2>1. p * CHUNK \in Nat /\ (p + 1) * CHUNK = p * CHUNK + CHUNK
    BY Lugar DEF Pos
  <2>2. p * CHUNK + CHUNK <= LARGO_TRAMO /\ LARGO_TRAMO \in Nat
    BY LugarDentro, TramoTipo
  <2>. QED  BY <2>1, <2>2 DEF EnVentana, Lleno
<1>2. CHUNK <= LARGO_TRAMO
  <2>1. 0 \in Pos
    BY DEF Pos
  <2>. QED  BY <2>1, LugarDentro, LugarCero
<1>. QED  BY <1>1, <1>2, TramoTipo DEF Exacta, Menor

----------------------------------------------------------------------------
(* Windows of a file *)

\* The remainder by any positive number.
LEMMA Cociente ==
    ASSUME NEW d \in Nat \ {0}, NEW n \in Nat
    PROVE  /\ n % d \in 0..(d - 1) /\ n \div d \in Nat
           /\ n = d * (n \div d) + (n % d)
  BY Z3

\* The remainder of a multiple and something smaller than the divisor.
LEMMA Resto ==
    ASSUME NEW d \in Nat \ {0}, NEW q \in Nat, NEW r \in 0..(d - 1)
    PROVE  (d * q + r) % d = r
  BY Z3

\* A multiple of the divisor does not change the remainder.
LEMMA RestoSuma ==
    ASSUME NEW d \in Nat \ {0}, NEW n \in Nat, NEW m \in Nat, n % d = 0
    PROVE  (n + m) % d = m % d
<1>1. n = d * (n \div d) /\ n \div d \in Nat
  BY Cociente
<1>2. m = d * (m \div d) + (m % d) /\ m \div d \in Nat /\ m % d \in 0..(d - 1)
  BY Cociente
<1>. DEFINE i == n \div d
            j == m \div d
            r == m % d
<1>3. i \in Nat /\ j \in Nat /\ r \in 0..(d - 1) /\ n + m = d * i + (d * j + r)
  BY <1>1, <1>2
<1>. HIDE DEF i, j, r
<1>4. d * i + (d * j + r) = d * (i + j) + r
  BY <1>3, Z3
<1>5. (d * (i + j) + r) % d = r
  <2>1. i + j \in Nat
    BY <1>3
  <2>. QED  BY <1>3, <2>1, Resto
<1>. QED  BY <1>3, <1>4, <1>5 DEF r

\* The next window begins at the next multiple.
LEMMA RestoSiguiente ==
    ASSUME NEW n \in Nat, n % LARGO_TRAMO = 0
    PROVE  /\ (n + LARGO_TRAMO) % LARGO_TRAMO = 0
           /\ 0 % LARGO_TRAMO = 0
<1>. DEFINE d == LARGO_TRAMO
<1>1. d \in Nat \ {0}
  BY TramoTipo
<1>. HIDE DEF d
<1>2. d % d = 0 /\ 0 % d = 0
  <2>1. d * 1 + 0 = d /\ d * 0 + 0 = 0 /\ 0 \in 0..(d - 1)
    BY <1>1
  <2>2. (d * 1 + 0) % d = 0 /\ (d * 0 + 0) % d = 0
    BY <1>1, <2>1, Resto
  <2>. QED  BY <2>1, <2>2
<1>3. n % d = 0
  BY DEF d
<1>4. (n + d) % d = 0
  BY <1>1, <1>2, <1>3, RestoSuma
<1>. QED  BY <1>2, <1>4 DEF d

\* What is a multiple of a window is one of a chunk.
LEMMA RestoChunk ==
    ASSUME NEW n \in Nat, n % LARGO_TRAMO = 0
    PROVE  n % CHUNK = 0
<1>. DEFINE q == n \div LARGO_TRAMO
<1>1. q \in Nat /\ n = LARGO_TRAMO * q
  BY TramoTipo, Cociente
<1>. HIDE DEF q
<1>2. n = CHUNK * (CANT_CHUNKS * q) + 0
  BY <1>1, Z3 DEF LARGO_TRAMO
<1>3. CANT_CHUNKS * q \in Nat
  BY <1>1, Z3
<1>. QED  BY <1>2, <1>3, Resto

\* In a file that is promised to be copied faithfully every window is exact.
LEMMA ConservableExacta ==
    ASSUME NEW f \in Archivos, NEW b \in 0..Largo[f], b % LARGO_TRAMO = 0, Conservable(f)
    PROVE  Exacta(f, b)
<1>. DEFINE V == LargoVentana(f, b)
            L == LARGO_TRAMO
<1>0. L \in Nat \ {0} /\ Largo[f] \in Nat /\ V \in 0..L /\ V \in {L, Largo[f] - b} /\ b \in Nat
  BY TramoTipo, VentanaTipo
<1>1. CASE V = L
  BY <1>1, EnteraExacta
<1>2. CASE V # L
  <2>1. V = Largo[f] - b /\ V < L /\ V \in Nat /\ Largo[f] = b + V
    BY <1>0, <1>2
  <2>2. CASE Largo[f] % CHUNK = 0
    <3>1. V % CHUNK = 0
      BY <2>1, <2>2, <1>0, RestoChunk, RestoSuma
    <3>2. V = CHUNK * (V \div CHUNK) /\ V \div CHUNK \in Nat
      <4>. HIDE DEF V
      <4>1. /\ V = CHUNK * (V \div CHUNK) + (V % CHUNK)
            /\ V \div CHUNK \in Nat
        BY <2>1, Cociente
      <4>2. CHUNK * (V \div CHUNK) \in Nat
        BY <4>1, Z3
      <4>. QED  BY <3>1, <4>1, <4>2
    <3>3. ASSUME NEW p \in Pos, EnVentana(f, b, p) PROVE Lleno(f, b, p)
      <4>. DEFINE q == V \div CHUNK
      <4>1. q \in Nat /\ V = q * CHUNK /\ p \in Nat
        BY <3>2 DEF Pos
      <4>2. p * CHUNK < V
        BY <3>3 DEF EnVentana
      <4>. HIDE DEF q, V
      <4>3. p < q
        <5>. SUFFICES ASSUME q <= p PROVE FALSE
          BY <4>1
        <5>1. CASE q = p
          BY <4>1, <4>2, <5>1, Lugar
        <5>2. CASE q < p
          BY <4>1, <4>2, <5>2, LugarAntes, Lugar
        <5>. QED  BY <4>1, <5>1, <5>2
      <4>4. p * CHUNK + CHUNK <= V
        BY <4>1, <4>3, LugarAntes
      <4>. QED  BY <4>1, <4>4, Lugar DEF Lleno, V
    <3>. QED  BY <3>3 DEF Exacta
  <2>3. CASE Largo[f] > L /\ Largo[f] % L \in MIN_DATOS..CHUNK
    <3>1. Largo[f] % L = V % L
      BY <2>1, <1>0, RestoSuma
    <3>2. V % L = V
      <4>1. V = L * 0 + V
        BY <1>0
      <4>2. V \in 0..(L - 1)
        BY <1>0, <2>1
      <4>. HIDE DEF V, L
      <4>. QED  BY <1>0, <4>1, <4>2, Resto
    <3>3. V \in MIN_DATOS..CHUNK /\ b > 0
      <4>. HIDE DEF V
      <4>. QED  BY <1>0, <2>1, <2>3, <3>1, <3>2
    <3>. QED  BY <3>3 DEF Exacta
  <2>. QED  BY <2>2, <2>3 DEF Conservable
<1>. QED  BY <1>1, <1>2

----------------------------------------------------------------------------
(* The marks of a grid *)

Grilla == [Pos -> {VACIO, LLENO, MD5}]

\* The three values of a byte of the grid are different.
LEMMA Marcas == VACIO # LLENO /\ LLENO # MD5 /\ VACIO # MD5
  BY DEF VACIO, LLENO, MD5

\* The chunks that a grid marks are finitely many positions.
LEMMA MarcadosFinito ==
    ASSUME NEW g
    PROVE  /\ IsFiniteSet(Marcados(g)) /\ Cardinality(Marcados(g)) \in Nat
           /\ Marcados(g) \subseteq Pos
<1>1. IsFiniteSet(Pos)
  BY FS_Interval DEF Pos
<1>2. Marcados(g) \subseteq Pos
  BY DEF Marcados
<1>. QED  BY <1>1, <1>2, FS_Subset, FS_CardinalityType

\* An empty grid marks nothing.
LEMMA MarcadosVacia ==
    /\ Marcados(GrillaVacia) = {} /\ GrillaVacia \in Grilla
    /\ \A p \in Pos : GrillaVacia[p] \in {VACIO, LLENO}
<1>1. GrillaVacia \in Grilla
  BY DEF GrillaVacia, Grilla
<1>. QED  BY <1>1, Marcas DEF Marcados, GrillaVacia

\* A chunk that was not marked adds one to the count.
LEMMA UnaMarcaMas ==
    ASSUME NEW g \in Grilla, NEW p \in Pos, g[p] = VACIO
    PROVE  /\ Marcados([g EXCEPT ![p] = LLENO]) = Marcados(g) \cup {p}
           /\ Cardinality(Marcados(g) \cup {p}) = Cardinality(Marcados(g)) + 1
<1>1. p \notin Marcados(g)
  BY Marcas DEF Marcados
<1>2. Marcados([g EXCEPT ![p] = LLENO]) = Marcados(g) \cup {p}
  BY DEF Marcados, Grilla
<1>. QED  BY <1>1, <1>2, MarcadosFinito, FS_AddElement

\* A grid that marks nothing, of a window that is not begun.
LEMMA VentanaVacia ==
    ASSUME NEW f, NEW b, NEW w, LargoVentana(f, b) \in Int
    PROVE  Ventana(f, b, GrillaVacia, w, 0)
<1>1. Cardinality(Marcados(GrillaVacia)) = 0
  BY MarcadosVacia, FS_EmptySet
<1>2. Menor(CHUNK, LargoVentana(f, b)) \in Int
  BY MenorDe
<1>3. 0 = 0 * Menor(CHUNK, LargoVentana(f, b))
  BY <1>2
<1>. QED  BY <1>1, <1>3, MarcadosVacia DEF Ventana

\* A byte of the buffer after a copy: one of the chunk, or the one that was there.
LEMMA CopiadoEn ==
    ASSUME NEW w, NEW p, NEW datos, NEW i \in 1..LARGO_TRAMO
    PROVE  Copiado(w, p, datos)[i] = IF i > p * CHUNK /\ i <= p * CHUNK + Len(datos)
                                     THEN datos[i - p * CHUNK] ELSE w[i]
  BY DEF Copiado

\* A chunk that was not received is added to its window (server.c:463-468).
LEMMA AgregaChunk ==
    ASSUME NEW f \in Archivos, NEW b \in 0..Largo[f], NEW g \in Grilla,
           NEW w \in Buffer, NEW bytes \in Nat, NEW p \in Pos, NEW datos \in Seq(Celda),
           Ventana(f, b, g, w, bytes), EsChunk(f, b, p, datos), g[p] = VACIO
    PROVE  Ventana(f, b, [g EXCEPT ![p] = LLENO], Copiado(w, p, datos), bytes + Len(datos))
<1>. DEFINE h == [g EXCEPT ![p] = LLENO]
            v == Copiado(w, p, datos)
<1>1. Marcados(h) = Marcados(g) \cup {p}
      /\ Cardinality(Marcados(h)) = Cardinality(Marcados(g)) + 1
  BY UnaMarcaMas
<1>2. \A q \in Pos : h[q] \in {VACIO, LLENO}
  BY DEF Ventana, Grilla
<1>3. Len(datos) \in Nat /\ Len(datos) <= CHUNK /\ p * CHUNK \in Nat
      /\ LargoChunk(f, b, p) \in 1..CHUNK /\ LargoChunk(f, b, p) <= Len(datos)
  BY LugarDentro, ChunkTipo DEF EsChunk
<1>4. ASSUME NEW q \in Marcados(h)
      PROVE  EnVentana(f, b, q) /\ \A k \in 1..LargoChunk(f, b, q) :
               v[q * CHUNK + k] = <<f, b + q * CHUNK + k>>
  <2>1. q \in Pos /\ q \in Nat /\ p \in Nat /\ EnVentana(f, b, q)
    BY <1>1, <1>4 DEF EsChunk, Ventana, Marcados, Pos
  <2>2. /\ q * CHUNK \in Nat /\ q * CHUNK + CHUNK <= LARGO_TRAMO
        /\ LargoChunk(f, b, q) \in 1..CHUNK
    BY <2>1, LugarDentro, ChunkTipo
  <2>3. ASSUME NEW k \in 1..LargoChunk(f, b, q)
        PROVE  v[q * CHUNK + k] = <<f, b + q * CHUNK + k>>
    <3>1. q * CHUNK + k \in 1..LARGO_TRAMO /\ k \in 1..CHUNK
      BY <2>2, TramoTipo
    <3>. DEFINE i == q * CHUNK + k
    <3>a. i \in 1..LARGO_TRAMO
      BY <3>1
    <3>. HIDE DEF i
    <3>b. Copiado(w, p, datos)[i] = IF i > p * CHUNK /\ i <= p * CHUNK + Len(datos)
                                    THEN datos[i - p * CHUNK] ELSE w[i]
      BY <3>a, CopiadoEn
    <3>2. v[q * CHUNK + k] = IF q * CHUNK + k > p * CHUNK /\ q * CHUNK + k <= p * CHUNK + Len(datos)
                             THEN datos[(q * CHUNK + k) - p * CHUNK] ELSE w[q * CHUNK + k]
      BY <3>b DEF i
    <3>3. CASE q = p
      <4>1. (q * CHUNK + k) - p * CHUNK = k
        BY <2>2, <3>3
      <4>2. k \in 1..LargoChunk(f, b, p)
        BY <2>3, <3>3
      <4>3. datos[k] = <<f, b + p * CHUNK + k>>
        BY <4>2 DEF EsChunk
      <4>. HIDE DEF v
      <4>4. v[q * CHUNK + k] = datos[k]
        BY <1>3, <3>2, <3>3, <4>1, <4>2
      <4>. QED  BY <3>3, <4>3, <4>4
    <3>4. CASE q # p
      <4>1. q \in Marcados(g)
        BY <1>1, <3>4
      <4>2. w[q * CHUNK + k] = <<f, b + q * CHUNK + k>>
        BY <4>1 DEF Ventana
      <4>3. CASE q < p
        <5>1. q * CHUNK + CHUNK <= p * CHUNK
          BY <2>1, <4>3, LugarAntes
        <5>2. ~(q * CHUNK + k > p * CHUNK)
          BY <1>3, <2>2, <3>1, <5>1
        <5>. HIDE DEF v
        <5>. QED  BY <3>2, <4>2, <5>2
      <4>4. CASE p < q
        <5>1. p * CHUNK + CHUNK <= q * CHUNK
          BY <2>1, <4>4, LugarAntes
        <5>2. ~(q * CHUNK + k <= p * CHUNK + Len(datos))
          BY <1>3, <2>2, <3>1, <5>1
        <5>. HIDE DEF v
        <5>. QED  BY <3>2, <4>2, <5>2
      <4>. QED  BY <2>1, <3>4, <4>3, <4>4
    <3>. QED  BY <3>3, <3>4
  <2>. QED  BY <2>1, <2>3
<1>5. Exacta(f, b) => bytes + Len(datos)
                        = Cardinality(Marcados(h)) * Menor(CHUNK, LargoVentana(f, b))
  <2>. SUFFICES ASSUME Exacta(f, b)
                PROVE  bytes + Len(datos)
                        = Cardinality(Marcados(h)) * Menor(CHUNK, LargoVentana(f, b))
    OBVIOUS
  <2>. DEFINE m == Menor(CHUNK, LargoVentana(f, b))
              c == Cardinality(Marcados(g))
  <2>1. Len(datos) = m
    BY ChunkExacto DEF EsChunk
  <2>2. bytes = c * m /\ c \in Nat /\ m \in Nat
    BY <2>1, <1>3, MarcadosFinito DEF Ventana
  <2>3. Cardinality(Marcados(h)) = c + 1
    BY <1>1
  <2>. HIDE DEF m, c, h
  <2>4. (c + 1) * m = c * m + m
    BY <2>2, Z3
  <2>. QED  BY <2>1, <2>2, <2>3, <2>4 DEF m
<1>. HIDE DEF h, v
<1>6. Ventana(f, b, h, v, bytes + Len(datos))
  BY <1>2, <1>4, <1>5 DEF Ventana
<1>. QED  BY <1>6 DEF h, v

\* A window whose chunks were all received, and which is exact, counts its bytes.
LEMMA VentanaContada ==
    ASSUME NEW f \in Archivos, NEW b \in 0..Largo[f], NEW g, NEW w, NEW bytes,
           Ventana(f, b, g, w, bytes), Exacta(f, b),
           \A p \in Pos : EnVentana(f, b, p) => g[p] = LLENO
    PROVE  bytes = LargoVentana(f, b)
<1>. DEFINE V == LargoVentana(f, b)
            n == V \div CHUNK
            r == V % CHUNK
<1>1. V \in 0..LARGO_TRAMO /\ LARGO_TRAMO \in Nat
  BY VentanaTipo, TramoTipo
<1>2. \A p \in Pos : p \in Marcados(g) <=> p * CHUNK < V
  BY DEF Ventana, EnVentana, Marcados
<1>3. bytes = Cardinality(Marcados(g)) * Menor(CHUNK, V)
  BY DEF Ventana
<1>4. CASE \A p \in Pos : EnVentana(f, b, p) => Lleno(f, b, p)
  <2>1. \A p \in Pos : p * CHUNK < V => (p + 1) * CHUNK <= V
    BY <1>4 DEF EnVentana, Lleno
  <2>. HIDE DEF V
  <2>a. V \in Nat
    BY <1>1
  <2>2. n \in Nat /\ r \in 0..(CHUNK - 1) /\ V = CHUNK * n + r
    BY <2>a, Cociente
  <2>. HIDE DEF n, r
  <2>3. n * CHUNK = CHUNK * n /\ n * CHUNK \in Nat
    BY <2>2, Z3
  <2>4. n <= CANT_CHUNKS
    <3>. SUFFICES ASSUME CANT_CHUNKS < n PROVE FALSE
      BY <2>2
    <3>1. CANT_CHUNKS * CHUNK + CHUNK <= n * CHUNK
      BY <2>2, LugarAntes
    <3>2. CANT_CHUNKS * CHUNK = LARGO_TRAMO
      BY DEF LARGO_TRAMO
    <3>. QED  BY <1>1, <2>2, <2>3, <3>1, <3>2
  <2>5. r = 0
    <3>. SUFFICES ASSUME r > 0 PROVE FALSE
      BY <2>2
    <3>1. CASE n = CANT_CHUNKS
      BY <1>1, <2>2, <2>3, <3>1 DEF LARGO_TRAMO
    <3>2. CASE n # CANT_CHUNKS
      <4>1. n \in Pos
        BY <2>2, <2>4, <3>2 DEF Pos
      <4>2. n * CHUNK < V
        BY <2>2, <2>3
      <4>3. n * CHUNK + CHUNK <= V
        BY <2>1, <2>2, <4>1, <4>2, Lugar
      <4>. QED  BY <2>2, <2>3, <4>3
    <3>. QED  BY <3>1, <3>2
  <2>6. V = n * CHUNK
    BY <2>2, <2>3, <2>5
  <2>7. Marcados(g) = 0..(n - 1)
    <3>1. ASSUME NEW p \in Pos PROVE p * CHUNK < V <=> p < n
      <4>1. p \in Nat /\ p * CHUNK \in Nat
        BY Lugar DEF Pos
      <4>2. CASE p < n
        BY <2>2, <2>6, <4>1, <4>2, LugarAntes
      <4>3. CASE p = n
        BY <2>6, <4>3, <4>1
      <4>4. CASE n < p
        BY <2>2, <2>3, <2>6, <4>1, <4>4, LugarAntes
      <4>. QED  BY <2>2, <4>1, <4>2, <4>3, <4>4
    <3>2. \A p : p \in 0..(n - 1) => p \in Pos /\ p < n
      BY <2>2, <2>4 DEF Pos
    <3>3. \A p \in Pos : p < n => p \in 0..(n - 1)
      BY <2>2 DEF Pos
    <3>. QED  BY <1>2, <3>1, <3>2, <3>3, MarcadosFinito
  <2>8. Cardinality(Marcados(g)) = n
    BY <2>2, <2>7, FS_Interval
  <2>9. CASE n = 0
    <3>1. V = 0 /\ Menor(CHUNK, V) \in Int
      BY <2>6, <2>9, MenorDe
    <3>. HIDE DEF V
    <3>. QED  BY <1>3, <2>8, <2>9, <3>1 DEF V
  <2>10. CASE n > 0
    <3>1. CHUNK <= V
      BY <2>2, <2>3, <2>6, <2>10, LugarAntes, LugarCero
    <3>2. Menor(CHUNK, V) = CHUNK
      BY <1>1, <3>1 DEF Menor
    <3>. QED  BY <1>3, <2>6, <2>8, <3>2 DEF V
  <2>. QED  BY <2>2, <2>9, <2>10
<1>5. CASE V \in MIN_DATOS..CHUNK
  <2>1. 0 \in Pos /\ 0 * CHUNK = 0
    BY DEF Pos
  <2>2. \A p \in Pos : p * CHUNK < V <=> p = 0
    <3>. SUFFICES ASSUME NEW p \in Pos PROVE p * CHUNK < V <=> p = 0
      OBVIOUS
    <3>1. p \in Nat /\ p * CHUNK \in Nat
      BY Lugar DEF Pos
    <3>2. CASE p = 0
      <4>. HIDE DEF V
      <4>. QED  BY <1>5, <2>1, <3>2
    <3>3. CASE 0 < p
      <4>1. CHUNK <= p * CHUNK
        BY <3>1, <3>3, LugarAntes, <2>1
      <4>. HIDE DEF V
      <4>. QED  BY <1>5, <3>1, <3>3, <4>1
    <3>. QED  BY <3>1, <3>2, <3>3
  <2>3. Marcados(g) = {0}
    BY <1>2, <2>1, <2>2, MarcadosFinito
  <2>4. Cardinality(Marcados(g)) = 1
    BY <2>3, FS_Singleton
  <2>. HIDE DEF V
  <2>5. Menor(CHUNK, V) = V /\ V \in Nat
    BY <1>5 DEF Menor
  <2>. QED  BY <1>3, <2>4, <2>5 DEF V
<1>. QED  BY <1>4, <1>5 DEF Exacta

\* Each byte of a window is in one of its chunks.
LEMMA Descompuesto ==
    ASSUME NEW k \in 1..LARGO_TRAMO
    PROVE  \E p \in Pos : \E j \in 1..CHUNK : k = p * CHUNK + j
<1>. DEFINE p == (k - 1) \div CHUNK
            r == (k - 1) % CHUNK
<1>0. k \in Nat /\ k - 1 \in Nat /\ k <= LARGO_TRAMO
  BY TramoTipo
<1>1. p \in Nat /\ r \in 0..(CHUNK - 1) /\ k - 1 = CHUNK * p + r
  BY <1>0, Cociente
<1>. HIDE DEF p, r
<1>2. p * CHUNK = CHUNK * p /\ p * CHUNK \in Nat
  BY <1>1, Z3
<1>3. r + 1 \in 1..CHUNK /\ k = p * CHUNK + (r + 1)
  BY <1>0, <1>1, <1>2
<1>4. p \in Pos
  <2>. SUFFICES ASSUME CANT_CHUNKS <= p PROVE FALSE
    BY <1>1 DEF Pos
  <2>1. LARGO_TRAMO <= p * CHUNK
    <3>1. CASE p = CANT_CHUNKS
      BY <1>2, <3>1 DEF LARGO_TRAMO
    <3>2. CASE CANT_CHUNKS < p
      <4>1. CANT_CHUNKS * CHUNK + CHUNK <= p * CHUNK
        BY <1>1, <3>2, LugarAntes
      <4>. QED  BY <1>2, <4>1, TramoTipo DEF LARGO_TRAMO
    <3>. QED  BY <1>1, <3>1, <3>2
  <2>. QED  BY <1>0, <1>2, <1>3, <2>1, TramoTipo
<1>. QED  BY <1>3, <1>4

\* A window whose chunks were all received is that of the file.
LEMMA VentanaLeida ==
    ASSUME NEW f \in Archivos, NEW b \in 0..Largo[f], NEW g, NEW w, NEW bytes,
           Ventana(f, b, g, w, bytes),
           \A p \in Pos : EnVentana(f, b, p) => g[p] = LLENO,
           NEW k \in 1..LargoVentana(f, b)
    PROVE  w[k] = <<f, b + k>>
<1>1. k \in 1..LARGO_TRAMO /\ LargoVentana(f, b) \in Nat
  BY VentanaTipo, TramoTipo
<1>2. PICK p \in Pos, j \in 1..CHUNK : k = p * CHUNK + j
  BY <1>1, Descompuesto
<1>3. p * CHUNK \in Nat
  BY LugarDentro
<1>4. EnVentana(f, b, p) /\ p \in Marcados(g)
  BY <1>1, <1>2, <1>3 DEF EnVentana, Marcados
<1>5. j \in 1..LargoChunk(f, b, p)
  BY <1>1, <1>2, <1>3 DEF LargoChunk, Menor
<1>6. w[p * CHUNK + j] = <<f, b + p * CHUNK + j>>
  BY <1>4, <1>5 DEF Ventana
<1>7. b + p * CHUNK + j = b + k
  BY <1>2, <1>3
<1>. QED  BY <1>2, <1>6, <1>7

----------------------------------------------------------------------------
(* The copy *)

\* The bytes of a file.
LEMMA FuenteEs ==
    ASSUME NEW f \in Archivos
    PROVE  /\ Fuente(f) \in Seq(Celda) /\ Len(Fuente(f)) = Largo[f]
           /\ \A i \in 1..Largo[f] : Fuente(f)[i] = <<f, i>>
<1>1. Fuente(f) \in [1..Largo[f] -> Celda]
  BY CeldaTipo DEF Fuente
<1>2. Largo[f] \in Nat
  OBVIOUS
<1>3. Fuente(f) \in Seq(Celda) /\ Len(Fuente(f)) = Largo[f]
  BY <1>1, <1>2, FuncionEsSecuencia
<1>. QED  BY <1>3 DEF Fuente

\* The bytes of its beginning.
LEMMA PrincipioEs ==
    ASSUME NEW f \in Archivos, NEW b \in 0..Largo[f]
    PROVE  /\ SubSeq(Fuente(f), 1, b) \in Seq(Celda)
           /\ Len(SubSeq(Fuente(f), 1, b)) = b
           /\ \A i \in 1..b : SubSeq(Fuente(f), 1, b)[i] = <<f, i>>
<1>1. b \in Nat /\ b <= Largo[f] /\ Largo[f] \in Nat
  OBVIOUS
<1>2. \A i \in 1..b : Fuente(f)[i] \in Celda /\ Fuente(f)[i] = <<f, i>>
  BY <1>1, FuenteEs, CeldaTipo
<1>. DEFINE s == SubSeq(Fuente(f), 1, b)
<1>3. /\ s \in Seq(Celda) /\ Len(s) = IF 1 <= b THEN b - 1 + 1 ELSE 0
      /\ \A i \in 1..b - 1 + 1 : s[i] = Fuente(f)[1 + i - 1]
  BY <1>1, <1>2, SubSeqProperties
<1>. HIDE DEF s
<1>4. \A i \in 1..b : 1 + i - 1 = i /\ i \in 1..b - 1 + 1
  BY <1>1
<1>5. s \in Seq(Celda) /\ Len(s) = b /\ \A i \in 1..b : s[i] = <<f, i>>
  BY <1>1, <1>2, <1>3, <1>4
<1>. QED  BY <1>5 DEF s

\* The whole file is its first Largo[f] bytes, none of it the first 0.
LEMMA PrincipioTodo ==
    ASSUME NEW f \in Archivos
    PROVE  /\ SubSeq(Fuente(f), 1, Largo[f]) = Fuente(f)
           /\ SubSeq(Fuente(f), 1, 0) = <<>>
<1>1. Largo[f] \in Nat /\ Largo[f] \in 0..Largo[f] /\ 0 \in 0..Largo[f]
  OBVIOUS
<1>2. /\ SubSeq(Fuente(f), 1, Largo[f]) \in Seq(Celda)
      /\ Len(SubSeq(Fuente(f), 1, Largo[f])) = Largo[f]
      /\ \A i \in 1..Largo[f] : SubSeq(Fuente(f), 1, Largo[f])[i] = <<f, i>>
  BY <1>1, PrincipioEs
<1>3. SubSeq(Fuente(f), 1, Largo[f]) = Fuente(f)
  BY <1>1, <1>2, FuenteEs, SeqEqual
<1>4. SubSeq(Fuente(f), 1, 0) \in Seq(Celda) /\ Len(SubSeq(Fuente(f), 1, 0)) = 0
  BY <1>1, PrincipioEs
<1>. QED  BY <1>3, <1>4, EmptySeq

\* What is written behind the first b bytes of the file, when it is n more.
LEMMA PrincipioMas ==
    ASSUME NEW f \in Archivos, NEW b \in 0..Largo[f], NEW n \in 0..(Largo[f] - b),
           NEW w \in Buffer, n <= LARGO_TRAMO,
           \A k \in 1..n : w[k] = <<f, b + k>>
    PROVE  SubSeq(Fuente(f), 1, b) \o Porcion(w, 0, n) = SubSeq(Fuente(f), 1, b + n)
<1>. DEFINE s == SubSeq(Fuente(f), 1, b)
            x == Porcion(w, 0, n)
            r == SubSeq(Fuente(f), 1, b + n)
<1>1. /\ b \in Nat /\ n \in Nat /\ Largo[f] \in Nat /\ b + n \in 0..Largo[f]
      /\ LARGO_TRAMO \in Nat
  BY TramoTipo
<1>2. s \in Seq(Celda) /\ Len(s) = b /\ \A i \in 1..b : s[i] = <<f, i>>
  BY PrincipioEs
<1>3. r \in Seq(Celda) /\ Len(r) = b + n /\ \A i \in 1..(b + n) : r[i] = <<f, i>>
  BY <1>1, PrincipioEs
<1>4. x \in Seq(Celda)
  BY <1>1, PorcionTipo
<1>5. Len(x) = n /\ \A k \in 1..n : x[k] = <<f, b + k>>
  <2>1. \A k \in 1..n : 0 * CHUNK + k = k /\ k <= LARGO_TRAMO
    BY <1>1
  <2>2. Porcion(w, 0, n) = [k \in 1..n |-> w[k]]
    BY <2>1 DEF Porcion
  <2>3. \A k \in 1..n : w[k] \in Celda
    BY <2>1 DEF Buffer
  <2>4. [k \in 1..n |-> w[k]] \in [1..n -> Celda]
    BY <2>3
  <2>5. Len([k \in 1..n |-> w[k]]) = n
    BY <1>1, <2>4, FuncionEsSecuencia
  <2>. QED  BY <2>2, <2>5
<1>. HIDE DEF s, x, r
<1>6. s \o x \in Seq(Celda) /\ Len(s \o x) = b + n
  BY <1>1, <1>2, <1>4, <1>5, ConcatProperties
<1>7. ASSUME NEW i \in 1..(b + n) PROVE (s \o x)[i] = r[i]
  <2>a. (s \o x)[i] = IF i <= b THEN s[i] ELSE x[i - b]
    <3>1. i \in 1..Len(s) + Len(x)
      BY <1>1, <1>2, <1>5, <1>7
    <3>2. (s \o x)[i] = IF i <= Len(s) THEN s[i] ELSE x[i - Len(s)]
      BY <1>2, <1>4, <3>1, ConcatProperties
    <3>. QED  BY <1>2, <3>2
  <2>b. i \in Int /\ b \in Int
    BY <1>1, <1>7
  <2>1. CASE i <= b
    <3>1. i \in 1..b /\ i \in 1..(b + n)
      BY <1>1, <1>7, <2>1
    <3>. QED  BY <1>2, <1>3, <2>a, <3>1, <2>1
  <2>2. CASE i > b
    <3>1. i - b \in 1..n /\ b + (i - b) = i
      BY <1>1, <1>7, <2>2
    <3>2. (s \o x)[i] = x[i - b]
      BY <1>1, <1>7, <2>2, <2>a
    <3>. QED  BY <1>3, <1>5, <1>7, <3>1, <3>2
  <2>3. i <= b \/ i > b
    BY <2>b
  <2>. QED  BY <2>1, <2>2, <2>3
<1>8. s \o x = r
  BY <1>3, <1>6, <1>7, SeqEqual
<1>. QED  BY <1>8 DEF s, x, r

\* So the copy goes on along the file when a whole exact window is written.
LEMMA CopiaSigue ==
    ASSUME NEW f \in Archivos, NEW b, NEW d, NEW g, NEW w \in Buffer, NEW bytes,
           Escrita(f, b, d), Ventana(f, b, g, w, bytes), Exacta(f, b),
           \A p \in Pos : EnVentana(f, b, p) => g[p] = LLENO
    PROVE  /\ bytes = LargoVentana(f, b)
           /\ d \o Porcion(w, 0, bytes) = SubSeq(Fuente(f), 1, b + LargoVentana(f, b))
<1>1. b \in 0..Largo[f] /\ d = SubSeq(Fuente(f), 1, b)
  BY DEF Escrita
<1>2. bytes = LargoVentana(f, b)
  BY <1>1, VentanaContada
<1>3. \A k \in 1..LargoVentana(f, b) : w[k] = <<f, b + k>>
  BY <1>1, VentanaLeida
<1>4. LargoVentana(f, b) \in 0..(Largo[f] - b) /\ LargoVentana(f, b) <= LARGO_TRAMO
  BY <1>1, VentanaTipo, TramoTipo
<1>. QED  BY <1>1, <1>2, <1>3, <1>4, PrincipioMas

----------------------------------------------------------------------------
(* Frames *)

\* Frames that are right stay so when the first is read or lost,
LEMMA TramasQuita ==
    ASSUME NEW s, NEW r, NEW w, NEW f, NEW b, Quita(s, r), Tramas(s, w, f, b)
    PROVE  Tramas(r, w, f, b)
  BY DEF Tramas, Quita

\* or when one that is right is added;
LEMMA TramasAgrega ==
    ASSUME NEW s, NEW r, NEW t, NEW w, NEW f, NEW b, Agrega(s, r, t), Tramas(s, w, f, b),
           t.nro \in Tramo(w) => EsChunk(f, b, t.nro - w, t.datos)
    PROVE  Tramas(r, w, f, b)
  BY DEF Tramas, Agrega

\* and they are when none is of the window.
LEMMA TramasNinguna ==
    ASSUME NEW s, NEW w, NEW f, NEW b, \A i \in 1..Len(s) : s[i].nro \notin Tramo(w)
    PROVE  Tramas(s, w, f, b)
  BY DEF Tramas

\* A number of a window tells its chunk (server.c:428).
LEMMA Posicion ==
    ASSUME NEW w \in Ventanas, NEW n \in Tramo(w)
    PROVE  n % CANT_CHUNKS = n - w /\ n - w \in Pos
<1>1. w \in Nat /\ w % CANT_CHUNKS = 0 /\ n - w \in Pos /\ n \in Nat /\ n = w + (n - w)
  BY DEF Ventanas, Tramo, Pos
<1>2. w = CANT_CHUNKS * (w \div CANT_CHUNKS) /\ w \div CANT_CHUNKS \in Nat
  BY <1>1, Division
<1>. DEFINE q == w \div CANT_CHUNKS
            r == n - w
<1>3. q \in Nat /\ r \in Pos /\ n = CANT_CHUNKS * q + r
  BY <1>1, <1>2
<1>. HIDE DEF q, r
<1>4. n % CANT_CHUNKS = r
  BY <1>3, RestoDeSuma
<1>. QED  BY <1>3, <1>4 DEF r

\* The types of what the server keeps.
LEMMA TiposServidor ==
    ASSUME TipoInv
    PROVE  /\ grilla \in Grilla /\ buffer_write \in Buffer /\ bytes_archivo \in Nat
           /\ total_escrito \in Nat /\ disco \in [Archivos -> Seq(Celda)]
           /\ archivo \in Archivos /\ Enviada \in Ventanas /\ Largo[archivo] \in Nat
  BY DEF TipoInv, TypeOK, ServerTypeOK, ClientTypeOK, Grilla, Enviada

\* What the server reads is a frame.
LEMMA TiposTrama ==
    ASSUME TipoInv, Recibir
    PROVE  /\ trama.datos \in Seq(Celda) /\ trama.nro \in Nat
           /\ trama.nro % CANT_CHUNKS \in Pos
<1>1. trama \in TramaCliente
  BY ColaTipo DEF Recibir, trama, TipoInv, TypeOK, LinkTypeOK
<1>. QED  BY <1>1, TramaDatosTipo, Division

\* A chunk is added to the window it is of, or was there (server.c:463-468).
LEMMA DatosAgrega ==
    ASSUME TipoInv, RecibirDatos, NEW f \in Archivos, NEW b \in 0..Largo[f],
           Ventana(f, b, GrillaBase, buffer_write, BytesBase),
           EsChunk(f, b, trama.nro % CANT_CHUNKS, trama.datos)
    PROVE  /\ Ventana(f, b, grilla', buffer_write', bytes_archivo')
           /\ Marcados(GrillaBase) \subseteq Marcados(grilla')
           /\ Marcados(grilla') # {}
<1>. DEFINE p == trama.nro % CANT_CHUNKS
<1>1. p \in Pos /\ trama.datos \in Seq(Celda)
  BY TiposTrama DEF RecibirDatos
<1>2. GrillaBase \in Grilla /\ BytesBase \in Nat /\ buffer_write \in Buffer
  BY TiposServidor, DatosGrilla DEF Grilla, BytesBase
<1>3. CASE GrillaBase[p] = VACIO
  <2>1. /\ grilla' = [GrillaBase EXCEPT ![p] = LLENO]
        /\ buffer_write' = Copiado(buffer_write, p, trama.datos)
        /\ bytes_archivo' = BytesBase + Len(trama.datos)
    BY <1>3 DEF RecibirDatos
  <2>2. Ventana(f, b, grilla', buffer_write', bytes_archivo')
    BY <1>1, <1>2, <1>3, <2>1, AgregaChunk
  <2>3. Marcados(grilla') = Marcados(GrillaBase) \cup {p}
    BY <1>1, <1>2, <1>3, <2>1, UnaMarcaMas
  <2>. QED  BY <2>2, <2>3
<1>4. CASE GrillaBase[p] # VACIO
  <2>1. grilla' = GrillaBase /\ buffer_write' = buffer_write /\ bytes_archivo' = BytesBase
    BY <1>4 DEF RecibirDatos
  <2>2. GrillaBase[p] = LLENO
    BY <1>1, <1>4 DEF Ventana
  <2>3. p \in Marcados(grilla')
    BY <1>1, <2>1, <2>2 DEF Marcados
  <2>4. Ventana(f, b, grilla', buffer_write', bytes_archivo')
    BY <2>1
  <2>. QED  BY <2>1, <2>3, <2>4
<1>. QED  BY <1>3, <1>4

\* A chunk of the window that the server receives changes nothing else.
LEMMA DatosEnVentana ==
    ASSUME TipoInv, RecibirDatos, ~ Avanza
    PROVE  /\ GrillaBase = grilla /\ BytesBase = bytes_archivo
           /\ UNCHANGED <<disco, total_escrito, nro_secuencia_anterior, filefd, path>>
           /\ Esperada' = Esperada
  BY DEF RecibirDatos, GrillaBase, BytesBase, Esperada

\* One of the next has the window that was complete written (server.c:399-409).
LEMMA DatosDespues ==
    ASSUME TipoInv, RecibirDatos, Avanza
    PROVE  /\ GrillaBase = GrillaVacia /\ BytesBase = 0
           /\ disco' = Escrito /\ total_escrito' = total_escrito + LARGO_TRAMO
           /\ UNCHANGED <<filefd, path>>
           /\ Esperada' = ProximaServidor(Esperada)
  BY DEF RecibirDatos, GrillaBase, BytesBase, Esperada

\* A file is named.
LEMMA NombreDespues ==
    ASSUME TipoInv, RecibirNombre
    PROVE  /\ grilla' = GrillaVacia /\ bytes_archivo' = 0 /\ total_escrito' = 0
           /\ disco' = [disco EXCEPT ![path'] = <<>>] /\ path' = c2s[1].archivo
           /\ path' \in Archivos /\ filefd' /\ Esperada' = 0
<1>1. trama \in TramaCliente
  BY ColaTipo DEF RecibirNombre, Recibir, trama, TipoInv, TypeOK, LinkTypeOK
<1>2. trama.archivo \in Archivos
  BY <1>1, TramaDatosTipo DEF RecibirNombre
<1>3. trama = c2s[1]
  BY NombreEfecto
<1>. QED  BY <1>2, <1>3 DEF RecibirNombre, Esperada

\* A step of the server that reads no frame of the client.
LEMMA NadaLeido ==
    ASSUME TipoInv, TramaAjena \/ TimeoutServidor
    PROVE  /\ UNCHANGED <<c2s, ventanaVars, archivoVars>>
           /\ Esperada' = Esperada
           /\ s2c' = s2c \/ Agrega(s2c, s2c', AckDe(Esperada))
<1>1. CASE TramaAjena
  BY <1>1 DEF TramaAjena, linkVars, ventanaVars, Esperada
<1>2. CASE TimeoutServidor
  BY <1>2, TimeoutEfecto DEF TimeoutServidor, serverVars, ventanaVars, Esperada
<1>. QED  BY <1>1, <1>2

----------------------------------------------------------------------------
(* The server's steps while windows are sent *)

\* Facts of the phase in which windows are sent.
LEMMA FaseDatos ==
    ASSUME TipoInv, OrdenEnElCable, EnDatos
    PROVE  /\ filefd /\ path = archivo /\ archivo # 0
           /\ Enviada \in Ventanas /\ Enviada \in Inicios /\ Esperada \in Inicios
           /\ Esperada = Enviada => AlDia
           /\ Esperada # Enviada => Atras
<1>1. filefd /\ path = archivo /\ (AlDia \/ Atras)
  BY DEF OrdenEnElCable, InvDatos
<1>2. Enviada \in Ventanas /\ Enviada \in Inicios /\ archivo # 0
  BY VentanaEsInicio DEF TipoInv, TypeOK, ClientTypeOK, Enviada
<1>3. Atras => Esperada \in Inicios /\ Enviada # Esperada
  BY MismaProxima DEF Atras, Inicios
<1>4. AlDia => Esperada = Enviada
  BY DEF AlDia
<1>. QED  BY <1>1, <1>2, <1>3, <1>4

\* What stays of InvCopia when the server's window does.
LEMMA CopiaIgual ==
    ASSUME InvCopia,
           UNCHANGED <<archivo, total_escrito, disco, grilla, buffer_write, bytes_archivo>>,
           Esperada' = Esperada, Tramas(c2s', Esperada, archivo, total_escrito)
    PROVE  InvCopia'
  BY DEF InvCopia

\* The copy that was just named.
LEMMA CopiaNueva ==
    ASSUME TipoInv, TipoInv', RecibirNombre, archivo' = archivo, path' = archivo,
           Tramas(c2s', 0, archivo, 0)
    PROVE  InvCopia' /\ Marcados(grilla') = {} /\ total_escrito' = 0
<1>1. /\ grilla' = GrillaVacia /\ bytes_archivo' = 0 /\ total_escrito' = 0
      /\ Esperada' = 0 /\ disco'[archivo] = <<>>
  BY NombreDespues, TiposServidor
<1>2. 0 \in Ventanas /\ 0 \in 0..Largo[archivo] /\ archivo \in Archivos
  BY VentanaNoEsControl, TiposServidor
<1>3. Escrita(archivo, 0, <<>>)
  <2>1. 0 % LARGO_TRAMO = 0
    BY TramoTipo, Cociente
  <2>. QED  BY <1>2, <2>1, PrincipioTodo DEF Escrita
<1>4. Ventana(archivo, 0, GrillaVacia, buffer_write', 0)
  BY <1>2, VentanaTipo, VentanaVacia
<1>. QED  BY <1>1, <1>2, <1>3, <1>4, MarcadosVacia DEF InvCopia

\* A chunk of the window that the server receives.
LEMMA CopiaChunk ==
    ASSUME TipoInv, RecibirDatos, ~ Avanza, InvCopia, archivo' = archivo,
           trama.nro \in Tramo(Esperada)
    PROVE  /\ InvCopia' /\ Marcados(grilla) \subseteq Marcados(grilla')
           /\ Marcados(grilla') # {} /\ total_escrito' = total_escrito
<1>. DEFINE b == total_escrito
            p == trama.nro % CANT_CHUNKS
<1>1. /\ Esperada \in Ventanas /\ Escrita(archivo, b, disco[archivo])
      /\ Ventana(archivo, b, grilla, buffer_write, bytes_archivo)
      /\ Tramas(c2s, Esperada, archivo, b)
  BY DEF InvCopia
<1>2. b \in 0..Largo[archivo] /\ archivo \in Archivos
  BY <1>1, TiposServidor DEF Escrita
<1>3. Quita(c2s, c2s') /\ trama = c2s[1] /\ 1 \in 1..Len(c2s)
  BY DatosGrilla DEF Quita
<1>4. p = trama.nro - Esperada
  BY <1>1, Posicion
<1>5. EsChunk(archivo, b, p, trama.datos)
  BY <1>1, <1>3, <1>4 DEF Tramas
<1>6. /\ GrillaBase = grilla /\ BytesBase = bytes_archivo
      /\ UNCHANGED <<disco, total_escrito>> /\ Esperada' = Esperada
  BY DatosEnVentana
<1>7. /\ Ventana(archivo, b, grilla', buffer_write', bytes_archivo')
      /\ Marcados(grilla) \subseteq Marcados(grilla') /\ Marcados(grilla') # {}
  <2>. HIDE DEF b, p
  <2>1. Ventana(archivo, b, GrillaBase, buffer_write, BytesBase)
    BY <1>1, <1>6
  <2>2. /\ Ventana(archivo, b, grilla', buffer_write', bytes_archivo')
        /\ Marcados(GrillaBase) \subseteq Marcados(grilla') /\ Marcados(grilla') # {}
    BY <1>2, <1>5, <2>1, DatosAgrega DEF p
  <2>. QED  BY <1>6, <2>2
<1>8. Tramas(c2s', Esperada, archivo, b)
  BY <1>1, <1>3, TramasQuita
<1>. QED  BY <1>1, <1>6, <1>7, <1>8 DEF InvCopia

\* The first chunk of the next: the window before is written.
LEMMA CopiaAvanza ==
    ASSUME TipoInv, RecibirDatos, Avanza, InvCopia, Entera, filefd, path = archivo,
           archivo' = archivo, ProximaServidor(Esperada) \in Ventanas,
           trama.nro \in Tramo(ProximaServidor(Esperada)),
           total_escrito + LARGO_TRAMO < Largo[archivo],
           Tramas(c2s, ProximaServidor(Esperada), archivo, total_escrito + LARGO_TRAMO)
    PROVE  /\ InvCopia' /\ Marcados(grilla') # {}
           /\ total_escrito' = total_escrito + LARGO_TRAMO
<1>. DEFINE b == total_escrito
            c == total_escrito + LARGO_TRAMO
            w == ProximaServidor(Esperada)
            p == trama.nro % CANT_CHUNKS
<1>1. /\ Escrita(archivo, b, disco[archivo])
      /\ Ventana(archivo, b, grilla, buffer_write, bytes_archivo)
  BY DEF InvCopia
<1>2. /\ b \in 0..Largo[archivo] /\ b % LARGO_TRAMO = 0 /\ b \in Nat
      /\ archivo \in Archivos /\ LARGO_TRAMO \in Nat \ {0} /\ Largo[archivo] \in Nat
      /\ buffer_write \in Buffer /\ disco \in [Archivos -> Seq(Celda)]
  BY <1>1, TiposServidor, TramoTipo DEF Escrita
<1>3. c \in 0..Largo[archivo] /\ c \in Nat
  BY <1>2
<1>4. LargoVentana(archivo, b) = LARGO_TRAMO
  BY <1>2 DEF LargoVentana, Menor
<1>5. disco[archivo] \o Porcion(buffer_write, 0, bytes_archivo) = SubSeq(Fuente(archivo), 1, c)
  <2>1. Exacta(archivo, b)
    BY <1>2, <1>4, EnteraExacta
  <2>2. \A q \in Pos : EnVentana(archivo, b, q) => grilla[q] = LLENO
    BY DEF Entera
  <2>3. disco[archivo] \o Porcion(buffer_write, 0, bytes_archivo)
          = SubSeq(Fuente(archivo), 1, b + LargoVentana(archivo, b))
    BY <1>1, <1>2, <2>1, <2>2, CopiaSigue
  <2>. QED  BY <1>4, <2>3
<1>6. /\ GrillaBase = GrillaVacia /\ BytesBase = 0 /\ disco' = Escrito
      /\ total_escrito' = c /\ Esperada' = w
  BY DatosDespues
<1>7. disco'[archivo] = SubSeq(Fuente(archivo), 1, c)
  BY <1>2, <1>5, <1>6 DEF Escrito
<1>8. Escrita(archivo, c, disco'[archivo])
  <2>1. c % LARGO_TRAMO = 0
    BY <1>2, RestoSiguiente
  <2>. QED  BY <1>3, <1>7, <2>1 DEF Escrita
<1>9. Quita(c2s, c2s') /\ trama = c2s[1] /\ 1 \in 1..Len(c2s)
  BY DatosGrilla DEF Quita
<1>10. p = trama.nro - w
  BY Posicion
<1>11. EsChunk(archivo, c, p, trama.datos)
  BY <1>9, <1>10 DEF Tramas
<1>12. Ventana(archivo, c, grilla', buffer_write', bytes_archivo') /\ Marcados(grilla') # {}
  <2>1. Ventana(archivo, c, GrillaVacia, buffer_write, 0)
    BY <1>2, <1>3, VentanaTipo, VentanaVacia
  <2>. HIDE DEF c, p
  <2>2. Ventana(archivo, c, GrillaBase, buffer_write, BytesBase)
    BY <1>6, <2>1
  <2>. QED  BY <1>2, <1>3, <1>11, <2>2, DatosAgrega DEF p
<1>13. Tramas(c2s', w, archivo, c)
  BY <1>9, TramasQuita
<1>. HIDE DEF c, w
<1>14. InvCopia'
  BY <1>6, <1>8, <1>12, <1>13 DEF InvCopia, w
<1>. QED  BY <1>6, <1>12, <1>14 DEF c

\* The grids on their way stay true while the server's grid grows.
LEMMA GrillasQuedan ==
    ASSUME NEW n, s2c' = s2c \/ Agrega(s2c, s2c', AckDe(n)),
           Enviada' = Enviada, total_escrito' = total_escrito, GrillasVeraces,
           Marcados(grilla) \subseteq Marcados(grilla'),
           n = Enviada /\ total_escrito > 0 => Marcados(grilla') # {}
    PROVE  GrillasVeraces'
<1>1. CASE s2c' = s2c
  BY <1>1 DEF GrillasVeraces
<1>2. CASE Agrega(s2c, s2c', AckDe(n))
  <2>. SUFFICES ASSUME NEW k \in 1..Len(s2c'), s2c'[k].nro = Enviada
                PROVE  /\ Marcados(s2c'[k].grilla) \subseteq Marcados(grilla')
                       /\ total_escrito > 0 => Marcados(s2c'[k].grilla) # {}
    BY DEF GrillasVeraces
  <2>1. CASE k <= Len(s2c) /\ s2c'[k] = s2c[k]
    <3>1. k \in 1..Len(s2c)
      BY <1>2, <2>1 DEF Agrega
    <3>. QED  BY <2>1, <3>1 DEF GrillasVeraces
  <2>2. CASE s2c'[k] = AckDe(n)
    <3>1. s2c'[k].nro = n /\ s2c'[k].grilla = grilla'
      BY <2>2, AckCampos
    <3>. QED  BY <3>1
  <2>. QED  BY <1>2, <2>1, <2>2 DEF Agrega
<1>. QED  BY <1>1, <1>2

\* While the server receives the client's window.
LEMMA ContenidoAlDia ==
    ASSUME TipoInv, TipoInv', OrdenEnElCable, EnDatos, Esperada = Enviada,
           InvCopia, MismaVentana, ServerNext, UNCHANGED clientVars
    PROVE  /\ Esperada' = Enviada' /\ InvCopia' /\ MismaVentana'
           /\ total_escrito' = total_escrito
<1>0. /\ Enviada' = Enviada /\ archivo' = archivo /\ cpc' = cpc /\ Base' = Base
      /\ leido' = leido
  BY DEF clientVars, tramoVars, Enviada, Base
<1>1. /\ filefd /\ path = archivo /\ archivo # 0 /\ Enviada \in Ventanas
      /\ Enviada \in Inicios /\ AlDia
  BY FaseDatos
<1>2. \A i \in 1..Len(c2s) : c2s[i].nro = FF \/ c2s[i].nro \in Tramo(Enviada)
  BY <1>1 DEF AlDia, AlDiaIda
<1>3. \A n \in Tramo(Enviada) : n # FF /\ n # FE /\ n # FD /\ n \notin Control
  BY <1>1, TramoSinControl
<1>4. Enviada # FF
  BY <1>1, InicioSinControl
<1>5. GrillasVeraces /\ (Marcados(grilla) = {} => total_escrito = 0)
  BY DEF MismaVentana, InvCopia
<1>6. CASE RecibirNombre
  <2>1. /\ Quita(c2s, c2s') /\ c2s[1].nro = FF /\ 1 \in 1..Len(c2s)
        /\ Agrega(s2c, s2c', AckDe(FF))
    BY <1>6, NombreEfecto DEF Quita
  <2>2. Enviada = 0 /\ grilla = GrillaVacia /\ c2s[1].archivo = archivo
    BY <1>1, <1>3, <2>1 DEF AlDia, AlDiaIda
  <2>3. Marcados(grilla) = {} /\ total_escrito = 0
    BY <1>5, <2>2, MarcadosVacia
  <2>4. path' = archivo /\ Esperada' = 0
    BY <1>6, <2>2, NombreDespues
  <2>5. Tramas(c2s', 0, archivo, 0)
    <3>1. Tramas(c2s, 0, archivo, 0)
      BY <2>2, <2>3 DEF InvCopia
    <3>. QED  BY <2>1, <3>1, TramasQuita
  <2>6. InvCopia' /\ Marcados(grilla') = {} /\ total_escrito' = 0
    BY <1>0, <1>6, <2>4, <2>5, CopiaNueva
  <2>7. GrillasVeraces'
    BY <1>0, <1>4, <1>5, <2>1, <2>3, <2>6, GrillasQuedan
  <2>8. MismaVentana'
    BY <1>0, <2>1, <2>3, <2>6, <2>7 DEF MismaVentana, Quita
  <2>. QED  BY <1>0, <2>2, <2>3, <2>4, <2>6, <2>8
<1>7. CASE RecibirFin
  BY <1>7, <1>2, <1>3, FinEfecto, Codigos DEF Quita
<1>8. CASE RecibirPedidoResumen
  <2>1. c2s[1].nro = FD /\ 1 \in 1..Len(c2s)
    BY <1>8, PedidoEfecto DEF Quita
  <2>2. FD # FF
    BY Codigos
  <2>. QED  BY <1>2, <1>3, <2>1, <2>2
<1>9. CASE ResumenSinArchivo
  BY <1>9, <1>2, <1>3, SinArchivoEfecto, Codigos DEF Quita
<1>10. ASSUME RecibirFueraDeSecuencia \/ RecibirDatos
       PROVE  ~ Avanza /\ trama.nro \in Tramo(Esperada) /\ cpc # "leer"
  <2>1. Quita(c2s, c2s') /\ trama = c2s[1] /\ trama.nro # FF /\ 1 \in 1..Len(c2s)
    BY <1>10, FueraEfecto, DatosGrilla DEF Control, Quita
  <2>2. trama.nro \in Tramo(Esperada) /\ cpc # "leer"
    BY <1>2, <2>1 DEF MismaVentana
  <2>. QED  BY <1>1, <2>2, TramoNoAvanza
<1>11. CASE RecibirFueraDeSecuencia
  BY <1>10, <1>11, FueraEfecto
<1>12. CASE RecibirDatos
  <2>1. ~ Avanza /\ trama.nro \in Tramo(Esperada) /\ cpc # "leer"
    BY <1>10, <1>12
  <2>2. /\ InvCopia' /\ Marcados(grilla) \subseteq Marcados(grilla')
        /\ Marcados(grilla') # {} /\ total_escrito' = total_escrito
    BY <1>0, <1>12, <2>1, CopiaChunk
  <2>3. Esperada' = Esperada
    BY <1>12, <2>1, DatosEnVentana
  <2>4. Agrega(s2c, s2c', AckDe(nro_secuencia_anterior'))
    BY <1>12, DatosGrilla
  <2>5. GrillasVeraces'
    BY <1>0, <1>5, <2>2, <2>4, GrillasQuedan
  <2>6. MismaVentana'
    BY <1>0, <2>1, <2>2, <2>5 DEF MismaVentana
  <2>. QED  BY <1>0, <2>2, <2>3, <2>6
<1>13. CASE TramaAjena \/ TimeoutServidor
  <2>1. /\ UNCHANGED <<c2s, ventanaVars, archivoVars>> /\ Esperada' = Esperada
        /\ s2c' = s2c \/ Agrega(s2c, s2c', AckDe(Esperada))
    BY <1>13, NadaLeido
  <2>2. UNCHANGED <<total_escrito, disco, grilla, buffer_write, bytes_archivo>>
    BY <2>1 DEF ventanaVars, archivoVars
  <2>3. InvCopia'
    BY <1>0, <2>1, <2>2, CopiaIgual DEF InvCopia
  <2>4. total_escrito > 0 => Marcados(grilla') # {}
    BY <1>5, <2>2
  <2>5. GrillasVeraces'
    BY <1>0, <1>5, <2>1, <2>2, <2>4, GrillasQuedan
  <2>6. MismaVentana'
    BY <1>0, <2>1, <2>2, <2>5 DEF MismaVentana
  <2>. QED  BY <1>0, <2>1, <2>2, <2>3, <2>6
<1>. QED
  BY <1>6, <1>7, <1>8, <1>9, <1>11, <1>12, <1>13 DEF ServerNext, RecibirTrama

\* While it is one window behind.
LEMMA ContenidoAtras ==
    ASSUME TipoInv, TipoInv', OrdenEnElCable, EnDatos, Esperada # Enviada,
           InvLeido, InvCopia, VentanaAnterior, ServerNext, UNCHANGED clientVars
    PROVE  /\ InvCopia' /\ IF Esperada' = Enviada' THEN MismaVentana' ELSE VentanaAnterior'
           /\ total_escrito <= total_escrito'
<1>0. /\ Enviada' = Enviada /\ archivo' = archivo /\ cpc' = cpc /\ Base' = Base
      /\ leido' = leido
  BY DEF clientVars, tramoVars, Enviada, Base
<1>1. /\ filefd /\ path = archivo /\ archivo # 0 /\ Enviada \in Ventanas
      /\ Enviada \in Inicios /\ Esperada \in Inicios /\ Atras
      /\ Enviada = ProximaServidor(Esperada)
  BY FaseDatos DEF Atras
<1>2. \A i \in 1..Len(c2s) :
         c2s[i].nro \in Tramo(Esperada) \/ (c2s[i].nro \in Tramo(Enviada) /\ cpc # "leer")
  BY <1>1 DEF Atras, AtrasIda
<1>3. \A n \in Tramo(Enviada) \cup Tramo(Esperada) :
         n # FF /\ n # FE /\ n # FD /\ n \notin Control
  BY <1>1, TramoSinControl
<1>4. /\ total_escrito \in Nat /\ LARGO_TRAMO \in Nat \ {0} /\ Base \in Int
      /\ archivo \in Archivos /\ Largo[archivo] \in Nat
  BY TiposServidor, TramoTipo DEF TipoInv, TypeOK, ClientTypeOK, Base
<1>6. CASE RecibirNombre
  BY <1>6, <1>2, <1>3, NombreEfecto, Codigos DEF Quita
<1>7. CASE RecibirFin
  BY <1>7, <1>2, <1>3, FinEfecto, Codigos DEF Quita
<1>8. CASE RecibirPedidoResumen
  <2>1. c2s[1].nro = FD /\ 1 \in 1..Len(c2s)
    BY <1>8, PedidoEfecto DEF Quita
  <2>2. FD # FF
    BY Codigos
  <2>. QED  BY <1>2, <1>3, <2>1, <2>2
<1>9. CASE ResumenSinArchivo
  BY <1>9, <1>2, <1>3, SinArchivoEfecto, Codigos DEF Quita
<1>10. ASSUME Quita(c2s, c2s'), trama = c2s[1], Avanza
       PROVE  /\ ack_completo \/ cpc # "leer"
              /\ c2s[1].nro \in Tramo(Enviada) /\ cpc # "leer"
  <2>1. 1 \in 1..Len(c2s)
    BY <1>10 DEF Quita
  <2>2. c2s[1].nro \notin Tramo(Esperada)
    BY <1>1, <1>10, TramoNoAvanza
  <2>. QED  BY <1>2, <2>1, <2>2
<1>11. CASE RecibirFueraDeSecuencia
  BY <1>10, <1>11, <1>1, FueraEfecto DEF Atras
<1>12. CASE RecibirDatos /\ ~ Avanza
  <2>1. /\ Quita(c2s, c2s') /\ trama = c2s[1] /\ 1 \in 1..Len(c2s)
        /\ Agrega(s2c, s2c', AckDe(nro_secuencia_anterior'))
    BY <1>12, DatosGrilla DEF Quita
  <2>2. trama.nro \in Tramo(Esperada)
    BY <1>1, <1>2, <1>12, <2>1, TramoAvanza
  <2>3. /\ InvCopia' /\ Marcados(grilla) \subseteq Marcados(grilla')
        /\ total_escrito' = total_escrito /\ Esperada' = Esperada
    BY <1>0, <1>12, <2>2, CopiaChunk, DatosEnVentana
  <2>4. Entera'
    BY <1>0, <2>3 DEF VentanaAnterior, Entera, Marcados
  <2>5. cpc # "leer" => Tramas(c2s', Enviada, archivo, Base)
    BY <2>1, TramasQuita DEF VentanaAnterior
  <2>6. VentanaAnterior'
    BY <1>0, <2>3, <2>4, <2>5 DEF VentanaAnterior
  <2>. QED  BY <1>0, <1>4, <2>3, <2>6
<1>13. CASE RecibirDatos /\ Avanza
  <2>1. /\ Quita(c2s, c2s') /\ trama = c2s[1]
        /\ Agrega(s2c, s2c', AckDe(nro_secuencia_anterior'))
    BY <1>13, DatosGrilla
  <2>2. trama.nro \in Tramo(Enviada) /\ cpc # "leer"
    BY <1>10, <1>13, <2>1
  <2>3. /\ Base = total_escrito + LARGO_TRAMO /\ Entera
        /\ Tramas(c2s, Enviada, archivo, Base)
    BY <2>2 DEF VentanaAnterior
  <2>4. Base < Largo[archivo]
    <3>1. Enviando /\ length_read > 0 /\ Base \in 0..Largo[archivo]
          /\ length_read = LargoVentana(archivo, Base)
      BY <2>2 DEF EnDatos, InvLeido, Memoria, TipoInv, InvCliente
    <3>2. LargoVentana(archivo, Base) <= Largo[archivo] - Base
      BY <1>4, <3>1, VentanaTipo
    <3>3. length_read \in Int
      BY DEF TipoInv, TypeOK, ClientTypeOK
    <3>. QED  BY <1>4, <3>1, <3>2, <3>3
  <2>5. /\ InvCopia' /\ Marcados(grilla') # {}
        /\ total_escrito' = total_escrito + LARGO_TRAMO
    BY <1>0, <1>1, <1>13, <2>2, <2>3, <2>4, CopiaAvanza
  <2>6. Esperada' = Enviada
    BY <1>1, <1>13, DatosDespues
  <2>7. GrillasVeraces'
    <3>. SUFFICES ASSUME NEW k \in 1..Len(s2c'), s2c'[k].nro = Enviada
                  PROVE  s2c'[k].grilla = grilla'
      BY <1>0, <2>5 DEF GrillasVeraces
    <3>1. ~(k <= Len(s2c) /\ s2c'[k] = s2c[k])
      BY <1>1, <2>1 DEF Atras, AtrasVuelta, Agrega
    <3>2. s2c'[k] = AckDe(nro_secuencia_anterior')
      BY <2>1, <3>1 DEF Agrega
    <3>. QED  BY <3>2, AckCampos
  <2>8. MismaVentana'
    BY <1>0, <2>2, <2>3, <2>5, <2>7 DEF MismaVentana
  <2>. QED  BY <1>0, <1>4, <2>5, <2>6, <2>8
<1>14. CASE TramaAjena \/ TimeoutServidor
  <2>1. UNCHANGED <<c2s, ventanaVars, archivoVars>> /\ Esperada' = Esperada
    BY <1>14, NadaLeido
  <2>2. UNCHANGED <<total_escrito, disco, grilla, buffer_write, bytes_archivo>>
    BY <2>1 DEF ventanaVars, archivoVars
  <2>3. InvCopia'
    BY <1>0, <2>1, <2>2, CopiaIgual DEF InvCopia
  <2>4. VentanaAnterior'
    BY <1>0, <2>1, <2>2 DEF VentanaAnterior, Entera
  <2>. QED  BY <1>0, <1>4, <2>1, <2>2, <2>3, <2>4
<1>. QED
  BY <1>6, <1>7, <1>8, <1>9, <1>11, <1>12, <1>13, <1>14 DEF ServerNext, RecibirTrama

----------------------------------------------------------------------------
(* The server's steps in the other phases *)

\* While the file is named (server.c:279).
LEMMA ContenidoNombre ==
    ASSUME TipoInv, TipoInv', OrdenEnElCable, EnNombre, ContNombre,
           ServerNext, UNCHANGED clientVars
    PROVE  ContNombre'
<1>0. /\ archivo' = archivo /\ NombreServidor /\ NombreIda
      /\ filefd => Esperada = 0
      /\ Esperada = 0 => InvCopia
  BY DEF clientVars, OrdenEnElCable, InvNombre, ContNombre
<1>1. \A i \in 1..Len(c2s) : c2s[i].nro \in {FD, FF}
  BY <1>0 DEF NombreIda
<1>2. FF # FD /\ FF # FE /\ FD # FE /\ FD # 0 /\ FF \in Control /\ FD \in Control
  BY Codigos DEF Control
<1>3. CASE RecibirNombre
  <2>1. /\ Quita(c2s, c2s') /\ c2s[1].nro = FF /\ 1 \in 1..Len(c2s)
    BY <1>3, NombreEfecto DEF Quita
  <2>2. c2s[1].archivo = archivo /\ \A j \in 1..Len(c2s) : c2s[j].nro = FF
    BY <1>0, <2>1 DEF NombreIda
  <2>3. path' = archivo /\ Esperada' = 0
    BY <1>3, <2>2, NombreDespues
  <2>4. Tramas(c2s', 0, archivo, 0)
    <3>1. 0 \in Inicios
      BY VentanaNoEsControl, VentanaEsInicio
    <3>2. \A i \in 1..Len(c2s') : c2s'[i].nro = FF
      BY <2>1, <2>2 DEF Quita
    <3>3. FF \notin Tramo(0)
      BY <3>1, TramoSinControl
    <3>. QED  BY <3>2, <3>3, TramasNinguna
  <2>5. InvCopia'
    BY <1>0, <1>3, <2>3, <2>4, CopiaNueva
  <2>. QED  BY <2>3, <2>5 DEF ContNombre
<1>4. CASE RecibirFin
  <2>1. c2s[1].nro = FE /\ 1 \in 1..Len(c2s)
    BY <1>4, FinEfecto DEF Quita
  <2>. QED  BY <1>1, <1>2, <2>1
<1>5. CASE RecibirPedidoResumen
  <2>1. c2s[1].nro = FD /\ 1 \in 1..Len(c2s) /\ Esperada' = FD
    BY <1>5, PedidoEfecto DEF Quita
  <2>2. Esperada # 0
    BY <1>0, <1>2, <2>1 DEF NombreIda
  <2>3. ~ filefd'
    BY <1>0, <1>5, <2>2 DEF RecibirPedidoResumen, archivoVars
  <2>. QED  BY <1>2, <2>1, <2>3 DEF ContNombre
<1>6. CASE ResumenSinArchivo
  <2>1. c2s[1].nro = FD /\ 1 \in 1..Len(c2s) /\ path = 0
    BY <1>6, SinArchivoEfecto DEF Quita
  <2>. QED  BY <1>0, <1>2, <2>1 DEF NombreIda
<1>7. CASE RecibirFueraDeSecuencia
  <2>1. c2s[1].nro \notin Control /\ 1 \in 1..Len(c2s)
    BY <1>7, FueraEfecto DEF Quita
  <2>. QED  BY <1>1, <1>2, <2>1
<1>8. CASE RecibirDatos
  <2>1. c2s[1].nro \notin Control /\ 1 \in 1..Len(c2s)
    BY <1>8, DatosGrilla DEF Quita
  <2>. QED  BY <1>1, <1>2, <2>1
<1>9. CASE TramaAjena \/ TimeoutServidor
  <2>1. UNCHANGED <<c2s, ventanaVars, archivoVars>> /\ Esperada' = Esperada
    BY <1>9, NadaLeido
  <2>2. UNCHANGED <<total_escrito, disco, grilla, buffer_write, bytes_archivo, filefd>>
    BY <2>1 DEF ventanaVars, archivoVars
  <2>3. InvCopia => InvCopia'
    BY <1>0, <2>1, <2>2, CopiaIgual DEF InvCopia
  <2>. QED  BY <1>0, <2>1, <2>2, <2>3 DEF ContNombre
<1>. QED
  BY <1>3, <1>4, <1>5, <1>6, <1>7, <1>8, <1>9 DEF ServerNext, RecibirTrama

\* What 0xFE leaves on the disk: the last window behind the others, or nothing
\* when none was received (server.c:317-348).
LEMMA CopiaCerrada ==
    ASSUME TipoInv, RecibirFin, archivo' = archivo, Ultima
    PROVE  Cerrada'
<1>. DEFINE b == total_escrito
            V == LargoVentana(archivo, total_escrito)
<1>1. /\ filefd /\ path = archivo /\ InvCopia /\ Entera
      /\ V = Largo[archivo] - b
  BY DEF Ultima
<1>2. /\ Escrita(archivo, b, disco[archivo])
      /\ Ventana(archivo, b, grilla, buffer_write, bytes_archivo)
      /\ Marcados(grilla) = {} => b = 0
  BY <1>1 DEF InvCopia
<1>3. /\ b \in 0..Largo[archivo] /\ b % LARGO_TRAMO = 0 /\ b \in Nat
      /\ archivo \in Archivos /\ Largo[archivo] \in Nat
      /\ buffer_write \in Buffer /\ disco \in [Archivos -> Seq(Celda)]
  BY <1>2, TiposServidor DEF Escrita
<1>4. \A q \in Pos : EnVentana(archivo, b, q) => grilla[q] = LLENO
  BY <1>1 DEF Entera
<1>5. ~ filefd' /\ path' = path
  BY DEF RecibirFin
<1>6. ASSUME Conservable(archivo) PROVE disco'[archivo] = Fuente(archivo)
  <2>1. Exacta(archivo, b)
    BY <1>3, <1>6, ConservableExacta
  <2>2. CASE Saldo
    <3>a. /\ Escrita(archivo, b, disco[archivo])
          /\ Ventana(archivo, b, grilla, buffer_write, bytes_archivo)
      BY <1>2
    <3>b. disco[archivo] \o Porcion(buffer_write, 0, bytes_archivo)
            = SubSeq(Fuente(archivo), 1, b + LargoVentana(archivo, b))
      <4>. HIDE DEF b
      <4>. QED  BY <3>a, <1>3, <1>4, <2>1, CopiaSigue
    <3>1. disco[archivo] \o Porcion(buffer_write, 0, bytes_archivo)
            = SubSeq(Fuente(archivo), 1, b + V)
      BY <3>b
    <3>2. b + V = Largo[archivo]
      BY <1>1, <1>3
    <3>. HIDE DEF b, V
    <3>3. disco' = Escrito
      BY <2>2 DEF RecibirFin
    <3>4. disco'[archivo] = disco[archivo] \o Porcion(buffer_write, 0, bytes_archivo)
      BY <1>1, <1>3, <3>3 DEF Escrito
    <3>. QED  BY <1>3, <3>1, <3>2, <3>4, PrincipioTodo
  <2>3. CASE ~ Saldo
    <3>1. grilla = GrillaVacia /\ disco' = disco
      BY <2>3 DEF RecibirFin, Saldo
    <3>2. b = 0
      BY <1>2, <3>1, MarcadosVacia
    <3>3. V = 0
      <4>1. 0 \in Pos /\ 0 * CHUNK = 0
        BY DEF Pos
      <4>2. grilla[0] # LLENO
        BY <3>1, <4>1, Marcas DEF GrillaVacia
      <4>3. ~ EnVentana(archivo, b, 0)
        BY <1>4, <4>1, <4>2
      <4>4. ~ (0 < V)
        BY <4>1, <4>3 DEF EnVentana
      <4>5. V \in 0..LARGO_TRAMO
        BY <1>3, VentanaTipo
      <4>. HIDE DEF V
      <4>. QED  BY <4>4, <4>5, TramoTipo
    <3>4. Largo[archivo] = 0
      <4>. HIDE DEF V, b
      <4>. QED  BY <1>1, <1>3, <3>2, <3>3
    <3>5. disco[archivo] = SubSeq(Fuente(archivo), 1, 0)
      BY <1>2, <3>2 DEF Escrita
    <3>. QED  BY <1>3, <3>1, <3>4, <3>5, PrincipioTodo
  <2>. QED  BY <2>2, <2>3
<1>. QED  BY <1>1, <1>5, <1>6 DEF Cerrada, Conservable

\* Facts of the phase in which the transmission is ended.
LEMMA FaseFin ==
    ASSUME TipoInv, OrdenEnElCable, EnFin, ContFin
    PROVE  /\ Esperada = FE => c2s = <<>> /\ Cerrada
           /\ Esperada # FE => Esperada \in Inicios /\ Ultima
           /\ FinIda /\ path # 0
<1>1. FinServidor /\ FinIda
  BY DEF OrdenEnElCable, InvFin
<1>2. ASSUME Esperada = FE PROVE c2s = <<>> /\ Cerrada
  <2>1. Esperada \notin Inicios
    BY <1>2, InicioSinControl
  <2>. QED  BY <1>1, <1>2, <2>1 DEF FinServidor, Inicios, ContFin
<1>3. ASSUME Esperada # FE PROVE Esperada \in Inicios /\ Ultima
  BY <1>1, <1>3 DEF FinServidor, Inicios, ContFin
<1>. QED  BY <1>1, <1>2, <1>3 DEF FinServidor

\* While the server holds the last window.
LEMMA ContenidoUltima ==
    ASSUME TipoInv, TipoInv', OrdenEnElCable, EnFin, ContFin, Esperada # FE,
           ServerNext, UNCHANGED clientVars
    PROVE  IF Esperada' = FE THEN Cerrada' ELSE Ultima'
<1>0. /\ archivo' = archivo /\ Ultima /\ FinIda /\ Esperada \in Inicios
      /\ filefd /\ path = archivo /\ InvCopia /\ Entera /\ path # 0
      /\ LargoVentana(archivo, total_escrito) = Largo[archivo] - total_escrito
      /\ \A i \in 1..Len(c2s) :
           c2s[i].nro = FF => c2s[i].archivo = archivo /\ Largo[archivo] = 0
  BY FaseFin DEF clientVars, Ultima
<1>1. \A i \in 1..Len(c2s) :
         \/ c2s[i].nro = FF /\ Esperada = 0
         \/ c2s[i].nro \in Tramo(Esperada)
         \/ c2s[i].nro = FE
  BY <1>0 DEF FinIda
<1>2. /\ FF # FD /\ FF # FE /\ FD # FE /\ FF # 0 /\ FE # 0
      /\ \A n \in Tramo(Esperada) : n # FF /\ n # FE /\ n # FD /\ n \notin Control
      /\ FF \in Control /\ FE \in Control
  BY <1>0, Codigos, TramoSinControl DEF Control
<1>a. ASSUME Quita(c2s, c2s')
      PROVE  \A i \in 1..Len(c2s') :
               c2s'[i].nro = FF => c2s'[i].archivo = archivo /\ Largo[archivo] = 0
  BY <1>0, <1>a DEF Quita
<1>3. CASE RecibirNombre
  <2>1. Quita(c2s, c2s') /\ c2s[1].nro = FF /\ 1 \in 1..Len(c2s)
    BY <1>3, NombreEfecto DEF Quita
  <2>2. c2s[1].archivo = archivo /\ Largo[archivo] = 0 /\ Esperada = 0
    BY <1>0, <1>1, <1>2, <2>1
  <2>3. path' = archivo /\ Esperada' = 0 /\ filefd'
    BY <1>3, <2>2, NombreDespues
  <2>4. total_escrito = 0
    BY <1>0, <2>2, TiposServidor DEF InvCopia, Escrita
  <2>5. Tramas(c2s', 0, archivo, 0)
    <3>1. Tramas(c2s, 0, archivo, 0)
      BY <1>0, <2>2, <2>4 DEF InvCopia
    <3>. QED  BY <2>1, <3>1, TramasQuita
  <2>6. InvCopia' /\ total_escrito' = 0
    BY <1>0, <1>3, <2>3, <2>5, CopiaNueva
  <2>7. LargoVentana(archivo, 0) = 0
    BY <2>2, TramoTipo DEF LargoVentana, Menor
  <2>8. Entera'
    <3>1. ASSUME NEW p \in Pos PROVE ~ EnVentana(archivo, 0, p)
      <4>1. p * CHUNK \in Nat
        BY LugarDentro
      <4>. QED  BY <2>7, <4>1 DEF EnVentana
    <3>. QED  BY <1>0, <2>6, <3>1 DEF Entera
  <2>9. Ultima'
    BY <1>0, <1>a, <2>1, <2>2, <2>3, <2>6, <2>7, <2>8 DEF Ultima
  <2>. QED  BY <1>2, <2>3, <2>9
<1>4. CASE RecibirFin
  <2>1. Esperada' = FE
    BY <1>4, FinEfecto
  <2>2. Cerrada'
    BY <1>0, <1>4, CopiaCerrada
  <2>. QED  BY <2>1, <2>2
<1>5. CASE RecibirPedidoResumen
  <2>1. c2s[1].nro = FD /\ 1 \in 1..Len(c2s)
    BY <1>5, PedidoEfecto DEF Quita
  <2>. QED  BY <1>1, <1>2, <2>1
<1>6. CASE ResumenSinArchivo
  BY <1>0, <1>6, SinArchivoEfecto
<1>7. ASSUME Quita(c2s, c2s'), trama = c2s[1], trama.nro \notin Control
      PROVE  ~ Avanza /\ trama.nro \in Tramo(Esperada)
  <2>1. 1 \in 1..Len(c2s)
    BY <1>7 DEF Quita
  <2>2. trama.nro \in Tramo(Esperada)
    BY <1>1, <1>2, <1>7, <2>1
  <2>. QED  BY <1>0, <2>2, TramoNoAvanza
<1>8. CASE RecibirFueraDeSecuencia
  BY <1>7, <1>8, FueraEfecto
<1>9. CASE RecibirDatos
  <2>1. Quita(c2s, c2s') /\ ~ Avanza /\ trama.nro \in Tramo(Esperada)
        /\ UNCHANGED <<filefd, path>>
    BY <1>7, <1>9, DatosGrilla
  <2>2. /\ InvCopia' /\ Marcados(grilla) \subseteq Marcados(grilla')
        /\ total_escrito' = total_escrito /\ Esperada' = Esperada
    BY <1>0, <1>9, <2>1, CopiaChunk, DatosEnVentana
  <2>3. Entera'
    BY <1>0, <2>2 DEF Entera, Marcados
  <2>4. Ultima'
    BY <1>0, <1>a, <2>1, <2>2, <2>3 DEF Ultima
  <2>. QED  BY <2>2, <2>4
<1>10. CASE TramaAjena \/ TimeoutServidor
  <2>1. UNCHANGED <<c2s, ventanaVars, archivoVars>> /\ Esperada' = Esperada
    BY <1>10, NadaLeido
  <2>2. UNCHANGED <<total_escrito, disco, grilla, buffer_write, bytes_archivo, filefd, path>>
    BY <2>1 DEF ventanaVars, archivoVars
  <2>3. InvCopia'
    BY <1>0, <2>1, <2>2, CopiaIgual DEF InvCopia
  <2>4. Ultima'
    BY <1>0, <2>1, <2>2, <2>3 DEF Ultima, Entera
  <2>. QED  BY <2>1, <2>4
<1>. QED
  BY <1>3, <1>4, <1>5, <1>6, <1>8, <1>9, <1>10 DEF ServerNext, RecibirTrama

\* While the end of the transmission is waited for.
LEMMA ContenidoFin ==
    ASSUME TipoInv, TipoInv', OrdenEnElCable, EnFin, ContFin,
           ServerNext, UNCHANGED clientVars
    PROVE  ContFin'
<1>1. CASE Esperada # FE
  <2>1. IF Esperada' = FE THEN Cerrada' ELSE Ultima'
    BY <1>1, ContenidoUltima
  <2>. QED  BY <2>1 DEF ContFin
<1>2. CASE Esperada = FE
  <2>1. c2s = <<>> /\ Cerrada
    BY <1>2, FaseFin
  <2>2. ~ RecibirTrama
    BY <2>1 DEF RecibirTrama, RecibirNombre, RecibirFin, RecibirPedidoResumen,
                ResumenSinArchivo, RecibirFueraDeSecuencia, RecibirDatos, Recibir
  <2>3. UNCHANGED archivoVars /\ Esperada' = Esperada /\ archivo' = archivo
    BY <2>2, NadaLeido DEF ServerNext, clientVars
  <2>4. Cerrada'
    BY <2>1, <2>3 DEF Cerrada, archivoVars
  <2>. QED  BY <1>2, <2>3, <2>4 DEF ContFin
<1>. QED  BY <1>1, <1>2

\* While the digests are compared, and after (server.c:357).
LEMMA ContenidoResumen ==
    ASSUME TipoInv, TipoInv', OrdenEnElCable, EnResumen \/ cpc = "exit", ContResumen,
           ServerNext, UNCHANGED clientVars
    PROVE  ContResumen' /\ disco' = disco
<1>0. /\ archivo' = archivo /\ ResumenIda /\ Cerrada /\ Resumenes /\ path # 0
      /\ path = archivo
  BY DEF clientVars, OrdenEnElCable, InvResumen, InvExit, ContResumen, Cerrada
<1>1. /\ FF # FD /\ FD # FE /\ FD \in Control
  BY Codigos DEF Control
<1>a. ASSUME UNCHANGED archivoVars
      PROVE  Cerrada' /\ disco' = disco
  BY <1>0, <1>a DEF Cerrada, archivoVars
<1>b. ASSUME Quita(c2s, c2s') PROVE c2s[1].nro = FD
  BY <1>0, <1>b DEF ResumenIda, Quita
<1>2. CASE RecibirNombre
  BY <1>1, <1>2, <1>b, NombreEfecto
<1>3. CASE RecibirFin
  BY <1>1, <1>3, <1>b, FinEfecto
<1>4. CASE RecibirPedidoResumen
  <2>1. UNCHANGED archivoVars /\ resumen' = <<disco[path]>>
    BY <1>4 DEF RecibirPedidoResumen
  <2>2. Agrega(s2c, s2c', AckDe(FD)) /\ AckDe(FD).resumen = <<disco[archivo]>>
    BY <1>0, <1>4, <2>1, PedidoEfecto DEF AckDe
  <2>3. Cerrada' /\ disco' = disco
    BY <1>a, <2>1
  <2>4. Resumenes'
    <3>1. resumen' = <<disco'[archivo']>>
      BY <1>0, <2>1, <2>3
    <3>2. ASSUME NEW k \in 1..Len(s2c'), s2c'[k].nro = FD
          PROVE  s2c'[k].resumen = <<disco'[archivo']>>
      <4>1. CASE k <= Len(s2c) /\ s2c'[k] = s2c[k]
        <5>1. k \in 1..Len(s2c)
          BY <2>2, <4>1 DEF Agrega
        <5>. QED  BY <1>0, <2>3, <3>2, <4>1, <5>1 DEF Resumenes
      <4>2. CASE s2c'[k] = AckDe(FD)
        BY <1>0, <2>2, <2>3, <4>2
      <4>. QED  BY <2>2, <4>1, <4>2 DEF Agrega
    <3>. QED  BY <3>1, <3>2 DEF Resumenes
  <2>. QED  BY <2>3, <2>4 DEF ContResumen
<1>5. CASE ResumenSinArchivo
  BY <1>0, <1>5, SinArchivoEfecto
<1>6. CASE RecibirFueraDeSecuencia
  BY <1>1, <1>6, <1>b, FueraEfecto
<1>7. CASE RecibirDatos
  BY <1>1, <1>7, <1>b, DatosGrilla
<1>8. CASE TramaAjena \/ TimeoutServidor
  <2>1. /\ UNCHANGED <<ventanaVars, archivoVars>> /\ Esperada' = Esperada
        /\ s2c' = s2c \/ Agrega(s2c, s2c', AckDe(Esperada))
    BY <1>8, NadaLeido
  <2>2. Cerrada' /\ disco' = disco /\ resumen' = resumen
    BY <1>a, <2>1 DEF ventanaVars
  <2>3. AckDe(Esperada).nro = Esperada /\ AckDe(Esperada).resumen = resumen
    BY <2>2 DEF AckDe
  <2>4. Resumenes'
    <3>1. Esperada' = FD => resumen' = <<disco'[archivo']>>
      BY <1>0, <2>1, <2>2 DEF Resumenes
    <3>2. ASSUME NEW k \in 1..Len(s2c'), s2c'[k].nro = FD
          PROVE  s2c'[k].resumen = <<disco'[archivo']>>
      <4>1. CASE k \in 1..Len(s2c) /\ s2c'[k] = s2c[k]
        BY <1>0, <2>2, <3>2, <4>1 DEF Resumenes
      <4>2. CASE s2c'[k] = AckDe(Esperada)
        BY <2>1, <2>2, <2>3, <3>1, <3>2, <4>2
      <4>. QED  BY <2>1, <4>1, <4>2 DEF Agrega
    <3>. QED  BY <3>1, <3>2 DEF Resumenes
  <2>. QED  BY <2>2, <2>4 DEF ContResumen
<1>. QED
  BY <1>2, <1>3, <1>4, <1>5, <1>6, <1>7, <1>8 DEF ServerNext, RecibirTrama

\* A step of the server keeps what is in flight and in the buffers.
LEMMA ServidorContenido ==
    ASSUME TipoInv, TipoInv', OrdenEnElCable, ContenidoEnOrden,
           ServerNext, UNCHANGED clientVars
    PROVE  ContenidoEnOrden'
<1>0. InvLeido /\ ContNombre /\ ContDatos /\ ContFin /\ ContResumen /\ InformeVeraz
  BY DEF ContenidoEnOrden
<1>1. /\ EnNombre' = EnNombre /\ EnDatos' = EnDatos /\ EnFin' = EnFin
      /\ EnResumen' = EnResumen /\ cpc' = cpc /\ archivo' = archivo /\ informe' = informe
  BY DEF clientVars, EnNombre, EnDatos, Enviando, EnFin, EnResumen
<1>2. InvLeido'
  <2>1. UNCHANGED <<cpc, archivo, leido, length_read, buffer_read, cantidad_ack, ultimo,
                    esperado, huecos, informe>>
    BY DEF clientVars, tramoVars
  <2>. QED  BY <1>0, <2>1 DEF InvLeido, EnNombre, Enviando, Memoria, Base
<1>3. ContNombre'
  <2>1. CASE EnNombre
    BY <1>0, <2>1, ContenidoNombre
  <2>2. CASE ~ EnNombre
    BY <1>1, <2>2 DEF ContNombre
  <2>. QED  BY <2>1, <2>2
<1>4. ContDatos'
  <2>1. CASE EnDatos
    <3>1. CASE Esperada = Enviada
      <4>1. InvCopia /\ MismaVentana
        BY <1>0, <2>1, <3>1 DEF ContDatos
      <4>2. Esperada' = Enviada' /\ InvCopia' /\ MismaVentana'
        BY <2>1, <3>1, <4>1, ContenidoAlDia
      <4>. QED  BY <4>2 DEF ContDatos
    <3>2. CASE Esperada # Enviada
      <4>1. InvCopia /\ VentanaAnterior
        BY <1>0, <2>1, <3>2 DEF ContDatos
      <4>2. InvCopia' /\ IF Esperada' = Enviada' THEN MismaVentana' ELSE VentanaAnterior'
        BY <1>0, <2>1, <3>2, <4>1, ContenidoAtras
      <4>. QED  BY <4>2 DEF ContDatos
    <3>. QED  BY <3>1, <3>2
  <2>2. CASE ~ EnDatos
    BY <1>1, <2>2 DEF ContDatos
  <2>. QED  BY <2>1, <2>2
<1>5. ContFin'
  <2>1. CASE EnFin
    BY <1>0, <2>1, ContenidoFin
  <2>2. CASE ~ EnFin
    BY <1>1, <2>2 DEF ContFin
  <2>. QED  BY <2>1, <2>2
<1>6. ContResumen' /\ InformeVeraz'
  <2>1. CASE EnResumen \/ cpc = "exit"
    <3>1. ContResumen' /\ disco' = disco
      BY <1>0, <2>1, ContenidoResumen
    <3>. QED  BY <1>0, <1>1, <3>1 DEF InformeVeraz
  <2>2. CASE ~ (EnResumen \/ cpc = "exit")
    BY <1>1, <2>2 DEF ContResumen, InformeVeraz
  <2>. QED  BY <2>1, <2>2
<1>. QED  BY <1>2, <1>3, <1>4, <1>5, <1>6 DEF ContenidoEnOrden

----------------------------------------------------------------------------
(* What the client sends *)

\* Two windows have no number in common.
LEMMA TramosDistintos ==
    ASSUME NEW w \in Ventanas, NEW v \in Ventanas, w # v, NEW n \in Tramo(w)
    PROVE  n \notin Tramo(v)
<1>. SUFFICES ASSUME n \in Tramo(v) PROVE FALSE
  OBVIOUS
<1>1. n % CANT_CHUNKS = n - w /\ n % CANT_CHUNKS = n - v
  BY Posicion
<1>2. w \in Int /\ v \in Int /\ n \in Int
  BY DEF Ventanas, Tramo
<1>. QED  BY <1>1, <1>2

\* An earlier chunk than one of the window is of the window.
LEMMA EnVentanaAntes ==
    ASSUME NEW f \in Archivos, NEW b \in 0..Largo[f], NEW p \in Pos, NEW q \in Pos,
           p <= q, EnVentana(f, b, q)
    PROVE  EnVentana(f, b, p)
<1>1. p \in Nat /\ q \in Nat /\ p * CHUNK \in Nat /\ q * CHUNK \in Nat
      /\ LargoVentana(f, b) \in Nat
  BY LugarDentro, VentanaTipo, TramoTipo DEF Pos
<1>2. CASE p = q
  BY <1>2
<1>3. CASE p < q
  <2>1. p * CHUNK + CHUNK <= q * CHUNK
    BY <1>1, <1>3, LugarAntes
  <2>. QED  BY <1>1, <2>1 DEF EnVentana
<1>. QED  BY <1>1, <1>2, <1>3

\* What goes out of a buffer that holds the window: chunk p, with n bytes of it.
LEMMA ChunkEnviado ==
    ASSUME NEW f \in Archivos, NEW b \in 0..Largo[f], NEW w \in Buffer, NEW p \in Pos,
           EnVentana(f, b, p), NEW n \in LargoChunk(f, b, p)..CHUNK,
           Exacta(f, b) => n = LargoChunk(f, b, p),
           \A k \in 1..LargoVentana(f, b) : w[k] = <<f, b + k>>
    PROVE  EsChunk(f, b, p, EnCable(Porcion(w, p, n)))
<1>. DEFINE x == Porcion(w, p, n)
            c == LargoChunk(f, b, p)
            y == EnCable(x)
<1>1. /\ c \in 1..CHUNK /\ p * CHUNK + c <= LargoVentana(f, b)
      /\ LargoVentana(f, b) \in 0..LARGO_TRAMO /\ LARGO_TRAMO \in Nat
      /\ p * CHUNK \in Nat /\ p \in Nat
  BY ChunkTipo, VentanaTipo, TramoTipo, LugarDentro DEF Pos
<1>2. n \in Nat /\ c <= n /\ n <= CHUNK
  BY <1>1
<1>3. Len(x) = n
  BY <1>2 DEF Porcion
<1>4. \A k \in 1..c : x[k] = <<f, b + p * CHUNK + k>>
  <2>. SUFFICES ASSUME NEW k \in 1..c PROVE x[k] = <<f, b + p * CHUNK + k>>
    OBVIOUS
  <2>1. k \in 1..n /\ p * CHUNK + k <= LARGO_TRAMO
        /\ p * CHUNK + k \in 1..LargoVentana(f, b)
    <3>. HIDE DEF c, x
    <3>. QED  BY <1>1, <1>2
  <2>2. x[k] = w[p * CHUNK + k]
    BY <2>1 DEF Porcion
  <2>3. w[p * CHUNK + k] = <<f, b + (p * CHUNK + k)>>
    BY <2>1
  <2>4. b + (p * CHUNK + k) = b + p * CHUNK + k
    BY <1>1
  <2>. QED  BY <2>2, <2>3, <2>4
<1>. HIDE DEF x, c
<1>5. Len(y) = Mayor(n, MIN_DATOS)
  <2>1. Mayor(n, MIN_DATOS) \in Nat
    BY <1>2 DEF Mayor
  <2>. QED  BY <1>3, <2>1 DEF EnCable
<1>6. \A k \in 1..c : y[k] = x[k]
  <2>1. \A k \in 1..c : k \in 1..Mayor(n, MIN_DATOS) /\ k <= n
    BY <1>1, <1>2 DEF Mayor
  <2>. QED  BY <1>3, <2>1 DEF EnCable
<1>7. Len(y) \in c..CHUNK
  BY <1>1, <1>2, <1>5 DEF Mayor
<1>8. Exacta(f, b) => Len(y) = c
  <2>1. Exacta(f, b) => n = c /\ c >= MIN_DATOS
    BY ChunkExacto DEF c
  <2>. QED  BY <1>1, <1>5, <2>1 DEF Mayor
<1>. HIDE DEF y
<1>9. EsChunk(f, b, p, y)
  BY <1>4, <1>6, <1>7, <1>8 DEF EsChunk, c
<1>. QED  BY <1>9 DEF x, y

\* The window in the client's memory.
LEMMA EnMemoria ==
    ASSUME TipoInv, InvLeido, Enviando
    PROVE  /\ archivo \in Archivos /\ Base \in 0..Largo[archivo]
           /\ Base % LARGO_TRAMO = 0
           /\ buffer_read \in Buffer /\ length_read = LargoVentana(archivo, Base)
           /\ length_read \in 1..LARGO_TRAMO /\ leido = Base + length_read
           /\ \A k \in 1..LargoVentana(archivo, Base) : buffer_read[k] = <<archivo, Base + k>>
<1>1. Memoria(archivo, Base)
  BY DEF InvLeido
<1>2. /\ archivo \in Archivos /\ buffer_read \in Buffer /\ leido \in 0..Largo[archivo]
      /\ length_read \in 0..LARGO_TRAMO /\ length_read > 0
  BY DEF TipoInv, TypeOK, ClientTypeOK, InvCliente
<1>3. leido \in Nat /\ length_read \in Nat
  BY <1>2, TramoTipo, LargoTipo
<1>. QED  BY <1>1, <1>2, <1>3, TramoTipo DEF Memoria, Base

\* The next chunk (client.c:419-450).
LEMMA ChunkSiguiente ==
    ASSUME TipoInv, InvLeido, cpc = "tramo"
    PROVE  /\ cantidad_ack \in Pos /\ EnVentana(archivo, Base, cantidad_ack)
           /\ EsChunk(archivo, Base, cantidad_ack,
                EnCable(Porcion(buffer_read, cantidad_ack,
                                Menor(CHUNK, length_read - cantidad_ack * CHUNK))))
<1>1. Enviando
  BY DEF Enviando
<1>2. /\ archivo \in Archivos /\ Base \in 0..Largo[archivo]
      /\ buffer_read \in Buffer /\ length_read = LargoVentana(archivo, Base)
      /\ \A k \in 1..LargoVentana(archivo, Base) : buffer_read[k] = <<archivo, Base + k>>
  BY <1>1, EnMemoria
<1>3. cantidad_ack \in Pos /\ EnVentana(archivo, Base, cantidad_ack)
  BY <1>2 DEF TipoInv, TypeOK, ClientTypeOK, InvCliente, Pos, EnVentana
<1>4. Menor(CHUNK, length_read - cantidad_ack * CHUNK) = LargoChunk(archivo, Base, cantidad_ack)
  BY <1>2 DEF LargoChunk
<1>5. LargoChunk(archivo, Base, cantidad_ack)
        \in LargoChunk(archivo, Base, cantidad_ack)..CHUNK
  <2>1. LargoChunk(archivo, Base, cantidad_ack) \in 1..CHUNK
    BY <1>2, <1>3, ChunkTipo
  <2>. QED  BY <2>1
<1>6. EsChunk(archivo, Base, cantidad_ack,
        EnCable(Porcion(buffer_read, cantidad_ack, LargoChunk(archivo, Base, cantidad_ack))))
  <2>. DEFINE n == LargoChunk(archivo, Base, cantidad_ack)
  <2>1. n \in n..CHUNK /\ (Exacta(archivo, Base) => n = n)
    BY <1>5
  <2>. QED  BY <1>2, <1>3, <2>1, ChunkEnviado
<1>. QED  BY <1>3, <1>4, <1>6

\* The last chunk sent, again (client.c:406-417).
LEMMA ChunkRepetido ==
    ASSUME TipoInv, InvLeido, cpc = "ultimo"
    PROVE  /\ ultimo \in Pos
           /\ EsChunk(archivo, Base, ultimo,
                EnCable(Porcion(buffer_read, ultimo, Menor(CHUNK, length_read))))
<1>1. Enviando
  BY DEF Enviando
<1>2. /\ archivo \in Archivos /\ Base \in 0..Largo[archivo]
      /\ buffer_read \in Buffer /\ length_read = LargoVentana(archivo, Base)
      /\ \A k \in 1..LargoVentana(archivo, Base) : buffer_read[k] = <<archivo, Base + k>>
  BY <1>1, EnMemoria
<1>3. ultimo \in Pos /\ EnVentana(archivo, Base, ultimo)
  BY <1>1 DEF TipoInv, TypeOK, ClientTypeOK, InvLeido
<1>. DEFINE n == Menor(CHUNK, LargoVentana(archivo, Base))
            V == LargoVentana(archivo, Base)
<1>4. n \in LargoChunk(archivo, Base, ultimo)..CHUNK
  <2>1. V \in Nat /\ ultimo * CHUNK \in Nat
    BY <1>2, <1>3, VentanaTipo, TramoTipo, LugarDentro
  <2>. HIDE DEF V
  <2>2. Menor(CHUNK, V - ultimo * CHUNK) <= Menor(CHUNK, V) /\ Menor(CHUNK, V) <= CHUNK
        /\ Menor(CHUNK, V) \in Int /\ Menor(CHUNK, V - ultimo * CHUNK) \in Int
    BY <2>1 DEF Menor
  <2>. QED  BY <2>2 DEF LargoChunk, V
<1>5. Exacta(archivo, Base) => n = LargoChunk(archivo, Base, ultimo)
  BY <1>2, <1>3, ChunkExacto
<1>. HIDE DEF n
<1>6. EsChunk(archivo, Base, ultimo, EnCable(Porcion(buffer_read, ultimo, n)))
  BY <1>2, <1>3, <1>4, <1>5, ChunkEnviado
<1>. QED  BY <1>2, <1>3, <1>6 DEF n

\* What fills a hole (client.c:815).
LEMMA ChunkFaltante ==
    ASSUME TipoInv, InvLeido, cpc = "huecos", NEW p \in huecos
    PROVE  /\ p \in Pos /\ EnVentana(archivo, Base, p)
           /\ EsChunk(archivo, Base, p, EnCable(ChunkDeHueco(p)))
<1>1. Enviando
  BY DEF Enviando
<1>2. /\ archivo \in Archivos /\ Base \in 0..Largo[archivo]
      /\ buffer_read \in Buffer /\ length_read = LargoVentana(archivo, Base)
      /\ \A k \in 1..LargoVentana(archivo, Base) : buffer_read[k] = <<archivo, Base + k>>
  BY <1>1, EnMemoria
<1>3. /\ p \in Pos /\ EnVentana(archivo, Base, p)
      /\ Exacta(archivo, Base) => Lleno(archivo, Base, p)
  BY DEF TipoInv, TypeOK, ClientTypeOK, InvLeido
<1>4. LargoChunk(archivo, Base, p) \in 1..CHUNK
      /\ (Lleno(archivo, Base, p) => LargoChunk(archivo, Base, p) = CHUNK)
  BY <1>2, <1>3, ChunkTipo
<1>5. CHUNK \in LargoChunk(archivo, Base, p)..CHUNK
      /\ (Exacta(archivo, Base) => CHUNK = LargoChunk(archivo, Base, p))
  BY <1>3, <1>4
<1>6. EsChunk(archivo, Base, p, EnCable(Porcion(buffer_read, p, CHUNK)))
  BY <1>2, <1>3, <1>5, ChunkEnviado
<1>. QED  BY <1>3, <1>6 DEF ChunkDeHueco

----------------------------------------------------------------------------
(* The client's steps: what it has in memory *)

\* A step that leaves the window in memory as it is.
LEMMA LeidoIgual ==
    ASSUME InvLeido, UNCHANGED <<archivo, tramoVars>>,
           EnNombre' => EnNombre,
           Enviando' => Enviando /\ (cantidad_ack' = cantidad_ack \/ cantidad_ack' = 0),
           Enviando' /\ cpc' # "tramo" => /\ cpc # "tramo"
                                          /\ UNCHANGED <<cantidad_ack, ultimo>>,
           cpc' = "huecos" => cpc = "huecos" /\ huecos' \subseteq huecos,
           informe' = informe, cpc' = "exit" <=> cpc = "exit"
    PROVE  InvLeido'
<1>0. /\ UNCHANGED <<leido, length_read, buffer_read, archivo>> /\ Base' = Base
  BY DEF tramoVars, Base
<1>1. EnNombre' => leido' = 0 /\ length_read' = 0
  BY <1>0 DEF InvLeido
<1>2. Enviando' => /\ Memoria(archivo, Base)'
                   /\ cantidad_ack' > 0 => EnVentana(archivo', Base', cantidad_ack' - 1)
  BY <1>0 DEF InvLeido, Memoria
<1>3. Enviando' /\ cpc' # "tramo" =>
         /\ length_read' <= cantidad_ack' * CHUNK
         /\ EnVentana(archivo', Base', ultimo')
  BY <1>0 DEF InvLeido
<1>4. cpc' = "huecos" => \A p \in huecos' :
         /\ EnVentana(archivo', Base', p)
         /\ Exacta(archivo', Base') => Lleno(archivo', Base', p)
  BY <1>0 DEF InvLeido
<1>5. informe' = "ninguno" <=> cpc' # "exit"
  BY DEF InvLeido
<1>. QED  BY <1>1, <1>2, <1>3, <1>4, <1>5 DEF InvLeido

\* A step to a phase in which no window is in memory.
LEMMA LeidoNada ==
    ASSUME ~ EnNombre' \/ (leido' = 0 /\ length_read' = 0), ~ Enviando',
           informe' = "ninguno" <=> cpc' # "exit"
    PROVE  InvLeido'
<1>1. cpc' # "huecos"
  BY DEF Enviando
<1>. QED  BY <1>1 DEF InvLeido

\* The next window is read (client.c:335).
LEMMA LeidoTramo ==
    ASSUME TipoInv, TipoInv', OrdenEnElCable, InvLeido, InvCopia, LeerTramo,
           IF Esperada = Enviada THEN MismaVentana ELSE VentanaAnterior
    PROVE  /\ InvLeido' /\ Base' = leido
           /\ Esperada # Enviada => leido = total_escrito + LARGO_TRAMO
<1>. DEFINE largo == Menor(Largo[archivo] - leido, LARGO_TRAMO)
            lectura == [k \in 1..largo |-> <<archivo, leido + k>>]
<1>1. /\ cpc = "leer" /\ largo > 0 /\ length_read' = largo /\ leido' = leido + largo
      /\ buffer_read' = Copiado(buffer_read, 0, lectura)
      /\ cantidad_ack' = 0 /\ cpc' = "tramo" /\ UNCHANGED <<archivo, informe>>
  BY DEF LeerTramo
<1>2. /\ archivo \in Archivos /\ leido \in 0..Largo[archivo] /\ Largo[archivo] \in Nat
      /\ LARGO_TRAMO \in Nat \ {0} /\ leido \in Nat
  BY TramoTipo DEF TipoInv, TypeOK, ClientTypeOK
<1>3. largo \in 1..LARGO_TRAMO /\ leido < Largo[archivo] /\ largo \in Nat
  BY <1>1, <1>2 DEF Menor
<1>4. largo = LargoVentana(archivo, leido)
  BY <1>2 DEF LargoVentana, Menor
<1>5. \A k \in 1..largo : buffer_read'[k] = <<archivo, leido + k>>
  <2>1. Len(lectura) = largo
    BY <1>3
  <2>2. \A k \in 1..largo : lectura[k] = <<archivo, leido + k>>
    OBVIOUS
  <2>. HIDE DEF lectura
  <2>3. ASSUME NEW k \in 1..largo PROVE Copiado(buffer_read, 0, lectura)[k] = lectura[k]
    <3>1. k \in 1..LARGO_TRAMO /\ k \in Nat /\ k > 0 /\ k <= largo
      BY <1>2, <1>3
    <3>2. Copiado(buffer_read, 0, lectura)[k]
            = IF k > 0 * CHUNK /\ k <= 0 * CHUNK + Len(lectura)
              THEN lectura[k - 0 * CHUNK] ELSE buffer_read[k]
      BY <3>1, CopiadoEn
    <3>3. 0 * CHUNK = 0 /\ k - 0 = k /\ 0 + largo = largo
      BY <1>3, <3>1, LugarCero
    <3>. HIDE DEF largo
    <3>. QED  BY <2>1, <3>1, <3>2, <3>3
  <2>. QED  BY <1>1, <2>2, <2>3
<1>. HIDE DEF largo, lectura
<1>6. Base' = leido
  BY <1>1, <1>2, <1>3 DEF Base
<1>7. /\ leido % LARGO_TRAMO = 0
      /\ Esperada # Enviada => leido = total_escrito + LARGO_TRAMO
  <2>1. CASE Esperada = Enviada
    <3>1. leido = 0
      BY <1>1, <2>1 DEF MismaVentana
    <3>. QED  BY <2>1, <3>1, <1>2, Cociente
  <2>2. CASE Esperada # Enviada
    <3>1. leido = total_escrito + LargoVentana(archivo, total_escrito)
      BY <1>1, <2>2 DEF VentanaAnterior
    <3>2. /\ total_escrito \in 0..Largo[archivo] /\ total_escrito % LARGO_TRAMO = 0
          /\ total_escrito \in Nat
      BY <1>2 DEF InvCopia, Escrita
    <3>3. LargoVentana(archivo, total_escrito) \in {LARGO_TRAMO, Largo[archivo] - total_escrito}
      BY <1>2, <3>2, VentanaTipo
    <3>4. LargoVentana(archivo, total_escrito) = LARGO_TRAMO
      BY <1>2, <1>3, <3>1, <3>2, <3>3
    <3>. QED  BY <1>2, <3>1, <3>2, <3>4, RestoSiguiente
  <2>. QED  BY <2>1, <2>2
<1>8. Memoria(archivo, Base)'
  BY <1>1, <1>2, <1>4, <1>5, <1>6, <1>7 DEF Memoria
<1>9. ~ EnNombre' /\ informe' = "ninguno"
  BY <1>1 DEF EnNombre, InvLeido
<1>10. InvLeido'
  BY <1>1, <1>8, <1>9 DEF InvLeido, Enviando
<1>. QED  BY <1>6, <1>7, <1>10

\* A chunk more is on the wire (client.c:419-450).
LEMMA LeidoChunk ==
    ASSUME TipoInv, TipoInv', InvLeido, EnviarChunk
    PROVE  InvLeido'
<1>1. /\ cpc = "tramo" /\ ultimo' = cantidad_ack /\ cantidad_ack' = cantidad_ack + 1
      /\ UNCHANGED <<archivo, leido, length_read, buffer_read, informe>>
      /\ \/ cpc' = "tramo"
         \/ /\ cpc' = "esperar" /\ esperado' = nro_secuencia_enviado
            /\ ~ (cantidad_ack + 1 < CANT_CHUNKS /\ length_read - cantidad_ack * CHUNK > CHUNK)
  BY DEF EnviarChunk, tramoVars
<1>2. /\ Enviando /\ Base' = Base /\ archivo \in Archivos
      /\ length_read \in 1..LARGO_TRAMO
  BY <1>1, EnMemoria DEF Enviando, Base
<1>3. cantidad_ack \in Pos /\ EnVentana(archivo, Base, cantidad_ack)
  BY <1>1, ChunkSiguiente
<1>4. (cantidad_ack + 1) - 1 = cantidad_ack /\ cantidad_ack \in Nat
  BY <1>3 DEF Pos
<1>5. Memoria(archivo, Base)'
  BY <1>1, <1>2 DEF InvLeido, Memoria
<1>6. cpc' # "tramo" => length_read <= (cantidad_ack + 1) * CHUNK
  <2>1. (cantidad_ack + 1) * CHUNK = cantidad_ack * CHUNK + CHUNK /\ cantidad_ack * CHUNK \in Nat
    BY <1>4, Lugar
  <2>2. cantidad_ack + 1 = CANT_CHUNKS => (cantidad_ack + 1) * CHUNK = LARGO_TRAMO
    BY DEF LARGO_TRAMO
  <2>3. cantidad_ack + 1 <= CANT_CHUNKS
    BY <1>3 DEF Pos
  <2>. QED  BY <1>1, <1>2, <1>4, <2>1, <2>2, <2>3, TramoTipo
<1>7. ~ EnNombre' /\ cpc' # "huecos" /\ cpc' # "exit" /\ informe' = "ninguno"
  <2>1. nro_secuencia_enviado # FF
    BY VentanaNoEsControl DEF TipoInv, TypeOK, ClientTypeOK
  <2>. QED  BY <1>1, <2>1 DEF EnNombre, InvLeido
<1>8. /\ cantidad_ack' - 1 = cantidad_ack
      /\ EnVentana(archivo', Base', cantidad_ack' - 1)
      /\ EnVentana(archivo', Base', ultimo')
      /\ cpc' # "tramo" => length_read' <= cantidad_ack' * CHUNK
  BY <1>1, <1>2, <1>3, <1>4, <1>6
<1>. QED  BY <1>5, <1>7, <1>8 DEF InvLeido

\* A hole is filled (client.c:796-815).
LEMMA LeidoHueco ==
    ASSUME TipoInv, TipoInv', InvLeido, LlenarHueco
    PROVE  InvLeido'
<1>1. PICK p \in huecos :
        /\ cpc = "huecos" /\ ultimo' = p /\ huecos' = huecos \ {p}
        /\ cpc' \in {"esperar", "huecos"}
        /\ UNCHANGED <<archivo, leido, length_read, buffer_read, cantidad_ack, esperado,
                       informe>>
  BY DEF LlenarHueco, tramoVars
<1>2. Enviando /\ Base' = Base /\ esperado \in Ventanas
  BY <1>1 DEF Enviando, Base, TipoInv, InvCliente
<1>3. EnVentana(archivo, Base, p)
  BY <1>1, ChunkFaltante
<1>4. ~ EnNombre'
  BY <1>1, <1>2, VentanaNoEsControl DEF EnNombre
<1>5. Memoria(archivo, Base)'
  BY <1>1, <1>2 DEF InvLeido, Memoria
<1>6. /\ cantidad_ack' > 0 => EnVentana(archivo', Base', cantidad_ack' - 1)
      /\ length_read' <= cantidad_ack' * CHUNK
      /\ EnVentana(archivo', Base', ultimo')
  BY <1>1, <1>2, <1>3 DEF InvLeido
<1>7. \A q \in huecos' : /\ EnVentana(archivo', Base', q)
                         /\ Exacta(archivo', Base') => Lleno(archivo', Base', q)
  BY <1>1, <1>2 DEF InvLeido
<1>8. informe' = "ninguno" /\ cpc' # "exit"
  BY <1>1 DEF InvLeido
<1>. QED  BY <1>4, <1>5, <1>6, <1>7, <1>8 DEF InvLeido

\* What the grid of the client's window marks, the server has.
LEMMA AckDeLaVentana ==
    ASSUME TipoInv, OrdenEnElCable, ContenidoEnOrden, cpc = "esperar", Leer,
           ack.nro = esperado, esperado \in Ventanas
    PROVE  /\ Esperada = Enviada /\ InvCopia /\ MismaVentana /\ total_escrito = Base
           /\ Marcados(ack.grilla) \subseteq Marcados(grilla)
           /\ total_escrito > 0 => Marcados(ack.grilla) # {}
           /\ ack.grilla \in Grilla
<1>1. Enviando /\ EnDatos /\ cpc # "leer" /\ cpc # "tramo"
  BY DEF Enviando, EnDatos
<1>2. esperado = Enviada
  BY <1>1 DEF OrdenEnElCable, InvCliente
<1>3. Quita(s2c, s2c') /\ ack = s2c[1] /\ 1 \in 1..Len(s2c)
  BY LeerQuita
<1>4. Esperada = Enviada
  <2>. SUFFICES ASSUME Esperada # Enviada PROVE FALSE
    OBVIOUS
  <2>1. Atras
    BY <1>1, FaseDatos
  <2>. QED  BY <1>2, <1>3, <2>1 DEF Atras, AtrasVuelta
<1>5. InvCopia /\ MismaVentana
  BY <1>1, <1>4 DEF ContenidoEnOrden, ContDatos
<1>6. total_escrito = Base /\ GrillasVeraces
  BY <1>1, <1>5 DEF MismaVentana
<1>7. ack.grilla \in Grilla
  <2>1. ack \in TramaServidor
    BY ColaTipo DEF Leer, ack, TipoInv, TypeOK, LinkTypeOK
  <2>. QED  BY <2>1 DEF TramaServidor, Grilla
<1>. QED  BY <1>2, <1>3, <1>4, <1>5, <1>6, <1>7 DEF GrillasVeraces

\* The holes of the grid are chunks that are full where that is promised
\* (client.c:791): in a window of one chunk there are none.
LEMMA LeidoHuecos ==
    ASSUME TipoInv, TipoInv', OrdenEnElCable, ContenidoEnOrden, AckConHuecos
    PROVE  InvLeido'
<1>1. /\ cpc = "esperar" /\ Leer /\ ack.nro = esperado /\ esperado \in Ventanas
      /\ huecos' = {p \in 0..(cantidad_ack - 1) : ack.grilla[p] = VACIO}
      /\ cpc' \in {"esperar", "huecos"}
      /\ UNCHANGED <<archivo, leido, length_read, buffer_read, cantidad_ack, ultimo,
                     esperado, informe>>
  BY DEF AckConHuecos, tramoVars
<1>2. InvLeido /\ Enviando /\ cpc # "tramo" /\ Base' = Base /\ ~ EnNombre'
  BY <1>1, VentanaNoEsControl DEF ContenidoEnOrden, Enviando, EnNombre, Base
<1>3. /\ Esperada = Enviada /\ InvCopia /\ MismaVentana /\ total_escrito = Base
      /\ Marcados(ack.grilla) \subseteq Marcados(grilla)
      /\ total_escrito > 0 => Marcados(ack.grilla) # {}
      /\ ack.grilla \in Grilla
  BY <1>1, AckDeLaVentana
<1>4. /\ cantidad_ack > 0 /\ cantidad_ack \in 0..CANT_CHUNKS
      /\ archivo \in Archivos /\ Base \in 0..Largo[archivo]
  BY <1>2, EnMemoria DEF OrdenEnElCable, InvCliente, TipoInv, TypeOK, ClientTypeOK
<1>5. cantidad_ack - 1 \in Pos /\ EnVentana(archivo, Base, cantidad_ack - 1)
  BY <1>2, <1>4 DEF InvLeido, Pos
<1>6. ASSUME NEW p \in huecos'
      PROVE  /\ EnVentana(archivo, Base, p)
             /\ Exacta(archivo, Base) => Lleno(archivo, Base, p)
  <2>1. p \in 0..(cantidad_ack - 1) /\ ack.grilla[p] = VACIO
    BY <1>1, <1>6
  <2>2. p \in Pos /\ p <= cantidad_ack - 1
    BY <1>4, <2>1 DEF Pos
  <2>3. EnVentana(archivo, Base, p)
    BY <1>4, <1>5, <2>2, EnVentanaAntes
  <2>4. ASSUME Base > 0, LargoVentana(archivo, Base) \in MIN_DATOS..CHUNK
        PROVE  FALSE
    <3>1. PICK q : q \in Marcados(ack.grilla)
      BY <1>3, <2>4
    <3>2. q \in Pos /\ EnVentana(archivo, Base, q) /\ ack.grilla[q] = LLENO
      BY <1>3, <3>1 DEF InvCopia, Ventana, Marcados
    <3>3. ASSUME NEW r \in Pos, EnVentana(archivo, Base, r) PROVE r = 0
      <4>. SUFFICES ASSUME 0 < r PROVE FALSE
        BY DEF Pos
      <4>1. CHUNK <= r * CHUNK /\ r * CHUNK \in Nat
        BY LugarAntes, LugarCero, LugarDentro DEF Pos
      <4>. QED  BY <2>4, <3>3, <4>1 DEF EnVentana
    <3>4. q = 0 /\ p = 0
      BY <2>2, <2>3, <3>2, <3>3
    <3>. QED  BY <2>1, <3>2, <3>4, Marcas
  <2>. QED  BY <2>2, <2>3, <2>4 DEF Exacta
<1>7. Memoria(archivo, Base)'
  BY <1>1, <1>2 DEF InvLeido, Memoria
<1>8. /\ cantidad_ack' > 0 => EnVentana(archivo', Base', cantidad_ack' - 1)
      /\ length_read' <= cantidad_ack' * CHUNK
      /\ EnVentana(archivo', Base', ultimo')
  BY <1>1, <1>2 DEF InvLeido
<1>9. \A q \in huecos' : /\ EnVentana(archivo', Base', q)
                         /\ Exacta(archivo', Base') => Lleno(archivo', Base', q)
  BY <1>1, <1>2, <1>6
<1>10. informe' = "ninguno" /\ cpc' # "exit"
  BY <1>1, <1>2 DEF InvLeido
<1>. QED  BY <1>2, <1>7, <1>8, <1>9, <1>10 DEF InvLeido

\* After a wait that failed.
LEMMA LeidoReintento ==
    ASSUME TipoInv, InvLeido, cpc = "esperar", NEW r, Reintentar(r)
    PROVE  InvLeido'
<1>1. /\ UNCHANGED <<archivo, tramoVars, ultimo, esperado, huecos, informe>>
      /\ cpc' = Reintento(r)
      /\ cantidad_ack' = IF cpc' = "tramo" THEN 0 ELSE cantidad_ack
  BY DEF Reintentar
<1>2. /\ esperado = FF => cpc' = "startOfTx"
      /\ esperado = FE => cpc' = "esperar"
      /\ esperado \in Ventanas => cpc' \in {"ultimo", "tramo"}
  BY <1>1, ReintentoDestino
<1>3. esperado \in Ventanas \cup {FF, FE}
  BY DEF TipoInv, TypeOK, ClientTypeOK
<1>4. cpc' \in {"startOfTx", "esperar", "ultimo", "tramo"}
  BY <1>2, <1>3
<1>5. EnNombre' => EnNombre
  BY <1>1, <1>2, <1>3, <1>4, VentanaNoEsControl DEF EnNombre
<1>6. Enviando' => Enviando /\ (cantidad_ack' = cantidad_ack \/ cantidad_ack' = 0)
  BY <1>1, <1>2, <1>3, <1>4, VentanaNoEsControl DEF Enviando
<1>7. Enviando' /\ cpc' # "tramo" => cpc # "tramo" /\ UNCHANGED <<cantidad_ack, ultimo>>
  BY <1>1
<1>. QED  BY <1>1, <1>4, <1>5, <1>6, <1>7, LeidoIgual

\* A step of the client keeps what it has in memory.
LEMMA ClienteLeido ==
    ASSUME TipoInv, TipoInv', OrdenEnElCable, ContenidoEnOrden,
           ClientNext, UNCHANGED serverVars
    PROVE  InvLeido'
<1>0. InvLeido /\ ContDatos
  BY DEF ContenidoEnOrden
<1>1. CASE EnviarNombre
  <2>1. cpc = "startOfTx" /\ cpc' = "esperar" /\ esperado' = FF
        /\ UNCHANGED <<tramoVars, informe>>
    BY <1>1 DEF EnviarNombre
  <2>. QED  BY <1>0, <2>1, VentanaNoEsControl, LeidoNada
            DEF EnNombre, Enviando, InvLeido, tramoVars
<1>2. CASE LeerTramo
  <2>1. EnDatos
    BY <1>2 DEF EnDatos, LeerTramo
  <2>. QED  BY <1>0, <1>2, <2>1, LeidoTramo DEF ContDatos
<1>3. CASE LeerFin
  BY <1>0, <1>3, LeidoNada DEF LeerFin, EnNombre, Enviando, InvLeido
<1>4. CASE EnviarChunk
  BY <1>0, <1>4, LeidoChunk
<1>5. CASE ReenviarUltimo
  <2>1. /\ cpc = "ultimo" /\ cpc' = "esperar" /\ esperado \in Ventanas
        /\ UNCHANGED <<archivo, tramoVars, cantidad_ack, ultimo, esperado, huecos, informe>>
    BY <1>5 DEF ReenviarUltimo, TipoInv, InvCliente
  <2>2. Enviando /\ ~ EnNombre'
    BY <2>1, VentanaNoEsControl DEF Enviando, EnNombre
  <2>. QED  BY <1>0, <2>1, <2>2, LeidoIgual
<1>6. CASE LlenarHueco
  BY <1>0, <1>6, LeidoHueco
<1>7. CASE EnviarFin
  BY <1>0, <1>7, VentanaNoEsControl, LeidoNada
  DEF EnviarFin, EnNombre, Enviando, InvLeido
<1>8. CASE PedirResumen
  BY <1>0, <1>8, LeidoNada DEF PedirResumen, EnNombre, Enviando, InvLeido
<1>9. CASE AckEsperado
  <2>1. cpc = "esperar" /\ cpc' \in {"leer", "compareChecksum"} /\ informe' = informe
    BY <1>9 DEF AckEsperado
  <2>. QED  BY <1>0, <2>1, LeidoNada DEF EnNombre, Enviando, InvLeido
<1>10. CASE AckConHuecos
  BY <1>10, LeidoHuecos
<1>11. CASE AckDeOtro
  BY <1>0, <1>11, LeidoReintento DEF AckDeOtro
<1>12. CASE NoEsAck \/ OtroEnVezDeResumen \/ LimitePaquetesResumen
  <2>1. UNCHANGED clientVars
    BY <1>12 DEF NoEsAck, OtroEnVezDeResumen, LimitePaquetesResumen
  <2>2. UNCHANGED <<cpc, archivo, tramoVars, cantidad_ack, ultimo, esperado, huecos, informe>>
    BY <2>1 DEF clientVars
  <2>. QED  BY <1>0, <2>2, LeidoIgual DEF EnNombre, Enviando
<1>13. CASE LimitePaquetes
  BY <1>0, <1>13, LeidoReintento DEF LimitePaquetes
<1>14. CASE TimeoutCliente
  BY <1>0, <1>14, LeidoReintento DEF TimeoutCliente
<1>15. CASE RecibirResumen
  <2>1. cpc' = "exit" /\ informe' # "ninguno"
    BY <1>15 DEF RecibirResumen
  <2>. QED  BY <2>1, LeidoNada DEF EnNombre, Enviando
<1>16. CASE NuevoCliente
  <2>1. cpc' = "startOfTx" /\ informe' = "ninguno" /\ leido' = 0 /\ length_read' = 0
    BY <1>16 DEF NuevoCliente
  <2>. QED  BY <2>1, LeidoNada DEF Enviando
<1>. QED
  BY <1>1, <1>2, <1>3, <1>4, <1>5, <1>6, <1>7, <1>8, <1>9, <1>10, <1>11, <1>12,
     <1>13, <1>14, <1>15, <1>16 DEF ClientNext

----------------------------------------------------------------------------
(* The client's steps: what is in flight *)

\* The server does nothing in a step of the client.
LEMMA ServidorIgual ==
    ASSUME UNCHANGED serverVars
    PROVE  /\ UNCHANGED <<total_escrito, disco, grilla, buffer_write, bytes_archivo,
                          filefd, path, resumen>>
           /\ Esperada' = Esperada
  BY DEF serverVars, ventanaVars, archivoVars, Esperada

\* Nothing is lost by reading, or losing, the first frame of a queue.
LEMMA FaseIgual ==
    ASSUME UNCHANGED serverVars, archivo' = archivo,
           c2s' = c2s \/ Quita(c2s, c2s'), s2c' = s2c \/ Quita(s2c, s2c')
    PROVE  /\ InvCopia => InvCopia'
           /\ Entera => Entera'
           /\ Ultima => Ultima'
           /\ Cerrada => Cerrada'
           /\ Resumenes => Resumenes'
<1>0. /\ UNCHANGED <<total_escrito, disco, grilla, buffer_write, bytes_archivo, filefd,
                     path, resumen>>
      /\ Esperada' = Esperada
  BY ServidorIgual
<1>1. InvCopia => InvCopia'
  <2>. SUFFICES ASSUME InvCopia PROVE InvCopia'
    OBVIOUS
  <2>1. Tramas(c2s, Esperada, archivo, total_escrito)
    BY DEF InvCopia
  <2>2. Tramas(c2s', Esperada, archivo, total_escrito)
    BY <2>1, TramasQuita
  <2>. QED  BY <1>0, <2>2, CopiaIgual
<1>2. Entera => Entera'
  BY <1>0 DEF Entera
<1>3. Ultima => Ultima'
  <2>1. ASSUME Ultima, NEW i \in 1..Len(c2s')
        PROVE  c2s'[i].nro = FF => c2s'[i].archivo = archivo /\ Largo[archivo] = 0
    <3>1. CASE c2s' = c2s
      BY <2>1, <3>1 DEF Ultima
    <3>2. CASE Quita(c2s, c2s')
      <4>1. i + 1 \in 1..Len(c2s) /\ c2s'[i] = c2s[i + 1]
        BY <3>2 DEF Quita
      <4>. QED  BY <2>1, <4>1 DEF Ultima
    <3>. QED  BY <3>1, <3>2
  <2>. QED  BY <1>0, <1>1, <1>2, <2>1 DEF Ultima
<1>4. Cerrada => Cerrada'
  BY <1>0 DEF Cerrada
<1>5. Resumenes => Resumenes'
  <2>1. ASSUME Resumenes, NEW k \in 1..Len(s2c')
        PROVE  s2c'[k].nro = FD => s2c'[k].resumen = <<disco[archivo]>>
    <3>1. CASE s2c' = s2c
      BY <2>1, <3>1 DEF Resumenes
    <3>2. CASE Quita(s2c, s2c')
      <4>1. k + 1 \in 1..Len(s2c) /\ s2c'[k] = s2c[k + 1]
        BY <3>2 DEF Quita
      <4>. QED  BY <2>1, <4>1 DEF Resumenes
    <3>. QED  BY <3>1, <3>2
  <2>. QED  BY <1>0, <2>1 DEF Resumenes
<1>. QED  BY <1>1, <1>2, <1>3, <1>4, <1>5

\* While windows are sent, when the window itself stays.
LEMMA DatosIgual ==
    ASSUME UNCHANGED serverVars, UNCHANGED <<archivo, tramoVars>>,
           cpc' = "leer" <=> cpc = "leer",
           c2s' = c2s \/ Quita(c2s, c2s'), s2c' = s2c \/ Quita(s2c, s2c'),
           EnDatos' => EnDatos, ContDatos
    PROVE  ContDatos'
<1>. SUFFICES ASSUME EnDatos, InvCopia, IF Esperada = Enviada THEN MismaVentana
                                                              ELSE VentanaAnterior
              PROVE  InvCopia' /\ IF Esperada' = Enviada' THEN MismaVentana'
                                                          ELSE VentanaAnterior'
  BY DEF ContDatos
<1>0. /\ UNCHANGED <<total_escrito, grilla, leido>>
      /\ Esperada' = Esperada /\ Enviada' = Enviada /\ Base' = Base
  BY ServidorIgual DEF tramoVars, Enviada, Base
<1>1. InvCopia'
  BY FaseIgual
<1>2. CASE Esperada = Enviada
  <2>1. MismaVentana
    BY <1>2
  <2>2. GrillasVeraces'
    <3>. SUFFICES ASSUME NEW k \in 1..Len(s2c'), s2c'[k].nro = Enviada
                  PROVE  /\ Marcados(s2c'[k].grilla) \subseteq Marcados(grilla)
                         /\ total_escrito > 0 => Marcados(s2c'[k].grilla) # {}
      BY <1>0 DEF GrillasVeraces
    <3>1. CASE s2c' = s2c
      BY <2>1, <3>1 DEF MismaVentana, GrillasVeraces
    <3>2. CASE Quita(s2c, s2c')
      <4>1. k + 1 \in 1..Len(s2c) /\ s2c'[k] = s2c[k + 1]
        BY <3>2 DEF Quita
      <4>. QED  BY <2>1, <4>1 DEF MismaVentana, GrillasVeraces
    <3>. QED  BY <3>1, <3>2
  <2>3. ASSUME cpc = "leer", NEW i \in 1..Len(c2s') PROVE c2s'[i].nro = FF
    <3>1. CASE c2s' = c2s
      BY <2>1, <2>3, <3>1 DEF MismaVentana
    <3>2. CASE Quita(c2s, c2s')
      <4>1. i + 1 \in 1..Len(c2s) /\ c2s'[i] = c2s[i + 1]
        BY <3>2 DEF Quita
      <4>. QED  BY <2>1, <2>3, <4>1 DEF MismaVentana
    <3>. QED  BY <3>1, <3>2
  <2>4. MismaVentana'
    BY <1>0, <2>1, <2>2, <2>3 DEF MismaVentana
  <2>. QED  BY <1>0, <1>1, <1>2, <2>4
<1>3. CASE Esperada # Enviada
  <2>1. VentanaAnterior
    BY <1>3
  <2>2. cpc # "leer" => Tramas(c2s', Enviada, archivo, Base)
    BY <2>1, TramasQuita DEF VentanaAnterior
  <2>3. Entera'
    BY <2>1, FaseIgual DEF VentanaAnterior
  <2>4. VentanaAnterior'
    BY <1>0, <2>1, <2>2, <2>3 DEF VentanaAnterior
  <2>. QED  BY <1>0, <1>1, <1>3, <2>4
<1>. QED  BY <1>2, <1>3

\* A step that leaves the client in its phase, or a loss.
LEMMA EsperaContenido ==
    ASSUME UNCHANGED serverVars, UNCHANGED <<archivo, tramoVars, informe>>,
           cpc' = "leer" <=> cpc = "leer", cpc' = "exit" <=> cpc = "exit",
           EnNombre' => EnNombre, EnDatos' => EnDatos, EnFin' => EnFin,
           EnResumen' => EnResumen,
           c2s' = c2s \/ Quita(c2s, c2s'), s2c' = s2c \/ Quita(s2c, s2c'),
           ContenidoEnOrden, InvLeido'
    PROVE  ContenidoEnOrden'
<1>0. /\ UNCHANGED <<disco, filefd>> /\ Esperada' = Esperada
      /\ ContNombre /\ ContDatos /\ ContFin /\ ContResumen /\ InformeVeraz
  BY ServidorIgual DEF ContenidoEnOrden
<1>1. /\ InvCopia => InvCopia'
      /\ Ultima => Ultima'
      /\ Cerrada => Cerrada'
      /\ Resumenes => Resumenes'
  BY FaseIgual
<1>2. ContNombre'
  BY <1>0, <1>1 DEF ContNombre
<1>3. ContDatos'
  BY <1>0, DatosIgual
<1>4. ContFin'
  BY <1>0, <1>1 DEF ContFin
<1>5. ContResumen'
  BY <1>0, <1>1 DEF ContResumen
<1>6. InformeVeraz'
  BY <1>0 DEF InformeVeraz
<1>. QED  BY <1>2, <1>3, <1>4, <1>5, <1>6 DEF ContenidoEnOrden

\* A chunk of the window goes behind the other frames.
LEMMA EnvioContenido ==
    ASSUME TipoInv, OrdenEnElCable, ContenidoEnOrden, UNCHANGED serverVars,
           cpc \in {"tramo", "ultimo", "huecos"}, cpc' # "leer",
           UNCHANGED <<s2c, archivo, tramoVars>>,
           NEW p \in Pos, NEW datos, Enviar(Datos(Enviada + p, datos)),
           EsChunk(archivo, Base, p, EnCable(datos))
    PROVE  ContDatos'
<1>. DEFINE t == Datos(Enviada + p, datos)
<1>0. /\ UNCHANGED <<total_escrito, grilla, disco, buffer_write, bytes_archivo>>
      /\ Esperada' = Esperada /\ Enviada' = Enviada /\ Base' = Base
  BY ServidorIgual DEF tramoVars, Enviada, Base
<1>1. /\ EnDatos /\ cpc # "leer" /\ InvCopia /\ Enviada \in Ventanas /\ Esperada \in Ventanas
      /\ IF Esperada = Enviada THEN MismaVentana ELSE VentanaAnterior
  <2>1. EnDatos
    BY DEF EnDatos, Enviando
  <2>. QED  BY <2>1, TiposServidor DEF ContenidoEnOrden, ContDatos, InvCopia
<1>2. t.nro = Enviada + p /\ t.datos = EnCable(datos) /\ t.nro \in Tramo(Enviada)
      /\ t.nro - Enviada = p
  <2>1. Enviada \in Nat /\ p \in Nat /\ p < CANT_CHUNKS
    BY <1>1 DEF Ventanas, Pos
  <2>. QED  BY <2>1 DEF Datos, Tramo
<1>3. Agrega(c2s, c2s', t)
  BY EnviarAgrega
<1>. HIDE DEF t
<1>4. CASE Esperada = Enviada
  <2>1. MismaVentana /\ total_escrito = Base
    BY <1>1, <1>4 DEF MismaVentana
  <2>2. Tramas(c2s', Esperada, archivo, total_escrito)
    <3>1. Tramas(c2s, Enviada, archivo, Base)
      BY <1>1, <1>4, <2>1 DEF InvCopia
    <3>2. Tramas(c2s', Enviada, archivo, Base)
      BY <1>2, <1>3, <3>1, TramasAgrega
    <3>. QED  BY <1>4, <2>1, <3>2
  <2>3. InvCopia'
    BY <1>0, <1>1, <2>2, CopiaIgual
  <2>4. MismaVentana'
    BY <1>0, <2>1 DEF MismaVentana, GrillasVeraces
  <2>. QED  BY <1>0, <1>4, <2>3, <2>4 DEF ContDatos
<1>5. CASE Esperada # Enviada
  <2>1. VentanaAnterior /\ Tramas(c2s, Enviada, archivo, Base)
    BY <1>1, <1>5 DEF VentanaAnterior
  <2>2. Tramas(c2s', Enviada, archivo, Base)
    BY <1>2, <1>3, <2>1, TramasAgrega
  <2>3. Tramas(c2s', Esperada, archivo, total_escrito)
    <3>1. t.nro \notin Tramo(Esperada)
      BY <1>1, <1>2, <1>5, TramosDistintos
    <3>2. Tramas(c2s, Esperada, archivo, total_escrito)
      BY <1>1 DEF InvCopia
    <3>. QED  BY <1>3, <3>1, <3>2, TramasAgrega
  <2>4. InvCopia'
    BY <1>0, <1>1, <2>3, CopiaIgual
  <2>5. VentanaAnterior'
    BY <1>0, <1>1, <2>1, <2>2 DEF VentanaAnterior, Entera
  <2>. QED  BY <1>0, <1>5, <2>4, <2>5 DEF ContDatos
<1>. QED  BY <1>4, <1>5

----------------------------------------------------------------------------
(* The client's steps, phase by phase *)

\* A step that leads to the naming of the file.
LEMMA HaciaNombre ==
    ASSUME EnNombre', InvLeido', ContNombre'
    PROVE  ContenidoEnOrden'
<1>1. ~ EnDatos' /\ ~ EnFin' /\ ~ EnResumen' /\ cpc' # "exit"
  BY VentanaNoEsControl DEF EnNombre, EnDatos, Enviando, EnFin, EnResumen
<1>. QED  BY <1>1 DEF ContenidoEnOrden, ContDatos, ContFin, ContResumen, InformeVeraz

\* The same for a step that leads to the sending of windows.
LEMMA HaciaDatos ==
    ASSUME EnDatos', InvLeido', ContDatos'
    PROVE  ContenidoEnOrden'
<1>1. ~ EnNombre' /\ ~ EnFin' /\ ~ EnResumen' /\ cpc' # "exit"
  BY VentanaNoEsControl DEF EnNombre, EnDatos, Enviando, EnFin, EnResumen
<1>. QED  BY <1>1 DEF ContenidoEnOrden, ContNombre, ContFin, ContResumen, InformeVeraz

\* The same for a step that leads to the wait for ACK 0xFE.
LEMMA HaciaFin ==
    ASSUME EnFin', InvLeido', ContFin'
    PROVE  ContenidoEnOrden'
<1>1. ~ EnNombre' /\ ~ EnDatos' /\ ~ EnResumen' /\ cpc' # "exit"
  BY VentanaNoEsControl DEF EnNombre, EnDatos, Enviando, EnFin, EnResumen
<1>. QED  BY <1>1 DEF ContenidoEnOrden, ContNombre, ContDatos, ContResumen, InformeVeraz

\* The same for a step that leads to the comparison of the digests.
LEMMA HaciaResumen ==
    ASSUME EnResumen' \/ cpc' = "exit", InvLeido', Cerrada', Resumenes', InformeVeraz'
    PROVE  ContenidoEnOrden'
<1>1. ~ EnNombre' /\ ~ EnDatos' /\ ~ EnFin'
  BY DEF EnNombre, EnDatos, Enviando, EnFin, EnResumen
<1>. QED  BY <1>1 DEF ContenidoEnOrden, ContNombre, ContDatos, ContFin, ContResumen

\* A control frame is no chunk of the window.
LEMMA OrdenContenido ==
    ASSUME TipoInv, UNCHANGED serverVars, archivo' = archivo,
           NEW t, Enviar(t), t.nro \in Control
    PROVE  /\ Agrega(c2s, c2s', t)
           /\ InvCopia => InvCopia'
<1>1. Agrega(c2s, c2s', t)
  BY EnviarAgrega
<1>2. ASSUME InvCopia PROVE InvCopia'
  <2>1. t.nro \notin Tramo(Esperada)
    BY <1>2, VentanaEsInicio, TramoSinControl DEF InvCopia
  <2>2. Tramas(c2s', Esperada, archivo, total_escrito)
    BY <1>1, <1>2, <2>1, TramasAgrega DEF InvCopia
  <2>. QED  BY <1>2, <2>2, ServidorIgual, CopiaIgual
<1>. QED  BY <1>1, <1>2

\* The file is named (client.c:293).
LEMMA ContenidoEnviarNombre ==
    ASSUME TipoInv, UNCHANGED serverVars, ContenidoEnOrden, EnviarNombre, InvLeido'
    PROVE  ContenidoEnOrden'
<1>1. /\ cpc = "startOfTx" /\ cpc' = "esperar" /\ esperado' = FF
      /\ archivo' = archivo /\ Enviar(Orden(FF, archivo))
  BY DEF EnviarNombre
<1>2. EnNombre /\ EnNombre'
  BY <1>1 DEF EnNombre
<1>3. Orden(FF, archivo).nro \in Control
  BY DEF Orden, Control
<1>4. InvCopia => InvCopia'
  BY <1>1, <1>3, OrdenContenido
<1>5. ContNombre'
  BY <1>2, <1>4, ServidorIgual DEF ContenidoEnOrden, ContNombre
<1>. QED  BY <1>2, <1>5, HaciaNombre

\* 0xFE is sent (client.c:602).
LEMMA ContenidoEnviarFin ==
    ASSUME TipoInv, OrdenEnElCable, UNCHANGED serverVars, ContenidoEnOrden, EnviarFin,
           InvLeido'
    PROVE  ContenidoEnOrden'
<1>1. /\ cpc = "endOfTx" /\ cpc' = "esperar" /\ esperado' = FE
      /\ archivo' = archivo /\ Enviar(Orden(FE, 0))
  BY DEF EnviarFin
<1>2. EnFin /\ EnFin'
  BY <1>1 DEF EnFin
<1>3. Orden(FE, 0).nro = FE /\ FE \in Control /\ FE # FF
  BY Codigos DEF Orden, Control
<1>4. Agrega(c2s, c2s', Orden(FE, 0)) /\ (InvCopia => InvCopia')
  BY <1>1, <1>3, OrdenContenido
<1>0. /\ UNCHANGED <<total_escrito, disco, grilla, filefd, path>>
      /\ Esperada' = Esperada
  BY ServidorIgual
<1>5. IF Esperada = FE THEN Cerrada ELSE Ultima
  BY <1>2 DEF ContenidoEnOrden, ContFin
<1>6. CASE Esperada = FE
  <2>1. Cerrada'
    BY <1>0, <1>1, <1>5, <1>6 DEF Cerrada
  <2>. QED  BY <1>0, <1>2, <1>6, <2>1, HaciaFin DEF ContFin
<1>7. CASE Esperada # FE
  <2>1. Ultima
    BY <1>5, <1>7
  <2>2. ASSUME NEW i \in 1..Len(c2s'), c2s'[i].nro = FF
        PROVE  c2s'[i].archivo = archivo /\ Largo[archivo] = 0
    <3>1. i \in 1..Len(c2s) /\ c2s'[i] = c2s[i]
      BY <1>3, <1>4, <2>2 DEF Agrega
    <3>. QED  BY <2>1, <2>2, <3>1 DEF Ultima
  <2>3. Entera'
    BY <1>0, <1>1, <2>1 DEF Ultima, Entera
  <2>4. Ultima'
    BY <1>0, <1>1, <1>4, <2>1, <2>2, <2>3 DEF Ultima
  <2>. QED  BY <1>0, <1>2, <1>7, <2>4, HaciaFin DEF ContFin
<1>. QED  BY <1>6, <1>7

\* 0xFD is sent, the first time or again (client.c:905, 947).
LEMMA ContenidoPedir ==
    ASSUME TipoInv, UNCHANGED serverVars, ContenidoEnOrden,
           PedirResumen \/ LimitePaquetesResumen, InvLeido'
    PROVE  ContenidoEnOrden'
<1>1. /\ EnResumen /\ EnResumen' /\ archivo' = archivo /\ s2c' = s2c
      /\ cpc' # "exit"
  BY DEF PedirResumen, LimitePaquetesResumen, EnResumen, clientVars
<1>2. Cerrada /\ Resumenes
  BY <1>1 DEF ContenidoEnOrden, ContResumen
<1>3. Cerrada' /\ Resumenes'
  BY <1>1, <1>2, ServidorIgual DEF Cerrada, Resumenes
<1>. QED  BY <1>1, <1>3, HaciaResumen DEF InformeVeraz

\* A window is read from the file (client.c:335).
LEMMA ContenidoLeerTramo ==
    ASSUME TipoInv, TipoInv', OrdenEnElCable, UNCHANGED serverVars, ContenidoEnOrden,
           LeerTramo, InvLeido'
    PROVE  ContenidoEnOrden'
<1>1. /\ cpc = "leer" /\ cpc' = "tramo" /\ archivo' = archivo
      /\ UNCHANGED <<c2s, s2c>> /\ Enviada' = Enviada
  BY DEF LeerTramo, linkVars, Enviada
<1>2. EnDatos /\ EnDatos'
  BY <1>1 DEF EnDatos, Enviando
<1>3. InvCopia /\ IF Esperada = Enviada THEN MismaVentana ELSE VentanaAnterior
  BY <1>2 DEF ContenidoEnOrden, ContDatos
<1>4. /\ Base' = leido
      /\ Esperada # Enviada => leido = total_escrito + LARGO_TRAMO
  BY <1>3, LeidoTramo DEF ContenidoEnOrden
<1>0. /\ UNCHANGED <<total_escrito, disco, grilla, buffer_write, bytes_archivo>>
      /\ Esperada' = Esperada
  BY ServidorIgual
<1>5. InvCopia'
  BY <1>0, <1>1, <1>3, CopiaIgual DEF InvCopia
<1>6. CASE Esperada = Enviada
  <2>1. leido = 0 /\ Marcados(grilla) = {} /\ GrillasVeraces
    BY <1>1, <1>3, <1>6 DEF MismaVentana
  <2>2. total_escrito = 0
    BY <1>3, <2>1 DEF InvCopia
  <2>3. GrillasVeraces'
    BY <1>0, <1>1, <2>1 DEF GrillasVeraces
  <2>4. MismaVentana'
    BY <1>0, <1>1, <1>4, <2>1, <2>2, <2>3 DEF MismaVentana
  <2>5. ContDatos'
    BY <1>0, <1>1, <1>5, <1>6, <2>4 DEF ContDatos
  <2>. QED  BY <1>2, <2>5, HaciaDatos
<1>7. CASE Esperada # Enviada
  <2>1. Entera /\ Base' = total_escrito + LARGO_TRAMO
    BY <1>3, <1>4, <1>7 DEF VentanaAnterior
  <2>2. \A i \in 1..Len(c2s) : c2s[i].nro \in Tramo(Esperada)
    BY <1>1, <1>2, <1>7, FaseDatos DEF Atras, AtrasIda
  <2>3. \A i \in 1..Len(c2s) : c2s[i].nro \notin Tramo(Enviada)
    <3>1. Esperada \in Ventanas /\ Enviada \in Ventanas
      BY <1>3, TiposServidor DEF InvCopia
    <3>. QED  BY <1>7, <2>2, <3>1, TramosDistintos
  <2>4. Tramas(c2s', Enviada', archivo', Base')
    BY <1>1, <2>3, TramasNinguna
  <2>5. Entera'
    BY <1>0, <1>1, <2>1 DEF Entera
  <2>6. VentanaAnterior'
    BY <1>0, <1>1, <2>1, <2>4, <2>5 DEF VentanaAnterior
  <2>7. ContDatos'
    BY <1>0, <1>1, <1>5, <1>7, <2>6 DEF ContDatos
  <2>. QED  BY <1>2, <2>7, HaciaDatos
<1>. QED  BY <1>6, <1>7

\* The file has no more (client.c:345).
LEMMA ContenidoLeerFin ==
    ASSUME TipoInv, OrdenEnElCable, UNCHANGED serverVars, ContenidoEnOrden, LeerFin,
           InvLeido'
    PROVE  ContenidoEnOrden'
<1>1. /\ cpc = "leer" /\ cpc' = "endOfTx" /\ archivo' = archivo
      /\ UNCHANGED <<c2s, s2c>> /\ leido = Largo[archivo]
  BY DEF LeerFin, linkVars
<1>2. EnDatos /\ EnFin'
  BY <1>1 DEF EnDatos, EnFin
<1>3. InvCopia /\ IF Esperada = Enviada THEN MismaVentana ELSE VentanaAnterior
  BY <1>2 DEF ContenidoEnOrden, ContDatos
<1>0. /\ UNCHANGED <<total_escrito, disco, grilla, buffer_write, bytes_archivo, filefd, path>>
      /\ Esperada' = Esperada
  BY ServidorIgual
<1>4. /\ filefd /\ path = archivo /\ Esperada \in Inicios /\ Enviada \in Inicios
      /\ Esperada = Enviada => AlDia
      /\ Esperada # Enviada => Atras
  BY <1>2, FaseDatos
<1>5. Esperada' # FE
  BY <1>0, <1>4, InicioSinControl
<1>6. /\ total_escrito \in Nat /\ LARGO_TRAMO \in Nat \ {0} /\ archivo \in Archivos
      /\ Largo[archivo] \in Nat
  BY TiposServidor, TramoTipo
<1>7. InvCopia'
  BY <1>0, <1>1, <1>3, CopiaIgual DEF InvCopia
<1>8. /\ Entera
      /\ LargoVentana(archivo, total_escrito) = Largo[archivo] - total_escrito
      /\ \A i \in 1..Len(c2s) :
           c2s[i].nro = FF => c2s[i].archivo = archivo /\ Largo[archivo] = 0
  <2>1. CASE Esperada = Enviada
    <3>1. leido = 0 /\ Marcados(grilla) = {}
      BY <1>1, <1>3, <2>1 DEF MismaVentana
    <3>2. Largo[archivo] = 0 /\ total_escrito = 0
      BY <1>1, <1>3, <3>1 DEF InvCopia
    <3>3. LargoVentana(archivo, total_escrito) = 0
      BY <1>6, <3>2 DEF LargoVentana, Menor
    <3>4. Entera
      <4>. SUFFICES ASSUME NEW p \in Pos, EnVentana(archivo, total_escrito, p) PROVE FALSE
        BY DEF Entera
      <4>1. p * CHUNK \in Nat
        BY LugarDentro
      <4>. QED  BY <3>3, <4>1 DEF EnVentana
    <3>5. ASSUME NEW i \in 1..Len(c2s), c2s[i].nro = FF PROVE c2s[i].archivo = archivo
      <4>1. FF \notin Tramo(Enviada)
        BY <1>4, TramoSinControl
      <4>. QED  BY <1>4, <2>1, <3>5, <4>1 DEF AlDia, AlDiaIda
    <3>. QED  BY <3>2, <3>3, <3>4, <3>5
  <2>2. CASE Esperada # Enviada
    <3>1. Entera /\ leido = total_escrito + LargoVentana(archivo, total_escrito)
      BY <1>1, <1>3, <2>2 DEF VentanaAnterior
    <3>2. LargoVentana(archivo, total_escrito) \in Int
      BY <1>6 DEF LargoVentana, Menor
    <3>3. LargoVentana(archivo, total_escrito) = Largo[archivo] - total_escrito
      BY <1>1, <1>6, <3>1, <3>2
    <3>4. ASSUME NEW i \in 1..Len(c2s) PROVE c2s[i].nro # FF
      <4>1. c2s[i].nro \in Tramo(Esperada)
        BY <1>1, <1>4, <2>2 DEF Atras, AtrasIda
      <4>. QED  BY <1>4, <4>1, TramoSinControl
    <3>. QED  BY <3>1, <3>3, <3>4
  <2>. QED  BY <2>1, <2>2
<1>9. Entera'
  BY <1>0, <1>1, <1>8 DEF Entera
<1>10. Ultima'
  BY <1>0, <1>1, <1>4, <1>7, <1>8, <1>9 DEF Ultima
<1>. QED  BY <1>2, <1>5, <1>10, HaciaFin DEF ContFin

\* A chunk is sent: the next one, the last one again or one that is missing.
LEMMA ContenidoEnviar ==
    ASSUME TipoInv, OrdenEnElCable, UNCHANGED serverVars, ContenidoEnOrden,
           EnviarChunk \/ ReenviarUltimo \/ LlenarHueco, InvLeido'
    PROVE  ContenidoEnOrden'
<1>0. InvLeido
  BY DEF ContenidoEnOrden
<1>1. /\ cpc \in {"tramo", "ultimo", "huecos"} /\ cpc' # "leer"
      /\ UNCHANGED <<s2c, archivo, tramoVars>>
  BY DEF EnviarChunk, ReenviarUltimo, LlenarHueco
<1>2. EnDatos'
  <2>1. CASE EnviarChunk
    <3>1. nro_secuencia_enviado \in Ventanas
      BY DEF TipoInv, TypeOK, ClientTypeOK
    <3>. QED  BY <2>1, <3>1 DEF EnviarChunk, EnDatos, Enviando
  <2>2. CASE ReenviarUltimo
    BY <2>2 DEF ReenviarUltimo, TipoInv, InvCliente, EnDatos, Enviando
  <2>3. CASE LlenarHueco
    BY <2>3 DEF LlenarHueco, TipoInv, InvCliente, EnDatos, Enviando
  <2>. QED  BY <2>1, <2>2, <2>3
<1>3. CASE EnviarChunk
  <2>. DEFINE datos == Porcion(buffer_read, cantidad_ack,
                               Menor(CHUNK, length_read - cantidad_ack * CHUNK))
  <2>1. cpc = "tramo" /\ Enviar(Datos(Enviada + cantidad_ack, datos))
    BY <1>3 DEF EnviarChunk, Enviada
  <2>2. cantidad_ack \in Pos /\ EsChunk(archivo, Base, cantidad_ack, EnCable(datos))
    BY <1>0, <2>1, ChunkSiguiente
  <2>. HIDE DEF datos
  <2>3. ContDatos'
    BY <1>1, <2>1, <2>2, EnvioContenido
  <2>. QED  BY <1>2, <2>3, HaciaDatos
<1>4. CASE ReenviarUltimo
  <2>. DEFINE datos == Porcion(buffer_read, ultimo, Menor(CHUNK, length_read))
  <2>1. cpc = "ultimo" /\ Enviar(Datos(Enviada + ultimo, datos))
    BY <1>4 DEF ReenviarUltimo, Enviada
  <2>2. ultimo \in Pos /\ EsChunk(archivo, Base, ultimo, EnCable(datos))
    BY <1>0, <2>1, ChunkRepetido
  <2>. HIDE DEF datos
  <2>3. ContDatos'
    BY <1>1, <2>1, <2>2, EnvioContenido
  <2>. QED  BY <1>2, <2>3, HaciaDatos
<1>5. CASE LlenarHueco
  <2>1. PICK p \in huecos : cpc = "huecos" /\ Enviar(Datos(Enviada + p, ChunkDeHueco(p)))
    BY <1>5 DEF LlenarHueco, Enviada
  <2>2. p \in Pos /\ EsChunk(archivo, Base, p, EnCable(ChunkDeHueco(p)))
    BY <1>0, <2>1, ChunkFaltante
  <2>3. ContDatos'
    BY <1>1, <2>1, <2>2, EnvioContenido
  <2>. QED  BY <1>2, <2>3, HaciaDatos
<1>. QED  BY <1>3, <1>4, <1>5

\* ACK 0xFF: the copy is open and empty (client.c:294).
LEMMA ContenidoAckNombre ==
    ASSUME TipoInv, OrdenEnElCable, UNCHANGED serverVars, ContenidoEnOrden, AckEsperado,
           esperado = FF, InvLeido'
    PROVE  ContenidoEnOrden'
<1>1. /\ cpc = "esperar" /\ cpc' = "leer" /\ Enviada' = 0 /\ ack.nro = FF
      /\ UNCHANGED <<c2s, archivo, leido>>
      /\ Quita(s2c, s2c') /\ ack = s2c[1] /\ 1 \in 1..Len(s2c)
  BY LeerQuita, VentanaNoEsControl DEF AckEsperado, Enviada
<1>2. EnNombre /\ EnDatos'
  BY <1>1 DEF EnNombre, EnDatos
<1>3. NombreServidor /\ NombreIda /\ NombreVuelta
  BY <1>2 DEF OrdenEnElCable, InvNombre
<1>4. Esperada = 0 /\ grilla = GrillaVacia
  BY <1>1, <1>3 DEF NombreVuelta, NombreServidor
<1>5. InvCopia /\ leido = 0
  BY <1>2, <1>4 DEF ContenidoEnOrden, ContNombre, InvLeido
<1>0. /\ UNCHANGED <<total_escrito, disco, grilla, buffer_write, bytes_archivo>>
      /\ Esperada' = Esperada
  BY ServidorIgual
<1>6. Marcados(grilla) = {} /\ total_escrito = 0
  BY <1>4, <1>5, MarcadosVacia DEF InvCopia
<1>7. InvCopia'
  BY <1>0, <1>1, <1>5, CopiaIgual DEF InvCopia
<1>8. GrillasVeraces'
  <2>. SUFFICES ASSUME NEW k \in 1..Len(s2c'), s2c'[k].nro = 0
                PROVE  s2c'[k].grilla = GrillaVacia
    BY <1>0, <1>1, <1>6, MarcadosVacia DEF GrillasVeraces
  <2>1. k + 1 \in 1..Len(s2c) /\ s2c'[k] = s2c[k + 1]
    BY <1>1 DEF Quita
  <2>. QED  BY <1>3, <2>1 DEF NombreVuelta
<1>9. \A i \in 1..Len(c2s) : c2s[i].nro = FF
  BY <1>3, <1>4 DEF NombreIda
<1>10. MismaVentana'
  BY <1>0, <1>1, <1>5, <1>6, <1>8, <1>9 DEF MismaVentana
<1>11. ContDatos'
  BY <1>0, <1>1, <1>4, <1>7, <1>10 DEF ContDatos
<1>. QED  BY <1>2, <1>11, HaciaDatos

\* ACK 0xFE: the copy is closed (client.c:605).
LEMMA ContenidoAckFin ==
    ASSUME TipoInv, OrdenEnElCable, UNCHANGED serverVars, ContenidoEnOrden, AckEsperado,
           esperado = FE, InvLeido'
    PROVE  ContenidoEnOrden'
<1>1. /\ cpc = "esperar" /\ cpc' = "compareChecksum" /\ ack.nro = FE
      /\ archivo' = archivo
      /\ Quita(s2c, s2c') /\ ack = s2c[1] /\ 1 \in 1..Len(s2c)
  BY LeerQuita DEF AckEsperado
<1>2. EnFin /\ EnResumen'
  BY <1>1 DEF EnFin, EnResumen
<1>3. FinVuelta
  BY <1>2 DEF OrdenEnElCable, InvFin
<1>4. Esperada = FE /\ \A k \in 1..Len(s2c) : s2c[k].nro = FE
  BY <1>1, <1>3 DEF FinVuelta
<1>5. Cerrada
  BY <1>2, <1>4, FaseFin DEF ContenidoEnOrden
<1>6. Cerrada'
  BY <1>1, <1>5, ServidorIgual DEF Cerrada
<1>7. Resumenes'
  <2>1. ASSUME NEW k \in 1..Len(s2c') PROVE s2c'[k].nro = FE
    <3>1. k + 1 \in 1..Len(s2c) /\ s2c'[k] = s2c[k + 1]
      BY <1>1 DEF Quita
    <3>. QED  BY <1>4, <3>1
  <2>. QED  BY <1>4, <2>1, ServidorIgual, Codigos DEF Resumenes
<1>. QED  BY <1>1, <1>2, <1>6, <1>7, HaciaResumen DEF InformeVeraz

\* The grid is full: the server holds the window (client.c:470).
LEMMA ContenidoAckVentana ==
    ASSUME TipoInv, OrdenEnElCable, UNCHANGED serverVars, ContenidoEnOrden, AckEsperado,
           esperado \in Ventanas, InvLeido'
    PROVE  ContenidoEnOrden'
<1>1. /\ cpc = "esperar" /\ cpc' = "leer" /\ Leer /\ ack.nro = esperado
      /\ Enviada' = ProximaCliente(Enviada)
      /\ UNCHANGED <<c2s, archivo, leido>> /\ SinHuecos
  BY VentanaNoEsControl DEF AckEsperado, Enviada
<1>2. /\ Enviando /\ cpc # "leer" /\ cpc # "tramo" /\ EnDatos'
  BY <1>1 DEF Enviando, EnDatos
<1>3. /\ Esperada = Enviada /\ InvCopia /\ total_escrito = Base
      /\ Marcados(ack.grilla) \subseteq Marcados(grilla)
  BY <1>1, AckDeLaVentana
<1>0. /\ UNCHANGED <<total_escrito, disco, grilla, buffer_write, bytes_archivo>>
      /\ Esperada' = Esperada
  BY ServidorIgual
<1>4. InvCopia'
  BY <1>0, <1>1, <1>3, CopiaIgual DEF InvCopia
<1>5. InvLeido /\ length_read <= cantidad_ack * CHUNK
  BY <1>2 DEF ContenidoEnOrden, InvLeido
<1>6. /\ archivo \in Archivos /\ length_read = LargoVentana(archivo, Base)
      /\ leido = Base + length_read /\ length_read \in Nat
      /\ cantidad_ack \in Nat /\ cantidad_ack <= CANT_CHUNKS
  BY <1>2, <1>5, EnMemoria DEF TipoInv, TypeOK, ClientTypeOK
<1>7. Entera
  <2>. SUFFICES ASSUME NEW p \in Pos, EnVentana(archivo, total_escrito, p)
                PROVE  grilla[p] = LLENO
    BY DEF Entera
  <2>1. p * CHUNK < length_read /\ p \in Nat /\ p * CHUNK \in Nat
    BY <1>3, <1>6, LugarDentro DEF EnVentana, Pos
  <2>2. p < cantidad_ack
    <3>. SUFFICES ASSUME cantidad_ack <= p PROVE FALSE
      BY <1>6, <2>1
    <3>1. CASE cantidad_ack = p
      BY <1>5, <1>6, <2>1, <3>1
    <3>2. CASE cantidad_ack < p
      <4>1. cantidad_ack * CHUNK + CHUNK <= p * CHUNK /\ cantidad_ack * CHUNK \in Nat
        BY <1>6, <2>1, <3>2, LugarAntes, Lugar
      <4>. QED  BY <1>5, <1>6, <2>1, <4>1
    <3>. QED  BY <1>6, <2>1, <3>1, <3>2
  <2>3. p \in 0..(cantidad_ack - 1)
    BY <1>6, <2>1, <2>2
  <2>4. p \in Marcados(ack.grilla)
    BY <1>1, <2>3 DEF SinHuecos, Marcados
  <2>. QED  BY <1>3, <2>4 DEF Marcados
<1>8. Enviada' # Esperada
  <2>1. Enviada \in Inicios
    BY TiposServidor, VentanaEsInicio
  <2>. QED  BY <1>1, <1>3, <2>1, MismaProxima
<1>9. Entera'
  BY <1>0, <1>1, <1>7 DEF Entera
<1>10. VentanaAnterior'
  BY <1>0, <1>1, <1>3, <1>6, <1>9 DEF VentanaAnterior
<1>11. ContDatos'
  BY <1>0, <1>4, <1>8, <1>10 DEF ContDatos
<1>. QED  BY <1>2, <1>11, HaciaDatos

\* The digest of the copy is compared (client.c:955).
LEMMA ContenidoRecibirResumen ==
    ASSUME TipoInv, UNCHANGED serverVars, ContenidoEnOrden, RecibirResumen, InvLeido'
    PROVE  ContenidoEnOrden'
<1>1. /\ cpc = "esperar_checksum" /\ cpc' = "exit" /\ UNCHANGED <<c2s, archivo>>
      /\ ack.nro = FD
      /\ informe' = IF Coincide THEN "correctamente" ELSE "errores"
      /\ Quita(s2c, s2c') /\ ack = s2c[1] /\ 1 \in 1..Len(s2c)
  BY LeerQuita DEF RecibirResumen, EsResumen
<1>2. EnResumen
  BY <1>1 DEF EnResumen
<1>3. Cerrada /\ Resumenes
  BY <1>2 DEF ContenidoEnOrden, ContResumen
<1>4. Cerrada' /\ Resumenes'
  BY <1>1, <1>3, FaseIgual
<1>5. ack.resumen = <<disco[archivo]>>
  BY <1>1, <1>3 DEF Resumenes
<1>6. Coincide <=> disco[archivo] = Fuente(archivo)
  BY <1>5 DEF Coincide
<1>7. InformeVeraz'
  BY <1>1, <1>6, ServidorIgual DEF InformeVeraz
<1>. QED  BY <1>1, <1>4, <1>7, HaciaResumen

\* A new client meets a server whose last copy is closed.
LEMMA ContenidoNuevoCliente ==
    ASSUME TipoInv, OrdenEnElCable, UNCHANGED serverVars, ContenidoEnOrden, NuevoCliente,
           InvLeido'
    PROVE  ContenidoEnOrden'
<1>1. cpc = "exit" /\ cpc' = "startOfTx"
  BY DEF NuevoCliente
<1>2. ~ filefd /\ Esperada = FD
  BY <1>1 DEF ContenidoEnOrden, ContResumen, Cerrada, OrdenEnElCable, InvExit
<1>3. ~ filefd' /\ Esperada' # 0
  BY <1>2, ServidorIgual DEF FD
<1>4. EnNombre' /\ ContNombre'
  BY <1>1, <1>3 DEF EnNombre, ContNombre
<1>. QED  BY <1>4, HaciaNombre

\* A wait that goes on, or that failed and is followed by a retry.
LEMMA ContenidoEspera ==
    ASSUME TipoInv, UNCHANGED serverVars, ContenidoEnOrden, InvLeido',
           \/ AckConHuecos \/ AckDeOtro \/ NoEsAck \/ LimitePaquetes \/ TimeoutCliente
           \/ OtroEnVezDeResumen
    PROVE  ContenidoEnOrden'
<1>1. /\ cpc \in {"esperar", "esperar_checksum"}
      /\ UNCHANGED <<c2s, archivo, tramoVars, esperado, informe>>
      /\ s2c' = s2c \/ Quita(s2c, s2c')
  BY LeerQuita DEF AckConHuecos, AckDeOtro, NoEsAck, LimitePaquetes, TimeoutCliente,
                   OtroEnVezDeResumen, Reintentar, clientVars
<1>2. /\ cpc = "esperar_checksum" => cpc' = cpc
      /\ cpc = "esperar" =>
           /\ esperado = FF => cpc' \in {"startOfTx", "esperar"}
           /\ esperado = FE => cpc' = "esperar"
           /\ esperado \in Ventanas => cpc' \in {"esperar", "ultimo", "tramo", "huecos"}
  <2>1. CASE AckConHuecos
    BY <2>1, VentanaNoEsControl DEF AckConHuecos
  <2>2. ASSUME NEW r, Reintentar(r), cpc = "esperar"
        PROVE  /\ esperado = FF => cpc' \in {"startOfTx", "esperar"}
               /\ esperado = FE => cpc' = "esperar"
               /\ esperado \in Ventanas => cpc' \in {"esperar", "ultimo", "tramo", "huecos"}
    <3>1. cpc' = Reintento(r)
      BY <2>2 DEF Reintentar
    <3>. QED  BY <3>1, ReintentoDestino
  <2>3. CASE AckDeOtro \/ LimitePaquetes \/ TimeoutCliente
    BY <2>2, <2>3 DEF AckDeOtro, LimitePaquetes, TimeoutCliente
  <2>4. CASE NoEsAck \/ OtroEnVezDeResumen
    BY <2>4 DEF NoEsAck, OtroEnVezDeResumen, clientVars
  <2>. QED  BY <2>1, <2>3, <2>4
<1>3. esperado \in Ventanas \cup {FF, FE} /\ FF # FE
  BY Codigos DEF TipoInv, TypeOK, ClientTypeOK
<1>4. cpc' \in {"startOfTx", "esperar", "ultimo", "tramo", "huecos", "esperar_checksum"}
  BY <1>1, <1>2, <1>3
<1>5. EnNombre' => EnNombre
  BY <1>1, <1>2, <1>3, <1>4, VentanaNoEsControl DEF EnNombre
<1>6. EnDatos' => EnDatos
  BY <1>1, <1>2, <1>3, <1>4, VentanaNoEsControl DEF EnDatos, Enviando
<1>7. EnFin' => EnFin
  BY <1>1, <1>2, <1>3, <1>4, VentanaNoEsControl DEF EnFin
<1>8. EnResumen' => EnResumen
  BY <1>1, <1>2, <1>3, <1>4 DEF EnResumen
<1>9. cpc # "leer" /\ cpc' # "leer" /\ cpc # "exit" /\ cpc' # "exit"
  BY <1>1, <1>4
<1>. QED  BY <1>1, <1>5, <1>6, <1>7, <1>8, <1>9, EsperaContenido

\* A step of the client keeps the contents.
LEMMA ClienteContenido ==
    ASSUME TipoInv, TipoInv', OrdenEnElCable, ContenidoEnOrden,
           ClientNext, UNCHANGED serverVars
    PROVE  ContenidoEnOrden'
<1>0. InvLeido'
  BY ClienteLeido
<1>1. CASE EnviarNombre
  BY <1>0, <1>1, ContenidoEnviarNombre
<1>2. CASE LeerTramo
  BY <1>0, <1>2, ContenidoLeerTramo
<1>3. CASE LeerFin
  BY <1>0, <1>3, ContenidoLeerFin
<1>4. CASE EnviarChunk \/ ReenviarUltimo \/ LlenarHueco
  BY <1>0, <1>4, ContenidoEnviar
<1>5. CASE EnviarFin
  BY <1>0, <1>5, ContenidoEnviarFin
<1>6. CASE PedirResumen \/ LimitePaquetesResumen
  BY <1>0, <1>6, ContenidoPedir
<1>7. CASE AckEsperado
  <2>1. esperado \in Ventanas \cup {FF, FE}
    BY DEF TipoInv, TypeOK, ClientTypeOK
  <2>. QED
    BY <1>0, <1>7, <2>1, ContenidoAckNombre, ContenidoAckFin, ContenidoAckVentana
<1>8. CASE \/ AckConHuecos \/ AckDeOtro \/ NoEsAck \/ LimitePaquetes \/ TimeoutCliente
           \/ OtroEnVezDeResumen
  BY <1>0, <1>8, ContenidoEspera
<1>9. CASE RecibirResumen
  BY <1>0, <1>9, ContenidoRecibirResumen
<1>10. CASE NuevoCliente
  BY <1>0, <1>10, ContenidoNuevoCliente
<1>. QED
  BY <1>1, <1>2, <1>3, <1>4, <1>5, <1>6, <1>7, <1>8, <1>9, <1>10 DEF ClientNext

----------------------------------------------------------------------------
(* The invariant *)

\* The system starts with nothing copied.
LEMMA InitContenido == Init => ContenidoEnOrden
<1>. SUFFICES ASSUME Init PROVE ContenidoEnOrden
  OBVIOUS
<1>1. /\ cpc = "startOfTx" /\ leido = 0 /\ length_read = 0 /\ informe = "ninguno"
      /\ ~ filefd /\ Esperada = TOPE - 1
  BY DEF Init, ClientInit, ServerInit, Esperada
<1>2. Esperada # 0
  BY <1>1
<1>3. EnNombre /\ ~ EnDatos /\ ~ EnFin /\ ~ EnResumen /\ ~ Enviando
  BY <1>1 DEF EnNombre, EnDatos, Enviando, EnFin, EnResumen
<1>. QED
  BY <1>1, <1>2, <1>3 DEF ContenidoEnOrden, InvLeido, ContNombre, ContDatos, ContFin,
                          ContResumen, InformeVeraz

\* A loss keeps the contents.
LEMMA PerderContenido ==
    ASSUME TipoInv, ContenidoEnOrden, Perder
    PROVE  ContenidoEnOrden'
<1>0. UNCHANGED clientVars /\ UNCHANGED serverVars
  BY DEF Perder
<1>1. /\ UNCHANGED <<cpc, archivo, tramoVars, cantidad_ack, ultimo, esperado, huecos, informe>>
      /\ EnNombre' = EnNombre /\ EnDatos' = EnDatos /\ EnFin' = EnFin
      /\ EnResumen' = EnResumen /\ Enviando' = Enviando
  BY <1>0 DEF clientVars, EnNombre, EnDatos, EnFin, EnResumen, Enviando
<1>2. c2s' = c2s \/ Quita(c2s, c2s')
  BY TailQuita DEF Perder, PerderAlServidor, PerderAlCliente, TipoInv, TypeOK, LinkTypeOK
<1>3. s2c' = s2c \/ Quita(s2c, s2c')
  BY TailQuita DEF Perder, PerderAlServidor, PerderAlCliente, TipoInv, TypeOK, LinkTypeOK
<1>4. InvLeido'
  BY <1>1, LeidoIgual DEF ContenidoEnOrden
<1>. QED  BY <1>0, <1>1, <1>2, <1>3, <1>4, EsperaContenido

\* Every step keeps the contents: the invariant is inductive, given the types
\* and the order of the frames.
LEMMA ContenidoInductivo ==
    TipoInv /\ OrdenEnElCable /\ ContenidoEnOrden /\ [Next]_vars => ContenidoEnOrden'
<1>. SUFFICES ASSUME TipoInv, OrdenEnElCable, ContenidoEnOrden, [Next]_vars
              PROVE  ContenidoEnOrden'
  OBVIOUS
<1>0. TipoInv'
  BY TipoInductivo
<1>1. CASE ClientNext /\ UNCHANGED serverVars
  BY <1>0, <1>1, ClienteContenido
<1>2. CASE ServerNext /\ UNCHANGED clientVars
  BY <1>0, <1>2, ServidorContenido
<1>3. CASE Perder
  BY <1>3, PerderContenido
<1>4. CASE UNCHANGED vars
  <2>0. UNCHANGED clientVars /\ UNCHANGED serverVars /\ c2s' = c2s /\ s2c' = s2c
    BY <1>4 DEF vars, linkVars
  <2>1. /\ UNCHANGED <<cpc, archivo, tramoVars, cantidad_ack, ultimo, esperado, huecos,
                       informe>>
        /\ EnNombre' = EnNombre /\ EnDatos' = EnDatos /\ EnFin' = EnFin
        /\ EnResumen' = EnResumen /\ Enviando' = Enviando
    BY <2>0 DEF clientVars, EnNombre, EnDatos, EnFin, EnResumen, Enviando
  <2>2. InvLeido'
    BY <2>1, LeidoIgual DEF ContenidoEnOrden
  <2>. QED  BY <2>0, <2>1, <2>2, EsperaContenido
<1>. QED  BY <1>1, <1>2, <1>3, <1>4 DEF Next

\* What is in flight, in the buffers and on the disk is what the file holds
\* there (client.c and server.c, every action).
THEOREM ContenidoDeTramas == Spec => []ContenidoEnOrden
<1>1. Init => TipoInv /\ OrdenEnElCable /\ ContenidoEnOrden
  BY InitTipo, InitOrden, InitContenido
<1>2. TipoInv /\ OrdenEnElCable /\ ContenidoEnOrden /\ [Next]_vars
        => (TipoInv /\ OrdenEnElCable /\ ContenidoEnOrden)'
  BY TipoInductivo, OrdenInductivo, ContenidoInductivo
<1>. QED  BY <1>1, <1>2, PTL DEF Spec

----------------------------------------------------------------------------
(* What follows from it *)

\* The three parts of the invariant together.
TodoInv == TipoInv /\ OrdenEnElCable /\ ContenidoEnOrden

\* It is an invariant of the system.
LEMMA TodoSiempre == Spec => []TodoInv
<1>1. Init => TodoInv
  BY InitTipo, InitOrden, InitContenido DEF TodoInv
<1>2. TodoInv /\ [Next]_vars => TodoInv'
  BY TipoInductivo, OrdenInductivo, ContenidoInductivo DEF TodoInv
<1>. QED  BY <1>1, <1>2, PTL DEF Spec

\* The client is always in one of its phases.
LEMMA Fases ==
    ASSUME TipoInv
    PROVE  EnNombre \/ EnDatos \/ EnFin \/ EnResumen \/ cpc = "exit"
  BY DEF TipoInv, TypeOK, ClientTypeOK, Etapas, EnNombre, EnDatos, Enviando, EnFin, EnResumen

\* What is written is as long as it is counted.
LEMMA LargoDeCopia ==
    ASSUME TipoInv, InvCopia
    PROVE  /\ total_escrito \in 0..Largo[archivo] /\ total_escrito \in Nat
           /\ disco[archivo] = SubSeq(Fuente(archivo), 1, total_escrito)
           /\ Len(disco[archivo]) = total_escrito
<1>1. /\ archivo \in Archivos /\ total_escrito \in Nat
      /\ total_escrito \in 0..Largo[archivo]
      /\ disco[archivo] = SubSeq(Fuente(archivo), 1, total_escrito)
  BY TiposServidor DEF InvCopia, Escrita
<1>. QED  BY <1>1, PrincipioEs

\* While the copy is open its content is known, and it is that of this client.
LEMMA CopiaAbierta ==
    ASSUME TodoInv, filefd
    PROVE  InvCopia /\ path = archivo /\ (EnNombre \/ EnDatos \/ EnFin)
<1>0. /\ TipoInv /\ OrdenEnElCable /\ ContNombre /\ ContDatos /\ ContFin /\ ContResumen
  BY DEF TodoInv, ContenidoEnOrden
<1>1. CASE EnNombre
  <2>1. Esperada = 0 /\ InvCopia
    BY <1>0, <1>1 DEF ContNombre
  <2>. QED  BY <1>0, <1>1, <2>1 DEF OrdenEnElCable, InvNombre, NombreServidor
<1>2. CASE EnDatos
  BY <1>0, <1>2 DEF ContDatos, OrdenEnElCable, InvDatos
<1>3. CASE EnFin
  BY <1>0, <1>3 DEF ContFin, Cerrada, Ultima
<1>4. CASE EnResumen \/ cpc = "exit"
  BY <1>0, <1>4 DEF ContResumen, Cerrada
<1>. QED  BY <1>0, <1>1, <1>2, <1>3, <1>4, Fases

\* The verdict printed on the copy (client.c:958, 963) is the truth.
THEOREM VeredictoVeraz == Spec => []InformeVeraz
<1>1. TodoInv => InformeVeraz
  BY DEF TodoInv, ContenidoEnOrden
<1>. QED  BY <1>1, TodoSiempre, PTL

\* When the client says that the file was copied (client.c:637) the copy is
\* whole, if the length of the file suits the frames.
THEOREM CopiaEntera == Spec => []CopiadoSiConservable
<1>1. TodoInv => CopiadoSiConservable
  BY DEF TodoInv, ContenidoEnOrden, ContResumen, Cerrada, EnResumen,
         CopiadoSiConservable, CopiadoConExito
<1>. QED  BY <1>1, TodoSiempre, PTL

\* The server's count of bytes written (server.c:470) is the length of the copy.
THEOREM CuentaExacta == Spec => []CuentaDeBytes
<1>1. TodoInv => CuentaDeBytes
  <2>. SUFFICES ASSUME TodoInv, filefd PROVE total_escrito = Len(disco[path])
    BY DEF CuentaDeBytes
  <2>1. TipoInv /\ InvCopia /\ path = archivo
    BY CopiaAbierta DEF TodoInv
  <2>. QED  BY <2>1, LargoDeCopia
<1>. QED  BY <1>1, TodoSiempre, PTL

\* When the client overwrites its only copy of a window (client.c:335) the
\* server holds every byte read so far, in order, for every conservable file.
THEOREM NadaSePierde == Spec => []NadaSeSuelta
<1>1. TodoInv => NadaSeSuelta
  <2>. SUFFICES ASSUME TodoInv, cpc = "leer", Conservable(archivo)
                PROVE  disco[archivo] \o Porcion(buffer_write, 0, bytes_archivo)
                         = SubSeq(Fuente(archivo), 1, leido)
    BY DEF NadaSeSuelta, Recibido
  <2>1. /\ TipoInv /\ InvCopia
        /\ IF Esperada = Enviada THEN MismaVentana ELSE VentanaAnterior
    BY DEF TodoInv, ContenidoEnOrden, ContDatos, EnDatos
  <2>2. /\ archivo \in Archivos /\ Largo[archivo] \in Nat /\ buffer_write \in Buffer
        /\ Escrita(archivo, total_escrito, disco[archivo])
        /\ Ventana(archivo, total_escrito, grilla, buffer_write, bytes_archivo)
        /\ total_escrito \in 0..Largo[archivo] /\ total_escrito % LARGO_TRAMO = 0
    BY <2>1, TiposServidor DEF InvCopia, Escrita
  <2>3. CASE Esperada = Enviada
    <3>1. leido = 0 /\ total_escrito = 0 /\ bytes_archivo = 0
      BY <2>1, <2>3 DEF MismaVentana, InvCopia
    <3>2. 0 \in 0..Largo[archivo] /\ 0 \in 0..(Largo[archivo] - 0) /\ 0 <= LARGO_TRAMO
      BY <2>2, TramoTipo
    <3>3. SubSeq(Fuente(archivo), 1, 0) \o Porcion(buffer_write, 0, 0)
            = SubSeq(Fuente(archivo), 1, 0 + 0)
      BY <2>2, <3>2, PrincipioMas
    <3>4. disco[archivo] = SubSeq(Fuente(archivo), 1, 0)
      BY <2>2, <3>1 DEF Escrita
    <3>5. 0 + 0 = 0
      OBVIOUS
    <3>. QED  BY <3>1, <3>3, <3>4, <3>5
  <2>4. CASE Esperada # Enviada
    <3>1. Entera /\ leido = total_escrito + LargoVentana(archivo, total_escrito)
      BY <2>1, <2>4 DEF VentanaAnterior
    <3>2. Exacta(archivo, total_escrito)
      BY <2>2, ConservableExacta
    <3>3. \A p \in Pos : EnVentana(archivo, total_escrito, p) => grilla[p] = LLENO
      BY <3>1 DEF Entera
    <3>4. disco[archivo] \o Porcion(buffer_write, 0, bytes_archivo)
            = SubSeq(Fuente(archivo), 1, total_escrito + LargoVentana(archivo, total_escrito))
      BY <2>2, <3>2, <3>3, CopiaSigue
    <3>. QED  BY <3>1, <3>4
  <2>. QED  BY <2>3, <2>4
<1>. QED  BY <1>1, TodoSiempre, PTL

\* A position that the client asks about is one of the window.
LEMMA PosicionLeida ==
    ASSUME NEW n \in 1..LARGO_TRAMO, NEW p \in 0..((n - 1) \div CHUNK)
    PROVE  p \in Pos
<1>. DEFINE q == (n - 1) \div CHUNK
<1>1. n - 1 \in Nat /\ n - 1 < LARGO_TRAMO
  BY TramoTipo
<1>2. q \in Nat /\ (n - 1) % CHUNK \in 0..(CHUNK - 1) /\ n - 1 = CHUNK * q + ((n - 1) % CHUNK)
  BY <1>1, Cociente
<1>3. p \in Nat /\ p <= q
  BY <1>2
<1>. HIDE DEF q
<1>4. q < CANT_CHUNKS
  <2>. SUFFICES ASSUME CANT_CHUNKS <= q PROVE FALSE
    BY <1>2
  <2>1. CHUNK * q = q * CHUNK
    BY <1>2, Z3
  <2>2. LARGO_TRAMO <= q * CHUNK
    <3>1. CASE q = CANT_CHUNKS
      BY <3>1, TramoTipo DEF LARGO_TRAMO
    <3>2. CASE CANT_CHUNKS < q
      <4>1. CANT_CHUNKS * CHUNK + CHUNK <= q * CHUNK
        BY <1>2, <3>2, LugarAntes
      <4>2. CANT_CHUNKS * CHUNK = LARGO_TRAMO /\ LARGO_TRAMO \in Nat /\ q * CHUNK \in Nat
        BY <1>2, Lugar, TramoTipo DEF LARGO_TRAMO
      <4>. QED  BY <4>1, <4>2
    <3>. QED  BY <1>2, <3>1, <3>2
  <2>3. q * CHUNK \in Nat /\ (n - 1) % CHUNK \in Nat /\ LARGO_TRAMO \in Nat
    BY <1>2, Lugar, TramoTipo
  <2>. QED  BY <1>1, <1>2, <2>1, <2>2, <2>3
<1>5. q \in Nat
  BY <1>2
<1>. QED  BY <1>3, <1>4, <1>5 DEF Pos

\* A grid that the client would accept tells the truth (server.c:405).
THEOREM GrillaVeraz == Spec => []AckVeraz
<1>1. TodoInv => AckVeraz
  <2>. SUFFICES ASSUME TodoInv, Enviando,
                       NEW k \in 1..Len(s2c), s2c[k].nro = nro_secuencia_enviado,
                       NEW p \in 0..((length_read - 1) \div CHUNK),
                       s2c[k].grilla[p] = LLENO
                PROVE  /\ nro_secuencia_anterior = nro_secuencia_enviado
                       /\ grilla[p] = LLENO
                       /\ \A j \in (p * CHUNK + 1)..Menor((p + 1) * CHUNK, length_read) :
                            buffer_write[j] = buffer_read[j]
    BY DEF AckVeraz
  <2>1. TipoInv /\ OrdenEnElCable /\ InvLeido /\ ContDatos /\ EnDatos /\ cpc # "leer"
    BY DEF TodoInv, ContenidoEnOrden, EnDatos, Enviando
  <2>2. Esperada = Enviada
    <3>. SUFFICES ASSUME Esperada # Enviada PROVE FALSE
      OBVIOUS
    <3>1. AtrasVuelta
      BY <2>1, FaseDatos DEF Atras
    <3>. QED  BY <3>1 DEF AtrasVuelta, Enviada
  <2>3. InvCopia /\ total_escrito = Base /\ GrillasVeraces
    BY <2>1, <2>2 DEF ContDatos, MismaVentana
  <2>4. /\ archivo \in Archivos /\ Base \in 0..Largo[archivo]
        /\ length_read = LargoVentana(archivo, Base) /\ length_read \in 1..LARGO_TRAMO
        /\ \A j \in 1..length_read : buffer_read[j] = <<archivo, Base + j>>
    BY <2>1, EnMemoria
  <2>5. p \in Pos
    BY <2>4, PosicionLeida
  <2>6. p \in Marcados(grilla)
    BY <2>3, <2>5 DEF GrillasVeraces, Marcados, Enviada
  <2>7. /\ EnVentana(archivo, Base, p)
        /\ \A i \in 1..LargoChunk(archivo, Base, p) :
             buffer_write[p * CHUNK + i] = <<archivo, Base + p * CHUNK + i>>
    BY <2>3, <2>6 DEF InvCopia, Ventana
  <2>8. ASSUME NEW j \in (p * CHUNK + 1)..Menor((p + 1) * CHUNK, length_read)
        PROVE  buffer_write[j] = buffer_read[j]
    <3>. DEFINE a == p * CHUNK
                i == j - a
    <3>1. a \in Nat /\ (p + 1) * CHUNK = a + CHUNK
      BY <2>5, Lugar DEF Pos
    <3>2. LargoChunk(archivo, Base, p) = Menor(CHUNK, length_read - a)
      BY <2>4 DEF LargoChunk
    <3>3. j \in (a + 1)..Menor(a + CHUNK, length_read)
      BY <3>1
    <3>. HIDE DEF a
    <3>a. length_read \in Int /\ a + CHUNK \in Int /\ CHUNK \in Int
      BY <2>4, <3>1
    <3>d. /\ Menor(a + CHUNK, length_read) <= a + CHUNK
          /\ Menor(a + CHUNK, length_read) <= length_read
          /\ Menor(a + CHUNK, length_read) \in Int
      BY <3>a, MenorDe
    <3>b. /\ j \in Nat /\ a + 1 <= j /\ j <= a + CHUNK /\ j <= length_read
      BY <3>1, <3>3, <3>a, <3>d
    <3>c. /\ i \in Nat /\ 1 <= i /\ i <= CHUNK /\ i <= length_read - a /\ j = a + i
      BY <3>1, <3>a, <3>b
    <3>. HIDE DEF i
    <3>4. /\ j \in Nat /\ i \in 1..Menor(CHUNK, length_read - a) /\ j = a + i
          /\ j \in 1..length_read
      BY <3>1, <3>a, <3>b, <3>c DEF Menor
    <3>5. buffer_write[a + i] = <<archivo, Base + a + i>>
      BY <2>7, <3>2, <3>4 DEF a
    <3>6. Base + a + i = Base + j
      BY <2>4, <3>1, <3>4
    <3>. QED  BY <2>4, <3>4, <3>5, <3>6
  <2>. QED  BY <2>2, <2>6, <2>8 DEF Esperada, Enviada, Marcados
<1>. QED  BY <1>1, TodoSiempre, PTL

----------------------------------------------------------------------------
(* A copy only grows *)

\* The first n elements of a sequence, as SubSeq gives them.
LEMMA PrimerosDe ==
    ASSUME NEW t \in Seq(Celda), NEW n \in 0..Len(t)
    PROVE  /\ SubSeq(t, 1, n) \in Seq(Celda) /\ Len(SubSeq(t, 1, n)) = n
           /\ \A i \in 1..n : SubSeq(t, 1, n)[i] = t[i]
<1>1. n \in Nat /\ n <= Len(t) /\ \A i \in 1..n : t[i] \in Celda
  BY LenProperties, ElementOfSeq
<1>. DEFINE s == SubSeq(t, 1, n)
<1>2. /\ s \in Seq(Celda) /\ Len(s) = IF 1 <= n THEN n - 1 + 1 ELSE 0
      /\ \A i \in 1..n - 1 + 1 : s[i] = t[1 + i - 1]
  BY <1>1, SubSeqProperties
<1>. HIDE DEF s
<1>3. \A i \in 1..n : 1 + i - 1 = i /\ i \in 1..n - 1 + 1
  BY <1>1
<1>4. s \in Seq(Celda) /\ Len(s) = n /\ \A i \in 1..n : s[i] = t[i]
  BY <1>1, <1>2, <1>3
<1>. QED  BY <1>4 DEF s

\* A sequence is a prefix of another that begins with its elements.
LEMMA PrefijoDe ==
    ASSUME NEW s \in Seq(Celda), NEW t \in Seq(Celda), Len(s) <= Len(t),
           \A i \in 1..Len(s) : s[i] = t[i]
    PROVE  IsPrefix(s, t)
<1>1. Len(s) \in 0..Len(s) /\ Len(s) \in 0..Len(t)
  BY LenProperties
<1>2. /\ SubSeq(s, 1, Len(s)) \in Seq(Celda) /\ Len(SubSeq(s, 1, Len(s))) = Len(s)
      /\ \A i \in 1..Len(s) : SubSeq(s, 1, Len(s))[i] = s[i]
  BY <1>1, PrimerosDe
<1>3. /\ SubSeq(t, 1, Len(s)) \in Seq(Celda) /\ Len(SubSeq(t, 1, Len(s))) = Len(s)
      /\ \A i \in 1..Len(s) : SubSeq(t, 1, Len(s))[i] = t[i]
  BY <1>1, PrimerosDe
<1>4. SubSeq(s, 1, Len(s)) = SubSeq(t, 1, Len(s))
  BY <1>2, <1>3, SeqEqual
<1>. QED  BY <1>4 DEF IsPrefix

\* What is written behind a copy makes it longer (server.c:345, 402).
LEMMA PrefijoConcatenado ==
    ASSUME NEW s \in Seq(Celda), NEW x \in Seq(Celda)
    PROVE  IsPrefix(s, s) /\ IsPrefix(s, s \o x)
<1>1. Len(s) \in Nat /\ Len(x) \in Nat
  BY LenProperties
<1>2. /\ s \o x \in Seq(Celda) /\ Len(s \o x) = Len(s) + Len(x)
      /\ \A i \in 1..Len(s) + Len(x) :
           (s \o x)[i] = IF i <= Len(s) THEN s[i] ELSE x[i - Len(s)]
  BY ConcatProperties
<1>3. \A i \in 1..Len(s) : s[i] = (s \o x)[i]
  BY <1>1, <1>2
<1>4. IsPrefix(s, s)
  <2>1. Len(s) <= Len(s)
    BY <1>1
  <2>. QED  BY <2>1, PrefijoDe
<1>5. IsPrefix(s, s \o x)
  <2>. DEFINE r == s \o x
  <2>1. r \in Seq(Celda) /\ Len(s) <= Len(r) /\ \A i \in 1..Len(s) : s[i] = r[i]
    BY <1>1, <1>2, <1>3
  <2>. HIDE DEF r
  <2>2. IsPrefix(s, r)
    BY <2>1, PrefijoDe
  <2>. QED  BY <2>2 DEF r
<1>. QED  BY <1>4, <1>5

\* Two beginnings of a file, the second not shorter.
LEMMA PrefijoPrincipio ==
    ASSUME NEW f \in Archivos, NEW b \in 0..Largo[f], NEW c \in 0..Largo[f], b <= c
    PROVE  IsPrefix(SubSeq(Fuente(f), 1, b), SubSeq(Fuente(f), 1, c))
<1>. DEFINE s == SubSeq(Fuente(f), 1, b)
            t == SubSeq(Fuente(f), 1, c)
<1>1. b \in Nat /\ c \in Nat
  OBVIOUS
<1>2. s \in Seq(Celda) /\ Len(s) = b /\ \A i \in 1..b : s[i] = <<f, i>>
  BY PrincipioEs
<1>3. t \in Seq(Celda) /\ Len(t) = c /\ \A i \in 1..c : t[i] = <<f, i>>
  BY PrincipioEs
<1>. HIDE DEF s, t
<1>4. Len(s) <= Len(t) /\ \A i \in 1..Len(s) : s[i] = t[i]
  <2>1. \A i \in 1..b : i \in 1..c
    BY <1>1
  <2>2. \A i \in 1..b : s[i] = t[i]
    BY <1>2, <1>3, <2>1
  <2>. QED  BY <1>2, <1>3, <2>2
<1>5. IsPrefix(s, t)
  BY <1>2, <1>3, <1>4, PrefijoDe
<1>. QED  BY <1>5 DEF s, t

\* While windows are sent, the count of bytes written does not go back.
LEMMA CuentaCrece ==
    ASSUME TodoInv, TipoInv', EnDatos, ServerNext, UNCHANGED clientVars
    PROVE  total_escrito <= total_escrito'
<1>1. /\ TipoInv /\ OrdenEnElCable /\ InvLeido /\ InvCopia
      /\ IF Esperada = Enviada THEN MismaVentana ELSE VentanaAnterior
  BY DEF TodoInv, ContenidoEnOrden, ContDatos
<1>2. CASE Esperada = Enviada
  <2>1. total_escrito' = total_escrito /\ total_escrito \in Nat
    BY <1>1, <1>2, ContenidoAlDia, TiposServidor
  <2>. QED  BY <2>1
<1>3. CASE Esperada # Enviada
  BY <1>1, <1>3, ContenidoAtras
<1>. QED  BY <1>2, <1>3

\* Once the content flows the copy is not truncated by a 0xFF that was
\* repeated on a timeout (client.c:570), nor by anything else.
THEOREM CopiaSoloCrece == Spec => CopiaNuncaRetrocede
<1>1. TodoInv /\ TodoInv' /\ [Next]_vars
        => [EnDatos /\ EnDatos' => IsPrefix(disco[archivo], disco'[archivo])]_vars
  <2>. SUFFICES ASSUME TodoInv, TodoInv', [Next]_vars, EnDatos, EnDatos'
                PROVE  IsPrefix(disco[archivo], disco'[archivo])
    OBVIOUS
  <2>1. TipoInv /\ TipoInv' /\ archivo \in Archivos /\ disco[archivo] \in Seq(Celda)
    BY TiposServidor DEF TodoInv
  <2>2. CASE disco' = disco
    BY <2>1, <2>2, PrefijoConcatenado
  <2>3. CASE ServerNext /\ UNCHANGED clientVars
    <3>1. archivo' = archivo
      BY <2>3 DEF clientVars
    <3>2. InvCopia /\ InvCopia'
      BY DEF TodoInv, ContenidoEnOrden, ContDatos
    <3>3. total_escrito <= total_escrito'
      BY <2>1, <2>3, CuentaCrece
    <3>4. /\ total_escrito \in 0..Largo[archivo] /\ total_escrito' \in 0..Largo[archivo]
          /\ disco[archivo] = SubSeq(Fuente(archivo), 1, total_escrito)
          /\ disco'[archivo] = SubSeq(Fuente(archivo), 1, total_escrito')
      BY <3>1, <3>2 DEF InvCopia, Escrita
    <3>. QED  BY <2>1, <3>3, <3>4, PrefijoPrincipio
  <2>4. disco' = disco \/ (ServerNext /\ UNCHANGED clientVars)
    BY DEF Next, Perder, vars, serverVars, archivoVars
  <2>. QED  BY <2>2, <2>3, <2>4
<1>. QED  BY <1>1, TodoSiempre, PTL DEF Spec, CopiaNuncaRetrocede

----------------------------------------------------------------------------
(* The transfer implements FileCopy *)

\* A copy of which nothing was written is empty.
LEMMA CopiaVacia ==
    ASSUME TipoInv, InvCopia, grilla = GrillaVacia \/ Largo[archivo] = 0
    PROVE  disco[archivo] = <<>>
<1>1. /\ total_escrito \in 0..Largo[archivo] /\ archivo \in Archivos
      /\ disco[archivo] = SubSeq(Fuente(archivo), 1, total_escrito)
  BY LargoDeCopia, TiposServidor
<1>2. total_escrito = 0
  <2>1. CASE grilla = GrillaVacia
    BY <2>1, MarcadosVacia DEF InvCopia
  <2>2. CASE Largo[archivo] = 0
    BY <1>1, <2>2
  <2>. QED  BY <2>1, <2>2
<1>. QED  BY <1>1, <1>2, PrincipioTodo

\* Where each code may be in front of the server's queue.
LEMMA FrenteDeCola ==
    ASSUME TodoInv, 1 \in 1..Len(c2s)
    PROVE  /\ EnNombre => c2s[1].nro \in {FD, FF}
           /\ EnDatos /\ Esperada = Enviada =>
                \/ c2s[1].nro = FF /\ grilla = GrillaVacia /\ c2s[1].archivo = archivo
                \/ c2s[1].nro \in Tramo(Esperada)
           /\ EnDatos /\ Esperada # Enviada =>
                c2s[1].nro \in Tramo(Esperada) \cup Tramo(Enviada)
           /\ EnFin => /\ Ultima /\ Esperada \in Inicios
                       /\ c2s[1].nro \in {FF, FE} \cup Tramo(Esperada)
           /\ EnResumen \/ cpc = "exit" => c2s[1].nro = FD
<1>0. TipoInv /\ OrdenEnElCable /\ ContFin
  BY DEF TodoInv, ContenidoEnOrden
<1>1. EnNombre => c2s[1].nro \in {FD, FF}
  BY <1>0 DEF OrdenEnElCable, InvNombre, NombreIda
<1>2. ASSUME EnDatos, Esperada = Enviada
      PROVE  \/ c2s[1].nro = FF /\ grilla = GrillaVacia /\ c2s[1].archivo = archivo
             \/ c2s[1].nro \in Tramo(Esperada)
  <2>1. AlDia
    BY <1>0, <1>2, FaseDatos
  <2>. QED  BY <1>2, <2>1 DEF AlDia, AlDiaIda
<1>3. ASSUME EnDatos, Esperada # Enviada
      PROVE  c2s[1].nro \in Tramo(Esperada) \cup Tramo(Enviada)
  <2>1. Atras
    BY <1>0, <1>3, FaseDatos
  <2>. QED  BY <2>1 DEF Atras, AtrasIda
<1>4. ASSUME EnFin
      PROVE  /\ Ultima /\ Esperada \in Inicios
             /\ c2s[1].nro \in {FF, FE} \cup Tramo(Esperada)
  <2>1. /\ Esperada = FE => c2s = <<>> /\ Cerrada
        /\ Esperada # FE => Esperada \in Inicios /\ Ultima
        /\ FinIda
    BY <1>0, <1>4, FaseFin
  <2>2. c2s # <<>>
    OBVIOUS
  <2>. QED  BY <2>1, <2>2 DEF FinIda
<1>5. EnResumen \/ cpc = "exit" => c2s[1].nro = FD
  BY <1>0 DEF OrdenEnElCable, InvResumen, InvExit, ResumenIda
<1>. QED  BY <1>1, <1>2, <1>3, <1>4, <1>5

\* The numbers of the two windows are no codes.
LEMMA TramosSinCodigos ==
    ASSUME TipoInv, OrdenEnElCable, EnDatos, NEW n \in Tramo(Esperada) \cup Tramo(Enviada)
    PROVE  n # FF /\ n # FE /\ n # FD /\ n \notin Control
  BY FaseDatos, TramoSinControl

\* 0xFF opens the copy of this client, which is still empty if it was open.
LEMMA NombreAbre ==
    ASSUME TodoInv, RecibirNombre
    PROVE  /\ path' = archivo /\ filefd' /\ archivo # 0 /\ informe = "ninguno"
           /\ disco' = [disco EXCEPT ![archivo] = <<>>]
           /\ filefd => disco[archivo] = <<>>
<1>0. TipoInv /\ OrdenEnElCable /\ InvLeido /\ ContNombre /\ ContDatos
  BY DEF TodoInv, ContenidoEnOrden
<1>1. /\ c2s[1].nro = FF /\ 1 \in 1..Len(c2s)
      /\ disco' = [disco EXCEPT ![path'] = <<>>] /\ path' = c2s[1].archivo
      /\ path' \in Archivos /\ filefd'
  BY <1>0, NombreEfecto, NombreDespues DEF Quita
<1>2. FF # FD /\ FF # FE
  BY Codigos
<1>3. c2s[1].archivo = archivo /\ (filefd => disco[archivo] = <<>>) /\ cpc # "exit"
  <2>1. CASE EnNombre
    <3>1. NombreServidor /\ NombreIda /\ cpc # "exit"
      BY <1>0, <2>1 DEF OrdenEnElCable, InvNombre, EnNombre
    <3>2. c2s[1].archivo = archivo
      BY <1>1, <3>1 DEF NombreIda
    <3>3. ASSUME filefd PROVE disco[archivo] = <<>>
      <4>1. InvCopia /\ grilla = GrillaVacia
        BY <1>0, <2>1, <3>1, <3>3 DEF ContNombre, NombreServidor
      <4>. QED  BY <1>0, <4>1, CopiaVacia
    <3>. QED  BY <3>1, <3>2, <3>3
  <2>2. CASE EnDatos
    <3>1. c2s[1].nro \notin Tramo(Esperada) \cup Tramo(Enviada)
      BY <1>0, <1>1, <2>2, TramosSinCodigos
    <3>2. Esperada = Enviada /\ grilla = GrillaVacia /\ c2s[1].archivo = archivo
      BY <1>1, <2>2, <3>1, FrenteDeCola
    <3>3. InvCopia /\ cpc # "exit"
      BY <1>0, <2>2 DEF ContDatos, EnDatos, Enviando
    <3>. QED  BY <1>0, <3>2, <3>3, CopiaVacia
  <2>3. CASE EnFin
    <3>1. Ultima /\ cpc # "exit"
      BY <1>1, <2>3, FrenteDeCola DEF EnFin
    <3>2. c2s[1].archivo = archivo /\ Largo[archivo] = 0 /\ InvCopia
      BY <1>1, <3>1 DEF Ultima
    <3>. QED  BY <1>0, <3>1, <3>2, CopiaVacia
  <2>4. CASE EnResumen \/ cpc = "exit"
    BY <1>1, <1>2, <2>4, FrenteDeCola
  <2>. QED  BY <1>0, <2>1, <2>2, <2>3, <2>4, Fases
<1>4. informe = "ninguno"
  BY <1>0, <1>3 DEF InvLeido
<1>. QED  BY <1>1, <1>3, <1>4

\* 0xFE meets the server in the last window of the copy.
LEMMA FinCierra ==
    ASSUME TodoInv, RecibirFin
    PROVE  Ultima
<1>0. TipoInv /\ OrdenEnElCable
  BY DEF TodoInv
<1>1. c2s[1].nro = FE /\ 1 \in 1..Len(c2s)
  BY <1>0, FinEfecto DEF Quita
<1>2. FE # FD /\ FE # FF
  BY Codigos
<1>3. ASSUME EnDatos PROVE FALSE
  <2>1. c2s[1].nro \notin Tramo(Esperada) \cup Tramo(Enviada)
    BY <1>0, <1>1, <1>3, TramosSinCodigos
  <2>. QED  BY <1>1, <1>2, <1>3, <2>1, FrenteDeCola
<1>. QED  BY <1>0, <1>1, <1>2, <1>3, Fases, FrenteDeCola

\* A chunk that opens a window comes while windows are sent.
LEMMA DatosEscriben ==
    ASSUME TodoInv, RecibirDatos, Avanza
    PROVE  EnDatos /\ Esperada # Enviada
<1>0. TipoInv /\ OrdenEnElCable
  BY DEF TodoInv
<1>1. /\ trama = c2s[1] /\ c2s[1].nro \notin Control /\ 1 \in 1..Len(c2s)
  BY <1>0, DatosGrilla DEF Quita
<1>2. FF \in Control /\ FE \in Control /\ FD \in Control
  BY DEF Control
<1>3. Esperada \in Inicios => c2s[1].nro \notin Tramo(Esperada)
  BY <1>1, TramoNoAvanza
<1>4. EnDatos
  BY <1>0, <1>1, <1>2, <1>3, Fases, FrenteDeCola
<1>5. ASSUME Esperada = Enviada PROVE FALSE
  <2>1. Esperada \in Inicios
    BY <1>0, <1>4, FaseDatos
  <2>. QED  BY <1>1, <1>2, <1>3, <1>4, <1>5, <2>1, FrenteDeCola
<1>. QED  BY <1>4, <1>5

\* A step that changes no file, nor the client's order and verdict.
LEMMA PasoQuieto ==
    ASSUME UNCHANGED <<archivo, disco, filefd, path, informe>>
    PROVE  UNCHANGED Copia!copyVars
  BY DEF Copia!copyVars

\* A step of the client: a verdict, a new order, or nothing (client.c:955).
LEMMA ClienteCopia ==
    ASSUME TodoInv, ClientNext, UNCHANGED serverVars
    PROVE  [Copia!Next]_(Copia!copyVars)
<1>0. /\ TipoInv /\ InvLeido /\ ContResumen /\ archivo \in Archivos
      /\ UNCHANGED <<disco, filefd, path>>
  BY ServidorIgual, TiposServidor DEF TodoInv, ContenidoEnOrden
<1>1. CASE RecibirResumen
  <2>1. /\ cpc = "esperar_checksum" /\ ack.nro = FD /\ archivo' = archivo
        /\ informe' = IF Coincide THEN "correctamente" ELSE "errores"
        /\ ack = s2c[1] /\ 1 \in 1..Len(s2c)
    BY <1>0, <1>1, LeerQuita DEF RecibirResumen, EsResumen
  <2>2. Cerrada /\ Resumenes /\ informe = "ninguno"
    BY <1>0, <2>1 DEF ContResumen, EnResumen, InvLeido
  <2>3. ack.resumen = <<disco[archivo]>> /\ ~ filefd
    BY <2>1, <2>2 DEF Resumenes, Cerrada
  <2>4. Coincide <=> disco[archivo] = Fuente(archivo)
    BY <2>3 DEF Coincide
  <2>5. Copia!Juzgar
    BY <1>0, <2>1, <2>2, <2>3, <2>4 DEF Copia!Juzgar
  <2>. QED  BY <2>5 DEF Copia!Next
<1>2. CASE NuevoCliente
  <2>1. cpc = "exit" /\ archivo' \in Archivos /\ informe' = "ninguno"
    BY <1>2 DEF NuevoCliente
  <2>2. informe # "ninguno"
    BY <1>0, <2>1 DEF InvLeido
  <2>3. Copia!Pedir
    BY <1>0, <2>1, <2>2 DEF Copia!Pedir
  <2>. QED  BY <2>3 DEF Copia!Next
<1>3. CASE ~ RecibirResumen /\ ~ NuevoCliente
  <2>1. UNCHANGED <<archivo, informe>>
    BY <1>3 DEF ClientNext, EnviarNombre, LeerTramo, LeerFin, EnviarChunk, ReenviarUltimo,
       LlenarHueco, EnviarFin, PedirResumen, AckEsperado, AckConHuecos, AckDeOtro, NoEsAck,
       LimitePaquetes, TimeoutCliente, OtroEnVezDeResumen, LimitePaquetesResumen,
       Reintentar, clientVars
  <2>. QED  BY <1>0, <2>1, PasoQuieto
<1>. QED  BY <1>1, <1>2, <1>3

\* 0xFF opens the copy (server.c:279).
LEMMA NombreCopia ==
    ASSUME TodoInv, RecibirNombre, UNCHANGED clientVars
    PROVE  Copia!Abrir
<1>1. UNCHANGED <<archivo, informe>>
  BY DEF clientVars
<1>2. /\ path' = archivo /\ filefd' /\ archivo # 0 /\ informe = "ninguno"
      /\ disco' = [disco EXCEPT ![archivo] = <<>>]
      /\ filefd => disco[archivo] = <<>>
  BY NombreAbre
<1>. QED  BY <1>1, <1>2 DEF Copia!Abrir

\* What a write does to the directory (server.c:345, 402).
LEMMA EscritoEs ==
    ASSUME TipoInv, filefd, path = archivo, disco' = Escrito
    PROVE  /\ disco' = [disco EXCEPT ![archivo] = disco'[archivo]]
           /\ IsPrefix(disco[archivo], disco'[archivo])
<1>1. /\ archivo \in Archivos /\ disco \in [Archivos -> Seq(Celda)]
      /\ bytes_archivo \in Nat /\ buffer_write \in Buffer
  BY TiposServidor
<1>. DEFINE x == Porcion(buffer_write, 0, bytes_archivo)
<1>2. disco' = [disco EXCEPT ![archivo] = disco[archivo] \o x]
  BY DEF Escrito
<1>3. x \in Seq(Celda)
  BY <1>1, PorcionTipo
<1>. HIDE DEF x
<1>4. disco'[archivo] = disco[archivo] \o x
  BY <1>1, <1>2
<1>5. disco[archivo] \in Seq(Celda)
  BY <1>1
<1>6. IsPrefix(disco[archivo], disco'[archivo])
  BY <1>3, <1>4, <1>5, PrefijoConcatenado
<1>. QED  BY <1>2, <1>4, <1>6

\* 0xFE closes it (server.c:317).
LEMMA FinCopia ==
    ASSUME TodoInv, RecibirFin, UNCHANGED clientVars
    PROVE  Copia!Cerrar
<1>1. UNCHANGED <<archivo, informe>>
  BY DEF clientVars
<1>2. TipoInv /\ Ultima
  BY FinCierra DEF TodoInv
<1>3. /\ filefd /\ path = archivo /\ ~ filefd' /\ path' = path
  BY <1>2 DEF Ultima, RecibirFin
<1>4. Conservable(archivo) => disco'[archivo] = Fuente(archivo)
  <2>1. Cerrada'
    BY <1>1, <1>2, CopiaCerrada
  <2>. QED  BY <1>1, <2>1 DEF Cerrada, Conservable
<1>5. /\ disco' = [disco EXCEPT ![archivo] = disco'[archivo]]
      /\ IsPrefix(disco[archivo], disco'[archivo])
  <2>1. CASE Saldo
    BY <1>2, <1>3, <2>1, EscritoEs DEF RecibirFin
  <2>2. CASE ~ Saldo
    <3>1. disco' = disco
      BY <2>2 DEF RecibirFin
    <3>2. disco \in [Archivos -> Seq(Celda)] /\ archivo \in Archivos
      BY <1>2, TiposServidor
    <3>3. disco = [disco EXCEPT ![archivo] = disco[archivo]] /\ disco[archivo] \in Seq(Celda)
      BY <3>2
    <3>. QED  BY <3>1, <3>3, PrefijoConcatenado
  <2>. QED  BY <2>1, <2>2
<1>6. archivo \in Archivos
  BY <1>2, TiposServidor
<1>. QED  BY <1>1, <1>3, <1>4, <1>5, <1>6 DEF Copia!Cerrar, Copia!IsPrefix, IsPrefix

\* A chunk that opens a window writes the one before (server.c:402).
LEMMA DatosCopia ==
    ASSUME TodoInv, TodoInv', RecibirDatos, Avanza, UNCHANGED clientVars
    PROVE  Copia!Escribir
<1>1. UNCHANGED <<archivo, informe, cpc, esperado>>
  BY DEF clientVars
<1>2. TipoInv /\ OrdenEnElCable /\ EnDatos
  BY DatosEscriben DEF TodoInv
<1>3. filefd /\ path = archivo
  BY <1>2, FaseDatos
<1>4. disco' = Escrito /\ UNCHANGED <<filefd, path>>
  BY <1>2, DatosDespues
<1>5. /\ disco' = [disco EXCEPT ![archivo] = disco'[archivo]]
      /\ IsPrefix(disco[archivo], disco'[archivo])
  BY <1>2, <1>3, <1>4, EscritoEs
<1>6. archivo \in Archivos /\ Largo[archivo] \in Nat
  BY <1>2, TiposServidor
<1>7. IsPrefix(disco'[archivo], Fuente(archivo))
  <2>1. EnDatos'
    BY <1>1, <1>2 DEF EnDatos, Enviando
  <2>2. InvCopia'
    BY <2>1 DEF TodoInv, ContenidoEnOrden, ContDatos
  <2>3. /\ total_escrito' \in 0..Largo[archivo]
        /\ disco'[archivo] = SubSeq(Fuente(archivo), 1, total_escrito')
    BY <1>1, <2>2 DEF InvCopia, Escrita
  <2>4. /\ Largo[archivo] \in 0..Largo[archivo] /\ total_escrito' <= Largo[archivo]
    BY <1>6, <2>3
  <2>5. IsPrefix(SubSeq(Fuente(archivo), 1, total_escrito'),
                 SubSeq(Fuente(archivo), 1, Largo[archivo]))
    BY <1>6, <2>3, <2>4, PrefijoPrincipio
  <2>. QED  BY <1>6, <2>3, <2>5, PrincipioTodo
<1>. QED
  BY <1>1, <1>3, <1>4, <1>5, <1>6, <1>7 DEF Copia!Escribir, Copia!IsPrefix, IsPrefix

\* A step of the server.
LEMMA ServidorCopia ==
    ASSUME TodoInv, TodoInv', ServerNext, UNCHANGED clientVars
    PROVE  [Copia!Next]_(Copia!copyVars)
<1>1. UNCHANGED <<archivo, informe>>
  BY DEF clientVars
<1>2. CASE RecibirNombre
  BY <1>2, NombreCopia DEF Copia!Next
<1>3. CASE RecibirFin
  BY <1>3, FinCopia DEF Copia!Next
<1>4. CASE RecibirDatos /\ Avanza
  BY <1>4, DatosCopia DEF Copia!Next
<1>5. CASE RecibirDatos /\ ~ Avanza
  <2>1. UNCHANGED <<disco, filefd, path>>
    BY <1>5, DatosEnVentana DEF TodoInv
  <2>. QED  BY <1>1, <2>1, PasoQuieto
<1>6. CASE \/ RecibirPedidoResumen \/ ResumenSinArchivo \/ RecibirFueraDeSecuencia
           \/ TramaAjena \/ TimeoutServidor
  <2>1. UNCHANGED <<disco, filefd, path>>
    BY <1>6 DEF RecibirPedidoResumen, ResumenSinArchivo, RecibirFueraDeSecuencia,
                TramaAjena, TimeoutServidor, serverVars, archivoVars
  <2>. QED  BY <1>1, <2>1, PasoQuieto
<1>. QED
  BY <1>2, <1>3, <1>4, <1>5, <1>6 DEF ServerNext, RecibirTrama

\* The transfer is a copy that grows along the file, is closed whole and is
\* judged truthfully: every step is one of FileCopy, or none.
THEOREM TransferenciaEsCopia == Spec => ImplementaCopia
<1>1. Init => Copia!Init
  <2>. SUFFICES ASSUME Init PROVE Copia!Init
    OBVIOUS
  <2>1. /\ archivo \in Archivos /\ disco = [f \in Archivos |-> <<>>] /\ ~ filefd
        /\ informe = "ninguno"
    BY DEF Init, ClientInit, ServerInit
  <2>. QED  BY <2>1 DEF Copia!Init
<1>2. TodoInv /\ TodoInv' /\ [Next]_vars => [Copia!Next]_(Copia!copyVars)
  <2>. SUFFICES ASSUME TodoInv, TodoInv', [Next]_vars
                PROVE  [Copia!Next]_(Copia!copyVars)
    OBVIOUS
  <2>1. CASE ClientNext /\ UNCHANGED serverVars
    BY <2>1, ClienteCopia
  <2>2. CASE ServerNext /\ UNCHANGED clientVars
    BY <2>2, ServidorCopia
  <2>3. CASE Perder \/ UNCHANGED vars
    <3>1. UNCHANGED <<archivo, disco, filefd, path, informe>>
      BY <2>3 DEF Perder, vars, clientVars, serverVars, archivoVars
    <3>. QED  BY <3>1, PasoQuieto
  <2>. QED  BY <2>1, <2>2, <2>3 DEF Next
<1>. QED  BY <1>1, <1>2, TodoSiempre, PTL DEF Spec, Copia!Spec, ImplementaCopia
=============================================================================
