\* Short last chunks; the Ethernet frame holds two bytes at least, so that the
\* last chunk of file 1 travels as it is and that of file 2 is padded.
CONSTANTS
    CANT_CHUNKS = 2
    CHUNK = 3
    TOPE = 8
    MIN_DATOS = 2
    Archivos = {1, 2}
    Largo <- LargoConResto
    Capacidad = 2
SPECIFICATION FairSpec
PROPERTIES
    ContenidoLlega
