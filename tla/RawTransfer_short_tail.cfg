\* A file that ends in a short chunk, which the Ethernet frame holds as it is.
CONSTANTS
    CANT_CHUNKS = 2
    CHUNK = 3
    TOPE = 8
    MIN_DATOS = 2
    Archivos = {1}
    Largo <- LargoConResto
    Capacidad = 2
SPECIFICATION Spec
INVARIANTS
    CopiadoConExito
