\* Two short files, chunks of one byte, both processes may stop and start.
CONSTANTS
    CANT_CHUNKS = 2
    CHUNK = 1
    TOPE = 8
    MIN_DATOS = 1
    Archivos = {1, 2}
    Largo <- LargoCorto
    Capacidad = 2
    MAX_CORTES = 2
SPECIFICATION CrashSpec
INVARIANTS
    VeredictoTrasCortes
