\* The comparison of the digests, under the fairness of RawTransfer_live.
CONSTANTS
    CANT_CHUNKS = 2
    CHUNK = 1
    TOPE = 8
    MIN_DATOS = 1
    Archivos = {1}
    Largo <- LargoVivo
    Capacidad = 2
SPECIFICATION FairSpec
PROPERTIES
    ResumenComparado
