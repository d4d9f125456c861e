\* Four files; windows of two chunks of three bytes.  An Ethernet frame holds
\* two bytes at least, so that a last chunk of one byte is padded.
CONSTANTS
    CANT_CHUNKS = 2
    CHUNK = 3
    TOPE = 8
    MIN_DATOS = 2
    Archivos = {1, 2, 3, 4}
    Largo <- LargoVario
    Capacidad = 3
SPECIFICATION Spec
INVARIANTS
    TypeOK
    SinErrorDeSecuencia
    OrdenEnElCable
    AcuerdoDeVentana
    AckVeraz
    NadaSeSuelta
    CuentaDeBytes
    CopiadoSiConservable
    InformeVeraz
PROPERTIES
    CopiaNuncaRetrocede
    ImplementaCopia
