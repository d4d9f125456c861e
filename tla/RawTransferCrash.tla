-------------------------- MODULE RawTransferCrash --------------------------
(***************************************************************************)
(* The file transfer when its processes stop half-way: a client is         *)
(* interrupted or dies on a send, the server is interrupted, and either is *)
(* started again.  The destination directory survives; nothing else does.  *)
(***************************************************************************)
EXTENDS RawTransfer

CONSTANT MAX_CORTES    \* processes that stop half-way in one behaviour

ASSUME CortesAssumption == MAX_CORTES \in Nat

VARIABLES
    cortes,            \* those that have stopped: a bound, not in the code
    limpio             \* the client found no 0xFF of another, nor the ACK of one,
                       \* on its way when it started: history, not in the code

crashVars == <<vars, cortes, limpio>>

Corte ==
    /\ cortes < MAX_CORTES
    /\ cortes' = cortes + 1
    /\ UNCHANGED limpio

\* sigint() of the client.
InterrumpirCliente ==
    /\ Corte
    /\ cpc # "exit"
    /\ cpc' = "exit"
    /\ UNCHANGED <<linkVars, archivo, tramoVars, cantidad_ack, ultimo, esperado,
                   huecos, informe, serverVars>>

\* A control frame finds the output buffer full: EAGAIN is not ignored here,
\* error() exits.
ErrorDeEnvio ==
    /\ Corte
    /\ cpc \in {"startOfTx", "endOfTx", "compareChecksum"}
    /\ Len(c2s) = Capacidad
    /\ cpc' = "exit"
    /\ UNCHANGED <<linkVars, archivo, tramoVars, cantidad_ack, ultimo, esperado,
                   huecos, informe, serverVars>>

\* sigint() of the server closes the file and exits; so ends, too, a server whose
\* ACK finds the output buffer full (server.c:311).
CaidaServidor ==
    /\ Corte
    /\ activo
    /\ activo' = FALSE
    /\ filefd' = FALSE
    /\ UNCHANGED <<linkVars, clientVars, ventanaVars, total_escrito, filesize,
                   path, disco, primer_paquete, origen>>

\* main() again, over the directory that is there.
ArranqueServidor ==
    /\ ~ activo
    /\ activo' = TRUE
    /\ nro_secuencia_anterior' = TOPE - 1
    /\ grilla' = GrillaVacia
    /\ resumen' = <<>>
    /\ ack_completo' = FALSE
    /\ buffer_write' = [k \in 1..LARGO_TRAMO |-> BASURA]
    /\ bytes_archivo' = 0
    /\ total_escrito' = 0
    /\ filesize' = 0
    /\ primer_paquete' = TRUE
    /\ filefd' = FALSE
    /\ path' = 0
    /\ origen' = "otro"
    /\ UNCHANGED <<linkVars, clientVars, disco, cortes, limpio>>

\* Is there a 0xFF, or the ACK of one, on its way?
NombreEnCamino ==
    \/ \E i \in 1..Len(c2s) : c2s[i].nro = FF
    \/ \E k \in 1..Len(s2c) : s2c[k].nro = FF

\* Another client may start over what an interrupted one left on the wire.
Paso ==
    /\ Next
    /\ UNCHANGED cortes
    /\ limpio' = IF cpc = "exit" /\ cpc' # "exit" THEN ~ NombreEnCamino ELSE limpio

CrashNext ==
    \/ Paso
    \/ InterrumpirCliente
    \/ ErrorDeEnvio
    \/ CaidaServidor
    \/ ArranqueServidor

CrashInit == Init /\ cortes = 0 /\ limpio = TRUE

CrashSpec == CrashInit /\ [][CrashNext]_crashVars

\* Whatever died and started again, and however often, a verdict (client.c:958
\* and 963) is the truth about the copy: unless the client took for its own the
\* ACK of a 0xFF that a client interrupted before it had sent.  The frames do not
\* say which client they are of.
VeredictoTrasCortes ==
    cpc = "exit" /\ limpio =>
        /\ informe = "correctamente" => disco[archivo] = Fuente(archivo)
        /\ informe = "errores" => disco[archivo] # Fuente(archivo)
=============================================================================
