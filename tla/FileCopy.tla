------------------------------ MODULE FileCopy ------------------------------
(***************************************************************************)
(* What the file transfer promises, whatever the network does: a copy only *)
(* grows while it is written; the verdict on it is the truth; and for the  *)
(* files whose length suits the frames, the copy is at every moment a      *)
(* prefix of the file, is closed only when it is whole, and is approved.   *)
(***************************************************************************)
EXTENDS Integers, SequencesExt

CONSTANTS
    Nombres,    \* the files
    Contenido,  \* what each contains
    Fieles      \* those that are always copied faithfully

VARIABLES
    pedido,     \* the file the current client was asked to copy
    copia,      \* the copies
    abierta,    \* the copy being written, 0 when there is none
    veredicto   \* what the client said of the copy

copyVars == <<pedido, copia, abierta, veredicto>>

Init ==
    /\ pedido \in Nombres
    /\ copia = [f \in Nombres |-> <<>>]
    /\ abierta = 0
    /\ veredicto = "ninguno"

\* A client comes after the one before has had its verdict.
Pedir ==
    /\ veredicto # "ninguno"
    /\ pedido' \in Nombres
    /\ veredicto' = "ninguno"
    /\ UNCHANGED <<copia, abierta>>

\* A copy starts empty, and starts again only while it is empty.
Abrir ==
    /\ veredicto = "ninguno"
    /\ abierta = pedido => copia[pedido] = <<>>
    /\ abierta' = pedido
    /\ copia' = [copia EXCEPT ![pedido] = <<>>]
    /\ UNCHANGED <<pedido, veredicto>>

\* It grows, along the file if that is to be copied faithfully.
Escribir ==
    /\ abierta = pedido
    /\ copia' = [copia EXCEPT ![pedido] = copia'[pedido]]
    /\ IsPrefix(copia[pedido], copia'[pedido])
    /\ pedido \in Fieles => IsPrefix(copia'[pedido], Contenido[pedido])
    /\ UNCHANGED <<pedido, abierta, veredicto>>

\* It is closed whole.
Cerrar ==
    /\ abierta = pedido
    /\ abierta' = 0
    /\ copia' = [copia EXCEPT ![pedido] = copia'[pedido]]
    /\ IsPrefix(copia[pedido], copia'[pedido])
    /\ pedido \in Fieles => copia'[pedido] = Contenido[pedido]
    /\ UNCHANGED <<pedido, veredicto>>

Juzgar ==
    /\ abierta = 0
    /\ veredicto = "ninguno"
    /\ veredicto' = IF copia[pedido] = Contenido[pedido] THEN "correctamente"
                    ELSE "errores"
    /\ UNCHANGED <<pedido, copia, abierta>>

Next == Pedir \/ Abrir \/ Escribir \/ Cerrar \/ Juzgar

Spec == Init /\ [][Next]_copyVars
=============================================================================
