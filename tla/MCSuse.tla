-------------------------------- MODULE MCSuse --------------------------------
(***************************************************************************)
(* Instances of SuseSistema for TLC: two processes, of one to three        *)
(* threads each, on one semaphore of SEM_MAX 1.                            *)
(***************************************************************************)
EXTENDS SuseSistema, TLC

CONSTANTS pa, pb, a0, a1, a2, b0, b1, sa, sx

MCPadre == [h \in Hilo |-> IF h \in {a0, a1, a2} THEN pa ELSE pb]
MCPrincipal == [p \in Proceso |-> IF p = pa THEN a0 ELSE b0]
MCCero == [s \in Semaforo |-> 0]
MCUno == [s \in Semaforo |-> 1]

MCSimetria == Permutations({a1, a2})
===============================================================================
