--------------------------- MODULE MCSuseConcurrente --------------------------
(***************************************************************************)
(* Instances of SuseConcurrente for TLC.  Which programs the processes run *)
(* is chosen at the start: two that compete for one semaphore and for one  *)
(* admission, or three of which two release threads of the third; and, one *)
(* for each race between two requests, two that make just these.           *)
(***************************************************************************)
EXTENDS SuseConcurrente, TLC

CONSTANTS
  pa, pb, pc0, a0, a1, a2, b0, b1, c0, sa, sb, sc,
  Programas            \* the choices of programs, each a function from processes to requests

VARIABLE programas   \* which programs are run

MCPadre == [h \in Hilo |-> IF h \in {a0, a1, a2} THEN pa ELSE IF h = c0 THEN pc0 ELSE pb]
MCPrincipal == [p \in Proceso |-> IF p = pa THEN a0 ELSE IF p = pb THEN b0 ELSE c0]
MCCero == [s \in Semaforo |-> 0]
MCUno == [s \in Semaforo |-> 1]

Pide0(ops, args) == [op : ops, arg : args]
Yield == Pide0({"SUSE_SCHEDULE_NEXT"}, {Nulo})

(* pa does everything with two threads; pb signals, and competes with it for *)
(* the admission; pc0 is not run.  No semaphore has the name sc.             *)
MCMezcla ==
  [p \in {pa, pb} |->
    IF p = pa THEN Pide0({"SUSE_WAIT"}, {sa, sc}) \cup Pide0({"SUSE_SIGNAL"}, {sc}) \cup Yield
                     \cup Pide0({"SUSE_CREATE", "SUSE_JOIN", "SUSE_CLOSE"}, {a1})
    ELSE Pide0({"SUSE_SIGNAL"}, {sa}) \cup Pide0({"SUSE_CREATE", "SUSE_CLOSE"}, {b1})]

(* pa waits and pb signals. *)
MCEsperaYSenal ==
  [p \in {pa, pb} |-> Pide0({IF p = pa THEN "SUSE_WAIT" ELSE "SUSE_SIGNAL"}, {sa})]

(* pa waits on both semaphores, pb signals one of them and pc0 the other. *)
MCDosSemaforos ==
  [p \in {pa, pb, pc0} |->
    IF p = pa THEN Pide0({"SUSE_WAIT"}, {sa, sb}) \cup Pide0({"SUSE_CREATE"}, {a1})
    ELSE Pide0({"SUSE_SIGNAL"}, IF p = pb THEN {sa} ELSE {sb})]

(* pa and pb signal the same semaphore. *)
MCDosSenales == [p \in {pa, pb} |-> Pide0({"SUSE_SIGNAL"}, {sa})]

(* pa and pb create a thread each. *)
MCDosCreaciones ==
  [p \in {pa, pb} |-> Pide0({"SUSE_CREATE"}, {IF p = pa THEN a1 ELSE b1})]

(* Both create threads, one more than there are admissions, and end one each. *)
MCDosCierres ==
  [p \in {pa, pb} |->
    Yield \cup IF p = pa
                THEN Pide0({"SUSE_CREATE"}, {a1, a2}) \cup Pide0({"SUSE_CLOSE"}, {a1})
                ELSE Pide0({"SUSE_CREATE", "SUSE_CLOSE"}, {b1})]

(* pa joins a thread that the close of pb may be admitting. *)
MCJoinYCierre ==
  [p \in {pa, pb} |->
    IF p = pa THEN Pide0({"SUSE_CREATE", "SUSE_JOIN"}, {a1})
    ELSE Yield \cup Pide0({"SUSE_CREATE", "SUSE_CLOSE"}, {b1})]

MCSenales == {MCDosSenales}
MCCreaciones == {MCDosCreaciones}
MCCierres == {MCDosCierres}
MCJoin == {MCJoinYCierre}
MCDosElecciones == {MCMezcla, MCDosSemaforos}
MCUnaEleccion == {MCEsperaYSenal}

MCLlamadas ==
  [p \in Proceso |-> UNION {ps[p] : ps \in {x \in Programas : p \in DOMAIN x}}]

InitMC == InitC /\ programas \in Programas

(* A step of the system in which a client does what its program may do. *)
ClienteMC(p) ==
  /\ p \in DOMAIN programas
  /\ ClienteC(p)
  /\ fase[p] = "corriendo" /\ pedido'[p] # pedido[p] =>
       pedido'[p][Len(pedido'[p])] \in programas[p]

NextMC == (\E p \in Proceso : ServidorC(p) \/ ClienteMC(p)) /\ UNCHANGED programas

SpecMC == InitMC /\ [][NextMC]_<<varsC, programas>>

(* With the fairness of FairSpecC. *)
FairSpecMC ==
  /\ SpecMC
  /\ \A p \in Proceso :
       /\ WF_varsC(ServidorC(p) /\ UNCHANGED programas)
       /\ WF_varsC(Biblioteca(p) /\ ClienteMC(p) /\ UNCHANGED programas)

(* Once two signals raced past SEM_MAX, the comparison with == never stops   *)
(* another one and the value has no bound: one over the maximum is enough.   *)
ExcesoAcotado == \A s \in Semaforo : current_value[s] <= ValorMaximo[s] + 1
===============================================================================
