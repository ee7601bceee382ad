------------------------------ MODULE SuseSistema -----------------------------
(***************************************************************************)
(* The SUSE server together with its client processes, and the properties  *)
(* of the whole.                                                           *)
(***************************************************************************)
EXTENDS Suse, Hilolay

vars == <<conexion, servidor, hilolay>>

Init == ConexionInit /\ SuseInit /\ HilolayInit

Servidor(p) == atenderConexion(p) /\ UNCHANGED hilolay
Cliente(p) == (Programa(p) \/ Biblioteca(p)) /\ UNCHANGED servidor

Next == \E p \in Proceso : Servidor(p) \/ Cliente(p)

Spec == Init /\ [][Next]_vars

(* The server thread of a connection and the library code of a process keep  *)
(* running; nothing is assumed of what the program calls.                    *)
Fairness ==
  \A p \in Proceso :
    /\ WF_vars(Servidor(p))
    /\ WF_vars(Biblioteca(p) /\ UNCHANGED servidor)

FairSpec == Spec /\ Fairness

TypeOK == ConexionTipo /\ SuseTipo /\ HilolayTipo

-------------------------------------------------------------------------------
(* Semaphores *)

(* Threads queue on a semaphore only while its value is 0, and the value     *)
(* stays between 0 and SEM_MAX.                                              *)
SemaforoConsistente ==
  \A s \in Semaforo :
    /\ cola[s] # <<>> => current_value[s] = 0
    /\ current_value[s] <= ValorMaximo[s]

-------------------------------------------------------------------------------
(* Threads and lists *)

Lista == {"running_thread", "ready", "g_new_threads", "g_blocked_threads", "g_exit_threads"}

(* Where h is; running_thread counts as a place while the thread is RUNNING. *)
Lugares(h) ==
  (IF estado[h] = "RUNNING" /\ running_thread[padre[h]] = h THEN {"running_thread"} ELSE {})
  \cup (IF h \in ready[padre[h]] THEN {"ready"} ELSE {})
  \cup (IF h \in Elementos(g_new_threads) THEN {"g_new_threads"} ELSE {})
  \cup (IF h \in g_blocked_threads THEN {"g_blocked_threads"} ELSE {})
  \cup (IF h \in g_exit_threads THEN {"g_exit_threads"} ELSE {})

(* A thread the server knows is in exactly one place: running, in its        *)
(* process's ready list, NEW, blocked or ended; no handler loses one or      *)
(* leaves it in two lists.                                                   *)
UnSoloLugar ==
  \A h \in Hilo :
    IF estado[h] = "SIN_CREAR" THEN Lugares(h) = {} ELSE \E l \in Lista : Lugares(h) = {l}

SinRepetidos(seq) == \A i, j \in DOMAIN seq : seq[i] = seq[j] => i = j

(* What h waits for: semaphores and threads. *)
Esperas(h) ==
  {s \in Semaforo : h \in Elementos(cola[s])}
  \cup {t \in Hilo : h \in threads_bloqueados[t]}

(* A blocked thread waits for exactly one thing, which can still happen: it  *)
(* is once in the queue of one semaphore, or among the joiners of one thread *)
(* that has not ended (a join after a close is not lost).  No other thread   *)
(* waits: what a signal or a close releases was blocked.                     *)
EsperaUnica ==
  /\ \A h \in Hilo :
       IF h \in g_blocked_threads
       THEN \E e \in Semaforo \cup Hilo : Esperas(h) = {e} ELSE Esperas(h) = {}
  /\ \A s \in Semaforo : SinRepetidos(cola[s])
  /\ \A t \in Hilo : estado[t] = "EXIT" => threads_bloqueados[t] = {}

-------------------------------------------------------------------------------
(* Admission *)

(* Threads that hold one admission: every one past NEW that is not main.     *)
Admitidos ==
  {h \in Hilo : /\ estado[h] \in {"READY", "RUNNING", "BLOCKED"}
                /\ h # principal[padre[h]]}

(* The admissions left and the admitted threads add up to MAX_MULTIPROG.     *)
MultiprogConservado == g_multiprog_max + Cardinality(Admitidos) = MaxMultiprog

(* A thread waits in NEW only while there is no admission left: no creation  *)
(* overtakes it, and no close frees an admission past it.                    *)
NewSoloSinLugar == g_new_threads # <<>> => g_multiprog_max = 0

-------------------------------------------------------------------------------
(* The protocol between library and server *)

(* At most one response is on its way to a process, it answers the operation *)
(* the process waits for, and a schedule_next names a thread it knows.       *)
RespuestaCorresponde ==
  \A p \in Proceso :
    /\ Len(respuesta[p]) <= 1
    /\ respuesta[p] # <<>> =>
         LET r == Head(respuesta[p])
         IN \/ fase[p] = "HANDSHAKE" /\ r.op = "SUSE_GRADO_MULTIPROG"
            \/ /\ r.op = fase[p]
               /\ fase[p] = "SUSE_SCHEDULE_NEXT" => r.valor \in ults[p]

(* While a process runs user code and the server has read all it sent, both  *)
(* agree on which thread runs.                                               *)
MismoHilo ==
  \A p \in Proceso :
    fase[p] = "corriendo" /\ pedido[p] = <<>> =>
      /\ running_thread[p] = current_ult[p]
      /\ estado[current_ult[p]] = "RUNNING"

(* The early returns for a process without a running thread are never taken, *)
(* and a wait or a join never uses a NULL running thread: nobody asks for    *)
(* anything while it has none, nor did a dead process whose requests the     *)
(* server still serves.                                                      *)
SinNulos ==
  \A p \in Proceso : etapa[p] = "bucle" /\ pedido[p] # <<>> => running_thread[p] # Nulo

(* What the comment on find_thread_by_tid_in_parent (SUSE.c:26) says of a    *)
(* join, that it does not look for a thread in NEW: then nobody would ever   *)
(* be among the joiners of such a thread.  The code looks there, last (345), *)
(* and this does not hold.                                                   *)
NoSeBuscaEnNew == \A h \in Elementos(g_new_threads) : threads_bloqueados[h] = {}

(* A process without a running thread is waiting for a schedule_next.        *)
SinRunningEspera ==
  \A p \in Proceso :
    etapa[p] = "bucle" /\ running_thread[p] = Nulo /\ p \in abierto =>
      fase[p] = "SUSE_SCHEDULE_NEXT" /\ pedido[p] = <<>> /\ respuesta[p] = <<>>

-------------------------------------------------------------------------------
(* The inductive invariant behind the properties above.                      *)

Pide(p, i, op) == pedido[p][i].op = op

(* What p has buffered towards the server: creations of new threads, and at  *)
(* most one other request, which is the last one.                            *)
InvPedido(p) ==
  \A i \in DOMAIN pedido[p] :
    /\ i # Len(pedido[p]) => Pide(p, i, "SUSE_CREATE")
    /\ Pide(p, i, "SUSE_CREATE") =>
         /\ pedido[p][i].arg \in ults[p]
         /\ estado[pedido[p][i].arg] = "SIN_CREAR"
         /\ \A j \in DOMAIN pedido[p] :
              Pide(p, j, "SUSE_CREATE") /\ pedido[p][j].arg = pedido[p][i].arg => j = i
    /\ Pide(p, i, "SUSE_JOIN") => pedido[p][i].arg \in ults[p]

(* The process waits for a response: its request is still buffered, or the   *)
(* response is on its way, or it is left without a running thread.           *)
Pendiente(p) ==
  pedido[p] # <<>> /\ Pide(p, Len(pedido[p]), fase[p]) /\ respuesta[p] = <<>>

Respondido(p) ==
  /\ pedido[p] = <<>> /\ etapa[p] = "bucle" /\ running_thread[p] # Nulo
  /\ Len(respuesta[p]) = 1 /\ respuesta[p][1].op = fase[p]
  /\ fase[p] = "SUSE_SCHEDULE_NEXT" =>
       respuesta[p][1].valor = running_thread[p] /\ estado[running_thread[p]] = "RUNNING"

SinNadaQueEjecutar(p) ==
  /\ fase[p] = "SUSE_SCHEDULE_NEXT" /\ etapa[p] = "bucle"
  /\ pedido[p] = <<>> /\ respuesta[p] = <<>> /\ running_thread[p] = Nulo

(* What each phase of the client implies.                                    *)
InvFase(p) ==
  /\ p \in abierto <=> fase[p] \notin {"sin_conectar", "terminado"}
  /\ fase[p] \in {"sin_conectar", "HANDSHAKE"} <=> ults[p] = {}
  /\ fase[p] \in {"sin_conectar", "terminado"} => respuesta[p] = <<>>
  /\ fase[p] = "sin_conectar" => etapa[p] = "handshake" /\ pedido[p] = <<>>
  /\ fase[p] = "HANDSHAKE" =>
       \/ /\ etapa[p] = "handshake" /\ Len(pedido[p]) = 1
          /\ Pide(p, 1, "HANDSHAKE") /\ respuesta[p] = <<>>
       \/ /\ etapa[p] = "create_main" /\ pedido[p] = <<>>
          /\ Len(respuesta[p]) = 1 /\ respuesta[p][1].op = "SUSE_GRADO_MULTIPROG"
  /\ fase[p] = "corriendo" =>
       /\ respuesta[p] = <<>>
       /\ current_ult[p] # Nulo
       /\ \A i \in DOMAIN pedido[p] : Pide(p, i, "SUSE_CREATE")
       /\ etapa[p] = "create_main" => current_ult[p] = principal[p]
       /\ etapa[p] = "bucle" =>
            running_thread[p] = current_ult[p] /\ estado[current_ult[p]] = "RUNNING"
  /\ fase[p] \in OpConRespuesta => Pendiente(p) \/ Respondido(p) \/ SinNadaQueEjecutar(p)

(* What each stage of the server's thread implies.                           *)
InvEtapa(p) ==
  /\ etapa[p] = "handshake" <=> fase[p] \in {"sin_conectar", "HANDSHAKE"} /\ respuesta[p] = <<>>
  /\ etapa[p] \in {"handshake", "create_main"} =>
       \A h \in Hilo : padre[h] = p => estado[h] = "SIN_CREAR"
  /\ etapa[p] = "create_main" /\ fase[p] # "HANDSHAKE" =>
       pedido[p] # <<>> /\ pedido[p][1] = [op |-> "SUSE_CREATE", arg |-> principal[p]]
  /\ etapa[p] \in {"bucle", "cerrada"} =>
       /\ fase[p] \notin {"sin_conectar", "HANDSHAKE"}
       /\ estado[principal[p]] # "SIN_CREAR"
  /\ etapa[p] = "bucle" /\ pedido[p] # <<>> =>
       /\ running_thread[p] # Nulo
       /\ ~ Pide(p, 1, "SUSE_SCHEDULE_NEXT") => estado[running_thread[p]] = "RUNNING"
  /\ etapa[p] = "cerrada" => fase[p] = "terminado" /\ pedido[p] = <<>>
  /\ \A h \in ults[p] :
       /\ padre[h] = p
       /\ estado[h] = "SIN_CREAR" =>
            \E i \in DOMAIN pedido[p] : pedido[p][i] = [op |-> "SUSE_CREATE", arg |-> h]

(* Which list holds a thread, by its estado.  A thread that a close released *)
(* from a join stays BLOCKED in the ready list until it runs.                *)
InvLista(h) ==
  /\ estado[h] = "RUNNING" => running_thread[padre[h]] = h
  /\ estado[h] = "READY" => h \in ready[padre[h]]
  /\ estado[h] = "BLOCKED" => h \in g_blocked_threads \cup ready[padre[h]]
  /\ h \in ready[padre[h]] => estado[h] \in {"READY", "BLOCKED"} /\ h \notin g_blocked_threads
  /\ h \in g_blocked_threads => estado[h] = "BLOCKED"
  /\ estado[h] = "NEW" <=> h \in Elementos(g_new_threads)
  /\ estado[h] = "NEW" => h # principal[padre[h]]
  /\ estado[h] = "EXIT" <=> h \in g_exit_threads
  /\ estado[h] # "SIN_CREAR" => h \in ults[padre[h]]

InvPropias ==
  /\ \A p \in Proceso : running_thread[p] # Nulo => padre[running_thread[p]] = p
  /\ \A p \in Proceso : \A h \in ready[p] : padre[h] = p
  /\ SinRepetidos(g_new_threads)

InvProtocolo == \A p \in Proceso : InvPedido(p) /\ InvFase(p) /\ InvEtapa(p)
InvListas == InvPropias /\ \A h \in Hilo : InvLista(h)

Invariante ==
  /\ TypeOK
  /\ InvProtocolo
  /\ InvListas
  /\ EsperaUnica
  /\ SemaforoConsistente
  /\ MultiprogConservado
  /\ NewSoloSinLugar

-------------------------------------------------------------------------------
(* Action properties *)

CambiosDeEstado ==
  {<<"SIN_CREAR", "RUNNING">>, <<"SIN_CREAR", "NEW">>, <<"SIN_CREAR", "READY">>,
   <<"NEW", "READY">>, <<"READY", "RUNNING">>, <<"RUNNING", "READY">>,
   <<"RUNNING", "BLOCKED">>, <<"BLOCKED", "READY">>, <<"BLOCKED", "RUNNING">>,
   <<"RUNNING", "EXIT">>}

(* A thread moves along the life cycle only: it never runs from NEW, never   *)
(* comes back from EXIT, and blocks or ends only while it runs.              *)
CicloDeVida ==
  [][\A h \in Hilo : estado'[h] # estado[h]
       => <<estado[h], estado'[h]>> \in CambiosDeEstado]_vars

(* A process that waits in schedule_next, with threads in its ready list:    *)
(* it stays so until another process signals one of its threads.             *)
Parado(p) == etapa[p] = "bucle" /\ running_thread[p] = Nulo /\ ready[p] # {}

(* Only a close that admits the first NEW thread of an idle process leaves   *)
(* it so (SUSE.c:216): schedule_next, the release of joiners, a signal and   *)
(* the death of anybody do not, whatever they find in the lists.             *)
ParoSoloPorAdmision ==
  [][\A p \in Proceso : Parado(p)' /\ ~ Parado(p) =>
       /\ running_thread[p] = Nulo /\ g_new_threads # <<>>
       /\ padre[Head(g_new_threads)] = p /\ g_new_threads' = Tail(g_new_threads)]_vars

-------------------------------------------------------------------------------
(* Liveness *)

(* Every request but schedule_next is answered: no handler returns without   *)
(* a response, and none is sent to the wrong process.                        *)
RespuestaLlega ==
  \A p \in Proceso : \A op \in OpConRespuesta \ {"SUSE_SCHEDULE_NEXT"} :
    fase[p] = op ~> fase[p] # op

(* A process that waits in schedule_next while one of its threads is ready   *)
(* gets an answer: whoever makes a thread ready also wakes its process.      *)
ListoCorre ==
  \A p \in Proceso :
    fase[p] = "SUSE_SCHEDULE_NEXT" /\ ready[p] # {} ~> fase[p] # "SUSE_SCHEDULE_NEXT"

(* The server serves what an ended process had sent, and then closes its     *)
(* side of the connection.                                                   *)
LimpiezaLlega ==
  \A p \in Proceso : fase[p] = "terminado" ~> etapa[p] = "cerrada"
===============================================================================
