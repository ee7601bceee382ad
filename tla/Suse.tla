--------------------------------- MODULE Suse ---------------------------------
(***************************************************************************)
(* The SUSE server: a scheduler of user level threads (ULTs) of several    *)
(* processes, with counting semaphores the processes share and a global    *)
(* bound on the number of admitted threads (SUSE/src/SUSE.c).              *)
(*                                                                         *)
(* One action per request handler.  A handler is one step here; module     *)
(* SuseConcurrente splits the handlers at the points where the server's    *)
(* threads really interleave.                                              *)
(*                                                                         *)
(* Lists whose order the code does not rely on are sets: the ready list is *)
(* sorted on every schedule_next by an index that uses alpha_sjf, a field  *)
(* iniciar_config never assigns, so that any order may result; the blocked *)
(* and exit lists are only searched.  The NEW queue and the queues of the  *)
(* semaphores are FIFO and keep their order.                               *)
(***************************************************************************)
EXTENDS Conexion

CONSTANTS
  Semaforo,       \* the names in SEM_IDS
  ValorInicial,   \* SEM_INIT
  ValorMaximo,    \* SEM_MAX
  MaxMultiprog    \* MAX_MULTIPROG

ASSUME ConfigAssumption ==
  /\ Semaforo \subseteq Nombre
  /\ ValorInicial \in [Semaforo -> Nat]
  /\ ValorMaximo \in [Semaforo -> Nat]
  /\ \A s \in Semaforo : ValorInicial[s] <= ValorMaximo[s]
  /\ MaxMultiprog \in Nat

VARIABLES
  etapa,              \* where atenderConexion is for each connection
  estado,             \* t_client_thread_suse.estado
  threads_bloqueados, \* t_client_thread_suse.threads_bloqueados (its joiners)
  running_thread,     \* t_client_suse.running_thread
  ready,              \* t_client_suse.ready
  g_new_threads, g_blocked_threads, g_exit_threads,
  current_value,      \* t_semaforo_suse.current_value
  cola,               \* t_semaforo_suse.threads_bloquedos
  g_multiprog_max     \* admissions left

listas == <<estado, threads_bloqueados, running_thread, ready,
            g_new_threads, g_blocked_threads, g_exit_threads>>
semaforos == <<current_value, cola>>
servidor == <<etapa, listas, semaforos, g_multiprog_max>>

Estado == {"SIN_CREAR", "NEW", "READY", "RUNNING", "BLOCKED", "EXIT"}
Etapa == {"handshake", "create_main", "bucle", "cerrada"}

(* Numbers a response carries instead of a tid. *)
OK == 0
EINVAL == -22
EOVERFLOW == -75

SuseTipo ==
  /\ etapa \in [Proceso -> Etapa]
  /\ estado \in [Hilo -> Estado]
  /\ threads_bloqueados \in [Hilo -> SUBSET Hilo]
  /\ running_thread \in [Proceso -> Hilo \cup {Nulo}]
  /\ ready \in [Proceso -> SUBSET Hilo]
  /\ g_new_threads \in Seq(Hilo)
  /\ g_blocked_threads \subseteq Hilo
  /\ g_exit_threads \subseteq Hilo
  /\ current_value \in [Semaforo -> Nat]
  /\ cola \in [Semaforo -> Seq(Hilo)]
  /\ g_multiprog_max \in Nat

SuseInit ==
  /\ etapa = [p \in Proceso |-> "handshake"]
  /\ estado = [h \in Hilo |-> "SIN_CREAR"]
  /\ threads_bloqueados = [h \in Hilo |-> {}]
  /\ running_thread = [p \in Proceso |-> Nulo]
  /\ ready = [p \in Proceso |-> {}]
  /\ g_new_threads = <<>>
  /\ g_blocked_threads = {}
  /\ g_exit_threads = {}
  /\ current_value = ValorInicial
  /\ cola = [s \in Semaforo |-> <<>>]
  /\ g_multiprog_max = MaxMultiprog

Responder(p, op, valor) == respuesta' = enviarPaquetes(respuesta, p, op, valor)

-------------------------------------------------------------------------------
(* Lists *)

Elementos(seq) == {seq[i] : i \in DOMAIN seq}

(* The comment at SUSE.c:26 says that NEW is not searched; line 345 does it. *)
(* The search order of the code does not matter: a thread is one record.     *)
find_thread_by_tid_in_parent(p, h) ==
  IF \/ h = running_thread[p]
     \/ h \in ready[p] \cup g_exit_threads \cup g_blocked_threads
     \/ h \in Elementos(g_new_threads)
  THEN h ELSE Nulo

(* list_add( h->proceso_padre->ready, h ) for every h of a set. *)
AgregarAReady(hilos) ==
  [p \in Proceso |-> ready[p] \cup {h \in hilos : padre[h] = p}]

(* trancisionar_bloqueado_a_ready, iterated over a list: the threads change  *)
(* lists, their estado does not change here.                                 *)
trancisionar_bloqueado_a_ready(hilos) ==
  /\ g_blocked_threads' = g_blocked_threads \ hilos
  /\ ready' = AgregarAReady(hilos)

-------------------------------------------------------------------------------
(* The connection's own steps (atenderConexion) *)

enviarMultiProg(p) ==
  /\ etapa[p] = "handshake"
  /\ Recibido(p, "HANDSHAKE", Nulo)
  /\ ConsumirPedido(p)
  /\ Responder(p, "SUSE_GRADO_MULTIPROG", g_multiprog_max)
  /\ etapa' = [etapa EXCEPT ![p] = "create_main"]
  /\ UNCHANGED <<abierto, listas, semaforos, g_multiprog_max>>

(* procesarThreadCreate with is_main_thread = 1 *)
esperarPaqueteCreateMain(p) ==
  /\ etapa[p] = "create_main"
  /\ Recibido(p, "SUSE_CREATE", principal[p])
  /\ ConsumirPedido(p)
  /\ etapa' = [etapa EXCEPT ![p] = "bucle"]
  /\ estado' = [estado EXCEPT ![principal[p]] = "RUNNING"]
  /\ running_thread' = [running_thread EXCEPT ![p] = principal[p]]
  /\ UNCHANGED <<respuesta, abierto, threads_bloqueados, ready, g_new_threads,
                 g_blocked_threads, g_exit_threads, semaforos, g_multiprog_max>>

(* Mutant of CerrarConexion: the ready list is emptied, its threads are kept. *)
CerrarVaciandoReady(p) ==
  /\ etapa[p] = "bucle"
  /\ FinDeConexion(p)
  /\ etapa' = [etapa EXCEPT ![p] = "cerrada"]
  /\ ready' = [ready EXCEPT ![p] = {}]
  /\ UNCHANGED <<conexion, estado, threads_bloqueados, running_thread, g_new_threads,
                 g_blocked_threads, g_exit_threads, semaforos, g_multiprog_max>>

(* The end of the connection removes the process from g_running_procs and    *)
(* nothing else: its threads stay wherever they are.                         *)
CerrarConexion(p) ==
  /\ etapa[p] = "bucle"
  /\ FinDeConexion(p)
  /\ etapa' = [etapa EXCEPT ![p] = "cerrada"]
  /\ UNCHANGED <<conexion, listas, semaforos, g_multiprog_max>>

(* Mutant of Atender: what an ended process had sent is not served. *)
AtenderSoloAbiertos(p, op, arg) ==
  /\ etapa[p] = "bucle"
  /\ p \in abierto
  /\ Recibido(p, op, arg)
  /\ ConsumirPedido(p)
  /\ UNCHANGED <<abierto, etapa>>

(* What every handler of procesarPaqueteLibSuse does first. *)
Atender(p, op, arg) ==
  /\ etapa[p] = "bucle"
  /\ Recibido(p, op, arg)
  /\ ConsumirPedido(p)
  /\ UNCHANGED <<abierto, etapa>>

-------------------------------------------------------------------------------
(* suse_create of a thread other than the main one: no response *)

(* Mutant of HayLugar: the bound is off by one. *)
HayLugarDeMas == g_multiprog_max >= 0

HayLugar == g_multiprog_max > 0

AdmitirThread(p, h) ==
  /\ HayLugar
  /\ estado' = [estado EXCEPT ![h] = "READY"]
  /\ ready' = [ready EXCEPT ![p] = @ \cup {h}]
  /\ g_multiprog_max' = g_multiprog_max - 1
  /\ UNCHANGED g_new_threads

EncolarThread(p, h) ==
  /\ ~ HayLugar
  /\ estado' = [estado EXCEPT ![h] = "NEW"]
  /\ g_new_threads' = Append(g_new_threads, h)
  /\ UNCHANGED <<ready, g_multiprog_max>>

procesarThreadCreate(p, h) ==
  /\ Atender(p, "SUSE_CREATE", h)
  /\ AdmitirThread(p, h) \/ EncolarThread(p, h)
  /\ UNCHANGED <<respuesta, threads_bloqueados, running_thread,
                 g_blocked_threads, g_exit_threads, semaforos>>

-------------------------------------------------------------------------------
(* suse_close: the running thread ends.  Its joiners become ready, and its   *)
(* admission goes to the oldest NEW thread, whichever process it is of.  The *)
(* main thread never took an admission and returns none.                     *)

(* Mutants of LiberarAdmision: main returns an admission it never took; the  *)
(* admission is freed although a NEW thread waits for it.                    *)
LiberarTambienDeMain(h, despertados) ==
  IF g_new_threads = <<>>
  THEN /\ estado' = [estado EXCEPT ![h] = "EXIT"]
       /\ ready' = AgregarAReady(despertados)
       /\ g_multiprog_max' = g_multiprog_max + 1
       /\ UNCHANGED g_new_threads
  ELSE /\ estado' = [estado EXCEPT ![h] = "EXIT", ![Head(g_new_threads)] = "READY"]
       /\ ready' = AgregarAReady(despertados \cup {Head(g_new_threads)})
       /\ g_new_threads' = Tail(g_new_threads)
       /\ UNCHANGED g_multiprog_max

LiberarSinMirarNew(h, despertados) ==
  /\ estado' = [estado EXCEPT ![h] = "EXIT"]
  /\ ready' = AgregarAReady(despertados)
  /\ g_multiprog_max' = IF h = principal[padre[h]] THEN g_multiprog_max ELSE g_multiprog_max + 1
  /\ UNCHANGED g_new_threads

LiberarAdmision(h, despertados) ==
  IF h = principal[padre[h]]
  THEN /\ estado' = [estado EXCEPT ![h] = "EXIT"]
       /\ ready' = AgregarAReady(despertados)
       /\ UNCHANGED <<g_new_threads, g_multiprog_max>>
  ELSE IF g_new_threads = <<>>
  THEN /\ estado' = [estado EXCEPT ![h] = "EXIT"]
       /\ ready' = AgregarAReady(despertados)
       /\ g_multiprog_max' = g_multiprog_max + 1
       /\ UNCHANGED g_new_threads
  ELSE /\ estado' = [estado EXCEPT ![h] = "EXIT", ![Head(g_new_threads)] = "READY"]
       /\ ready' = AgregarAReady(despertados \cup {Head(g_new_threads)})
       /\ g_new_threads' = Tail(g_new_threads)
       /\ UNCHANGED g_multiprog_max

(* Mutant of CerrarThread: the list of joiners is not emptied. *)
CerrarSinListClean(h) ==
  /\ g_exit_threads' = g_exit_threads \cup {h}
  /\ g_blocked_threads' = g_blocked_threads \ threads_bloqueados[h]
  /\ UNCHANGED threads_bloqueados
  /\ LiberarAdmision(h, threads_bloqueados[h])

CerrarThread(h) ==
  /\ g_exit_threads' = g_exit_threads \cup {h}
  /\ g_blocked_threads' = g_blocked_threads \ threads_bloqueados[h]
  /\ threads_bloqueados' = [threads_bloqueados EXCEPT ![h] = {}]
  /\ LiberarAdmision(h, threads_bloqueados[h])

procesarThreadClose(p) ==
  /\ \E h \in Hilo : Atender(p, "SUSE_CLOSE", h)
  /\ IF running_thread[p] = Nulo
     THEN /\ Responder(p, "SUSE_CLOSE", EINVAL)
          /\ UNCHANGED <<listas, g_multiprog_max>>
     ELSE /\ Responder(p, "SUSE_CLOSE", OK)
          /\ CerrarThread(running_thread[p])
          /\ UNCHANGED running_thread
  /\ UNCHANGED semaforos

-------------------------------------------------------------------------------
(* suse_join: nothing happens when the thread already ended *)

BloquearPorJoin(h, objetivo) ==
  /\ estado' = [estado EXCEPT ![h] = "BLOCKED"]
  /\ g_blocked_threads' = g_blocked_threads \cup {h}
  /\ threads_bloqueados' = [threads_bloqueados EXCEPT ![objetivo] = @ \cup {h}]

procesarThreadJoin(p, tid_to_join) ==
  /\ Atender(p, "SUSE_JOIN", tid_to_join)
  /\ IF running_thread[p] = Nulo
     THEN /\ Responder(p, "SUSE_JOIN", EINVAL)
          /\ UNCHANGED <<estado, g_blocked_threads, threads_bloqueados>>
     ELSE /\ Responder(p, "SUSE_JOIN", OK)
          /\ IF tid_to_join \in g_exit_threads
             THEN UNCHANGED <<estado, g_blocked_threads, threads_bloqueados>>
             ELSE BloquearPorJoin(running_thread[p],
                                  find_thread_by_tid_in_parent(p, tid_to_join))
  /\ UNCHANGED <<running_thread, ready, g_new_threads, g_exit_threads,
                 semaforos, g_multiprog_max>>

-------------------------------------------------------------------------------
(* suse_schedule_next: the running thread goes back to ready unless a wait,  *)
(* a join or a close took it out of RUNNING, and some ready thread is next.  *)
(* With none ready the process is left without a running thread and without  *)
(* an answer.                                                                *)

Candidatos(p) ==
  IF estado[running_thread[p]] = "RUNNING"
  THEN ready[p] \cup {running_thread[p]} ELSE ready[p]

(* Mutant of PonerARunning: the next thread stays in the ready list. *)
PonerSinQuitarDeReady(p, h) ==
  /\ running_thread' = [running_thread EXCEPT ![p] = h]
  /\ ready' = [ready EXCEPT ![p] = Candidatos(p)]
  /\ estado' = [[t \in Hilo |->
                  IF t = running_thread[p] /\ estado[t] = "RUNNING"
                  THEN "READY" ELSE estado[t]] EXCEPT ![h] = "RUNNING"]
  /\ Responder(p, "SUSE_SCHEDULE_NEXT", h)

PonerARunning(p, h) ==
  /\ running_thread' = [running_thread EXCEPT ![p] = h]
  /\ ready' = [ready EXCEPT ![p] = Candidatos(p) \ {h}]
  /\ estado' = [[t \in Hilo |->
                  IF t = running_thread[p] /\ estado[t] = "RUNNING"
                  THEN "READY" ELSE estado[t]] EXCEPT ![h] = "RUNNING"]
  /\ Responder(p, "SUSE_SCHEDULE_NEXT", h)

(* Mutant of QuedarSinRunning: an error is answered instead of nothing. *)
QuedarSinRunningConError(p) ==
  /\ running_thread' = [running_thread EXCEPT ![p] = Nulo]
  /\ Responder(p, "SUSE_SCHEDULE_NEXT", EINVAL)
  /\ UNCHANGED <<ready, estado>>

QuedarSinRunning(p) ==
  /\ running_thread' = [running_thread EXCEPT ![p] = Nulo]
  /\ UNCHANGED <<respuesta, ready, estado>>

procesarThreadScheduleNext(p) ==
  /\ Atender(p, "SUSE_SCHEDULE_NEXT", Nulo)
  /\ IF running_thread[p] = Nulo
     THEN /\ Responder(p, "SUSE_SCHEDULE_NEXT", EINVAL)
          /\ UNCHANGED <<running_thread, ready, estado>>
     ELSE \/ \E h \in Candidatos(p) : PonerARunning(p, h)
          \/ Candidatos(p) = {} /\ QuedarSinRunning(p)
  /\ UNCHANGED <<threads_bloqueados, g_new_threads, g_blocked_threads,
                 g_exit_threads, semaforos, g_multiprog_max>>

-------------------------------------------------------------------------------
(* suse_wait and suse_signal *)

procesarSemWait(p, s) ==
  /\ Atender(p, "SUSE_WAIT", s)
  /\ IF s \notin Semaforo
     THEN /\ Responder(p, "SUSE_WAIT", EINVAL)
          /\ UNCHANGED <<estado, g_blocked_threads, semaforos>>
     ELSE /\ Responder(p, "SUSE_WAIT", OK)
          /\ IF current_value[s] = 0
             THEN /\ estado' = [estado EXCEPT ![running_thread[p]] = "BLOCKED"]
                  /\ cola' = [cola EXCEPT ![s] = Append(@, running_thread[p])]
                  /\ g_blocked_threads' = g_blocked_threads \cup {running_thread[p]}
                  /\ UNCHANGED current_value
             ELSE /\ current_value' = [current_value EXCEPT ![s] = @ - 1]
                  /\ UNCHANGED <<estado, g_blocked_threads, cola>>
  /\ UNCHANGED <<threads_bloqueados, running_thread, ready, g_new_threads,
                 g_exit_threads, g_multiprog_max>>

(* Mutants of EjecutarDesbloqueado: the process is not given its running      *)
(* thread; the signaller is not answered.                                    *)
EjecutarSinRunning(p, h) ==
  /\ estado' = [estado EXCEPT ![h] = "RUNNING"]
  /\ g_blocked_threads' = g_blocked_threads \ {h}
  /\ respuesta' = enviarPaquetes(enviarPaquetes(respuesta, padre[h], "SUSE_SCHEDULE_NEXT", h),
                                 p, "SUSE_SIGNAL", OK)
  /\ UNCHANGED <<ready, running_thread>>

EjecutarSinResponder(p, h) ==
  /\ running_thread' = [running_thread EXCEPT ![padre[h]] = h]
  /\ estado' = [estado EXCEPT ![h] = "RUNNING"]
  /\ g_blocked_threads' = g_blocked_threads \ {h}
  /\ Responder(padre[h], "SUSE_SCHEDULE_NEXT", h)
  /\ UNCHANGED ready

(* The process of the released thread is waiting for the answer to a         *)
(* schedule_next: the signaller schedules it from outside.                   *)
EjecutarDesbloqueado(p, h) ==
  /\ running_thread' = [running_thread EXCEPT ![padre[h]] = h]
  /\ estado' = [estado EXCEPT ![h] = "RUNNING"]
  /\ g_blocked_threads' = g_blocked_threads \ {h}
  /\ respuesta' = enviarPaquetes(enviarPaquetes(respuesta, padre[h], "SUSE_SCHEDULE_NEXT", h),
                                 p, "SUSE_SIGNAL", OK)
  /\ UNCHANGED ready

PasarDesbloqueadoAReady(p, h) ==
  /\ trancisionar_bloqueado_a_ready({h})
  /\ estado' = [estado EXCEPT ![h] = "READY"]
  /\ Responder(p, "SUSE_SIGNAL", OK)
  /\ UNCHANGED running_thread

SumarAlSemaforo(p, s) ==
  /\ current_value' = [current_value EXCEPT ![s] = @ + 1]
  /\ Responder(p, "SUSE_SIGNAL", OK)
  /\ UNCHANGED <<cola, estado, running_thread, ready, g_blocked_threads>>

(* Mutant of DesbloquearPrimero: the idle process is not scheduled. *)
DesbloquearSiempreAReady(p, s) ==
  /\ cola' = [cola EXCEPT ![s] = Tail(@)]
  /\ PasarDesbloqueadoAReady(p, Head(cola[s]))
  /\ UNCHANGED current_value

DesbloquearPrimero(p, s) ==
  /\ cola' = [cola EXCEPT ![s] = Tail(@)]
  /\ IF running_thread[padre[Head(cola[s])]] = Nulo
     THEN EjecutarDesbloqueado(p, Head(cola[s]))
     ELSE PasarDesbloqueadoAReady(p, Head(cola[s]))
  /\ UNCHANGED current_value

(* Mutant of procesarSemSignal: SEM_MAX is not looked at. *)
SignalSinMaximo(p, s) ==
  /\ Atender(p, "SUSE_SIGNAL", s)
  /\ IF s \notin Semaforo
     THEN /\ Responder(p, "SUSE_SIGNAL", EINVAL)
          /\ UNCHANGED <<estado, running_thread, ready, g_blocked_threads, semaforos>>
     ELSE IF cola[s] = <<>> THEN SumarAlSemaforo(p, s) ELSE DesbloquearPrimero(p, s)
  /\ UNCHANGED <<threads_bloqueados, g_new_threads, g_exit_threads, g_multiprog_max>>

procesarSemSignal(p, s) ==
  /\ Atender(p, "SUSE_SIGNAL", s)
  /\ IF s \notin Semaforo \/ (s \in Semaforo /\ current_value[s] = ValorMaximo[s])
     THEN /\ Responder(p, "SUSE_SIGNAL", IF s \notin Semaforo THEN EINVAL ELSE EOVERFLOW)
          /\ UNCHANGED <<estado, running_thread, ready, g_blocked_threads, semaforos>>
     ELSE IF cola[s] = <<>> THEN SumarAlSemaforo(p, s) ELSE DesbloquearPrimero(p, s)
  /\ UNCHANGED <<threads_bloqueados, g_new_threads, g_exit_threads, g_multiprog_max>>

-------------------------------------------------------------------------------
procesarPaqueteLibSuse(p) ==
  \/ \E h \in Hilo : procesarThreadCreate(p, h)
  \/ procesarThreadClose(p)
  \/ \E h \in Hilo : procesarThreadJoin(p, h)
  \/ procesarThreadScheduleNext(p)
  \/ \E s \in Nombre : procesarSemSignal(p, s)
  \/ \E s \in Nombre : procesarSemWait(p, s)

atenderConexion(p) ==
  \/ enviarMultiProg(p)
  \/ esperarPaqueteCreateMain(p)
  \/ procesarPaqueteLibSuse(p)
  \/ CerrarConexion(p)
===============================================================================
