---------------------------- MODULE SuseConcurrente ---------------------------
(***************************************************************************)
(* SUSE with the interleavings of its threads.  iniciarServidor dedicates  *)
(* one thread to each connection, and all of them work on the same lists,  *)
(* on g_multiprog_max and on the records of each other's processes.  Two   *)
(* kinds of mutex exist: sem_mutex, one per semaphore, and                 *)
(* being_externally_scheduled, one per process.                            *)
(*                                                                         *)
(* The state is that of Suse and Hilolay; each handler of Suse is split at *)
(* the points where it reads or writes what another thread may change in   *)
(* between.  One call on a commons list, and one load or store of a number *)
(* or pointer, is one step; what a handler does to data that only its own  *)
(* thread touches goes with the step before it.  g_multiprog_max-- is a    *)
(* load and a store (the Debug makefile builds with -O0).                  *)
(* The packet being served stays at the head of pedido until its handler   *)
(* returns.  A use of a NULL thread, or the pop of an empty queue, ends    *)
(* the server.                                                             *)
(***************************************************************************)
EXTENDS SuseSistema

CONSTANTS
  Llamadas        \* Llamadas[p]: the requests the program of p may make

ASSUME LlamadasAssumption == Llamadas \in [Proceso -> SUBSET Pedido]

(* The value of a mutex that nobody holds. *)
ASSUME MutexAssumption == Nulo \notin Proceso

VARIABLES
  pc,             \* where the server thread of each connection is
  hilo,           \* thread_desbloqueado, thread_to_ready or thread_to_join
  leido,          \* the loaded value of g_multiprog_max
  sem_mutex,      \* sem_mutex[s]: the connection that holds it, or Nulo
  being_externally_scheduled,  \* the same, for the mutex of each process
  caido           \* the server had a segmentation fault

locales == <<pc, hilo, leido>>
mutexes == <<sem_mutex, being_externally_scheduled>>
varsC == <<vars, locales, mutexes, caido>>

Punto ==
  {"inicio", "create_admitir", "create_cargar", "create_guardar", "create_encolar",
   "close_new", "close_cargar", "close_guardar", "close_sacar", "close_a_ready",
   "join_ready", "join_blocked", "join_new", "join_agregar",
   "next_elegir", "next_nulo", "wait_bloquear", "wait_restar",
   "signal_lock", "signal_sumar", "signal_running", "signal_ext", "signal_ejecutar",
   "signal_quitar", "signal_a_ready", "signal_estado"}

InitC ==
  /\ Init
  /\ pc = [p \in Proceso |-> "inicio"]
  /\ hilo = [p \in Proceso |-> Nulo]
  /\ leido = [p \in Proceso |-> 0]
  /\ sem_mutex = [s \in Semaforo |-> Nulo]
  /\ being_externally_scheduled = [p \in Proceso |-> Nulo]
  /\ caido = FALSE

-------------------------------------------------------------------------------
(* Steps of a handler *)

(* The thread of connection p is at l of the handler of the packet (op, arg). *)
En(p, l, op, arg) ==
  /\ ~ caido /\ etapa[p] = "bucle" /\ pc[p] = l
  /\ Recibido(p, op, arg)
  /\ UNCHANGED <<abierto, etapa, hilolay>>

IrA(p, l, h, n) ==
  /\ pc' = [pc EXCEPT ![p] = l]
  /\ hilo' = [hilo EXCEPT ![p] = h]
  /\ leido' = [leido EXCEPT ![p] = n]
  /\ UNCHANGED caido

SeguirCon(p, l, h, n) == IrA(p, l, h, n) /\ UNCHANGED <<pedido, respuesta>>
Seguir(p, l) == SeguirCon(p, l, hilo[p], leido[p])
SeguirConHilo(p, l, h) == SeguirCon(p, l, h, leido[p])
Cargar(p, l) == SeguirCon(p, l, hilo[p], g_multiprog_max)

Terminar(p) == IrA(p, "inicio", Nulo, 0) /\ ConsumirPedido(p)
TerminarCon(p, op, valor) == Terminar(p) /\ Responder(p, op, valor)

Caer(p) == caido' = TRUE /\ UNCHANGED <<locales, pedido, respuesta>>

-------------------------------------------------------------------------------
(* procesarThreadCreate *)

CreateMirarLugar(p, h) ==
  /\ En(p, "inicio", "SUSE_CREATE", h)
  /\ Seguir(p, IF HayLugar THEN "create_admitir" ELSE "create_encolar")
  /\ UNCHANGED <<estado, ready, g_new_threads, g_multiprog_max>>

CreateAdmitir(p, h) ==
  /\ En(p, "create_admitir", "SUSE_CREATE", h)
  /\ estado' = [estado EXCEPT ![h] = "READY"]
  /\ ready' = [ready EXCEPT ![p] = @ \cup {h}]
  /\ Seguir(p, "create_cargar")
  /\ UNCHANGED <<g_new_threads, g_multiprog_max>>

CreateCargar(p, h) ==
  /\ En(p, "create_cargar", "SUSE_CREATE", h)
  /\ Cargar(p, "create_guardar")
  /\ UNCHANGED <<estado, ready, g_new_threads, g_multiprog_max>>

CreateGuardar(p, h) ==
  /\ En(p, "create_guardar", "SUSE_CREATE", h)
  /\ g_multiprog_max' = leido[p] - 1
  /\ Terminar(p)
  /\ UNCHANGED <<respuesta, estado, ready, g_new_threads>>

CreateEncolar(p, h) ==
  /\ En(p, "create_encolar", "SUSE_CREATE", h)
  /\ estado' = [estado EXCEPT ![h] = "NEW"]
  /\ g_new_threads' = Append(g_new_threads, h)
  /\ Terminar(p)
  /\ UNCHANGED <<respuesta, ready, g_multiprog_max>>

Create(p) ==
  /\ \E h \in Hilo :
       \/ CreateMirarLugar(p, h) \/ CreateAdmitir(p, h) \/ CreateCargar(p, h)
       \/ CreateGuardar(p, h) \/ CreateEncolar(p, h)
  /\ UNCHANGED <<threads_bloqueados, running_thread, g_blocked_threads, g_exit_threads,
                 semaforos, mutexes>>

-------------------------------------------------------------------------------
(* procesarThreadClose *)

listasClose == <<estado, threads_bloqueados, ready, g_blocked_threads, g_exit_threads>>

(* The thread ends and its joiners move: only this connection looks at them. *)
Despertar(t) ==
  /\ estado' = [estado EXCEPT ![t] = "EXIT"]
  /\ g_exit_threads' = g_exit_threads \cup {t}
  /\ trancisionar_bloqueado_a_ready(threads_bloqueados[t])
  /\ threads_bloqueados' = [threads_bloqueados EXCEPT ![t] = {}]

CloseDespertar(p, h) ==
  /\ En(p, "inicio", "SUSE_CLOSE", h)
  /\ IF running_thread[p] = Nulo
     THEN /\ TerminarCon(p, "SUSE_CLOSE", EINVAL)
          /\ UNCHANGED listasClose
     ELSE /\ Despertar(running_thread[p])
          /\ IF running_thread[p] = principal[p]
             THEN TerminarCon(p, "SUSE_CLOSE", OK)
             ELSE Seguir(p, "close_new")
  /\ UNCHANGED <<g_new_threads, g_multiprog_max>>

CloseMirarNew(p, h) ==
  /\ En(p, "close_new", "SUSE_CLOSE", h)
  /\ Seguir(p, IF g_new_threads = <<>> THEN "close_cargar" ELSE "close_sacar")
  /\ UNCHANGED <<listasClose, g_new_threads, g_multiprog_max>>

CloseCargar(p, h) ==
  /\ En(p, "close_cargar", "SUSE_CLOSE", h)
  /\ Cargar(p, "close_guardar")
  /\ UNCHANGED <<listasClose, g_new_threads, g_multiprog_max>>

CloseGuardar(p, h) ==
  /\ En(p, "close_guardar", "SUSE_CLOSE", h)
  /\ g_multiprog_max' = leido[p] + 1
  /\ TerminarCon(p, "SUSE_CLOSE", OK)
  /\ UNCHANGED <<listasClose, g_new_threads>>

(* Mutant of CloseSacarDeNew: queue_peek instead of queue_pop. *)
CloseMirarPrimero(p, h) ==
  /\ En(p, "close_sacar", "SUSE_CLOSE", h)
  /\ IF g_new_threads = <<>> THEN Caer(p) ELSE SeguirConHilo(p, "close_a_ready", Head(g_new_threads))
  /\ UNCHANGED <<listasClose, g_new_threads, g_multiprog_max>>

CloseSacarDeNew(p, h) ==
  /\ En(p, "close_sacar", "SUSE_CLOSE", h)
  /\ IF g_new_threads = <<>>
     THEN Caer(p) /\ UNCHANGED g_new_threads
     ELSE /\ g_new_threads' = Tail(g_new_threads)
          /\ SeguirConHilo(p, "close_a_ready", Head(g_new_threads))
  /\ UNCHANGED <<listasClose, g_multiprog_max>>

CloseAReady(p, h) ==
  /\ En(p, "close_a_ready", "SUSE_CLOSE", h)
  /\ estado' = [estado EXCEPT ![hilo[p]] = "READY"]
  /\ ready' = AgregarAReady({hilo[p]})
  /\ TerminarCon(p, "SUSE_CLOSE", OK)
  /\ UNCHANGED <<threads_bloqueados, g_new_threads, g_blocked_threads, g_exit_threads,
                 g_multiprog_max>>

Close(p) ==
  /\ \E h \in Hilo :
       \/ CloseDespertar(p, h) \/ CloseMirarNew(p, h) \/ CloseCargar(p, h)
       \/ CloseGuardar(p, h) \/ CloseSacarDeNew(p, h) \/ CloseAReady(p, h)
  /\ UNCHANGED <<running_thread, semaforos, mutexes>>

-------------------------------------------------------------------------------
(* procesarThreadJoin: the target is searched list by list, without a lock *)

JoinBloquear(p, h) ==
  /\ En(p, "inicio", "SUSE_JOIN", h)
  /\ IF running_thread[p] = Nulo \/ h \in g_exit_threads
     THEN /\ TerminarCon(p, "SUSE_JOIN", IF running_thread[p] = Nulo THEN EINVAL ELSE OK)
          /\ UNCHANGED <<estado, g_blocked_threads>>
     ELSE /\ estado' = [estado EXCEPT ![running_thread[p]] = "BLOCKED"]
          /\ g_blocked_threads' = g_blocked_threads \cup {running_thread[p]}
          /\ Seguir(p, "join_ready")
  /\ UNCHANGED threads_bloqueados

JoinBuscar(p, h, l, lista, sigue) ==
  /\ En(p, l, "SUSE_JOIN", h)
  /\ IF h \in lista THEN SeguirConHilo(p, "join_agregar", h) ELSE Seguir(p, sigue)
  /\ UNCHANGED <<estado, threads_bloqueados, g_blocked_threads>>

JoinAgregar(p, h) ==
  /\ En(p, "join_agregar", "SUSE_JOIN", h)
  /\ IF hilo[p] = Nulo
     THEN Caer(p) /\ UNCHANGED threads_bloqueados
     ELSE /\ threads_bloqueados' =
               [threads_bloqueados EXCEPT ![hilo[p]] = @ \cup {running_thread[p]}]
          /\ TerminarCon(p, "SUSE_JOIN", OK)
  /\ UNCHANGED <<estado, g_blocked_threads>>

Join(p) ==
  /\ \E h \in Hilo :
       \/ JoinBloquear(p, h)
       \/ JoinBuscar(p, h, "join_ready",
                     ready[p] \cup g_exit_threads \cup {running_thread[p]}, "join_blocked")
       \/ JoinBuscar(p, h, "join_blocked", g_blocked_threads, "join_new")
       \/ JoinBuscar(p, h, "join_new", Elementos(g_new_threads), "join_agregar")
       \/ JoinAgregar(p, h)
  /\ UNCHANGED <<running_thread, ready, g_new_threads, g_exit_threads, semaforos,
                 g_multiprog_max, mutexes>>

-------------------------------------------------------------------------------
(* procesarThreadScheduleNext: no lock, not even being_externally_scheduled *)

NextGuardarPrevio(p) ==
  /\ En(p, "inicio", "SUSE_SCHEDULE_NEXT", Nulo)
  /\ IF running_thread[p] = Nulo
     THEN /\ TerminarCon(p, "SUSE_SCHEDULE_NEXT", EINVAL)
          /\ UNCHANGED <<ready, estado>>
     ELSE /\ ready' = [ready EXCEPT ![p] = Candidatos(p)]
          /\ estado' = [estado EXCEPT ![running_thread[p]] =
                         IF @ = "RUNNING" THEN "READY" ELSE @]
          /\ Seguir(p, "next_elegir")
  /\ UNCHANGED running_thread

NextElegir(p, h) ==
  /\ En(p, "next_elegir", "SUSE_SCHEDULE_NEXT", Nulo)
  /\ h \in ready[p]
  /\ ready' = [ready EXCEPT ![p] = @ \ {h}]
  /\ running_thread' = [running_thread EXCEPT ![p] = h]
  /\ estado' = [estado EXCEPT ![h] = "RUNNING"]
  /\ TerminarCon(p, "SUSE_SCHEDULE_NEXT", h)

NextVacia(p) ==
  /\ En(p, "next_elegir", "SUSE_SCHEDULE_NEXT", Nulo)
  /\ ready[p] = {}
  /\ Seguir(p, "next_nulo")
  /\ UNCHANGED <<estado, running_thread, ready>>

NextQuedarSinRunning(p) ==
  /\ En(p, "next_nulo", "SUSE_SCHEDULE_NEXT", Nulo)
  /\ running_thread' = [running_thread EXCEPT ![p] = Nulo]
  /\ Terminar(p)
  /\ UNCHANGED <<respuesta, estado, ready>>

ScheduleNext(p) ==
  /\ \/ NextGuardarPrevio(p)
     \/ \E h \in Hilo : NextElegir(p, h)
     \/ NextVacia(p)
     \/ NextQuedarSinRunning(p)
  /\ UNCHANGED <<threads_bloqueados, g_new_threads, g_blocked_threads, g_exit_threads,
                 semaforos, g_multiprog_max, mutexes>>

-------------------------------------------------------------------------------
(* procesarSemWait: all but the search of the name under sem_mutex *)

Tomar(p, s) ==
  /\ sem_mutex[s] = Nulo
  /\ sem_mutex' = [sem_mutex EXCEPT ![s] = p]

(* Mutant of Soltar: being_externally_scheduled is not released. *)
SoltarSoloSemaforo(p, s) ==
  /\ sem_mutex' = [sem_mutex EXCEPT ![s] = Nulo]
  /\ UNCHANGED being_externally_scheduled

Soltar(p, s) ==
  /\ sem_mutex' = [sem_mutex EXCEPT ![s] = Nulo]
  /\ being_externally_scheduled' =
       [q \in Proceso |-> IF being_externally_scheduled[q] = p
                          THEN Nulo ELSE being_externally_scheduled[q]]

WaitDesconocido(p, s) ==
  /\ En(p, "inicio", "SUSE_WAIT", s)
  /\ s \notin Semaforo
  /\ TerminarCon(p, "SUSE_WAIT", EINVAL)
  /\ UNCHANGED <<semaforos, mutexes, estado, g_blocked_threads>>

(* Mutant of WaitMirarValor: a value of 0 is taken, too. *)
WaitMirarNegativo(p, s) ==
  /\ En(p, "inicio", "SUSE_WAIT", s)
  /\ s \in Semaforo
  /\ Tomar(p, s)
  /\ Seguir(p, IF current_value[s] < 0 THEN "wait_bloquear" ELSE "wait_restar")
  /\ UNCHANGED <<semaforos, estado, g_blocked_threads, being_externally_scheduled>>

WaitMirarValor(p, s) ==
  /\ En(p, "inicio", "SUSE_WAIT", s)
  /\ s \in Semaforo
  /\ Tomar(p, s)
  /\ Seguir(p, IF current_value[s] = 0 THEN "wait_bloquear" ELSE "wait_restar")
  /\ UNCHANGED <<semaforos, estado, g_blocked_threads, being_externally_scheduled>>

WaitBloquear(p, s) ==
  /\ En(p, "wait_bloquear", "SUSE_WAIT", s)
  /\ estado' = [estado EXCEPT ![running_thread[p]] = "BLOCKED"]
  /\ cola' = [cola EXCEPT ![s] = Append(@, running_thread[p])]
  /\ g_blocked_threads' = g_blocked_threads \cup {running_thread[p]}
  /\ Soltar(p, s)
  /\ TerminarCon(p, "SUSE_WAIT", OK)
  /\ UNCHANGED current_value

WaitRestar(p, s) ==
  /\ En(p, "wait_restar", "SUSE_WAIT", s)
  /\ current_value' = [current_value EXCEPT ![s] = @ - 1]
  /\ Soltar(p, s)
  /\ TerminarCon(p, "SUSE_WAIT", OK)
  /\ UNCHANGED <<estado, g_blocked_threads, cola>>

Wait(p) ==
  /\ \E s \in Nombre :
       WaitDesconocido(p, s) \/ WaitMirarValor(p, s) \/ WaitBloquear(p, s) \/ WaitRestar(p, s)
  /\ UNCHANGED <<threads_bloqueados, running_thread, ready, g_new_threads, g_exit_threads,
                 g_multiprog_max>>

-------------------------------------------------------------------------------
(* procesarSemSignal: the comparison with SEM_MAX comes before the lock *)

listasSignal == <<estado, running_thread, ready, g_blocked_threads>>

SignalMirarMaximo(p, s) ==
  /\ En(p, "inicio", "SUSE_SIGNAL", s)
  /\ IF s \notin Semaforo
     THEN TerminarCon(p, "SUSE_SIGNAL", EINVAL)
     ELSE IF current_value[s] = ValorMaximo[s]
     THEN TerminarCon(p, "SUSE_SIGNAL", EOVERFLOW)
     ELSE Seguir(p, "signal_lock")
  /\ UNCHANGED <<semaforos, mutexes, listasSignal>>

(* Mutant of SignalSacar: the queue is looked at before the lock is free. *)
SignalSacarAntesDelLock(p, s) ==
  /\ En(p, "signal_lock", "SUSE_SIGNAL", s)
  /\ IF cola[s] = <<>>
     THEN Seguir(p, "signal_sumar") /\ UNCHANGED cola
     ELSE /\ cola' = [cola EXCEPT ![s] = Tail(@)]
          /\ SeguirConHilo(p, "signal_running", Head(cola[s]))
  /\ UNCHANGED <<listasSignal, current_value, mutexes>>

SignalSacar(p, s) ==
  /\ En(p, "signal_lock", "SUSE_SIGNAL", s)
  /\ Tomar(p, s)
  /\ IF cola[s] = <<>>
     THEN Seguir(p, "signal_sumar") /\ UNCHANGED cola
     ELSE /\ cola' = [cola EXCEPT ![s] = Tail(@)]
          /\ SeguirConHilo(p, "signal_running", Head(cola[s]))
  /\ UNCHANGED <<listasSignal, current_value, being_externally_scheduled>>

SignalSumar(p, s) ==
  /\ En(p, "signal_sumar", "SUSE_SIGNAL", s)
  /\ current_value' = [current_value EXCEPT ![s] = @ + 1]
  /\ Soltar(p, s)
  /\ TerminarCon(p, "SUSE_SIGNAL", OK)
  /\ UNCHANGED <<listasSignal, cola>>

(* Whether the process of thread_desbloqueado has no running thread. *)
SinRunning(p) == running_thread[padre[hilo[p]]] = Nulo

(* Mutant of SignalMirarRunning: nothing moves when the process is running. *)
SignalMirarSinElse(p, s) ==
  /\ En(p, "signal_running", "SUSE_SIGNAL", s)
  /\ IF SinRunning(p)
     THEN Seguir(p, "signal_ext") /\ UNCHANGED mutexes
     ELSE TerminarCon(p, "SUSE_SIGNAL", OK) /\ Soltar(p, s)
  /\ UNCHANGED <<semaforos, listasSignal>>

SignalMirarRunning(p, s) ==
  /\ En(p, "signal_running", "SUSE_SIGNAL", s)
  /\ Seguir(p, IF SinRunning(p) THEN "signal_ext" ELSE "signal_quitar")
  /\ UNCHANGED <<semaforos, mutexes, listasSignal>>

(* Mutant of SignalTomarExterno: no second test under the mutex. *)
SignalSinSegundoTest(p, s) ==
  /\ En(p, "signal_ext", "SUSE_SIGNAL", s)
  /\ being_externally_scheduled[padre[hilo[p]]] = Nulo
  /\ being_externally_scheduled' = [being_externally_scheduled EXCEPT ![padre[hilo[p]]] = p]
  /\ Seguir(p, "signal_ejecutar")
  /\ UNCHANGED <<semaforos, listasSignal, sem_mutex>>

SignalTomarExterno(p, s) ==
  /\ En(p, "signal_ext", "SUSE_SIGNAL", s)
  /\ being_externally_scheduled[padre[hilo[p]]] = Nulo
  /\ being_externally_scheduled' = [being_externally_scheduled EXCEPT ![padre[hilo[p]]] = p]
  /\ Seguir(p, IF SinRunning(p) THEN "signal_ejecutar" ELSE "signal_quitar")
  /\ UNCHANGED <<semaforos, listasSignal, sem_mutex>>

SignalEjecutar(p, s) ==
  /\ En(p, "signal_ejecutar", "SUSE_SIGNAL", s)
  /\ EjecutarDesbloqueado(p, hilo[p])
  /\ Soltar(p, s)
  /\ Terminar(p)
  /\ UNCHANGED semaforos

SignalQuitar(p, s) ==
  /\ En(p, "signal_quitar", "SUSE_SIGNAL", s)
  /\ g_blocked_threads' = g_blocked_threads \ {hilo[p]}
  /\ Seguir(p, "signal_a_ready")
  /\ UNCHANGED <<semaforos, mutexes, estado, running_thread, ready>>

SignalAReady(p, s) ==
  /\ En(p, "signal_a_ready", "SUSE_SIGNAL", s)
  /\ ready' = AgregarAReady({hilo[p]})
  /\ Seguir(p, "signal_estado")
  /\ UNCHANGED <<semaforos, mutexes, estado, running_thread, g_blocked_threads>>

SignalEstado(p, s) ==
  /\ En(p, "signal_estado", "SUSE_SIGNAL", s)
  /\ estado' = [estado EXCEPT ![hilo[p]] = "READY"]
  /\ Soltar(p, s)
  /\ TerminarCon(p, "SUSE_SIGNAL", OK)
  /\ UNCHANGED <<semaforos, running_thread, ready, g_blocked_threads>>

Signal(p) ==
  /\ \E s \in Nombre :
       \/ SignalMirarMaximo(p, s) \/ SignalSacar(p, s) \/ SignalSumar(p, s)
       \/ SignalMirarRunning(p, s) \/ SignalTomarExterno(p, s) \/ SignalEjecutar(p, s)
       \/ SignalQuitar(p, s) \/ SignalAReady(p, s) \/ SignalEstado(p, s)
  /\ UNCHANGED <<threads_bloqueados, g_new_threads, g_exit_threads, g_multiprog_max>>

-------------------------------------------------------------------------------
(* The steps of atenderConexion that are not a handler: no list another      *)
(* connection looks at changes.                                              *)
ConexionC(p) ==
  /\ ~ caido /\ pc[p] = "inicio"
  /\ enviarMultiProg(p) \/ esperarPaqueteCreateMain(p) \/ CerrarConexion(p)
  /\ UNCHANGED <<hilolay, locales, mutexes, caido>>

ServidorC(p) ==
  ConexionC(p) \/ Create(p) \/ Close(p) \/ Join(p) \/ ScheduleNext(p) \/ Wait(p) \/ Signal(p)

(* A program of the client, within the requests it makes.                    *)
ClienteC(p) ==
  /\ ~ caido
  /\ Cliente(p)
  /\ fase[p] = "corriendo" /\ pedido'[p] # pedido[p] =>
       pedido'[p][Len(pedido'[p])] \in Llamadas[p]
  /\ UNCHANGED <<locales, mutexes, caido>>

NextC == \E p \in Proceso : ServidorC(p) \/ ClienteC(p)

SpecC == InitC /\ [][NextC]_varsC

FairSpecC ==
  /\ SpecC
  /\ \A p \in Proceso :
       /\ WF_varsC(ServidorC(p))
       /\ WF_varsC(Biblioteca(p) /\ ClienteC(p))

-------------------------------------------------------------------------------
(* What holds of the interleaved server *)

(* Types, of the locals, of the mutexes and of what the handlers update in    *)
(* two steps: the value of a semaphore never goes below 0.                   *)
TypeOKC ==
  /\ current_value \in [Semaforo -> Nat]
  /\ g_multiprog_max \in Int
  /\ pc \in [Proceso -> Punto]
  /\ hilo \in [Proceso -> Hilo \cup {Nulo}]
  /\ leido \in [Proceso -> Int]
  /\ sem_mutex \in [Semaforo -> Proceso \cup {Nulo}]
  /\ being_externally_scheduled \in [Proceso -> Proceso \cup {Nulo}]
  /\ caido \in BOOLEAN

(* sem_mutex makes test and update of a semaphore one: no thread queues on a *)
(* semaphore whose value another connection raised in between.               *)
ColaSoloEnCero == \A s \in Semaforo : cola[s] # <<>> => current_value[s] = 0

(* Two signals at once cannot both give a running thread to an idle process: *)
(* only its running_thread is RUNNING (being_externally_scheduled, and the   *)
(* second test under it).                                                    *)
RunningUnico ==
  \A h \in Hilo : estado[h] = "RUNNING" => running_thread[padre[h]] = h

(* The thread h is in the hands of a handler that blocks or releases it. *)
EnTransito(h) ==
  \/ \E q \in Proceso : hilo[q] = h /\ Recibido(q, "SUSE_SIGNAL", Head(pedido[q]).arg)
  \/ pc[padre[h]] \in {"join_ready", "join_blocked", "join_new", "join_agregar"}

(* A blocked thread is in the queue of one semaphore or among the joiners of *)
(* one thread, or some handler is about to put it there or to release it: no *)
(* interleaving of waits, signals, joins and closes leaves it with nobody    *)
(* who could ever release it.                                                *)
EsperaNoPerdida ==
  \A h \in g_blocked_threads : Cardinality(Esperas(h)) = 1 \/ EnTransito(h)

(* No interleaving leaves a thread in two places, although it is out of every *)
(* list while it moves from one to another.                                  *)
NoEnDosListas == \A h \in Hilo : Cardinality(Lugares(h)) <= 1

-------------------------------------------------------------------------------
(* What the source says of these handlers and the interleavings break *)

(* A signal is refused once the semaphore is at its maximum: no value passes *)
(* SEM_MAX (the test is before the lock).                                    *)
ValorAcotado == \A s \in Semaforo : current_value[s] <= ValorMaximo[s]

(* A new thread is admitted only if the degree of multiprogramming permits   *)
(* it: the admissions left never go below zero (they are tested in one step, *)
(* loaded in another and stored in a third).                                 *)
AdmisionesValidas == g_multiprog_max >= 0

(* A close that saw threads waiting in NEW takes one of them out: the queue  *)
(* is not empty when it is popped (test and pop are two calls).              *)
HayQueSacar == \A p \in Proceso : pc[p] = "close_sacar" => g_new_threads # <<>>

(* The search of a join finds its thread in whatever state it is (a close or *)
(* a signal may move it between two of the five places that are searched).   *)
BusquedaEncuentra == \A p \in Proceso : pc[p] = "join_agregar" => hilo[p] # Nulo

-------------------------------------------------------------------------------
(* The inductive invariant behind TypeOKC, ColaSoloEnCero, RunningUnico and  *)
(* RespuestaCorresponde.  No value of estado but RUNNING is relied upon: the *)
(* races make the others wrong.                                              *)

(* The server knows h: it was created, and its process has a main thread.    *)
Conocido(h) ==
  h \in Hilo /\ h \in ults[padre[h]] /\ etapa[padre[h]] \in {"bucle", "cerrada"}

(* Points of the handlers of a semaphore under its sem_mutex, and those of   *)
(* them that may be under a being_externally_scheduled, too.                 *)
EnExt == {"signal_ejecutar", "signal_quitar", "signal_a_ready", "signal_estado"}
EnSem == {"wait_bloquear", "wait_restar", "signal_sumar", "signal_running", "signal_ext"} \cup EnExt

Arg(p) == Head(pedido[p]).arg

TiposC ==
  /\ ConexionTipo /\ HilolayTipo /\ TypeOKC
  /\ etapa \in [Proceso -> Etapa]
  /\ estado \in [Hilo -> Estado]
  /\ threads_bloqueados \in [Hilo -> SUBSET Hilo]
  /\ running_thread \in [Proceso -> Hilo \cup {Nulo}]
  /\ ready \in [Proceso -> SUBSET Hilo]
  /\ g_new_threads \in Seq(Hilo)
  /\ cola \in [Semaforo -> Seq(Hilo)]

(* What p has buffered: creations, and at most one other request, the last.  *)
InvPedidoC(p) ==
  \A i \in DOMAIN pedido[p] :
    /\ i # Len(pedido[p]) => Pide(p, i, "SUSE_CREATE")
    /\ Pide(p, i, "SUSE_CREATE") => padre[pedido[p][i].arg] = p /\ pedido[p][i].arg \in ults[p]

RespondidoC(p) ==
  /\ pedido[p] = <<>> /\ etapa[p] = "bucle" /\ running_thread[p] # Nulo
  /\ Len(respuesta[p]) = 1 /\ respuesta[p][1].op = fase[p]
  /\ fase[p] = "SUSE_SCHEDULE_NEXT" => respuesta[p][1].valor = running_thread[p]

InvFaseC(p) ==
  /\ p \in abierto <=> fase[p] \notin {"sin_conectar", "terminado"}
  /\ fase[p] \in {"sin_conectar", "terminado"} => respuesta[p] = <<>>
  /\ fase[p] \in {"sin_conectar", "HANDSHAKE"} => ults[p] = {}
  /\ fase[p] = "sin_conectar" => etapa[p] = "handshake" /\ pedido[p] = <<>>
  /\ fase[p] = "HANDSHAKE" =>
       \/ /\ etapa[p] = "handshake" /\ Len(pedido[p]) = 1
          /\ Pide(p, 1, "HANDSHAKE") /\ respuesta[p] = <<>>
       \/ /\ etapa[p] = "create_main" /\ pedido[p] = <<>>
          /\ Len(respuesta[p]) = 1 /\ respuesta[p][1].op = "SUSE_GRADO_MULTIPROG"
  /\ fase[p] = "corriendo" =>
       /\ respuesta[p] = <<>>
       /\ \A i \in DOMAIN pedido[p] : Pide(p, i, "SUSE_CREATE")
       /\ etapa[p] = "bucle" => running_thread[p] # Nulo
  /\ fase[p] \in OpConRespuesta => Pendiente(p) \/ RespondidoC(p) \/ SinNadaQueEjecutar(p)

InvEtapaC(p) ==
  /\ etapa[p] = "handshake" <=> fase[p] \in {"sin_conectar", "HANDSHAKE"} /\ respuesta[p] = <<>>
  /\ etapa[p] \in {"handshake", "create_main"} => running_thread[p] = Nulo
  /\ etapa[p] \in {"bucle", "cerrada"} => fase[p] \notin {"sin_conectar", "HANDSHAKE"}
  /\ etapa[p] = "bucle" /\ pedido[p] # <<>> => running_thread[p] # Nulo
  /\ etapa[p] = "cerrada" => fase[p] = "terminado" /\ pedido[p] = <<>>
  /\ pc[p] # "inicio" => etapa[p] = "bucle" /\ pedido[p] # <<>>

(* Whoever is in a list, in a queue or running is a thread the server knows. *)
InvListasC ==
  /\ \A p \in Proceso : \A h \in ready[p] : padre[h] = p /\ Conocido(h)
  /\ \A h \in Elementos(g_new_threads) : Conocido(h)
  /\ \A s \in Semaforo : \A h \in Elementos(cola[s]) : Conocido(h)
  /\ \A t \in Hilo : \A h \in threads_bloqueados[t] : Conocido(h)
  /\ \A p \in Proceso : running_thread[p] # Nulo =>
       padre[running_thread[p]] = p /\ Conocido(running_thread[p])

(* What the thread of p may rely on at each point of a handler.              *)
InvPunto(p) ==
  /\ pc[p] \in EnSem \cup {"signal_lock"} => Arg(p) \in Semaforo
  /\ pc[p] \in EnSem => sem_mutex[Arg(p)] = p
  /\ pc[p] = "wait_bloquear" => current_value[Arg(p)] = 0
  /\ pc[p] = "wait_restar" => current_value[Arg(p)] # 0
  /\ pc[p] = "signal_sumar" => cola[Arg(p)] = <<>>
  /\ pc[p] \in EnExt \cup {"close_a_ready", "signal_running", "signal_ext"} => Conocido(hilo[p])
  /\ pc[p] = "signal_ejecutar" =>
       SinRunning(p) /\ being_externally_scheduled[padre[hilo[p]]] = p
  /\ pc[p] \in {"next_elegir", "next_nulo"} => estado[running_thread[p]] # "RUNNING"

(* A mutex is held only by a handler at work under it.  As no point of EnExt *)
(* waits for a mutex, and signal_ext waits for one that only points of EnExt *)
(* hold, the handlers cannot wait for each other in a circle.                *)
MutexEnUso ==
  /\ \A s \in Semaforo : sem_mutex[s] # Nulo =>
       pc[sem_mutex[s]] \in EnSem /\ Arg(sem_mutex[s]) = s
  /\ \A q \in Proceso : being_externally_scheduled[q] # Nulo =>
       /\ pc[being_externally_scheduled[q]] \in EnExt
       /\ padre[hilo[being_externally_scheduled[q]]] = q

(* p is about to take a mutex that some handler holds. *)
EsperaMutex(p) ==
  \/ pc[p] = "signal_lock" /\ sem_mutex[Arg(p)] # Nulo
  \/ pc[p] = "signal_ext" /\ being_externally_scheduled[padre[hilo[p]]] # Nulo

(* sem_mutex and being_externally_scheduled are taken in one order and are   *)
(* always released: of the handlers in progress, one waits for no mutex.     *)
SinEsperaCircular ==
  (\E p \in Proceso : pc[p] # "inicio") =>
    \E p \in Proceso : pc[p] # "inicio" /\ ~ EsperaMutex(p)

InvarianteC ==
  /\ TiposC
  /\ \A p \in Proceso : InvPedidoC(p) /\ InvFaseC(p) /\ InvEtapaC(p)
  /\ InvListasC
  /\ \A p \in Proceso : InvPunto(p)
  /\ MutexEnUso /\ ColaSoloEnCero /\ RunningUnico
===============================================================================
