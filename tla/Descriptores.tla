------------------------------ MODULE Descriptores -----------------------------
(***************************************************************************)
(* The process SUSE seen from its descriptors (biblioNOC: conexiones.c,    *)
(* paquetes.c; SUSE.c: atenderConexion and the metrics thread).  The       *)
(* server knows a connection by a number: the kernel gives the lowest free *)
(* one to each connection it accepts, a close frees the number whoever     *)
(* uses it, and SUSE keeps numbers in its structures (self_socket).        *)
(* Of a handler only what it sends is kept.                                *)
(***************************************************************************)
EXTENDS Integers, Sequences, FiniteSets

CONSTANTS
  Cliente,    \* client processes, numbered in the order in which they connect
  Numero,     \* the numbers a descriptor may have
  Nulo        \* no connection, no number

ASSUME NumerosAssumption ==
  /\ Numero \subseteq Nat /\ IsFiniteSet(Numero)
  /\ Cliente \subseteq Nat /\ IsFiniteSet(Cliente)
  /\ Cardinality(Cliente) <= Cardinality(Numero)

ASSUME NuloAssumption == Nulo \notin Cliente \cup Numero

VARIABLES
  fase,             \* fase[c]: what the process c does, or the operation it waits for
  pedido,           \* pedido[c]: packets c sent that nobody has read
  respuesta,        \* respuesta[c]: packets sent on the connection of c
  pendientes,       \* connections that accept has not returned yet
  descriptor,       \* descriptor[n]: whose connection the number n names
  pc,               \* pc[c]: where the thread made for the connection of c is
  socketCliente,    \* socketCliente[c]: its number
  leyendo,          \* leyendo[c]: the connection its recv reads
  paquete,          \* paquete[c]: the packet it works on
  etapa,            \* etapa[c]: which packets it expects
  self_socket,      \* self_socket[c]: the number kept in t_client_suse
  ocioso,           \* processes left without a running thread
  g_running_procs,  \* the processes in execution
  indice,           \* i of get_runnning_procs_stats
  cantidad,         \* qty of get_runnning_procs_stats; 0 while it sleeps
  caido             \* the server had a segmentation fault

clientes == <<fase, pedido, respuesta>>
hilos == <<pc, socketCliente, leyendo, paquete, etapa>>
suse == <<self_socket, ocioso, g_running_procs>>
metricas == <<indice, cantidad>>
vars == <<clientes, pendientes, descriptor, hilos, suse, metricas, caido>>

Operacion == {"SUSE_SCHEDULE_NEXT", "SUSE_SIGNAL"}
Mensaje == Operacion \cup {"HANDSHAKE", "SUSE_CREATE", "SUSE_GRADO_MULTIPROG"}
Respuesta == [op : Mensaje, para : Cliente]

(* What a client does, where a thread is, and which packets it expects. *)
Fase == Operacion \cup {"afuera", "SUSE_GRADO_MULTIPROG", "corriendo", "terminado"}
Punto == {"sin_hilo", "leer", "recv", "procesar", "responder", "error", "sacar", "cerrar", "fin"}
Etapa == {"handshake", "create_main", "bucle"}

Init ==
  /\ fase = [c \in Cliente |-> "afuera"]
  /\ pedido = [c \in Cliente |-> <<>>]
  /\ respuesta = [c \in Cliente |-> <<>>]
  /\ pendientes = <<>>
  /\ descriptor = [n \in Numero |-> Nulo]
  /\ pc = [c \in Cliente |-> "sin_hilo"]
  /\ socketCliente = [c \in Cliente |-> Nulo]
  /\ leyendo = [c \in Cliente |-> Nulo]
  /\ paquete = [c \in Cliente |-> Nulo]
  /\ etapa = [c \in Cliente |-> "handshake"]
  /\ self_socket = [c \in Cliente |-> Nulo]
  /\ ocioso = {}
  /\ g_running_procs = <<>>
  /\ indice = 0 /\ cantidad = 0
  /\ caido = FALSE

-------------------------------------------------------------------------------
(* The client process: hilolay_init, and then any operation that waits. *)

Conectar(c) ==
  /\ fase[c] = "afuera"
  /\ \A d \in Cliente : d < c => fase[d] # "afuera"
  /\ fase' = [fase EXCEPT ![c] = "SUSE_GRADO_MULTIPROG"]
  /\ pedido' = [pedido EXCEPT ![c] = <<"HANDSHAKE">>]
  /\ pendientes' = Append(pendientes, c)
  /\ UNCHANGED <<respuesta, descriptor, hilos, suse, metricas, caido>>

(* esperarRespuestaConfig takes any packet; init_internal creates main. *)
CrearMain(c) ==
  /\ fase[c] = "SUSE_GRADO_MULTIPROG" /\ respuesta[c] # <<>>
  /\ respuesta' = [respuesta EXCEPT ![c] = Tail(@)]
  /\ pedido' = [pedido EXCEPT ![c] = Append(@, "SUSE_CREATE")]
  /\ fase' = [fase EXCEPT ![c] = "corriendo"]
  /\ UNCHANGED <<pendientes, descriptor, hilos, suse, metricas, caido>>

Pedir(c, op) ==
  /\ fase[c] = "corriendo"
  /\ pedido' = [pedido EXCEPT ![c] = Append(@, op)]
  /\ fase' = [fase EXCEPT ![c] = op]
  /\ UNCHANGED <<respuesta, pendientes, descriptor, hilos, suse, metricas, caido>>

(* esperarRespuesta...: a packet of another operation is only logged. *)
esperarRespuesta(c) ==
  /\ fase[c] \in Operacion /\ respuesta[c] # <<>>
  /\ respuesta' = [respuesta EXCEPT ![c] = Tail(@)]
  /\ fase' = [fase EXCEPT ![c] = "corriendo"]
  /\ UNCHANGED <<pedido, pendientes, descriptor, hilos, suse, metricas, caido>>

Terminar(c) ==
  /\ fase[c] \notin {"afuera", "terminado"}
  /\ fase' = [fase EXCEPT ![c] = "terminado"]
  /\ respuesta' = [respuesta EXCEPT ![c] = <<>>]
  /\ UNCHANGED <<pedido, pendientes, descriptor, hilos, suse, metricas, caido>>

-------------------------------------------------------------------------------
(* The kernel: accept gives the lowest free number; send and close act on    *)
(* what the number names now.                                                *)

Libres == {n \in Numero : descriptor[n] = Nulo}
PrimerLibre == CHOOSE n \in Libres : \A m \in Libres : n <= m

Cerrar(n) == descriptor' = [descriptor EXCEPT ![n] = Nulo]

(* enviarPaquetes ignores every error; para is who the packet is meant for. *)
enviarPaquetes(n, op, para) ==
  LET s == descriptor[n]
  IN  respuesta' =
        IF s = Nulo THEN respuesta
        ELSE IF fase[s] = "terminado" THEN respuesta
        ELSE [respuesta EXCEPT ![s] = Append(@, [op |-> op, para |-> para])]

Ir(c, l) == pc' = [pc EXCEPT ![c] = l]

(* Mutant of Aceptar: the thread gets the address of the variable that       *)
(* accept writes next, and not its value.                                    *)
AceptarPorReferencia(c) ==
  /\ ~ caido /\ pendientes # <<>> /\ Head(pendientes) = c
  /\ pendientes' = Tail(pendientes)
  /\ descriptor' = [descriptor EXCEPT ![PrimerLibre] = c]
  /\ socketCliente' = [d \in Cliente |->
       IF d = c \/ (pc[d] = "leer" /\ etapa[d] = "handshake") THEN PrimerLibre
       ELSE socketCliente[d]]
  /\ Ir(c, "leer")
  /\ UNCHANGED <<clientes, leyendo, paquete, etapa, suse, metricas, caido>>

(* iniciarServidor: accept, and a detached thread for the connection. *)
Aceptar(c) ==
  /\ ~ caido /\ pendientes # <<>> /\ Head(pendientes) = c
  /\ pendientes' = Tail(pendientes)
  /\ descriptor' = [descriptor EXCEPT ![PrimerLibre] = c]
  /\ socketCliente' = [socketCliente EXCEPT ![c] = PrimerLibre]
  /\ Ir(c, "leer")
  /\ UNCHANGED <<clientes, leyendo, paquete, etapa, suse, metricas, caido>>

-------------------------------------------------------------------------------
(* atenderConexion, for the connection of c.  A recv that waits stays with   *)
(* its connection even if the number is closed meanwhile.                    *)

EmpezarRecv(c) ==
  /\ ~ caido /\ pc[c] = "leer"
  /\ leyendo' = [leyendo EXCEPT ![c] = descriptor[socketCliente[c]]]
  /\ Ir(c, IF leyendo'[c] = Nulo THEN "error" ELSE "recv")
  /\ UNCHANGED <<clientes, pendientes, descriptor, socketCliente, paquete, etapa,
                 suse, metricas, caido>>

recibirPaquete(c) ==
  /\ ~ caido /\ pc[c] = "recv" /\ pedido[leyendo[c]] # <<>>
  /\ paquete' = [paquete EXCEPT ![c] = Head(pedido[leyendo[c]])]
  /\ pedido' = [pedido EXCEPT ![leyendo[c]] = Tail(@)]
  /\ leyendo' = [leyendo EXCEPT ![c] = Nulo]
  /\ Ir(c, "procesar")
  /\ UNCHANGED <<fase, respuesta, pendientes, descriptor, socketCliente, etapa,
                 suse, metricas, caido>>

(* The client has ended and nothing of it is left to read: recv returns 0. *)
RecibirFin(c) ==
  /\ ~ caido /\ pc[c] = "recv"
  /\ pedido[leyendo[c]] = <<>> /\ fase[leyendo[c]] = "terminado"
  /\ leyendo' = [leyendo EXCEPT ![c] = Nulo]
  /\ Ir(c, "error")
  /\ UNCHANGED <<clientes, pendientes, descriptor, socketCliente, paquete, etapa,
                 suse, metricas, caido>>

(* recibirTamPaquete closes the number and returns -1.  The handshake and    *)
(* the creation of main use the NULL that recibirArmarPaquete makes of it.   *)
recibirTamPaquete(c) ==
  /\ ~ caido /\ pc[c] = "error"
  /\ Cerrar(socketCliente[c])
  /\ caido' = (etapa[c] # "bucle")
  /\ Ir(c, "sacar")
  /\ UNCHANGED <<clientes, pendientes, socketCliente, leyendo, paquete, etapa, suse, metricas>>

enviarMultiProg(c) ==
  /\ ~ caido /\ pc[c] = "procesar" /\ etapa[c] = "handshake"
  /\ IF paquete[c] = "HANDSHAKE"
     THEN /\ enviarPaquetes(socketCliente[c], "SUSE_GRADO_MULTIPROG", c)
          /\ etapa' = [etapa EXCEPT ![c] = "create_main"]
          /\ Ir(c, "leer")
     ELSE Ir(c, "cerrar") /\ UNCHANGED <<respuesta, etapa>>
  /\ paquete' = [paquete EXCEPT ![c] = Nulo]
  /\ UNCHANGED <<fase, pedido, pendientes, descriptor, socketCliente, leyendo,
                 suse, metricas, caido>>

esperarPaqueteCreateMain(c) ==
  /\ ~ caido /\ pc[c] = "procesar" /\ etapa[c] = "create_main"
  /\ IF paquete[c] = "SUSE_CREATE"
     THEN /\ self_socket' = [self_socket EXCEPT ![c] = socketCliente[c]]
          /\ g_running_procs' = Append(g_running_procs, c)
     ELSE UNCHANGED <<self_socket, g_running_procs>>
  /\ etapa' = [etapa EXCEPT ![c] = "bucle"]
  /\ paquete' = [paquete EXCEPT ![c] = Nulo]
  /\ Ir(c, "leer")
  /\ UNCHANGED <<clientes, pendientes, descriptor, socketCliente, leyendo, ocioso,
                 metricas, caido>>

(* A handler that touches no other connection, and the answer to its own if  *)
(* the packet has one.  Without the creation of main the t_client_suse was   *)
(* never filled in, and what using it does is not defined.                   *)
Responder(c) ==
  /\ ~ caido /\ etapa[c] = "bucle" /\ pc[c] \in {"procesar", "responder"}
  /\ IF paquete[c] \in Operacion THEN enviarPaquetes(socketCliente[c], paquete[c], c)
     ELSE UNCHANGED respuesta
  /\ caido' \in IF self_socket[c] = Nulo /\ paquete[c] \in {"SUSE_CREATE", "SUSE_SCHEDULE_NEXT"}
               THEN BOOLEAN ELSE {FALSE}
  /\ paquete' = [paquete EXCEPT ![c] = Nulo]
  /\ Ir(c, "leer")
  /\ UNCHANGED <<fase, pedido, pendientes, descriptor, socketCliente, leyendo, etapa,
                 suse, metricas>>

(* procesarThreadScheduleNext without a ready thread: no answer. *)
QuedarOcioso(c) ==
  /\ ~ caido /\ etapa[c] = "bucle" /\ pc[c] = "procesar"
  /\ paquete[c] = "SUSE_SCHEDULE_NEXT" /\ c \notin ocioso
  /\ ocioso' = ocioso \cup {c}
  /\ paquete' = [paquete EXCEPT ![c] = Nulo]
  /\ Ir(c, "leer")
  /\ UNCHANGED <<clientes, pendientes, descriptor, socketCliente, leyendo, etapa,
                 self_socket, g_running_procs, metricas, caido>>

(* Mutant of snd_schd_nxt_blockd_process: running_thread is not written. *)
DespertarSinRunning(c, q) ==
  /\ ~ caido /\ etapa[c] = "bucle" /\ pc[c] = "procesar" /\ paquete[c] = "SUSE_SIGNAL"
  /\ q \in ocioso /\ self_socket[q] # Nulo
  /\ enviarPaquetes(self_socket[q], "SUSE_SCHEDULE_NEXT", q)
  /\ Ir(c, "responder")
  /\ UNCHANGED <<fase, pedido, pendientes, descriptor, socketCliente, leyendo, paquete,
                 etapa, suse, metricas, caido>>

(* procesarSemSignal releases a thread of a process without a running one:   *)
(* the number to answer to comes from the structure of that process.         *)
snd_schd_nxt_blockd_process(c, q) ==
  /\ ~ caido /\ etapa[c] = "bucle" /\ pc[c] = "procesar" /\ paquete[c] = "SUSE_SIGNAL"
  /\ q \in ocioso /\ self_socket[q] # Nulo
  /\ enviarPaquetes(self_socket[q], "SUSE_SCHEDULE_NEXT", q)
  /\ ocioso' = ocioso \ {q}
  /\ Ir(c, "responder")
  /\ UNCHANGED <<fase, pedido, pendientes, descriptor, socketCliente, leyendo, paquete,
                 etapa, self_socket, g_running_procs, metricas, caido>>

(* Mutant of sacar: it removes the first process of the list. *)
SacarPrimero(n) == IF g_running_procs = <<>> THEN <<>> ELSE Tail(g_running_procs)
(* list_remove_by_condition removes the first process with the number. *)
sacar(n) ==
  LET iguales == {i \in DOMAIN g_running_procs : self_socket[g_running_procs[i]] = n}
      k == CHOOSE i \in iguales : \A j \in iguales : i <= j
  IN  IF iguales = {} THEN g_running_procs
      ELSE SubSeq(g_running_procs, 1, k - 1)
             \o SubSeq(g_running_procs, k + 1, Len(g_running_procs))

SacarProceso(c) ==
  /\ ~ caido /\ pc[c] = "sacar"
  /\ g_running_procs' = sacar(socketCliente[c])
  /\ Ir(c, "cerrar")
  /\ UNCHANGED <<clientes, pendientes, descriptor, socketCliente, leyendo, paquete, etapa,
                 self_socket, ocioso, metricas, caido>>

(* The close at the end of atenderConexion: the second one of the number. *)
CerrarConexion(c) ==
  /\ ~ caido /\ pc[c] = "cerrar"
  /\ Cerrar(socketCliente[c])
  /\ Ir(c, "fin")
  /\ UNCHANGED <<clientes, pendientes, socketCliente, leyendo, paquete, etapa,
                 suse, metricas, caido>>

AtenderConexion(c) ==
  \/ EmpezarRecv(c) \/ recibirPaquete(c) \/ RecibirFin(c) \/ recibirTamPaquete(c)
  \/ enviarMultiProg(c) \/ esperarPaqueteCreateMain(c)
  \/ Responder(c) \/ QuedarOcioso(c)
  \/ \E q \in Cliente : snd_schd_nxt_blockd_process(c, q)
  \/ SacarProceso(c) \/ CerrarConexion(c)

-------------------------------------------------------------------------------
(* The metrics thread: get_runnning_procs_stats reads the length of the list *)
(* once and then gets its elements by index.                                 *)

EmpezarMetricas ==
  /\ ~ caido /\ cantidad = 0
  /\ cantidad' = Len(g_running_procs) /\ indice' = 0
  /\ UNCHANGED <<clientes, pendientes, descriptor, hilos, suse, caido>>

(* Mutant of MedirProceso: it stops one element too late. *)
MedirUnoDeMas ==
  /\ ~ caido /\ cantidad > 0
  /\ caido' = (indice >= Len(g_running_procs))
  /\ IF indice = cantidad THEN cantidad' = 0 /\ indice' = 0
     ELSE indice' = indice + 1 /\ UNCHANGED cantidad
  /\ UNCHANGED <<clientes, pendientes, descriptor, hilos, suse>>

(* list_get returns NULL when the list has become shorter. *)
MedirProceso ==
  /\ ~ caido /\ cantidad > 0
  /\ caido' = (indice >= Len(g_running_procs))
  /\ IF indice + 1 = cantidad THEN cantidad' = 0 /\ indice' = 0
     ELSE indice' = indice + 1 /\ UNCHANGED cantidad
  /\ UNCHANGED <<clientes, pendientes, descriptor, hilos, suse>>

-------------------------------------------------------------------------------
ClienteHace(c) ==
  \/ Conectar(c) \/ CrearMain(c) \/ \E op \in Operacion : Pedir(c, op)
  \/ esperarRespuesta(c) \/ Terminar(c)

Next ==
  \/ \E c \in Cliente : ClienteHace(c) \/ Aceptar(c) \/ AtenderConexion(c)
  \/ EmpezarMetricas \/ MedirProceso

Spec == Init /\ [][Next]_vars

-------------------------------------------------------------------------------
TypeOKDescriptores ==
  /\ fase \in [Cliente -> Fase]
  /\ pedido \in [Cliente -> Seq(Mensaje)]
  /\ respuesta \in [Cliente -> Seq(Respuesta)]
  /\ pendientes \in Seq(Cliente)
  /\ descriptor \in [Numero -> Cliente \cup {Nulo}]
  /\ pc \in [Cliente -> Punto]
  /\ socketCliente \in [Cliente -> Numero \cup {Nulo}]
  /\ leyendo \in [Cliente -> Cliente \cup {Nulo}]
  /\ paquete \in [Cliente -> Mensaje \cup {Nulo}]
  /\ etapa \in [Cliente -> Etapa]
  /\ self_socket \in [Cliente -> Numero \cup {Nulo}]
  /\ ocioso \subseteq Cliente
  /\ g_running_procs \in Seq(Cliente)
  /\ indice \in Nat /\ cantidad \in Nat /\ (indice < cantidad \/ indice = 0)
  /\ caido \in BOOLEAN
===============================================================================
