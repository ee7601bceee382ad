------------------------------- MODULE Conexion -------------------------------
(***************************************************************************)
(* The TCP connection between one client process and the thread that the   *)
(* SUSE server dedicates to it (biblioNOC: conexiones.c, paquetes.c).      *)
(* Each direction is a FIFO of packets.  A packet keeps its operation code *)
(* and the one number or name its buffer carries.                          *)
(***************************************************************************)
EXTENDS Integers, Sequences, FiniteSets

CONSTANTS
  Proceso,    \* client processes: each one opens one connection
  Hilo,       \* the ULTs the processes may create, main threads included
  padre,      \* padre[h]: the process of h (proceso_padre)
  principal,  \* principal[p]: the main thread of p (MAIN_THREAD_ID, main_tid)
  Nombre,     \* semaphore names the programs use
  Nulo        \* the NULL pointer, and the empty buffer of a packet

ASSUME NuloAssumption == Nulo \notin Hilo \cup Nombre

ASSUME NombresAssumption == Hilo \cap Nombre = {}

ASSUME HilosAssumption ==
  /\ padre \in [Hilo -> Proceso]
  /\ principal \in [Proceso -> Hilo]
  /\ \A p \in Proceso : padre[principal[p]] = p
  /\ IsFiniteSet(Hilo)

VARIABLES
  pedido,     \* pedido[p]: packets p sent that its server thread has not read
  respuesta,  \* respuesta[p]: packets sent to p that p has not read
  abierto     \* processes whose end of the connection is open

conexion == <<pedido, respuesta, abierto>>

(* t_cod_operaciones_SUSE, the handshake included. *)
OpConRespuesta ==
  {"SUSE_CLOSE", "SUSE_JOIN", "SUSE_SCHEDULE_NEXT", "SUSE_SIGNAL", "SUSE_WAIT"}

Pedido ==
  [op : OpConRespuesta \cup {"HANDSHAKE", "SUSE_CREATE"},
   arg : Hilo \cup Nombre \cup {Nulo}]

Respuesta ==
  [op : OpConRespuesta \cup {"SUSE_GRADO_MULTIPROG"}, valor : Hilo \cup Int]

ConexionTipo ==
  /\ pedido \in [Proceso -> Seq(Pedido)]
  /\ respuesta \in [Proceso -> Seq(Respuesta)]
  /\ abierto \subseteq Proceso

ConexionInit ==
  /\ pedido = [p \in Proceso |-> <<>>]
  /\ respuesta = [p \in Proceso |-> <<>>]
  /\ abierto = {}

-------------------------------------------------------------------------------
(* The client's writes and the server's reads. *)

enviarPedido(p, op, arg) ==
  pedido' = [pedido EXCEPT ![p] = Append(@, [op |-> op, arg |-> arg])]

Recibido(p, op, arg) ==
  /\ pedido[p] # <<>>
  /\ Head(pedido[p]) = [op |-> op, arg |-> arg]

ConsumirPedido(p) == pedido' = [pedido EXCEPT ![p] = Tail(@)]

(* enviarPaquetes uses MSG_NOSIGNAL and only prints an error: what is sent   *)
(* to a process whose end is closed disappears.                              *)
enviarPaquetes(buzones, p, op, valor) ==
  IF p \in abierto
  THEN [buzones EXCEPT ![p] = Append(@, [op |-> op, valor |-> valor])]
  ELSE buzones

(* The close of the socket that comes with the end of the client process:    *)
(* packets already sent stay readable, packets not read by it are lost.      *)
CerrarExtremo(p) ==
  /\ abierto' = abierto \ {p}
  /\ respuesta' = [respuesta EXCEPT ![p] = <<>>]

(* recibirArmarPaquete returns NULL: the other end closed, nothing buffered. *)
FinDeConexion(p) == p \notin abierto /\ pedido[p] = <<>>
===============================================================================
