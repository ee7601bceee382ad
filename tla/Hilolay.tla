-------------------------------- MODULE Hilolay -------------------------------
(***************************************************************************)
(* A client process: a program that uses the hilolay thread library        *)
(* (hilolay/hilolay_internal.c), whose operations are requests to the SUSE *)
(* server and the wait for their responses (biblioSuse/src/biblioSuse.c).  *)
(*                                                                         *)
(* The process has one kernel thread.  It either runs the code of its      *)
(* current ULT, which calls any operation at any point, or it is stopped   *)
(* in the recv of one esperarRespuesta*.  Every operation but the creation *)
(* of a thread waits for its response, and then asks for the next thread   *)
(* (hilolay_yield); the values of the responses are ignored.               *)
(***************************************************************************)
EXTENDS Conexion

CONSTANTS
  PuedenMorir     \* processes that may be killed once main runs

VARIABLES
  fase,           \* "corriendo", or the operation whose response p waits for
  ults,           \* ults[p]: the TCBs of p that are not FREE
  current_ult     \* the ULT whose context is installed

hilolay == <<fase, ults, current_ult>>

Fase == {"sin_conectar", "HANDSHAKE", "corriendo", "terminado"} \cup OpConRespuesta

HilolayTipo ==
  /\ fase \in [Proceso -> Fase]
  /\ ults \in [Proceso -> SUBSET Hilo]
  /\ current_ult \in [Proceso -> Hilo \cup {Nulo}]

HilolayInit ==
  /\ fase = [p \in Proceso |-> "sin_conectar"]
  /\ ults = [p \in Proceso |-> {}]
  /\ current_ult = [p \in Proceso |-> Nulo]

EsperarRespuesta(p, op) == fase' = [fase EXCEPT ![p] = op]

-------------------------------------------------------------------------------
(* hilolay_init: connect, send the handshake, wait for the degree of         *)
(* multiprogramming, and create the main thread.                             *)

hilolay_init(p) ==
  /\ fase[p] = "sin_conectar"
  /\ abierto' = abierto \cup {p}
  /\ enviarPedido(p, "HANDSHAKE", Nulo)
  /\ EsperarRespuesta(p, "HANDSHAKE")
  /\ UNCHANGED <<respuesta, ults, current_ult>>

(* esperarRespuesta* takes whatever packet comes first: a code that is not    *)
(* the awaited one is only logged.                                           *)
Recibir(p) ==
  /\ respuesta[p] # <<>>
  /\ respuesta' = [respuesta EXCEPT ![p] = Tail(@)]
  /\ UNCHANGED abierto

init_internal(p) ==
  /\ fase[p] = "HANDSHAKE"
  /\ Recibir(p)
  /\ fase' = [fase EXCEPT ![p] = "corriendo"]
  /\ ults' = [ults EXCEPT ![p] = {principal[p]}]
  /\ current_ult' = [current_ult EXCEPT ![p] = principal[p]]
  /\ enviarPedido(p, "SUSE_CREATE", principal[p])

-------------------------------------------------------------------------------
(* Operations of the running ULT *)

(* get_next_id never repeats a tid and no TCB is ever FREE again.            *)
hilolay_create(p, h) ==
  /\ fase[p] = "corriendo"
  /\ padre[h] = p
  /\ h \notin ults[p]
  /\ ults' = [ults EXCEPT ![p] = @ \cup {h}]
  /\ enviarPedido(p, "SUSE_CREATE", h)
  /\ UNCHANGED <<respuesta, abierto, fase, current_ult>>

Llamar(p, op, arg) ==
  /\ fase[p] = "corriendo"
  /\ enviarPedido(p, op, arg)
  /\ EsperarRespuesta(p, op)
  /\ UNCHANGED <<respuesta, abierto, ults, current_ult>>

hilolay_yield(p) == Llamar(p, "SUSE_SCHEDULE_NEXT", Nulo)
hilolay_join(p, h) == h \in ults[p] /\ Llamar(p, "SUSE_JOIN", h)
hilolay_wait(p, s) == Llamar(p, "SUSE_WAIT", s)

(* Mutant of hilolay_signal: the response is not waited for. *)
SignalSinEsperar(p, s) ==
  /\ fase[p] = "corriendo"
  /\ enviarPedido(p, "SUSE_SIGNAL", s)
  /\ UNCHANGED <<respuesta, abierto, fase, ults, current_ult>>

hilolay_signal(p, s) == Llamar(p, "SUSE_SIGNAL", s)

(* A ULT's routine returns into wrap; main ends with hilolay_return.         *)
TerminarUlt(p) == Llamar(p, "SUSE_CLOSE", current_ult[p])

-------------------------------------------------------------------------------
(* Responses *)

(* Whatever the response says, the operation ends in hilolay_yield.          *)
RecibirYCeder(p) ==
  /\ fase[p] \in OpConRespuesta \ {"SUSE_SCHEDULE_NEXT"}
  /\ ~ (fase[p] = "SUSE_CLOSE" /\ current_ult[p] = principal[p])
  /\ Recibir(p)
  /\ enviarPedido(p, "SUSE_SCHEDULE_NEXT", Nulo)
  /\ EsperarRespuesta(p, "SUSE_SCHEDULE_NEXT")
  /\ UNCHANGED <<ults, current_ult>>

(* The TCB with the tid of the response, or NULL.                            *)
get_next_tid(p) ==
  LET tid == Head(respuesta[p]).valor
  IN IF tid \in ults[p] THEN tid ELSE Nulo

swap_context(p) ==
  /\ fase[p] = "SUSE_SCHEDULE_NEXT"
  /\ Recibir(p)
  /\ current_ult' = [current_ult EXCEPT ![p] = get_next_tid(p)]
  /\ fase' = [fase EXCEPT ![p] = "corriendo"]
  /\ UNCHANGED <<pedido, ults>>

(* hilolay_return does not yield: main returns and the process exits.        *)
hilolay_return(p) ==
  /\ fase[p] = "SUSE_CLOSE"
  /\ current_ult[p] = principal[p]
  /\ respuesta[p] # <<>>
  /\ CerrarExtremo(p)
  /\ fase' = [fase EXCEPT ![p] = "terminado"]
  /\ UNCHANGED <<pedido, ults, current_ult>>

(* The process is killed, or one of its ULTs calls exit, at any point after  *)
(* init_internal has sent the creation of main.  A death during the          *)
(* handshake ends the server (SUSE.c:65, 481): Descriptores has it.          *)
Morir(p) ==
  /\ p \in PuedenMorir
  /\ fase[p] \in {"corriendo"} \cup OpConRespuesta
  /\ CerrarExtremo(p)
  /\ fase' = [fase EXCEPT ![p] = "terminado"]
  /\ UNCHANGED <<pedido, ults, current_ult>>

-------------------------------------------------------------------------------
Programa(p) ==
  \/ hilolay_init(p)
  \/ \E h \in Hilo : hilolay_create(p, h) \/ hilolay_join(p, h)
  \/ \E s \in Nombre : hilolay_wait(p, s) \/ hilolay_signal(p, s)
  \/ hilolay_yield(p)
  \/ TerminarUlt(p)
  \/ Morir(p)

Biblioteca(p) ==
  \/ init_internal(p)
  \/ RecibirYCeder(p)
  \/ swap_context(p)
  \/ hilolay_return(p)
===============================================================================
