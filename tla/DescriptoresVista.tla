--------------------------- MODULE DescriptoresVista ---------------------------
(***************************************************************************)
(* What Descriptores is to keep.  Nothing in the server orders accept, the *)
(* closes, the signals and the metrics, and four of their orders do harm.  *)
(* The history variable faltas remembers which have happened; it restricts *)
(* no step.  The properties say what each one alone can damage.            *)
(***************************************************************************)
EXTENDS Descriptores

VARIABLE faltas   \* the harmful orders of the steps that have happened

varsV == <<vars, faltas>>

(* "reuso": accept gives to a connection a number that the thread of another *)
(* one has still to close.                                                   *)
(* "huerfano": a signal answers a schedule_next of a process that has ended. *)
(* "salida": a process leaves the list while the metrics walk over it.       *)
(* "arranque": a client ends before it created its main thread.              *)
Falta == {"reuso", "huerfano", "salida", "arranque"}

Ocurre(f) ==
  \/ f = "reuso" /\ \E c, d \in Cliente :
       /\ pc[c] = "sin_hilo" /\ pc'[c] = "leer"
       /\ pc[d] \in {"sacar", "cerrar"} /\ socketCliente[d] = socketCliente'[c]
  \/ f = "huerfano" /\ \E q \in ocioso : q \notin ocioso' /\ fase[q] = "terminado"
  \/ f = "salida" /\ cantidad > 0 /\ Len(g_running_procs') < Len(g_running_procs)
  \/ f = "arranque" /\ \E c \in Cliente :
       fase[c] = "SUSE_GRADO_MULTIPROG" /\ fase'[c] = "terminado"

InitV == Init /\ faltas = {}
NextV == Next /\ faltas' = faltas \cup {f \in Falta : Ocurre(f)}
SpecV == InitV /\ [][NextV]_varsV

Sin(fs) == faltas \cap fs = {}

-------------------------------------------------------------------------------
(* What should hold always, and does not: every number is closed twice, and  *)
(* accept may have given it away in between.                                 *)

(* Until it ends, a thread reads and answers the connection it was made for: *)
(* no close of another thread takes its number.  Afterwards no number names  *)
(* its connection, and no number ever names a connection without a thread.   *)
CadaHiloLoSuyo ==
  \A c \in Cliente :
    /\ {n \in Numero : descriptor[n] = c} =
         IF pc[c] \in {"leer", "recv", "procesar", "responder", "error"}
         THEN {socketCliente[c]} ELSE {}
    /\ pc[c] = "recv" => leyendo[c] = c

(* What arrives on a connection is one answer, meant for the process at its  *)
(* other end, to the operation it waits for, whoever sends it and however    *)
(* often the number it is sent to was given away.                            *)
CadaRespuestaAQuienLaEspera ==
  \A c \in Cliente :
    /\ Len(respuesta[c]) <= 1
    /\ respuesta[c] # <<>> => respuesta[c][1] = [op |-> fase[c], para |-> c]

(* recibirTamPaquete closes a connection that its client has closed, and the *)
(* loop says that it closes the connection of its client: no close of the    *)
(* server ends the connection of a client that goes on.                      *)
CierraAlQueSeFue ==
  [][\A n \in Numero :
       descriptor[n] # Nulo /\ descriptor'[n] = Nulo => fase[descriptor[n]] = "terminado"]_varsV

(* The answer that a signal sends goes to the parent process of the released *)
(* thread, which waits for it: without a reuse, nobody receives what is      *)
(* meant for another process.                                                *)
RecibeSuDestinatario ==
  Sin({"reuso"}) =>
    \A c \in Cliente : \A i \in DOMAIN respuesta[c] : respuesta[c][i].para = c

-------------------------------------------------------------------------------
(* Only an accept between the two closes of its number takes a connection    *)
(* from its thread: no signal to a dead process, no metrics and no death in  *)
(* the handshake does.                                                       *)
HiloLeeLoSuyo == Sin({"reuso"}) => CadaHiloLoSuyo

(* Only such an accept, or a signal that answers a process that has ended,   *)
(* sends a process what it did not ask for.                                  *)
RespuestaPropia == Sin({"reuso", "huerfano"}) => CadaRespuestaAQuienLaEspera

(* g_running_procs has the processes that are attended, once each, under the *)
(* numbers of their connections, unless such an accept made one of two       *)
(* processes with the same number leave for the other.                       *)
ListaDeVivos ==
  Sin({"reuso"}) =>
    /\ \A c \in Cliente :
         Cardinality({i \in DOMAIN g_running_procs : g_running_procs[i] = c}) =
           IF etapa[c] = "bucle" /\ pc[c] \notin {"cerrar", "fin"} THEN 1 ELSE 0
    /\ \A i \in DOMAIN g_running_procs :
         self_socket[g_running_procs[i]] = socketCliente[g_running_procs[i]]

(* The server falls only by a client that ended before it created main or by *)
(* a process that left while the metrics walked over the list; without the   *)
(* latter the metrics find every process they counted.                       *)
CaidaExplicada ==
  /\ caido /\ Sin({"reuso"}) => ~ Sin({"arranque", "salida"})
  /\ Sin({"salida"}) => cantidad <= Len(g_running_procs)
===============================================================================
