--------------------------- MODULE SuseLugaresProofs ---------------------------
(***************************************************************************)
(* Proofs that the interleaved server neither loses a blocked thread nor   *)
(* leaves a thread in two lists, for every set of processes, every finite  *)
(* set of threads, any semaphores and whatever requests the programs make. *)
(*                                                                         *)
(* Between two lists a thread is in no list: it is in the local variable   *)
(* of a handler, in a buffered request, or running.  The invariant counts  *)
(* these as places, too, and says that no thread is in two of them.        *)
(***************************************************************************)
EXTENDS SuseConcurrenteProofs

(* Points of a join between its two writes, of a close after the thread      *)
(* ended, and of the handlers that have a thread in their hands: a signal    *)
(* before and after it takes the thread out of g_blocked_threads, and a      *)
(* close that took it out of g_new_threads.                                  *)
PuntosJoin == {"join_ready", "join_blocked", "join_new", "join_agregar"}
PuntosClose == {"close_new", "close_cargar", "close_guardar", "close_sacar", "close_a_ready"}
PuntosSuelta == {"signal_running", "signal_ext", "signal_ejecutar", "signal_quitar"}
PuntosMano == {"signal_a_ready", "close_a_ready"}

(* The creation of h is buffered, and not yet in effect. *)
PorCrear(h) ==
  \E i \in DOMAIN pedido[padre[h]] :
    /\ pedido[padre[h]][i] = [op |-> "SUSE_CREATE", arg |-> h]
    /\ i = 1 => pc[padre[h]] \notin {"create_cargar", "create_guardar"}

(* The running thread of p runs user code, or the request it made has not    *)
(* yet blocked or ended it, or the answer that makes it run is on its way.   *)
Ejecuta(p) ==
  /\ etapa[p] = "bucle" /\ running_thread[p] # Nulo
  /\ \/ fase[p] = "corriendo"
     \/ fase[p] = "SUSE_SCHEDULE_NEXT" /\ pedido[p] = <<>>
     \/ /\ pedido[p] # <<>> /\ ~ Pide(p, Len(pedido[p]), "SUSE_CREATE")
        /\ ~ Pide(p, Len(pedido[p]), "SUSE_SCHEDULE_NEXT")
        /\ pc[p] \notin PuntosJoin \cup PuntosClose

Corre(h) ==
  running_thread[padre[h]] = h /\ (estado[h] = "RUNNING" \/ Ejecuta(padre[h]))

(* h is blocked, and not yet among the joiners of the thread it joins. *)
Une(h) == running_thread[padre[h]] = h /\ pc[padre[h]] \in PuntosJoin

(* The handler of p is at one of the points ps, and h in its local variable. *)
EnManos(p, ps, h) == pc[p] \in ps /\ hilo[p] = h

(* Where a thread can be: h is at x of the kind l of place.                  *)
Puesto(h, l, x) ==
  \/ l = "pedida" /\ x = Nulo /\ PorCrear(h)
  \/ l = "corre" /\ x = Nulo /\ Corre(h)
  \/ l = "ready" /\ x = Nulo /\ h \in ready[padre[h]]
  \/ l = "new" /\ x = Nulo /\ h \in Elementos(g_new_threads)
  \/ l = "exit" /\ x = Nulo /\ h \in g_exit_threads
  \/ l = "une" /\ x = Nulo /\ Une(h)
  \/ l = "cola" /\ x \in Semaforo /\ h \in Elementos(cola[x])
  \/ l = "join" /\ x \in Hilo /\ h \in threads_bloqueados[x]
  \/ l = "suelta" /\ x \in Proceso /\ EnManos(x, PuntosSuelta, h)
  \/ l = "mano" /\ x \in Proceso /\ EnManos(x, PuntosMano, h)

Clase == {"pedida", "corre", "ready", "new", "exit", "une", "cola", "join", "suelta", "mano"}
Donde == Semaforo \cup Hilo \cup Proceso \cup {Nulo}

(* The places of the blocked threads. *)
Retiene == {"une", "cola", "join", "suelta"}

(* No thread is in two places. *)
UnPuesto ==
  \A h \in Hilo : \A l, m \in Clase : \A x, y \in Donde :
    Puesto(h, l, x) /\ Puesto(h, m, y) => l = m /\ x = y

(* The blocked threads are those that a queue, a list of joiners, a join or  *)
(* a signal still holds.                                                     *)
BloqueadosRetenidos ==
  \A h \in Hilo : h \in g_blocked_threads <=> \E l \in Retiene : \E x \in Donde : Puesto(h, l, x)

(* No creation is buffered twice. *)
CreacionesDistintas ==
  \A p \in Proceso : \A i, j \in DOMAIN pedido[p] :
    Pide(p, i, "SUSE_CREATE") /\ pedido[p][j] = pedido[p][i] => i = j

(* Only a signal has a blocked thread in its hands. *)
PuntoDeSignal ==
  \A p \in Proceso : pc[p] \in PuntosSuelta => Head(pedido[p]).op = "SUSE_SIGNAL"

InvLugares ==
  /\ UnPuesto /\ BloqueadosRetenidos
  /\ SinRepetidos(g_new_threads) /\ \A s \in Semaforo : SinRepetidos(cola[s])
  /\ CreacionesDistintas /\ PuntoDeSignal
  /\ g_blocked_threads \subseteq Hilo
  /\ \A h \in g_exit_threads : Conocido(h)

-------------------------------------------------------------------------------
(* Steps, thread by thread *)

(* A step leaves h where it is, or takes it out of a place that does not     *)
(* block it.                                                                 *)
Conserva(h) ==
  /\ \A l \in Clase : \A x \in Donde : Puesto(h, l, x)' => Puesto(h, l, x)
  /\ \A l \in Retiene : \A x \in Donde : Puesto(h, l, x) => Puesto(h, l, x)'
  /\ h \in g_blocked_threads' <=> h \in g_blocked_threads

(* A step leaves h at x of the kind l, and nowhere else. *)
Muda(h, l, x) ==
  /\ Puesto(h, l, x)'
  /\ \A m \in Clase : \A y \in Donde : Puesto(h, m, y)' => m = l /\ y = x
  /\ h \in g_blocked_threads' <=> l \in Retiene

LEMMA PuestosTrasPaso ==
  ASSUME UnPuesto, BloqueadosRetenidos,
         \A h \in Hilo : Conserva(h) \/ \E l \in Clase : \E x \in Donde : Muda(h, l, x)
  PROVE  UnPuesto' /\ BloqueadosRetenidos'
<1> HIDE DEF Puesto
<1>1. Retiene \subseteq Clase
  BY DEF Retiene, Clase
<1> HIDE DEF Retiene, Clase
<1>2. UnPuesto'
  <2> SUFFICES ASSUME NEW h \in Hilo, NEW l \in Clase, NEW m \in Clase, NEW x \in Donde, NEW y \in Donde,
                      Puesto(h, l, x)', Puesto(h, m, y)'
               PROVE  l = m /\ x = y
    BY DEF UnPuesto, Donde
  <2>1. CASE Conserva(h)
    BY <2>1 DEF Conserva, UnPuesto
  <2>2. ASSUME NEW k \in Clase, NEW z \in Donde, Muda(h, k, z) PROVE l = m /\ x = y
    BY <2>2 DEF Muda
  <2> QED BY <2>1, <2>2
<1>3. BloqueadosRetenidos'
  <2> SUFFICES ASSUME NEW h \in Hilo
               PROVE  h \in g_blocked_threads' <=> \E l \in Retiene : \E x \in Donde : Puesto(h, l, x)'
    BY DEF BloqueadosRetenidos, Donde
  <2>1. CASE Conserva(h)
    BY <1>1, <2>1 DEF Conserva, BloqueadosRetenidos
  <2>2. ASSUME NEW k \in Clase, NEW z \in Donde, Muda(h, k, z)
        PROVE  h \in g_blocked_threads' <=> \E l \in Retiene : \E x \in Donde : Puesto(h, l, x)'
    BY <1>1, <2>2 DEF Muda
  <2> QED BY <2>1, <2>2
<1> QED BY <1>2, <1>3

(* What is enough for h to stay where it is. *)
LEMMA ConservaSi ==
  ASSUME NEW h \in Hilo,
         PorCrear(h)' => PorCrear(h), Corre(h)' => Corre(h), Une(h)' <=> Une(h),
         h \in ready'[padre[h]] => h \in ready[padre[h]],
         h \in Elementos(g_new_threads') => h \in Elementos(g_new_threads),
         h \in g_exit_threads' => h \in g_exit_threads,
         \A s \in Semaforo : h \in Elementos(cola'[s]) <=> h \in Elementos(cola[s]),
         \A t \in Hilo : h \in threads_bloqueados'[t] <=> h \in threads_bloqueados[t],
         \A q \in Proceso : EnManos(q, PuntosSuelta, h)' <=> EnManos(q, PuntosSuelta, h),
         \A q \in Proceso : EnManos(q, PuntosMano, h)' => EnManos(q, PuntosMano, h),
         h \in g_blocked_threads' <=> h \in g_blocked_threads
  PROVE  Conserva(h)
<1>1. \A l \in Clase : \A x \in Donde : Puesto(h, l, x)' => Puesto(h, l, x)
  BY DEF Puesto, Elementos, PuntosSuelta, PuntosMano
<1>2. \A l \in Retiene : \A x \in Donde : Puesto(h, l, x) => Puesto(h, l, x)'
  BY DEF Puesto, Retiene, Elementos, PuntosSuelta, PuntosMano
<1> QED BY <1>1, <1>2 DEF Conserva

(* h leaves its place, (l, x), and turns up at (m, y) only.                  *)
LEMMA MudaSi ==
  ASSUME UnPuesto, NEW h \in Hilo, NEW l \in Clase, NEW x \in Donde, NEW m \in Clase, NEW y \in Donde,
         Puesto(h, l, x), ~ Puesto(h, l, x)' \/ (l = m /\ x = y), Puesto(h, m, y)',
         \A k \in Clase : \A z \in Donde : Puesto(h, k, z)' => Puesto(h, k, z) \/ (k = m /\ z = y),
         h \in g_blocked_threads' <=> m \in Retiene
  PROVE  Muda(h, m, y)
BY DEF Muda, UnPuesto

-------------------------------------------------------------------------------
(* What every step of a handler has in common *)

(* The packet p serves stays at the head of its connection, or is consumed.  *)
SigueOConsume(p) == pedido' = pedido \/ ConsumirPedido(p)

LEMMA PedidoTrasPaso ==
  ASSUME InvarianteC, NEW p \in Proceso, NEW l, NEW op, NEW arg, En(p, l, op, arg), SigueOConsume(p)
  PROVE  /\ \A q \in Proceso \ {p} : pedido'[q] = pedido[q]
         /\ DOMAIN pedido[p] = 1 .. Len(pedido[p]) /\ Len(pedido[p]) \in Nat \ {0}
         /\ ConsumirPedido(p) =>
              /\ DOMAIN pedido'[p] = 1 .. Len(pedido[p]) - 1
              /\ Len(pedido'[p]) = Len(pedido[p]) - 1
              /\ pedido'[p] = <<>> <=> Len(pedido[p]) = 1
              /\ \A i \in 1 .. Len(pedido[p]) - 1 : pedido'[p][i] = pedido[p][i + 1]
<1>1. ConexionTipo
  BY DEF InvarianteC, TiposC
<1>2. Recibido(p, op, arg) /\ pedido[p] # <<>>
  BY EnHechos
<1>3. DOMAIN pedido[p] = 1 .. Len(pedido[p]) /\ Len(pedido[p]) \in Nat \ {0}
  BY <1>2, HechosC
<1>4. CASE pedido' = pedido /\ ~ ConsumirPedido(p)
  BY <1>3, <1>4
<1>5. CASE ConsumirPedido(p)
  BY <1>1, <1>2, <1>3, <1>5, ConsumoC
<1> QED BY <1>4, <1>5 DEF SigueOConsume

(* No step of a handler adds a creation, nor brings one back.                *)
LEMMA PorCrearPaso ==
  ASSUME InvarianteC, NEW p \in Proceso, NEW l, NEW op, NEW arg, En(p, l, op, arg),
         NEW sig, NEW t, NEW n, IrA(p, sig, t, n), SigueOConsume(p),
         l \in {"create_cargar", "create_guardar"} =>
           sig \in {"create_cargar", "create_guardar"} \/ ConsumirPedido(p)
  PROVE  \A h \in Hilo : PorCrear(h)' => PorCrear(h)
<1> SUFFICES ASSUME NEW h \in Hilo, PorCrear(h)' PROVE PorCrear(h)
  OBVIOUS
<1>1. pc' = [pc EXCEPT ![p] = sig] /\ pc \in [Proceso -> Punto] /\ pc[p] = l
  BY TiposHechos, EnHechos DEF IrA
<1>2. padre[h] \in Proceso
  BY HilosAssumption
<1>3. PICK i \in DOMAIN pedido'[padre[h]] :
        /\ pedido'[padre[h]][i] = [op |-> "SUSE_CREATE", arg |-> h]
        /\ i = 1 => pc'[padre[h]] \notin {"create_cargar", "create_guardar"}
  BY DEF PorCrear
<1>4. CASE padre[h] # p
  <2>1. pedido'[padre[h]] = pedido[padre[h]] /\ pc'[padre[h]] = pc[padre[h]]
    BY <1>1, <1>2, <1>4, PedidoTrasPaso
  <2> QED BY <1>3, <2>1 DEF PorCrear
<1>5. CASE padre[h] = p /\ ConsumirPedido(p)
  <2>1. i \in 1 .. Len(pedido[p]) - 1 /\ Len(pedido[p]) \in Nat /\ pedido'[p][i] = pedido[p][i + 1]
        /\ DOMAIN pedido[p] = 1 .. Len(pedido[p])
    BY <1>3, <1>5, PedidoTrasPaso
  <2>2. i + 1 \in DOMAIN pedido[p] /\ i + 1 # 1
    BY <2>1
  <2> QED BY <1>3, <1>5, <2>1, <2>2 DEF PorCrear
<1>6. CASE padre[h] = p /\ ~ ConsumirPedido(p)
  <2>1. pedido' = pedido
    BY <1>6 DEF SigueOConsume
  <2> QED BY <1>1, <1>3, <1>6, <2>1 DEF PorCrear
<1> QED BY <1>4, <1>5, <1>6

(* The running thread of a process whose request may block or end it is      *)
(* running.                                                                  *)
LEMMA EjecutaAlPedir ==
  ASSUME InvarianteC, NEW p \in Proceso, NEW l, NEW op, NEW arg, En(p, l, op, arg),
         op \in OpConRespuesta \ {"SUSE_SCHEDULE_NEXT"}, l \notin PuntosJoin \cup PuntosClose
  PROVE  Ejecuta(p) /\ Corre(running_thread[p])
<1>1. /\ etapa[p] = "bucle" /\ pc[p] = l /\ pedido[p] # <<>>
      /\ pedido[p][1] = [op |-> op, arg |-> arg]
      /\ running_thread[p] # Nulo /\ padre[running_thread[p]] = p
  BY EnHechos
<1>2. InvPedidoC(p) /\ DOMAIN pedido[p] = 1 .. Len(pedido[p]) /\ Len(pedido[p]) \in Nat /\ Len(pedido[p]) # 0
  BY <1>1, HechosC
<1>3. op # "SUSE_CREATE"
  BY DEF OpConRespuesta
<1>4. Len(pedido[p]) = 1
  <2>1. 1 \in DOMAIN pedido[p] /\ pedido[p][1].op # "SUSE_CREATE"
    BY <1>1, <1>2, <1>3
  <2> QED BY <1>2, <2>1 DEF InvPedidoC, Pide
<1> QED BY <1>1, <1>3, <1>4 DEF Ejecuta, Corre, Pide

(* Once a request other than schedule_next is answered, or a join or a close *)
(* is past its first step, the process asks for the next thread.             *)
LEMMA NoEjecutaDespues ==
  ASSUME InvarianteC, NEW p \in Proceso, NEW l, NEW op, NEW arg, En(p, l, op, arg),
         op \in OpConRespuesta \ {"SUSE_SCHEDULE_NEXT"},
         NEW sig, NEW t, NEW n, IrA(p, sig, t, n),
         ConsumirPedido(p) \/ (pedido' = pedido /\ sig \in PuntosJoin \cup PuntosClose)
  PROVE  ~ Ejecuta(p)'
<1>1. fase' = fase /\ pedido[p] # <<>> /\ pedido[p][1] = [op |-> op, arg |-> arg]
      /\ etapa[p] = "bucle" /\ running_thread[p] # Nulo
  BY EnHechos
<1>2. pc'[p] = sig
  BY TiposHechos DEF IrA
<1>3. op \notin {"SUSE_CREATE", "SUSE_SCHEDULE_NEXT", "corriendo", "terminado"}
  BY DEF OpConRespuesta
<1>4. CASE ConsumirPedido(p)
  <2>1. pedido'[p] = <<>> /\ fase[p] \in {op, "terminado"}
    BY <1>4, AtencionC
  <2> QED BY <1>1, <1>3, <2>1 DEF Ejecuta
<1>5. CASE pedido' = pedido /\ sig \in PuntosJoin \cup PuntosClose
  <2>1. 1 \in DOMAIN pedido[p]
    BY <1>1, HechosC
  <2>2. fase[p] # "corriendo"
    BY <1>1, <1>3, <2>1, HechosC DEF InvFaseC, Pide
  <2> QED BY <1>1, <1>2, <1>5, <2>2 DEF Ejecuta
<1> QED BY <1>4, <1>5

(* The answer to a request, or a step within its handler, makes no thread    *)
(* run.                                                                      *)
LEMMA CorrePaso ==
  ASSUME InvarianteC, NEW p \in Proceso, NEW l, NEW op, NEW arg, En(p, l, op, arg),
         NEW sig, NEW t, NEW n, IrA(p, sig, t, n), SigueOConsume(p),
         op # "SUSE_SCHEDULE_NEXT" \/ pedido' = pedido, op \in OpConRespuesta \cup {"SUSE_CREATE"},
         l \in PuntosJoin \cup PuntosClose =>
           op # "SUSE_CREATE" /\ (ConsumirPedido(p) \/ sig \in PuntosJoin \cup PuntosClose),
         running_thread' = running_thread,
         \A h \in Hilo : estado'[h] = "RUNNING" => estado[h] = "RUNNING"
  PROVE  \A h \in Hilo : Corre(h)' => Corre(h)
<1>1. \A q \in Proceso : Ejecuta(q)' => Ejecuta(q)
  <2> SUFFICES ASSUME NEW q \in Proceso, Ejecuta(q)' PROVE Ejecuta(q)
    OBVIOUS
  <2>1. /\ etapa' = etapa /\ fase' = fase /\ pedido[p] # <<>> /\ etapa[p] = "bucle" /\ pc[p] = l
        /\ pedido[p][1] = [op |-> op, arg |-> arg] /\ running_thread[p] # Nulo
    BY EnHechos
  <2>2. /\ pc'[p] = sig /\ \A x \in Proceso \ {p} : pc'[x] = pc[x]
    BY TiposHechos DEF IrA
  <2>3. /\ \A x \in Proceso \ {p} : pedido'[x] = pedido[x]
        /\ DOMAIN pedido[p] = 1 .. Len(pedido[p]) /\ Len(pedido[p]) \in Nat \ {0}
    BY PedidoTrasPaso
  <2>4. CASE q # p
    <3>1. pedido'[q] = pedido[q] /\ pc'[q] = pc[q]
      BY <2>2, <2>3, <2>4
    <3> QED BY <2>1, <3>1 DEF Ejecuta, Pide
  <2>5. CASE q = p /\ ~ ConsumirPedido(p)
    <3>1. pedido' = pedido
      BY <2>5 DEF SigueOConsume
    <3> QED BY <2>1, <2>2, <2>5, <3>1 DEF Ejecuta, Pide
  <2>6. CASE q = p /\ ConsumirPedido(p) /\ op \in OpConRespuesta \ {"SUSE_SCHEDULE_NEXT"}
    BY <2>6, NoEjecutaDespues
  <2>7. CASE q = p /\ ConsumirPedido(p) /\ op = "SUSE_CREATE"
    <3>1. /\ DOMAIN pedido'[p] = 1 .. Len(pedido[p]) - 1 /\ Len(pedido'[p]) = Len(pedido[p]) - 1
          /\ pedido'[p] = <<>> <=> Len(pedido[p]) = 1
          /\ \A i \in 1 .. Len(pedido[p]) - 1 : pedido'[p][i] = pedido[p][i + 1]
      BY <2>7, PedidoTrasPaso
    <3>2. CASE Len(pedido[p]) = 1
      <4>1. pedido[p][Len(pedido[p])].op = "SUSE_CREATE"
        BY <2>1, <2>7, <3>2
      <4>2. fase[p] # "SUSE_SCHEDULE_NEXT"
        BY <2>1, <4>1, HechosC DEF InvFaseC, Pendiente, RespondidoC, SinNadaQueEjecutar, Pide, OpConRespuesta
      <4> QED BY <2>1, <2>7, <3>1, <3>2, <4>2 DEF Ejecuta
    <3>3. CASE Len(pedido[p]) # 1
      <4>1. /\ Len(pedido[p]) - 1 \in 1 .. Len(pedido[p]) - 1
            /\ pedido'[p][Len(pedido'[p])] = pedido[p][Len(pedido[p])]
        BY <2>3, <3>1, <3>3
      <4> QED BY <2>1, <2>7, <3>1, <3>3, <4>1 DEF Ejecuta, Pide
    <3> QED BY <3>2, <3>3
  <2>8. CASE q = p /\ ConsumirPedido(p) /\ op = "SUSE_SCHEDULE_NEXT"
    <3>1. pedido' = pedido /\ pedido'[p] # pedido[p]
      <4>1. Len(pedido'[p]) = Len(pedido[p]) - 1
        BY <2>8, PedidoTrasPaso
      <4> QED BY <2>3, <2>8, <4>1
    <3> QED BY <3>1
  <2> QED BY <2>4, <2>5, <2>6, <2>7, <2>8 DEF SigueOConsume
<1> QED BY <1>1, HilosAssumption DEF Corre

LEMMA InvLugaresPaso ==
  ASSUME InvarianteC, InvLugares, NEW p \in Proceso, NEW l, NEW op, NEW arg, En(p, l, op, arg),
         NEW sig, NEW t, NEW n, IrA(p, sig, t, n), SigueOConsume(p),
         sig \in PuntosSuelta => op = "SUSE_SIGNAL" /\ pedido' = pedido,
         SinRepetidos(g_new_threads'), \A s \in Semaforo : SinRepetidos(cola'[s]),
         g_blocked_threads' \subseteq Hilo,
         \A h \in g_exit_threads' : h \in g_exit_threads \/ Conocido(h),
         \A h \in Hilo : Conserva(h) \/ \E m \in Clase : \E x \in Donde : Muda(h, m, x)
  PROVE  InvLugares'
<1>1. UnPuesto' /\ BloqueadosRetenidos'
  BY PuestosTrasPaso DEF InvLugares
<1>2. /\ pedido[p] # <<>> /\ Head(pedido[p]) = [op |-> op, arg |-> arg]
      /\ \A h : Conocido(h) => Conocido(h)'
  BY EnHechos DEF Recibido
<1>3. CreacionesDistintas'
  <2> SUFFICES ASSUME NEW q \in Proceso, NEW i \in DOMAIN pedido'[q], NEW j \in DOMAIN pedido'[q],
                      Pide(q, i, "SUSE_CREATE")', pedido'[q][j] = pedido'[q][i]
               PROVE  i = j
    BY DEF CreacionesDistintas
  <2>1. CreacionesDistintas
    BY DEF InvLugares
  <2>2. CASE pedido'[q] = pedido[q]
    BY <2>1, <2>2 DEF CreacionesDistintas, Pide
  <2>3. CASE q = p /\ ConsumirPedido(p)
    <3>1. /\ DOMAIN pedido[p] = 1 .. Len(pedido[p]) /\ Len(pedido[p]) \in Nat
          /\ DOMAIN pedido'[p] = 1 .. Len(pedido[p]) - 1
          /\ \A k \in 1 .. Len(pedido[p]) - 1 : pedido'[p][k] = pedido[p][k + 1]
      BY <2>3, PedidoTrasPaso
    <3>2. /\ i + 1 \in DOMAIN pedido[p] /\ j + 1 \in DOMAIN pedido[p] /\ i \in Int /\ j \in Int
          /\ pedido'[p][i] = pedido[p][i + 1] /\ pedido'[p][j] = pedido[p][j + 1]
      BY SMTT(30), <2>3, <3>1
    <3>3. i + 1 = j + 1
      BY <2>1, <2>3, <3>2 DEF CreacionesDistintas, Pide
    <3> QED BY <3>2, <3>3
  <2>4. pedido'[q] = pedido[q] \/ (q = p /\ ConsumirPedido(p))
    BY PedidoTrasPaso DEF SigueOConsume
  <2> QED BY <2>2, <2>3, <2>4
<1>4. PuntoDeSignal'
  <2> SUFFICES ASSUME NEW q \in Proceso, pc'[q] \in PuntosSuelta
               PROVE  Head(pedido'[q]).op = "SUSE_SIGNAL"
    BY DEF PuntoDeSignal, PuntosSuelta
  <2>1. pc'[p] = sig /\ \A x \in Proceso \ {p} : pc'[x] = pc[x]
    BY TiposHechos DEF IrA
  <2>2. CASE q = p
    BY <1>2, <2>1, <2>2
  <2>3. CASE q # p
    BY <2>1, <2>3, PedidoTrasPaso DEF InvLugares, PuntoDeSignal
  <2> QED BY <2>2, <2>3
<1>5. \A h \in g_exit_threads' : Conocido(h)'
  BY <1>2 DEF InvLugares
<1> QED BY <1>1, <1>3, <1>4, <1>5 DEF InvLugares, SinRepetidos

(* The handlers of the others hold what they held.                           *)
LEMMA ManosPaso ==
  ASSUME InvarianteC, NEW p \in Proceso, NEW l, NEW op, NEW arg, En(p, l, op, arg),
         NEW sig, NEW t, NEW n, IrA(p, sig, t, n)
  PROVE  /\ \A h : \A ps : \A q \in Proceso \ {p} : EnManos(q, ps, h)' <=> EnManos(q, ps, h)
         /\ \A h : \A ps : EnManos(p, ps, h)' <=> sig \in ps /\ t = h
         /\ \A h : \A ps : EnManos(p, ps, h) <=> l \in ps /\ hilo[p] = h
         /\ pc'[p] = sig /\ hilo'[p] = t /\ pc[p] = l
         /\ \A q \in Proceso \ {p} : pc'[q] = pc[q] /\ hilo'[q] = hilo[q]
         /\ \A h \in Hilo : padre[h] # p /\ running_thread'[padre[h]] = running_thread[padre[h]] =>
              (Une(h)' <=> Une(h))
<1>1. /\ pc'[p] = sig /\ hilo'[p] = t /\ pc[p] = l
      /\ \A q \in Proceso \ {p} : pc'[q] = pc[q] /\ hilo'[q] = hilo[q]
  <2>1. pc[p] = l
    BY EnHechos
  <2> QED BY <2>1, TiposHechos DEF IrA
<1>2. /\ \A h : \A ps : \A q \in Proceso \ {p} : EnManos(q, ps, h)' <=> EnManos(q, ps, h)
      /\ \A h : \A ps : EnManos(p, ps, h)' <=> sig \in ps /\ t = h
      /\ \A h : \A ps : EnManos(p, ps, h) <=> l \in ps /\ hilo[p] = h
  BY <1>1 DEF EnManos
<1>3. \A h \in Hilo : padre[h] # p /\ running_thread'[padre[h]] = running_thread[padre[h]] =>
        (Une(h)' <=> Une(h))
  BY <1>1, HilosAssumption DEF Une, PuntosJoin
<1> QED BY <1>1, <1>2, <1>3

(* A step that moves no thread: at most, one that was running no longer is.  *)
LEMMA PasoSinMover ==
  ASSUME InvarianteC, InvLugares, NEW p \in Proceso, NEW l, NEW op, NEW arg, En(p, l, op, arg),
         NEW sig, NEW t, NEW n, IrA(p, sig, t, n), SigueOConsume(p),
         UNCHANGED <<ready, g_new_threads, g_blocked_threads, g_exit_threads, threads_bloqueados, cola,
                     running_thread>>,
         op \in (OpConRespuesta \ {"SUSE_SCHEDULE_NEXT"}) \cup {"SUSE_CREATE"} \/ pedido' = pedido,
         op \in OpConRespuesta \cup {"SUSE_CREATE"},
         \A h \in Hilo : estado'[h] = "RUNNING" => estado[h] = "RUNNING",
         l \in {"create_cargar", "create_guardar"} =>
           sig \in {"create_cargar", "create_guardar"} \/ ConsumirPedido(p),
         l \in PuntosJoin \cup PuntosClose =>
           op # "SUSE_CREATE" /\ (ConsumirPedido(p) \/ sig \in PuntosJoin \cup PuntosClose),
         l \in PuntosSuelta <=> sig \in PuntosSuelta,
         sig \in PuntosSuelta => op = "SUSE_SIGNAL" /\ pedido' = pedido /\ t = hilo[p],
         sig \notin PuntosMano, l \in PuntosJoin <=> sig \in PuntosJoin
  PROVE  InvLugares'
<1>1. ASSUME NEW h \in Hilo PROVE Conserva(h)
  <2>1. PorCrear(h)' => PorCrear(h)
    BY PorCrearPaso
  <2>2. Corre(h)' => Corre(h)
    BY CorrePaso
  <2>3. Une(h)' <=> Une(h)
    BY ManosPaso DEF Une, PuntosJoin
  <2>4. \A q \in Proceso : EnManos(q, PuntosSuelta, h)' <=> EnManos(q, PuntosSuelta, h)
    BY ManosPaso
  <2>5. \A q \in Proceso : EnManos(q, PuntosMano, h)' => EnManos(q, PuntosMano, h)
    BY ManosPaso
  <2> QED BY <2>1, <2>2, <2>3, <2>4, <2>5, ConservaSi
<1>2. /\ SinRepetidos(g_new_threads') /\ (\A s \in Semaforo : SinRepetidos(cola'[s]))
      /\ g_blocked_threads' \subseteq Hilo /\ g_exit_threads' = g_exit_threads
  BY DEF InvLugares
<1> QED BY <1>1, <1>2, InvLugaresPaso

(* What is enough for h to leave its place, (l, x), for (m, y) and no other. *)
LEMMA MudaDe ==
  ASSUME UnPuesto, NEW h \in Hilo, NEW l \in Clase, NEW x \in Donde, NEW m \in Clase, NEW y \in Donde,
         Puesto(h, l, x), ~ Puesto(h, l, x)', Puesto(h, m, y)',
         PorCrear(h)' => PorCrear(h), Corre(h)' => Corre(h) \/ m = "corre",
         Une(h)' => Une(h) \/ m = "une",
         h \in ready'[padre[h]] => h \in ready[padre[h]] \/ m = "ready",
         h \in Elementos(g_new_threads') => h \in Elementos(g_new_threads) \/ m = "new",
         h \in g_exit_threads' => h \in g_exit_threads \/ m = "exit",
         \A s \in Semaforo : h \in Elementos(cola'[s]) =>
           h \in Elementos(cola[s]) \/ (m = "cola" /\ y = s),
         \A t \in Hilo : h \in threads_bloqueados'[t] =>
           h \in threads_bloqueados[t] \/ (m = "join" /\ y = t),
         \A q \in Proceso : EnManos(q, PuntosSuelta, h)' =>
           EnManos(q, PuntosSuelta, h) \/ (m = "suelta" /\ y = q),
         \A q \in Proceso : EnManos(q, PuntosMano, h)' =>
           EnManos(q, PuntosMano, h) \/ (m = "mano" /\ y = q),
         h \in g_blocked_threads' <=> m \in Retiene
  PROVE  Muda(h, m, y)
<1>1. ASSUME NEW k \in Clase, NEW z \in Donde, Puesto(h, k, z)'
      PROVE  Puesto(h, k, z) \/ (k = m /\ z = y)
  <2>1. m \notin {"cola", "join", "suelta", "mano"} => y = Nulo
    BY DEF Puesto
  <2> QED BY <1>1, <2>1 DEF Puesto, Elementos, PuntosSuelta, PuntosMano
<1> QED BY <1>1, MudaSi

-------------------------------------------------------------------------------
(* suse_create *)

LEMMA CreacionEnCurso ==
  ASSUME InvarianteC, InvLugares, NEW p \in Proceso, NEW l, NEW h \in Hilo, En(p, l, "SUSE_CREATE", h),
         NEW sig, NEW t, NEW n, IrA(p, sig, t, n),
         ConsumirPedido(p) \/ (pedido' = pedido /\ sig \in {"create_cargar", "create_guardar"})
  PROVE  /\ padre[h] = p /\ Conocido(h) /\ ~ PorCrear(h)'
         /\ l \notin {"create_cargar", "create_guardar"} => PorCrear(h)
<1>1. /\ pedido[p] # <<>> /\ pedido[p][1] = [op |-> "SUSE_CREATE", arg |-> h] /\ etapa[p] = "bucle"
      /\ pc[p] = l
  BY EnHechos
<1>2. 1 \in DOMAIN pedido[p] /\ Pide(p, 1, "SUSE_CREATE") /\ pedido[p][1].arg = h
  BY <1>1, HechosC DEF Pide
<1>3. padre[h] = p /\ h \in ults[p]
  BY <1>2, HechosC DEF InvPedidoC
<1>4. \A i \in DOMAIN pedido[p] : pedido[p][i] = [op |-> "SUSE_CREATE", arg |-> h] => i = 1
  BY <1>1, <1>2 DEF InvLugares, CreacionesDistintas
<1>5. ~ PorCrear(h)'
  <2>1. CASE ConsumirPedido(p)
    <3>1. /\ DOMAIN pedido[p] = 1 .. Len(pedido[p]) /\ Len(pedido[p]) \in Nat
          /\ DOMAIN pedido'[p] = 1 .. Len(pedido[p]) - 1
          /\ \A i \in 1 .. Len(pedido[p]) - 1 : pedido'[p][i] = pedido[p][i + 1]
      BY <2>1, PedidoTrasPaso DEF SigueOConsume
    <3>2. \A i \in DOMAIN pedido'[p] : i + 1 \in DOMAIN pedido[p] /\ i + 1 # 1
      BY <3>1
    <3> QED BY <1>3, <1>4, <3>1, <3>2 DEF PorCrear
  <2>2. CASE pedido' = pedido /\ sig \in {"create_cargar", "create_guardar"}
    <3>1. pc'[p] = sig
      BY ManosPaso
    <3> QED BY <1>3, <1>4, <2>2, <3>1 DEF PorCrear
  <2> QED BY <2>1, <2>2
<1>6. l \notin {"create_cargar", "create_guardar"} => PorCrear(h)
  BY <1>1, <1>2, <1>3 DEF PorCrear
<1> QED BY <1>1, <1>3, <1>5, <1>6 DEF Conocido

LEMMA LugaresCreate ==
  ASSUME InvarianteC, InvLugares, NEW p \in Proceso, Create(p)
  PROVE  InvLugares'
<1>1. /\ threads_bloqueados' = threads_bloqueados /\ running_thread' = running_thread
      /\ g_blocked_threads' = g_blocked_threads /\ g_exit_threads' = g_exit_threads
      /\ cola' = cola
  BY DEF Create, semaforos
<1>2. PICK h \in Hilo : \/ CreateMirarLugar(p, h) \/ CreateAdmitir(p, h) \/ CreateCargar(p, h)
                        \/ CreateGuardar(p, h) \/ CreateEncolar(p, h)
  BY DEF Create
<1> DEFINE Sigue(l, sig, t, n) ==
      En(p, l, "SUSE_CREATE", h) /\ IrA(p, sig, t, n) /\ SigueOConsume(p)
<1>3. /\ UnPuesto /\ g_blocked_threads \subseteq Hilo /\ SinRepetidos(g_new_threads)
      /\ \A s \in Semaforo : SinRepetidos(cola[s])
  BY DEF InvLugares
(* The two steps that move the thread to create, from the request.           *)
<1>4. ASSUME NEW l \in {"create_admitir", "create_encolar"}, NEW sig, NEW t, NEW n, Sigue(l, sig, t, n),
             \/ sig = "create_cargar" /\ pedido' = pedido
             \/ sig = "inicio" /\ ConsumirPedido(p),
             NEW m \in {"ready", "new"},
             m = "ready" => ready' = [ready EXCEPT ![p] = @ \cup {h}] /\ g_new_threads' = g_new_threads,
             m = "new" => g_new_threads' = Append(g_new_threads, h) /\ ready' = ready,
             NEW e \in Estado \ {"RUNNING"}, estado' = [estado EXCEPT ![h] = e]
      PROVE  InvLugares'
  <2>1. padre[h] = p /\ ~ PorCrear(h)' /\ PorCrear(h)
    BY <1>4, CreacionEnCurso
  <2>2. \A g \in Hilo : PorCrear(g)' => PorCrear(g)
    BY <1>4, PorCrearPaso
  <2>3. \A g \in Hilo : Corre(g)' => Corre(g)
    <3>1. \A g \in Hilo : estado'[g] = "RUNNING" => estado[g] = "RUNNING"
      BY <1>4, TiposHechos
    <3> QED BY <1>1, <1>4, <3>1, CorrePaso DEF PuntosJoin, PuntosClose
  <2>4. \A g \in Hilo : Une(g)' <=> Une(g)
    BY <1>1, <1>4, ManosPaso DEF Une, PuntosJoin
  <2>5. /\ \A g \in Hilo, q \in Proceso : EnManos(q, PuntosSuelta, g)' <=> EnManos(q, PuntosSuelta, g)
        /\ \A g \in Hilo, q \in Proceso : EnManos(q, PuntosMano, g)' => EnManos(q, PuntosMano, g)
    BY <1>4, ManosPaso DEF PuntosSuelta, PuntosMano
  <2>6. ASSUME m = "new" PROVE Elementos(g_new_threads') = Elementos(g_new_threads) \cup {h}
    <3>1. g_new_threads \in Seq(Hilo) /\ g_new_threads' = Append(g_new_threads, h)
      BY <1>4, <2>6, TiposHechos
    <3> QED BY <3>1, Agregar
  <2>7. ASSUME m = "ready"
        PROVE  h \in ready'[p] /\ \A q \in Proceso : \A g \in ready'[q] : g \in ready[q] \/ g = h
    <3>1. ready \in [Proceso -> SUBSET Hilo] /\ ready' = [ready EXCEPT ![p] = @ \cup {h}]
      BY <1>4, <2>7, TiposHechos
    <3> QED BY <3>1
  <2>8. Puesto(h, "pedida", Nulo) /\ ~ Puesto(h, "pedida", Nulo)'
    BY <2>1 DEF Puesto
  <2>9. Puesto(h, m, Nulo)'
    BY <2>1, <2>6, <2>7 DEF Puesto, Elementos
  <2>10. h \notin g_blocked_threads
    BY <1>3, <2>8 DEF InvLugares, BloqueadosRetenidos, UnPuesto, Retiene, Clase, Donde
  <2>11. Muda(h, m, Nulo)
    <3>1. m \in Clase /\ "pedida" \in Clase /\ Nulo \in Donde /\ m \notin Retiene
      BY DEF Clase, Donde, Retiene
    <3>2. h \in ready'[padre[h]] => h \in ready[padre[h]] \/ m = "ready"
      BY <1>4, <2>1
    <3>3. h \in Elementos(g_new_threads') => h \in Elementos(g_new_threads) \/ m = "new"
      BY <1>4
    <3> QED BY <1>1, <1>3, <2>2, <2>3, <2>4, <2>5, <2>8, <2>9, <2>10, <3>1, <3>2, <3>3, MudaDe
  <2>12. ASSUME NEW g \in Hilo, g # h PROVE Conserva(g)
    <3>1. g \in ready'[padre[g]] => g \in ready[padre[g]]
      BY <1>4, <2>7, <2>12, HilosAssumption
    <3>2. g \in Elementos(g_new_threads') => g \in Elementos(g_new_threads)
      BY <1>4, <2>6, <2>12
    <3> QED BY <1>1, <2>2, <2>3, <2>4, <2>5, <3>1, <3>2, ConservaSi
  <2>13. SinRepetidos(g_new_threads')
    <3>1. h \notin Elementos(g_new_threads)
      BY <1>3, <2>8 DEF UnPuesto, Clase, Donde, Puesto
    <3>2. CASE m = "new"
      <4>1. g_new_threads \in Seq(Hilo) /\ g_new_threads' = Append(g_new_threads, h)
        BY <1>4, <3>2, TiposHechos
      <4> QED BY <1>3, <3>1, <4>1, SinRepetidosAgregar
    <3> QED BY <1>3, <1>4, <3>2
  <2>14. m \in Clase /\ Nulo \in Donde
    BY DEF Clase, Donde
  <2> QED BY <1>1, <1>3, <1>4, <2>11, <2>12, <2>13, <2>14, InvLugaresPaso DEF PuntosSuelta
<1>5. ASSUME NEW l \in {"inicio", "create_cargar", "create_guardar"},
             NEW sig \in {"inicio", "create_admitir", "create_encolar", "create_guardar"}, NEW t, NEW n,
             Sigue(l, sig, t, n), l # "inicio" => sig = "create_guardar" \/ ConsumirPedido(p),
             UNCHANGED <<estado, ready, g_new_threads>>
      PROVE  InvLugares'
  <2>1. UNCHANGED <<ready, g_new_threads, g_blocked_threads, g_exit_threads, threads_bloqueados, cola,
                    running_thread>>
    BY <1>1, <1>5
  <2> QED BY <1>5, <2>1, PasoSinMover DEF PuntosJoin, PuntosClose, PuntosSuelta, PuntosMano
<1>6. CASE CreateMirarLugar(p, h)
  <2>1. PICK sig \in {"create_admitir", "create_encolar"} : IrA(p, sig, hilo[p], leido[p])
    BY <1>6 DEF CreateMirarLugar, Seguir, SeguirCon
  <2>2. Sigue("inicio", sig, hilo[p], leido[p])
    BY <1>6, <2>1 DEF CreateMirarLugar, Seguir, SeguirCon, SigueOConsume
  <2> QED BY <1>5, <1>6, <2>2 DEF CreateMirarLugar
<1>7. CASE CreateAdmitir(p, h)
  <2>1. Sigue("create_admitir", "create_cargar", hilo[p], leido[p]) /\ pedido' = pedido
    BY <1>7 DEF CreateAdmitir, Seguir, SeguirCon, SigueOConsume
  <2> QED BY <1>4, <1>7, <2>1 DEF CreateAdmitir, Estado
<1>8. CASE CreateCargar(p, h)
  <2>1. Sigue("create_cargar", "create_guardar", hilo[p], g_multiprog_max)
    BY <1>8 DEF CreateCargar, Cargar, SeguirCon, SigueOConsume
  <2> QED BY <1>5, <1>8, <2>1 DEF CreateCargar
<1>9. CASE CreateGuardar(p, h)
  <2>1. Sigue("create_guardar", "inicio", Nulo, 0) /\ ConsumirPedido(p)
    BY <1>9 DEF CreateGuardar, Terminar, SigueOConsume
  <2> QED BY <1>5, <1>9, <2>1 DEF CreateGuardar
<1>10. CASE CreateEncolar(p, h)
  <2>1. Sigue("create_encolar", "inicio", Nulo, 0) /\ ConsumirPedido(p)
    BY <1>10 DEF CreateEncolar, Terminar, SigueOConsume
  <2> QED BY <1>4, <1>10, <2>1 DEF CreateEncolar, Estado
<1> QED BY <1>2, <1>6, <1>7, <1>8, <1>9, <1>10

-------------------------------------------------------------------------------
(* suse_close and suse_join *)

(* A thread is in one place at most.                                         *)
LEMMA PuestoUnico ==
  ASSUME InvLugares, NEW h \in Hilo, NEW l \in Clase, NEW x \in Donde, Puesto(h, l, x)
  PROVE  /\ \A m \in Clase : \A y \in Donde : Puesto(h, m, y) => m = l /\ y = x
         /\ h \in g_blocked_threads <=> l \in Retiene
<1> HIDE DEF Puesto
<1>1. \A m \in Clase : \A y \in Donde : Puesto(h, m, y) => m = l /\ y = x
  BY DEF InvLugares, UnPuesto
<1>2. Retiene \subseteq Clase
  BY DEF Retiene, Clase
<1> QED BY <1>1, <1>2 DEF InvLugares, BloqueadosRetenidos

LEMMA LugaresDespertar ==
  ASSUME InvarianteC, InvLugares, NEW p \in Proceso, NEW h, CloseDespertar(p, h),
         UNCHANGED <<running_thread, semaforos>>
  PROVE  InvLugares'
<1>1. En(p, "inicio", "SUSE_CLOSE", h) /\ cola' = cola /\ g_new_threads' = g_new_threads
  BY DEF CloseDespertar, semaforos
<1>2. PICK t \in Hilo : t = running_thread[p] /\ t # Nulo /\ padre[t] = p /\ Conocido(t)
  BY <1>1, EnHechos
<1>21. PICK T \in SUBSET Hilo : T = threads_bloqueados[t]
  BY <1>2, TiposHechos
<1>3. PICK sig, u, n :
        sig \in {"inicio", "close_new"} /\ IrA(p, sig, u, n) /\ (ConsumirPedido(p) \/ (sig = "close_new" /\ pedido' = pedido))
  BY <1>2 DEF CloseDespertar, TerminarCon, Terminar, Seguir, SeguirCon
<1>4. /\ estado' = [estado EXCEPT ![t] = "EXIT"] /\ g_exit_threads' = g_exit_threads \cup {t}
      /\ g_blocked_threads' = g_blocked_threads \ T /\ ready' = AgregarAReady(T)
      /\ threads_bloqueados' = [threads_bloqueados EXCEPT ![t] = {}]
  BY <1>2, <1>21 DEF CloseDespertar, Despertar, trancisionar_bloqueado_a_ready
<1>5. /\ estado \in [Hilo -> Estado] /\ ready \in [Proceso -> SUBSET Hilo]
      /\ threads_bloqueados \in [Hilo -> SUBSET Hilo]
  BY TiposHechos
<1>6. "SUSE_CLOSE" \in OpConRespuesta \ {"SUSE_SCHEDULE_NEXT"}
  BY DEF OpConRespuesta
<1>7. SigueOConsume(p)
  BY <1>3 DEF SigueOConsume
<1>8. /\ Corre(t) /\ ~ Ejecuta(p)'
  <2>1. Corre(t)
    BY <1>1, <1>2, <1>6, EjecutaAlPedir DEF PuntosJoin, PuntosClose
  <2>2. ~ Ejecuta(p)'
    BY <1>1, <1>3, <1>6, NoEjecutaDespues DEF PuntosClose
  <2> QED BY <2>1, <2>2
<1>9. /\ \A g \in Hilo : PorCrear(g)' => PorCrear(g)
      /\ \A g \in Hilo : Corre(g)' => Corre(g)
      /\ \A g \in Hilo : Une(g)' <=> Une(g)
      /\ \A g \in Hilo, q \in Proceso : EnManos(q, PuntosSuelta, g)' <=> EnManos(q, PuntosSuelta, g)
      /\ \A g \in Hilo, q \in Proceso : EnManos(q, PuntosMano, g)' => EnManos(q, PuntosMano, g)
  <2>1. \A g \in Hilo : PorCrear(g)' => PorCrear(g)
    BY <1>1, <1>3, <1>7, PorCrearPaso
  <2>2. \A g \in Hilo : estado'[g] = "RUNNING" => estado[g] = "RUNNING"
    BY <1>4, <1>5
  <2>3. \A g \in Hilo : Corre(g)' => Corre(g)
    BY <1>1, <1>3, <1>6, <1>7, <2>2, CorrePaso DEF PuntosJoin, PuntosClose
  <2>4. \A g \in Hilo : Une(g)' <=> Une(g)
    BY <1>1, <1>3, ManosPaso DEF Une, PuntosJoin
  <2>5. /\ \A g \in Hilo, q \in Proceso : EnManos(q, PuntosSuelta, g)' <=> EnManos(q, PuntosSuelta, g)
        /\ \A g \in Hilo, q \in Proceso : EnManos(q, PuntosMano, g)' => EnManos(q, PuntosMano, g)
    BY <1>1, <1>3, ManosPaso DEF PuntosSuelta, PuntosMano
  <2> QED BY <2>1, <2>3, <2>4, <2>5
<1>10. UnPuesto /\ Nulo \in Donde /\ {"corre", "exit", "join", "ready"} \subseteq Clase /\ t \in Donde
  BY <1>2 DEF InvLugares, Clase, Donde
<1>11. /\ Puesto(t, "corre", Nulo) /\ t \notin g_blocked_threads /\ t \notin T
       /\ \A m \in Clase : \A y \in Donde : Puesto(t, m, y) => m = "corre"
  <2>1. Puesto(t, "corre", Nulo)
    BY <1>8 DEF Puesto
  <2>2. /\ \A m \in Clase : \A y \in Donde : Puesto(t, m, y) => m = "corre"
        /\ t \notin g_blocked_threads
    BY <1>2, <1>10, <2>1, PuestoUnico DEF Retiene
  <2>3. t \notin T
    BY <1>2, <1>10, <1>21, <2>2 DEF Puesto
  <2> QED BY <2>1, <2>2, <2>3
(* The thread that ends. *)
<1>12. Muda(t, "exit", Nulo)
  <2>1. ~ Puesto(t, "corre", Nulo)'
    BY <1>2, <1>4, <1>5, <1>8 DEF Puesto, Corre
  <2>2. Puesto(t, "exit", Nulo)'
    BY <1>4 DEF Puesto
  <2>3. t \in ready'[padre[t]] => t \in ready[padre[t]]
    BY <1>2, <1>4, <1>11 DEF AgregarAReady
  <2>4. \A x \in Hilo : t \in threads_bloqueados'[x] => t \in threads_bloqueados[x]
    BY <1>2, <1>4, <1>5
  <2>5. "exit" \notin Retiene
    BY DEF Retiene
  <2> QED BY <1>1, <1>2, <1>4, <1>9, <1>10, <1>11, <2>1, <2>2, <2>3, <2>4, <2>5, MudaDe
(* Its joiners. *)
<1>13. ASSUME NEW g \in T PROVE Muda(g, "ready", Nulo)
  <2>1. g \in Hilo /\ Puesto(g, "join", t) /\ ~ Puesto(g, "join", t)'
    BY <1>2, <1>21, <1>4, <1>5 DEF Puesto
  <2>2. Puesto(g, "ready", Nulo)'
    BY <1>4, <2>1, HilosAssumption DEF Puesto, AgregarAReady
  <2>3. g \in g_exit_threads' => g \in g_exit_threads
    BY <1>4, <1>11
  <2>4. \A x \in Hilo : g \in threads_bloqueados'[x] => g \in threads_bloqueados[x]
    BY <1>2, <1>4, <1>5
  <2>5. g \notin g_blocked_threads' /\ "ready" \notin Retiene
    BY <1>4 DEF Retiene
  <2> QED BY <1>1, <1>9, <1>10, <2>1, <2>2, <2>3, <2>4, <2>5, MudaDe
(* The others. *)
<1>14. ASSUME NEW g \in Hilo, g # t, g \notin T PROVE Conserva(g)
  <2>1. g \in ready'[padre[g]] => g \in ready[padre[g]]
    BY <1>4, <1>14, HilosAssumption DEF AgregarAReady
  <2>2. /\ g \in g_exit_threads' => g \in g_exit_threads
        /\ g \in g_blocked_threads' <=> g \in g_blocked_threads
    BY <1>4, <1>14
  <2>3. \A x \in Hilo : g \in threads_bloqueados'[x] <=> g \in threads_bloqueados[x]
    BY <1>2, <1>4, <1>5, <1>14, <1>21
  <2> QED BY <1>1, <1>9, <2>1, <2>2, <2>3, ConservaSi
<1>15. \A g \in Hilo : Conserva(g) \/ \E m \in Clase : \E y \in Donde : Muda(g, m, y)
  BY <1>10, <1>12, <1>13, <1>14
<1>16. /\ g_blocked_threads' \subseteq Hilo
       /\ \A g \in g_exit_threads' : g \in g_exit_threads \/ Conocido(g)
       /\ SinRepetidos(g_new_threads') /\ \A s \in Semaforo : SinRepetidos(cola'[s])
  BY <1>1, <1>2, <1>4 DEF InvLugares
<1> QED BY <1>1, <1>3, <1>7, <1>15, <1>16, InvLugaresPaso DEF PuntosSuelta

(* One thread leaves a place, (k, x), for another, (m, y), and no process    *)
(* gets another running thread.                                              *)
LEMMA PasoDeUno ==
  ASSUME InvarianteC, InvLugares, NEW p \in Proceso, NEW l, NEW op, NEW arg, En(p, l, op, arg),
         NEW sig, NEW u, NEW n, IrA(p, sig, u, n), SigueOConsume(p),
         op \in OpConRespuesta, op # "SUSE_SCHEDULE_NEXT" \/ pedido' = pedido,
         l \notin {"create_cargar", "create_guardar"},
         UNCHANGED <<running_thread, g_exit_threads>>,
         \A g \in Hilo : estado'[g] = "RUNNING" => estado[g] = "RUNNING",
         l \in PuntosJoin \cup PuntosClose => ConsumirPedido(p) \/ sig \in PuntosJoin \cup PuntosClose,
         sig \in PuntosSuelta => op = "SUSE_SIGNAL" /\ pedido' = pedido,
         NEW h \in Hilo, NEW k \in Clase, NEW x \in Donde, NEW m \in Clase \ {"corre"}, NEW y \in Donde,
         Puesto(h, k, x), ~ Puesto(h, k, x)', Puesto(h, m, y)',
         \A q \in Proceso : \A g \in ready'[q] : g \in ready[q] \/ (g = h /\ m = "ready"),
         \A g \in Elementos(g_new_threads') : g \in Elementos(g_new_threads),
         \A s \in Semaforo : \A g \in Hilo \ {h} : g \in Elementos(cola'[s]) <=> g \in Elementos(cola[s]),
         \A s \in Semaforo : h \in Elementos(cola'[s]) => h \in Elementos(cola[s]) \/ (m = "cola" /\ y = s),
         \A t \in Hilo : \A g \in Hilo \ {h} : g \in threads_bloqueados'[t] <=> g \in threads_bloqueados[t],
         \A t \in Hilo : h \in threads_bloqueados'[t] =>
           h \in threads_bloqueados[t] \/ (m = "join" /\ y = t),
         (l \in PuntosJoin <=> sig \in PuntosJoin) \/ running_thread[p] = h,
         sig \in PuntosJoin => l \in PuntosJoin \/ m = "une",
         l \in PuntosSuelta => hilo[p] = h, sig \in PuntosSuelta => u = h /\ m = "suelta" /\ y = p,
         sig \in PuntosMano => u = h /\ m = "mano" /\ y = p,
         SinRepetidos(g_new_threads'), \A s \in Semaforo : SinRepetidos(cola'[s]),
         g_blocked_threads' \subseteq Hilo,
         \A g \in Hilo \ {h} : g \in g_blocked_threads' <=> g \in g_blocked_threads,
         h \in g_blocked_threads' <=> m \in Retiene
  PROVE  InvLugares'
<1>1. \A g \in Hilo : PorCrear(g)' => PorCrear(g)
  BY PorCrearPaso
<1>2. \A g \in Hilo : Corre(g)' => Corre(g)
  BY CorrePaso DEF OpConRespuesta
<1>3. /\ \A g \in Hilo \ {h} : Une(g)' <=> Une(g)
      /\ Une(h)' => Une(h) \/ m = "une"
  <2>1. pc'[p] = sig /\ pc[p] = l /\ \A q \in Proceso \ {p} : pc'[q] = pc[q]
    BY ManosPaso
  <2> QED BY <2>1, HilosAssumption DEF Une, PuntosJoin
<1>4. /\ \A g \in Hilo \ {h} : \A q \in Proceso : EnManos(q, PuntosSuelta, g)' <=> EnManos(q, PuntosSuelta, g)
      /\ \A g \in Hilo \ {h} : \A q \in Proceso : EnManos(q, PuntosMano, g)' => EnManos(q, PuntosMano, g)
      /\ \A q \in Proceso : EnManos(q, PuntosSuelta, h)' =>
           EnManos(q, PuntosSuelta, h) \/ (m = "suelta" /\ y = q)
      /\ \A q \in Proceso : EnManos(q, PuntosMano, h)' =>
           EnManos(q, PuntosMano, h) \/ (m = "mano" /\ y = q)
  BY ManosPaso
<1>5. Muda(h, m, y)
  <2>1. UnPuesto /\ (h \in ready'[padre[h]] => h \in ready[padre[h]] \/ m = "ready")
    BY HilosAssumption DEF InvLugares
  <2> QED BY <1>1, <1>2, <1>3, <1>4, <2>1, MudaDe
<1>6. ASSUME NEW g \in Hilo \ {h} PROVE Conserva(g)
  <2>1. g \in ready'[padre[g]] => g \in ready[padre[g]]
    BY HilosAssumption
  <2> QED BY <1>1, <1>2, <1>3, <1>4, <2>1, ConservaSi
<1> QED BY <1>5, <1>6, InvLugaresPaso

(* The handler of a close or of a join that finds nothing to take ends the   *)
(* server, and no thread moves.                                              *)
LEMMA LugaresIguales ==
  ASSUME InvLugares, UNCHANGED <<vars, locales>>
  PROVE  InvLugares'
<1>1. /\ UNCHANGED <<pedido, etapa, fase, ults, estado, threads_bloqueados, running_thread, ready>>
      /\ UNCHANGED <<g_new_threads, g_blocked_threads, g_exit_threads, cola, pc, hilo>>
  BY DEF vars, conexion, servidor, listas, semaforos, hilolay, locales
<1>2. \A h, l, x : Puesto(h, l, x)' <=> Puesto(h, l, x)
  BY <1>1 DEF Puesto, PorCrear, Corre, Ejecuta, Une, EnManos, Pide, Elementos, PuntosJoin,
              PuntosClose, PuntosSuelta, PuntosMano
<1>3. UnPuesto' /\ BloqueadosRetenidos'
  <2> HIDE DEF Puesto
  <2> QED BY SMTT(30), <1>1, <1>2 DEF InvLugares, UnPuesto, BloqueadosRetenidos, Clase, Donde, Retiene
<1>4. CreacionesDistintas' /\ PuntoDeSignal'
  BY <1>1 DEF InvLugares, CreacionesDistintas, PuntoDeSignal, Pide, PuntosSuelta
<1>5. \A h : Conocido(h) => Conocido(h)'
  BY <1>1 DEF Conocido
<1> QED BY <1>1, <1>3, <1>4, <1>5 DEF InvLugares, SinRepetidos

LEMMA LugaresCaer ==
  ASSUME InvLugares, NEW p \in Proceso, NEW l, NEW op, NEW arg, En(p, l, op, arg), Caer(p),
         UNCHANGED <<listas, semaforos, g_multiprog_max>>
  PROVE  InvLugares'
BY LugaresIguales DEF En, Caer, vars, conexion, servidor, listas, semaforos

LEMMA LugaresClose ==
  ASSUME InvarianteC, InvLugares, NEW p \in Proceso, Close(p)
  PROVE  InvLugares'
<1>1. running_thread' = running_thread /\ cola' = cola /\ UNCHANGED semaforos
  BY DEF Close, semaforos
<1>2. PICK h \in Hilo : \/ CloseDespertar(p, h) \/ CloseMirarNew(p, h) \/ CloseCargar(p, h)
                        \/ CloseGuardar(p, h) \/ CloseSacarDeNew(p, h) \/ CloseAReady(p, h)
  BY DEF Close
<1>3. "SUSE_CLOSE" \in OpConRespuesta
  BY DEF OpConRespuesta
<1>4. /\ g_blocked_threads \subseteq Hilo /\ SinRepetidos(g_new_threads)
      /\ \A s \in Semaforo : SinRepetidos(cola[s])
  BY DEF InvLugares
<1>5. CASE CloseDespertar(p, h)
  BY <1>1, <1>5, LugaresDespertar
<1>6. ASSUME NEW l \in {"close_new", "close_cargar", "close_guardar"}, En(p, l, "SUSE_CLOSE", h),
             NEW sig, NEW u, NEW n, IrA(p, sig, u, n),
             \/ pedido' = pedido /\ sig \in {"close_cargar", "close_sacar", "close_guardar"}
             \/ ConsumirPedido(p) /\ sig = "inicio",
             UNCHANGED <<listasClose, g_new_threads>>
      PROVE  InvLugares'
  <2>1. UNCHANGED <<estado, ready, g_new_threads, g_blocked_threads, g_exit_threads,
                    threads_bloqueados, cola, running_thread>>
    BY <1>1, <1>6 DEF listasClose
  <2> QED BY <1>3, <1>6, <2>1, PasoSinMover
             DEF SigueOConsume, PuntosJoin, PuntosClose, PuntosSuelta, PuntosMano
<1>7. CASE CloseMirarNew(p, h)
  <2>1. PICK sig \in {"close_cargar", "close_sacar"} : IrA(p, sig, hilo[p], leido[p]) /\ pedido' = pedido
    BY <1>7 DEF CloseMirarNew, Seguir, SeguirCon
  <2> QED BY <1>6, <1>7, <2>1 DEF CloseMirarNew
<1>8. CASE CloseCargar(p, h)
  BY <1>6, <1>8 DEF CloseCargar, Cargar, SeguirCon
<1>9. CASE CloseGuardar(p, h)
  BY <1>6, <1>9 DEF CloseGuardar, TerminarCon, Terminar
<1>10. CASE CloseSacarDeNew(p, h) /\ g_new_threads = <<>>
  BY <1>1, <1>10, LugaresCaer DEF CloseSacarDeNew, Close, listas, listasClose
<1>11. CASE CloseSacarDeNew(p, h) /\ g_new_threads # <<>>
  <2>1. PICK t \in Hilo : t = Head(g_new_threads)
    <3>1. g_new_threads \in Seq(Hilo) /\ g_new_threads # <<>>
      BY <1>11, TiposHechos
    <3> QED BY <3>1, Quitar
  <2>2. /\ En(p, "close_sacar", "SUSE_CLOSE", h) /\ IrA(p, "close_a_ready", t, leido[p])
        /\ pedido' = pedido /\ g_new_threads' = Tail(g_new_threads)
        /\ UNCHANGED <<estado, ready, g_blocked_threads, g_exit_threads, threads_bloqueados>>
    BY <1>11, <2>1 DEF CloseSacarDeNew, SeguirConHilo, SeguirCon, listasClose
  <2>3. /\ t \in Elementos(g_new_threads) /\ t \notin Elementos(g_new_threads')
        /\ \A g \in Elementos(g_new_threads') : g \in Elementos(g_new_threads)
        /\ SinRepetidos(g_new_threads')
    <3>1. g_new_threads \in Seq(Hilo) /\ g_new_threads # <<>>
      BY <1>11, TiposHechos
    <3>2. t \in Elementos(g_new_threads) /\ Elementos(g_new_threads') \subseteq Elementos(g_new_threads)
      BY <2>1, <2>2, <3>1, Quitar
    <3>3. SinRepetidos(g_new_threads') /\ t \notin Elementos(g_new_threads')
      BY <1>4, <2>1, <2>2, <3>1, SinRepetidosQuitar
    <3> QED BY <3>2, <3>3
  <2>4. /\ Puesto(t, "new", Nulo) /\ ~ Puesto(t, "new", Nulo)'
        /\ Puesto(t, "mano", p)'
    <3>1. EnManos(p, PuntosMano, t)'
      BY <2>2, ManosPaso DEF PuntosMano
    <3> QED BY <2>3, <3>1 DEF Puesto, Elementos, PuntosMano
  <2>5. {"new", "mano"} \subseteq Clase /\ Nulo \in Donde /\ p \in Donde /\ "mano" \notin Retiene
        /\ "new" \notin Retiene
    BY DEF Clase, Donde, Retiene
  <2>6. t \notin g_blocked_threads'
    BY <2>2, <2>4, <2>5, PuestoUnico
  <2> QED BY <1>1, <1>3, <1>4, <2>2, <2>3, <2>4, <2>5, <2>6, PasoDeUno
             DEF SigueOConsume, PuntosJoin, PuntosClose, PuntosSuelta, PuntosMano
<1>12. CASE CloseAReady(p, h)
  <2>1. PICK t : t = hilo[p]
    OBVIOUS
  <2>2. /\ En(p, "close_a_ready", "SUSE_CLOSE", h) /\ IrA(p, "inicio", Nulo, 0) /\ ConsumirPedido(p)
        /\ estado' = [estado EXCEPT ![t] = "READY"] /\ ready' = AgregarAReady({t})
        /\ UNCHANGED <<g_new_threads, g_blocked_threads, g_exit_threads, threads_bloqueados>>
    BY <1>12, <2>1 DEF CloseAReady, TerminarCon, Terminar
  <2>3. t \in Hilo
    BY <2>1, <2>2, EnHechos, HechosC DEF InvPunto, Conocido
  <2>4. /\ Puesto(t, "mano", p) /\ ~ Puesto(t, "mano", p)' /\ Puesto(t, "ready", Nulo)'
    <3>1. EnManos(p, PuntosMano, t) /\ ~ EnManos(p, PuntosMano, t)'
      BY <2>1, <2>2, ManosPaso DEF PuntosMano
    <3> QED BY <2>2, <2>3, <3>1, HilosAssumption DEF Puesto, AgregarAReady, PuntosMano
  <2>5. {"ready", "mano"} \subseteq Clase /\ Nulo \in Donde /\ p \in Donde
        /\ {"ready", "mano"} \cap Retiene = {}
    BY DEF Clase, Donde, Retiene
  <2>6. t \notin g_blocked_threads'
    BY <2>2, <2>3, <2>4, <2>5, PuestoUnico
  <2>7. \A g \in Hilo : estado'[g] = "RUNNING" => estado[g] = "RUNNING"
    BY <2>2, TiposHechos
  <2>8. \A q \in Proceso : \A g \in ready'[q] : g \in ready[q] \/ g = t
    BY <2>2 DEF AgregarAReady
  <2>9. /\ "ready" \in Clase \ {"corre"} /\ "mano" \in Clase /\ SigueOConsume(p)
        /\ "close_a_ready" \notin PuntosSuelta \cup PuntosJoin /\ "inicio" \notin PuntosJoin
        /\ "inicio" \notin PuntosSuelta /\ "inicio" \notin PuntosMano
    BY <2>2, <2>5 DEF SigueOConsume, PuntosJoin, PuntosSuelta, PuntosMano
  <2>10. /\ En(p, "close_a_ready", "SUSE_CLOSE", h) /\ IrA(p, "inicio", Nulo, 0) /\ ConsumirPedido(p)
         /\ UNCHANGED <<running_thread, g_exit_threads>>
         /\ SinRepetidos(g_new_threads') /\ \A s \in Semaforo : SinRepetidos(cola'[s])
         /\ g_blocked_threads' \subseteq Hilo /\ g_blocked_threads' = g_blocked_threads
         /\ g_new_threads' = g_new_threads /\ cola' = cola /\ threads_bloqueados' = threads_bloqueados
    BY <1>1, <1>4, <2>2
  <2> QED BY <1>3, <2>3, <2>4, <2>5, <2>6, <2>7, <2>8, <2>9, <2>10, PasoDeUno
<1> QED BY <1>2, <1>5, <1>7, <1>8, <1>9, <1>10, <1>11, <1>12

(* The running thread stops running in the step that blocks it.              *)
LEMMA DejaDeCorrer ==
  ASSUME InvarianteC, InvLugares, NEW p \in Proceso, NEW l, NEW op, NEW arg, En(p, l, op, arg),
         op \in OpConRespuesta \ {"SUSE_SCHEDULE_NEXT"}, l \notin PuntosJoin \cup PuntosClose,
         NEW sig, NEW u, NEW n, IrA(p, sig, u, n),
         ConsumirPedido(p) \/ (pedido' = pedido /\ sig \in PuntosJoin \cup PuntosClose),
         running_thread' = running_thread, NEW t, t = running_thread[p],
         estado' = [estado EXCEPT ![t] = "BLOCKED"]
  PROVE  /\ t \in Hilo /\ padre[t] = p /\ Conocido(t) /\ t # Nulo
         /\ Puesto(t, "corre", Nulo) /\ ~ Puesto(t, "corre", Nulo)'
         /\ \A m \in Clase : \A y \in Donde : Puesto(t, m, y) => m = "corre" /\ y = Nulo
         /\ t \notin g_blocked_threads
         /\ \A g \in Hilo : estado'[g] = "RUNNING" => estado[g] = "RUNNING"
<1>1. t \in Hilo /\ padre[t] = p /\ Conocido(t) /\ t # Nulo
  BY EnHechos
<1>2. Corre(t) /\ ~ Ejecuta(p)'
  BY EjecutaAlPedir, NoEjecutaDespues
<1>3. /\ estado'[t] = "BLOCKED"
      /\ \A g \in Hilo : estado'[g] = "RUNNING" => estado[g] = "RUNNING"
  BY <1>1, TiposHechos
<1>4. Puesto(t, "corre", Nulo) /\ ~ Puesto(t, "corre", Nulo)'
  BY <1>1, <1>2, <1>3 DEF Puesto, Corre
<1>5. "corre" \in Clase /\ Nulo \in Donde /\ "corre" \notin Retiene
  BY DEF Clase, Donde, Retiene
<1>6. /\ \A m \in Clase : \A y \in Donde : Puesto(t, m, y) => m = "corre" /\ y = Nulo
      /\ t \notin g_blocked_threads
  BY <1>1, <1>4, <1>5, PuestoUnico
<1> QED BY <1>1, <1>3, <1>4, <1>6

LEMMA LugaresJoin ==
  ASSUME InvarianteC, InvLugares, NEW p \in Proceso, Join(p)
  PROVE  InvLugares'
<1>1. /\ UNCHANGED <<running_thread, ready, g_new_threads, g_exit_threads, semaforos, g_multiprog_max>>
      /\ cola' = cola
  BY DEF Join, semaforos
<1>2. "SUSE_JOIN" \in OpConRespuesta
  BY DEF OpConRespuesta
<1>3. /\ g_blocked_threads \subseteq Hilo
      /\ SinRepetidos(g_new_threads') /\ \A s \in Semaforo : SinRepetidos(cola'[s])
  BY <1>1 DEF InvLugares
<1>4. ASSUME NEW h, JoinBloquear(p, h), running_thread[p] # Nulo, h \notin g_exit_threads PROVE InvLugares'
  <2>1. PICK t : t = running_thread[p]
    OBVIOUS
  <2>2. /\ En(p, "inicio", "SUSE_JOIN", h) /\ IrA(p, "join_ready", hilo[p], leido[p]) /\ pedido' = pedido
        /\ estado' = [estado EXCEPT ![t] = "BLOCKED"] /\ g_blocked_threads' = g_blocked_threads \cup {t}
        /\ threads_bloqueados' = threads_bloqueados
    BY <1>4, <2>1 DEF JoinBloquear, Seguir, SeguirCon
  <2>3. "join_ready" \in PuntosJoin /\ "inicio" \notin PuntosJoin \cup PuntosClose \cup PuntosSuelta
        /\ "join_ready" \notin PuntosSuelta \cup PuntosMano
    BY DEF PuntosJoin, PuntosClose, PuntosSuelta, PuntosMano
  <2>4. /\ t \in Hilo /\ padre[t] = p /\ t # Nulo
        /\ Puesto(t, "corre", Nulo) /\ ~ Puesto(t, "corre", Nulo)'
        /\ \A g \in Hilo : estado'[g] = "RUNNING" => estado[g] = "RUNNING"
    BY <1>1, <1>2, <2>1, <2>2, <2>3, DejaDeCorrer
  <2>5. Puesto(t, "une", Nulo)'
    <3>1. pc'[p] = "join_ready"
      BY <2>2, ManosPaso
    <3> QED BY <1>1, <2>1, <2>3, <2>4, <3>1 DEF Puesto, Une
  <2>6. "corre" \in Clase /\ "une" \in Clase \ {"corre"} /\ Nulo \in Donde /\ "une" \in Retiene
    BY DEF Clase, Donde, Retiene
  <2>7. /\ g_blocked_threads' \subseteq Hilo /\ t \in g_blocked_threads'
        /\ \A g \in Hilo \ {t} : g \in g_blocked_threads' <=> g \in g_blocked_threads
        /\ SigueOConsume(p)
    BY <1>3, <2>2, <2>4 DEF SigueOConsume
  <2> QED BY <1>1, <1>2, <1>3, <2>1, <2>2, <2>3, <2>4, <2>5, <2>6, <2>7, PasoDeUno
<1>5. ASSUME NEW h, NEW l, NEW sig, NEW u, NEW n, En(p, l, "SUSE_JOIN", h), IrA(p, sig, u, n),
             \/ l = "inicio" /\ sig = "inicio" /\ ConsumirPedido(p)
             \/ l \in PuntosJoin /\ sig \in PuntosJoin /\ pedido' = pedido,
             UNCHANGED <<estado, threads_bloqueados, g_blocked_threads>>
      PROVE  InvLugares'
  <2>1. UNCHANGED <<ready, g_new_threads, g_blocked_threads, g_exit_threads, threads_bloqueados, cola,
                    running_thread>>
    BY <1>1, <1>5
  <2> QED BY <1>2, <1>5, <2>1, PasoSinMover
             DEF SigueOConsume, PuntosJoin, PuntosClose, PuntosSuelta, PuntosMano
<1>6. ASSUME NEW h, JoinBloquear(p, h), running_thread[p] = Nulo \/ h \in g_exit_threads PROVE InvLugares'
  BY <1>5, <1>6 DEF JoinBloquear, TerminarCon, Terminar
<1>7. ASSUME NEW h, NEW l \in PuntosJoin, NEW lista, NEW sigue \in PuntosJoin,
             JoinBuscar(p, h, l, lista, sigue) PROVE InvLugares'
  <2>1. PICK sig, u : sig \in PuntosJoin /\ IrA(p, sig, u, leido[p]) /\ pedido' = pedido
    BY <1>7 DEF JoinBuscar, SeguirConHilo, Seguir, SeguirCon, PuntosJoin
  <2> QED BY <1>5, <1>7, <2>1 DEF JoinBuscar
<1>8. ASSUME NEW h, JoinAgregar(p, h), hilo[p] = Nulo PROVE InvLugares'
  BY <1>1, <1>8, LugaresCaer DEF JoinAgregar, listas
<1>9. ASSUME NEW h, JoinAgregar(p, h), hilo[p] # Nulo PROVE InvLugares'
  <2>1. PICK t, j : t = running_thread[p] /\ j = hilo[p]
    OBVIOUS
  <2>2. /\ En(p, "join_agregar", "SUSE_JOIN", h) /\ IrA(p, "inicio", Nulo, 0) /\ ConsumirPedido(p)
        /\ threads_bloqueados' = [threads_bloqueados EXCEPT ![j] = @ \cup {t}]
        /\ UNCHANGED <<estado, g_blocked_threads>>
    BY <1>9, <2>1 DEF JoinAgregar, TerminarCon, Terminar
  <2>3. "join_agregar" \in PuntosJoin /\ "join_agregar" \notin PuntosSuelta
        /\ "inicio" \notin PuntosJoin \cup PuntosSuelta \cup PuntosMano
    BY DEF PuntosJoin, PuntosSuelta, PuntosMano
  <2>4. t \in Hilo /\ padre[t] = p /\ t # Nulo /\ j \in Hilo
    <3>1. t \in Hilo /\ padre[t] = p /\ t # Nulo
      BY <2>1, <2>2, EnHechos
    <3>2. j \in Hilo
      BY <1>9, <2>1 DEF InvarianteC, TiposC, TypeOKC
    <3> QED BY <3>1, <3>2
  <2>5. /\ t \in threads_bloqueados'[j]
        /\ \A x \in Hilo : \A g \in Hilo \ {t} : g \in threads_bloqueados'[x] <=> g \in threads_bloqueados[x]
        /\ \A x \in Hilo : t \in threads_bloqueados'[x] => t \in threads_bloqueados[x] \/ j = x
    <3>1. threads_bloqueados \in [Hilo -> SUBSET Hilo]
      BY TiposHechos
    <3> QED BY <2>2, <2>4, <3>1
  <2>6. Puesto(t, "une", Nulo) /\ ~ Puesto(t, "une", Nulo)' /\ Puesto(t, "join", j)'
    <3>1. pc[p] = "join_agregar" /\ pc'[p] = "inicio"
      BY <2>2, ManosPaso
    <3> QED BY <1>1, <2>1, <2>3, <2>4, <2>5, <3>1 DEF Puesto, Une
  <2>7. "une" \in Clase /\ "join" \in Clase \ {"corre"} /\ Nulo \in Donde /\ j \in Donde
        /\ "une" \in Retiene /\ "join" \in Retiene
    BY <2>4 DEF Clase, Donde, Retiene
  <2>8. t \in g_blocked_threads'
    BY <2>2, <2>4, <2>6, <2>7, PuestoUnico
  <2>9. /\ g_blocked_threads' \subseteq Hilo /\ SigueOConsume(p)
        /\ \A g \in Hilo : estado'[g] = "RUNNING" => estado[g] = "RUNNING"
    BY <1>3, <2>2 DEF SigueOConsume
  <2> QED BY <1>1, <1>2, <1>3, <2>1, <2>2, <2>3, <2>4, <2>5, <2>6, <2>7, <2>8, <2>9, PasoDeUno
<1>10. PICK h \in Hilo :
         \/ JoinBloquear(p, h) \/ JoinAgregar(p, h)
         \/ \E l \in PuntosJoin : \E sigue \in PuntosJoin : \E lista : JoinBuscar(p, h, l, lista, sigue)
  BY DEF Join, PuntosJoin
<1> QED BY <1>4, <1>6, <1>7, <1>8, <1>9, <1>10

-------------------------------------------------------------------------------
(* suse_wait and suse_signal *)

LEMMA LugaresWait ==
  ASSUME InvarianteC, InvLugares, NEW p \in Proceso, Wait(p)
  PROVE  InvLugares'
<1>1. UNCHANGED <<threads_bloqueados, running_thread, ready, g_new_threads, g_exit_threads>>
  BY DEF Wait
<1>2. "SUSE_WAIT" \in OpConRespuesta
  BY DEF OpConRespuesta
<1>3. /\ g_blocked_threads \subseteq Hilo
      /\ SinRepetidos(g_new_threads') /\ \A s \in Semaforo : SinRepetidos(cola[s])
  BY <1>1 DEF InvLugares
<1>4. ASSUME NEW s, NEW l, NEW sig, NEW u, NEW n, En(p, l, "SUSE_WAIT", s), IrA(p, sig, u, n),
             \/ sig = "inicio" /\ ConsumirPedido(p)
             \/ sig \in {"wait_bloquear", "wait_restar"} /\ pedido' = pedido,
             l \in {"inicio", "wait_restar"}, UNCHANGED <<estado, cola, g_blocked_threads>>
      PROVE  InvLugares'
  <2>1. UNCHANGED <<ready, g_new_threads, g_blocked_threads, g_exit_threads, threads_bloqueados, cola,
                    running_thread>>
    BY <1>1, <1>4
  <2> QED BY <1>2, <1>4, <2>1, PasoSinMover
             DEF SigueOConsume, PuntosJoin, PuntosClose, PuntosSuelta, PuntosMano
<1>5. ASSUME NEW s, WaitDesconocido(p, s) PROVE InvLugares'
  BY <1>4, <1>5 DEF WaitDesconocido, TerminarCon, Terminar, semaforos
<1>6. ASSUME NEW s, WaitMirarValor(p, s) PROVE InvLugares'
  <2>1. PICK sig \in {"wait_bloquear", "wait_restar"} : IrA(p, sig, hilo[p], leido[p]) /\ pedido' = pedido
    BY <1>6 DEF WaitMirarValor, Seguir, SeguirCon
  <2> QED BY <1>4, <1>6, <2>1 DEF WaitMirarValor, semaforos
<1>7. ASSUME NEW s, WaitRestar(p, s) PROVE InvLugares'
  BY <1>4, <1>7 DEF WaitRestar, TerminarCon, Terminar
<1>8. ASSUME NEW s, WaitBloquear(p, s) PROVE InvLugares'
  <2>1. PICK t : t = running_thread[p]
    OBVIOUS
  <2>2. /\ En(p, "wait_bloquear", "SUSE_WAIT", s) /\ IrA(p, "inicio", Nulo, 0) /\ ConsumirPedido(p)
        /\ estado' = [estado EXCEPT ![t] = "BLOCKED"] /\ g_blocked_threads' = g_blocked_threads \cup {t}
        /\ cola' = [cola EXCEPT ![s] = Append(@, t)]
    BY <1>8, <2>1 DEF WaitBloquear, TerminarCon, Terminar
  <2>3. "wait_bloquear" \notin PuntosJoin \cup PuntosClose \cup PuntosSuelta
        /\ "inicio" \notin PuntosJoin \cup PuntosSuelta \cup PuntosMano
    BY DEF PuntosJoin, PuntosClose, PuntosSuelta, PuntosMano
  <2>4. /\ t \in Hilo /\ padre[t] = p /\ t # Nulo
        /\ Puesto(t, "corre", Nulo) /\ ~ Puesto(t, "corre", Nulo)'
        /\ \A m \in Clase : \A y \in Donde : Puesto(t, m, y) => m = "corre" /\ y = Nulo
        /\ \A g \in Hilo : estado'[g] = "RUNNING" => estado[g] = "RUNNING"
    BY <1>1, <1>2, <2>1, <2>2, <2>3, DejaDeCorrer
  <2>5. s \in Semaforo
    <3>1. En(p, "wait_bloquear", "SUSE_WAIT", s) /\ "wait_bloquear" \in EnSem
      BY <2>2 DEF EnSem
    <3> QED BY <3>1, BajoMutex
  <2>6. "corre" \in Clase /\ "cola" \in Clase \ {"corre"} /\ Nulo \in Donde /\ s \in Donde
        /\ "cola" \in Retiene
    BY <2>5 DEF Clase, Donde, Retiene
  <2>7. t \notin Elementos(cola[s])
    BY <2>4, <2>5, <2>6 DEF Puesto
  <2>8. /\ cola' = [cola EXCEPT ![s] = Append(cola[s], t)]
        /\ cola \in [Semaforo -> Seq(Hilo)] /\ cola[s] \in Seq(Hilo)
    BY <2>2, <2>5, TiposHechos
  <2>9. Elementos(cola'[s]) = Elementos(cola[s]) \cup {t} /\ SinRepetidos(cola'[s])
    <3>1. cola'[s] = Append(cola[s], t)
      BY <2>5, <2>8
    <3>2. Elementos(Append(cola[s], t)) = Elementos(cola[s]) \cup {t}
      BY <2>4, <2>8, Agregar
    <3>3. SinRepetidos(Append(cola[s], t))
      BY <1>3, <2>4, <2>5, <2>7, <2>8, SinRepetidosAgregar
    <3> QED BY <3>1, <3>2, <3>3
  <2>10. \A r \in Semaforo : r # s => cola'[r] = cola[r]
    BY <2>8
  <2>11. /\ \A r \in Semaforo : SinRepetidos(cola'[r])
         /\ \A r \in Semaforo : \A g \in Hilo \ {t} : g \in Elementos(cola'[r]) <=> g \in Elementos(cola[r])
         /\ \A r \in Semaforo : t \in Elementos(cola'[r]) => t \in Elementos(cola[r]) \/ s = r
    BY <1>3, <2>9, <2>10 DEF Elementos
  <2>12. Puesto(t, "cola", s)'
    BY <2>5, <2>9 DEF Puesto, Elementos
  <2>13. /\ g_blocked_threads' \subseteq Hilo /\ t \in g_blocked_threads'
         /\ \A g \in Hilo \ {t} : g \in g_blocked_threads' <=> g \in g_blocked_threads
         /\ SigueOConsume(p)
    BY <1>3, <2>2, <2>4 DEF SigueOConsume
  <2>14. En(p, "wait_bloquear", "SUSE_WAIT", s) /\ IrA(p, "inicio", Nulo, 0) /\ ConsumirPedido(p)
    BY <2>2
  <2> QED BY <1>1, <1>2, <1>3, <2>3, <2>4, <2>6, <2>11, <2>12, <2>13, <2>14, PasoDeUno
<1> QED BY <1>5, <1>6, <1>7, <1>8 DEF Wait

(* A signal takes the head of the queue.                                     *)
LEMMA LugaresSacar ==
  ASSUME InvarianteC, InvLugares, NEW p \in Proceso, NEW s, SignalSacar(p, s), cola[s] # <<>>,
         UNCHANGED <<threads_bloqueados, g_new_threads, g_exit_threads>>
  PROVE  InvLugares'
<1>1. PICK t : t = Head(cola[s])
  OBVIOUS
<1>2. /\ En(p, "signal_lock", "SUSE_SIGNAL", s) /\ IrA(p, "signal_running", t, leido[p])
      /\ pedido' = pedido /\ cola' = [cola EXCEPT ![s] = Tail(@)]
      /\ UNCHANGED <<estado, running_thread, ready, g_blocked_threads>>
  BY <1>1 DEF SignalSacar, SeguirConHilo, SeguirCon, listasSignal
<1>3. s \in Semaforo
  <2>1. En(p, "signal_lock", "SUSE_SIGNAL", s)
    BY <1>2
  <2>2. pc[p] = "signal_lock" /\ Arg(p) = s /\ InvPunto(p)
    BY <2>1 DEF En, Recibido, Arg, InvarianteC
  <2> QED BY <2>2 DEF InvPunto
<1>4. /\ g_blocked_threads' \subseteq Hilo
      /\ SinRepetidos(g_new_threads') /\ \A r \in Semaforo : SinRepetidos(cola[r])
  BY <1>2 DEF InvLugares
<1>5. /\ cola' = [cola EXCEPT ![s] = Tail(cola[s])]
      /\ cola \in [Semaforo -> Seq(Hilo)] /\ cola[s] \in Seq(Hilo)
  BY <1>2, <1>3, TiposHechos
<1>6. /\ t \in Hilo /\ t \in Elementos(cola[s]) /\ SinRepetidos(cola'[s])
      /\ Elementos(cola'[s]) = Elementos(cola[s]) \ {t}
  <2>1. cola'[s] = Tail(cola[s])
    BY <1>3, <1>5
  <2>2. t \in Hilo /\ t \in Elementos(cola[s])
    BY <1>1, <1>5, Quitar
  <2>3. SinRepetidos(Tail(cola[s])) /\ Elementos(Tail(cola[s])) = Elementos(cola[s]) \ {t}
    BY <1>1, <1>3, <1>4, <1>5, SinRepetidosQuitar
  <2> QED BY <2>1, <2>2, <2>3
<1>7. \A r \in Semaforo : r # s => cola'[r] = cola[r]
  BY <1>5
<1>8. /\ \A r \in Semaforo : SinRepetidos(cola'[r])
      /\ \A r \in Semaforo : \A g \in Hilo \ {t} : g \in Elementos(cola'[r]) <=> g \in Elementos(cola[r])
      /\ \A r \in Semaforo : t \in Elementos(cola'[r]) => t \in Elementos(cola[r])
  <2> SUFFICES ASSUME NEW r \in Semaforo
               PROVE  /\ SinRepetidos(cola'[r])
                      /\ \A g \in Hilo \ {t} : g \in Elementos(cola'[r]) <=> g \in Elementos(cola[r])
                      /\ t \in Elementos(cola'[r]) => t \in Elementos(cola[r])
    BY DEF Elementos, SinRepetidos
  <2>1. CASE r = s
    BY <1>6, <2>1
  <2>2. CASE r # s
    BY <1>4, <1>7, <2>2
  <2> QED BY <2>1, <2>2
<1>9. "signal_running" \in PuntosSuelta /\ "signal_running" \notin PuntosJoin \cup PuntosMano
      /\ "signal_lock" \notin PuntosJoin \cup PuntosClose \cup PuntosSuelta
  BY DEF PuntosJoin, PuntosClose, PuntosSuelta, PuntosMano
<1>10. Puesto(t, "cola", s) /\ ~ Puesto(t, "cola", s)' /\ Puesto(t, "suelta", p)'
  <2>1. EnManos(p, PuntosSuelta, t)'
    BY <1>2, <1>9, ManosPaso
  <2>2. t \notin Elementos(cola'[s])
    BY <1>6
  <2> QED BY <1>3, <1>6, <2>1, <2>2 DEF Puesto, Elementos, PuntosSuelta
<1>11. "cola" \in Clase /\ "suelta" \in Clase \ {"corre"} /\ s \in Donde /\ p \in Donde
       /\ "cola" \in Retiene /\ "suelta" \in Retiene
  BY <1>3 DEF Clase, Donde, Retiene
<1>12. t \in g_blocked_threads'
  BY <1>2, <1>6, <1>10, <1>11, PuestoUnico
<1>13. "SUSE_SIGNAL" \in OpConRespuesta /\ SigueOConsume(p)
  BY <1>2 DEF OpConRespuesta, SigueOConsume
<1> QED BY <1>2, <1>4, <1>6, <1>8, <1>9, <1>10, <1>11, <1>12, <1>13, PasoDeUno

(* The handler of p leaves the other processes' threads running or not.      *)
LEMMA EjecutaDeOtros ==
  ASSUME InvarianteC, NEW p \in Proceso, NEW l, NEW op, NEW arg, En(p, l, op, arg),
         NEW sig, NEW u, NEW n, IrA(p, sig, u, n), SigueOConsume(p),
         NEW q \in Proceso \ {p}, running_thread'[q] = running_thread[q]
  PROVE  Ejecuta(q)' <=> Ejecuta(q)
<1>1. etapa' = etapa /\ fase' = fase
  BY EnHechos
<1>2. pc'[q] = pc[q] /\ pedido'[q] = pedido[q]
  BY ManosPaso, PedidoTrasPaso
<1> QED BY <1>1, <1>2 DEF Ejecuta, Pide, PuntosJoin, PuntosClose

(* The thread that was released starts to run: its process had no other.     *)
LEMMA LugaresEjecutar ==
  ASSUME InvarianteC, InvLugares, NEW p \in Proceso, NEW s, SignalEjecutar(p, s),
         UNCHANGED <<threads_bloqueados, g_new_threads, g_exit_threads>>
  PROVE  InvLugares'
<1>1. PICK t, q : t = hilo[p] /\ q = padre[t]
  OBVIOUS
<1>2. /\ En(p, "signal_ejecutar", "SUSE_SIGNAL", s) /\ IrA(p, "inicio", Nulo, 0) /\ ConsumirPedido(p)
      /\ running_thread' = [running_thread EXCEPT ![q] = t] /\ estado' = [estado EXCEPT ![t] = "RUNNING"]
      /\ g_blocked_threads' = g_blocked_threads \ {t} /\ ready' = ready /\ cola' = cola
  BY <1>1 DEF SignalEjecutar, EjecutarDesbloqueado, Terminar, semaforos
<1>3. t \in Hilo /\ q \in Proceso /\ running_thread[q] = Nulo /\ q # p /\ t # Nulo
  <2>1. "signal_ejecutar" \in EnSem /\ "signal_ejecutar" \in EnExt
    BY DEF EnSem, EnExt
  <2>2. t \in Hilo /\ running_thread[q] = Nulo
    BY <1>1, <1>2, <2>1, BajoMutex
  <2>3. running_thread[p] # Nulo
    BY <1>2, EnHechos
  <2> QED BY <1>1, <2>2, <2>3, HilosAssumption, NuloAssumption
<1>4. /\ running_thread'[q] = t /\ \A r \in Proceso \ {q} : running_thread'[r] = running_thread[r]
      /\ estado'[t] = "RUNNING" /\ \A g \in Hilo \ {t} : estado'[g] = estado[g]
  BY <1>2, <1>3, TiposHechos
<1>5. /\ "signal_ejecutar" \in PuntosSuelta
      /\ "signal_ejecutar" \notin PuntosMano \cup PuntosJoin \cup PuntosClose
      /\ "inicio" \notin PuntosJoin \cup PuntosSuelta \cup PuntosMano
      /\ SigueOConsume(p) /\ "SUSE_SIGNAL" \in OpConRespuesta \ {"SUSE_SCHEDULE_NEXT"}
  BY <1>2 DEF PuntosJoin, PuntosClose, PuntosSuelta, PuntosMano, SigueOConsume, OpConRespuesta
<1>6. /\ pc'[p] = "inicio" /\ pc[p] = "signal_ejecutar" /\ \A r \in Proceso \ {p} : pc'[r] = pc[r]
      /\ pc[q] = "inicio"
  <2>1. pc'[p] = "inicio" /\ pc[p] = "signal_ejecutar" /\ \A r \in Proceso \ {p} : pc'[r] = pc[r]
    BY <1>2, ManosPaso
  <2>2. pc[q] = "inicio"
    BY <1>3, HechosC DEF InvEtapaC
  <2> QED BY <2>1, <2>2
<1>7. \A g \in Hilo : PorCrear(g)' => PorCrear(g)
  BY <1>2, <1>5, PorCrearPaso
<1>8. \A g \in Hilo \ {t} : Corre(g)' => Corre(g)
  <2> SUFFICES ASSUME NEW g \in Hilo \ {t}, Corre(g)' PROVE Corre(g)
    OBVIOUS
  <2>1. /\ padre[g] \in Proceso \ {q} /\ running_thread[padre[g]] = g
        /\ estado[g] = "RUNNING" \/ Ejecuta(padre[g])'
    BY <1>4, HilosAssumption DEF Corre
  <2>2. CASE padre[g] = p
    <3>1. Corre(running_thread[p])
      BY <1>2, <1>5, EjecutaAlPedir
    <3> QED BY <2>1, <2>2, <3>1
  <2>3. CASE padre[g] # p
    <3>1. Ejecuta(padre[g])' => Ejecuta(padre[g])
      BY <1>2, <1>4, <1>5, <2>1, <2>3, EjecutaDeOtros
    <3> QED BY <2>1, <3>1 DEF Corre
  <2> QED BY <2>2, <2>3
<1>9. \A g \in Hilo : Une(g)' <=> Une(g)
  <2> SUFFICES ASSUME NEW g \in Hilo PROVE Une(g)' <=> Une(g)
    OBVIOUS
  <2>1. padre[g] \in Proceso
    BY HilosAssumption
  <2>2. CASE padre[g] = q
    BY <1>3, <1>5, <1>6, <2>2 DEF Une, PuntosJoin
  <2>3. CASE padre[g] # q
    BY <1>4, <1>5, <1>6, <2>1, <2>3 DEF Une, PuntosJoin
  <2> QED BY <2>2, <2>3
<1>10. /\ \A g \in Hilo \ {t} : \A r \in Proceso : EnManos(r, PuntosSuelta, g)' <=> EnManos(r, PuntosSuelta, g)
       /\ \A g \in Hilo : \A r \in Proceso : EnManos(r, PuntosMano, g)' => EnManos(r, PuntosMano, g)
       /\ \A r \in Proceso : EnManos(r, PuntosSuelta, t)' => EnManos(r, PuntosSuelta, t)
       /\ EnManos(p, PuntosSuelta, t) /\ ~ EnManos(p, PuntosSuelta, t)'
  BY <1>1, <1>2, <1>5, ManosPaso
<1>11. Muda(t, "corre", Nulo)
  <2>1. Puesto(t, "suelta", p) /\ ~ Puesto(t, "suelta", p)' /\ Puesto(t, "corre", Nulo)'
    BY <1>1, <1>4, <1>10 DEF Puesto, Corre, PuntosSuelta
  <2>2. UnPuesto /\ "suelta" \in Clase /\ "corre" \in Clase /\ p \in Donde /\ Nulo \in Donde
        /\ "corre" \notin Retiene
    BY DEF InvLugares, Clase, Donde, Retiene
  <2>3. t \notin g_blocked_threads'
    BY <1>2
  <2> QED BY <1>2, <1>3, <1>7, <1>9, <1>10, <2>1, <2>2, <2>3, MudaDe
<1>12. ASSUME NEW g \in Hilo \ {t} PROVE Conserva(g)
  <2>1. g \in g_blocked_threads' <=> g \in g_blocked_threads
    BY <1>2
  <2> QED BY <1>2, <1>7, <1>8, <1>9, <1>10, <2>1, ConservaSi
<1>13. /\ g_blocked_threads' \subseteq Hilo
       /\ SinRepetidos(g_new_threads') /\ \A r \in Semaforo : SinRepetidos(cola'[r])
  BY <1>2 DEF InvLugares
<1>14. "corre" \in Clase /\ Nulo \in Donde
  BY DEF Clase, Donde
<1> QED BY <1>2, <1>5, <1>11, <1>12, <1>13, <1>14, InvLugaresPaso

LEMMA LugaresSignal ==
  ASSUME InvarianteC, InvLugares, NEW p \in Proceso, Signal(p)
  PROVE  InvLugares'
<1>1. UNCHANGED <<threads_bloqueados, g_new_threads, g_exit_threads>>
  BY DEF Signal
<1>2. "SUSE_SIGNAL" \in OpConRespuesta
  BY DEF OpConRespuesta
<1>3. ASSUME NEW s, NEW l, NEW sig, NEW u, NEW n, En(p, l, "SUSE_SIGNAL", s), IrA(p, sig, u, n),
             \/ l \in {"inicio", "signal_sumar", "signal_estado"} /\ sig = "inicio" /\ ConsumirPedido(p)
             \/ l \in {"inicio", "signal_lock"} /\ sig \in {"signal_lock", "signal_sumar"} /\ pedido' = pedido
             \/ l \in {"signal_running", "signal_ext"} /\ u = hilo[p] /\ pedido' = pedido
                /\ sig \in {"signal_ext", "signal_ejecutar", "signal_quitar"},
             UNCHANGED <<running_thread, ready, g_blocked_threads, cola>>,
             \A g \in Hilo : estado'[g] = "RUNNING" => estado[g] = "RUNNING"
      PROVE  InvLugares'
  <2>1. UNCHANGED <<ready, g_new_threads, g_blocked_threads, g_exit_threads, threads_bloqueados, cola,
                    running_thread>>
    BY <1>1, <1>3
  <2> QED BY <1>2, <1>3, <2>1, PasoSinMover
             DEF SigueOConsume, PuntosJoin, PuntosClose, PuntosSuelta, PuntosMano
<1>4. ASSUME NEW s, SignalMirarMaximo(p, s) PROVE InvLugares'
  BY <1>3, <1>4 DEF SignalMirarMaximo, TerminarCon, Terminar, Seguir, SeguirCon, semaforos, listasSignal
<1>5. ASSUME NEW s, SignalSacar(p, s) PROVE InvLugares'
  <2>1. CASE cola[s] # <<>>
    BY <1>1, <1>5, <2>1, LugaresSacar
  <2>2. CASE cola[s] = <<>>
    BY <1>3, <1>5, <2>2 DEF SignalSacar, Seguir, SeguirCon, listasSignal
  <2> QED BY <2>1, <2>2
<1>6. ASSUME NEW s, SignalSumar(p, s) PROVE InvLugares'
  BY <1>3, <1>6 DEF SignalSumar, TerminarCon, Terminar, listasSignal
<1>7. ASSUME NEW s, SignalMirarRunning(p, s) PROVE InvLugares'
  <2>1. PICK sig \in {"signal_ext", "signal_quitar"} : IrA(p, sig, hilo[p], leido[p]) /\ pedido' = pedido
    BY <1>7 DEF SignalMirarRunning, Seguir, SeguirCon
  <2> QED BY <1>3, <1>7, <2>1 DEF SignalMirarRunning, semaforos, listasSignal
<1>8. ASSUME NEW s, SignalTomarExterno(p, s) PROVE InvLugares'
  <2>1. PICK sig \in {"signal_ejecutar", "signal_quitar"} : IrA(p, sig, hilo[p], leido[p]) /\ pedido' = pedido
    BY <1>8 DEF SignalTomarExterno, Seguir, SeguirCon
  <2> QED BY <1>3, <1>8, <2>1 DEF SignalTomarExterno, semaforos, listasSignal
<1>9. ASSUME NEW s, SignalEjecutar(p, s) PROVE InvLugares'
  BY <1>1, <1>9, LugaresEjecutar
<1>10. ASSUME NEW s, SignalEstado(p, s) PROVE InvLugares'
  <2>1. \A g \in Hilo : estado'[g] = "RUNNING" => estado[g] = "RUNNING"
    BY <1>10, TiposHechos DEF SignalEstado
  <2> QED BY <1>3, <1>10, <2>1 DEF SignalEstado, TerminarCon, Terminar, semaforos
<1>11. /\ SinRepetidos(g_new_threads) /\ \A r \in Semaforo : SinRepetidos(cola[r])
       /\ g_blocked_threads \subseteq Hilo
  BY DEF InvLugares
<1>12. ASSUME NEW s, NEW l \in {"signal_quitar", "signal_a_ready"}, En(p, l, "SUSE_SIGNAL", s)
       PROVE  hilo[p] \in Hilo
  <2>1. l \in EnSem /\ l \in EnExt
    BY DEF EnSem, EnExt
  <2> QED BY <1>12, <2>1, BajoMutex
<1>13. ASSUME NEW s, SignalQuitar(p, s) PROVE InvLugares'
  <2>1. PICK t \in Hilo : t = hilo[p]
    BY <1>12, <1>13 DEF SignalQuitar
  <2>2. /\ En(p, "signal_quitar", "SUSE_SIGNAL", s) /\ IrA(p, "signal_a_ready", t, leido[p])
        /\ pedido' = pedido /\ g_blocked_threads' = g_blocked_threads \ {t}
        /\ UNCHANGED <<estado, running_thread, ready, cola>>
    BY <1>13, <2>1 DEF SignalQuitar, Seguir, SeguirCon, semaforos
  <2>3. /\ "signal_quitar" \in PuntosSuelta /\ "signal_quitar" \notin PuntosJoin \cup PuntosClose
        /\ "signal_a_ready" \in PuntosMano /\ "signal_a_ready" \notin PuntosSuelta \cup PuntosJoin
        /\ "mano" \in Clase \ {"corre"} /\ "suelta" \in Clase /\ p \in Donde
        /\ "mano" \notin Retiene /\ SigueOConsume(p)
    BY <2>2 DEF PuntosSuelta, PuntosMano, PuntosJoin, PuntosClose, Clase, Donde, Retiene, SigueOConsume
  <2>4. Puesto(t, "suelta", p) /\ ~ Puesto(t, "suelta", p)' /\ Puesto(t, "mano", p)'
    <3>1. EnManos(p, PuntosSuelta, t) /\ ~ EnManos(p, PuntosSuelta, t)' /\ EnManos(p, PuntosMano, t)'
      BY <2>1, <2>2, <2>3, ManosPaso
    <3> QED BY <3>1 DEF Puesto, PuntosSuelta, PuntosMano
  <2>5. /\ g_blocked_threads' \subseteq Hilo /\ t \notin g_blocked_threads'
        /\ \A g \in Hilo \ {t} : g \in g_blocked_threads' <=> g \in g_blocked_threads
    BY <1>11, <2>2
  <2> QED BY <1>1, <1>2, <1>11, <2>1, <2>2, <2>3, <2>4, <2>5, PasoDeUno
<1>14. ASSUME NEW s, SignalAReady(p, s) PROVE InvLugares'
  <2>1. PICK t \in Hilo : t = hilo[p]
    BY <1>12, <1>14 DEF SignalAReady
  <2>2. /\ En(p, "signal_a_ready", "SUSE_SIGNAL", s) /\ IrA(p, "signal_estado", t, leido[p])
        /\ pedido' = pedido /\ ready' = AgregarAReady({t})
        /\ UNCHANGED <<estado, running_thread, g_blocked_threads, cola>>
    BY <1>14, <2>1 DEF SignalAReady, Seguir, SeguirCon, semaforos
  <2>3. /\ "signal_a_ready" \in PuntosMano
        /\ "signal_a_ready" \notin PuntosJoin \cup PuntosClose \cup PuntosSuelta
        /\ "signal_estado" \notin PuntosMano \cup PuntosSuelta \cup PuntosJoin
        /\ "ready" \in Clase \ {"corre"} /\ "mano" \in Clase /\ p \in Donde /\ Nulo \in Donde
        /\ "mano" \notin Retiene /\ "ready" \notin Retiene /\ SigueOConsume(p)
    BY <2>2 DEF PuntosSuelta, PuntosMano, PuntosJoin, PuntosClose, Clase, Donde, Retiene, SigueOConsume
  <2>4. Puesto(t, "mano", p) /\ ~ Puesto(t, "mano", p)' /\ Puesto(t, "ready", Nulo)'
    <3>1. EnManos(p, PuntosMano, t) /\ ~ EnManos(p, PuntosMano, t)'
      BY <2>1, <2>2, <2>3, ManosPaso
    <3> QED BY <2>1, <2>2, <3>1, HilosAssumption DEF Puesto, PuntosMano, AgregarAReady
  <2>5. t \notin g_blocked_threads'
    BY <2>1, <2>2, <2>3, <2>4, PuestoUnico
  <2>6. \A q \in Proceso : \A g \in ready'[q] : g \in ready[q] \/ g = t
    BY <2>2 DEF AgregarAReady
  <2>7. /\ En(p, "signal_a_ready", "SUSE_SIGNAL", s) /\ IrA(p, "signal_estado", t, leido[p])
        /\ UNCHANGED <<pedido, estado, running_thread, g_blocked_threads, cola>>
    BY <2>2
  <2> QED BY <1>1, <1>2, <1>11, <2>1, <2>3, <2>4, <2>5, <2>6, <2>7, PasoDeUno
<1> QED BY <1>4, <1>5, <1>6, <1>7, <1>8, <1>9, <1>10, <1>13, <1>14 DEF Signal

-------------------------------------------------------------------------------
(* suse_schedule_next *)

(* A process that asks for the next thread runs none.                        *)
LEMMA NoEjecutaPidiendo ==
  ASSUME InvarianteC, NEW p \in Proceso, NEW l, NEW arg, En(p, l, "SUSE_SCHEDULE_NEXT", arg)
  PROVE  ~ Ejecuta(p) /\ (pedido' = pedido => ~ Ejecuta(p)')
<1>1. /\ pedido[p] # <<>> /\ pedido[p][1] = [op |-> "SUSE_SCHEDULE_NEXT", arg |-> arg]
      /\ fase' = fase
  BY EnHechos
<1>2. InvPedidoC(p) /\ DOMAIN pedido[p] = 1 .. Len(pedido[p]) /\ Len(pedido[p]) \in Nat /\ Len(pedido[p]) # 0
  BY <1>1, HechosC
<1>3. 1 \in DOMAIN pedido[p] /\ pedido[p][1].op = "SUSE_SCHEDULE_NEXT"
  BY <1>1, <1>2
<1>4. Len(pedido[p]) = 1
  BY <1>2, <1>3 DEF InvPedidoC, Pide
<1>5. fase[p] # "corriendo"
  BY <1>3, HechosC DEF InvFaseC, Pide
<1> QED BY <1>1, <1>3, <1>4, <1>5 DEF Ejecuta, Pide

LEMMA LugaresGuardarPrevio ==
  ASSUME InvarianteC, InvLugares, NEW p \in Proceso, NextGuardarPrevio(p),
         UNCHANGED <<threads_bloqueados, g_new_threads, g_blocked_threads, g_exit_threads, cola>>
  PROVE  InvLugares'
<1>1. En(p, "inicio", "SUSE_SCHEDULE_NEXT", Nulo) /\ running_thread' = running_thread
  BY DEF NextGuardarPrevio
<1>2. PICK t : t = running_thread[p]
  OBVIOUS
<1>3. t \in Hilo /\ t # Nulo /\ padre[t] = p
  BY <1>1, <1>2, EnHechos
<1>4. /\ IrA(p, "next_elegir", hilo[p], leido[p]) /\ pedido' = pedido /\ SigueOConsume(p)
      /\ ready' = [ready EXCEPT ![p] = Candidatos(p)]
      /\ estado' = [estado EXCEPT ![t] = IF @ = "RUNNING" THEN "READY" ELSE @]
  BY <1>2, <1>3 DEF NextGuardarPrevio, Seguir, SeguirCon, SigueOConsume
<1>5. \A g \in Hilo : estado'[g] = "RUNNING" => estado[g] = "RUNNING"
  BY <1>3, <1>4, TiposHechos
<1>6. /\ "SUSE_SCHEDULE_NEXT" \in OpConRespuesta
      /\ "inicio" \notin PuntosJoin \cup PuntosClose \cup PuntosSuelta
      /\ "next_elegir" \notin PuntosJoin \cup PuntosSuelta \cup PuntosMano
  BY DEF PuntosJoin, PuntosClose, PuntosSuelta, PuntosMano, OpConRespuesta
<1>7. CASE estado[t] # "RUNNING"
  <2>1. ready' = ready
    BY <1>2, <1>4, <1>7, TiposHechos DEF Candidatos
  <2>2. UNCHANGED <<ready, g_new_threads, g_blocked_threads, g_exit_threads, threads_bloqueados, cola,
                    running_thread>>
    BY <1>1, <2>1
  <2> QED BY <1>1, <1>4, <1>5, <1>6, <2>2, PasoSinMover
<1>8. CASE estado[t] = "RUNNING"
  <2>1. ready' = [ready EXCEPT ![p] = ready[p] \cup {t}]
    BY <1>2, <1>4, <1>8 DEF Candidatos
  <2>2. t \in ready'[p] /\ \A q \in Proceso : \A g \in ready'[q] : g \in ready[q] \/ g = t
    BY <2>1, TiposHechos
  <2>3. Corre(t) /\ ~ Corre(t)'
    <3>1. ~ Ejecuta(p)'
      BY <1>1, <1>4, NoEjecutaPidiendo
    <3>2. estado'[t] = "READY"
      BY <1>3, <1>4, <1>8, TiposHechos
    <3> QED BY <1>2, <1>3, <1>8, <3>1, <3>2 DEF Corre
  <2>4. Puesto(t, "corre", Nulo) /\ ~ Puesto(t, "corre", Nulo)' /\ Puesto(t, "ready", Nulo)'
    BY <1>3, <2>2, <2>3 DEF Puesto
  <2>5. "corre" \in Clase /\ "ready" \in Clase \ {"corre"} /\ Nulo \in Donde
        /\ "corre" \notin Retiene /\ "ready" \notin Retiene
    BY DEF Clase, Donde, Retiene
  <2>6. t \notin g_blocked_threads'
    BY <1>3, <2>4, <2>5, PuestoUnico
  <2>7. /\ g_blocked_threads' \subseteq Hilo /\ SinRepetidos(g_new_threads')
        /\ \A s \in Semaforo : SinRepetidos(cola'[s])
    BY DEF InvLugares
  <2>8. IrA(p, "next_elegir", hilo[p], leido[p]) /\ pedido' = pedido /\ SigueOConsume(p)
    BY <1>4
  <2> QED BY <1>1, <1>3, <1>5, <1>6, <2>2, <2>4, <2>5, <2>6, <2>7, <2>8, PasoDeUno
<1> QED BY <1>7, <1>8

(* The process gets another running thread, h, or none, when the one it had  *)
(* runs no longer.                                                           *)
LEMMA LugaresRelevo ==
  ASSUME InvarianteC, InvLugares, NEW p \in Proceso, NEW l \in {"next_elegir", "next_nulo"},
         En(p, l, "SUSE_SCHEDULE_NEXT", Nulo),
         IrA(p, "inicio", Nulo, 0), ConsumirPedido(p),
         NEW h \in Hilo \cup {Nulo}, running_thread' = [running_thread EXCEPT ![p] = h],
         h # Nulo => /\ h \in ready[p] /\ ready' = [ready EXCEPT ![p] = @ \ {h}]
                     /\ estado' = [estado EXCEPT ![h] = "RUNNING"],
         h = Nulo => ready' = ready /\ estado' = estado,
         UNCHANGED <<threads_bloqueados, g_new_threads, g_blocked_threads, g_exit_threads, cola>>
  PROVE  InvLugares'
<1>1. /\ running_thread'[p] = h /\ \A q \in Proceso \ {p} : running_thread'[q] = running_thread[q]
      /\ \A g \in Hilo : g # h => estado'[g] = estado[g]
      /\ \A g \in Hilo : g # h => (g \in ready'[padre[g]] => g \in ready[padre[g]])
  <2>1. running_thread'[p] = h /\ \A q \in Proceso \ {p} : running_thread'[q] = running_thread[q]
    BY TiposHechos
  <2>2. CASE h = Nulo
    BY <2>1, <2>2
  <2>3. CASE h # Nulo
    <3>1. \A g \in Hilo : g # h => estado'[g] = estado[g]
      BY <2>3, TiposHechos
    <3>2. \A q \in Proceso : ready'[q] \subseteq ready[q]
      BY <2>3, TiposHechos
    <3> QED BY <2>1, <3>1, <3>2, HilosAssumption
  <2> QED BY <2>2, <2>3
<1>2. SigueOConsume(p)
  BY DEF SigueOConsume
<1>3. /\ l \notin PuntosJoin \cup PuntosSuelta \cup PuntosMano
      /\ "inicio" \notin PuntosJoin \cup PuntosSuelta \cup PuntosMano
  BY DEF PuntosJoin, PuntosSuelta, PuntosMano
<1>4. pc'[p] = "inicio" /\ pc[p] = l /\ \A q \in Proceso \ {p} : pc'[q] = pc[q]
  BY ManosPaso
<1>5. \A g \in Hilo : PorCrear(g)' => PorCrear(g)
  BY <1>2, PorCrearPaso
<1>6. \A g \in Hilo : g # h => (Corre(g)' => Corre(g))
  <2> SUFFICES ASSUME NEW g \in Hilo, g # h, Corre(g)' PROVE Corre(g)
    OBVIOUS
  <2>1. padre[g] \in Proceso \ {p} /\ running_thread[padre[g]] = g /\ estado'[g] = estado[g]
    BY <1>1, HilosAssumption DEF Corre
  <2>2. Ejecuta(padre[g])' <=> Ejecuta(padre[g])
    BY <1>1, <1>2, <2>1, EjecutaDeOtros
  <2> QED BY <2>1, <2>2 DEF Corre
<1>7. \A g \in Hilo : Une(g)' <=> Une(g)
  BY <1>1, <1>3, <1>4, HilosAssumption DEF Une, PuntosJoin
<1>8. /\ \A g \in Hilo : \A q \in Proceso : EnManos(q, PuntosSuelta, g)' <=> EnManos(q, PuntosSuelta, g)
      /\ \A g \in Hilo : \A q \in Proceso : EnManos(q, PuntosMano, g)' => EnManos(q, PuntosMano, g)
  BY <1>3, ManosPaso
<1>9. ASSUME NEW g \in Hilo, g # h PROVE Conserva(g)
  BY <1>1, <1>5, <1>6, <1>7, <1>8, <1>9, ConservaSi
<1>10. ASSUME h # Nulo PROVE Muda(h, "corre", Nulo)
  <2>1. h \in Hilo /\ padre[h] = p /\ estado'[h] = "RUNNING" /\ h \in ready[p] /\ h \notin ready'[p]
    BY <1>10, TiposHechos DEF InvarianteC, InvListasC
  <2>2. Puesto(h, "ready", Nulo) /\ ~ Puesto(h, "ready", Nulo)' /\ Puesto(h, "corre", Nulo)'
    BY <1>1, <2>1 DEF Puesto, Corre
  <2>3. "corre" \in Clase /\ "ready" \in Clase /\ Nulo \in Donde
        /\ "corre" \notin Retiene /\ "ready" \notin Retiene /\ UnPuesto
    BY DEF Clase, Donde, Retiene, InvLugares
  <2>4. h \notin g_blocked_threads'
    BY <2>1, <2>2, <2>3, PuestoUnico
  <2> QED BY <1>5, <1>7, <1>8, <2>1, <2>2, <2>3, <2>4, MudaDe
<1>11. /\ g_blocked_threads' \subseteq Hilo /\ SinRepetidos(g_new_threads')
       /\ \A s \in Semaforo : SinRepetidos(cola'[s])
  BY DEF InvLugares
<1>12. "corre" \in Clase /\ Nulo \in Donde
  BY DEF Clase, Donde
<1>13. \A g \in Hilo : Conserva(g) \/ \E m \in Clase : \E x \in Donde : Muda(g, m, x)
  BY <1>9, <1>10, <1>12, NuloAssumption
<1> QED BY <1>2, <1>3, <1>11, <1>13, InvLugaresPaso

LEMMA LugaresScheduleNext ==
  ASSUME InvarianteC, InvLugares, NEW p \in Proceso, ScheduleNext(p)
  PROVE  InvLugares'
<1>1. UNCHANGED <<threads_bloqueados, g_new_threads, g_blocked_threads, g_exit_threads, cola>>
  BY DEF ScheduleNext, semaforos
<1>2. CASE NextGuardarPrevio(p)
  BY <1>1, <1>2, LugaresGuardarPrevio
<1>3. ASSUME NEW h \in Hilo, NextElegir(p, h) PROVE InvLugares'
  BY <1>1, <1>3, LugaresRelevo, NuloAssumption DEF NextElegir, TerminarCon, Terminar
<1>4. CASE NextVacia(p)
  <2>1. /\ En(p, "next_elegir", "SUSE_SCHEDULE_NEXT", Nulo) /\ IrA(p, "next_nulo", hilo[p], leido[p])
        /\ pedido' = pedido /\ UNCHANGED <<estado, running_thread, ready>>
    BY <1>4 DEF NextVacia, Seguir, SeguirCon
  <2>2. "SUSE_SCHEDULE_NEXT" \in OpConRespuesta
    BY DEF OpConRespuesta
  <2>3. UNCHANGED <<ready, g_new_threads, g_blocked_threads, g_exit_threads, threads_bloqueados, cola,
                    running_thread>>
    BY <1>1, <2>1
  <2> QED BY <2>1, <2>2, <2>3, PasoSinMover
             DEF SigueOConsume, PuntosJoin, PuntosClose, PuntosSuelta, PuntosMano
<1>5. CASE NextQuedarSinRunning(p)
  BY <1>1, <1>5, LugaresRelevo DEF NextQuedarSinRunning, Terminar
<1> QED BY <1>2, <1>3, <1>4, <1>5 DEF ScheduleNext

-------------------------------------------------------------------------------
(* The client, and the connection *)

(* A step outside of the handlers: it changes no list, and the threads stay  *)
(* but for those that start or stop running or being created.                *)
LEMMA LugaresFuera ==
  ASSUME InvLugares,
         UNCHANGED <<ready, g_new_threads, g_blocked_threads, g_exit_threads, threads_bloqueados, cola>>,
         \A h : Conocido(h) => Conocido(h)',
         \A h \in Hilo : Conserva(h) \/ \E m \in Clase : \E x \in Donde : Muda(h, m, x),
         CreacionesDistintas', PuntoDeSignal'
  PROVE  InvLugares'
<1>1. UnPuesto' /\ BloqueadosRetenidos'
  BY PuestosTrasPaso DEF InvLugares
<1> QED BY <1>1 DEF InvLugares, SinRepetidos

(* What such a step leaves alone, for h. *)
LEMMA ConservaFuera ==
  ASSUME UNCHANGED <<ready, g_new_threads, g_blocked_threads, g_exit_threads, threads_bloqueados, cola>>,
         UNCHANGED <<pc, hilo>>, NEW h \in Hilo,
         PorCrear(h)' => PorCrear(h), Corre(h)' => Corre(h), Une(h)' <=> Une(h)
  PROVE  Conserva(h)
<1>1. \A ps : \A q \in Proceso : EnManos(q, ps, h)' <=> EnManos(q, ps, h)
  BY DEF EnManos
<1> QED BY <1>1, ConservaSi

(* A thread that the server does not know is at most about to be created.    *)
LEMMA DesconocidoSinPuesto ==
  ASSUME InvarianteC, InvLugares, NEW h \in Hilo, ~ Conocido(h)
  PROVE  /\ \A l \in Clase : \A x \in Donde : Puesto(h, l, x) => l = "pedida" /\ x = Nulo
         /\ ~ Une(h) /\ ~ Corre(h)
         /\ PorCrear(h) => h \in ults[padre[h]]
<1>1. padre[h] \in Proceso
  BY HilosAssumption
<1>2. running_thread[padre[h]] # h
  BY <1>1, HechosC, NuloAssumption
<1>3. /\ h \notin ready[padre[h]] /\ h \notin Elementos(g_new_threads) /\ h \notin g_exit_threads
      /\ \A s \in Semaforo : h \notin Elementos(cola[s])
      /\ \A t \in Hilo : h \notin threads_bloqueados[t]
  BY <1>1 DEF InvarianteC, InvListasC, InvLugares
<1>4. \A q \in Proceso : ~ EnManos(q, PuntosSuelta, h) /\ ~ EnManos(q, PuntosMano, h)
  <2> SUFFICES ASSUME NEW q \in Proceso, pc[q] \in PuntosSuelta \cup PuntosMano PROVE hilo[q] # h
    BY DEF EnManos
  <2>1. pc[q] \in EnExt \cup {"close_a_ready", "signal_running", "signal_ext"}
    BY DEF PuntosSuelta, PuntosMano, EnExt
  <2> QED BY <2>1, HechosC DEF InvPunto
<1>5. PorCrear(h) => h \in ults[padre[h]]
  <2> SUFFICES ASSUME PorCrear(h) PROVE h \in ults[padre[h]]
    OBVIOUS
  <2>1. PICK i \in DOMAIN pedido[padre[h]] : pedido[padre[h]][i] = [op |-> "SUSE_CREATE", arg |-> h]
    BY DEF PorCrear
  <2>2. pedido[padre[h]][i].op = "SUSE_CREATE" /\ pedido[padre[h]][i].arg = h
    BY <2>1
  <2> QED BY <1>1, <2>2, HechosC DEF InvPedidoC, Pide
<1> QED BY <1>2, <1>3, <1>4, <1>5 DEF Puesto, Corre, Une

(* A thread that is created is nowhere but in the request to create it.      *)
LEMMA MudaPedida ==
  ASSUME InvarianteC, InvLugares, NEW h \in Hilo, h \notin ults[padre[h]],
         UNCHANGED <<ready, g_new_threads, g_blocked_threads, g_exit_threads, threads_bloqueados, cola>>,
         UNCHANGED <<pc, hilo>>,
         PorCrear(h)', Corre(h)' => Corre(h), Une(h)' <=> Une(h)
  PROVE  Muda(h, "pedida", Nulo)
<1>1. ~ Conocido(h)
  BY DEF Conocido
<1>2. /\ \A l \in Clase : \A x \in Donde : ~ Puesto(h, l, x)
      /\ ~ Une(h) /\ ~ Corre(h)
  <2>1. ~ PorCrear(h)
    BY <1>1, DesconocidoSinPuesto
  <2> QED BY <1>1, <2>1, DesconocidoSinPuesto DEF Puesto
<1>3. \A l \in Clase : \A x \in Donde : Puesto(h, l, x)' => Puesto(h, l, x) \/ (l = "pedida" /\ x = Nulo)
  BY DEF Puesto, EnManos, Elementos, PuntosSuelta, PuntosMano
<1>4. Retiene \subseteq Clase
  BY DEF Retiene, Clase
<1>5. h \notin g_blocked_threads
  <2> HIDE DEF Puesto
  <2> QED BY <1>2, <1>4 DEF InvLugares, BloqueadosRetenidos
<1>6. Puesto(h, "pedida", Nulo)' /\ "pedida" \notin Retiene
  BY DEF Puesto, Retiene
<1> QED BY <1>2, <1>3, <1>5, <1>6 DEF Muda

(* A program sends a request, or none.  The threads stay where they are, but *)
(* for the one it creates.                                                   *)
Envia(p, op, arg) ==
  /\ enviarPedido(p, op, arg)
  /\ op \in OpConRespuesta \cup {"HANDSHAKE", "SUSE_CREATE"}
  /\ arg \in Hilo \cup Nombre \cup {Nulo}
  /\ op = "SUSE_CREATE" => arg \in Hilo /\ padre[arg] = p /\ arg \notin ults[p]

LEMMA LugaresEnviar ==
  ASSUME InvarianteC, InvLugares, NEW p \in Proceso, NEW op, NEW arg, Envia(p, op, arg),
         UNCHANGED servidor, UNCHANGED locales,
         \A q \in Proceso \ {p} : fase'[q] = fase[q],
         \A q \in Proceso : ults[q] \subseteq ults'[q],
         Ejecuta(p)' => Ejecuta(p)
  PROVE  InvLugares'
<1>1. /\ UNCHANGED <<ready, g_new_threads, g_blocked_threads, g_exit_threads, threads_bloqueados, cola>>
      /\ UNCHANGED <<pc, hilo, etapa, estado, running_thread>>
  BY DEF servidor, listas, semaforos, locales
<1>2. ConexionTipo
  BY DEF InvarianteC, TiposC
<1>3. /\ \A q \in Proceso \ {p} : pedido'[q] = pedido[q]
      /\ pedido'[p] # <<>> /\ (pedido[p] # <<>> => Head(pedido'[p]) = Head(pedido[p]))
      /\ Len(pedido[p]) \in Nat /\ (pedido[p] = <<>> <=> Len(pedido[p]) = 0)
      /\ DOMAIN pedido[p] = 1 .. Len(pedido[p])
      /\ DOMAIN pedido'[p] = 1 .. Len(pedido[p]) + 1
      /\ \A i \in 1 .. Len(pedido[p]) : pedido'[p][i] = pedido[p][i]
      /\ pedido'[p][Len(pedido[p]) + 1] = [op |-> op, arg |-> arg]
  BY <1>2, EnvioC DEF Envia
<1>4. InvPedidoC(p) /\ (pc[p] # "inicio" => pedido[p] # <<>>)
  BY HechosC DEF InvEtapaC
<1>5. \A h \in Hilo : Corre(h)' => Corre(h)
  <2>1. \A q \in Proceso \ {p} : Ejecuta(q)' => Ejecuta(q)
    BY <1>1, <1>3 DEF Ejecuta, Pide
  <2> QED BY <1>1, <2>1, HilosAssumption DEF Corre
<1>6. \A h \in Hilo : Une(h)' <=> Une(h)
  BY <1>1 DEF Une, PuntosJoin
<1>7. ASSUME NEW h \in Hilo, PorCrear(h)', ~ PorCrear(h)
      PROVE  op = "SUSE_CREATE" /\ arg = h
  <2>1. padre[h] = p
    BY <1>1, <1>3, <1>7, HilosAssumption DEF PorCrear
  <2>2. PICK i \in DOMAIN pedido'[p] :
          /\ pedido'[p][i] = [op |-> "SUSE_CREATE", arg |-> h]
          /\ i = 1 => pc'[p] \notin {"create_cargar", "create_guardar"}
    BY <1>7, <2>1 DEF PorCrear
  <2>3. i \notin 1 .. Len(pedido[p])
    BY <1>1, <1>3, <1>7, <2>1, <2>2 DEF PorCrear
  <2>4. i = Len(pedido[p]) + 1
    BY <1>3, <2>3
  <2> QED BY <1>3, <2>2, <2>4
<1>8. ASSUME op = "SUSE_CREATE" PROVE PorCrear(arg)'
  <2>1. arg \in Hilo /\ padre[arg] = p
    BY <1>8 DEF Envia
  <2>2. /\ Len(pedido[p]) + 1 \in DOMAIN pedido'[p]
        /\ pedido'[p][Len(pedido[p]) + 1] = [op |-> "SUSE_CREATE", arg |-> arg]
        /\ Len(pedido[p]) + 1 = 1 => pc'[p] \notin {"create_cargar", "create_guardar"}
    BY <1>1, <1>3, <1>4, <1>8
  <2> QED BY <2>1, <2>2 DEF PorCrear
<1>9. \A h \in Hilo : Conserva(h) \/ \E m \in Clase : \E x \in Donde : Muda(h, m, x)
  <2> SUFFICES ASSUME NEW h \in Hilo, ~ Conserva(h)
               PROVE  \E m \in Clase : \E x \in Donde : Muda(h, m, x)
    OBVIOUS
  <2>1. PorCrear(h)' /\ ~ PorCrear(h)
    BY <1>1, <1>5, <1>6, ConservaFuera
  <2>2. op = "SUSE_CREATE" /\ arg = h
    BY <1>7, <2>1
  <2>3. h \notin ults[padre[h]]
    BY <2>2 DEF Envia
  <2>4. Muda(h, "pedida", Nulo)
    BY <1>1, <1>5, <1>6, <2>1, <2>3, MudaPedida
  <2> QED BY <2>4 DEF Clase, Donde
<1>10. CreacionesDistintas'
  <2> SUFFICES ASSUME NEW q \in Proceso, NEW i \in DOMAIN pedido'[q], NEW j \in DOMAIN pedido'[q],
                      Pide(q, i, "SUSE_CREATE")', pedido'[q][j] = pedido'[q][i]
               PROVE  i = j
    BY DEF CreacionesDistintas
  <2>1. CreacionesDistintas
    BY DEF InvLugares
  <2>2. CASE q # p
    BY <1>3, <2>1, <2>2 DEF CreacionesDistintas, Pide
  <2>3. CASE q = p
    <3>1. \A k \in 1 .. Len(pedido[p]) : Pide(p, k, "SUSE_CREATE") => pedido[p][k].arg \in ults[p]
      BY <1>3, <1>4 DEF InvPedidoC
    <3>2. \A k \in 1 .. Len(pedido[p]) : Pide(p, k, "SUSE_CREATE") =>
            pedido'[p][k] # pedido'[p][Len(pedido[p]) + 1]
      BY <1>3, <3>1 DEF Pide, Envia
    <3>3. pedido'[p][i].op = "SUSE_CREATE" /\ pedido'[p][j].op = "SUSE_CREATE"
      BY <2>3 DEF Pide
    <3>4. CASE i \in 1 .. Len(pedido[p]) /\ j \in 1 .. Len(pedido[p])
      BY <1>3, <2>1, <2>3, <3>3, <3>4 DEF CreacionesDistintas, Pide
    <3>5. CASE i = Len(pedido[p]) + 1 \/ j = Len(pedido[p]) + 1
      BY SMTT(30), <1>3, <2>3, <3>2, <3>3, <3>5 DEF Pide
    <3> QED BY <1>3, <2>3, <3>4, <3>5
  <2> QED BY <2>2, <2>3
<1>11. PuntoDeSignal'
  <2>1. PuntoDeSignal /\ (pc[p] \in PuntosSuelta => pc[p] # "inicio")
    BY DEF InvLugares, PuntosSuelta
  <2> QED BY <1>1, <1>3, <1>4, <2>1 DEF PuntoDeSignal, PuntosSuelta
<1>12. \A h : Conocido(h) => Conocido(h)'
  BY <1>1, ConocidoSigue
<1> QED BY <1>1, <1>9, <1>10, <1>11, <1>12, LugaresFuera

(* The same when nothing is sent.                                            *)
LEMMA LugaresSinEnviar ==
  ASSUME InvarianteC, InvLugares, NEW p \in Proceso, pedido' = pedido, ults' = ults,
         UNCHANGED servidor, UNCHANGED locales,
         \A q \in Proceso \ {p} : fase'[q] = fase[q],
         Ejecuta(p)' => Ejecuta(p)
  PROVE  InvLugares'
<1>1. /\ UNCHANGED <<ready, g_new_threads, g_blocked_threads, g_exit_threads, threads_bloqueados, cola>>
      /\ UNCHANGED <<pc, hilo, etapa, estado, running_thread>>
  BY DEF servidor, listas, semaforos, locales
<1>2. \A h \in Hilo : Corre(h)' => Corre(h)
  <2>1. \A q \in Proceso \ {p} : Ejecuta(q)' => Ejecuta(q)
    BY <1>1 DEF Ejecuta, Pide
  <2> QED BY <1>1, <2>1, HilosAssumption DEF Corre
<1>3. \A h \in Hilo : (Une(h)' <=> Une(h)) /\ (PorCrear(h)' => PorCrear(h))
  BY <1>1 DEF Une, PuntosJoin, PorCrear
<1>4. \A h \in Hilo : Conserva(h)
  BY <1>1, <1>2, <1>3, ConservaFuera
<1>5. CreacionesDistintas' /\ PuntoDeSignal'
  BY <1>1 DEF InvLugares, CreacionesDistintas, PuntoDeSignal, Pide, PuntosSuelta
<1>6. \A h : Conocido(h) => Conocido(h)'
  BY <1>1 DEF Conocido
<1> QED BY <1>1, <1>4, <1>5, <1>6, LugaresFuera

LEMMA LugaresCliente ==
  ASSUME InvarianteC, InvLugares, NEW p \in Proceso, ClienteC(p)
  PROVE  InvLugares'
<1>1. UNCHANGED servidor /\ UNCHANGED locales /\ (Programa(p) \/ Biblioteca(p))
  BY DEF ClienteC, Cliente
<1>2. /\ InvFaseC(p) /\ InvEtapaC(p) /\ fase \in [Proceso -> Fase] /\ ults \in [Proceso -> SUBSET Hilo]
      /\ current_ult[p] \in Hilo \cup {Nulo} /\ principal[p] \in Hilo /\ padre[principal[p]] = p
      /\ DOMAIN pedido[p] = 1 .. Len(pedido[p]) /\ Len(pedido[p]) \in Nat
      /\ pedido[p] = <<>> <=> Len(pedido[p]) = 0
  BY HechosC DEF InvarianteC, TiposC, HilolayTipo
<1>3. etapa' = etapa /\ running_thread' = running_thread /\ pc' = pc
  BY <1>1 DEF servidor, listas, locales
<1>4. ASSUME NEW op \in OpConRespuesta, NEW arg \in Hilo \cup Nombre \cup {Nulo}, Llamar(p, op, arg)
      PROVE  InvLugares'
  <2>1. Envia(p, op, arg) /\ ults' = ults
    BY <1>4 DEF Llamar, Envia, OpConRespuesta
  <2>2. \A q \in Proceso \ {p} : fase'[q] = fase[q]
    BY <1>2, <1>4 DEF Llamar, EsperarRespuesta
  <2>3. Ejecuta(p)' => Ejecuta(p)
    BY <1>3, <1>4 DEF Llamar, Ejecuta
  <2> QED BY <1>1, <2>1, <2>2, <2>3, LugaresEnviar
<1>5. CASE hilolay_init(p)
  <2>1. Envia(p, "HANDSHAKE", Nulo) /\ ults' = ults
    BY <1>5 DEF hilolay_init, Envia
  <2>2. \A q \in Proceso \ {p} : fase'[q] = fase[q]
    BY <1>2, <1>5 DEF hilolay_init, EsperarRespuesta
  <2>3. ~ Ejecuta(p)'
    BY <1>2, <1>3, <1>5 DEF hilolay_init, Ejecuta, InvFaseC
  <2> QED BY <1>1, <2>1, <2>2, <2>3, LugaresEnviar
<1>6. CASE init_internal(p)
  <2>1. /\ ults[p] = {} /\ etapa[p] = "create_main"
    BY <1>2, <1>6 DEF init_internal, Recibir, InvFaseC
  <2>2. Envia(p, "SUSE_CREATE", principal[p])
    BY <1>2, <1>6, <2>1 DEF init_internal, Envia
  <2>3. /\ \A q \in Proceso \ {p} : fase'[q] = fase[q]
        /\ \A q \in Proceso : ults[q] \subseteq ults'[q]
    BY <1>2, <1>6, <2>1 DEF init_internal
  <2>4. ~ Ejecuta(p)'
    BY <1>3, <2>1 DEF Ejecuta
  <2> QED BY <1>1, <2>2, <2>3, <2>4, LugaresEnviar
<1>7. ASSUME NEW h \in Hilo, hilolay_create(p, h) PROVE InvLugares'
  <2>1. Envia(p, "SUSE_CREATE", h)
    BY <1>7 DEF hilolay_create, Envia
  <2>2. fase' = fase /\ \A q \in Proceso : ults[q] \subseteq ults'[q]
    BY <1>2, <1>7 DEF hilolay_create
  <2>3. Ejecuta(p)' => Ejecuta(p)
    BY <1>3, <1>7 DEF hilolay_create, Ejecuta
  <2> QED BY <1>1, <2>1, <2>2, <2>3, LugaresEnviar
<1>8. CASE RecibirYCeder(p)
  <2>1. Envia(p, "SUSE_SCHEDULE_NEXT", Nulo) /\ ults' = ults
    BY <1>8 DEF RecibirYCeder, Envia, OpConRespuesta
  <2>2. /\ \A q \in Proceso \ {p} : fase'[q] = fase[q]
        /\ fase'[p] = "SUSE_SCHEDULE_NEXT"
    BY <1>2, <1>8 DEF RecibirYCeder, EsperarRespuesta
  <2>3. ~ Ejecuta(p)'
    <3>1. ConexionTipo
      BY DEF InvarianteC, TiposC
    <3>2. /\ pedido'[p] # <<>> /\ Len(pedido'[p]) = Len(pedido[p]) + 1
          /\ pedido'[p][Len(pedido[p]) + 1] = [op |-> "SUSE_SCHEDULE_NEXT", arg |-> Nulo]
      BY <2>1, <3>1, EnvioC DEF Envia
    <3>3. pedido'[p][Len(pedido'[p])].op = "SUSE_SCHEDULE_NEXT"
      BY <3>2
    <3> QED BY <2>2, <3>2, <3>3 DEF Ejecuta, Pide
  <2> QED BY <1>1, <2>1, <2>2, <2>3, LugaresEnviar
(* A process that has its answer has nothing more to be served.              *)
<1>9. ASSUME fase[p] \in OpConRespuesta, respuesta[p] # <<>> PROVE RespondidoC(p)
  BY <1>2, <1>9 DEF InvFaseC, Pendiente, SinNadaQueEjecutar
<1>10. CASE swap_context(p)
  <2>1. pedido' = pedido /\ ults' = ults /\ \A q \in Proceso \ {p} : fase'[q] = fase[q]
    BY <1>2, <1>10 DEF swap_context
  <2>2. Ejecuta(p)
    <3>1. fase[p] = "SUSE_SCHEDULE_NEXT" /\ RespondidoC(p)
      BY <1>9, <1>10 DEF swap_context, Recibir, OpConRespuesta
    <3> QED BY <3>1 DEF RespondidoC, Ejecuta
  <2> QED BY <1>1, <2>1, <2>2, LugaresSinEnviar
<1>11. CASE hilolay_return(p)
  <2>1. pedido' = pedido /\ ults' = ults /\ \A q \in Proceso \ {p} : fase'[q] = fase[q]
    BY <1>2, <1>11 DEF hilolay_return
  <2>2. ~ Ejecuta(p)'
    <3>1. pedido[p] = <<>> /\ fase'[p] = "terminado"
      BY <1>2, <1>9, <1>11 DEF hilolay_return, RespondidoC, OpConRespuesta
    <3> QED BY <2>1, <3>1 DEF Ejecuta
  <2> QED BY <1>1, <2>1, <2>2, LugaresSinEnviar
<1>12. CASE Morir(p)
  <2>1. /\ pedido' = pedido /\ ults' = ults /\ \A q \in Proceso \ {p} : fase'[q] = fase[q]
        /\ fase'[p] = "terminado"
    BY <1>2, <1>12 DEF Morir
  <2>2. Ejecuta(p)' => Ejecuta(p)
    BY <1>3, <2>1 DEF Ejecuta, Pide, PuntosJoin, PuntosClose
  <2> QED BY <1>1, <2>1, <2>2, LugaresSinEnviar
<1>13. {"SUSE_JOIN", "SUSE_WAIT", "SUSE_SIGNAL", "SUSE_SCHEDULE_NEXT", "SUSE_CLOSE"} \subseteq OpConRespuesta
  BY DEF OpConRespuesta
<1>14. \/ \E op \in OpConRespuesta : \E arg \in Hilo \cup Nombre \cup {Nulo} : Llamar(p, op, arg)
       \/ hilolay_init(p) \/ init_internal(p) \/ \E h \in Hilo : hilolay_create(p, h)
       \/ RecibirYCeder(p) \/ swap_context(p) \/ hilolay_return(p) \/ Morir(p)
  <2>1. CASE hilolay_yield(p) \/ TerminarUlt(p) \/ (\E h \in Hilo : hilolay_join(p, h))
             \/ (\E s \in Nombre : hilolay_wait(p, s) \/ hilolay_signal(p, s))
    BY <1>2, <1>13, <2>1 DEF hilolay_yield, TerminarUlt, hilolay_join, hilolay_wait, hilolay_signal
  <2> QED BY <1>1, <2>1 DEF Programa, Biblioteca
<1> QED BY <1>4, <1>5, <1>6, <1>7, <1>8, <1>10, <1>11, <1>12, <1>14

(* The first two packets of a connection, and its end.                       *)
LEMMA LugaresConexion ==
  ASSUME InvarianteC, InvLugares, NEW p \in Proceso, ConexionC(p)
  PROVE  InvLugares'
<1>1. /\ pc[p] = "inicio" /\ UNCHANGED <<pc, hilo>> /\ UNCHANGED <<fase, ults>>
      /\ enviarMultiProg(p) \/ esperarPaqueteCreateMain(p) \/ CerrarConexion(p)
  BY DEF ConexionC, locales, hilolay
<1>2. /\ UNCHANGED <<ready, g_new_threads, g_blocked_threads, g_exit_threads, threads_bloqueados, cola>>
      /\ etapa' = [etapa EXCEPT ![p] = etapa'[p]]
  BY <1>1 DEF enviarMultiProg, esperarPaqueteCreateMain, CerrarConexion, listas, semaforos,
              InvarianteC, TiposC
<1>3. /\ ConexionTipo /\ etapa \in [Proceso -> Etapa] /\ InvFaseC(p) /\ InvEtapaC(p)
      /\ principal[p] \in Hilo /\ padre[principal[p]] = p /\ principal[p] # Nulo
  BY HechosC, NuloAssumption DEF InvarianteC, TiposC
<1>4. /\ etapa[p] \in {"bucle", "cerrada"} => etapa'[p] \in {"bucle", "cerrada"}
      /\ \A q \in Proceso \ {p} : etapa'[q] = etapa[q]
  BY <1>1, <1>2, <1>3 DEF enviarMultiProg, esperarPaqueteCreateMain, CerrarConexion
<1>5. \A h : Conocido(h) => Conocido(h)'
  <2>1. \A q \in Proceso : ults[q] \subseteq ults'[q]
    BY <1>1
  <2>2. \A q \in Proceso : etapa[q] \in {"bucle", "cerrada"} => etapa'[q] \in {"bucle", "cerrada"}
    BY <1>4
  <2> QED BY <2>1, <2>2, ConocidoSigue
(* The packet, if any, is the only one or the first one.                     *)
<1>6. /\ \A q \in Proceso \ {p} : pedido'[q] = pedido[q]
      /\ DOMAIN pedido'[p] = {} \/ pedido' = pedido
           \/ /\ DOMAIN pedido[p] = 1 .. Len(pedido[p]) /\ Len(pedido[p]) \in Nat
              /\ DOMAIN pedido'[p] = 1 .. Len(pedido[p]) - 1
              /\ \A i \in 1 .. Len(pedido[p]) - 1 : pedido'[p][i] = pedido[p][i + 1]
              /\ pedido[p][1] = [op |-> "SUSE_CREATE", arg |-> principal[p]]
              /\ Len(pedido[p]) # 0
  <2>1. CASE enviarMultiProg(p)
    <3>1. Recibido(p, "HANDSHAKE", Nulo) /\ ConsumirPedido(p) /\ etapa[p] = "handshake"
      BY <2>1 DEF enviarMultiProg
    <3>2. /\ pedido[p] # <<>> /\ DOMAIN pedido'[p] = 1 .. Len(pedido[p]) - 1
          /\ \A q \in Proceso \ {p} : pedido'[q] = pedido[q]
      BY <1>3, <3>1, ConsumoC
    <3>3. Len(pedido[p]) = 1
      <4>1. fase[p] = "HANDSHAKE"
        <5>1. fase[p] \in {"sin_conectar", "HANDSHAKE"}
          BY <1>3, <3>1 DEF InvEtapaC
        <5>2. fase[p] = "sin_conectar" => pedido[p] = <<>>
          BY <1>3 DEF InvFaseC
        <5> QED BY <3>2, <5>1, <5>2
      <4> QED BY <1>3, <3>1, <3>2, <4>1 DEF InvFaseC
    <3> QED BY <3>2, <3>3
  <2>2. CASE esperarPaqueteCreateMain(p)
    <3>1. Recibido(p, "SUSE_CREATE", principal[p]) /\ ConsumirPedido(p)
      BY <2>2 DEF esperarPaqueteCreateMain
    <3> QED BY <1>3, <3>1, ConsumoC
  <2>3. CASE CerrarConexion(p)
    BY <2>3 DEF CerrarConexion, conexion
  <2> QED BY <1>1, <2>1, <2>2, <2>3
<1>7. \A h \in Hilo : PorCrear(h)' => PorCrear(h)
  <2> SUFFICES ASSUME NEW h \in Hilo, PorCrear(h)' PROVE PorCrear(h)
    OBVIOUS
  <2>1. CASE pedido'[padre[h]] = pedido[padre[h]]
    BY <1>1, <2>1 DEF PorCrear
  <2>2. CASE padre[h] = p /\ pedido'[p] # pedido[p]
    <3>1. PICK i \in DOMAIN pedido'[p] : pedido'[p][i] = [op |-> "SUSE_CREATE", arg |-> h]
      BY <2>2 DEF PorCrear
    <3>2. i + 1 \in DOMAIN pedido[p] /\ i + 1 # 1 /\ pedido[p][i + 1] = [op |-> "SUSE_CREATE", arg |-> h]
      BY <1>6, <2>2, <3>1
    <3> QED BY <2>2, <3>2 DEF PorCrear
  <2> QED BY <1>6, <2>1, <2>2, HilosAssumption
<1>8. CreacionesDistintas'
  <2> SUFFICES ASSUME NEW q \in Proceso, NEW i \in DOMAIN pedido'[q], NEW j \in DOMAIN pedido'[q],
                      Pide(q, i, "SUSE_CREATE")', pedido'[q][j] = pedido'[q][i]
               PROVE  i = j
    BY DEF CreacionesDistintas
  <2>1. CreacionesDistintas
    BY DEF InvLugares
  <2>2. CASE pedido'[q] = pedido[q]
    BY <2>1, <2>2 DEF CreacionesDistintas, Pide
  <2>3. CASE q = p /\ pedido'[p] # pedido[p]
    <3> DEFINE n == Len(pedido[p])
    <3>0. /\ DOMAIN pedido[p] = 1..n /\ n \in Nat /\ DOMAIN pedido'[p] = 1..(n - 1)
          /\ \A k \in 1..(n - 1) : pedido'[p][k] = pedido[p][k + 1]
      BY <1>6, <2>3
    <3> HIDE DEF n
    <3>1. /\ i + 1 \in DOMAIN pedido[p] /\ j + 1 \in DOMAIN pedido[p] /\ i \in Int /\ j \in Int
          /\ pedido'[p][i] = pedido[p][i + 1] /\ pedido'[p][j] = pedido[p][j + 1]
      <4>1. i \in 1..(n - 1) /\ j \in 1..(n - 1)
        BY <2>3, <3>0
      <4> QED BY SMTT(30), <3>0, <4>1
    <3>2. i + 1 = j + 1
      BY <2>1, <2>3, <3>1 DEF CreacionesDistintas, Pide
    <3> QED BY <3>1, <3>2
  <2> QED BY <1>6, <2>2, <2>3
<1>9. PuntoDeSignal'
  BY <1>1, <1>6 DEF InvLugares, PuntoDeSignal, PuntosSuelta
<1>10. \A q \in Proceso \ {p} : Ejecuta(q)' => Ejecuta(q)
  BY <1>1, <1>4, <1>6 DEF esperarPaqueteCreateMain, enviarMultiProg, CerrarConexion, listas,
     Ejecuta, Pide, PuntosJoin, PuntosClose, InvarianteC, TiposC
<1>11. CASE enviarMultiProg(p) \/ CerrarConexion(p)
  <2>1. running_thread' = running_thread /\ estado' = estado /\ etapa'[p] # "bucle"
    BY <1>3, <1>11 DEF enviarMultiProg, CerrarConexion, listas
  <2>2. \A q \in Proceso : Ejecuta(q)' => Ejecuta(q)
    BY <1>10, <2>1 DEF Ejecuta
  <2>3. \A h \in Hilo : Corre(h)' => Corre(h)
    BY <2>1, <2>2, HilosAssumption DEF Corre
  <2>4. \A h \in Hilo : Une(h)' <=> Une(h)
    BY <1>1, <2>1 DEF Une, PuntosJoin
  <2>5. \A h \in Hilo : Conserva(h)
    BY <1>1, <1>2, <1>7, <2>3, <2>4, ConservaFuera
  <2> QED BY <1>2, <1>5, <1>8, <1>9, <2>5, LugaresFuera
<1>12. CASE esperarPaqueteCreateMain(p)
  <2>1. PICK t : t = principal[p]
    OBVIOUS
  <2>2. /\ etapa[p] = "create_main" /\ Recibido(p, "SUSE_CREATE", t) /\ ConsumirPedido(p)
        /\ estado' = [estado EXCEPT ![t] = "RUNNING"]
        /\ running_thread' = [running_thread EXCEPT ![p] = t] /\ t \in Hilo /\ padre[t] = p /\ t # Nulo
    BY <1>3, <1>12, <2>1 DEF esperarPaqueteCreateMain
  <2>3. /\ running_thread'[p] = t /\ \A q \in Proceso \ {p} : running_thread'[q] = running_thread[q]
        /\ estado'[t] = "RUNNING" /\ \A g \in Hilo \ {t} : estado'[g] = estado[g]
    BY <2>2, TiposHechos
  <2>4. ~ Conocido(t)
    BY <2>2 DEF Conocido
  <2>5. \A g \in Hilo \ {t} : Corre(g)' => Corre(g)
    BY <1>10, <2>3, HilosAssumption DEF Corre
  <2>6. \A g \in Hilo : Une(g)' <=> Une(g)
    BY <1>1, <2>3, HilosAssumption DEF Une, PuntosJoin
  <2>7. ASSUME NEW g \in Hilo \ {t} PROVE Conserva(g)
    BY <1>1, <1>2, <1>7, <2>5, <2>6, ConservaFuera
  <2>8. PorCrear(t) /\ ~ PorCrear(t)'
    <3>1. /\ DOMAIN pedido[p] = 1 .. Len(pedido[p]) /\ Len(pedido[p]) \in Nat /\ Len(pedido[p]) # 0
          /\ DOMAIN pedido'[p] = 1 .. Len(pedido[p]) - 1
          /\ \A i \in 1 .. Len(pedido[p]) - 1 : pedido'[p][i] = pedido[p][i + 1]
          /\ pedido[p][1] = [op |-> "SUSE_CREATE", arg |-> t]
      BY <1>3, <2>2, ConsumoC
    <3>2. 1 \in DOMAIN pedido[p] /\ Pide(p, 1, "SUSE_CREATE")
      BY <3>1 DEF Pide
    <3>3. \A i \in DOMAIN pedido[p] : pedido[p][i] = pedido[p][1] => i = 1
      BY <3>2 DEF InvLugares, CreacionesDistintas
    <3>4. \A i \in DOMAIN pedido'[p] : i + 1 \in DOMAIN pedido[p] /\ i + 1 # 1
      BY <3>1
    <3>5. PorCrear(t)
      BY <1>1, <2>2, <3>1, <3>2 DEF PorCrear
    <3>6. ~ PorCrear(t)'
      BY <2>2, <3>1, <3>3, <3>4 DEF PorCrear
    <3> QED BY <3>5, <3>6
  <2>9. Puesto(t, "pedida", Nulo) /\ ~ Puesto(t, "pedida", Nulo)' /\ Puesto(t, "corre", Nulo)'
    BY <2>2, <2>3, <2>8 DEF Puesto, Corre
  <2>10. /\ "pedida" \in Clase /\ "corre" \in Clase /\ Nulo \in Donde /\ UnPuesto
         /\ "pedida" \notin Retiene /\ "corre" \notin Retiene
    BY DEF Clase, Donde, Retiene, InvLugares
  <2>11. t \notin g_blocked_threads'
    BY <1>2, <2>2, <2>9, <2>10, PuestoUnico
  <2>12. \A ps : \A q \in Proceso : EnManos(q, ps, t)' <=> EnManos(q, ps, t)
    BY <1>1 DEF EnManos
  <2>13. Muda(t, "corre", Nulo)
    BY <1>2, <1>7, <2>2, <2>6, <2>9, <2>10, <2>11, <2>12, MudaDe
  <2>14. \A g \in Hilo : Conserva(g) \/ \E m \in Clase : \E x \in Donde : Muda(g, m, x)
    BY <2>7, <2>10, <2>13
  <2> QED BY <1>2, <1>5, <1>8, <1>9, <2>14, LugaresFuera
<1> QED BY <1>1, <1>11, <1>12

-------------------------------------------------------------------------------
(* The invariant, and what it says *)

LEMMA InitInvLugares == InitC => InvLugares
<1> SUFFICES ASSUME InitC PROVE InvLugares
  OBVIOUS
<1>1. /\ pedido = [p \in Proceso |-> <<>>] /\ etapa = [p \in Proceso |-> "handshake"]
      /\ estado = [h \in Hilo |-> "SIN_CREAR"] /\ threads_bloqueados = [h \in Hilo |-> {}]
      /\ running_thread = [p \in Proceso |-> Nulo] /\ ready = [p \in Proceso |-> {}]
      /\ g_new_threads = <<>> /\ g_blocked_threads = {} /\ g_exit_threads = {}
      /\ cola = [s \in Semaforo |-> <<>>] /\ pc = [p \in Proceso |-> "inicio"]
  BY DEF InitC, Init, ConexionInit, SuseInit
<1>2. Elementos(<<>>) = {} /\ SinRepetidos(<<>>) /\ DOMAIN <<>> = {}
  BY DEF Elementos, SinRepetidos
<1>3. \A h \in Hilo : ~ PorCrear(h) /\ ~ Corre(h) /\ ~ Une(h)
  BY <1>1, <1>2, HilosAssumption, NuloAssumption DEF PorCrear, Corre, Ejecuta, Une
<1>4. \A h : \A q \in Proceso : ~ EnManos(q, PuntosSuelta, h) /\ ~ EnManos(q, PuntosMano, h)
  BY <1>1 DEF EnManos, PuntosSuelta, PuntosMano
<1>5. \A h \in Hilo : \A l \in Clase : \A x \in Donde : ~ Puesto(h, l, x)
  <2>1. \A h \in Hilo : h \notin ready[padre[h]]
    BY <1>1, HilosAssumption
  <2> QED BY ZenonT(60), <1>1, <1>2, <1>3, <1>4, <2>1 DEF Puesto
<1>6. UnPuesto /\ BloqueadosRetenidos
  <2>1. Retiene \subseteq Clase
    BY DEF Retiene, Clase
  <2> HIDE DEF Puesto
  <2> QED BY <1>1, <1>5, <2>1 DEF UnPuesto, BloqueadosRetenidos
<1>7. CreacionesDistintas /\ PuntoDeSignal
  BY <1>1, <1>2 DEF CreacionesDistintas, PuntoDeSignal, PuntosSuelta
<1> QED BY <1>1, <1>2, <1>6, <1>7 DEF InvLugares

LEMMA PasoInvLugares == InvarianteC /\ InvLugares /\ [NextC]_varsC => InvLugares'
<1> SUFFICES ASSUME InvarianteC, InvLugares, [NextC]_varsC PROVE InvLugares'
  OBVIOUS
<1>1. CASE UNCHANGED varsC
  BY <1>1, LugaresIguales DEF varsC
<1>2. ASSUME NEW p \in Proceso, ServidorC(p) PROVE InvLugares'
  BY <1>2, LugaresConexion, LugaresCreate, LugaresClose, LugaresJoin, LugaresScheduleNext,
     LugaresWait, LugaresSignal DEF ServidorC
<1>3. ASSUME NEW p \in Proceso, ClienteC(p) PROVE InvLugares'
  BY <1>3, LugaresCliente
<1> QED BY <1>1, <1>2, <1>3 DEF NextC

(* In every state of the interleaved server each thread is in one place at   *)
(* most: a list, a queue, a buffered request, the hands of a handler, or     *)
(* running; and a blocked thread is in exactly one that can release it.      *)
THEOREM InvLugaresTheorem == SpecC => []InvLugares
<1>1. InitC => InvLugares
  BY InitInvLugares
<1>2. InvarianteC /\ InvLugares /\ [NextC]_varsC => InvLugares'
  BY PasoInvLugares
<1> QED BY <1>1, <1>2, InvarianteCTheorem, PTL DEF SpecC

(* No blocked thread is lost: it waits in one queue or for one thread, or a  *)
(* handler has it in its hands, whatever waits, signals, joins and closes    *)
(* interleave.                                                               *)
THEOREM EsperaNoPerdidaTheorem == SpecC => []EsperaNoPerdida
<1>1. InvarianteC /\ InvLugares => EsperaNoPerdida
  <2> SUFFICES ASSUME InvarianteC, InvLugares, NEW h \in g_blocked_threads
               PROVE  Cardinality(Esperas(h)) = 1 \/ EnTransito(h)
    BY DEF EsperaNoPerdida
  <2>1. h \in Hilo /\ padre[h] \in Proceso
    BY HilosAssumption DEF InvLugares
  <2>2. PICK l \in Retiene, x \in Donde : Puesto(h, l, x)
    BY <2>1 DEF InvLugares, BloqueadosRetenidos
  <2>3. \A m \in Clase : \A y \in Donde : Puesto(h, m, y) => m = l /\ y = x
    <3>1. l \in Clase
      BY <2>2 DEF Retiene, Clase
    <3> QED BY <2>1, <2>2, <3>1, PuestoUnico
  <2>4. CASE l = "une"
    BY <2>2, <2>4 DEF Puesto, Une, PuntosJoin, EnTransito
  <2>5. CASE l = "suelta"
    <3>1. x \in Proceso /\ pc[x] \in PuntosSuelta /\ hilo[x] = h
      BY <2>2, <2>5 DEF Puesto, EnManos
    <3>2. pedido[x] # <<>> /\ pedido[x] \in Seq(Pedido)
      BY <3>1, HechosC DEF InvEtapaC, PuntosSuelta
    <3>3. Head(pedido[x]) \in Pedido /\ Head(pedido[x]).op = "SUSE_SIGNAL"
      BY <3>1, <3>2, Quitar DEF InvLugares, PuntoDeSignal
    <3>4. Head(pedido[x]) = [op |-> "SUSE_SIGNAL", arg |-> Head(pedido[x]).arg]
      BY <3>3 DEF Pedido
    <3> QED BY <3>1, <3>2, <3>4 DEF EnTransito, Recibido
  <2>6. CASE l \in {"cola", "join"}
    <3>1. Semaforo \cap Hilo = {}
      BY NombresAssumption, ConfigAssumption
    <3>2. "cola" \in Clase /\ "join" \in Clase /\ Semaforo \subseteq Donde /\ Hilo \subseteq Donde
      BY DEF Clase, Donde
    <3>3. Esperas(h) = {x}
      BY <2>1, <2>2, <2>3, <2>6, <3>1, <3>2 DEF Esperas, Puesto
    <3> QED BY <3>3, FS_Singleton
  <2> QED BY <2>4, <2>5, <2>6 DEF Retiene
<1> QED BY <1>1, InvarianteCTheorem, InvLugaresTheorem, PTL

(* No thread is in two lists, although it is in none while a handler moves   *)
(* it from one to another.                                                   *)
THEOREM NoEnDosListasTheorem == SpecC => []NoEnDosListas
<1>1. InvarianteC /\ InvLugares => NoEnDosListas
  <2> SUFFICES ASSUME InvarianteC, InvLugares, NEW h \in Hilo
               PROVE  Cardinality(Lugares(h)) <= 1
    BY DEF NoEnDosListas
  <2> DEFINE Clases(a) ==
        CASE a = "running_thread" -> {"corre"} [] a = "ready" -> {"ready"}
          [] a = "g_new_threads" -> {"new"} [] a = "g_exit_threads" -> {"exit"}
          [] OTHER -> Retiene
  <2>1. ASSUME NEW a \in Lugares(h) PROVE \E l \in Clases(a) : \E x \in Donde : Puesto(h, l, x)
    <3>1. CASE a = "g_blocked_threads"
      <4>1. h \in g_blocked_threads
        BY <2>1, <3>1 DEF Lugares
      <4>2. \E l \in Retiene : \E x \in Donde : Puesto(h, l, x)
        BY <4>1 DEF InvLugares, BloqueadosRetenidos
      <4> QED BY <3>1, <4>2
    <3>2. CASE a # "g_blocked_threads"
      <4>1. Nulo \in Donde
        BY DEF Donde
      <4> QED BY <2>1, <3>2, <4>1 DEF Lugares, Puesto, Corre
    <3> QED BY <3>1, <3>2
  <2>2. ASSUME NEW a \in Lugares(h), NEW b \in Lugares(h) PROVE a = b
    <3>1. a \in Lista /\ b \in Lista
      BY DEF Lugares, Lista
    <3>2. PICK l \in Clases(a), m \in Clases(b) :
            \E x, y \in Donde : Puesto(h, l, x) /\ Puesto(h, m, y)
      BY <2>1
    <3>3. l \in Clase /\ m \in Clase
      BY <3>1, <3>2 DEF Lista, Retiene, Clase
    <3>4. l = m
      BY <3>2, <3>3 DEF InvLugares, UnPuesto
    <3> QED BY <3>1, <3>2, <3>4 DEF Lista, Retiene
  <2>3. CASE Lugares(h) = {}
    BY <2>3, FS_EmptySet
  <2>4. CASE Lugares(h) # {}
    <3> HIDE DEF Clases
    <3>1. PICK a : a \in Lugares(h)
      BY <2>4
    <3>2. \A b \in Lugares(h) : a = b
      BY <2>2, <3>1
    <3>3. Lugares(h) = {a}
      BY <3>1, <3>2
    <3>4. Cardinality(Lugares(h)) = 1
      BY <3>3, FS_Singleton
    <3> QED BY <3>4
  <2> QED BY <2>3, <2>4
<1> QED BY <1>1, InvarianteCTheorem, InvLugaresTheorem, PTL

===============================================================================
