--------------------------- MODULE SuseConcurrenteProofs --------------------------
(***************************************************************************)
(* Proofs about the interleaved server, for every set of processes, every  *)
(* finite set of threads, any semaphores and whatever requests the programs *)
(* make: the mutexes exclude, threads queue on a semaphore only at value 0, *)
(* a process has at most one running thread, and every process gets the     *)
(* answer it waits for.                                                    *)
(***************************************************************************)
EXTENDS SuseConcurrente, SuseProofs

ProtocoloC(q) == InvPedidoC(q) /\ InvFaseC(q) /\ InvEtapaC(q)

-------------------------------------------------------------------------------
(* Facts about one process *)

LEMMA HechosC ==
  ASSUME InvarianteC, NEW p \in Proceso
  PROVE  /\ InvPedidoC(p) /\ InvFaseC(p) /\ InvEtapaC(p) /\ InvPunto(p)
         /\ pedido[p] \in Seq(Pedido) /\ respuesta[p] \in Seq(Respuesta)
         /\ Len(pedido[p]) \in Nat /\ DOMAIN pedido[p] = 1 .. Len(pedido[p])
         /\ pedido[p] = <<>> <=> Len(pedido[p]) = 0
         /\ fase[p] \in Fase /\ etapa[p] \in Etapa /\ ults[p] \subseteq Hilo
         /\ running_thread[p] \in Hilo \cup {Nulo}
         /\ running_thread[p] # Nulo =>
              /\ running_thread[p] \in Hilo /\ padre[running_thread[p]] = p
              /\ Conocido(running_thread[p])
         /\ principal[p] \in Hilo /\ padre[principal[p]] = p
<1> USE HilosAssumption DEF InvarianteC
<1>1. InvPedidoC(p) /\ InvFaseC(p) /\ InvEtapaC(p) /\ InvPunto(p)
  OBVIOUS
<1>2. pedido[p] \in Seq(Pedido) /\ respuesta[p] \in Seq(Respuesta)
  BY DEF TiposC, ConexionTipo
<1>3. /\ Len(pedido[p]) \in Nat /\ DOMAIN pedido[p] = 1 .. Len(pedido[p])
      /\ pedido[p] = <<>> <=> Len(pedido[p]) = 0
  BY <1>2, LenProperties, EmptySeq
<1>4. /\ fase[p] \in Fase /\ etapa[p] \in Etapa /\ ults[p] \subseteq Hilo
      /\ running_thread[p] \in Hilo \cup {Nulo}
  BY DEF TiposC, HilolayTipo
<1>5. running_thread[p] # Nulo => padre[running_thread[p]] = p /\ Conocido(running_thread[p])
  BY DEF InvListasC
<1> QED BY <1>1, <1>2, <1>3, <1>4, <1>5

(* What the server knows it does not forget. *)
LEMMA ConocidoSigue ==
  ASSUME \A q \in Proceso : ults[q] \subseteq ults'[q],
         \A q \in Proceso : etapa[q] \in {"bucle", "cerrada"} => etapa'[q] \in {"bucle", "cerrada"}
  PROVE  \A h : Conocido(h) => Conocido(h)'
BY HilosAssumption DEF Conocido

(* Sending a request appends it to the sender's connection.                  *)
LEMMA EnvioC ==
  ASSUME ConexionTipo, NEW p \in Proceso, NEW op, NEW arg,
         op \in OpConRespuesta \cup {"HANDSHAKE", "SUSE_CREATE"},
         arg \in Hilo \cup Nombre \cup {Nulo},
         enviarPedido(p, op, arg)
  PROVE  /\ pedido' \in [Proceso -> Seq(Pedido)]
         /\ \A q \in Proceso \ {p} : pedido'[q] = pedido[q]
         /\ pedido'[p] # <<>>
         /\ pedido[p] # <<>> => Head(pedido'[p]) = Head(pedido[p])
         /\ Len(pedido[p]) \in Nat /\ (pedido[p] = <<>> <=> Len(pedido[p]) = 0)
         /\ Len(pedido'[p]) = Len(pedido[p]) + 1
         /\ DOMAIN pedido[p] = 1 .. Len(pedido[p])
         /\ DOMAIN pedido'[p] = 1 .. Len(pedido[p]) + 1
         /\ \A i \in 1 .. Len(pedido[p]) : pedido'[p][i] = pedido[p][i]
         /\ pedido'[p][Len(pedido[p]) + 1] = [op |-> op, arg |-> arg]
<1>1. pedido \in [Proceso -> Seq(Pedido)]
  BY DEF ConexionTipo
<1>2. [op |-> op, arg |-> arg] \in Pedido
  BY DEF Pedido
<1>3. /\ pedido'[p] = Append(pedido[p], [op |-> op, arg |-> arg])
      /\ pedido' = [pedido EXCEPT ![p] = Append(@, [op |-> op, arg |-> arg])]
  BY <1>1 DEF enviarPedido
<1> HIDE DEF Pedido
<1>4. /\ pedido' \in [Proceso -> Seq(Pedido)]
      /\ \A q \in Proceso \ {p} : pedido'[q] = pedido[q]
      /\ pedido'[p] # <<>>
      /\ Len(pedido'[p]) = Len(pedido[p]) + 1
      /\ DOMAIN pedido[p] = 1 .. Len(pedido[p])
      /\ DOMAIN pedido'[p] = 1 .. Len(pedido[p]) + 1
      /\ \A i \in 1 .. Len(pedido[p]) : pedido'[p][i] = pedido[p][i]
      /\ pedido'[p][Len(pedido[p]) + 1] = [op |-> op, arg |-> arg]
  BY <1>1, <1>2, <1>3, Agregar
<1>5. Len(pedido[p]) \in Nat /\ (pedido[p] = <<>> <=> Len(pedido[p]) = 0)
  BY <1>1, Vacia
<1>6. pedido[p] # <<>> => Head(pedido'[p]) = Head(pedido[p])
  <2>1. pedido[p] # <<>> => Head(pedido[p]) = pedido[p][1]
    BY <1>1, Quitar
  <2>2. Head(pedido'[p]) = pedido'[p][1]
    BY <1>4, Quitar
  <2> QED BY <1>4, <1>5, <2>1, <2>2
<1> QED BY <1>4, <1>5, <1>6

(* The same, on a connection with nothing buffered.                          *)
LEMMA PrimerEnvioC ==
  ASSUME ConexionTipo, NEW p \in Proceso, NEW op, NEW arg,
         op \in OpConRespuesta \cup {"HANDSHAKE", "SUSE_CREATE"},
         arg \in Hilo \cup Nombre \cup {Nulo},
         enviarPedido(p, op, arg), pedido[p] = <<>>
  PROVE  /\ pedido' \in [Proceso -> Seq(Pedido)]
         /\ \A q \in Proceso \ {p} : pedido'[q] = pedido[q]
         /\ pedido'[p] # <<>> /\ Len(pedido'[p]) = 1 /\ DOMAIN pedido'[p] = 1 .. 1
         /\ pedido'[p][1] = [op |-> op, arg |-> arg]
<1>1. /\ pedido' \in [Proceso -> Seq(Pedido)] /\ pedido'[p] # <<>>
      /\ \A q \in Proceso \ {p} : pedido'[q] = pedido[q]
      /\ Len(pedido[p]) = 0
      /\ Len(pedido'[p]) = Len(pedido[p]) + 1
      /\ DOMAIN pedido'[p] = 1 .. Len(pedido[p]) + 1
      /\ pedido'[p][Len(pedido[p]) + 1] = [op |-> op, arg |-> arg]
  BY EnvioC
<1> QED BY <1>1

(* Reading a request takes it off the connection it came by.                 *)
LEMMA ConsumoC ==
  ASSUME ConexionTipo, NEW p \in Proceso, NEW op, NEW arg,
         Recibido(p, op, arg), ConsumirPedido(p)
  PROVE  /\ pedido' \in [Proceso -> Seq(Pedido)]
         /\ \A q \in Proceso \ {p} : pedido'[q] = pedido[q]
         /\ pedido[p] # <<>> /\ pedido[p][1] = [op |-> op, arg |-> arg]
         /\ pedido[p][1] \in Pedido /\ Len(pedido[p]) \in Nat \ {0}
         /\ DOMAIN pedido[p] = 1 .. Len(pedido[p])
         /\ Len(pedido'[p]) = Len(pedido[p]) - 1
         /\ DOMAIN pedido'[p] = 1 .. Len(pedido[p]) - 1
         /\ pedido'[p] = <<>> <=> Len(pedido[p]) = 1
         /\ \A i \in 1 .. Len(pedido[p]) - 1 : pedido'[p][i] = pedido[p][i + 1]
<1>1. pedido \in [Proceso -> Seq(Pedido)]
  BY DEF ConexionTipo
<1>2. /\ pedido[p] # <<>> /\ Head(pedido[p]) = [op |-> op, arg |-> arg]
      /\ pedido' = [pedido EXCEPT ![p] = Tail(@)]
  BY DEF Recibido, ConsumirPedido
<1>3. /\ pedido' \in [Proceso -> Seq(Pedido)]
      /\ \A q \in Proceso \ {p} : pedido'[q] = pedido[q]
      /\ pedido[p][1] = [op |-> op, arg |-> arg]
      /\ pedido[p][1] \in Pedido /\ Len(pedido[p]) \in Nat \ {0}
      /\ DOMAIN pedido[p] = 1 .. Len(pedido[p])
      /\ Len(pedido'[p]) = Len(pedido[p]) - 1
      /\ DOMAIN pedido'[p] = 1 .. Len(pedido[p]) - 1
      /\ \A i \in 1 .. Len(pedido[p]) - 1 : pedido'[p][i] = pedido[p][i + 1]
  BY <1>1, <1>2, Quitar
<1>4. pedido'[p] = <<>> <=> Len(pedido'[p]) = 0
  BY ZenonT(60), <1>3, Vacia
<1> QED BY <1>2, <1>3, <1>4

-------------------------------------------------------------------------------
(* The protocol *)

(* It holds on for a process that a step leaves alone.                       *)
LEMMA MarcoProtocoloC ==
  ASSUME NEW q \in Proceso, ProtocoloC(q),
         pedido'[q] = pedido[q], respuesta'[q] = respuesta[q],
         (q \in abierto') <=> (q \in abierto),
         fase'[q] = fase[q], ults'[q] = ults[q],
         etapa'[q] = etapa[q], running_thread'[q] = running_thread[q],
         pc'[q] # "inicio" => etapa[q] = "bucle" /\ pedido[q] # <<>>
  PROVE  ProtocoloC(q)'
<1>1. InvPedidoC(q)'
  BY DEF ProtocoloC, InvPedidoC, Pide
<1>2. Pendiente(q) => Pendiente(q)'
  BY DEF Pendiente, Pide
<1>3. RespondidoC(q) => RespondidoC(q)'
  BY DEF RespondidoC
<1>4. SinNadaQueEjecutar(q) => SinNadaQueEjecutar(q)'
  BY DEF SinNadaQueEjecutar
<1>5. InvFaseC(q)'
  BY <1>2, <1>3, <1>4 DEF ProtocoloC, InvFaseC, Pide
<1>6. InvEtapaC(q)'
  BY DEF ProtocoloC, InvEtapaC
<1> QED BY <1>1, <1>5, <1>6 DEF ProtocoloC

(* What a handler may rely on, whatever point it is at.                      *)
LEMMA EnHechos ==
  ASSUME InvarianteC, NEW p \in Proceso, NEW l, NEW op, NEW arg, En(p, l, op, arg)
  PROVE  /\ etapa' = etapa /\ abierto' = abierto
         /\ fase' = fase /\ ults' = ults /\ current_ult' = current_ult
         /\ etapa[p] = "bucle" /\ pc[p] = l /\ Recibido(p, op, arg)
         /\ pedido[p] # <<>> /\ pedido[p][1] = [op |-> op, arg |-> arg] /\ Arg(p) = arg
         /\ running_thread[p] \in Hilo /\ running_thread[p] # Nulo
         /\ padre[running_thread[p]] = p /\ Conocido(running_thread[p])
         /\ \A h : Conocido(h) => Conocido(h)'
<1>1. /\ etapa' = etapa /\ abierto' = abierto
      /\ fase' = fase /\ ults' = ults /\ current_ult' = current_ult
      /\ etapa[p] = "bucle" /\ pc[p] = l /\ Recibido(p, op, arg)
      /\ pedido[p] # <<>> /\ Head(pedido[p]) = [op |-> op, arg |-> arg]
  BY DEF En, Recibido, hilolay
<1>2. pedido[p][1] = [op |-> op, arg |-> arg] /\ Arg(p) = arg
  BY <1>1, HechosC, Quitar DEF Arg
<1>3. running_thread[p] # Nulo
  BY <1>1, HechosC DEF InvEtapaC
<1>4. \A h : Conocido(h) => Conocido(h)'
  BY <1>1, ConocidoSigue
<1> QED BY <1>1, <1>2, <1>3, <1>4, HechosC

(* A step within a handler leaves the protocol as it was.                    *)
LEMMA ProtocoloInterno ==
  ASSUME InvarianteC, NEW p \in Proceso, NEW l, NEW op, NEW arg, En(p, l, op, arg),
         pedido' = pedido, respuesta' = respuesta, running_thread' = running_thread,
         \A q \in Proceso \ {p} : pc'[q] = pc[q]
  PROVE  \A q \in Proceso : ProtocoloC(q)'
<1> SUFFICES ASSUME NEW q \in Proceso PROVE ProtocoloC(q)'
  OBVIOUS
<1>1. /\ etapa' = etapa /\ abierto' = abierto /\ fase' = fase /\ ults' = ults
      /\ etapa[p] = "bucle" /\ pedido[p] # <<>>
  BY EnHechos
<1>2. ProtocoloC(q)
  BY HechosC DEF ProtocoloC
<1>3. pc'[q] # "inicio" => etapa[q] = "bucle" /\ pedido[q] # <<>>
  BY <1>1, <1>2 DEF ProtocoloC, InvEtapaC
<1> QED BY <1>1, <1>2, <1>3, MarcoProtocoloC

(* A request that waits for a response is the last one buffered: the process *)
(* waits for it, or has ended.                                               *)
LEMMA AtencionC ==
  ASSUME InvarianteC, NEW p \in Proceso, NEW l, NEW op \in OpConRespuesta, NEW arg,
         En(p, l, op, arg), ConsumirPedido(p)
  PROVE  /\ pedido' \in [Proceso -> Seq(Pedido)]
         /\ \A q \in Proceso \ {p} : pedido'[q] = pedido[q]
         /\ pedido'[p] = <<>> /\ DOMAIN pedido'[p] = {}
         /\ fase[p] \in {op, "terminado"} /\ (p \in abierto <=> fase[p] = op)
         /\ respuesta[p] = <<>>
<1>1. /\ Recibido(p, op, arg) /\ etapa[p] = "bucle" /\ running_thread[p] # Nulo
  BY EnHechos
<1>2. ConexionTipo
  BY DEF InvarianteC, TiposC
<1>3. /\ pedido' \in [Proceso -> Seq(Pedido)]
      /\ \A q \in Proceso \ {p} : pedido'[q] = pedido[q]
      /\ pedido[p] # <<>> /\ pedido[p][1] = [op |-> op, arg |-> arg]
      /\ Len(pedido[p]) \in Nat \ {0} /\ DOMAIN pedido[p] = 1 .. Len(pedido[p])
      /\ DOMAIN pedido'[p] = 1 .. Len(pedido[p]) - 1
      /\ pedido'[p] = <<>> <=> Len(pedido[p]) = 1
  BY <1>1, <1>2, ConsumoC
<1>4. InvPedidoC(p) /\ InvFaseC(p) /\ InvEtapaC(p) /\ fase[p] \in Fase
  BY HechosC
<1>5. op # "SUSE_CREATE" /\ op # "terminado" /\ op # "sin_conectar"
  BY DEF OpConRespuesta
<1>6. Len(pedido[p]) = 1
  <2>1. 1 \in DOMAIN pedido[p] /\ pedido[p][1].op = op
    BY <1>3
  <2>2. 1 # Len(pedido[p]) => pedido[p][1].op = "SUSE_CREATE"
    BY <1>4, <2>1 DEF InvPedidoC, Pide
  <2> QED BY <1>5, <2>1, <2>2
<1>7. fase[p] \notin {"sin_conectar", "HANDSHAKE", "corriendo"}
  <2>1. 1 \in DOMAIN pedido[p] /\ pedido[p][1].op # "SUSE_CREATE"
    BY <1>3, <1>5
  <2>2. fase[p] # "corriendo"
    BY <1>4, <2>1 DEF InvFaseC, Pide
  <2> QED BY <1>1, <1>4, <2>2 DEF InvEtapaC
<1>8. fase[p] \in OpConRespuesta => fase[p] = op /\ respuesta[p] = <<>>
  BY <1>3, <1>4, <1>6 DEF InvFaseC, Pendiente, RespondidoC, SinNadaQueEjecutar, Pide
<1>9. /\ fase[p] \in {op, "terminado"} /\ (p \in abierto <=> fase[p] = op)
      /\ respuesta[p] = <<>>
  BY <1>4, <1>5, <1>7, <1>8 DEF Fase, InvFaseC
<1> QED BY <1>3, <1>6, <1>9

(* The protocol of a process whose request has just been answered.           *)
LEMMA OperacionRespondidaC ==
  ASSUME InvarianteC, NEW p \in Proceso, NEW l, NEW op \in OpConRespuesta, NEW arg,
         En(p, l, op, arg), ConsumirPedido(p),
         p \notin abierto => respuesta'[p] = <<>>,
         p \in abierto =>
           /\ Len(respuesta'[p]) = 1 /\ respuesta'[p][1].op = op
           /\ op = "SUSE_SCHEDULE_NEXT" => respuesta'[p][1].valor = running_thread'[p],
         running_thread'[p] # Nulo, pc'[p] = "inicio"
  PROVE  ProtocoloC(p)'
<1>1. /\ pedido'[p] = <<>> /\ DOMAIN pedido'[p] = {}
      /\ fase[p] \in {op, "terminado"} /\ (p \in abierto <=> fase[p] = op)
  BY AtencionC
<1>2. /\ etapa' = etapa /\ abierto' = abierto /\ fase' = fase /\ ults' = ults
      /\ etapa[p] = "bucle"
  BY EnHechos
<1>3. op \notin {"sin_conectar", "HANDSHAKE", "corriendo", "terminado"}
  BY DEF OpConRespuesta
<1>4. InvPedidoC(p)'
  BY <1>1 DEF InvPedidoC
<1>5. InvFaseC(p)'
  <2>1. p \in abierto => RespondidoC(p)'
    BY <1>1, <1>2 DEF RespondidoC
  <2> QED BY <1>1, <1>2, <1>3, <2>1 DEF InvFaseC, OpConRespuesta
<1>6. InvEtapaC(p)'
  BY <1>1, <1>2, <1>3 DEF InvEtapaC
<1> QED BY <1>4, <1>5, <1>6 DEF ProtocoloC

(* The same, for all processes, when the answer goes to the process that     *)
(* asked and its thread goes on running or another one takes its place.      *)
LEMMA ProtocoloRespondido ==
  ASSUME InvarianteC, NEW p \in Proceso, NEW l, NEW op \in OpConRespuesta, NEW arg,
         NEW valor \in Hilo \cup Int,
         En(p, l, op, arg), TerminarCon(p, op, valor),
         \A q \in Proceso \ {p} : running_thread'[q] = running_thread[q],
         running_thread'[p] # Nulo,
         op = "SUSE_SCHEDULE_NEXT" => valor = running_thread'[p]
  PROVE  /\ pedido' \in [Proceso -> Seq(Pedido)] /\ respuesta' \in [Proceso -> Seq(Respuesta)]
         /\ \A q \in Proceso : ProtocoloC(q)'
         /\ \A q \in Proceso \ {p} : pedido'[q] = pedido[q]
<1>1. /\ ConsumirPedido(p) /\ respuesta' = enviarPaquetes(respuesta, p, op, valor)
      /\ pc' = [pc EXCEPT ![p] = "inicio"]
  BY DEF TerminarCon, Terminar, IrA, Responder
<1>2. /\ etapa' = etapa /\ abierto' = abierto /\ fase' = fase /\ ults' = ults
  BY EnHechos
<1>3. /\ pedido' \in [Proceso -> Seq(Pedido)]
      /\ \A q \in Proceso \ {p} : pedido'[q] = pedido[q]
      /\ respuesta[p] = <<>>
  BY <1>1, AtencionC
<1>4. pc'[p] = "inicio" /\ \A q \in Proceso \ {p} : pc'[q] = pc[q]
  BY <1>1 DEF InvarianteC, TiposC, TypeOKC
<1>5. /\ respuesta' \in [Proceso -> Seq(Respuesta)]
      /\ \A q \in Proceso \ {p} : respuesta'[q] = respuesta[q]
      /\ p \notin abierto => respuesta'[p] = <<>>
      /\ p \in abierto =>
           Len(respuesta'[p]) = 1 /\ respuesta'[p][1] = [op |-> op, valor |-> valor]
  <2>1. [op |-> op, valor |-> valor] \in Respuesta
    BY DEF Respuesta
  <2>2. respuesta \in [Proceso -> Seq(Respuesta)]
    BY DEF InvarianteC, TiposC, ConexionTipo
  <2> QED BY <1>1, <1>3, <2>1, <2>2, Entrega
<1>6. ProtocoloC(p)'
  BY <1>1, <1>4, <1>5, OperacionRespondidaC
<1>7. ASSUME NEW q \in Proceso \ {p} PROVE ProtocoloC(q)'
  <2>1. ProtocoloC(q)
    BY HechosC DEF ProtocoloC
  <2>2. pc'[q] # "inicio" => etapa[q] = "bucle" /\ pedido[q] # <<>>
    BY <1>4, <2>1 DEF ProtocoloC, InvEtapaC
  <2> QED BY <1>2, <1>3, <1>5, <2>1, <2>2, MarcoProtocoloC
<1> QED BY <1>3, <1>5, <1>6, <1>7

(* The creation of a thread is consumed without an answer.                   *)
LEMMA ConsumoCreateC ==
  ASSUME InvarianteC, NEW p \in Proceso, NEW h \in Hilo,
         Recibido(p, "SUSE_CREATE", h), ConsumirPedido(p),
         ults'[p] = ults[p]
  PROVE  /\ pedido' \in [Proceso -> Seq(Pedido)]
         /\ \A q \in Proceso \ {p} : pedido'[q] = pedido[q]
         /\ padre[h] = p /\ h \in ults[p]
         /\ InvPedidoC(p)' /\ (Pendiente(p) /\ fase'[p] = fase[p] /\ respuesta'[p] = respuesta[p]
                                  /\ fase[p] \in OpConRespuesta => Pendiente(p)')
         /\ (\A i \in DOMAIN pedido[p] : Pide(p, i, "SUSE_CREATE")) =>
              (\A i \in DOMAIN pedido'[p] : Pide(p, i, "SUSE_CREATE")')
<1>1. ConexionTipo /\ InvPedidoC(p)
  BY HechosC DEF InvarianteC, TiposC
<1>2. /\ pedido' \in [Proceso -> Seq(Pedido)]
      /\ \A q \in Proceso \ {p} : pedido'[q] = pedido[q]
      /\ pedido[p][1] = [op |-> "SUSE_CREATE", arg |-> h] /\ Len(pedido[p]) \in Nat \ {0}
      /\ DOMAIN pedido[p] = 1 .. Len(pedido[p])
      /\ Len(pedido'[p]) = Len(pedido[p]) - 1
      /\ DOMAIN pedido'[p] = 1 .. Len(pedido[p]) - 1
      /\ pedido'[p] = <<>> <=> Len(pedido[p]) = 1
      /\ \A i \in 1 .. Len(pedido[p]) - 1 : pedido'[p][i] = pedido[p][i + 1]
  BY <1>1, ConsumoC
<1>3. padre[h] = p /\ h \in ults[p]
  <2>1. 1 \in DOMAIN pedido[p] /\ Pide(p, 1, "SUSE_CREATE") /\ pedido[p][1].arg = h
    BY <1>2 DEF Pide
  <2> QED BY <1>1, <2>1 DEF InvPedidoC
<1>4. \A i \in DOMAIN pedido'[p] : i + 1 \in DOMAIN pedido[p] /\ pedido'[p][i] = pedido[p][i + 1]
                                    /\ (i # Len(pedido'[p]) => i + 1 # Len(pedido[p]))
  BY SMTT(30), <1>2
<1>5. InvPedidoC(p)'
  BY <1>1, <1>4 DEF InvPedidoC, Pide
<1>6. ASSUME Pendiente(p), fase'[p] = fase[p], respuesta'[p] = respuesta[p], fase[p] \in OpConRespuesta
      PROVE  Pendiente(p)'
  <2>1. Len(pedido[p]) # 1
    BY <1>2, <1>6 DEF Pendiente, Pide, OpConRespuesta
  <2>2. /\ Len(pedido'[p]) \in DOMAIN pedido'[p] /\ Len(pedido'[p]) + 1 = Len(pedido[p])
        /\ pedido'[p] # <<>>
    BY <1>2, <2>1
  <2> QED BY <1>4, <1>6, <2>2 DEF Pendiente, Pide
<1>7. (\A i \in DOMAIN pedido[p] : Pide(p, i, "SUSE_CREATE")) =>
        (\A i \in DOMAIN pedido'[p] : Pide(p, i, "SUSE_CREATE")')
  BY <1>4 DEF Pide
<1> QED BY <1>2, <1>3, <1>5, <1>6, <1>7

LEMMA ProtocoloCreateC ==
  ASSUME InvarianteC, NEW p \in Proceso, NEW l, NEW h \in Hilo,
         En(p, l, "SUSE_CREATE", h), Terminar(p), respuesta' = respuesta,
         running_thread' = running_thread
  PROVE  /\ pedido' \in [Proceso -> Seq(Pedido)] /\ respuesta' \in [Proceso -> Seq(Respuesta)]
         /\ \A q \in Proceso : ProtocoloC(q)'
         /\ \A q \in Proceso \ {p} : pedido'[q] = pedido[q]
<1>1. ConsumirPedido(p) /\ pc' = [pc EXCEPT ![p] = "inicio"]
  BY DEF Terminar, IrA
<1>2. /\ etapa' = etapa /\ abierto' = abierto /\ fase' = fase /\ ults' = ults
      /\ Recibido(p, "SUSE_CREATE", h) /\ etapa[p] = "bucle" /\ pedido[p] # <<>>
      /\ running_thread[p] # Nulo
  BY EnHechos
<1>3. /\ pedido' \in [Proceso -> Seq(Pedido)]
      /\ \A q \in Proceso \ {p} : pedido'[q] = pedido[q]
      /\ InvPedidoC(p)' /\ (Pendiente(p) /\ fase[p] \in OpConRespuesta => Pendiente(p)')
      /\ (\A i \in DOMAIN pedido[p] : Pide(p, i, "SUSE_CREATE")) =>
           (\A i \in DOMAIN pedido'[p] : Pide(p, i, "SUSE_CREATE")')
  BY <1>1, <1>2, ConsumoCreateC
<1>4. respuesta \in [Proceso -> Seq(Respuesta)] /\ pc \in [Proceso -> Punto]
  BY DEF InvarianteC, TiposC, ConexionTipo, TypeOKC
<1>5. InvFaseC(p) /\ InvEtapaC(p)
  BY HechosC
<1>6. InvFaseC(p)'
  <2>1. fase[p] \in OpConRespuesta => Pendiente(p)
    BY <1>2, <1>5 DEF InvFaseC, RespondidoC, SinNadaQueEjecutar
  <2>2. fase[p] \notin {"sin_conectar", "HANDSHAKE"}
    BY <1>2, <1>5 DEF InvEtapaC
  <2> QED BY <1>2, <1>3, <1>5, <2>1, <2>2 DEF InvFaseC
<1>7. InvEtapaC(p)'
  BY <1>1, <1>2, <1>4, <1>5 DEF InvEtapaC
<1>8. ASSUME NEW q \in Proceso \ {p} PROVE ProtocoloC(q)'
  <2>1. ProtocoloC(q)
    BY HechosC DEF ProtocoloC
  <2>2. pc'[q] # "inicio" => etapa[q] = "bucle" /\ pedido[q] # <<>>
    BY <1>1, <1>4, <2>1 DEF ProtocoloC, InvEtapaC
  <2> QED BY <1>2, <1>3, <2>1, <2>2, MarcoProtocoloC
<1> QED BY <1>3, <1>4, <1>6, <1>7, <1>8 DEF ProtocoloC

-------------------------------------------------------------------------------
(* What a step of the thread of p leaves to the other ones *)

(* A mutex that another thread holds stays its own, and so does what it may  *)
(* change; the processes of others keep their running thread, unless they    *)
(* have none and p schedules them from outside; and no thread of another     *)
(* process starts to run but then.                                           *)
DejaQuietos(p) ==
  /\ \A q \in Proceso \ {p} :
       /\ pc'[q] = pc[q] /\ hilo'[q] = hilo[q] /\ pedido'[q] = pedido[q]
       /\ running_thread[q] # Nulo => running_thread'[q] = running_thread[q]
  /\ \A x \in Proceso : being_externally_scheduled[x] \in Proceso \ {p} =>
       /\ being_externally_scheduled'[x] = being_externally_scheduled[x]
       /\ running_thread[x] = Nulo => running_thread'[x] = Nulo
  /\ \A s \in Semaforo : sem_mutex[s] \in Proceso \ {p} =>
       /\ sem_mutex'[s] = sem_mutex[s]
       /\ current_value'[s] = current_value[s] /\ cola'[s] = cola[s]
  /\ \A h \in Hilo : padre[h] # p /\ estado'[h] = "RUNNING" =>
       estado[h] = "RUNNING" \/ running_thread[padre[h]] = Nulo

LEMMA PuntosDeOtros ==
  ASSUME InvarianteC, NEW p \in Proceso, DejaQuietos(p),
         \A h : Conocido(h) => Conocido(h)'
  PROVE  \A q \in Proceso \ {p} : InvPunto(q)'
<1> SUFFICES ASSUME NEW q \in Proceso \ {p} PROVE InvPunto(q)'
  OBVIOUS
<1>1. /\ pc'[q] = pc[q] /\ hilo'[q] = hilo[q] /\ Arg(q)' = Arg(q)
      /\ running_thread[q] # Nulo => running_thread'[q] = running_thread[q]
  BY DEF DejaQuietos, Arg
<1>2. InvPunto(q) /\ InvEtapaC(q)
  BY HechosC
<1>3. pc[q] \in EnSem =>
        /\ Arg(q) \in Semaforo /\ sem_mutex'[Arg(q)] = q
        /\ current_value'[Arg(q)] = current_value[Arg(q)] /\ cola'[Arg(q)] = cola[Arg(q)]
  BY <1>2 DEF InvPunto, DejaQuietos
<1>4. pc[q] = "signal_ejecutar" =>
        SinRunning(q)' /\ being_externally_scheduled'[padre[hilo[q]]] = q
  <2>1. pc[q] = "signal_ejecutar" =>
          /\ padre[hilo[q]] \in Proceso
          /\ SinRunning(q) /\ being_externally_scheduled[padre[hilo[q]]] = q
    BY <1>2, HilosAssumption DEF InvPunto, EnExt, Conocido
  <2> QED BY <1>1, <2>1 DEF SinRunning, DejaQuietos
<1>5. pc[q] \in {"next_elegir", "next_nulo"} => estado'[running_thread'[q]] # "RUNNING"
  <2>1. pc[q] \in {"next_elegir", "next_nulo"} => running_thread[q] # Nulo
    BY <1>2 DEF InvEtapaC
  <2>2. running_thread[q] # Nulo => running_thread[q] \in Hilo /\ padre[running_thread[q]] = q
    BY HechosC
  <2>3. pc[q] \in {"next_elegir", "next_nulo"} => estado[running_thread[q]] # "RUNNING"
    BY <1>2 DEF InvPunto
  <2> QED BY <1>1, <2>1, <2>2, <2>3 DEF DejaQuietos
<1>6. /\ pc[q] \in EnSem \cup {"signal_lock"} => Arg(q) \in Semaforo
      /\ pc[q] \in EnExt \cup {"close_a_ready", "signal_running", "signal_ext"} => Conocido(hilo[q])'
  <2>1. pc[q] \in EnExt \cup {"close_a_ready", "signal_running", "signal_ext"} => Conocido(hilo[q])
    BY <1>2 DEF InvPunto
  <2>2. Conocido(hilo[q]) => Conocido(hilo[q])'
    <3>1. Conocido(hilo[q]) => hilo[q] \in Hilo
      BY DEF Conocido
    <3>2. \A h \in Hilo : Conocido(h) => Conocido(h)'
      OBVIOUS
    <3> QED BY <1>1, <3>1, <3>2 DEF Conocido
  <2> QED BY <1>2, <2>1, <2>2 DEF InvPunto
<1> QED BY <1>1, <1>2, <1>3, <1>4, <1>5, <1>6 DEF InvPunto, EnSem, EnExt

(* A mutex is in use if a step only gives it to p, at a point where p works  *)
(* under it, or sets it free.                                                *)
LEMMA MutexTrasPaso ==
  ASSUME InvarianteC, NEW p \in Proceso, DejaQuietos(p), TypeOKC',
         \A s \in Semaforo : sem_mutex'[s] \in {p, Nulo, sem_mutex[s]},
         \A x \in Proceso : being_externally_scheduled'[x] \in {p, Nulo, being_externally_scheduled[x]},
         \A s \in Semaforo : sem_mutex'[s] = p => pc'[p] \in EnSem /\ Arg(p)' = s,
         \A x \in Proceso : being_externally_scheduled'[x] = p =>
           pc'[p] \in EnExt /\ padre[hilo'[p]] = x
  PROVE  MutexEnUso'
<1>1. ASSUME NEW s \in Semaforo, sem_mutex'[s] # Nulo, sem_mutex'[s] # p
      PROVE  pc'[sem_mutex'[s]] \in EnSem /\ Head(pedido'[sem_mutex'[s]]).arg = s
  <2>1. sem_mutex'[s] = sem_mutex[s] /\ sem_mutex[s] \in Proceso \ {p}
    BY <1>1 DEF TypeOKC
  <2>2. pc[sem_mutex[s]] \in EnSem /\ Arg(sem_mutex[s]) = s
    BY <1>1, <2>1 DEF InvarianteC, MutexEnUso
  <2> QED BY <2>1, <2>2 DEF DejaQuietos, Arg
<1>2. ASSUME NEW x \in Proceso, being_externally_scheduled'[x] # Nulo,
             being_externally_scheduled'[x] # p
      PROVE  /\ pc'[being_externally_scheduled'[x]] \in EnExt
             /\ padre[hilo'[being_externally_scheduled'[x]]] = x
  <2>1. /\ being_externally_scheduled'[x] = being_externally_scheduled[x]
        /\ being_externally_scheduled[x] \in Proceso \ {p}
    BY <1>2 DEF TypeOKC
  <2>2. /\ pc[being_externally_scheduled[x]] \in EnExt
        /\ padre[hilo[being_externally_scheduled[x]]] = x
    BY <1>2, <2>1 DEF InvarianteC, MutexEnUso
  <2> QED BY <2>1, <2>2 DEF DejaQuietos
<1> QED BY <1>1, <1>2 DEF MutexEnUso, Arg

(* A step of a handler at a point that holds no mutex and takes none.        *)
LEMMA PasoSinMutex ==
  ASSUME InvarianteC, NEW p \in Proceso, NEW l, NEW op, NEW arg, En(p, l, op, arg),
         l \notin EnSem, pc'[p] \notin EnSem \cup {"signal_ejecutar"},
         \A q \in Proceso \ {p} :
           /\ pc'[q] = pc[q] /\ hilo'[q] = hilo[q] /\ pedido'[q] = pedido[q]
           /\ running_thread'[q] = running_thread[q],
         UNCHANGED <<semaforos, mutexes>>,
         \A h \in Hilo : padre[h] # p /\ estado'[h] = "RUNNING" => estado[h] = "RUNNING",
         TiposC', \A q \in Proceso : ProtocoloC(q)', InvListasC', InvPunto(p)', RunningUnico'
  PROVE  InvarianteC'
<1>1. /\ current_value' = current_value /\ cola' = cola /\ sem_mutex' = sem_mutex
      /\ being_externally_scheduled' = being_externally_scheduled
  BY DEF semaforos, mutexes
<1>2. pc[p] = l /\ running_thread[p] # Nulo /\ (\A h : Conocido(h) => Conocido(h)')
  BY ZenonT(60), EnHechos
<1>3. DejaQuietos(p)
  BY <1>1, <1>2 DEF DejaQuietos
<1>4. \A q \in Proceso : InvPunto(q)'
  BY <1>2, <1>3, PuntosDeOtros
<1>5. /\ \A s \in Semaforo : sem_mutex[s] # p
      /\ \A x \in Proceso : being_externally_scheduled[x] # p
  BY <1>2, MutexAssumption DEF InvarianteC, MutexEnUso, EnSem
<1>6. MutexEnUso'
  <2>1. TypeOKC'
    BY DEF TiposC
  <2> QED BY <1>1, <1>3, <1>5, <2>1, MutexTrasPaso
<1>7. ColaSoloEnCero'
  BY <1>1 DEF InvarianteC, ColaSoloEnCero
<1> QED BY <1>4, <1>6, <1>7 DEF InvarianteC, ProtocoloC

(* The values of a semaphore and its queue, after a step under its mutex.    *)
LEMMA PasoConMutex ==
  ASSUME InvarianteC, NEW p \in Proceso, NEW l, NEW op, NEW arg, En(p, l, op, arg),
         DejaQuietos(p), TiposC', \A q \in Proceso : ProtocoloC(q)', InvListasC', InvPunto(p)',
         RunningUnico', ColaSoloEnCero',
         \A s \in Semaforo : sem_mutex'[s] \in {p, Nulo, sem_mutex[s]},
         \A x \in Proceso : being_externally_scheduled'[x] \in {p, Nulo, being_externally_scheduled[x]},
         \A s \in Semaforo : sem_mutex'[s] = p => pc'[p] \in EnSem /\ Arg(p)' = s,
         \A x \in Proceso : being_externally_scheduled'[x] = p =>
           pc'[p] \in EnExt /\ padre[hilo'[p]] = x
  PROVE  InvarianteC'
<1>1. \A h : Conocido(h) => Conocido(h)'
  BY EnHechos
<1>2. \A q \in Proceso : InvPunto(q)'
  BY <1>1, PuntosDeOtros
<1>3. MutexEnUso'
  <2>1. TypeOKC'
    BY DEF TiposC
  <2> QED BY <2>1, MutexTrasPaso
<1> QED BY <1>2, <1>3 DEF InvarianteC, ProtocoloC

-------------------------------------------------------------------------------
(* Initially, and when nothing but the end of the server happens *)

LEMMA InitInvarianteC == InitC => InvarianteC
<1> SUFFICES ASSUME InitC PROVE InvarianteC
  OBVIOUS
<1> USE DEF InitC, Init, ConexionInit, SuseInit, HilolayInit
<1>1. TiposC
  <2>1. "inicio" \in Punto /\ "SIN_CREAR" \in Estado /\ "handshake" \in Etapa /\ "sin_conectar" \in Fase
    BY DEF Punto, Estado, Etapa, Fase
  <2>2. <<>> \in Seq(Pedido) /\ <<>> \in Seq(Respuesta) /\ <<>> \in Seq(Hilo)
    BY EmptySeq
  <2>3. current_value \in [Semaforo -> Nat] /\ g_multiprog_max \in Int
    BY ConfigAssumption
  <2>4. ConexionTipo /\ HilolayTipo
    BY <2>1, <2>2 DEF ConexionTipo, HilolayTipo
  <2>5. caido \in BOOLEAN
    BY Zenon
  <2>6. /\ pc \in [Proceso -> Punto] /\ hilo \in [Proceso -> Hilo \cup {Nulo}]
        /\ leido \in [Proceso -> Int] /\ sem_mutex \in [Semaforo -> Proceso \cup {Nulo}]
        /\ being_externally_scheduled \in [Proceso -> Proceso \cup {Nulo}]
    BY <2>1
  <2>7. TypeOKC
    BY <2>3, <2>5, <2>6 DEF TypeOKC
  <2> QED BY <2>1, <2>2, <2>4, <2>7 DEF TiposC
<1>2. ASSUME NEW p \in Proceso PROVE InvPedidoC(p) /\ InvFaseC(p) /\ InvEtapaC(p) /\ InvPunto(p)
  BY DEF InvPedidoC, InvFaseC, InvEtapaC, InvPunto, EnSem, EnExt, OpConRespuesta
<1>3. Elementos(<<>>) = {}
  BY DEF Elementos
<1>4. InvListasC
  BY <1>3 DEF InvListasC
<1>5. MutexEnUso /\ ColaSoloEnCero /\ RunningUnico
  BY DEF MutexEnUso, ColaSoloEnCero, RunningUnico
<1> QED BY <1>1, <1>2, <1>4, <1>5 DEF InvarianteC

LEMMA PasoQuieto ==
  ASSUME InvarianteC, UNCHANGED <<vars, locales, mutexes>>, caido' \in BOOLEAN
  PROVE  InvarianteC'
<1> USE DEF vars, conexion, servidor, listas, semaforos, hilolay, locales, mutexes
<1>1. TiposC'
  BY DEF InvarianteC, TiposC, ConexionTipo, HilolayTipo, TypeOKC
<1>2. ASSUME NEW p \in Proceso
      PROVE  InvPedidoC(p)' /\ InvFaseC(p)' /\ InvEtapaC(p)' /\ InvPunto(p)'
  <2>1. InvPedidoC(p) /\ InvFaseC(p) /\ InvEtapaC(p) /\ InvPunto(p)
    BY DEF InvarianteC
  <2>2. InvPedidoC(p)' /\ InvEtapaC(p)'
    BY <2>1 DEF InvPedidoC, InvEtapaC, Pide
  <2>3. InvFaseC(p)'
    BY <2>1 DEF InvFaseC, Pide, Pendiente, RespondidoC, SinNadaQueEjecutar
  <2>4. InvPunto(p)'
    BY <2>1 DEF InvPunto, Arg, Conocido, SinRunning
  <2> QED BY <2>2, <2>3, <2>4
<1>3. InvListasC'
  BY DEF InvarianteC, InvListasC, Conocido, Elementos
<1>4. MutexEnUso' /\ ColaSoloEnCero' /\ RunningUnico'
  BY DEF InvarianteC, MutexEnUso, ColaSoloEnCero, RunningUnico, Arg
<1> QED BY <1>1, <1>2, <1>3, <1>4 DEF InvarianteC

-------------------------------------------------------------------------------
(* What every step of a handler has in common *)

(* Types of what the threads share.                                          *)
TiposCompartidos ==
  /\ pedido \in [Proceso -> Seq(Pedido)] /\ respuesta \in [Proceso -> Seq(Respuesta)]
  /\ estado \in [Hilo -> Estado] /\ threads_bloqueados \in [Hilo -> SUBSET Hilo]
  /\ running_thread \in [Proceso -> Hilo \cup {Nulo}] /\ ready \in [Proceso -> SUBSET Hilo]
  /\ g_new_threads \in Seq(Hilo) /\ cola \in [Semaforo -> Seq(Hilo)]
  /\ current_value \in [Semaforo -> Nat] /\ g_multiprog_max \in Int
  /\ sem_mutex \in [Semaforo -> Proceso \cup {Nulo}]
  /\ being_externally_scheduled \in [Proceso -> Proceso \cup {Nulo}]

(* The locals of p change, and no other's.                                   *)
LEMMA TiposPaso ==
  ASSUME InvarianteC, NEW p \in Proceso, NEW l, NEW op, NEW arg, En(p, l, op, arg),
         NEW sig \in Punto, NEW h \in Hilo \cup {Nulo}, NEW n \in Int, IrA(p, sig, h, n),
         TiposCompartidos'
  PROVE  /\ TiposC'
         /\ pc'[p] = sig /\ hilo'[p] = h
         /\ \A q \in Proceso \ {p} : pc'[q] = pc[q] /\ hilo'[q] = hilo[q]
<1>1. /\ pc \in [Proceso -> Punto] /\ hilo \in [Proceso -> Hilo \cup {Nulo}]
      /\ leido \in [Proceso -> Int] /\ caido \in BOOLEAN
      /\ abierto \subseteq Proceso /\ HilolayTipo /\ etapa \in [Proceso -> Etapa]
  BY DEF InvarianteC, TiposC, TypeOKC, ConexionTipo
<1>2. /\ pc' = [pc EXCEPT ![p] = sig] /\ hilo' = [hilo EXCEPT ![p] = h]
      /\ leido' = [leido EXCEPT ![p] = n] /\ caido' = caido
  BY DEF IrA
<1>3. /\ etapa' = etapa /\ abierto' = abierto
      /\ fase' = fase /\ ults' = ults /\ current_ult' = current_ult
  BY EnHechos
<1>4. ConexionTipo' /\ HilolayTipo' /\ TypeOKC'
  BY <1>1, <1>2, <1>3 DEF ConexionTipo, HilolayTipo, TypeOKC, TiposCompartidos
<1> QED BY <1>1, <1>2, <1>3, <1>4 DEF TiposC, TiposCompartidos

(* Every list keeps or loses threads, or gets some that the server knows.    *)
LEMMA ListasPaso ==
  ASSUME InvarianteC, NEW p \in Proceso, NEW l, NEW op, NEW arg, En(p, l, op, arg),
         \A q \in Proceso : \A h \in ready'[q] : h \in ready[q] \/ (padre[h] = q /\ Conocido(h)),
         \A h \in Elementos(g_new_threads') : h \in Elementos(g_new_threads) \/ Conocido(h),
         \A s \in Semaforo : \A h \in Elementos(cola'[s]) : h \in Elementos(cola[s]) \/ Conocido(h),
         \A t \in Hilo : \A h \in threads_bloqueados'[t] :
           h \in threads_bloqueados[t] \/ Conocido(h),
         \A q \in Proceso : running_thread'[q] # Nulo =>
           \/ running_thread'[q] = running_thread[q]
           \/ padre[running_thread'[q]] = q /\ Conocido(running_thread'[q])
  PROVE  InvListasC'
<1>1. etapa' = etapa /\ ults' = ults
  BY EnHechos
<1>2. \A h : Conocido(h)' <=> h \in Hilo /\ h \in ults'[padre[h]]
                               /\ etapa'[padre[h]] \in {"bucle", "cerrada"}
  BY DEF Conocido
<1>3. \A h : Conocido(h) <=> h \in Hilo /\ h \in ults[padre[h]]
                              /\ etapa[padre[h]] \in {"bucle", "cerrada"}
  BY DEF Conocido
<1>4. InvListasC
  BY DEF InvarianteC
<1>5. \A q \in Proceso : \A h \in ready'[q] : padre[h] = q /\ Conocido(h)
  BY <1>4 DEF InvListasC
<1>6. \A h \in Elementos(g_new_threads') : Conocido(h)
  BY <1>4 DEF InvListasC
<1>7. \A s \in Semaforo : \A h \in Elementos(cola'[s]) : Conocido(h)
  BY <1>4 DEF InvListasC
<1>8. \A t \in Hilo : \A h \in threads_bloqueados'[t] : Conocido(h)
  BY <1>4 DEF InvListasC
<1>9. \A q \in Proceso : running_thread'[q] # Nulo =>
        padre[running_thread'[q]] = q /\ Conocido(running_thread'[q])
  BY <1>4 DEF InvListasC
<1> HIDE DEF Conocido, Elementos
<1> QED BY <1>1, <1>2, <1>3, <1>5, <1>6, <1>7, <1>8, <1>9 DEF InvListasC, Elementos

(* The variables in which the steps of every handler are typed.              *)
LEMMA TiposHechos ==
  ASSUME InvarianteC
  PROVE  /\ pedido \in [Proceso -> Seq(Pedido)] /\ respuesta \in [Proceso -> Seq(Respuesta)]
         /\ estado \in [Hilo -> Estado] /\ threads_bloqueados \in [Hilo -> SUBSET Hilo]
         /\ running_thread \in [Proceso -> Hilo \cup {Nulo}] /\ ready \in [Proceso -> SUBSET Hilo]
         /\ g_new_threads \in Seq(Hilo) /\ cola \in [Semaforo -> Seq(Hilo)]
         /\ current_value \in [Semaforo -> Nat] /\ g_multiprog_max \in Int
         /\ sem_mutex \in [Semaforo -> Proceso \cup {Nulo}]
         /\ being_externally_scheduled \in [Proceso -> Proceso \cup {Nulo}]
         /\ pc \in [Proceso -> Punto] /\ hilo \in [Proceso -> Hilo \cup {Nulo}]
         /\ leido \in [Proceso -> Int]
BY DEF InvarianteC, TiposC, TypeOKC, ConexionTipo

(* The packet that p serves, (op, arg), stays at the head, or is done with:  *)
(* answered with a number, or the creation of a thread.                      *)
SigueOTermina(p, op, arg) ==
  \/ pedido' = pedido /\ respuesta' = respuesta
  \/ /\ op \in OpConRespuesta \ {"SUSE_SCHEDULE_NEXT"}
     /\ \E valor \in Int : TerminarCon(p, op, valor)
  \/ op = "SUSE_CREATE" /\ arg \in Hilo /\ Terminar(p) /\ respuesta' = respuesta

(* The lists that change without a mutex keep or lose threads, or get some   *)
(* that the server knows.                                                    *)
MasReady ==
  /\ ready' \in [Proceso -> SUBSET Hilo]
  /\ \A q \in Proceso : \A h \in ready'[q] : h \in ready[q] \/ (padre[h] = q /\ Conocido(h))
MasJoiners ==
  /\ threads_bloqueados' \in [Hilo -> SUBSET Hilo]
  /\ \A x \in Hilo : \A h \in threads_bloqueados'[x] : h \in threads_bloqueados[x] \/ Conocido(h)
MasNew ==
  /\ g_new_threads' \in Seq(Hilo)
  /\ \A h \in Elementos(g_new_threads') : h \in Elementos(g_new_threads) \/ Conocido(h)

(* No thread starts to run. *)
NingunoArranca ==
  /\ estado' \in [Hilo -> Estado]
  /\ \A h \in Hilo : estado'[h] = "RUNNING" => estado[h] = "RUNNING"

LEMMA ProtocoloDeListas ==
  ASSUME InvarianteC, NEW p \in Proceso, NEW l, NEW op, NEW arg, En(p, l, op, arg),
         NEW sig, NEW t, NEW n, IrA(p, sig, t, n),
         SigueOTermina(p, op, arg), running_thread' = running_thread
  PROVE  /\ pedido' \in [Proceso -> Seq(Pedido)] /\ respuesta' \in [Proceso -> Seq(Respuesta)]
         /\ \A q \in Proceso \ {p} : pedido'[q] = pedido[q]
         /\ \A q \in Proceso : ProtocoloC(q)'
<1>1. CASE op = "SUSE_CREATE" /\ arg \in Hilo /\ Terminar(p) /\ respuesta' = respuesta
  BY <1>1, ProtocoloCreateC
<1>2. CASE /\ op \in OpConRespuesta \ {"SUSE_SCHEDULE_NEXT"}
           /\ \E valor \in Int : TerminarCon(p, op, valor)
  <2>1. PICK valor \in Hilo \cup Int : TerminarCon(p, op, valor)
    BY <1>2
  <2>2. running_thread'[p] # Nulo
    BY EnHechos
  <2> QED BY <1>2, <2>1, <2>2, ProtocoloRespondido
<1>3. CASE pedido' = pedido /\ respuesta' = respuesta
  <2>1. \A q \in Proceso \ {p} : pc'[q] = pc[q]
    BY TiposHechos DEF IrA
  <2>2. \A q \in Proceso : ProtocoloC(q)'
    BY <1>3, <2>1, ProtocoloInterno
  <2> QED BY <1>3, <2>2, TiposHechos
<1> QED BY <1>1, <1>2, <1>3 DEF SigueOTermina

(* A step of a handler that holds no mutex, leaves the running threads where *)
(* they are and lets no other thread run.                                    *)
LEMMA PasoDeListas ==
  ASSUME InvarianteC, NEW p \in Proceso, NEW l, NEW op, NEW arg, En(p, l, op, arg), l \notin EnSem,
         NEW sig \in Punto \ EnSem, NEW t \in Hilo \cup {Nulo}, NEW n \in Int, IrA(p, sig, t, n),
         SigueOTermina(p, op, arg),
         UNCHANGED <<running_thread, semaforos, mutexes>>, g_multiprog_max' \in Int,
         NingunoArranca, MasReady, MasJoiners, MasNew,
         sig = "signal_lock" => arg \in Semaforo /\ pedido' = pedido,
         sig = "close_a_ready" => Conocido(t),
         sig \in {"next_elegir", "next_nulo"} => estado'[running_thread[p]] # "RUNNING"
  PROVE  InvarianteC'
<1>1. /\ current_value' = current_value /\ cola' = cola /\ sem_mutex' = sem_mutex
      /\ being_externally_scheduled' = being_externally_scheduled
      /\ running_thread' = running_thread
  BY DEF semaforos, mutexes
<1>2. /\ pedido' \in [Proceso -> Seq(Pedido)] /\ respuesta' \in [Proceso -> Seq(Respuesta)]
      /\ \A q \in Proceso \ {p} : pedido'[q] = pedido[q]
      /\ \A q \in Proceso : ProtocoloC(q)'
  BY <1>1, ProtocoloDeListas
<1>3. /\ TiposC' /\ pc'[p] = sig /\ hilo'[p] = t
      /\ \A q \in Proceso \ {p} : pc'[q] = pc[q] /\ hilo'[q] = hilo[q]
  <2>1. /\ estado' \in [Hilo -> Estado] /\ threads_bloqueados' \in [Hilo -> SUBSET Hilo]
        /\ ready' \in [Proceso -> SUBSET Hilo] /\ g_new_threads' \in Seq(Hilo)
    BY DEF NingunoArranca, MasReady, MasJoiners, MasNew
  <2>2. /\ running_thread' \in [Proceso -> Hilo \cup {Nulo}] /\ cola' \in [Semaforo -> Seq(Hilo)]
        /\ current_value' \in [Semaforo -> Nat]
        /\ sem_mutex' \in [Semaforo -> Proceso \cup {Nulo}]
        /\ being_externally_scheduled' \in [Proceso -> Proceso \cup {Nulo}]
    BY <1>1, TiposHechos
  <2>3. TiposCompartidos'
    BY <1>2, <2>1, <2>2 DEF TiposCompartidos
  <2>4. sig \in Punto
    OBVIOUS
  <2> QED BY <2>3, <2>4, TiposPaso
<1>4. InvListasC'
  BY <1>1, ListasPaso DEF MasReady, MasJoiners, MasNew
<1>5. InvPunto(p)'
  <2>1. sig = "signal_lock" => Arg(p)' \in Semaforo
    <3>1. Arg(p) = arg
      BY ZenonT(60), EnHechos
    <3> QED BY <3>1 DEF Arg
  <2>2. sig = "close_a_ready" => Conocido(hilo[p])'
    BY <1>3, EnHechos DEF Conocido
  <2>3. sig \in {"next_elegir", "next_nulo"} => estado'[running_thread'[p]] # "RUNNING"
    BY <1>1
  <2> QED BY <1>3, <2>1, <2>2, <2>3 DEF InvPunto, EnSem, EnExt
<1>6. RunningUnico'
  BY <1>1 DEF InvarianteC, RunningUnico, NingunoArranca
<1> QED
  <2>1. \A h \in Hilo : padre[h] # p /\ estado'[h] = "RUNNING" => estado[h] = "RUNNING"
    BY DEF NingunoArranca
  <2>2. pc'[p] \notin EnSem \cup {"signal_ejecutar"}
    BY <1>3 DEF EnSem, EnExt
  <2>3. UNCHANGED <<semaforos, mutexes>>
    OBVIOUS
  <2>4. \A q \in Proceso \ {p} :
          /\ pc'[q] = pc[q] /\ hilo'[q] = hilo[q] /\ pedido'[q] = pedido[q]
          /\ running_thread'[q] = running_thread[q]
    BY <1>1, <1>2, <1>3
  <2>5. TiposC' /\ (\A q \in Proceso : ProtocoloC(q)') /\ InvListasC' /\ InvPunto(p)' /\ RunningUnico'
    BY <1>2, <1>3, <1>4, <1>5, <1>6
  <2> QED BY <2>1, <2>2, <2>3, <2>4, <2>5, PasoSinMutex, Zenon

(* A thread is added to the ready list of its process.                       *)
LEMMA ReadyMas ==
  ASSUME InvarianteC, NEW p \in Proceso, NEW h \in Hilo, padre[h] = p, Conocido(h),
         ready' = [ready EXCEPT ![p] = @ \cup {h}]
  PROVE  MasReady
<1>1. ready \in [Proceso -> SUBSET Hilo]
  BY TiposHechos
<1> QED BY <1>1 DEF MasReady

LEMMA AgregarAReadyMas ==
  ASSUME InvarianteC, NEW T \in SUBSET Hilo, \A x \in T : Conocido(x), ready' = AgregarAReady(T)
  PROVE  MasReady
<1>1. ready \in [Proceso -> SUBSET Hilo]
  BY TiposHechos
<1> QED BY <1>1 DEF AgregarAReady, MasReady

(* A list, or the state of the threads, that a step leaves alone.            *)
LEMMA SinCambios ==
  ASSUME InvarianteC
  PROVE  /\ ready' = ready => MasReady
         /\ threads_bloqueados' = threads_bloqueados => MasJoiners
         /\ g_new_threads' = g_new_threads => MasNew
         /\ estado' = estado => NingunoArranca
         /\ g_multiprog_max' = g_multiprog_max => g_multiprog_max' \in Int
BY TiposHechos DEF MasReady, MasJoiners, MasNew, NingunoArranca

(* A thread gets an estado other than RUNNING.                               *)
LEMMA EstadoNuevo ==
  ASSUME InvarianteC, NEW h, NEW e \in Estado \ {"RUNNING"}, estado' = [estado EXCEPT ![h] = e]
  PROVE  NingunoArranca
BY TiposHechos DEF NingunoArranca

-------------------------------------------------------------------------------
(* suse_create *)

LEMMA PasoCreateC ==
  ASSUME InvarianteC, NEW p \in Proceso, Create(p)
  PROVE  InvarianteC'
<1>1. UNCHANGED <<running_thread, semaforos, mutexes>> /\ MasJoiners
  BY SinCambios DEF Create
<1>2. PICK h \in Hilo : \/ CreateMirarLugar(p, h) \/ CreateAdmitir(p, h) \/ CreateCargar(p, h)
                        \/ CreateGuardar(p, h) \/ CreateEncolar(p, h)
  BY DEF Create
(* The thread to create is one of the process, with a TCB.                   *)
<1>3. ASSUME NEW l, En(p, l, "SUSE_CREATE", h) PROVE padre[h] = p /\ Conocido(h)
  <2>1. pedido[p] # <<>> /\ pedido[p][1] = [op |-> "SUSE_CREATE", arg |-> h] /\ etapa[p] = "bucle"
    BY <1>3, EnHechos
  <2>2. 1 \in DOMAIN pedido[p] /\ Pide(p, 1, "SUSE_CREATE") /\ pedido[p][1].arg = h
    BY <2>1, HechosC DEF Pide
  <2>3. padre[h] = p /\ h \in ults[p]
    BY <2>2, HechosC DEF InvPedidoC
  <2> QED BY <2>1, <2>3 DEF Conocido
<1>4. hilo[p] \in Hilo \cup {Nulo} /\ leido[p] \in Int /\ g_multiprog_max \in Int
  BY TiposHechos
<1>5. {"inicio", "create_admitir", "create_encolar", "create_cargar", "create_guardar"}
        \subseteq Punto \ (EnSem \cup {"signal_lock", "close_a_ready", "next_elegir", "next_nulo"})
  BY DEF EnSem, EnExt, Punto
<1> USE <1>1, <1>4, <1>5, PasoDeListas, SinCambios
<1>6. CASE CreateMirarLugar(p, h)
  <2>1. PICK sig \in {"create_admitir", "create_encolar"} : IrA(p, sig, hilo[p], leido[p])
    BY <1>6 DEF CreateMirarLugar, Seguir, SeguirCon
  <2>2. SigueOTermina(p, "SUSE_CREATE", h)
    BY <1>6 DEF CreateMirarLugar, Seguir, SeguirCon, SigueOTermina
  <2> QED BY <1>6, <2>1, <2>2 DEF CreateMirarLugar
<1>7. CASE CreateAdmitir(p, h)
  <2>1. NingunoArranca
    BY <1>7, EstadoNuevo DEF CreateAdmitir, Estado
  <2>2. MasReady
    BY <1>3, <1>7, ReadyMas DEF CreateAdmitir
  <2>3. SigueOTermina(p, "SUSE_CREATE", h)
    BY <1>7 DEF CreateAdmitir, Seguir, SeguirCon, SigueOTermina
  <2> QED BY <1>7, <2>1, <2>2, <2>3 DEF CreateAdmitir, Seguir, SeguirCon
<1>8. CASE CreateCargar(p, h)
  <2>1. SigueOTermina(p, "SUSE_CREATE", h)
    BY <1>8 DEF CreateCargar, Cargar, SeguirCon, SigueOTermina
  <2> QED BY <1>8, <2>1 DEF CreateCargar, Cargar, SeguirCon
<1>9. CASE CreateGuardar(p, h)
  <2>1. g_multiprog_max' \in Int
    BY <1>9 DEF CreateGuardar
  <2>2. SigueOTermina(p, "SUSE_CREATE", h)
    BY <1>9 DEF CreateGuardar, SigueOTermina
  <2> QED BY <1>9, <2>1, <2>2 DEF CreateGuardar, Terminar
<1>10. CASE CreateEncolar(p, h)
  <2>1. NingunoArranca
    BY <1>10, EstadoNuevo DEF CreateEncolar, Estado
  <2>2. MasNew
    BY <1>3, <1>10, TiposHechos, Agregar DEF CreateEncolar, MasNew
  <2>3. SigueOTermina(p, "SUSE_CREATE", h)
    BY <1>10 DEF CreateEncolar, SigueOTermina
  <2>4. /\ En(p, "create_encolar", "SUSE_CREATE", h) /\ IrA(p, "inicio", Nulo, 0)
        /\ ready' = ready /\ g_multiprog_max' = g_multiprog_max
    BY <1>10 DEF CreateEncolar, Terminar
  <2> QED BY <2>1, <2>2, <2>3, <2>4
<1> QED BY <1>2, <1>6, <1>7, <1>8, <1>9, <1>10

-------------------------------------------------------------------------------
(* suse_close *)

(* A use of NULL changes nothing but that the server has ended.              *)
LEMMA PasoCaer ==
  ASSUME InvarianteC, NEW p \in Proceso, NEW l, NEW op, NEW arg, En(p, l, op, arg), Caer(p),
         UNCHANGED <<estado, threads_bloqueados, running_thread, ready, g_new_threads,
                     g_blocked_threads, g_exit_threads, semaforos, g_multiprog_max, mutexes>>
  PROVE  InvarianteC'
<1>1. UNCHANGED <<vars, locales, mutexes>>
  BY DEF En, Caer, vars, conexion, servidor, listas
<1>2. caido' \in BOOLEAN
  BY Zenon DEF Caer
<1> QED BY <1>1, <1>2, PasoQuieto

LEMMA PasoCloseC ==
  ASSUME InvarianteC, NEW p \in Proceso, Close(p)
  PROVE  InvarianteC'
<1>1. UNCHANGED <<running_thread, semaforos, mutexes>>
  BY DEF Close
<1>2. PICK h \in Hilo : \/ CloseDespertar(p, h) \/ CloseMirarNew(p, h) \/ CloseCargar(p, h)
                        \/ CloseGuardar(p, h) \/ CloseSacarDeNew(p, h) \/ CloseAReady(p, h)
  BY DEF Close
<1>3. hilo[p] \in Hilo \cup {Nulo} /\ leido[p] \in Int /\ g_multiprog_max \in Int
  BY TiposHechos
<1>4. {"inicio", "close_new", "close_cargar", "close_guardar", "close_sacar", "close_a_ready"}
        \subseteq Punto \ (EnSem \cup {"signal_lock", "next_elegir", "next_nulo"})
  BY DEF EnSem, EnExt, Punto
<1>5. "SUSE_CLOSE" \in OpConRespuesta \ {"SUSE_SCHEDULE_NEXT"} /\ OK \in Int
  BY DEF OpConRespuesta, OK
<1> USE <1>1, <1>3, <1>4, PasoDeListas, SinCambios
<1>6. CASE CloseDespertar(p, h)
  <2> DEFINE t == running_thread[p]
  <2>1. En(p, "inicio", "SUSE_CLOSE", h)
    BY <1>6 DEF CloseDespertar
  <2>2. t \in Hilo /\ t # Nulo
    BY <2>1, EnHechos
  <2>3. Despertar(t) /\ g_new_threads' = g_new_threads /\ g_multiprog_max' = g_multiprog_max
    BY <1>6, <2>2 DEF CloseDespertar
  <2>4. NingunoArranca
    BY <2>3, EstadoNuevo DEF Despertar, Estado
  <2>5. threads_bloqueados[t] \in SUBSET Hilo /\ \A x \in threads_bloqueados[t] : Conocido(x)
    BY <2>2, TiposHechos DEF InvarianteC, InvListasC
  <2>6. MasReady
    BY <2>3, <2>5, AgregarAReadyMas DEF Despertar, trancisionar_bloqueado_a_ready
  <2>7. MasJoiners
    BY <2>2, <2>3, TiposHechos DEF Despertar, MasJoiners
  <2>8. CASE TerminarCon(p, "SUSE_CLOSE", OK)
    <3>1. SigueOTermina(p, "SUSE_CLOSE", h) /\ IrA(p, "inicio", Nulo, 0)
      BY <1>5, <2>8 DEF SigueOTermina, TerminarCon, Terminar
    <3> QED BY <2>1, <2>3, <2>4, <2>6, <2>7, <3>1
  <2>9. CASE Seguir(p, "close_new")
    <3>1. SigueOTermina(p, "SUSE_CLOSE", h) /\ IrA(p, "close_new", hilo[p], leido[p])
      BY <2>9 DEF SigueOTermina, Seguir, SeguirCon
    <3> QED BY <2>1, <2>3, <2>4, <2>6, <2>7, <3>1
  <2> QED BY <1>6, <2>2, <2>8, <2>9 DEF CloseDespertar
<1>7. CASE CloseMirarNew(p, h)
  <2>1. PICK sig \in {"close_cargar", "close_sacar"} : Seguir(p, sig)
    BY <1>7 DEF CloseMirarNew
  <2>2. SigueOTermina(p, "SUSE_CLOSE", h) /\ IrA(p, sig, hilo[p], leido[p])
    BY <2>1 DEF SigueOTermina, Seguir, SeguirCon
  <2> QED BY <1>7, <2>2 DEF CloseMirarNew, listasClose
<1>8. CASE CloseCargar(p, h)
  <2>1. SigueOTermina(p, "SUSE_CLOSE", h) /\ IrA(p, "close_guardar", hilo[p], g_multiprog_max)
    BY <1>8 DEF CloseCargar, SigueOTermina, Cargar, SeguirCon
  <2> QED BY <1>8, <2>1 DEF CloseCargar, listasClose
<1>9. CASE CloseGuardar(p, h)
  <2>1. SigueOTermina(p, "SUSE_CLOSE", h) /\ IrA(p, "inicio", Nulo, 0)
    BY <1>5, <1>9 DEF CloseGuardar, SigueOTermina, TerminarCon, Terminar
  <2>2. g_multiprog_max' \in Int
    BY <1>9 DEF CloseGuardar
  <2> QED BY <1>9, <2>1, <2>2 DEF CloseGuardar, listasClose
<1>10. CASE CloseSacarDeNew(p, h)
  <2>1. CASE g_new_threads = <<>>
    BY <1>10, <2>1, PasoCaer DEF CloseSacarDeNew, listasClose
  <2>2. CASE g_new_threads # <<>>
    <3>1. /\ g_new_threads' = Tail(g_new_threads)
          /\ SeguirConHilo(p, "close_a_ready", Head(g_new_threads))
      BY <1>10, <2>2 DEF CloseSacarDeNew
    <3>2. /\ Head(g_new_threads) \in Hilo /\ Tail(g_new_threads) \in Seq(Hilo)
          /\ Elementos(g_new_threads) = Elementos(Tail(g_new_threads)) \cup {Head(g_new_threads)}
      BY <2>2, TiposHechos, Quitar
    <3>3. Conocido(Head(g_new_threads))
      BY <3>2 DEF InvarianteC, InvListasC
    <3>4. MasNew
      BY <3>1, <3>2 DEF MasNew
    <3>5. /\ SigueOTermina(p, "SUSE_CLOSE", h)
          /\ IrA(p, "close_a_ready", Head(g_new_threads), leido[p])
      BY <3>1 DEF SigueOTermina, SeguirConHilo, SeguirCon
    <3> QED BY <1>10, <3>2, <3>3, <3>4, <3>5 DEF CloseSacarDeNew, listasClose
  <2> QED BY <2>1, <2>2
<1>11. CASE CloseAReady(p, h)
  <2>1. En(p, "close_a_ready", "SUSE_CLOSE", h)
    BY <1>11 DEF CloseAReady
  <2>2. Conocido(hilo[p]) /\ hilo[p] \in Hilo
    <3>1. pc[p] = "close_a_ready" /\ InvPunto(p)
      BY ZenonT(60), <2>1, EnHechos, HechosC
    <3>2. Conocido(hilo[p])
      BY <3>1 DEF InvPunto
    <3> QED BY <3>2 DEF Conocido
  <2>3. NingunoArranca
    BY <1>11, EstadoNuevo DEF CloseAReady, Estado
  <2>4. MasReady
    BY <1>11, <2>2, AgregarAReadyMas DEF CloseAReady
  <2>5. SigueOTermina(p, "SUSE_CLOSE", h) /\ IrA(p, "inicio", Nulo, 0)
    BY <1>5, <1>11 DEF CloseAReady, SigueOTermina, TerminarCon, Terminar
  <2> QED BY <1>11, <2>1, <2>3, <2>4, <2>5 DEF CloseAReady
<1> QED BY <1>2, <1>6, <1>7, <1>8, <1>9, <1>10, <1>11

-------------------------------------------------------------------------------
(* suse_join *)

LEMMA PasoJoinC ==
  ASSUME InvarianteC, NEW p \in Proceso, Join(p)
  PROVE  InvarianteC'
<1>1. /\ UNCHANGED <<running_thread, semaforos, mutexes>>
      /\ ready' = ready /\ g_new_threads' = g_new_threads /\ g_exit_threads' = g_exit_threads
      /\ g_multiprog_max' = g_multiprog_max
  BY DEF Join
<1>2. hilo[p] \in Hilo \cup {Nulo} /\ leido[p] \in Int
  BY TiposHechos
<1>3. {"inicio", "join_ready", "join_blocked", "join_new", "join_agregar"}
        \subseteq Punto \ (EnSem \cup {"signal_lock", "close_a_ready", "next_elegir", "next_nulo"})
  BY DEF EnSem, EnExt, Punto
<1>4. "SUSE_JOIN" \in OpConRespuesta \ {"SUSE_SCHEDULE_NEXT"} /\ OK \in Int /\ EINVAL \in Int
  BY DEF OpConRespuesta, OK, EINVAL
<1> USE <1>1, <1>2, <1>3, PasoDeListas, SinCambios
<1>5. ASSUME NEW h \in Hilo, JoinBloquear(p, h) PROVE InvarianteC'
  <2>1. En(p, "inicio", "SUSE_JOIN", h) /\ MasJoiners
    BY <1>5 DEF JoinBloquear
  <2>2. running_thread[p] # Nulo
    BY <2>1, EnHechos
  <2>3. CASE h \in g_exit_threads
    <3>1. SigueOTermina(p, "SUSE_JOIN", h) /\ IrA(p, "inicio", Nulo, 0) /\ estado' = estado
      BY <1>4, <1>5, <2>2, <2>3 DEF JoinBloquear, SigueOTermina, TerminarCon, Terminar
    <3> QED BY <2>1, <3>1
  <2>4. CASE h \notin g_exit_threads
    <3>1. NingunoArranca
      BY <1>5, <2>2, <2>4, EstadoNuevo DEF JoinBloquear, Estado
    <3>2. SigueOTermina(p, "SUSE_JOIN", h) /\ IrA(p, "join_ready", hilo[p], leido[p])
      BY <1>5, <2>2, <2>4 DEF JoinBloquear, SigueOTermina, Seguir, SeguirCon
    <3> QED BY <2>1, <3>1, <3>2
  <2> QED BY <2>3, <2>4
<1>6. ASSUME NEW h \in Hilo, NEW l \in {"join_ready", "join_blocked", "join_new"}, NEW lista,
             NEW sigue \in {"join_blocked", "join_new", "join_agregar"},
             JoinBuscar(p, h, l, lista, sigue)
      PROVE  InvarianteC'
  <2>1. /\ En(p, l, "SUSE_JOIN", h) /\ SigueOTermina(p, "SUSE_JOIN", h)
        /\ estado' = estado /\ threads_bloqueados' = threads_bloqueados
    BY <1>6 DEF JoinBuscar, SigueOTermina, Seguir, SeguirConHilo, SeguirCon
  <2>2. PICK sig \in {"join_blocked", "join_new", "join_agregar"}, t \in Hilo \cup {Nulo} :
          IrA(p, sig, t, leido[p])
    BY <1>6 DEF JoinBuscar, Seguir, SeguirConHilo, SeguirCon
  <2> QED BY <2>1, <2>2
<1>7. ASSUME NEW h \in Hilo, JoinAgregar(p, h) PROVE InvarianteC'
  <2>1. En(p, "join_agregar", "SUSE_JOIN", h) /\ estado' = estado
    BY <1>7 DEF JoinAgregar
  <2>2. CASE hilo[p] = Nulo
    BY <1>7, <2>1, <2>2, PasoCaer DEF JoinAgregar, Join
  <2>3. CASE hilo[p] # Nulo
    <3>1. running_thread[p] \in Hilo /\ Conocido(running_thread[p]) /\ hilo[p] \in Hilo
      BY <2>1, <2>3, EnHechos
    <3>2. /\ threads_bloqueados' = [threads_bloqueados EXCEPT ![hilo[p]] = @ \cup {running_thread[p]}]
          /\ SigueOTermina(p, "SUSE_JOIN", h) /\ IrA(p, "inicio", Nulo, 0)
      BY <1>4, <1>7, <2>3 DEF JoinAgregar, SigueOTermina, TerminarCon, Terminar
    <3>3. MasJoiners
      BY <3>1, <3>2, TiposHechos DEF MasJoiners
    <3> QED BY <2>1, <3>2, <3>3
  <2> QED BY <2>2, <2>3
<1>8. PICK h \in Hilo :
        \/ JoinBloquear(p, h)
        \/ JoinBuscar(p, h, "join_ready",
                      ready[p] \cup g_exit_threads \cup {running_thread[p]}, "join_blocked")
        \/ JoinBuscar(p, h, "join_blocked", g_blocked_threads, "join_new")
        \/ JoinBuscar(p, h, "join_new", Elementos(g_new_threads), "join_agregar")
        \/ JoinAgregar(p, h)
  BY DEF Join
<1> QED BY <1>5, <1>6, <1>7, <1>8

-------------------------------------------------------------------------------
(* The steps of suse_wait and suse_signal without a mutex *)

LEMMA PasoWaitDesconocido ==
  ASSUME InvarianteC, NEW p \in Proceso, NEW s, WaitDesconocido(p, s),
         UNCHANGED <<threads_bloqueados, running_thread, ready, g_new_threads, g_exit_threads,
                     g_multiprog_max>>
  PROVE  InvarianteC'
<1>1. /\ En(p, "inicio", "SUSE_WAIT", s) /\ UNCHANGED <<running_thread, semaforos, mutexes>>
      /\ ready' = ready /\ g_new_threads' = g_new_threads /\ estado' = estado
      /\ threads_bloqueados' = threads_bloqueados /\ g_multiprog_max' = g_multiprog_max
  BY DEF WaitDesconocido
<1>2. SigueOTermina(p, "SUSE_WAIT", s) /\ IrA(p, "inicio", Nulo, 0)
  BY DEF WaitDesconocido, SigueOTermina, TerminarCon, Terminar, OpConRespuesta, EINVAL
<1>3. "inicio" \in Punto \ EnSem
  BY DEF Punto, EnSem, EnExt
<1> QED BY <1>1, <1>2, <1>3, PasoDeListas, SinCambios

LEMMA PasoSignalMirarMaximo ==
  ASSUME InvarianteC, NEW p \in Proceso, NEW s, SignalMirarMaximo(p, s),
         UNCHANGED <<threads_bloqueados, g_new_threads, g_exit_threads, g_multiprog_max>>
  PROVE  InvarianteC'
<1>1. /\ En(p, "inicio", "SUSE_SIGNAL", s) /\ UNCHANGED <<running_thread, semaforos, mutexes>>
      /\ ready' = ready /\ g_new_threads' = g_new_threads /\ estado' = estado
      /\ threads_bloqueados' = threads_bloqueados /\ g_multiprog_max' = g_multiprog_max
  BY DEF SignalMirarMaximo, listasSignal
<1>2. hilo[p] \in Hilo \cup {Nulo} /\ leido[p] \in Int
  BY TiposHechos
<1>3. {"inicio", "signal_lock"} \subseteq Punto \ EnSem
  BY DEF Punto, EnSem, EnExt
<1>4. CASE \E valor \in Int : TerminarCon(p, "SUSE_SIGNAL", valor)
  <2>1. SigueOTermina(p, "SUSE_SIGNAL", s) /\ IrA(p, "inicio", Nulo, 0)
    BY <1>4 DEF SigueOTermina, TerminarCon, Terminar, OpConRespuesta
  <2> QED BY <1>1, <1>3, <2>1, PasoDeListas, SinCambios
<1>5. CASE s \in Semaforo /\ Seguir(p, "signal_lock")
  <2>1. /\ SigueOTermina(p, "SUSE_SIGNAL", s) /\ IrA(p, "signal_lock", hilo[p], leido[p])
        /\ pedido' = pedido
    BY <1>5 DEF SigueOTermina, Seguir, SeguirCon
  <2> QED BY <1>1, <1>2, <1>3, <1>5, <2>1, PasoDeListas, SinCambios
<1> QED BY <1>4, <1>5 DEF SignalMirarMaximo, EINVAL, EOVERFLOW

-------------------------------------------------------------------------------
(* suse_schedule_next *)

(* The process is left without a running thread, and without an answer.      *)
LEMMA ProtocoloSinRunning ==
  ASSUME InvarianteC, NEW p \in Proceso, NEW l, NEW arg, En(p, l, "SUSE_SCHEDULE_NEXT", arg),
         Terminar(p), respuesta' = respuesta,
         running_thread' = [running_thread EXCEPT ![p] = Nulo]
  PROVE  /\ pedido' \in [Proceso -> Seq(Pedido)]
         /\ \A q \in Proceso : ProtocoloC(q)'
         /\ \A q \in Proceso \ {p} : pedido'[q] = pedido[q]
<1>1. ConsumirPedido(p) /\ pc' = [pc EXCEPT ![p] = "inicio"]
  BY DEF Terminar, IrA
<1>2. pc'[p] = "inicio" /\ \A q \in Proceso \ {p} : pc'[q] = pc[q]
  BY <1>1, TiposHechos
<1>3. /\ running_thread'[p] = Nulo
      /\ \A q \in Proceso \ {p} : running_thread'[q] = running_thread[q]
  BY TiposHechos
<1>4. /\ etapa' = etapa /\ abierto' = abierto /\ fase' = fase /\ ults' = ults
      /\ etapa[p] = "bucle"
  BY EnHechos
<1>5. "SUSE_SCHEDULE_NEXT" \in OpConRespuesta
  BY DEF OpConRespuesta
<1>6. /\ pedido' \in [Proceso -> Seq(Pedido)]
      /\ \A q \in Proceso \ {p} : pedido'[q] = pedido[q]
      /\ pedido'[p] = <<>> /\ DOMAIN pedido'[p] = {}
      /\ fase[p] \in {"SUSE_SCHEDULE_NEXT", "terminado"}
      /\ (p \in abierto <=> fase[p] = "SUSE_SCHEDULE_NEXT")
      /\ respuesta[p] = <<>>
  BY <1>1, <1>5, AtencionC
<1>7. InvPedidoC(p)'
  BY <1>6 DEF InvPedidoC
<1>8. InvFaseC(p)'
  <2>1. fase[p] = "SUSE_SCHEDULE_NEXT" => SinNadaQueEjecutar(p)'
    BY <1>3, <1>4, <1>6 DEF SinNadaQueEjecutar
  <2> QED BY <1>4, <1>6, <2>1 DEF InvFaseC, OpConRespuesta
<1>9. InvEtapaC(p)'
  BY <1>2, <1>4, <1>6 DEF InvEtapaC
<1>10. ASSUME NEW q \in Proceso \ {p} PROVE ProtocoloC(q)'
  <2>1. ProtocoloC(q)
    BY HechosC DEF ProtocoloC
  <2>2. pc'[q] # "inicio" => etapa[q] = "bucle" /\ pedido[q] # <<>>
    BY <1>2, <2>1 DEF ProtocoloC, InvEtapaC
  <2> QED BY <1>3, <1>4, <1>6, <2>1, <2>2, MarcoProtocoloC
<1> QED BY <1>6, <1>7, <1>8, <1>9, <1>10 DEF ProtocoloC

LEMMA PasoNextElegir ==
  ASSUME InvarianteC, NEW p \in Proceso, NEW h, NextElegir(p, h),
         UNCHANGED <<threads_bloqueados, g_new_threads, g_blocked_threads, g_exit_threads,
                     semaforos, g_multiprog_max, mutexes>>
  PROVE  InvarianteC'
<1>1. /\ En(p, "next_elegir", "SUSE_SCHEDULE_NEXT", Nulo) /\ h \in ready[p]
      /\ ready' = [ready EXCEPT ![p] = @ \ {h}]
      /\ running_thread' = [running_thread EXCEPT ![p] = h]
      /\ estado' = [estado EXCEPT ![h] = "RUNNING"]
      /\ TerminarCon(p, "SUSE_SCHEDULE_NEXT", h) /\ IrA(p, "inicio", Nulo, 0)
      /\ UNCHANGED <<semaforos, mutexes>>
  BY DEF NextElegir, TerminarCon, Terminar
<1>2. h \in Hilo /\ padre[h] = p /\ Conocido(h) /\ h # Nulo
  BY <1>1, TiposHechos, NuloAssumption DEF InvarianteC, InvListasC
<1>3. /\ running_thread'[p] = h
      /\ \A q \in Proceso \ {p} : running_thread'[q] = running_thread[q]
  BY <1>1, TiposHechos
<1>4. /\ pedido' \in [Proceso -> Seq(Pedido)] /\ respuesta' \in [Proceso -> Seq(Respuesta)]
      /\ \A q \in Proceso : ProtocoloC(q)'
      /\ \A q \in Proceso \ {p} : pedido'[q] = pedido[q]
  <2>1. "SUSE_SCHEDULE_NEXT" \in OpConRespuesta /\ h \in Hilo \cup Int
    BY <1>2 DEF OpConRespuesta
  <2> QED BY <1>1, <1>2, <1>3, <2>1, ProtocoloRespondido
<1>5. TiposCompartidos'
  <2>1. /\ estado' \in [Hilo -> Estado] /\ ready' \in [Proceso -> SUBSET Hilo]
        /\ running_thread' \in [Proceso -> Hilo \cup {Nulo}]
    BY <1>1, <1>2, TiposHechos DEF Estado
  <2>2. /\ threads_bloqueados' = threads_bloqueados /\ g_new_threads' = g_new_threads
        /\ cola' = cola /\ current_value' = current_value /\ g_multiprog_max' = g_multiprog_max
        /\ sem_mutex' = sem_mutex /\ being_externally_scheduled' = being_externally_scheduled
    BY DEF semaforos, mutexes
  <2> QED BY <1>4, <2>1, <2>2, TiposHechos DEF TiposCompartidos
<1>6. /\ TiposC' /\ pc'[p] = "inicio"
      /\ \A q \in Proceso \ {p} : pc'[q] = pc[q] /\ hilo'[q] = hilo[q]
  <2>1. "inicio" \in Punto /\ Nulo \in Hilo \cup {Nulo} /\ 0 \in Int
    BY DEF Punto
  <2> QED BY <1>1, <1>5, <2>1, TiposPaso
<1>7. InvListasC'
  <2>1. \A q \in Proceso : \A x \in ready'[q] : x \in ready[q] \/ (padre[x] = q /\ Conocido(x))
    BY <1>1, TiposHechos
  <2> QED BY <1>1, <1>2, <1>3, <2>1, ListasPaso DEF semaforos
<1>8. InvPunto(p)'
  BY <1>6 DEF InvPunto, EnSem, EnExt
(* The one that ran is not RUNNING any more: next_guardar_previo saw to it.  *)
<1>9. RunningUnico'
  <2>1. estado[running_thread[p]] # "RUNNING"
    <3>1. InvPunto(p) /\ pc[p] = "next_elegir"
      BY <1>1, HechosC, EnHechos
    <3> QED BY <3>1 DEF InvPunto
  <2>2. \A x \in Hilo \ {h} : estado'[x] = estado[x]
    BY <1>1, TiposHechos
  <2> QED BY <1>2, <1>3, <2>1, <2>2, HilosAssumption DEF InvarianteC, RunningUnico
<1>10. \A x \in Hilo : padre[x] # p /\ estado'[x] = "RUNNING" => estado[x] = "RUNNING"
  BY <1>1, <1>2, TiposHechos
<1>11. "next_elegir" \notin EnSem /\ pc'[p] \notin EnSem \cup {"signal_ejecutar"}
  BY <1>6 DEF EnSem, EnExt
<1> QED BY <1>1, <1>3, <1>4, <1>6, <1>7, <1>8, <1>9, <1>10, <1>11, PasoSinMutex

LEMMA PasoNextQuedarSinRunning ==
  ASSUME InvarianteC, NEW p \in Proceso, NextQuedarSinRunning(p),
         UNCHANGED <<threads_bloqueados, g_new_threads, g_blocked_threads, g_exit_threads,
                     semaforos, g_multiprog_max, mutexes>>
  PROVE  InvarianteC'
<1>1. /\ En(p, "next_nulo", "SUSE_SCHEDULE_NEXT", Nulo)
      /\ running_thread' = [running_thread EXCEPT ![p] = Nulo]
      /\ Terminar(p) /\ IrA(p, "inicio", Nulo, 0)
      /\ respuesta' = respuesta /\ ready' = ready /\ estado' = estado
      /\ UNCHANGED <<semaforos, mutexes>>
  BY DEF NextQuedarSinRunning, Terminar
<1>2. /\ running_thread'[p] = Nulo
      /\ \A q \in Proceso \ {p} : running_thread'[q] = running_thread[q]
  BY <1>1, TiposHechos
<1>3. /\ pedido' \in [Proceso -> Seq(Pedido)]
      /\ \A q \in Proceso : ProtocoloC(q)'
      /\ \A q \in Proceso \ {p} : pedido'[q] = pedido[q]
  BY <1>1, ProtocoloSinRunning
<1>4. TiposCompartidos'
  <2>1. running_thread' \in [Proceso -> Hilo \cup {Nulo}]
    BY <1>1, TiposHechos
  <2>2. /\ threads_bloqueados' = threads_bloqueados /\ g_new_threads' = g_new_threads
        /\ cola' = cola /\ current_value' = current_value /\ g_multiprog_max' = g_multiprog_max
        /\ sem_mutex' = sem_mutex /\ being_externally_scheduled' = being_externally_scheduled
    BY DEF semaforos, mutexes
  <2> QED BY <1>1, <1>3, <2>1, <2>2, TiposHechos DEF TiposCompartidos
<1>5. /\ TiposC' /\ pc'[p] = "inicio"
      /\ \A q \in Proceso \ {p} : pc'[q] = pc[q] /\ hilo'[q] = hilo[q]
  <2>1. "inicio" \in Punto /\ Nulo \in Hilo \cup {Nulo} /\ 0 \in Int
    BY DEF Punto
  <2> QED BY <1>1, <1>4, <2>1, TiposPaso
<1>6. InvListasC'
  BY <1>1, <1>2, ListasPaso DEF semaforos
<1>7. InvPunto(p)'
  BY <1>5 DEF InvPunto, EnSem, EnExt
<1>8. RunningUnico'
  <2>1. estado[running_thread[p]] # "RUNNING"
    <3>1. InvPunto(p) /\ pc[p] = "next_nulo"
      BY <1>1, HechosC, EnHechos
    <3> QED BY <3>1 DEF InvPunto
  <2> QED BY <1>1, <1>2, <2>1, HilosAssumption DEF InvarianteC, RunningUnico
<1>9. "next_nulo" \notin EnSem /\ pc'[p] \notin EnSem \cup {"signal_ejecutar"}
  BY <1>5 DEF EnSem, EnExt
<1> QED BY <1>1, <1>2, <1>3, <1>5, <1>6, <1>7, <1>8, <1>9, PasoSinMutex

LEMMA PasoScheduleNextC ==
  ASSUME InvarianteC, NEW p \in Proceso, ScheduleNext(p)
  PROVE  InvarianteC'
<1>1. UNCHANGED <<threads_bloqueados, g_new_threads, g_blocked_threads, g_exit_threads,
                  semaforos, g_multiprog_max, mutexes>>
  BY DEF ScheduleNext
<1>2. /\ hilo[p] \in Hilo \cup {Nulo} /\ leido[p] \in Int
      /\ {"next_elegir", "next_nulo"} \subseteq Punto \ (EnSem \cup {"signal_lock", "close_a_ready"})
      /\ "inicio" \notin EnSem
  BY TiposHechos DEF EnSem, EnExt, Punto
<1>3. MasNew /\ MasJoiners /\ g_multiprog_max' \in Int
  BY <1>1, SinCambios
<1>4. CASE NextGuardarPrevio(p)
  <2>1. En(p, "inicio", "SUSE_SCHEDULE_NEXT", Nulo) /\ running_thread' = running_thread
    BY <1>4 DEF NextGuardarPrevio
  <2>2. /\ running_thread[p] \in Hilo /\ running_thread[p] # Nulo
        /\ padre[running_thread[p]] = p /\ Conocido(running_thread[p])
    BY <2>1, EnHechos
  <2>3. /\ ready' = [ready EXCEPT ![p] = Candidatos(p)]
        /\ estado' = [estado EXCEPT ![running_thread[p]] = IF @ = "RUNNING" THEN "READY" ELSE @]
        /\ Seguir(p, "next_elegir")
    BY <1>4, <2>2 DEF NextGuardarPrevio
  <2>4. MasReady
    BY <2>2, <2>3, TiposHechos DEF Candidatos, MasReady
  <2>5. NingunoArranca /\ estado'[running_thread[p]] # "RUNNING"
    BY <2>2, <2>3, TiposHechos DEF NingunoArranca, Estado
  <2>6. /\ SigueOTermina(p, "SUSE_SCHEDULE_NEXT", Nulo)
        /\ IrA(p, "next_elegir", hilo[p], leido[p])
    BY <2>3 DEF SigueOTermina, Seguir, SeguirCon
  <2> QED BY <1>1, <1>2, <1>3, <2>1, <2>4, <2>5, <2>6, PasoDeListas
<1>5. CASE NextVacia(p)
  <2>1. /\ En(p, "next_elegir", "SUSE_SCHEDULE_NEXT", Nulo) /\ running_thread' = running_thread
        /\ ready' = ready /\ estado' = estado
    BY <1>5 DEF NextVacia
  <2>2. estado'[running_thread[p]] # "RUNNING" /\ "next_elegir" \notin EnSem
    <3>1. InvPunto(p) /\ pc[p] = "next_elegir"
      BY <2>1, HechosC, EnHechos
    <3> QED BY <1>2, <2>1, <3>1 DEF InvPunto
  <2>3. /\ SigueOTermina(p, "SUSE_SCHEDULE_NEXT", Nulo)
        /\ IrA(p, "next_nulo", hilo[p], leido[p])
    BY <1>5 DEF NextVacia, SigueOTermina, Seguir, SeguirCon
  <2> QED BY <1>1, <1>2, <1>3, <2>1, <2>2, <2>3, SinCambios, PasoDeListas
<1>6. ASSUME NEW h \in Hilo, NextElegir(p, h) PROVE InvarianteC'
  BY <1>1, <1>6, PasoNextElegir
<1>7. CASE NextQuedarSinRunning(p)
  BY <1>1, <1>7, PasoNextQuedarSinRunning
<1> QED BY <1>4, <1>5, <1>6, <1>7 DEF ScheduleNext

-------------------------------------------------------------------------------
(* Steps under the mutex of a semaphore *)

(* p has the mutex of s, or takes it while it is free, and only s changes.   *)
SoloSemaforo(p, s) ==
  /\ sem_mutex[s] \in {Nulo, p} /\ sem_mutex'[s] \in {Nulo, p}
  /\ sem_mutex' \in [Semaforo -> Proceso \cup {Nulo}]
  /\ current_value' \in [Semaforo -> Nat] /\ cola' \in [Semaforo -> Seq(Hilo)]
  /\ \A r \in Semaforo \ {s} :
       sem_mutex'[r] = sem_mutex[r] /\ current_value'[r] = current_value[r] /\ cola'[r] = cola[r]
  /\ \A h \in Elementos(cola'[s]) : h \in Elementos(cola[s]) \/ Conocido(h)
  /\ cola'[s] # <<>> => current_value'[s] = 0

(* p takes a being_externally_scheduled that is free, or releases its own.   *)
SoloExternos(p, sig, t) ==
  /\ being_externally_scheduled' \in [Proceso -> Proceso \cup {Nulo}]
  /\ \A x \in Proceso :
       /\ being_externally_scheduled'[x] \in {p, Nulo, being_externally_scheduled[x]}
       /\ being_externally_scheduled[x] \in Proceso \ {p} =>
            being_externally_scheduled'[x] = being_externally_scheduled[x]
       /\ being_externally_scheduled'[x] = p => sig \in EnExt /\ padre[t] = x

(* What makes the point sig, with the thread t in hand, one of the semaphore. *)
Llega(p, s, sig, t) ==
  /\ sig \in EnSem \cup {"inicio"}
  /\ sig \in EnSem <=> sem_mutex'[s] = p
  /\ sig \in EnSem => pedido' = pedido
  /\ sig = "wait_bloquear" => current_value'[s] = 0
  /\ sig = "wait_restar" => current_value'[s] # 0
  /\ sig = "signal_sumar" => cola'[s] = <<>>
  /\ sig \in EnExt \cup {"signal_running", "signal_ext"} => Conocido(t)
  /\ sig = "signal_ejecutar" =>
       running_thread'[padre[t]] = Nulo /\ being_externally_scheduled'[padre[t]] = p

LEMMA PuntoDeSemaforo ==
  ASSUME InvarianteC, NEW p \in Proceso, NEW l, NEW op, NEW s \in Semaforo, En(p, l, op, s),
         NEW sig, NEW t, pc'[p] = sig, hilo'[p] = t, Llega(p, s, sig, t)
  PROVE  InvPunto(p)'
<1>1. sig \in EnSem => Arg(p)' = s
  <2>1. Arg(p) = s
    BY EnHechos
  <2> QED BY <2>1 DEF Arg, Llega
<1>2. Conocido(t) => Conocido(hilo[p])'
  BY EnHechos DEF Conocido
<1>3. sig \notin {"signal_lock", "close_a_ready", "next_elegir", "next_nulo"}
  BY DEF Llega, EnSem, EnExt
<1>4. sig \in EnSem => Arg(p)' \in Semaforo /\ sem_mutex'[Arg(p)'] = p
  BY <1>1 DEF Llega
<1>5. /\ sig = "wait_bloquear" => current_value'[Arg(p)'] = 0
      /\ sig = "wait_restar" => current_value'[Arg(p)'] # 0
      /\ sig = "signal_sumar" => cola'[Arg(p)'] = <<>>
  BY <1>1 DEF Llega, EnSem
<1>6. sig = "signal_ejecutar" =>
        SinRunning(p)' /\ being_externally_scheduled'[padre[hilo'[p]]] = p
  BY DEF Llega, SinRunning
<1>7. sig \in EnExt \cup {"close_a_ready", "signal_running", "signal_ext"} => Conocido(hilo[p])'
  BY <1>2, <1>3 DEF Llega
<1> QED BY <1>3, <1>4, <1>5, <1>6, <1>7 DEF InvPunto

LEMMA MutexDeSemaforo ==
  ASSUME InvarianteC, NEW p \in Proceso, NEW l, NEW op, NEW s \in Semaforo, En(p, l, op, s),
         NEW sig, NEW t, pc'[p] = sig, hilo'[p] = t,
         SoloSemaforo(p, s), SoloExternos(p, sig, t), Llega(p, s, sig, t)
  PROVE  /\ ColaSoloEnCero'
         /\ \A r \in Semaforo : sem_mutex'[r] \in {p, Nulo, sem_mutex[r]}
         /\ \A x \in Proceso :
              being_externally_scheduled'[x] \in {p, Nulo, being_externally_scheduled[x]}
         /\ \A r \in Semaforo : sem_mutex'[r] = p => pc'[p] \in EnSem /\ Arg(p)' = r
         /\ \A x \in Proceso : being_externally_scheduled'[x] = p =>
              pc'[p] \in EnExt /\ padre[hilo'[p]] = x
         /\ \A r \in Semaforo : sem_mutex[r] \in Proceso \ {p} =>
              sem_mutex'[r] = sem_mutex[r] /\ current_value'[r] = current_value[r] /\ cola'[r] = cola[r]
<1>1. Arg(p) = s
  BY EnHechos
<1>2. ColaSoloEnCero'
  BY DEF InvarianteC, ColaSoloEnCero, SoloSemaforo
<1>3. ASSUME NEW r \in Semaforo, sem_mutex'[r] = p PROVE pc'[p] \in EnSem /\ Arg(p)' = r
  <2>1. CASE r = s
    BY <1>1, <1>3, <2>1 DEF Llega, Arg
  <2>2. CASE r # s
    <3>1. sem_mutex[r] = p
      BY <1>3, <2>2 DEF SoloSemaforo
    <3>2. Arg(p) = r
      BY <3>1, MutexAssumption DEF InvarianteC, MutexEnUso
    <3> QED BY <1>1, <2>2, <3>2
  <2> QED BY <2>1, <2>2
<1>4. \A r \in Semaforo : sem_mutex'[r] \in {p, Nulo, sem_mutex[r]}
  BY DEF SoloSemaforo
<1>5. \A r \in Semaforo : sem_mutex[r] \in Proceso \ {p} =>
        sem_mutex'[r] = sem_mutex[r] /\ current_value'[r] = current_value[r] /\ cola'[r] = cola[r]
  BY MutexAssumption DEF SoloSemaforo
<1>6. \A x \in Proceso :
        /\ being_externally_scheduled'[x] \in {p, Nulo, being_externally_scheduled[x]}
        /\ being_externally_scheduled'[x] = p => pc'[p] \in EnExt /\ padre[hilo'[p]] = x
  BY DEF SoloExternos
<1> QED BY <1>2, <1>3, <1>4, <1>5, <1>6

(* A step of suse_wait or suse_signal under the mutex that leaves the        *)
(* running threads where they are and lets no other thread run.              *)
LEMMA PasoDeSemaforo ==
  ASSUME InvarianteC, NEW p \in Proceso, NEW l, NEW op, NEW s \in Semaforo, En(p, l, op, s),
         NEW sig, NEW t \in Hilo \cup {Nulo}, NEW n \in Int, IrA(p, sig, t, n),
         SigueOTermina(p, op, s),
         UNCHANGED <<running_thread, threads_bloqueados, g_new_threads, g_multiprog_max>>,
         NingunoArranca, MasReady,
         SoloSemaforo(p, s), SoloExternos(p, sig, t), Llega(p, s, sig, t)
  PROVE  InvarianteC'
<1>1. /\ running_thread' = running_thread /\ threads_bloqueados' = threads_bloqueados
      /\ g_new_threads' = g_new_threads /\ g_multiprog_max' = g_multiprog_max
  OBVIOUS
<1>2. /\ pedido' \in [Proceso -> Seq(Pedido)] /\ respuesta' \in [Proceso -> Seq(Respuesta)]
      /\ \A q \in Proceso \ {p} : pedido'[q] = pedido[q]
      /\ \A q \in Proceso : ProtocoloC(q)'
  BY <1>1, ProtocoloDeListas
<1>3. TiposCompartidos'
  BY <1>1, <1>2, TiposHechos
     DEF TiposCompartidos, NingunoArranca, MasReady, SoloSemaforo, SoloExternos
<1>4. sig \in Punto
  BY DEF Llega, EnSem, EnExt, Punto
<1>5. /\ TiposC' /\ pc'[p] = sig /\ hilo'[p] = t
      /\ \A q \in Proceso \ {p} : pc'[q] = pc[q] /\ hilo'[q] = hilo[q]
  BY <1>3, <1>4, TiposPaso
<1>6. InvListasC'
  <2>1. \A r \in Semaforo : \A h \in Elementos(cola'[r]) : h \in Elementos(cola[r]) \/ Conocido(h)
    BY DEF SoloSemaforo
  <2> QED BY <1>1, <2>1, ListasPaso DEF MasReady
<1>7. InvPunto(p)'
  BY <1>5, PuntoDeSemaforo
<1>8. RunningUnico'
  BY <1>1 DEF InvarianteC, RunningUnico, NingunoArranca
<1>9. /\ ColaSoloEnCero'
      /\ \A r \in Semaforo : sem_mutex'[r] \in {p, Nulo, sem_mutex[r]}
      /\ \A x \in Proceso :
           being_externally_scheduled'[x] \in {p, Nulo, being_externally_scheduled[x]}
      /\ \A r \in Semaforo : sem_mutex'[r] = p => pc'[p] \in EnSem /\ Arg(p)' = r
      /\ \A x \in Proceso : being_externally_scheduled'[x] = p =>
           pc'[p] \in EnExt /\ padre[hilo'[p]] = x
      /\ \A r \in Semaforo : sem_mutex[r] \in Proceso \ {p} =>
           sem_mutex'[r] = sem_mutex[r] /\ current_value'[r] = current_value[r] /\ cola'[r] = cola[r]
  BY <1>5, MutexDeSemaforo
<1>10. DejaQuietos(p)
  <2>1. \A x \in Proceso : being_externally_scheduled[x] \in Proceso \ {p} =>
          being_externally_scheduled'[x] = being_externally_scheduled[x]
    BY DEF SoloExternos
  <2>2. \A h \in Hilo : estado'[h] = "RUNNING" => estado[h] = "RUNNING"
    BY DEF NingunoArranca
  <2> QED BY <1>1, <1>2, <1>5, <1>9, <2>1, <2>2 DEF DejaQuietos
<1> QED BY <1>2, <1>5, <1>6, <1>7, <1>8, <1>9, <1>10, PasoConMutex

(* Taking the mutex of a semaphore, keeping it, releasing all.               *)
LEMMA TomarHechos ==
  ASSUME InvarianteC, NEW p \in Proceso, NEW s \in Semaforo, Tomar(p, s),
         being_externally_scheduled' = being_externally_scheduled, pc[p] \notin EnExt,
         NEW sig, NEW t
  PROVE  /\ sem_mutex[s] = Nulo /\ sem_mutex'[s] = p
         /\ sem_mutex' \in [Semaforo -> Proceso \cup {Nulo}]
         /\ \A r \in Semaforo \ {s} : sem_mutex'[r] = sem_mutex[r]
         /\ SoloExternos(p, sig, t)
<1>1. \A x \in Proceso : being_externally_scheduled[x] # p
  BY MutexAssumption DEF InvarianteC, MutexEnUso
<1> QED BY <1>1, TiposHechos DEF Tomar, SoloExternos

LEMMA SoltarHechos ==
  ASSUME InvarianteC, NEW p \in Proceso, NEW s \in Semaforo, Soltar(p, s), NEW sig, NEW t
  PROVE  /\ sem_mutex'[s] = Nulo
         /\ sem_mutex' \in [Semaforo -> Proceso \cup {Nulo}]
         /\ \A r \in Semaforo \ {s} : sem_mutex'[r] = sem_mutex[r]
         /\ SoloExternos(p, sig, t)
<1>1. sem_mutex' = [sem_mutex EXCEPT ![s] = Nulo]
  BY DEF Soltar
<1>2. \A x \in Proceso : being_externally_scheduled'[x] =
        IF being_externally_scheduled[x] = p THEN Nulo ELSE being_externally_scheduled[x]
  BY DEF Soltar
<1>3. being_externally_scheduled' \in [Proceso -> Proceso \cup {Nulo}]
  BY TiposHechos DEF Soltar
<1>4. SoloExternos(p, sig, t)
  BY <1>2, <1>3, MutexAssumption DEF SoloExternos
<1> QED BY <1>1, <1>4, TiposHechos

LEMMA QuedarHechos ==
  ASSUME InvarianteC, NEW p \in Proceso, UNCHANGED mutexes,
         NEW sig, pc[p] \in EnExt => sig \in EnExt
  PROVE  SoloExternos(p, sig, hilo[p])
<1>1. \A x \in Proceso : being_externally_scheduled[x] = p =>
        pc[p] \in EnExt /\ padre[hilo[p]] = x
  BY MutexAssumption DEF InvarianteC, MutexEnUso
<1> QED BY <1>1, TiposHechos DEF mutexes, SoloExternos

(* What p may rely on under the mutex of s.                                  *)
LEMMA BajoMutex ==
  ASSUME InvarianteC, NEW p \in Proceso, NEW l \in EnSem, NEW op, NEW s, En(p, l, op, s)
  PROVE  /\ s \in Semaforo /\ sem_mutex[s] = p /\ pc[p] = l
         /\ l = "wait_bloquear" => current_value[s] = 0
         /\ l = "wait_restar" => current_value[s] # 0
         /\ l = "signal_sumar" => cola[s] = <<>>
         /\ l \in EnExt \cup {"signal_running", "signal_ext"} => Conocido(hilo[p]) /\ hilo[p] \in Hilo
         /\ l = "signal_ejecutar" =>
              /\ running_thread[padre[hilo[p]]] = Nulo
              /\ being_externally_scheduled[padre[hilo[p]]] = p
<1>0. Arg(p) = s
  BY EnHechos
<1>1. Arg(p) = s /\ pc[p] = l /\ InvPunto(p)
  BY <1>0 DEF En, InvarianteC
<1>2. l \in EnExt \cup {"signal_running", "signal_ext"} => Conocido(hilo[p])
  BY <1>1 DEF InvPunto
<1>3. l = "signal_ejecutar" =>
        /\ running_thread[padre[hilo[p]]] = Nulo
        /\ being_externally_scheduled[padre[hilo[p]]] = p
  BY <1>1 DEF InvPunto, SinRunning
<1>4. Conocido(hilo[p]) => hilo[p] \in Hilo
  BY DEF Conocido
<1> QED BY <1>1, <1>2, <1>3, <1>4 DEF InvPunto

(* Without a change of its value or of its queue only the mutex moves.       *)
LEMMA SemaforoQuieto ==
  ASSUME InvarianteC, NEW p \in Proceso, NEW s \in Semaforo,
         current_value' = current_value, cola' = cola,
         sem_mutex[s] \in {Nulo, p}, sem_mutex'[s] \in {Nulo, p},
         sem_mutex' \in [Semaforo -> Proceso \cup {Nulo}],
         \A r \in Semaforo \ {s} : sem_mutex'[r] = sem_mutex[r]
  PROVE  SoloSemaforo(p, s)
BY TiposHechos DEF SoloSemaforo, InvarianteC, ColaSoloEnCero

-------------------------------------------------------------------------------
(* suse_wait *)

LEMMA PasoWaitC ==
  ASSUME InvarianteC, NEW p \in Proceso, Wait(p)
  PROVE  InvarianteC'
<1>1. UNCHANGED <<threads_bloqueados, running_thread, ready, g_new_threads, g_exit_threads,
                  g_multiprog_max>>
  BY DEF Wait
<1>2. MasReady /\ hilo[p] \in Hilo \cup {Nulo} /\ leido[p] \in Int
  BY <1>1, SinCambios, TiposHechos
<1>3. "SUSE_WAIT" \in OpConRespuesta \ {"SUSE_SCHEDULE_NEXT"} /\ OK \in Int
  BY DEF OpConRespuesta, OK
<1>4. {"wait_bloquear", "wait_restar"} \subseteq EnSem \ (EnExt \cup {"signal_running", "signal_ext"})
  BY DEF EnSem, EnExt
<1>5. ASSUME NEW s, WaitMirarValor(p, s) PROVE InvarianteC'
  <2> DEFINE sig == IF current_value[s] = 0 THEN "wait_bloquear" ELSE "wait_restar"
  <2>1. /\ En(p, "inicio", "SUSE_WAIT", s) /\ s \in Semaforo /\ Tomar(p, s)
        /\ current_value' = current_value /\ cola' = cola /\ estado' = estado
        /\ being_externally_scheduled' = being_externally_scheduled
        /\ Seguir(p, sig)
    BY <1>5 DEF WaitMirarValor, semaforos
  <2>2. pc[p] \notin EnExt
    BY <2>1 DEF En, EnExt
  <2>3. /\ sem_mutex[s] = Nulo /\ sem_mutex'[s] = p
        /\ sem_mutex' \in [Semaforo -> Proceso \cup {Nulo}]
        /\ \A r \in Semaforo \ {s} : sem_mutex'[r] = sem_mutex[r]
        /\ SoloExternos(p, sig, hilo[p])
    BY <2>1, <2>2, TomarHechos
  <2>4. SoloSemaforo(p, s)
    BY <2>1, <2>3, SemaforoQuieto
  <2>5. Llega(p, s, sig, hilo[p])
    BY <1>4, <2>1, <2>3 DEF Llega, Seguir, SeguirCon, EnExt
  <2>6. SigueOTermina(p, "SUSE_WAIT", s) /\ IrA(p, sig, hilo[p], leido[p]) /\ NingunoArranca
    BY <2>1, SinCambios DEF SigueOTermina, Seguir, SeguirCon
  <2> HIDE DEF sig
  <2> QED BY <1>1, <1>2, <2>1, <2>3, <2>4, <2>5, <2>6, PasoDeSemaforo
<1>6. ASSUME NEW s, WaitBloquear(p, s) PROVE InvarianteC'
  <2>1. /\ En(p, "wait_bloquear", "SUSE_WAIT", s) /\ Soltar(p, s)
        /\ estado' = [estado EXCEPT ![running_thread[p]] = "BLOCKED"]
        /\ cola' = [cola EXCEPT ![s] = Append(@, running_thread[p])]
        /\ current_value' = current_value
        /\ TerminarCon(p, "SUSE_WAIT", OK)
    BY <1>6 DEF WaitBloquear
  <2>2. s \in Semaforo /\ sem_mutex[s] = p /\ current_value[s] = 0
    BY <1>4, <2>1, BajoMutex
  <2>3. running_thread[p] \in Hilo /\ Conocido(running_thread[p])
    BY <2>1, EnHechos
  <2>4. /\ sem_mutex'[s] = Nulo
        /\ sem_mutex' \in [Semaforo -> Proceso \cup {Nulo}]
        /\ \A r \in Semaforo \ {s} : sem_mutex'[r] = sem_mutex[r]
        /\ SoloExternos(p, "inicio", Nulo)
    BY <2>1, <2>2, SoltarHechos
  <2>5. /\ cola' \in [Semaforo -> Seq(Hilo)]
        /\ Elementos(cola'[s]) = Elementos(cola[s]) \cup {running_thread[p]}
        /\ \A r \in Semaforo \ {s} : cola'[r] = cola[r]
    <3>1. /\ Append(cola[s], running_thread[p]) \in Seq(Hilo)
          /\ Elementos(Append(cola[s], running_thread[p])) = Elementos(cola[s]) \cup {running_thread[p]}
      BY <2>2, <2>3, TiposHechos, Agregar
    <3> QED BY <2>1, <2>2, <3>1, TiposHechos
  <2>6. SoloSemaforo(p, s)
    BY <2>1, <2>2, <2>3, <2>4, <2>5, TiposHechos DEF SoloSemaforo
  <2>7. Llega(p, s, "inicio", Nulo)
    BY <2>4, MutexAssumption DEF Llega, EnSem, EnExt
  <2>8. SigueOTermina(p, "SUSE_WAIT", s) /\ IrA(p, "inicio", Nulo, 0)
    BY <1>3, <2>1 DEF SigueOTermina, TerminarCon, Terminar
  <2>9. NingunoArranca
    BY <2>1, EstadoNuevo DEF Estado
  <2> QED BY <1>1, <1>2, <2>1, <2>2, <2>4, <2>6, <2>7, <2>8, <2>9, PasoDeSemaforo
<1>7. ASSUME NEW s, WaitRestar(p, s) PROVE InvarianteC'
  <2>1. /\ En(p, "wait_restar", "SUSE_WAIT", s) /\ Soltar(p, s)
        /\ current_value' = [current_value EXCEPT ![s] = @ - 1]
        /\ cola' = cola /\ estado' = estado
        /\ TerminarCon(p, "SUSE_WAIT", OK)
    BY <1>7 DEF WaitRestar
  <2>2. s \in Semaforo /\ sem_mutex[s] = p /\ current_value[s] # 0
    BY <1>4, <2>1, BajoMutex
  <2>3. /\ sem_mutex'[s] = Nulo
        /\ sem_mutex' \in [Semaforo -> Proceso \cup {Nulo}]
        /\ \A r \in Semaforo \ {s} : sem_mutex'[r] = sem_mutex[r]
        /\ SoloExternos(p, "inicio", Nulo)
    BY <2>1, <2>2, SoltarHechos
  <2>4. cola[s] = <<>>
    BY <2>2 DEF InvarianteC, ColaSoloEnCero
  <2>5. /\ current_value' \in [Semaforo -> Nat]
        /\ \A r \in Semaforo \ {s} : current_value'[r] = current_value[r]
    BY <2>1, <2>2, TiposHechos
  <2>6. SoloSemaforo(p, s)
    BY <2>1, <2>2, <2>3, <2>4, <2>5, TiposHechos DEF SoloSemaforo
  <2>7. Llega(p, s, "inicio", Nulo)
    BY <2>3, MutexAssumption DEF Llega, EnSem, EnExt
  <2>8. /\ SigueOTermina(p, "SUSE_WAIT", s) /\ IrA(p, "inicio", Nulo, 0)
        /\ NingunoArranca
    BY <1>3, <2>1, SinCambios DEF SigueOTermina, TerminarCon, Terminar
  <2> QED BY <1>1, <1>2, <2>1, <2>2, <2>3, <2>6, <2>7, <2>8, PasoDeSemaforo
<1>8. ASSUME NEW s, WaitDesconocido(p, s) PROVE InvarianteC'
  BY <1>1, <1>8, PasoWaitDesconocido
<1> QED BY <1>5, <1>6, <1>7, <1>8 DEF Wait

-------------------------------------------------------------------------------
(* suse_signal *)

(* The points of EnExt to which a signal goes on after the search.           *)
LEMMA PasoSignalSacar ==
  ASSUME InvarianteC, NEW p \in Proceso, NEW s, SignalSacar(p, s),
         UNCHANGED <<threads_bloqueados, g_new_threads, g_exit_threads, g_multiprog_max>>
  PROVE  InvarianteC'
<1>1. /\ En(p, "signal_lock", "SUSE_SIGNAL", s) /\ Tomar(p, s)
      /\ UNCHANGED running_thread /\ ready' = ready /\ estado' = estado
      /\ current_value' = current_value
      /\ being_externally_scheduled' = being_externally_scheduled
  BY DEF SignalSacar, listasSignal
<1>2. s \in Semaforo /\ pc[p] \notin EnExt
  <2>1. Arg(p) = s
    <3>1. En(p, "signal_lock", "SUSE_SIGNAL", s)
      BY <1>1
    <3> QED BY <3>1 DEF En, Recibido, Arg
  <2>2. pc[p] = "signal_lock" /\ InvPunto(p)
    BY <1>1 DEF En, InvarianteC
  <2> QED BY <2>1, <2>2 DEF InvPunto, EnExt
<1>3. MasReady /\ NingunoArranca /\ hilo[p] \in Hilo \cup {Nulo} /\ leido[p] \in Int
  BY <1>1, SinCambios, TiposHechos
<1>4. /\ sem_mutex[s] = Nulo /\ sem_mutex'[s] = p
      /\ sem_mutex' \in [Semaforo -> Proceso \cup {Nulo}]
      /\ \A r \in Semaforo \ {s} : sem_mutex'[r] = sem_mutex[r]
      /\ \A sig, t : SoloExternos(p, sig, t)
  BY <1>1, <1>2, TomarHechos
<1>5. {"signal_sumar", "signal_running"} \subseteq EnSem \ EnExt
  BY DEF EnSem, EnExt
<1>6. CASE cola[s] = <<>>
  <2>1. Seguir(p, "signal_sumar") /\ cola' = cola
    BY <1>6 DEF SignalSacar
  <2>2. SoloSemaforo(p, s)
    BY <1>1, <1>2, <1>4, <2>1, SemaforoQuieto
  <2>3. Llega(p, s, "signal_sumar", hilo[p])
    BY <1>4, <1>5, <1>6, <2>1 DEF Llega, Seguir, SeguirCon
  <2>4. /\ SigueOTermina(p, "SUSE_SIGNAL", s)
        /\ IrA(p, "signal_sumar", hilo[p], leido[p])
    BY <2>1 DEF SigueOTermina, Seguir, SeguirCon
  <2> QED BY <1>1, <1>2, <1>3, <1>4, <2>2, <2>3, <2>4, PasoDeSemaforo
<1>7. CASE cola[s] # <<>>
  <2> DEFINE h == Head(cola[s])
  <2>1. SeguirConHilo(p, "signal_running", h) /\ cola' = [cola EXCEPT ![s] = Tail(@)]
    BY <1>7 DEF SignalSacar
  <2>2. /\ h \in Hilo /\ Tail(cola[s]) \in Seq(Hilo)
        /\ Elementos(cola[s]) = Elementos(Tail(cola[s])) \cup {h}
    BY <1>2, <1>7, TiposHechos, Quitar
  <2>3. Conocido(h) /\ current_value[s] = 0
    BY <1>2, <1>7, <2>2 DEF InvarianteC, InvListasC, ColaSoloEnCero
  <2>4. /\ cola' \in [Semaforo -> Seq(Hilo)] /\ cola'[s] = Tail(cola[s])
        /\ \A r \in Semaforo \ {s} : cola'[r] = cola[r]
    BY <1>2, <2>1, <2>2, TiposHechos
  <2>5. SoloSemaforo(p, s)
    BY <1>1, <1>2, <1>4, <2>2, <2>3, <2>4, TiposHechos DEF SoloSemaforo
  <2>6. Llega(p, s, "signal_running", h)
    BY <1>4, <1>5, <2>1, <2>3 DEF Llega, SeguirConHilo, SeguirCon
  <2>7. SigueOTermina(p, "SUSE_SIGNAL", s) /\ IrA(p, "signal_running", h, leido[p])
    BY <2>1 DEF SigueOTermina, SeguirConHilo, SeguirCon
  <2> HIDE DEF h
  <2> QED BY <1>1, <1>2, <1>3, <1>4, <2>2, <2>5, <2>6, <2>7, PasoDeSemaforo
<1> QED BY <1>6, <1>7

LEMMA PasoSignalSumar ==
  ASSUME InvarianteC, NEW p \in Proceso, NEW s, SignalSumar(p, s),
         UNCHANGED <<threads_bloqueados, g_new_threads, g_exit_threads, g_multiprog_max>>
  PROVE  InvarianteC'
<1>1. /\ En(p, "signal_sumar", "SUSE_SIGNAL", s) /\ Soltar(p, s)
      /\ UNCHANGED running_thread /\ ready' = ready /\ estado' = estado /\ cola' = cola
      /\ current_value' = [current_value EXCEPT ![s] = @ + 1]
      /\ TerminarCon(p, "SUSE_SIGNAL", OK)
  BY DEF SignalSumar, listasSignal
<1>2. s \in Semaforo /\ sem_mutex[s] = p /\ cola[s] = <<>>
  <2>1. "signal_sumar" \in EnSem
    BY DEF EnSem
  <2> QED BY <1>1, <2>1, BajoMutex
<1>3. MasReady /\ NingunoArranca
  BY <1>1, SinCambios
<1>4. /\ sem_mutex'[s] = Nulo
      /\ sem_mutex' \in [Semaforo -> Proceso \cup {Nulo}]
      /\ \A r \in Semaforo \ {s} : sem_mutex'[r] = sem_mutex[r]
      /\ SoloExternos(p, "inicio", Nulo)
  BY <1>1, <1>2, SoltarHechos
<1>5. /\ current_value' \in [Semaforo -> Nat]
      /\ \A r \in Semaforo \ {s} : current_value'[r] = current_value[r]
  BY <1>1, <1>2, TiposHechos
<1>6. SoloSemaforo(p, s)
  BY <1>1, <1>2, <1>4, <1>5, TiposHechos DEF SoloSemaforo
<1>7. Llega(p, s, "inicio", Nulo)
  BY <1>4, MutexAssumption DEF Llega, EnSem, EnExt
<1>8. SigueOTermina(p, "SUSE_SIGNAL", s) /\ IrA(p, "inicio", Nulo, 0)
  BY <1>1 DEF SigueOTermina, TerminarCon, Terminar, OpConRespuesta, OK
<1> QED BY <1>1, <1>2, <1>3, <1>4, <1>6, <1>7, <1>8, PasoDeSemaforo

(* The thread that a signal took off the queue moves on, or its signal ends. *)
LEMMA PasoSignalMirarRunning ==
  ASSUME InvarianteC, NEW p \in Proceso, NEW s, SignalMirarRunning(p, s),
         UNCHANGED <<threads_bloqueados, g_new_threads, g_exit_threads, g_multiprog_max>>
  PROVE  InvarianteC'
<1> DEFINE sig == IF SinRunning(p) THEN "signal_ext" ELSE "signal_quitar"
<1>1. /\ En(p, "signal_running", "SUSE_SIGNAL", s) /\ UNCHANGED mutexes
      /\ UNCHANGED running_thread /\ ready' = ready /\ estado' = estado
      /\ current_value' = current_value /\ cola' = cola /\ Seguir(p, sig)
  BY DEF SignalMirarRunning, listasSignal, semaforos
<1>2. /\ s \in Semaforo /\ sem_mutex[s] = p /\ pc[p] = "signal_running"
      /\ Conocido(hilo[p]) /\ hilo[p] \in Hilo
  <2>1. "signal_running" \in EnSem
    BY DEF EnSem
  <2> QED BY <1>1, <2>1, BajoMutex
<1>3. MasReady /\ NingunoArranca /\ leido[p] \in Int
  BY <1>1, SinCambios, TiposHechos
<1>4. sem_mutex' = sem_mutex
  BY <1>1 DEF mutexes
<1>5. SoloExternos(p, sig, hilo[p])
  BY <1>1, <1>2, QuedarHechos DEF EnExt
<1>6. SoloSemaforo(p, s)
  BY <1>1, <1>2, <1>4, SemaforoQuieto, TiposHechos
<1>7. Llega(p, s, sig, hilo[p])
  BY <1>1, <1>2, <1>4 DEF Llega, Seguir, SeguirCon, EnSem, EnExt
<1>8. SigueOTermina(p, "SUSE_SIGNAL", s) /\ IrA(p, sig, hilo[p], leido[p])
  BY <1>1 DEF SigueOTermina, Seguir, SeguirCon
<1> HIDE DEF sig
<1> QED BY <1>1, <1>2, <1>3, <1>5, <1>6, <1>7, <1>8, PasoDeSemaforo

LEMMA PasoSignalTomarExterno ==
  ASSUME InvarianteC, NEW p \in Proceso, NEW s, SignalTomarExterno(p, s),
         UNCHANGED <<threads_bloqueados, g_new_threads, g_exit_threads, g_multiprog_max>>
  PROVE  InvarianteC'
<1> DEFINE sig == IF SinRunning(p) THEN "signal_ejecutar" ELSE "signal_quitar"
           x == padre[hilo[p]]
<1>1. /\ En(p, "signal_ext", "SUSE_SIGNAL", s) /\ sem_mutex' = sem_mutex
      /\ running_thread' = running_thread /\ ready' = ready /\ estado' = estado
      /\ current_value' = current_value /\ cola' = cola /\ Seguir(p, sig)
      /\ being_externally_scheduled[x] = Nulo
      /\ being_externally_scheduled' = [being_externally_scheduled EXCEPT ![x] = p]
  BY DEF SignalTomarExterno, listasSignal, semaforos
<1>2. /\ s \in Semaforo /\ sem_mutex[s] = p /\ pc[p] = "signal_ext"
      /\ Conocido(hilo[p]) /\ hilo[p] \in Hilo /\ x \in Proceso
  <2>1. "signal_ext" \in EnSem
    BY DEF EnSem
  <2> QED BY <1>1, <2>1, BajoMutex, HilosAssumption
<1>3. MasReady /\ NingunoArranca /\ leido[p] \in Int
  BY <1>1, SinCambios, TiposHechos
<1>4. \A y \in Proceso : being_externally_scheduled[y] # p
  BY <1>2, MutexAssumption DEF InvarianteC, MutexEnUso, EnExt
<1>5. SoloExternos(p, sig, hilo[p])
  <2>1. sig \in EnExt
    BY DEF EnExt
  <2>2. /\ being_externally_scheduled' \in [Proceso -> Proceso \cup {Nulo}]
        /\ being_externally_scheduled'[x] = p
        /\ \A y \in Proceso \ {x} : being_externally_scheduled'[y] = being_externally_scheduled[y]
    BY <1>1, <1>2, TiposHechos
  <2> HIDE DEF sig
  <2> QED BY <1>1, <1>4, <2>1, <2>2, MutexAssumption DEF SoloExternos
<1>6. SoloSemaforo(p, s)
  BY <1>1, <1>2, SemaforoQuieto, TiposHechos
<1>7. Llega(p, s, sig, hilo[p])
  <2>1. being_externally_scheduled'[x] = p
    BY <1>1, <1>2, TiposHechos
  <2>2. sig \in EnSem /\ sig \in {"signal_ejecutar", "signal_quitar"}
    BY DEF EnSem, EnExt
  <2>3. sig = "signal_ejecutar" => running_thread'[x] = Nulo
    BY <1>1 DEF SinRunning
  <2>4. pedido' = pedido
    BY <1>1 DEF Seguir, SeguirCon
  <2> HIDE DEF sig
  <2> QED BY <1>1, <1>2, <2>1, <2>2, <2>3, <2>4 DEF Llega
<1>8. SigueOTermina(p, "SUSE_SIGNAL", s) /\ IrA(p, sig, hilo[p], leido[p])
  BY <1>1 DEF SigueOTermina, Seguir, SeguirCon
<1> HIDE DEF sig
<1> QED BY <1>1, <1>2, <1>3, <1>5, <1>6, <1>7, <1>8, PasoDeSemaforo

LEMMA PasoSignalQuitar ==
  ASSUME InvarianteC, NEW p \in Proceso, NEW s, SignalQuitar(p, s) \/ SignalAReady(p, s),
         UNCHANGED <<threads_bloqueados, g_new_threads, g_exit_threads, g_multiprog_max>>
  PROVE  InvarianteC'
<1>1. PICK l \in {"signal_quitar", "signal_a_ready"}, sig \in {"signal_a_ready", "signal_estado"} :
        En(p, l, "SUSE_SIGNAL", s) /\ Seguir(p, sig)
  BY DEF SignalQuitar, SignalAReady
<1>2. /\ UNCHANGED mutexes /\ UNCHANGED running_thread /\ estado' = estado
      /\ current_value' = current_value /\ cola' = cola
      /\ ready' = ready \/ ready' = AgregarAReady({hilo[p]})
  BY DEF SignalQuitar, SignalAReady, semaforos
<1>3. l \in EnExt /\ l \in EnSem /\ sig \in EnExt /\ sig \in EnSem
  BY DEF EnExt, EnSem
<1>4. /\ s \in Semaforo /\ sem_mutex[s] = p /\ pc[p] = l
      /\ Conocido(hilo[p]) /\ hilo[p] \in Hilo
  BY <1>1, <1>3, BajoMutex
<1>5. MasReady
  BY <1>2, <1>4, SinCambios, AgregarAReadyMas
<1>6. NingunoArranca /\ leido[p] \in Int /\ sem_mutex' = sem_mutex
  BY <1>2, SinCambios, TiposHechos DEF mutexes
<1>7. SoloExternos(p, sig, hilo[p])
  BY <1>2, <1>3, QuedarHechos
<1>8. SoloSemaforo(p, s)
  BY <1>2, <1>4, <1>6, SemaforoQuieto, TiposHechos
<1>9. Llega(p, s, sig, hilo[p])
  BY <1>1, <1>3, <1>4, <1>6 DEF Llega, Seguir, SeguirCon
<1>10. SigueOTermina(p, "SUSE_SIGNAL", s) /\ IrA(p, sig, hilo[p], leido[p])
  BY <1>1 DEF SigueOTermina, Seguir, SeguirCon
<1> QED BY <1>1, <1>2, <1>4, <1>5, <1>6, <1>7, <1>8, <1>9, <1>10, PasoDeSemaforo

LEMMA PasoSignalEstado ==
  ASSUME InvarianteC, NEW p \in Proceso, NEW s, SignalEstado(p, s),
         UNCHANGED <<threads_bloqueados, g_new_threads, g_exit_threads, g_multiprog_max>>
  PROVE  InvarianteC'
<1>1. /\ En(p, "signal_estado", "SUSE_SIGNAL", s) /\ Soltar(p, s)
      /\ UNCHANGED running_thread /\ ready' = ready
      /\ current_value' = current_value /\ cola' = cola
      /\ estado' = [estado EXCEPT ![hilo[p]] = "READY"]
      /\ TerminarCon(p, "SUSE_SIGNAL", OK)
  BY DEF SignalEstado, semaforos
<1>2. s \in Semaforo /\ sem_mutex[s] = p
  <2>1. "signal_estado" \in EnSem
    BY DEF EnSem, EnExt
  <2> QED BY <1>1, <2>1, BajoMutex
<1>3. MasReady /\ NingunoArranca
  BY <1>1, SinCambios, EstadoNuevo DEF Estado
<1>4. /\ sem_mutex'[s] = Nulo
      /\ sem_mutex' \in [Semaforo -> Proceso \cup {Nulo}]
      /\ \A r \in Semaforo \ {s} : sem_mutex'[r] = sem_mutex[r]
      /\ SoloExternos(p, "inicio", Nulo)
  BY <1>1, <1>2, SoltarHechos
<1>5. SoloSemaforo(p, s)
  BY <1>1, <1>2, <1>4, SemaforoQuieto
<1>6. Llega(p, s, "inicio", Nulo)
  BY <1>4, MutexAssumption DEF Llega, EnSem, EnExt
<1>7. SigueOTermina(p, "SUSE_SIGNAL", s) /\ IrA(p, "inicio", Nulo, 0)
  BY <1>1 DEF SigueOTermina, TerminarCon, Terminar, OpConRespuesta, OK
<1> QED BY <1>1, <1>2, <1>3, <1>4, <1>5, <1>6, <1>7, PasoDeSemaforo


(* The released thread runs, in a process x left without a running thread:   *)
(* x gets the answer to its schedule_next, p the one to its signal.          *)
LEMMA ProtocoloExterno ==
  ASSUME InvarianteC, NEW p \in Proceso, NEW l, NEW s, En(p, l, "SUSE_SIGNAL", s),
         NEW h \in Hilo, Conocido(h), NEW x \in Proceso, x = padre[h], running_thread[x] = Nulo,
         EjecutarDesbloqueado(p, h), Terminar(p)
  PROVE  /\ pedido' \in [Proceso -> Seq(Pedido)] /\ respuesta' \in [Proceso -> Seq(Respuesta)]
         /\ \A q \in Proceso : ProtocoloC(q)'
         /\ \A q \in Proceso \ {p} : pedido'[q] = pedido[q]
<1>1. /\ running_thread' = [running_thread EXCEPT ![x] = h]
      /\ respuesta' = enviarPaquetes(enviarPaquetes(respuesta, x, "SUSE_SCHEDULE_NEXT", h),
                                     p, "SUSE_SIGNAL", OK)
      /\ ConsumirPedido(p) /\ pc' = [pc EXCEPT ![p] = "inicio"]
  BY DEF EjecutarDesbloqueado, Terminar, IrA
<1>2. /\ running_thread'[x] = h /\ \A q \in Proceso \ {x} : running_thread'[q] = running_thread[q]
      /\ pc'[p] = "inicio" /\ \A q \in Proceso \ {p} : pc'[q] = pc[q]
      /\ h # Nulo
  BY <1>1, TiposHechos, NuloAssumption
<1>3. /\ etapa' = etapa /\ abierto' = abierto /\ fase' = fase /\ ults' = ults
      /\ running_thread[p] # Nulo
  BY EnHechos
<1>4. "SUSE_SIGNAL" \in OpConRespuesta /\ "SUSE_SCHEDULE_NEXT" \in OpConRespuesta
  BY DEF OpConRespuesta
<1>5. /\ pedido' \in [Proceso -> Seq(Pedido)] /\ respuesta[p] = <<>>
      /\ \A q \in Proceso \ {p} : pedido'[q] = pedido[q]
  BY <1>1, <1>4, AtencionC
<1>6. p # x
  BY <1>3
(* x waits for a schedule_next, or has ended. *)
<1>7. /\ InvPedidoC(x) /\ InvFaseC(x) /\ InvEtapaC(x) /\ fase[x] \in Fase
      /\ etapa[x] \in {"bucle", "cerrada"}
  BY HechosC DEF Conocido
<1>8. pedido[x] = <<>> /\ pc[x] = "inicio" /\ fase[x] \notin {"sin_conectar", "HANDSHAKE"}
  BY <1>7 DEF InvEtapaC
<1>9. fase[x] = "terminado" \/ SinNadaQueEjecutar(x)
  <2>1. fase[x] # "corriendo"
    BY <1>7 DEF InvFaseC, InvEtapaC
  <2>2. ~ Pendiente(x) /\ ~ RespondidoC(x)
    BY <1>8 DEF Pendiente, RespondidoC
  <2> QED BY <1>7, <1>8, <2>1, <2>2 DEF Fase, InvFaseC
<1>10. respuesta[x] = <<>> /\ (x \in abierto <=> SinNadaQueEjecutar(x))
  BY <1>7, <1>9 DEF InvFaseC, SinNadaQueEjecutar
(* The two responses go to different connections. *)
<1> DEFINE buzones == enviarPaquetes(respuesta, x, "SUSE_SCHEDULE_NEXT", h)
<1>11. /\ buzones \in [Proceso -> Seq(Respuesta)]
       /\ \A q \in Proceso \ {x} : buzones[q] = respuesta[q]
       /\ x \notin abierto => buzones[x] = <<>>
       /\ x \in abierto => /\ Len(buzones[x]) = 1
                           /\ buzones[x][1] = [op |-> "SUSE_SCHEDULE_NEXT", valor |-> h]
  <2>1. [op |-> "SUSE_SCHEDULE_NEXT", valor |-> h] \in Respuesta
    BY <1>4 DEF Respuesta
  <2>2. respuesta \in [Proceso -> Seq(Respuesta)]
    BY TiposHechos
  <2> QED BY <1>10, <2>1, <2>2, Entrega
<1> HIDE DEF buzones
<1>12. /\ respuesta' \in [Proceso -> Seq(Respuesta)]
       /\ \A q \in Proceso \ {p} : respuesta'[q] = buzones[q]
       /\ p \notin abierto => respuesta'[p] = <<>>
       /\ p \in abierto => /\ Len(respuesta'[p]) = 1
                           /\ respuesta'[p][1] = [op |-> "SUSE_SIGNAL", valor |-> OK]
  <2>1. [op |-> "SUSE_SIGNAL", valor |-> OK] \in Respuesta
    BY <1>4 DEF Respuesta, OK
  <2>2. respuesta' = enviarPaquetes(buzones, p, "SUSE_SIGNAL", OK) /\ buzones[p] = <<>>
    BY <1>1, <1>5, <1>6, <1>11 DEF buzones
  <2> QED BY <1>11, <2>1, <2>2, Entrega
<1>13. ProtocoloC(p)'
  <2>1. p \in abierto => Len(respuesta'[p]) = 1 /\ respuesta'[p][1].op = "SUSE_SIGNAL"
    BY <1>12
  <2>2. running_thread'[p] # Nulo
    BY <1>2, <1>3, <1>6
  <2> QED BY <1>1, <1>2, <1>4, <1>12, <2>1, <2>2, OperacionRespondidaC
<1>14. ProtocoloC(x)'
  <2>1. pedido'[x] = pedido[x] /\ respuesta'[x] = buzones[x] /\ pc'[x] = "inicio"
    BY <1>2, <1>5, <1>6, <1>8, <1>12
  <2>2. InvPedidoC(x)'
    BY <1>3, <1>7, <2>1 DEF InvPedidoC, Pide
  <2>3. ASSUME SinNadaQueEjecutar(x) PROVE RespondidoC(x)'
    <3>1. Len(respuesta'[x]) = 1 /\ respuesta'[x][1] = [op |-> "SUSE_SCHEDULE_NEXT", valor |-> h]
      BY <1>10, <1>11, <2>1, <2>3
    <3> QED BY <1>2, <1>3, <2>1, <2>3, <3>1 DEF SinNadaQueEjecutar, RespondidoC
  <2>4. InvFaseC(x)'
    <3>1. CASE fase[x] = "terminado"
      <4>1. x \notin abierto /\ respuesta'[x] = <<>>
        BY <1>10, <1>11, <2>1, <3>1 DEF SinNadaQueEjecutar
      <4> QED BY <1>3, <2>1, <3>1, <4>1 DEF InvFaseC, OpConRespuesta
    <3>2. CASE SinNadaQueEjecutar(x)
      <4>1. fase[x] = "SUSE_SCHEDULE_NEXT"
        BY <3>2 DEF SinNadaQueEjecutar
      <4> QED BY <1>3, <1>10, <2>1, <2>3, <3>2, <4>1 DEF InvFaseC, OpConRespuesta
    <3> QED BY <1>9, <3>1, <3>2
  <2>5. InvEtapaC(x)'
    BY <1>3, <1>7, <1>8, <2>1 DEF InvEtapaC
  <2> QED BY <2>2, <2>4, <2>5 DEF ProtocoloC
<1>15. ASSUME NEW q \in Proceso \ {p}, q # x PROVE ProtocoloC(q)'
  <2>1. ProtocoloC(q)
    BY HechosC DEF ProtocoloC
  <2>2. pc'[q] # "inicio" => etapa[q] = "bucle" /\ pedido[q] # <<>>
    BY <1>2, <2>1 DEF ProtocoloC, InvEtapaC
  <2>3. /\ pedido'[q] = pedido[q] /\ respuesta'[q] = respuesta[q]
        /\ running_thread'[q] = running_thread[q]
    BY <1>2, <1>5, <1>11, <1>12, <1>15
  <2> QED BY <1>3, <2>1, <2>2, <2>3, MarcoProtocoloC
<1> QED BY <1>5, <1>12, <1>13, <1>14, <1>15

(* being_externally_scheduled is what makes it safe: no other connection can *)
(* have given x a running thread since the test.                             *)
LEMMA PasoSignalEjecutar ==
  ASSUME InvarianteC, NEW p \in Proceso, NEW s, SignalEjecutar(p, s),
         UNCHANGED <<threads_bloqueados, g_new_threads, g_exit_threads, g_multiprog_max>>
  PROVE  InvarianteC'
<1> DEFINE h == hilo[p]
           x == padre[h]
<1>1. /\ En(p, "signal_ejecutar", "SUSE_SIGNAL", s) /\ EjecutarDesbloqueado(p, h)
      /\ Soltar(p, s) /\ Terminar(p) /\ IrA(p, "inicio", Nulo, 0)
      /\ current_value' = current_value /\ cola' = cola /\ ready' = ready
      /\ running_thread' = [running_thread EXCEPT ![x] = h]
      /\ estado' = [estado EXCEPT ![h] = "RUNNING"]
  BY DEF SignalEjecutar, EjecutarDesbloqueado, Terminar, semaforos
<1>2. /\ s \in Semaforo /\ sem_mutex[s] = p /\ Conocido(h) /\ h \in Hilo
      /\ running_thread[x] = Nulo /\ being_externally_scheduled[x] = p
  <2>1. "signal_ejecutar" \in EnSem /\ "signal_ejecutar" \in EnExt
    BY DEF EnSem, EnExt
  <2> QED BY <1>1, <2>1, BajoMutex
<1>3. x \in Proceso /\ h # Nulo
  BY <1>2, HilosAssumption, NuloAssumption
<1>4. running_thread[p] # Nulo
  BY <1>1, EnHechos
<1> HIDE DEF h, x
<1>5. /\ running_thread'[x] = h /\ \A q \in Proceso \ {x} : running_thread'[q] = running_thread[q]
      /\ estado'[h] = "RUNNING" /\ \A t \in Hilo \ {h} : estado'[t] = estado[t]
      /\ estado' \in [Hilo -> Estado]
      /\ running_thread' \in [Proceso -> Hilo \cup {Nulo}]
  BY <1>1, <1>2, <1>3, TiposHechos DEF Estado
<1>6. /\ pedido' \in [Proceso -> Seq(Pedido)] /\ respuesta' \in [Proceso -> Seq(Respuesta)]
      /\ \A q \in Proceso : ProtocoloC(q)'
      /\ \A q \in Proceso \ {p} : pedido'[q] = pedido[q]
  <2>1. x = padre[h]
    BY DEF x
  <2> QED BY <1>1, <1>2, <1>3, <2>1, ProtocoloExterno
<1>7. /\ sem_mutex'[s] = Nulo
      /\ sem_mutex' \in [Semaforo -> Proceso \cup {Nulo}]
      /\ \A r \in Semaforo \ {s} : sem_mutex'[r] = sem_mutex[r]
      /\ SoloExternos(p, "inicio", Nulo)
  BY <1>1, <1>2, SoltarHechos
<1>8. SoloSemaforo(p, s)
  BY <1>1, <1>2, <1>7, SemaforoQuieto
<1>9. Llega(p, s, "inicio", Nulo)
  BY <1>7, MutexAssumption DEF Llega, EnSem, EnExt
<1>10. TiposCompartidos'
  BY <1>1, <1>5, <1>6, <1>8, <1>7, TiposHechos DEF TiposCompartidos, SoloSemaforo, SoloExternos
<1>11. /\ TiposC' /\ pc'[p] = "inicio" /\ hilo'[p] = Nulo
       /\ \A q \in Proceso \ {p} : pc'[q] = pc[q] /\ hilo'[q] = hilo[q]
  <2>1. "inicio" \in Punto /\ Nulo \in Hilo \cup {Nulo} /\ 0 \in Int
    BY DEF Punto
  <2> QED BY <1>1, <1>10, <2>1, TiposPaso
<1>12. InvListasC'
  <2>1. \A q \in Proceso : running_thread'[q] # Nulo =>
          \/ running_thread'[q] = running_thread[q]
          \/ padre[running_thread'[q]] = q /\ Conocido(running_thread'[q])
    BY <1>2, <1>5 DEF x
  <2> QED BY <1>1, <2>1, ListasPaso
<1>13. InvPunto(p)'
  BY <1>1, <1>2, <1>9, <1>11, PuntoDeSemaforo
<1>14. RunningUnico'
  <2>1. \A t \in Hilo \ {h} : estado'[t] = "RUNNING" => padre[t] # x
    BY <1>2, <1>5, NuloAssumption DEF InvarianteC, RunningUnico
  <2> QED BY <1>5, <2>1, HilosAssumption DEF InvarianteC, RunningUnico, x
<1>15. /\ ColaSoloEnCero'
       /\ \A r \in Semaforo : sem_mutex'[r] \in {p, Nulo, sem_mutex[r]}
       /\ \A y \in Proceso :
            being_externally_scheduled'[y] \in {p, Nulo, being_externally_scheduled[y]}
       /\ \A r \in Semaforo : sem_mutex'[r] = p => pc'[p] \in EnSem /\ Arg(p)' = r
       /\ \A y \in Proceso : being_externally_scheduled'[y] = p =>
            pc'[p] \in EnExt /\ padre[hilo'[p]] = y
       /\ \A r \in Semaforo : sem_mutex[r] \in Proceso \ {p} =>
            sem_mutex'[r] = sem_mutex[r] /\ current_value'[r] = current_value[r] /\ cola'[r] = cola[r]
  BY <1>1, <1>2, <1>7, <1>8, <1>9, <1>11, MutexDeSemaforo
<1>16. DejaQuietos(p)
  <2>1. \A y \in Proceso : being_externally_scheduled[y] \in Proceso \ {p} =>
          /\ being_externally_scheduled'[y] = being_externally_scheduled[y]
          /\ running_thread[y] = Nulo => running_thread'[y] = Nulo
    BY <1>2, <1>5, <1>7 DEF SoloExternos
  <2>2. \A q \in Proceso : running_thread[q] # Nulo => running_thread'[q] = running_thread[q]
    BY <1>2, <1>5
  <2>3. \A t \in Hilo : padre[t] # p /\ estado'[t] = "RUNNING" =>
          estado[t] = "RUNNING" \/ running_thread[padre[t]] = Nulo
    BY <1>2, <1>5 DEF x
  <2> QED BY <1>6, <1>11, <1>15, <2>1, <2>2, <2>3 DEF DejaQuietos
<1> QED BY <1>1, <1>6, <1>11, <1>12, <1>13, <1>14, <1>15, <1>16, PasoConMutex

LEMMA PasoSignalC ==
  ASSUME InvarianteC, NEW p \in Proceso, Signal(p)
  PROVE  InvarianteC'
<1>1. /\ threads_bloqueados' = threads_bloqueados /\ g_new_threads' = g_new_threads
      /\ g_exit_threads' = g_exit_threads /\ g_multiprog_max' = g_multiprog_max
  BY DEF Signal
<1>2. PICK s :
        \/ SignalMirarMaximo(p, s) \/ SignalSacar(p, s) \/ SignalSumar(p, s)
        \/ SignalMirarRunning(p, s) \/ SignalTomarExterno(p, s) \/ SignalEjecutar(p, s)
        \/ SignalQuitar(p, s) \/ SignalAReady(p, s) \/ SignalEstado(p, s)
  BY DEF Signal
<1>3. CASE SignalMirarMaximo(p, s)
  BY <1>1, <1>3, PasoSignalMirarMaximo
<1>4. CASE SignalSacar(p, s)
  BY <1>1, <1>4, PasoSignalSacar
<1>5. CASE SignalSumar(p, s)
  BY <1>1, <1>5, PasoSignalSumar
<1>6. CASE SignalMirarRunning(p, s)
  BY <1>1, <1>6, PasoSignalMirarRunning
<1>7. CASE SignalTomarExterno(p, s)
  BY <1>1, <1>7, PasoSignalTomarExterno
<1>8. CASE SignalEjecutar(p, s)
  BY <1>1, <1>8, PasoSignalEjecutar
<1>9. CASE SignalQuitar(p, s) \/ SignalAReady(p, s)
  BY <1>1, <1>9, PasoSignalQuitar
<1>10. CASE SignalEstado(p, s)
  BY <1>1, <1>10, PasoSignalEstado
<1> QED BY <1>2, <1>3, <1>4, <1>5, <1>6, <1>7, <1>8, <1>9, <1>10

-------------------------------------------------------------------------------
(* Steps of the client *)

(* It is enough to look at the process that took the step, and the packet    *)
(* that the server serves stays the first of those it sent.                  *)
LEMMA PasoDeClienteC ==
  ASSUME InvarianteC, NEW p \in Proceso, UNCHANGED servidor, UNCHANGED <<locales, mutexes, caido>>,
         CambiaSolo(p), ConexionTipo', HilolayTipo', ProtocoloC(p)',
         pedido[p] # <<>> => Head(pedido'[p]) = Head(pedido[p])
  PROVE  InvarianteC'
<1>1. /\ etapa' = etapa /\ estado' = estado /\ threads_bloqueados' = threads_bloqueados
      /\ running_thread' = running_thread /\ ready' = ready /\ g_new_threads' = g_new_threads
      /\ cola' = cola /\ current_value' = current_value /\ g_multiprog_max' = g_multiprog_max
      /\ pc' = pc /\ hilo' = hilo /\ leido' = leido /\ caido' = caido
      /\ sem_mutex' = sem_mutex /\ being_externally_scheduled' = being_externally_scheduled
  BY DEF servidor, listas, semaforos, locales, mutexes
<1>2. TiposC'
  BY <1>1 DEF InvarianteC, TiposC, TypeOKC
<1>3. \A h : Conocido(h) => Conocido(h)'
  <2>1. \A q \in Proceso : ults[q] \subseteq ults'[q]
    BY DEF CambiaSolo
  <2> QED BY <1>1, <2>1, ConocidoSigue
<1>4. \A q \in Proceso : ProtocoloC(q)'
  <2>1. ASSUME NEW q \in Proceso \ {p} PROVE ProtocoloC(q)'
    <3>1. ProtocoloC(q)
      BY HechosC DEF ProtocoloC
    <3>2. pc'[q] # "inicio" => etapa[q] = "bucle" /\ pedido[q] # <<>>
      BY <1>1, <3>1 DEF ProtocoloC, InvEtapaC
    <3>3. /\ pedido'[q] = pedido[q] /\ respuesta'[q] = respuesta[q]
          /\ fase'[q] = fase[q] /\ ults'[q] = ults[q]
          /\ (q \in abierto') <=> (q \in abierto)
      BY DEF CambiaSolo
    <3> QED BY <1>1, <3>1, <3>2, <3>3, MarcoProtocoloC
  <2> QED BY <2>1
<1>5. InvListasC'
  BY <1>1, <1>3 DEF InvarianteC, InvListasC, Elementos
<1>6. pc[p] # "inicio" => Arg(p)' = Arg(p)
  BY HechosC DEF InvEtapaC, Arg
<1>7. InvPunto(p)'
  <2>1. InvPunto(p)
    BY HechosC
  <2>2. pc[p] \in EnExt \cup {"close_a_ready", "signal_running", "signal_ext"} => Conocido(hilo[p])'
    <3>1. Conocido(hilo[p]) => Conocido(hilo[p])'
      BY <1>1, <1>3 DEF Conocido
    <3> QED BY <2>1, <3>1 DEF InvPunto
  <2> QED BY <1>1, <1>6, <2>1, <2>2 DEF InvPunto, EnSem, EnExt, SinRunning
<1>8. DejaQuietos(p)
  BY <1>1 DEF DejaQuietos, CambiaSolo
<1>9. \A q \in Proceso : InvPunto(q)'
  BY <1>3, <1>7, <1>8, PuntosDeOtros
<1>10. MutexEnUso'
  <2>1. /\ \A s \in Semaforo : sem_mutex[s] = p => pc[p] \in EnSem /\ Arg(p)' = s
        /\ \A x \in Proceso : being_externally_scheduled[x] = p => pc[p] \in EnExt /\ padre[hilo[p]] = x
    BY <1>6, MutexAssumption DEF InvarianteC, MutexEnUso, EnSem, EnExt
  <2>2. TypeOKC'
    BY <1>2 DEF TiposC
  <2> QED BY <1>1, <1>8, <2>1, <2>2, MutexTrasPaso
<1>11. ColaSoloEnCero' /\ RunningUnico'
  BY <1>1 DEF InvarianteC, ColaSoloEnCero, RunningUnico
<1> QED BY <1>2, <1>4, <1>5, <1>9, <1>10, <1>11 DEF InvarianteC, ProtocoloC

(* The request a running program sends is the last of those it buffered.     *)
LEMMA InvPedidoEnvioC ==
  ASSUME InvarianteC, NEW p \in Proceso,
         NEW op \in OpConRespuesta \cup {"HANDSHAKE", "SUSE_CREATE"},
         NEW arg \in Hilo \cup Nombre \cup {Nulo}, enviarPedido(p, op, arg),
         \A i \in DOMAIN pedido[p] : Pide(p, i, "SUSE_CREATE"),
         ults[p] \subseteq ults'[p],
         op = "SUSE_CREATE" => padre[arg] = p /\ arg \in ults'[p]
  PROVE  InvPedidoC(p)'
<1>1. ConexionTipo /\ InvPedidoC(p)
  BY DEF InvarianteC, TiposC
<1>2. /\ Len(pedido[p]) \in Nat /\ Len(pedido'[p]) = Len(pedido[p]) + 1
      /\ DOMAIN pedido[p] = 1 .. Len(pedido[p])
      /\ DOMAIN pedido'[p] = 1 .. Len(pedido[p]) + 1
      /\ \A i \in 1 .. Len(pedido[p]) : pedido'[p][i] = pedido[p][i]
      /\ pedido'[p][Len(pedido[p]) + 1] = [op |-> op, arg |-> arg]
  BY <1>1, EnvioC
<1> QED BY <1>1, <1>2 DEF InvPedidoC, Pide

LEMMA PasoInitC ==
  ASSUME InvarianteC, NEW p \in Proceso, hilolay_init(p), UNCHANGED servidor,
         UNCHANGED <<locales, mutexes, caido>>
  PROVE  InvarianteC'
<1>1. /\ enviarPedido(p, "HANDSHAKE", Nulo) /\ fase[p] = "sin_conectar"
      /\ fase' = [fase EXCEPT ![p] = "HANDSHAKE"] /\ abierto' = abierto \cup {p}
      /\ respuesta' = respuesta /\ ults' = ults /\ current_ult' = current_ult
  BY DEF hilolay_init, EsperarRespuesta
<1>2. /\ pedido[p] = <<>> /\ Len(pedido[p]) = 0 /\ DOMAIN pedido[p] = {}
      /\ etapa[p] = "handshake" /\ respuesta[p] = <<>> /\ ults[p] = {}
      /\ running_thread[p] = Nulo /\ pc[p] = "inicio"
  BY <1>1, HechosC DEF InvFaseC, InvEtapaC
<1>3. /\ ConexionTipo /\ HilolayTipo
  BY DEF InvarianteC, TiposC
<1>4. /\ pedido' \in [Proceso -> Seq(Pedido)]
      /\ \A q \in Proceso \ {p} : pedido'[q] = pedido[q]
      /\ pedido'[p] # <<>> /\ Len(pedido'[p]) = 1
      /\ pedido'[p][1] = [op |-> "HANDSHAKE", arg |-> Nulo]
  BY <1>1, <1>2, <1>3, PrimerEnvioC
<1>5. ConexionTipo' /\ HilolayTipo' /\ CambiaSolo(p) /\ fase'[p] = "HANDSHAKE"
  <2>1. "HANDSHAKE" \in Fase
    BY DEF Fase
  <2> QED BY <1>1, <1>3, <1>4, <2>1 DEF ConexionTipo, HilolayTipo, CambiaSolo
<1>6. InvPedidoC(p)'
  <2>1. "HANDSHAKE" # "SUSE_CREATE"
    OBVIOUS
  <2> QED BY <1>1, <1>2, <2>1, InvPedidoEnvioC
<1>7. /\ etapa' = etapa /\ running_thread' = running_thread /\ pc' = pc
  BY DEF servidor, listas, locales
<1>8. InvFaseC(p)' /\ InvEtapaC(p)'
  BY <1>1, <1>2, <1>4, <1>5, <1>7 DEF InvFaseC, InvEtapaC, Pide, OpConRespuesta
<1> QED BY <1>2, <1>5, <1>6, <1>8, PasoDeClienteC DEF ProtocoloC

LEMMA PasoInitInternalC ==
  ASSUME InvarianteC, NEW p \in Proceso, init_internal(p), UNCHANGED servidor,
         UNCHANGED <<locales, mutexes, caido>>
  PROVE  InvarianteC'
<1>1. /\ enviarPedido(p, "SUSE_CREATE", principal[p]) /\ Recibir(p)
      /\ fase' = [fase EXCEPT ![p] = "corriendo"] /\ fase[p] = "HANDSHAKE"
      /\ ults' = [ults EXCEPT ![p] = {principal[p]}]
      /\ current_ult' = [current_ult EXCEPT ![p] = principal[p]]
  BY DEF init_internal
<1>2. ConexionTipo /\ HilolayTipo
  BY DEF InvarianteC, TiposC
<1>3. /\ respuesta' \in [Proceso -> Seq(Respuesta)] /\ respuesta[p] # <<>>
      /\ \A q \in Proceso \ {p} : respuesta'[q] = respuesta[q]
      /\ abierto' = abierto /\ (Len(respuesta[p]) = 1 => respuesta'[p] = <<>>)
  BY <1>1, <1>2, Lectura
<1>4. /\ pedido[p] = <<>> /\ Len(pedido[p]) = 0 /\ DOMAIN pedido[p] = {}
      /\ etapa[p] = "create_main" /\ respuesta'[p] = <<>> /\ p \in abierto /\ ults[p] = {}
      /\ principal[p] \in Hilo /\ padre[principal[p]] = p
      /\ running_thread[p] = Nulo /\ pc[p] = "inicio"
  BY <1>1, <1>3, HechosC DEF InvFaseC, InvEtapaC
<1>5. /\ pedido' \in [Proceso -> Seq(Pedido)]
      /\ \A q \in Proceso \ {p} : pedido'[q] = pedido[q]
      /\ pedido'[p] # <<>> /\ Len(pedido'[p]) = 1 /\ DOMAIN pedido'[p] = 1 .. 1
      /\ pedido'[p][1] = [op |-> "SUSE_CREATE", arg |-> principal[p]]
  BY <1>1, <1>2, <1>4, PrimerEnvioC
<1>6. /\ ConexionTipo' /\ HilolayTipo' /\ CambiaSolo(p)
      /\ fase'[p] = "corriendo" /\ ults'[p] = {principal[p]}
  <2>1. "corriendo" \in Fase
    BY DEF Fase
  <2> QED BY <1>1, <1>2, <1>3, <1>4, <1>5, <2>1 DEF ConexionTipo, HilolayTipo, CambiaSolo
<1>7. InvPedidoC(p)'
  BY <1>4, <1>5, <1>6 DEF InvPedidoC, Pide
<1>8. /\ etapa' = etapa /\ running_thread' = running_thread /\ pc' = pc
  BY DEF servidor, listas, locales
<1>9. InvFaseC(p)' /\ InvEtapaC(p)'
  BY <1>3, <1>4, <1>5, <1>6, <1>8 DEF InvFaseC, InvEtapaC, Pide, OpConRespuesta
<1> QED BY <1>4, <1>6, <1>7, <1>9, PasoDeClienteC DEF ProtocoloC

LEMMA PasoHilolayCreateC ==
  ASSUME InvarianteC, NEW p \in Proceso, NEW h \in Hilo, hilolay_create(p, h), UNCHANGED servidor,
         UNCHANGED <<locales, mutexes, caido>>
  PROVE  InvarianteC'
<1>1. /\ enviarPedido(p, "SUSE_CREATE", h) /\ fase[p] = "corriendo" /\ padre[h] = p
      /\ ults' = [ults EXCEPT ![p] = @ \cup {h}] /\ fase' = fase /\ current_ult' = current_ult
      /\ respuesta' = respuesta /\ abierto' = abierto
  BY DEF hilolay_create
<1>2. ConexionTipo /\ HilolayTipo /\ InvFaseC(p) /\ InvEtapaC(p)
  BY DEF InvarianteC, TiposC
<1>3. /\ pedido' \in [Proceso -> Seq(Pedido)]
      /\ \A q \in Proceso \ {p} : pedido'[q] = pedido[q]
      /\ pedido'[p] # <<>> /\ (pedido[p] # <<>> => Head(pedido'[p]) = Head(pedido[p]))
      /\ DOMAIN pedido[p] = 1 .. Len(pedido[p]) /\ Len(pedido[p]) \in Nat
      /\ DOMAIN pedido'[p] = 1 .. Len(pedido[p]) + 1
      /\ \A i \in 1 .. Len(pedido[p]) : pedido'[p][i] = pedido[p][i]
      /\ pedido'[p][Len(pedido[p]) + 1] = [op |-> "SUSE_CREATE", arg |-> h]
  BY <1>1, <1>2, EnvioC
<1>4. /\ ConexionTipo' /\ HilolayTipo' /\ CambiaSolo(p) /\ ults'[p] = ults[p] \cup {h}
  BY <1>1, <1>2, <1>3 DEF ConexionTipo, HilolayTipo, CambiaSolo
<1>5. \A i \in DOMAIN pedido[p] : Pide(p, i, "SUSE_CREATE")
  BY <1>1, <1>2 DEF InvFaseC
<1>6. InvPedidoC(p)'
  BY <1>1, <1>4, <1>5, InvPedidoEnvioC
<1>7. etapa' = etapa /\ running_thread' = running_thread /\ pc' = pc
  BY DEF servidor, listas, locales
<1>8. InvFaseC(p)'
  <2>1. \A i \in DOMAIN pedido'[p] : Pide(p, i, "SUSE_CREATE")'
    <3>1. \A i \in DOMAIN pedido'[p] : i \in 1 .. Len(pedido[p]) \/ i = Len(pedido[p]) + 1
      BY <1>3
    <3>2. pedido'[p][Len(pedido[p]) + 1].op = "SUSE_CREATE"
      BY <1>3
    <3>3. \A i \in 1 .. Len(pedido[p]) : pedido'[p][i].op = "SUSE_CREATE"
      BY <1>3, <1>5 DEF Pide
    <3> QED BY <3>1, <3>2, <3>3 DEF Pide
  <2> QED BY <1>1, <1>2, <1>7, <2>1 DEF InvFaseC, OpConRespuesta
<1>9. InvEtapaC(p)'
  BY <1>1, <1>2, <1>3, <1>7 DEF InvEtapaC, InvFaseC
<1> QED BY <1>3, <1>4, <1>6, <1>8, <1>9, PasoDeClienteC DEF ProtocoloC

LEMMA PasoLlamarC ==
  ASSUME InvarianteC, NEW p \in Proceso, NEW op \in OpConRespuesta,
         NEW arg \in Hilo \cup Nombre \cup {Nulo}, Llamar(p, op, arg), UNCHANGED servidor,
         UNCHANGED <<locales, mutexes, caido>>
  PROVE  InvarianteC'
<1>1. /\ enviarPedido(p, op, arg) /\ fase[p] = "corriendo"
      /\ fase' = [fase EXCEPT ![p] = op]
      /\ respuesta' = respuesta /\ abierto' = abierto /\ ults' = ults /\ current_ult' = current_ult
  BY DEF Llamar, EsperarRespuesta
<1>2. ConexionTipo /\ HilolayTipo /\ InvFaseC(p) /\ InvEtapaC(p)
  BY DEF InvarianteC, TiposC
<1>3. /\ pedido' \in [Proceso -> Seq(Pedido)]
      /\ \A q \in Proceso \ {p} : pedido'[q] = pedido[q]
      /\ pedido'[p] # <<>> /\ (pedido[p] # <<>> => Head(pedido'[p]) = Head(pedido[p]))
      /\ Len(pedido'[p]) = Len(pedido[p]) + 1
      /\ pedido'[p][Len(pedido[p]) + 1] = [op |-> op, arg |-> arg]
  BY <1>1, <1>2, EnvioC
<1>4. /\ ConexionTipo' /\ HilolayTipo' /\ CambiaSolo(p) /\ fase'[p] = op
      /\ op # "SUSE_CREATE" /\ op \notin {"sin_conectar", "HANDSHAKE", "corriendo", "terminado"}
  BY <1>1, <1>2, <1>3 DEF ConexionTipo, HilolayTipo, CambiaSolo, Fase, OpConRespuesta
<1>5. InvPedidoC(p)'
  <2>1. \A i \in DOMAIN pedido[p] : Pide(p, i, "SUSE_CREATE")
    BY <1>1, <1>2 DEF InvFaseC
  <2> QED BY <1>1, <1>4, <2>1, InvPedidoEnvioC
<1>6. etapa' = etapa /\ running_thread' = running_thread /\ pc' = pc
  BY DEF servidor, listas, locales
<1>7. InvFaseC(p)'
  <2>1. Pendiente(p)'
    BY <1>1, <1>2, <1>3, <1>4 DEF Pendiente, Pide, InvFaseC
  <2> QED BY <1>1, <1>2, <1>4, <2>1 DEF InvFaseC
<1>8. InvEtapaC(p)'
  BY <1>1, <1>2, <1>3, <1>4, <1>6 DEF InvEtapaC, InvFaseC
<1> QED BY <1>3, <1>4, <1>5, <1>7, <1>8, PasoDeClienteC DEF ProtocoloC

LEMMA PasoRecibirYCederC ==
  ASSUME InvarianteC, NEW p \in Proceso, RecibirYCeder(p), UNCHANGED servidor,
         UNCHANGED <<locales, mutexes, caido>>
  PROVE  InvarianteC'
<1>1. /\ enviarPedido(p, "SUSE_SCHEDULE_NEXT", Nulo) /\ Recibir(p)
      /\ fase[p] \in OpConRespuesta /\ fase[p] # "SUSE_SCHEDULE_NEXT"
      /\ fase' = [fase EXCEPT ![p] = "SUSE_SCHEDULE_NEXT"]
      /\ ults' = ults /\ current_ult' = current_ult
  BY DEF RecibirYCeder, EsperarRespuesta
<1>2. ConexionTipo /\ HilolayTipo /\ InvFaseC(p) /\ InvEtapaC(p)
  BY DEF InvarianteC, TiposC
<1>3. /\ respuesta' \in [Proceso -> Seq(Respuesta)] /\ respuesta[p] # <<>>
      /\ \A q \in Proceso \ {p} : respuesta'[q] = respuesta[q]
      /\ abierto' = abierto /\ (Len(respuesta[p]) = 1 => respuesta'[p] = <<>>)
  BY <1>1, <1>2, Lectura
<1>4. RespondidoC(p)
  BY <1>1, <1>2, <1>3 DEF InvFaseC, Pendiente, SinNadaQueEjecutar
<1>5. /\ pedido[p] = <<>> /\ Len(pedido[p]) = 0 /\ DOMAIN pedido[p] = {}
      /\ respuesta'[p] = <<>> /\ etapa[p] = "bucle" /\ running_thread[p] # Nulo
  BY <1>3, <1>4, HechosC DEF RespondidoC
<1>6. /\ pedido' \in [Proceso -> Seq(Pedido)]
      /\ \A q \in Proceso \ {p} : pedido'[q] = pedido[q]
      /\ pedido'[p] # <<>> /\ Len(pedido'[p]) = 1
      /\ pedido'[p][1] = [op |-> "SUSE_SCHEDULE_NEXT", arg |-> Nulo]
  <2>1. "SUSE_SCHEDULE_NEXT" \in OpConRespuesta
    BY DEF OpConRespuesta
  <2> QED BY <1>1, <1>2, <1>5, <2>1, PrimerEnvioC
<1>7. ConexionTipo' /\ HilolayTipo' /\ CambiaSolo(p) /\ fase'[p] = "SUSE_SCHEDULE_NEXT"
  BY <1>1, <1>2, <1>3, <1>6 DEF ConexionTipo, HilolayTipo, CambiaSolo, Fase, OpConRespuesta
<1>8. InvPedidoC(p)'
  <2>1. "SUSE_SCHEDULE_NEXT" \in OpConRespuesta /\ "SUSE_SCHEDULE_NEXT" # "SUSE_CREATE"
    BY DEF OpConRespuesta
  <2> QED BY <1>1, <1>5, <2>1, InvPedidoEnvioC
<1>9. etapa' = etapa /\ running_thread' = running_thread /\ pc' = pc
  BY DEF servidor, listas, locales
<1>10. InvFaseC(p)'
  <2>1. Pendiente(p)'
    BY <1>5, <1>6, <1>7 DEF Pendiente, Pide
  <2>2. p \in abierto'
    BY <1>1, <1>2, <1>3 DEF InvFaseC, OpConRespuesta
  <2> QED BY <1>7, <2>1, <2>2 DEF InvFaseC
<1>11. InvEtapaC(p)'
  BY <1>2, <1>5, <1>6, <1>7, <1>9 DEF InvEtapaC
<1> QED BY <1>5, <1>7, <1>8, <1>10, <1>11, PasoDeClienteC DEF ProtocoloC

LEMMA PasoSwapContextC ==
  ASSUME InvarianteC, NEW p \in Proceso, swap_context(p), UNCHANGED servidor,
         UNCHANGED <<locales, mutexes, caido>>
  PROVE  InvarianteC'
<1>1. /\ Recibir(p) /\ fase[p] = "SUSE_SCHEDULE_NEXT"
      /\ current_ult' = [current_ult EXCEPT ![p] = get_next_tid(p)]
      /\ fase' = [fase EXCEPT ![p] = "corriendo"]
      /\ pedido' = pedido /\ ults' = ults
  BY DEF swap_context
<1>2. ConexionTipo /\ HilolayTipo /\ InvFaseC(p) /\ InvEtapaC(p)
  BY DEF InvarianteC, TiposC
<1>3. /\ respuesta' \in [Proceso -> Seq(Respuesta)] /\ respuesta[p] # <<>>
      /\ \A q \in Proceso \ {p} : respuesta'[q] = respuesta[q]
      /\ abierto' = abierto /\ (Len(respuesta[p]) = 1 => respuesta'[p] = <<>>)
  BY <1>1, <1>2, Lectura
<1>4. RespondidoC(p)
  BY <1>1, <1>2, <1>3 DEF InvFaseC, Pendiente, SinNadaQueEjecutar, OpConRespuesta
<1>5. /\ pedido[p] = <<>> /\ DOMAIN pedido[p] = {}
      /\ respuesta'[p] = <<>> /\ etapa[p] = "bucle" /\ running_thread[p] # Nulo
  BY <1>3, <1>4, HechosC DEF RespondidoC
<1>6. get_next_tid(p) \in Hilo \cup {Nulo}
  BY <1>2 DEF get_next_tid, HilolayTipo
<1>7. ConexionTipo' /\ HilolayTipo' /\ CambiaSolo(p) /\ fase'[p] = "corriendo"
  BY <1>1, <1>2, <1>3, <1>6 DEF ConexionTipo, HilolayTipo, CambiaSolo, Fase
<1>8. InvPedidoC(p)'
  BY <1>1, <1>5 DEF InvPedidoC
<1>9. etapa' = etapa /\ running_thread' = running_thread /\ pc' = pc
  BY DEF servidor, listas, locales
<1>10. InvFaseC(p)'
  <2>1. p \in abierto'
    BY <1>1, <1>2, <1>3 DEF InvFaseC
  <2> QED BY <1>1, <1>5, <1>7, <1>9, <2>1 DEF InvFaseC, OpConRespuesta
<1>11. InvEtapaC(p)'
  BY <1>1, <1>2, <1>5, <1>7, <1>9 DEF InvEtapaC
<1> QED BY <1>1, <1>7, <1>8, <1>10, <1>11, PasoDeClienteC DEF ProtocoloC

(* The end of a process, by hilolay_return or by a kill.                     *)
LEMMA PasoTerminarC ==
  ASSUME InvarianteC, NEW p \in Proceso, CerrarExtremo(p), UNCHANGED servidor,
         UNCHANGED <<locales, mutexes, caido>>,
         fase[p] \in {"corriendo"} \cup OpConRespuesta,
         fase' = [fase EXCEPT ![p] = "terminado"],
         UNCHANGED <<pedido, ults, current_ult>>
  PROVE  InvarianteC'
<1>1. /\ abierto' = abierto \ {p} /\ respuesta' = [respuesta EXCEPT ![p] = <<>>]
  BY DEF CerrarExtremo
<1>2. ConexionTipo /\ HilolayTipo /\ InvPedidoC(p) /\ InvFaseC(p) /\ InvEtapaC(p)
  BY DEF InvarianteC, TiposC
<1>3. /\ ConexionTipo' /\ HilolayTipo' /\ CambiaSolo(p)
      /\ fase'[p] = "terminado" /\ respuesta'[p] = <<>> /\ p \notin abierto'
  BY <1>1, <1>2, EmptySeq DEF ConexionTipo, HilolayTipo, CambiaSolo, Fase
<1>4. /\ etapa' = etapa /\ running_thread' = running_thread /\ pc' = pc
      /\ fase[p] \notin {"sin_conectar", "HANDSHAKE"}
  BY DEF servidor, listas, locales, OpConRespuesta
<1>5. InvPedidoC(p)'
  BY <1>2 DEF InvPedidoC, Pide
<1>6. InvFaseC(p)'
  BY <1>3 DEF InvFaseC, OpConRespuesta
<1>7. InvEtapaC(p)'
  BY <1>2, <1>3, <1>4 DEF InvEtapaC
<1> QED BY <1>3, <1>5, <1>6, <1>7, PasoDeClienteC DEF ProtocoloC

LEMMA PasoClienteC ==
  ASSUME InvarianteC, NEW p \in Proceso, ClienteC(p)
  PROVE  InvarianteC'
<1>1. UNCHANGED servidor /\ UNCHANGED <<locales, mutexes, caido>> /\ (Programa(p) \/ Biblioteca(p))
  BY DEF ClienteC, Cliente
<1>2. OpConRespuesta = {"SUSE_CLOSE", "SUSE_JOIN", "SUSE_SCHEDULE_NEXT", "SUSE_SIGNAL", "SUSE_WAIT"}
  BY DEF OpConRespuesta
<1>3. CASE hilolay_init(p)
  BY <1>1, <1>3, PasoInitC
<1>4. ASSUME NEW h \in Hilo, hilolay_create(p, h) PROVE InvarianteC'
  BY <1>1, <1>4, PasoHilolayCreateC
<1>5. ASSUME NEW h \in Hilo, hilolay_join(p, h) PROVE InvarianteC'
  BY <1>1, <1>2, <1>5, PasoLlamarC DEF hilolay_join
<1>6. ASSUME NEW s \in Nombre, hilolay_wait(p, s) \/ hilolay_signal(p, s) PROVE InvarianteC'
  BY <1>1, <1>2, <1>6, PasoLlamarC DEF hilolay_wait, hilolay_signal
<1>7. CASE hilolay_yield(p)
  BY <1>1, <1>2, <1>7, PasoLlamarC DEF hilolay_yield
<1>8. CASE TerminarUlt(p)
  <2>1. current_ult[p] \in Hilo \cup Nombre \cup {Nulo}
    BY DEF InvarianteC, TiposC, HilolayTipo
  <2> QED BY <1>1, <1>2, <1>8, <2>1, PasoLlamarC DEF TerminarUlt
<1>9. CASE Morir(p)
  BY <1>1, <1>9, PasoTerminarC DEF Morir
<1>10. CASE hilolay_return(p)
  BY <1>1, <1>2, <1>10, PasoTerminarC DEF hilolay_return
<1>11. CASE init_internal(p)
  BY <1>1, <1>11, PasoInitInternalC
<1>12. CASE RecibirYCeder(p)
  BY <1>1, <1>12, PasoRecibirYCederC
<1>13. CASE swap_context(p)
  BY <1>1, <1>13, PasoSwapContextC
<1> QED BY <1>1, <1>3, <1>4, <1>5, <1>6, <1>7, <1>8, <1>9, <1>10, <1>11, <1>12, <1>13
        DEF Programa, Biblioteca

-------------------------------------------------------------------------------
(* The steps of atenderConexion that are not a handler *)

(* They change nothing that the handlers of other connections look at.       *)
LEMMA PasoDeConexion ==
  ASSUME InvarianteC, NEW p \in Proceso, pc[p] = "inicio",
         UNCHANGED <<hilolay, locales, mutexes, caido>>,
         UNCHANGED <<abierto, threads_bloqueados, ready, g_new_threads, semaforos, g_multiprog_max>>,
         ConexionTipo', etapa' \in [Proceso -> Etapa], estado' \in [Hilo -> Estado],
         running_thread' \in [Proceso -> Hilo \cup {Nulo}],
         \A q \in Proceso \ {p} :
           /\ pedido'[q] = pedido[q] /\ respuesta'[q] = respuesta[q]
           /\ etapa'[q] = etapa[q] /\ running_thread'[q] = running_thread[q],
         \A q \in Proceso : etapa[q] \in {"bucle", "cerrada"} => etapa'[q] \in {"bucle", "cerrada"},
         etapa[p] \in {"bucle", "cerrada"} => running_thread'[p] = running_thread[p],
         NEW r, running_thread'[p] = r, r # Nulo => r \in Hilo /\ padre[r] = p /\ Conocido(r)',
         \A h \in Hilo : padre[h] # p => estado'[h] = estado[h],
         ProtocoloC(p)', RunningUnico'
  PROVE  InvarianteC'
<1>1. /\ abierto' = abierto /\ threads_bloqueados' = threads_bloqueados /\ ready' = ready
      /\ g_new_threads' = g_new_threads /\ cola' = cola /\ current_value' = current_value
      /\ g_multiprog_max' = g_multiprog_max
      /\ fase' = fase /\ ults' = ults /\ current_ult' = current_ult
      /\ pc' = pc /\ hilo' = hilo /\ leido' = leido /\ caido' = caido
      /\ sem_mutex' = sem_mutex /\ being_externally_scheduled' = being_externally_scheduled
  BY DEF semaforos, hilolay, locales, mutexes
<1>2. TiposC'
  <2>1. HilolayTipo' /\ TypeOKC'
    BY <1>1 DEF InvarianteC, TiposC, TypeOKC, HilolayTipo
  <2> QED BY <1>1, <2>1, TiposHechos DEF TiposC
<1>3. \A h : Conocido(h) => Conocido(h)'
  BY <1>1, ConocidoSigue
<1>4. \A q \in Proceso : ProtocoloC(q)'
  <2>1. ASSUME NEW q \in Proceso \ {p} PROVE ProtocoloC(q)'
    <3>1. ProtocoloC(q)
      BY HechosC DEF ProtocoloC
    <3>2. pc'[q] # "inicio" => etapa[q] = "bucle" /\ pedido[q] # <<>>
      BY <1>1, <3>1 DEF ProtocoloC, InvEtapaC
    <3> QED BY <1>1, <3>1, <3>2, MarcoProtocoloC
  <2> QED BY <2>1
<1>5. InvListasC'
  <2>1. InvListasC
    BY DEF InvarianteC
  <2>2. \A q \in Proceso : running_thread'[q] # Nulo =>
          padre[running_thread'[q]] = q /\ Conocido(running_thread[q])'
    <3>1. ASSUME NEW q \in Proceso \ {p}, running_thread'[q] # Nulo
          PROVE  padre[running_thread'[q]] = q /\ Conocido(running_thread[q])'
      <4>1. running_thread'[q] = running_thread[q]
        OBVIOUS
      <4>2. padre[running_thread[q]] = q /\ Conocido(running_thread[q])
        BY <2>1, <3>1, <4>1 DEF InvListasC
      <4>3. Conocido(running_thread[q]) => Conocido(running_thread[q])'
        <5>1. \A h \in Hilo : Conocido(h) => Conocido(h)'
          BY <1>3
        <5>2. running_thread[q] \in Hilo
          BY <4>2 DEF Conocido
        <5> QED BY <4>1, <5>1, <5>2 DEF Conocido
      <4> QED BY <4>1, <4>2, <4>3
    <3>2. running_thread'[p] # Nulo => padre[running_thread'[p]] = p /\ Conocido(running_thread[p])'
      BY DEF Conocido
    <3> QED BY <3>1, <3>2
  <2> QED BY <1>1, <1>3, <2>1, <2>2 DEF InvListasC, Elementos
<1>6. InvPunto(p)'
  BY <1>1 DEF InvPunto, EnSem, EnExt
<1>7. DejaQuietos(p)
  <2>1. \A x \in Proceso : being_externally_scheduled[x] \in Proceso \ {p} =>
          running_thread'[x] = running_thread[x]
    <3>1. ASSUME NEW x \in Proceso, NEW q \in Proceso, being_externally_scheduled[x] = q
          PROVE  etapa[x] \in {"bucle", "cerrada"}
      <4>1. pc[q] \in EnExt /\ padre[hilo[q]] = x
        BY <3>1, MutexAssumption DEF InvarianteC, MutexEnUso
      <4>2. Conocido(hilo[q])
        BY <4>1, HechosC DEF InvPunto
      <4> QED BY <4>1, <4>2 DEF Conocido
    <3> QED BY <3>1
  <2> QED BY <1>1, <2>1 DEF DejaQuietos
<1>8. \A q \in Proceso : InvPunto(q)'
  BY <1>3, <1>6, <1>7, PuntosDeOtros
<1>9. MutexEnUso'
  <2>1. /\ \A s \in Semaforo : sem_mutex[s] # p
        /\ \A x \in Proceso : being_externally_scheduled[x] # p
    BY MutexAssumption DEF InvarianteC, MutexEnUso, EnSem, EnExt
  <2>2. TypeOKC'
    BY <1>2 DEF TiposC
  <2> QED BY <1>1, <1>7, <2>1, <2>2, MutexTrasPaso
<1>10. ColaSoloEnCero'
  BY <1>1 DEF InvarianteC, ColaSoloEnCero
<1> QED BY <1>2, <1>4, <1>5, <1>8, <1>9, <1>10 DEF InvarianteC, ProtocoloC

LEMMA PasoEnviarMultiProgC ==
  ASSUME InvarianteC, NEW p \in Proceso, pc[p] = "inicio", enviarMultiProg(p),
         UNCHANGED <<hilolay, locales, mutexes, caido>>
  PROVE  InvarianteC'
<1>1. /\ etapa[p] = "handshake" /\ Recibido(p, "HANDSHAKE", Nulo) /\ ConsumirPedido(p)
      /\ respuesta' = enviarPaquetes(respuesta, p, "SUSE_GRADO_MULTIPROG", g_multiprog_max)
      /\ etapa' = [etapa EXCEPT ![p] = "create_main"]
      /\ abierto' = abierto /\ UNCHANGED semaforos /\ g_multiprog_max' = g_multiprog_max
      /\ estado' = estado /\ threads_bloqueados' = threads_bloqueados /\ ready' = ready
      /\ running_thread' = running_thread /\ g_new_threads' = g_new_threads
  BY DEF enviarMultiProg, Responder, listas
<1>2. /\ ConexionTipo /\ etapa \in [Proceso -> Etapa] /\ InvFaseC(p) /\ InvEtapaC(p)
  BY DEF InvarianteC, TiposC
<1>3. /\ pedido' \in [Proceso -> Seq(Pedido)] /\ pedido[p] # <<>>
      /\ \A q \in Proceso \ {p} : pedido'[q] = pedido[q]
      /\ pedido'[p] = <<>> <=> Len(pedido[p]) = 1
      /\ DOMAIN pedido'[p] = 1 .. Len(pedido[p]) - 1
  BY <1>1, <1>2, ConsumoC
(* The process waits for the degree of multiprogramming: it has sent nothing *)
(* but the handshake.                                                        *)
<1>4. /\ fase[p] = "HANDSHAKE" /\ Len(pedido[p]) = 1 /\ respuesta[p] = <<>>
      /\ p \in abierto /\ ults[p] = {} /\ running_thread[p] = Nulo
  BY <1>1, <1>2, <1>3 DEF InvFaseC, InvEtapaC
<1>5. pedido'[p] = <<>> /\ DOMAIN pedido'[p] = {}
  BY <1>3, <1>4
<1>6. /\ respuesta' \in [Proceso -> Seq(Respuesta)]
      /\ \A q \in Proceso \ {p} : respuesta'[q] = respuesta[q]
      /\ Len(respuesta'[p]) = 1 /\ respuesta'[p][1].op = "SUSE_GRADO_MULTIPROG"
      /\ respuesta'[p] # <<>>
  <2>1. [op |-> "SUSE_GRADO_MULTIPROG", valor |-> g_multiprog_max] \in Respuesta
    BY TiposHechos DEF Respuesta
  <2>2. /\ respuesta' \in [Proceso -> Seq(Respuesta)]
        /\ \A q \in Proceso \ {p} : respuesta'[q] = respuesta[q]
        /\ Len(respuesta'[p]) = 1
        /\ respuesta'[p][1] = [op |-> "SUSE_GRADO_MULTIPROG", valor |-> g_multiprog_max]
    <3>1. respuesta \in [Proceso -> Seq(Respuesta)]
      BY TiposHechos
    <3> QED BY <1>1, <1>4, <2>1, <3>1, Entrega
  <2>3. respuesta'[p] # <<>>
    <3>1. Len(respuesta'[p]) # 0 /\ respuesta'[p] \in Seq(Respuesta)
      BY <2>2
    <3> QED BY <3>1, Vacia
  <2> QED BY <2>2, <2>3
<1>7. /\ etapa'[p] = "create_main" /\ etapa' \in [Proceso -> Etapa]
      /\ \A q \in Proceso \ {p} : etapa'[q] = etapa[q]
  BY <1>1, <1>2 DEF Etapa
<1>8. fase' = fase /\ ults' = ults /\ pc' = pc
  BY DEF hilolay, locales
<1>9. ConexionTipo'
  BY <1>1, <1>2, <1>3, <1>6 DEF ConexionTipo
<1>10. ProtocoloC(p)'
  <2>1. InvPedidoC(p)'
    BY <1>5 DEF InvPedidoC
  <2>2. InvFaseC(p)'
    BY <1>1, <1>4, <1>5, <1>6, <1>7, <1>8 DEF InvFaseC, OpConRespuesta
  <2>3. InvEtapaC(p)'
    BY <1>1, <1>4, <1>6, <1>7, <1>8 DEF InvEtapaC
  <2> QED BY <2>1, <2>2, <2>3 DEF ProtocoloC
<1>11. RunningUnico'
  BY <1>1 DEF InvarianteC, RunningUnico
<1>12. /\ running_thread' \in [Proceso -> Hilo \cup {Nulo}] /\ estado' \in [Hilo -> Estado]
  BY <1>1, TiposHechos
<1> QED BY <1>1, <1>3, <1>4, <1>6, <1>7, <1>9, <1>10, <1>11, <1>12, PasoDeConexion

LEMMA PasoCreateMainC ==
  ASSUME InvarianteC, NEW p \in Proceso, pc[p] = "inicio", esperarPaqueteCreateMain(p),
         UNCHANGED <<hilolay, locales, mutexes, caido>>
  PROVE  InvarianteC'
<1>1. /\ etapa[p] = "create_main" /\ Recibido(p, "SUSE_CREATE", principal[p]) /\ ConsumirPedido(p)
      /\ etapa' = [etapa EXCEPT ![p] = "bucle"]
      /\ estado' = [estado EXCEPT ![principal[p]] = "RUNNING"]
      /\ running_thread' = [running_thread EXCEPT ![p] = principal[p]]
      /\ respuesta' = respuesta /\ abierto' = abierto
      /\ UNCHANGED semaforos /\ g_multiprog_max' = g_multiprog_max
      /\ threads_bloqueados' = threads_bloqueados /\ ready' = ready
      /\ g_new_threads' = g_new_threads
  BY DEF esperarPaqueteCreateMain
<1>2. /\ ConexionTipo /\ etapa \in [Proceso -> Etapa] /\ InvFaseC(p) /\ InvEtapaC(p)
      /\ principal[p] \in Hilo /\ padre[principal[p]] = p /\ principal[p] # Nulo
  BY HechosC, NuloAssumption DEF InvarianteC, TiposC
<1>3. fase' = fase /\ ults' = ults /\ pc' = pc
  BY DEF hilolay, locales
<1>4. /\ pedido' \in [Proceso -> Seq(Pedido)]
      /\ \A q \in Proceso \ {p} : pedido'[q] = pedido[q]
      /\ principal[p] \in ults[p] /\ InvPedidoC(p)'
      /\ (Pendiente(p) /\ fase[p] \in OpConRespuesta => Pendiente(p)')
      /\ (\A i \in DOMAIN pedido[p] : Pide(p, i, "SUSE_CREATE")) =>
           (\A i \in DOMAIN pedido'[p] : Pide(p, i, "SUSE_CREATE")')
  BY <1>1, <1>2, <1>3, ConsumoCreateC
<1>5. /\ fase[p] \notin {"sin_conectar", "HANDSHAKE"} /\ running_thread[p] = Nulo
      /\ fase[p] \in OpConRespuesta => Pendiente(p)
  <2>1. pedido[p] # <<>>
    BY <1>1 DEF Recibido
  <2> QED BY <1>1, <1>2, <2>1
          DEF InvFaseC, InvEtapaC, RespondidoC, SinNadaQueEjecutar
<1>6. /\ etapa'[p] = "bucle" /\ etapa' \in [Proceso -> Etapa]
      /\ \A q \in Proceso \ {p} : etapa'[q] = etapa[q]
  BY <1>1, <1>2 DEF Etapa
<1>7. /\ running_thread'[p] = principal[p]
      /\ \A q \in Proceso \ {p} : running_thread'[q] = running_thread[q]
      /\ running_thread' \in [Proceso -> Hilo \cup {Nulo}] /\ estado' \in [Hilo -> Estado]
      /\ \A h \in Hilo \ {principal[p]} : estado'[h] = estado[h]
  BY <1>1, <1>2, TiposHechos DEF Estado
<1>8. ConexionTipo'
  BY <1>1, <1>2, <1>4 DEF ConexionTipo
<1>9. ProtocoloC(p)'
  <2>1. InvFaseC(p)'
    BY <1>1, <1>2, <1>3, <1>4, <1>5, <1>6, <1>7 DEF InvFaseC
  <2>2. InvEtapaC(p)'
    BY <1>2, <1>3, <1>5, <1>6, <1>7 DEF InvEtapaC
  <2> QED BY <1>4, <2>1, <2>2 DEF ProtocoloC
<1>10. RunningUnico'
  <2>1. \A h \in Hilo : padre[h] = p => estado[h] # "RUNNING"
    BY <1>5, NuloAssumption DEF InvarianteC, RunningUnico
  <2> QED BY <1>2, <1>7, <2>1, HilosAssumption DEF InvarianteC, RunningUnico
<1>11. Conocido(principal[p])'
  BY <1>2, <1>3, <1>4, <1>6 DEF Conocido
<1>12. \A h \in Hilo : padre[h] # p => estado'[h] = estado[h]
  BY <1>2, <1>7
<1>13. /\ \A q \in Proceso \ {p} :
            /\ pedido'[q] = pedido[q] /\ respuesta'[q] = respuesta[q]
            /\ etapa'[q] = etapa[q] /\ running_thread'[q] = running_thread[q]
       /\ \A q \in Proceso : etapa[q] \in {"bucle", "cerrada"} => etapa'[q] \in {"bucle", "cerrada"}
       /\ etapa[p] \notin {"bucle", "cerrada"}
       /\ UNCHANGED <<abierto, threads_bloqueados, ready, g_new_threads, semaforos, g_multiprog_max>>
  BY <1>1, <1>4, <1>6, <1>7
<1> QED BY <1>2, <1>6, <1>7, <1>8, <1>9, <1>10, <1>11, <1>12, <1>13, PasoDeConexion

LEMMA PasoCerrarConexionC ==
  ASSUME InvarianteC, NEW p \in Proceso, pc[p] = "inicio", CerrarConexion(p),
         UNCHANGED <<hilolay, locales, mutexes, caido>>
  PROVE  InvarianteC'
<1>1. /\ etapa[p] = "bucle" /\ p \notin abierto /\ pedido[p] = <<>>
      /\ etapa' = [etapa EXCEPT ![p] = "cerrada"]
      /\ pedido' = pedido /\ respuesta' = respuesta /\ abierto' = abierto
      /\ UNCHANGED semaforos /\ g_multiprog_max' = g_multiprog_max
      /\ estado' = estado /\ threads_bloqueados' = threads_bloqueados /\ ready' = ready
      /\ running_thread' = running_thread /\ g_new_threads' = g_new_threads
  BY DEF CerrarConexion, FinDeConexion, conexion, listas
<1>2. /\ ConexionTipo /\ etapa \in [Proceso -> Etapa]
      /\ InvPedidoC(p) /\ InvFaseC(p) /\ InvEtapaC(p) /\ InvListasC /\ RunningUnico
  BY DEF InvarianteC, TiposC
<1>3. fase[p] = "terminado"
  BY <1>1, <1>2 DEF InvFaseC, InvEtapaC
<1>4. /\ etapa'[p] = "cerrada" /\ etapa' \in [Proceso -> Etapa]
      /\ \A q \in Proceso \ {p} : etapa'[q] = etapa[q]
  BY <1>1, <1>2 DEF Etapa
<1>5. fase' = fase /\ ults' = ults /\ pc' = pc
  BY DEF hilolay, locales
<1>6. ProtocoloC(p)'
  <2>1. InvPedidoC(p)'
    BY <1>1, <1>2, <1>5 DEF InvPedidoC, Pide
  <2>2. InvFaseC(p)'
    BY <1>1, <1>2, <1>3, <1>5 DEF InvFaseC, OpConRespuesta
  <2>3. InvEtapaC(p)'
    BY <1>1, <1>2, <1>3, <1>4, <1>5 DEF InvEtapaC
  <2> QED BY <2>1, <2>2, <2>3 DEF ProtocoloC
<1>7. PICK r \in Hilo \cup {Nulo} :
        r = running_thread[p] /\ (r # Nulo => r \in Hilo /\ padre[r] = p /\ Conocido(r)')
  <2>1. running_thread[p] # Nulo => padre[running_thread[p]] = p /\ Conocido(running_thread[p])
    BY <1>2 DEF InvListasC
  <2>2. \A h : Conocido(h) => Conocido(h)'
    BY <1>1, <1>4, <1>5, ConocidoSigue
  <2> QED BY <2>1, <2>2, TiposHechos
<1>8. ConexionTipo' /\ RunningUnico'
  BY <1>1, <1>2 DEF ConexionTipo, RunningUnico
<1>9. running_thread' \in [Proceso -> Hilo \cup {Nulo}] /\ estado' \in [Hilo -> Estado]
  BY <1>1, TiposHechos
<1>10. /\ \A q \in Proceso \ {p} :
            /\ pedido'[q] = pedido[q] /\ respuesta'[q] = respuesta[q]
            /\ etapa'[q] = etapa[q] /\ running_thread'[q] = running_thread[q]
       /\ \A q \in Proceso : etapa[q] \in {"bucle", "cerrada"} => etapa'[q] \in {"bucle", "cerrada"}
       /\ running_thread'[p] = running_thread[p]
       /\ \A h \in Hilo : padre[h] # p => estado'[h] = estado[h]
       /\ UNCHANGED <<abierto, threads_bloqueados, ready, g_new_threads, semaforos, g_multiprog_max>>
  BY <1>1, <1>4
<1> QED BY <1>4, <1>6, <1>7, <1>8, <1>9, <1>10, PasoDeConexion

-------------------------------------------------------------------------------
(* The theorems *)

LEMMA PasoInvarianteC == InvarianteC /\ [NextC]_varsC => InvarianteC'
<1> SUFFICES ASSUME InvarianteC, [NextC]_varsC PROVE InvarianteC'
  OBVIOUS
<1>1. CASE UNCHANGED varsC
  <2>1. UNCHANGED <<vars, locales, mutexes>> /\ caido' = caido
    BY <1>1 DEF varsC
  <2>2. caido' \in BOOLEAN
    BY <2>1, Zenon DEF InvarianteC, TiposC, TypeOKC
  <2> QED BY <2>1, <2>2, PasoQuieto
<1>2. ASSUME NEW p \in Proceso, ServidorC(p) PROVE InvarianteC'
  <2>1. CASE ConexionC(p)
    <3>1. /\ pc[p] = "inicio" /\ UNCHANGED <<hilolay, locales, mutexes, caido>>
          /\ enviarMultiProg(p) \/ esperarPaqueteCreateMain(p) \/ CerrarConexion(p)
      BY <2>1 DEF ConexionC
    <3>2. CASE enviarMultiProg(p)
      BY <3>1, <3>2, PasoEnviarMultiProgC, Zenon
    <3>3. CASE esperarPaqueteCreateMain(p)
      BY <3>1, <3>3, PasoCreateMainC, Zenon
    <3>4. CASE CerrarConexion(p)
      BY <3>1, <3>4, PasoCerrarConexionC, Zenon
    <3> QED BY <3>1, <3>2, <3>3, <3>4
  <2>2. CASE Create(p)
    BY <2>2, PasoCreateC
  <2>3. CASE Close(p)
    BY <2>3, PasoCloseC
  <2>4. CASE Join(p)
    BY <2>4, PasoJoinC
  <2>5. CASE ScheduleNext(p)
    BY <2>5, PasoScheduleNextC
  <2>6. CASE Wait(p)
    BY <2>6, PasoWaitC
  <2>7. CASE Signal(p)
    BY <2>7, PasoSignalC
  <2> QED BY <1>2, <2>1, <2>2, <2>3, <2>4, <2>5, <2>6, <2>7 DEF ServidorC
<1>3. ASSUME NEW p \in Proceso, ClienteC(p) PROVE InvarianteC'
  BY <1>3, PasoClienteC
<1> QED BY <1>1, <1>2, <1>3 DEF NextC

(* The invariant of the interleaved server holds in every state, whatever    *)
(* the threads of the server interleave.                                     *)
THEOREM InvarianteCTheorem == SpecC => []InvarianteC
<1>1. InitC => InvarianteC
  BY InitInvarianteC
<1>2. InvarianteC /\ [NextC]_varsC => InvarianteC'
  BY PasoInvarianteC
<1> QED BY <1>1, <1>2, PTL DEF SpecC

(* The value of a semaphore never goes below 0, although it is tested in one *)
(* step of procesarSemWait and decremented in another.                       *)
THEOREM TypeOKCTheorem == SpecC => []TypeOKC
<1>1. InvarianteC => TypeOKC
  BY DEF InvarianteC, TiposC
<1> QED BY <1>1, InvarianteCTheorem, PTL

(* Threads queue on a semaphore only while its value is 0.                   *)
THEOREM ColaSoloEnCeroTheorem == SpecC => []ColaSoloEnCero
<1>1. InvarianteC => ColaSoloEnCero
  BY DEF InvarianteC
<1> QED BY <1>1, InvarianteCTheorem, PTL

(* Only the running thread of a process is RUNNING, although signals of      *)
(* other processes may give it one.                                          *)
THEOREM RunningUnicoTheorem == SpecC => []RunningUnico
<1>1. InvarianteC => RunningUnico
  BY DEF InvarianteC
<1> QED BY <1>1, InvarianteCTheorem, PTL

(* A mutex is held only by a handler that works under it, at a point from    *)
(* which it waits for no mutex or for one whose holder waits for none.       *)
THEOREM MutexEnUsoTheorem == SpecC => []MutexEnUso
<1>1. InvarianteC => MutexEnUso
  BY DEF InvarianteC
<1> QED BY <1>1, InvarianteCTheorem, PTL

(* Handlers never wait for each other in a circle of mutexes: a holder of    *)
(* sem_mutex waits at most for being_externally_scheduled, whose holders     *)
(* wait for nothing.                                                         *)
THEOREM SinEsperaCircularTheorem == SpecC => []SinEsperaCircular
<1>1. InvarianteC => SinEsperaCircular
  <2> SUFFICES ASSUME InvarianteC, NEW p \in Proceso, pc[p] # "inicio"
               PROVE  \E q \in Proceso : pc[q] # "inicio" /\ ~ EsperaMutex(q)
    BY DEF SinEsperaCircular
  <2>1. MutexEnUso /\ TypeOKC /\ InvPunto(p) /\ HilolayTipo /\ InvListasC
    BY DEF InvarianteC, TiposC
  <2>2. ASSUME NEW z \in Proceso, pc[z] \in EnExt
        PROVE  pc[z] # "inicio" /\ ~ EsperaMutex(z)
    BY <2>2 DEF EnExt, EsperaMutex
  <2>3. ASSUME NEW q \in Proceso, pc[q] = "signal_ext", EsperaMutex(q)
        PROVE  \E z \in Proceso : pc[z] # "inicio" /\ ~ EsperaMutex(z)
    <3> DEFINE r == padre[hilo[q]]
               z == being_externally_scheduled[r]
    <3>1. InvPunto(q)
      BY DEF InvarianteC
    <3>2. hilo[q] \in Hilo
      BY <2>3, <3>1 DEF InvPunto, Conocido
    <3>3. r \in Proceso /\ z # Nulo
      BY <2>3, <3>2, HilosAssumption DEF EsperaMutex
    <3>4. z \in Proceso /\ pc[z] \in EnExt
      BY <2>1, <3>3 DEF TypeOKC, MutexEnUso
    <3> QED BY <2>2, <3>4
  <2>4. CASE pc[p] = "signal_lock" /\ EsperaMutex(p)
    <3> DEFINE q == sem_mutex[Arg(p)]
    <3>1. Arg(p) \in Semaforo /\ q # Nulo
      BY <2>1, <2>4 DEF InvPunto, EsperaMutex
    <3>2. q \in Proceso /\ pc[q] \in EnSem
      BY <2>1, <3>1 DEF TypeOKC, MutexEnUso
    <3>3. pc[q] # "inicio" /\ pc[q] # "signal_lock"
      BY <3>2 DEF EnSem, EnExt
    <3>4. CASE pc[q] = "signal_ext" /\ EsperaMutex(q)
      BY <2>3, <3>2, <3>4
    <3>5. CASE ~ (pc[q] = "signal_ext" /\ EsperaMutex(q))
      BY <3>2, <3>3, <3>5 DEF EsperaMutex
    <3> QED BY <3>4, <3>5
  <2>5. CASE pc[p] = "signal_ext" /\ EsperaMutex(p)
    BY <2>3, <2>5
  <2>6. CASE ~ EsperaMutex(p)
    BY <2>6
  <2> QED BY <2>4, <2>5, <2>6 DEF EsperaMutex
<1> QED BY <1>1, InvarianteCTheorem, PTL

(* A process gets at most one response, to what it asked, and a              *)
(* schedule_next names a thread it knows, although it may be answered by     *)
(* the handler of another process' signal.                                   *)
THEOREM RespuestaCorrespondeC == SpecC => []RespuestaCorresponde
<1>1. InvarianteC => RespuestaCorresponde
  <2> SUFFICES ASSUME InvarianteC, NEW p \in Proceso
               PROVE  /\ Len(respuesta[p]) <= 1
                      /\ respuesta[p] # <<>> =>
                           \/ fase[p] = "HANDSHAKE" /\ Head(respuesta[p]).op = "SUSE_GRADO_MULTIPROG"
                           \/ /\ Head(respuesta[p]).op = fase[p]
                              /\ fase[p] = "SUSE_SCHEDULE_NEXT" => Head(respuesta[p]).valor \in ults[p]
    BY DEF RespuestaCorresponde
  <2>1. /\ InvFaseC(p) /\ fase[p] \in Fase /\ respuesta[p] \in Seq(Respuesta)
        /\ running_thread[p] # Nulo => running_thread[p] \in ults[p]
    BY HechosC DEF Conocido
  <2>2. CASE respuesta[p] = <<>>
    BY <2>2, EmptySeq
  <2>3. CASE respuesta[p] # <<>>
    <3>1. Head(respuesta[p]) = respuesta[p][1]
      BY <2>1, <2>3, Quitar
    <3>2. CASE fase[p] = "HANDSHAKE"
      <4>1. respuesta[p][1].op = "SUSE_GRADO_MULTIPROG"
        BY <2>1, <2>3, <3>2 DEF InvFaseC
      <4>2. Len(respuesta[p]) = 1
        BY <2>1, <2>3, <3>2 DEF InvFaseC
      <4> QED BY <3>1, <3>2, <4>1, <4>2
    <3>3. CASE fase[p] \in OpConRespuesta
      <4>1. RespondidoC(p)
        BY <2>1, <2>3, <3>3 DEF InvFaseC, Pendiente, SinNadaQueEjecutar
      <4> QED BY <2>1, <3>1, <4>1 DEF RespondidoC
    <3> QED BY <2>1, <2>3, <3>2, <3>3 DEF InvFaseC, Fase
  <2> QED BY <2>2, <2>3
<1> QED BY <1>1, InvarianteCTheorem, PTL

===============================================================================
