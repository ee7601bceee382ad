------------------------------ MODULE SuseProofs ------------------------------
(***************************************************************************)
(* Proofs that the invariants of SuseSistema hold for every set of         *)
(* processes and threads, every configuration of semaphores and every      *)
(* MAX_MULTIPROG.                                                          *)
(***************************************************************************)
EXTENDS SuseSistema, FiniteSetTheorems, SequenceTheorems, TLAPS

-------------------------------------------------------------------------------
(* Queues *)

(* What list_add and queue_push do to a queue. *)
LEMMA Agregar ==
  ASSUME NEW S, NEW s \in Seq(S), NEW e \in S
  PROVE  /\ Append(s, e) \in Seq(S)
         /\ Append(s, e) # <<>>
         /\ Len(Append(s, e)) = Len(s) + 1
         /\ DOMAIN s = 1 .. Len(s)
         /\ DOMAIN Append(s, e) = 1 .. Len(s) + 1
         /\ \A i \in 1 .. Len(s) : Append(s, e)[i] = s[i]
         /\ Append(s, e)[Len(s) + 1] = e
         /\ Elementos(Append(s, e)) = Elementos(s) \cup {e}
<1>1. /\ Append(s, e) \in Seq(S) /\ Append(s, e) # <<>>
      /\ Len(Append(s, e)) = Len(s) + 1
      /\ DOMAIN s = 1 .. Len(s) /\ Len(s) \in Nat
      /\ DOMAIN Append(s, e) = 1 .. Len(s) + 1
      /\ \A i \in 1 .. Len(s) : Append(s, e)[i] = s[i]
      /\ Append(s, e)[Len(s) + 1] = e
  BY AppendProperties, LenProperties
<1>2. Elementos(Append(s, e)) = Elementos(s) \cup {e}
  BY <1>1, Z3 DEF Elementos
<1> QED BY <1>1, <1>2

(* What queue_pop does to a queue. *)
LEMMA Quitar ==
  ASSUME NEW S, NEW s \in Seq(S), s # <<>>
  PROVE  /\ Head(s) \in S /\ Head(s) = s[1]
         /\ Tail(s) \in Seq(S)
         /\ Len(s) \in Nat \ {0}
         /\ Len(Tail(s)) = Len(s) - 1
         /\ DOMAIN s = 1 .. Len(s)
         /\ DOMAIN Tail(s) = 1 .. Len(s) - 1
         /\ \A i \in 1 .. Len(s) - 1 : Tail(s)[i] = s[i + 1]
         /\ Elementos(s) = Elementos(Tail(s)) \cup {Head(s)}
<1>1. /\ Head(s) \in S /\ Head(s) = s[1] /\ Tail(s) \in Seq(S)
      /\ Len(s) \in Nat \ {0} /\ Len(Tail(s)) = Len(s) - 1
      /\ DOMAIN s = 1 .. Len(s) /\ DOMAIN Tail(s) = 1 .. Len(s) - 1
      /\ \A i \in 1 .. Len(s) - 1 : Tail(s)[i] = s[i + 1]
  BY HeadTailProperties, LenProperties, EmptySeq
<1>2. ASSUME NEW i \in 1 .. Len(s) PROVE i = 1 \/ (i - 1 \in 1 .. Len(s) - 1 /\ s[i] = Tail(s)[i - 1])
  BY <1>1
<1>3. Elementos(s) = Elementos(Tail(s)) \cup {Head(s)}
  <2>1. ASSUME NEW x \in Elementos(s) PROVE x \in Elementos(Tail(s)) \cup {Head(s)}
    <3>1. PICK i \in 1 .. Len(s) : x = s[i]
      BY <1>1 DEF Elementos
    <3>2. CASE i = 1
      BY <3>1, <3>2, <1>1
    <3>3. CASE i # 1
      <4>1. i - 1 \in DOMAIN Tail(s) /\ x = Tail(s)[i - 1]
        BY <3>1, <3>3, <1>1, <1>2
      <4> QED BY <4>1 DEF Elementos
    <3> QED BY <3>2, <3>3
  <2>2. Elementos(Tail(s)) \subseteq Elementos(s)
    BY <1>1 DEF Elementos
  <2>3. Head(s) \in Elementos(s)
    BY <1>1 DEF Elementos
  <2> QED BY <2>1, <2>2, <2>3
<1> QED BY <1>1, <1>3
(* An empty queue is one of length 0. *)
LEMMA Vacia ==
  ASSUME NEW S, NEW s \in Seq(S)
  PROVE  Len(s) \in Nat /\ (s = <<>> <=> Len(s) = 0)
BY EmptySeq, LenProperties

-------------------------------------------------------------------------------
(* Initially *)

LEMMA InitInvariante == Init => Invariante
<1> SUFFICES ASSUME Init PROVE Invariante
  OBVIOUS
<1> USE HilosAssumption, ConfigAssumption DEF Init, ConexionInit, SuseInit, HilolayInit
<1>1. TypeOK
  BY EmptySeq DEF TypeOK, ConexionTipo, SuseTipo, HilolayTipo, Etapa, Estado, Fase
<1>2. InvProtocolo
  BY DEF InvProtocolo, InvPedido, InvFase, InvEtapa, OpConRespuesta
<1>3. Elementos(<<>>) = {} /\ SinRepetidos(<<>>)
  BY DEF Elementos, SinRepetidos
<1>4. InvListas
  BY <1>3 DEF InvListas, InvPropias, InvLista
<1>5. EsperaUnica
  <2>1. ASSUME NEW h \in Hilo PROVE Esperas(h) = {}
    BY <1>3 DEF Esperas
  <2> QED BY <2>1, <1>3 DEF EsperaUnica
<1>6. SemaforoConsistente
  BY DEF SemaforoConsistente
<1>7. MultiprogConservado
  <2>1. Admitidos = {}
    BY DEF Admitidos
  <2> QED BY <2>1, FS_EmptySet DEF MultiprogConservado
<1>8. NewSoloSinLugar
  BY DEF NewSoloSinLugar
<1> QED BY <1>1, <1>2, <1>4, <1>5, <1>6, <1>7, <1>8 DEF Invariante

-------------------------------------------------------------------------------
(* Frames *)

LEMMA MarcoPedido ==
  ASSUME NEW q \in Proceso, InvPedido(q),
         pedido'[q] = pedido[q], ults'[q] = ults[q],
         \A h \in ults[q] : (estado'[h] = "SIN_CREAR") <=> (estado[h] = "SIN_CREAR")
  PROVE  InvPedido(q)'
BY DEF InvPedido, Pide

(* The ULTs of q that the server does not know have their create buffered.   *)
Creaciones(q) ==
  \A t \in ults[q] :
    /\ padre[t] = q
    /\ estado[t] = "SIN_CREAR" =>
         \E i \in DOMAIN pedido[q] : pedido[q][i] = [op |-> "SUSE_CREATE", arg |-> t]

(* That holds on while no buffered packet of q and no ULT of q changes.      *)
LEMMA MarcoCreaciones ==
  ASSUME NEW q \in Proceso, Creaciones(q),
         pedido'[q] = pedido[q], ults'[q] = ults[q],
         \A t \in ults[q] : estado'[t] = "SIN_CREAR" => estado[t] = "SIN_CREAR"
  PROVE  Creaciones(q)'
BY Zenon DEF Creaciones

(* A process whose connection, client and running thread a step leaves alone *)
(* keeps its protocol, as long as its threads are not created and its        *)
(* RUNNING thread stays so.                                                  *)
LEMMA MarcoProtocolo ==
  ASSUME TypeOK, InvPropias, NEW q \in Proceso,
         InvPedido(q), InvFase(q), InvEtapa(q),
         pedido'[q] = pedido[q], respuesta'[q] = respuesta[q],
         (q \in abierto') <=> (q \in abierto),
         fase'[q] = fase[q], ults'[q] = ults[q], current_ult'[q] = current_ult[q],
         etapa'[q] = etapa[q], running_thread'[q] = running_thread[q],
         \A h \in Hilo : padre[h] = q =>
           /\ (estado'[h] = "SIN_CREAR") <=> (estado[h] = "SIN_CREAR")
           /\ estado[h] = "RUNNING" => estado'[h] = "RUNNING"
  PROVE  InvPedido(q)' /\ InvFase(q)' /\ InvEtapa(q)'
<1> USE HilosAssumption DEF TypeOK, ConexionTipo, SuseTipo, HilolayTipo
<1>1. \A h \in ults[q] : h \in Hilo /\ padre[h] = q
  BY DEF InvEtapa
<1>2. running_thread[q] # Nulo => running_thread[q] \in Hilo /\ padre[running_thread[q]] = q
  BY DEF InvPropias
<1>3. principal[q] \in Hilo /\ padre[principal[q]] = q
  OBVIOUS
<1>4. InvPedido(q)'
  BY <1>1 DEF InvPedido, Pide
<1>5. InvFase(q)'
  <2>1. Pendiente(q) => Pendiente(q)'
    BY DEF Pendiente, Pide
  <2>2. Respondido(q) => Respondido(q)'
    BY <1>2 DEF Respondido
  <2>3. SinNadaQueEjecutar(q) => SinNadaQueEjecutar(q)'
    BY DEF SinNadaQueEjecutar
  <2>4. (fase[q] \in OpConRespuesta => Pendiente(q) \/ Respondido(q) \/ SinNadaQueEjecutar(q))'
    BY <2>1, <2>2, <2>3 DEF InvFase
  <2>5. (fase[q] = "HANDSHAKE" =>
          \/ /\ etapa[q] = "handshake" /\ Len(pedido[q]) = 1
             /\ Pide(q, 1, "HANDSHAKE") /\ respuesta[q] = <<>>
          \/ /\ etapa[q] = "create_main" /\ pedido[q] = <<>>
             /\ Len(respuesta[q]) = 1 /\ respuesta[q][1].op = "SUSE_GRADO_MULTIPROG")'
    BY DEF InvFase, Pide
  <2>6. fase[q] = "corriendo" /\ etapa[q] = "bucle" =>
          running_thread'[q] = current_ult'[q] /\ estado'[current_ult'[q]] = "RUNNING"
    <3>1. fase[q] = "corriendo" /\ etapa[q] = "bucle" =>
            /\ current_ult[q] # Nulo /\ running_thread[q] = current_ult[q]
            /\ estado[running_thread[q]] = "RUNNING"
      BY DEF InvFase
    <3> QED BY <1>2, <3>1
  <2>7. (fase[q] = "corriendo" =>
          /\ respuesta[q] = <<>>
          /\ current_ult[q] # Nulo
          /\ \A i \in DOMAIN pedido[q] : Pide(q, i, "SUSE_CREATE")
          /\ etapa[q] = "create_main" => current_ult[q] = principal[q]
          /\ etapa[q] = "bucle" =>
               running_thread[q] = current_ult[q] /\ estado[current_ult[q]] = "RUNNING")'
    BY <2>6 DEF InvFase, Pide
  <2>8. (/\ q \in abierto <=> fase[q] \notin {"sin_conectar", "terminado"}
         /\ fase[q] \in {"sin_conectar", "HANDSHAKE"} <=> ults[q] = {}
         /\ fase[q] \in {"sin_conectar", "terminado"} => respuesta[q] = <<>>
         /\ fase[q] = "sin_conectar" => etapa[q] = "handshake" /\ pedido[q] = <<>>)'
    BY DEF InvFase
  <2> QED BY <2>4, <2>5, <2>7, <2>8 DEF InvFase
<1>6. InvEtapa(q)'
  BY <1>1, <1>2, <1>3 DEF InvEtapa, Pide
<1> QED BY <1>4, <1>5, <1>6

(* What depends on the server's lists alone only a handler can change.       *)
LEMMA MarcoServidor ==
  ASSUME Invariante, UNCHANGED <<listas, semaforos, g_multiprog_max>>,
         \A p \in Proceso : ults[p] \subseteq ults'[p]
  PROVE  /\ InvListas' /\ EsperaUnica' /\ SemaforoConsistente'
         /\ MultiprogConservado' /\ NewSoloSinLugar'
<1> USE HilosAssumption DEF Invariante, listas, semaforos
<1>1. InvListas'
  BY DEF InvListas, InvPropias, InvLista, Elementos, SinRepetidos
<1>2. EsperaUnica'
  <2>1. \A h \in Hilo : Esperas(h)' = Esperas(h)
    BY DEF Esperas, Elementos
  <2> QED BY <2>1 DEF EsperaUnica, SinRepetidos
<1>3. SemaforoConsistente' /\ NewSoloSinLugar'
  BY DEF SemaforoConsistente, NewSoloSinLugar
<1>4. MultiprogConservado'
  BY DEF MultiprogConservado, Admitidos
<1> QED BY <1>1, <1>2, <1>3, <1>4

-------------------------------------------------------------------------------
(* Steps of the client *)

(* A client's step changes only the client's half of its own connection.     *)
CambiaSolo(p) ==
  /\ \A q \in Proceso \ {p} :
       /\ pedido'[q] = pedido[q] /\ respuesta'[q] = respuesta[q]
       /\ fase'[q] = fase[q] /\ ults'[q] = ults[q] /\ current_ult'[q] = current_ult[q]
       /\ (q \in abierto') <=> (q \in abierto)
  /\ ults[p] \subseteq ults'[p]

(* It is enough to look at the process that took the step.                   *)
LEMMA PasoDeCliente ==
  ASSUME Invariante, NEW p \in Proceso, UNCHANGED servidor, CambiaSolo(p),
         ConexionTipo', HilolayTipo',
         InvPedido(p)', InvFase(p)', InvEtapa(p)'
  PROVE  Invariante'
<1>1. /\ InvListas' /\ EsperaUnica' /\ SemaforoConsistente'
      /\ MultiprogConservado' /\ NewSoloSinLugar' /\ SuseTipo'
  <2>1. \A q \in Proceso : ults[q] \subseteq ults'[q]
    BY DEF CambiaSolo
  <2>2. SuseTipo' /\ UNCHANGED <<listas, semaforos, g_multiprog_max>>
    BY DEF Invariante, TypeOK, SuseTipo, servidor, listas, semaforos
  <2> QED BY <2>1, <2>2, MarcoServidor
<1>2. ASSUME NEW q \in Proceso PROVE InvPedido(q)' /\ InvFase(q)' /\ InvEtapa(q)'
  <2>1. CASE q = p
    BY <2>1
  <2>2. CASE q # p
    <3>1. TypeOK /\ InvPropias /\ InvPedido(q) /\ InvFase(q) /\ InvEtapa(q)
      BY DEF Invariante, InvProtocolo, InvListas
    <3>2. estado' = estado /\ etapa' = etapa /\ running_thread' = running_thread
      BY DEF servidor, listas
    <3> QED BY <2>2, <3>1, <3>2, MarcoProtocolo DEF CambiaSolo
  <2> QED BY <2>1, <2>2
<1> QED BY <1>1, <1>2 DEF Invariante, TypeOK, InvProtocolo

(* Facts about one process that every case below uses.                       *)
LEMMA Hechos ==
  ASSUME Invariante, NEW p \in Proceso
  PROVE  /\ InvPedido(p) /\ InvFase(p) /\ InvEtapa(p)
         /\ pedido[p] \in Seq(Pedido) /\ respuesta[p] \in Seq(Respuesta)
         /\ Len(pedido[p]) \in Nat /\ DOMAIN pedido[p] = 1 .. Len(pedido[p])
         /\ pedido[p] = <<>> <=> Len(pedido[p]) = 0
         /\ fase[p] \in Fase /\ etapa[p] \in Etapa
         /\ ults[p] \subseteq Hilo /\ \A h \in ults[p] : padre[h] = p
         /\ running_thread[p] # Nulo =>
              running_thread[p] \in Hilo /\ padre[running_thread[p]] = p
         /\ principal[p] \in Hilo /\ padre[principal[p]] = p
<1> USE HilosAssumption DEF Invariante
<1>1. InvPedido(p) /\ InvFase(p) /\ InvEtapa(p)
  BY DEF InvProtocolo
<1>2. pedido[p] \in Seq(Pedido) /\ respuesta[p] \in Seq(Respuesta)
  BY DEF TypeOK, ConexionTipo
<1>3. /\ Len(pedido[p]) \in Nat /\ DOMAIN pedido[p] = 1 .. Len(pedido[p])
      /\ pedido[p] = <<>> <=> Len(pedido[p]) = 0
  BY <1>2, LenProperties, EmptySeq
<1>4. /\ fase[p] \in Fase /\ etapa[p] \in Etapa /\ ults[p] \subseteq Hilo
      /\ running_thread[p] \in Hilo \cup {Nulo}
  BY DEF TypeOK, SuseTipo, HilolayTipo
<1>5. \A h \in ults[p] : padre[h] = p
  BY <1>1 DEF InvEtapa
<1>6. running_thread[p] # Nulo => padre[running_thread[p]] = p
  BY DEF InvListas, InvPropias
<1> QED BY <1>1, <1>2, <1>3, <1>4, <1>5, <1>6
(* Sending a request appends it to the sender's connection and to no other.  *)
LEMMA Envio ==
  ASSUME Invariante, NEW p \in Proceso, NEW op, NEW arg,
         op \in OpConRespuesta \cup {"HANDSHAKE", "SUSE_CREATE"},
         arg \in Hilo \cup Nombre \cup {Nulo},
         enviarPedido(p, op, arg)
  PROVE  /\ pedido' \in [Proceso -> Seq(Pedido)]
         /\ \A q \in Proceso \ {p} : pedido'[q] = pedido[q]
         /\ pedido'[p] # <<>>
         /\ Len(pedido'[p]) = Len(pedido[p]) + 1
         /\ DOMAIN pedido'[p] = 1 .. Len(pedido[p]) + 1
         /\ \A i \in 1 .. Len(pedido[p]) : pedido'[p][i] = pedido[p][i]
         /\ pedido'[p][Len(pedido[p]) + 1] = [op |-> op, arg |-> arg]
<1>1. pedido \in [Proceso -> Seq(Pedido)]
  BY DEF Invariante, TypeOK, ConexionTipo
<1>2. [op |-> op, arg |-> arg] \in Pedido
  BY DEF Pedido
<1>3. /\ pedido'[p] = Append(pedido[p], [op |-> op, arg |-> arg])
      /\ pedido' = [pedido EXCEPT ![p] = Append(@, [op |-> op, arg |-> arg])]
  BY <1>1 DEF enviarPedido
<1> HIDE DEF Pedido
<1> QED BY <1>1, <1>2, <1>3, Agregar

(* Reading a response takes it off the reader's connection and no other.     *)
LEMMA Lectura ==
  ASSUME ConexionTipo, NEW p \in Proceso, Recibir(p)
  PROVE  /\ respuesta' \in [Proceso -> Seq(Respuesta)]
         /\ \A q \in Proceso \ {p} : respuesta'[q] = respuesta[q]
         /\ Len(respuesta[p]) = 1 => respuesta'[p] = <<>>
         /\ respuesta[p] # <<>> /\ Head(respuesta[p]) = respuesta[p][1]
         /\ Head(respuesta[p]) \in Respuesta
         /\ abierto' = abierto
<1>1. respuesta \in [Proceso -> Seq(Respuesta)] /\ respuesta[p] # <<>>
  BY DEF ConexionTipo, Recibir
<1>2. respuesta' = [respuesta EXCEPT ![p] = Tail(@)]
  BY DEF Recibir
<1>3. /\ Tail(respuesta[p]) \in Seq(Respuesta)
      /\ Len(Tail(respuesta[p])) = Len(respuesta[p]) - 1
      /\ Head(respuesta[p]) = respuesta[p][1] /\ Head(respuesta[p]) \in Respuesta
  BY <1>1, Quitar
<1>4. ASSUME Len(respuesta[p]) = 1 PROVE Tail(respuesta[p]) = <<>>
  <2>1. Len(Tail(respuesta[p])) = 0
    BY <1>3, <1>4
  <2> QED BY <1>3, <2>1, Vacia, Zenon
<1> QED BY <1>1, <1>2, <1>3, <1>4 DEF Recibir

(* The same, on a connection with nothing buffered.                          *)
LEMMA PrimerEnvio ==
  ASSUME Invariante, NEW p \in Proceso, NEW op, NEW arg,
         op \in OpConRespuesta \cup {"HANDSHAKE", "SUSE_CREATE"},
         arg \in Hilo \cup Nombre \cup {Nulo},
         enviarPedido(p, op, arg), pedido[p] = <<>>
  PROVE  /\ pedido' \in [Proceso -> Seq(Pedido)]
         /\ \A q \in Proceso \ {p} : pedido'[q] = pedido[q]
         /\ pedido'[p] # <<>>
         /\ Len(pedido'[p]) = 1 /\ DOMAIN pedido'[p] = 1 .. 1
         /\ pedido'[p][1] = [op |-> op, arg |-> arg]
<1>1. Len(pedido[p]) = 0
  BY Hechos
<1>2. /\ pedido' \in [Proceso -> Seq(Pedido)]
      /\ \A q \in Proceso \ {p} : pedido'[q] = pedido[q]
      /\ pedido'[p] # <<>>
      /\ Len(pedido'[p]) = Len(pedido[p]) + 1
      /\ DOMAIN pedido'[p] = 1 .. Len(pedido[p]) + 1
      /\ pedido'[p][Len(pedido[p]) + 1] = [op |-> op, arg |-> arg]
  BY Envio
<1> QED BY <1>1, <1>2

LEMMA PasoInit ==
  ASSUME Invariante, NEW p \in Proceso, hilolay_init(p), UNCHANGED servidor
  PROVE  Invariante'
<1>0. /\ enviarPedido(p, "HANDSHAKE", Nulo) /\ fase[p] = "sin_conectar"
      /\ fase' = [fase EXCEPT ![p] = "HANDSHAKE"] /\ abierto' = abierto \cup {p}
      /\ UNCHANGED <<respuesta, ults, current_ult>>
  BY DEF hilolay_init, EsperarRespuesta
<1>1. pedido[p] = <<>>
  BY <1>0, Hechos DEF InvFase
<1>2. /\ pedido' \in [Proceso -> Seq(Pedido)]
      /\ \A q \in Proceso \ {p} : pedido'[q] = pedido[q]
      /\ Len(pedido'[p]) = 1 /\ DOMAIN pedido'[p] = 1 .. 1
      /\ pedido'[p][1] = [op |-> "HANDSHAKE", arg |-> Nulo]
  BY <1>0, <1>1, PrimerEnvio
<1>3. ConexionTipo' /\ HilolayTipo' /\ fase \in [Proceso -> Fase]
  <2>1. "HANDSHAKE" \in Fase
    BY DEF Fase
  <2> QED BY <1>0, <1>2, <2>1 DEF Invariante, TypeOK, ConexionTipo, HilolayTipo
<1>4. fase'[p] = "HANDSHAKE" /\ CambiaSolo(p)
  BY <1>0, <1>2, <1>3 DEF CambiaSolo
<1>5. /\ etapa' = etapa /\ estado' = estado
      /\ ults[p] = {} /\ respuesta[p] = <<>>
      /\ etapa[p] = "handshake" /\ p \in abierto'
      /\ \A h \in Hilo : padre[h] = p => estado[h] = "SIN_CREAR"
  BY <1>0, Hechos DEF servidor, listas, InvFase, InvEtapa
<1>6. InvPedido(p)'
  BY <1>2 DEF InvPedido, Pide
<1>7. InvFase(p)'
  BY <1>0, <1>2, <1>4, <1>5 DEF InvFase, Pide, OpConRespuesta
<1>8. InvEtapa(p)'
  BY <1>0, <1>2, <1>4, <1>5 DEF InvEtapa, Pide
<1> QED BY <1>3, <1>4, <1>6, <1>7, <1>8, PasoDeCliente

LEMMA PasoInitInternal ==
  ASSUME Invariante, NEW p \in Proceso, init_internal(p), UNCHANGED servidor
  PROVE  Invariante'
<1>1. /\ enviarPedido(p, "SUSE_CREATE", principal[p]) /\ Recibir(p)
      /\ fase' = [fase EXCEPT ![p] = "corriendo"] /\ fase[p] = "HANDSHAKE"
      /\ ults' = [ults EXCEPT ![p] = {principal[p]}]
      /\ current_ult' = [current_ult EXCEPT ![p] = principal[p]]
  BY DEF init_internal
<1>2. /\ respuesta' \in [Proceso -> Seq(Respuesta)] /\ respuesta[p] # <<>>
      /\ \A q \in Proceso \ {p} : respuesta'[q] = respuesta[q]
      /\ abierto' = abierto /\ (Len(respuesta[p]) = 1 => respuesta'[p] = <<>>)
  BY <1>1, Lectura DEF Invariante, TypeOK
<1>3. /\ pedido[p] = <<>> /\ etapa[p] = "create_main"
      /\ respuesta'[p] = <<>> /\ p \in abierto /\ ults[p] = {}
      /\ principal[p] \in Hilo /\ padre[principal[p]] = p
  BY <1>1, <1>2, Hechos DEF InvFase
<1>4. /\ pedido' \in [Proceso -> Seq(Pedido)]
      /\ \A q \in Proceso \ {p} : pedido'[q] = pedido[q]
      /\ Len(pedido'[p]) = 1 /\ DOMAIN pedido'[p] = 1 .. 1 /\ pedido'[p] # <<>>
      /\ pedido'[p][1] = [op |-> "SUSE_CREATE", arg |-> principal[p]]
  BY <1>1, <1>3, PrimerEnvio
<1>5. ConexionTipo' /\ HilolayTipo' /\ HilolayTipo
  <2>1. "corriendo" \in Fase
    BY DEF Fase
  <2> QED BY <1>1, <1>2, <1>3, <1>4, <2>1 DEF Invariante, TypeOK, ConexionTipo, HilolayTipo
<1>6. /\ fase'[p] = "corriendo" /\ ults'[p] = {principal[p]}
      /\ current_ult'[p] = principal[p] /\ CambiaSolo(p)
  BY <1>1, <1>2, <1>3, <1>4, <1>5 DEF CambiaSolo, HilolayTipo
<1>7. /\ etapa' = etapa /\ estado' = estado /\ etapa'[p] = "create_main"
      /\ \A h \in Hilo : padre[h] = p => estado[h] = "SIN_CREAR"
  <2>1. InvEtapa(p)
    BY Hechos
  <2> QED BY <1>3, <2>1 DEF servidor, listas, InvEtapa
<1>8. InvPedido(p)'
  BY <1>3, <1>4, <1>6, <1>7 DEF InvPedido, Pide
<1>9. InvFase(p)'
  <2>1. p \in abierto' /\ ults'[p] # {} /\ current_ult'[p] # Nulo
    BY <1>2, <1>3, <1>6, NuloAssumption
  <2>2. \A i \in DOMAIN pedido'[p] : Pide(p, i, "SUSE_CREATE")'
    BY <1>4 DEF Pide
  <2> QED BY <2>1, <2>2, <1>3, <1>6, <1>7 DEF InvFase, OpConRespuesta
<1>10. InvEtapa(p)'
  BY <1>3, <1>4, <1>6, <1>7 DEF InvEtapa, Pide
<1> QED BY <1>5, <1>6, <1>8, <1>9, <1>10, PasoDeCliente

(* A request after creations only keeps the order of requests.               *)
LEMMA InvPedidoEnvio ==
  ASSUME Invariante, NEW p \in Proceso, NEW op, NEW arg,
         op \in OpConRespuesta \cup {"HANDSHAKE", "SUSE_CREATE"},
         arg \in Hilo \cup Nombre \cup {Nulo},
         enviarPedido(p, op, arg),
         \A i \in DOMAIN pedido[p] : Pide(p, i, "SUSE_CREATE"),
         estado' = estado, ults[p] \subseteq ults'[p],
         op = "SUSE_CREATE" => arg \in ults'[p] \ ults[p] /\ estado[arg] = "SIN_CREAR",
         op = "SUSE_JOIN" => arg \in ults'[p]
  PROVE  InvPedido(p)'
<1>1. /\ Len(pedido'[p]) = Len(pedido[p]) + 1
      /\ DOMAIN pedido'[p] = 1 .. Len(pedido[p]) + 1
      /\ \A i \in 1 .. Len(pedido[p]) : pedido'[p][i] = pedido[p][i]
      /\ pedido'[p][Len(pedido[p]) + 1] = [op |-> op, arg |-> arg]
  BY Envio
<1>2. InvPedido(p) /\ Len(pedido[p]) \in Nat /\ DOMAIN pedido[p] = 1 .. Len(pedido[p])
  BY Hechos
<1>3. SUFFICES ASSUME NEW i \in DOMAIN pedido'[p]
               PROVE /\ i # Len(pedido'[p]) => Pide(p, i, "SUSE_CREATE")'
                     /\ Pide(p, i, "SUSE_CREATE")' =>
                         /\ pedido'[p][i].arg \in ults'[p]
                         /\ estado'[pedido'[p][i].arg] = "SIN_CREAR"
                         /\ \A j \in DOMAIN pedido'[p] :
                              Pide(p, j, "SUSE_CREATE")' /\ pedido'[p][j].arg = pedido'[p][i].arg => j = i
                     /\ Pide(p, i, "SUSE_JOIN")' => pedido'[p][i].arg \in ults'[p]
  BY DEF InvPedido
<1>4. \A j \in DOMAIN pedido[p] : pedido[p][j].op = "SUSE_CREATE" /\ pedido[p][j].arg \in ults[p]
                                  /\ estado[pedido[p][j].arg] = "SIN_CREAR"
  BY <1>2 DEF InvPedido, Pide
<1>5. CASE i \in 1 .. Len(pedido[p])
  <2>1. pedido'[p][i] = pedido[p][i] /\ pedido[p][i].op = "SUSE_CREATE"
        /\ pedido[p][i].arg \in ults[p] /\ estado[pedido[p][i].arg] = "SIN_CREAR"
    BY <1>1, <1>2, <1>4, <1>5
  <2>2. ASSUME NEW j \in DOMAIN pedido'[p], pedido'[p][j].op = "SUSE_CREATE",
               pedido'[p][j].arg = pedido'[p][i].arg
        PROVE  j = i
    <3>1. CASE j \in 1 .. Len(pedido[p])
      BY ZenonT(60), <1>1, <1>2, <1>5, <2>1, <2>2, <3>1 DEF InvPedido, Pide
    <3>2. CASE j = Len(pedido[p]) + 1
      BY <1>1, <2>1, <2>2, <3>2
    <3> QED BY <1>1, <1>2, <3>1, <3>2
  <2> QED BY <2>1, <2>2 DEF Pide
<1>6. CASE i = Len(pedido[p]) + 1
  <2>1. i = Len(pedido'[p]) /\ pedido'[p][i].op = op /\ pedido'[p][i].arg = arg
    BY <1>1, <1>2, <1>6
  <2>2. ASSUME op = "SUSE_CREATE", NEW j \in DOMAIN pedido'[p], pedido'[p][j].arg = arg
        PROVE  j = i
    <3>1. CASE j \in 1 .. Len(pedido[p])
      <4>1. pedido'[p][j] = pedido[p][j] /\ pedido[p][j].arg \in ults[p]
        BY <1>1, <1>2, <1>4, <3>1
      <4> QED BY <2>2, <4>1
    <3> QED BY <1>1, <1>2, <1>6, <3>1
  <2> QED BY <2>1, <2>2 DEF Pide
<1> QED BY <1>1, <1>2, <1>5, <1>6

(* The first buffered request and the pending creations stay as they were.   *)
LEMMA InvEtapaEnvio ==
  ASSUME Invariante, NEW p \in Proceso, NEW op, NEW arg,
         op \in OpConRespuesta \cup {"SUSE_CREATE"},
         arg \in Hilo \cup Nombre \cup {Nulo},
         enviarPedido(p, op, arg), UNCHANGED servidor,
         fase[p] = "corriendo", fase'[p] \in {"corriendo"} \cup OpConRespuesta,
         ults'[p] = ults[p] \/ (op = "SUSE_CREATE" /\ arg \in Hilo /\ padre[arg] = p
                                 /\ ults'[p] = ults[p] \cup {arg})
  PROVE  InvEtapa(p)'
<1>1. /\ pedido'[p] # <<>>
      /\ DOMAIN pedido'[p] = 1 .. Len(pedido[p]) + 1
      /\ \A i \in 1 .. Len(pedido[p]) : pedido'[p][i] = pedido[p][i]
      /\ pedido'[p][Len(pedido[p]) + 1] = [op |-> op, arg |-> arg]
  BY Envio
<1>2. /\ InvEtapa(p) /\ InvFase(p)
      /\ Len(pedido[p]) \in Nat /\ DOMAIN pedido[p] = 1 .. Len(pedido[p])
      /\ pedido[p] = <<>> <=> Len(pedido[p]) = 0
      /\ etapa[p] \in Etapa
  BY Hechos
<1>3. etapa' = etapa /\ estado' = estado /\ running_thread' = running_thread
  BY DEF servidor, listas
<1>4. /\ fase'[p] \notin {"sin_conectar", "HANDSHAKE", "terminado"}
      /\ etapa[p] \in {"create_main", "bucle"}
  BY <1>2 DEF InvEtapa, InvFase, OpConRespuesta, Etapa
<1>5. etapa[p] = "create_main" => pedido'[p][1] = [op |-> "SUSE_CREATE", arg |-> principal[p]]
  <2>1. etapa[p] = "create_main" => 1 \in 1 .. Len(pedido[p])
    BY <1>2 DEF InvEtapa
  <2> QED BY <1>1, <1>2, <2>1 DEF InvEtapa
<1>6. etapa[p] = "bucle" => running_thread[p] # Nulo /\ estado[running_thread[p]] = "RUNNING"
  BY <1>2 DEF InvFase
<1>7. ASSUME NEW h \in ults'[p]
      PROVE  /\ padre[h] = p
             /\ estado[h] = "SIN_CREAR" =>
                  \E i \in DOMAIN pedido'[p] : pedido'[p][i] = [op |-> "SUSE_CREATE", arg |-> h]
  <2>1. CASE h \in ults[p]
    <3>1. /\ padre[h] = p
          /\ estado[h] = "SIN_CREAR" =>
               \E i \in DOMAIN pedido[p] : pedido[p][i] = [op |-> "SUSE_CREATE", arg |-> h]
      BY <1>2, <2>1 DEF InvEtapa
    <3> QED BY <1>1, <1>2, <3>1
  <2>2. CASE h \notin ults[p]
    <3>1. op = "SUSE_CREATE" /\ arg = h /\ padre[h] = p
      BY <1>7, <2>2
    <3> QED BY <1>1, <1>2, <3>1
  <2> QED BY <2>1, <2>2
<1> QED BY <1>1, <1>2, <1>3, <1>4, <1>5, <1>6, <1>7 DEF InvEtapa, Pide

LEMMA PasoCreate ==
  ASSUME Invariante, NEW p \in Proceso, NEW h \in Hilo, hilolay_create(p, h), UNCHANGED servidor
  PROVE  Invariante'
<1>1. /\ enviarPedido(p, "SUSE_CREATE", h) /\ fase[p] = "corriendo"
      /\ padre[h] = p /\ h \notin ults[p]
      /\ ults' = [ults EXCEPT ![p] = @ \cup {h}]
      /\ UNCHANGED <<respuesta, abierto, fase, current_ult>>
  BY DEF hilolay_create
<1>2. /\ InvFase(p) /\ InvEtapa(p) /\ ults[p] \subseteq Hilo
      /\ etapa' = etapa /\ estado' = estado /\ running_thread' = running_thread
  BY Hechos DEF servidor, listas
<1>3. ults \in [Proceso -> SUBSET Hilo] /\ ults'[p] = ults[p] \cup {h}
  BY <1>1 DEF Invariante, TypeOK, HilolayTipo
<1>4. /\ pedido' \in [Proceso -> Seq(Pedido)]
      /\ \A q \in Proceso \ {p} : pedido'[q] = pedido[q]
      /\ pedido'[p] # <<>>
      /\ DOMAIN pedido'[p] = 1 .. Len(pedido[p]) + 1
      /\ \A i \in 1 .. Len(pedido[p]) : pedido'[p][i] = pedido[p][i]
      /\ pedido'[p][Len(pedido[p]) + 1] = [op |-> "SUSE_CREATE", arg |-> h]
      /\ Len(pedido[p]) \in Nat /\ DOMAIN pedido[p] = 1 .. Len(pedido[p])
  BY <1>1, Envio, Hechos
<1>5. estado[h] = "SIN_CREAR"
  BY <1>1, <1>2 DEF Invariante, InvListas, InvLista
<1>6. ConexionTipo' /\ HilolayTipo' /\ CambiaSolo(p)
  BY <1>1, <1>3, <1>4 DEF Invariante, TypeOK, ConexionTipo, HilolayTipo, CambiaSolo
<1>7. \A i \in DOMAIN pedido[p] : Pide(p, i, "SUSE_CREATE")
  BY <1>1, <1>2 DEF InvFase
<1>8. InvPedido(p)'
  BY <1>1, <1>2, <1>3, <1>5, <1>7, InvPedidoEnvio
<1>9. InvFase(p)'
  <2>1. \A i \in DOMAIN pedido'[p] : Pide(p, i, "SUSE_CREATE")'
    BY <1>4, <1>7 DEF Pide
  <2> QED BY <1>1, <1>2, <1>3, <2>1 DEF InvFase, OpConRespuesta
<1>10. InvEtapa(p)'
  BY <1>1, <1>3, InvEtapaEnvio
<1> QED BY <1>6, <1>8, <1>9, <1>10, PasoDeCliente

LEMMA PasoLlamar ==
  ASSUME Invariante, NEW p \in Proceso, NEW op \in OpConRespuesta,
         NEW arg \in Hilo \cup Nombre \cup {Nulo},
         Llamar(p, op, arg), UNCHANGED servidor,
         op = "SUSE_JOIN" => arg \in ults[p]
  PROVE  Invariante'
<1>1. /\ enviarPedido(p, op, arg) /\ fase[p] = "corriendo"
      /\ fase' = [fase EXCEPT ![p] = op]
      /\ UNCHANGED <<respuesta, abierto, ults, current_ult>>
  BY DEF Llamar, EsperarRespuesta
<1>2. /\ InvFase(p) /\ InvEtapa(p)
      /\ etapa' = etapa /\ estado' = estado /\ running_thread' = running_thread
  BY Hechos DEF servidor, listas
<1>3. /\ pedido' \in [Proceso -> Seq(Pedido)]
      /\ \A q \in Proceso \ {p} : pedido'[q] = pedido[q]
      /\ pedido'[p] # <<>> /\ Len(pedido'[p]) = Len(pedido[p]) + 1
      /\ pedido'[p][Len(pedido[p]) + 1] = [op |-> op, arg |-> arg]
  BY <1>1, Envio
<1>4. /\ ConexionTipo' /\ HilolayTipo' /\ CambiaSolo(p) /\ fase'[p] = op
      /\ op # "SUSE_CREATE" /\ op \notin {"sin_conectar", "HANDSHAKE", "corriendo", "terminado"}
  BY <1>1, <1>3
     DEF Invariante, TypeOK, ConexionTipo, HilolayTipo, CambiaSolo, Fase, OpConRespuesta
<1>5. InvPedido(p)'
  <2>1. \A i \in DOMAIN pedido[p] : Pide(p, i, "SUSE_CREATE")
    BY <1>1, <1>2 DEF InvFase
  <2> QED BY <1>1, <1>2, <1>4, <2>1, InvPedidoEnvio
<1>6. InvFase(p)'
  <2>1. Pendiente(p)'
    BY <1>1, <1>2, <1>3, <1>4 DEF Pendiente, Pide, InvFase
  <2> QED BY <1>1, <1>2, <1>4, <2>1 DEF InvFase
<1>7. InvEtapa(p)'
  BY <1>1, <1>4, InvEtapaEnvio
<1> QED BY <1>4, <1>5, <1>6, <1>7, PasoDeCliente

LEMMA PasoRecibirYCeder ==
  ASSUME Invariante, NEW p \in Proceso, RecibirYCeder(p), UNCHANGED servidor
  PROVE  Invariante'
<1>1. /\ enviarPedido(p, "SUSE_SCHEDULE_NEXT", Nulo) /\ Recibir(p)
      /\ fase[p] \in OpConRespuesta /\ fase[p] # "SUSE_SCHEDULE_NEXT"
      /\ fase' = [fase EXCEPT ![p] = "SUSE_SCHEDULE_NEXT"]
      /\ UNCHANGED <<ults, current_ult>>
  BY DEF RecibirYCeder, EsperarRespuesta
<1>2. /\ InvFase(p) /\ InvEtapa(p) /\ etapa[p] \in Etapa
      /\ etapa' = etapa /\ estado' = estado /\ running_thread' = running_thread
  BY Hechos DEF servidor, listas
<1>3. /\ respuesta' \in [Proceso -> Seq(Respuesta)] /\ respuesta[p] # <<>>
      /\ \A q \in Proceso \ {p} : respuesta'[q] = respuesta[q]
      /\ abierto' = abierto /\ (Len(respuesta[p]) = 1 => respuesta'[p] = <<>>)
  BY <1>1, Lectura DEF Invariante, TypeOK
<1>4. Respondido(p)
  BY <1>1, <1>2, <1>3 DEF InvFase, Pendiente, SinNadaQueEjecutar
<1>5. /\ pedido[p] = <<>> /\ respuesta'[p] = <<>> /\ etapa[p] = "bucle"
      /\ running_thread[p] # Nulo
  BY <1>3, <1>4 DEF Respondido
<1>6. /\ pedido' \in [Proceso -> Seq(Pedido)]
      /\ \A q \in Proceso \ {p} : pedido'[q] = pedido[q]
      /\ pedido'[p] # <<>> /\ Len(pedido'[p]) = 1 /\ DOMAIN pedido'[p] = 1 .. 1
      /\ pedido'[p][1] = [op |-> "SUSE_SCHEDULE_NEXT", arg |-> Nulo]
  <2>1. "SUSE_SCHEDULE_NEXT" \in OpConRespuesta
    BY DEF OpConRespuesta
  <2> QED BY <1>1, <1>5, <2>1, PrimerEnvio
<1>7. ConexionTipo' /\ HilolayTipo' /\ CambiaSolo(p) /\ fase'[p] = "SUSE_SCHEDULE_NEXT"
  BY <1>1, <1>3, <1>6
     DEF Invariante, TypeOK, ConexionTipo, HilolayTipo, CambiaSolo, Fase, OpConRespuesta
<1>8. InvPedido(p)'
  BY <1>6 DEF InvPedido, Pide
<1>9. InvFase(p)'
  <2>1. Pendiente(p)'
    BY <1>5, <1>6, <1>7 DEF Pendiente, Pide
  <2>2. (p \in abierto') /\ ults'[p] # {}
    BY <1>1, <1>2, <1>3 DEF InvFase, OpConRespuesta
  <2> QED BY <1>7, <2>1, <2>2 DEF InvFase
<1>10. InvEtapa(p)'
  <2>1. ASSUME NEW h \in ults[p] PROVE padre[h] = p /\ estado[h] # "SIN_CREAR"
    <3>1. DOMAIN pedido[p] = {}
      BY <1>5, EmptySeq, Hechos
    <3> QED BY <1>2, <3>1 DEF InvEtapa
  <2> QED BY <1>1, <1>2, <1>5, <1>6, <1>7, <2>1 DEF InvEtapa, Pide
<1> QED BY <1>7, <1>8, <1>9, <1>10, PasoDeCliente

LEMMA PasoSwapContext ==
  ASSUME Invariante, NEW p \in Proceso, swap_context(p), UNCHANGED servidor
  PROVE  Invariante'
<1>1. /\ Recibir(p) /\ fase[p] = "SUSE_SCHEDULE_NEXT"
      /\ current_ult' = [current_ult EXCEPT ![p] = get_next_tid(p)]
      /\ fase' = [fase EXCEPT ![p] = "corriendo"]
      /\ UNCHANGED <<pedido, ults>>
  BY DEF swap_context
<1>2. /\ InvPedido(p) /\ InvFase(p) /\ InvEtapa(p)
      /\ etapa' = etapa /\ estado' = estado /\ running_thread' = running_thread
  BY Hechos DEF servidor, listas
<1>3. /\ respuesta' \in [Proceso -> Seq(Respuesta)] /\ respuesta[p] # <<>>
      /\ \A q \in Proceso \ {p} : respuesta'[q] = respuesta[q]
      /\ abierto' = abierto /\ (Len(respuesta[p]) = 1 => respuesta'[p] = <<>>)
      /\ Head(respuesta[p]) = respuesta[p][1]
  BY <1>1, Lectura DEF Invariante, TypeOK
<1>4. Respondido(p)
  BY <1>1, <1>2, <1>3 DEF InvFase, Pendiente, SinNadaQueEjecutar, OpConRespuesta
<1>5. /\ pedido[p] = <<>> /\ respuesta'[p] = <<>> /\ etapa[p] = "bucle"
      /\ running_thread[p] # Nulo /\ respuesta[p][1].valor = running_thread[p]
      /\ estado[running_thread[p]] = "RUNNING"
  BY <1>1, <1>3, <1>4 DEF Respondido
<1>6. running_thread[p] \in ults[p] /\ running_thread[p] \in Hilo
  <2>1. running_thread[p] \in Hilo /\ padre[running_thread[p]] = p
    BY <1>5, Hechos
  <2> QED BY <1>5, <2>1 DEF Invariante, InvListas, InvLista
<1>7. get_next_tid(p) = running_thread[p]
  BY <1>3, <1>5, <1>6 DEF get_next_tid
<1>8. /\ ConexionTipo' /\ HilolayTipo' /\ CambiaSolo(p)
      /\ fase'[p] = "corriendo" /\ current_ult'[p] = running_thread[p]
  BY <1>1, <1>3, <1>6, <1>7
     DEF Invariante, TypeOK, ConexionTipo, HilolayTipo, CambiaSolo, Fase
<1>9. DOMAIN pedido[p] = {}
  BY <1>5, Hechos
<1>10. InvPedido(p)'
  BY <1>1, <1>9 DEF InvPedido
<1>11. InvFase(p)'
  <2>1. (p \in abierto') /\ ults'[p] # {}
    BY <1>1, <1>2, <1>3, <1>6 DEF InvFase
  <2> QED BY <1>1, <1>2, <1>5, <1>8, <1>9, <2>1 DEF InvFase, OpConRespuesta
<1>12. InvEtapa(p)'
  BY <1>1, <1>2, <1>5, <1>8, <1>9 DEF InvEtapa, Pide
<1> QED BY <1>8, <1>10, <1>11, <1>12, PasoDeCliente

(* The end of a process, by hilolay_return or by a kill.                     *)
LEMMA PasoTerminar ==
  ASSUME Invariante, NEW p \in Proceso, CerrarExtremo(p), UNCHANGED servidor,
         fase[p] \in {"corriendo"} \cup OpConRespuesta,
         fase' = [fase EXCEPT ![p] = "terminado"],
         UNCHANGED <<pedido, ults, current_ult>>
  PROVE  Invariante'
<1>1. /\ abierto' = abierto \ {p} /\ respuesta' = [respuesta EXCEPT ![p] = <<>>]
  BY DEF CerrarExtremo
<1>2. /\ InvPedido(p) /\ InvFase(p) /\ InvEtapa(p)
      /\ etapa' = etapa /\ estado' = estado /\ running_thread' = running_thread
  BY Hechos DEF servidor, listas
<1>3. /\ ConexionTipo' /\ HilolayTipo' /\ CambiaSolo(p)
      /\ fase'[p] = "terminado" /\ respuesta'[p] = <<>>
  BY <1>1, EmptySeq DEF Invariante, TypeOK, ConexionTipo, HilolayTipo, CambiaSolo, Fase
<1>4. InvPedido(p)'
  BY <1>2 DEF InvPedido, Pide
<1>5. InvFase(p)'
  <2>1. ults'[p] # {}
    BY <1>2 DEF InvFase, OpConRespuesta
  <2> QED BY <1>1, <1>3, <2>1 DEF InvFase, OpConRespuesta
<1>6. InvEtapa(p)'
  <2>1. etapa[p] # "handshake"
    BY <1>2 DEF InvEtapa, OpConRespuesta
  <2>2. fase[p] # "HANDSHAKE"
    BY DEF OpConRespuesta
  <2> QED BY <1>2, <1>3, <2>1, <2>2 DEF InvEtapa, Pide
<1> QED BY <1>3, <1>4, <1>5, <1>6, PasoDeCliente

(* Every step of a client keeps the invariant.                               *)
LEMMA PasoCliente ==
  ASSUME Invariante, NEW p \in Proceso, Cliente(p)
  PROVE  Invariante'
<1>1. UNCHANGED servidor /\ (Programa(p) \/ Biblioteca(p))
  BY DEF Cliente
<1>2. CASE hilolay_init(p)
  BY <1>1, <1>2, PasoInit
<1>3. ASSUME NEW h \in Hilo, hilolay_create(p, h) PROVE Invariante'
  BY <1>1, <1>3, PasoCreate
<1>4. ASSUME NEW h \in Hilo, hilolay_join(p, h) PROVE Invariante'
  BY <1>1, <1>4, PasoLlamar DEF hilolay_join, OpConRespuesta
<1>5. ASSUME NEW s \in Nombre, hilolay_wait(p, s) \/ hilolay_signal(p, s) PROVE Invariante'
  <2>1. PICK op \in {"SUSE_WAIT", "SUSE_SIGNAL"} : Llamar(p, op, s)
    BY <1>5 DEF hilolay_wait, hilolay_signal
  <2> QED BY <1>1, <2>1, PasoLlamar DEF OpConRespuesta
<1>6. CASE hilolay_yield(p)
  BY <1>1, <1>6, PasoLlamar DEF hilolay_yield, OpConRespuesta
<1>7. CASE TerminarUlt(p)
  <2>1. current_ult[p] \in Hilo \cup Nombre \cup {Nulo}
    BY DEF Invariante, TypeOK, HilolayTipo
  <2> QED BY <1>1, <1>7, <2>1, PasoLlamar DEF TerminarUlt, OpConRespuesta
<1>8. CASE Morir(p)
  BY <1>1, <1>8, PasoTerminar DEF Morir
<1>9. CASE init_internal(p)
  BY <1>1, <1>9, PasoInitInternal
<1>10. CASE RecibirYCeder(p)
  BY <1>1, <1>10, PasoRecibirYCeder
<1>11. CASE swap_context(p)
  BY <1>1, <1>11, PasoSwapContext
<1>12. CASE hilolay_return(p)
  BY <1>1, <1>12, PasoTerminar DEF hilolay_return, OpConRespuesta
<1> QED BY <1>1, <1>2, <1>3, <1>4, <1>5, <1>6, <1>7, <1>8, <1>9, <1>10, <1>11, <1>12
    DEF Programa, Biblioteca
-------------------------------------------------------------------------------
(* The server's side of the connection *)

(* Reading a request takes it off the connection it came by.                 *)
LEMMA Consumo ==
  ASSUME Invariante, NEW p \in Proceso, NEW op, NEW arg,
         Recibido(p, op, arg), ConsumirPedido(p)
  PROVE  /\ pedido' \in [Proceso -> Seq(Pedido)]
         /\ \A q \in Proceso \ {p} : pedido'[q] = pedido[q]
         /\ pedido[p] # <<>> /\ pedido[p][1] = [op |-> op, arg |-> arg]
         /\ pedido[p][1] \in Pedido /\ Len(pedido[p]) \in Nat \ {0}
         /\ DOMAIN pedido[p] = 1 .. Len(pedido[p])
         /\ Len(pedido'[p]) = Len(pedido[p]) - 1
         /\ DOMAIN pedido'[p] = 1 .. Len(pedido[p]) - 1
         /\ \A i \in 1 .. Len(pedido[p]) - 1 : pedido'[p][i] = pedido[p][i + 1]
<1>1. pedido \in [Proceso -> Seq(Pedido)]
  BY DEF Invariante, TypeOK, ConexionTipo
<1>2. /\ pedido[p] # <<>> /\ Head(pedido[p]) = [op |-> op, arg |-> arg]
      /\ pedido' = [pedido EXCEPT ![p] = Tail(@)]
  BY DEF Recibido, ConsumirPedido
<1> QED BY <1>1, <1>2, Quitar

(* Answering an open connection appends to it; a closed one stays as it was. *)
LEMMA Entrega ==
  ASSUME NEW buzones \in [Proceso -> Seq(Respuesta)], NEW p \in Proceso, NEW op, NEW valor,
         [op |-> op, valor |-> valor] \in Respuesta, buzones[p] = <<>>
  PROVE  /\ enviarPaquetes(buzones, p, op, valor) \in [Proceso -> Seq(Respuesta)]
         /\ \A q \in Proceso \ {p} : enviarPaquetes(buzones, p, op, valor)[q] = buzones[q]
         /\ p \notin abierto => enviarPaquetes(buzones, p, op, valor)[p] = <<>>
         /\ p \in abierto =>
              /\ Len(enviarPaquetes(buzones, p, op, valor)[p]) = 1
              /\ enviarPaquetes(buzones, p, op, valor)[p][1] = [op |-> op, valor |-> valor]
<1> DEFINE m == [op |-> op, valor |-> valor]
<1> HIDE DEF m
<1>1. /\ Append(buzones[p], m) \in Seq(Respuesta)
      /\ Len(Append(buzones[p], m)) = Len(buzones[p]) + 1
      /\ Append(buzones[p], m)[Len(buzones[p]) + 1] = m
  BY Agregar DEF m
<1>2. Len(buzones[p]) = 0
  BY Vacia
<1>3. enviarPaquetes(buzones, p, op, valor) =
        IF p \in abierto THEN [buzones EXCEPT ![p] = Append(@, m)] ELSE buzones
  BY DEF enviarPaquetes, m
<1>4. CASE p \in abierto
  BY <1>1, <1>2, <1>3, <1>4 DEF m
<1>5. CASE p \notin abierto
  BY <1>3, <1>5
<1> QED BY <1>4, <1>5

(* A request that waits for a response is the last one buffered: the process *)
(* waits for it, or has ended, and its running thread is known.              *)
LEMMA Atencion ==
  ASSUME Invariante, NEW p \in Proceso, NEW op \in OpConRespuesta, NEW arg,
         Atender(p, op, arg)
  PROVE  /\ pedido' \in [Proceso -> Seq(Pedido)]
         /\ \A q \in Proceso \ {p} : pedido'[q] = pedido[q]
         /\ pedido'[p] = <<>> /\ DOMAIN pedido'[p] = {}
         /\ etapa[p] = "bucle" /\ etapa' = etapa /\ abierto' = abierto
         /\ fase[p] \in {op, "terminado"} /\ (p \in abierto <=> fase[p] = op)
         /\ respuesta[p] = <<>>
         /\ running_thread[p] \in Hilo /\ padre[running_thread[p]] = p
         /\ op # "SUSE_SCHEDULE_NEXT" => estado[running_thread[p]] = "RUNNING"
         /\ \A h \in ults[p] : estado[h] # "SIN_CREAR" /\ padre[h] = p
         /\ op = "SUSE_JOIN" => arg \in ults[p]
         /\ estado[principal[p]] # "SIN_CREAR"
<1>1. /\ Recibido(p, op, arg) /\ ConsumirPedido(p) /\ etapa[p] = "bucle"
      /\ etapa' = etapa /\ abierto' = abierto
  BY DEF Atender
<1>2. /\ pedido' \in [Proceso -> Seq(Pedido)]
      /\ \A q \in Proceso \ {p} : pedido'[q] = pedido[q]
      /\ pedido[p] # <<>> /\ pedido[p][1] = [op |-> op, arg |-> arg]
      /\ Len(pedido[p]) \in Nat \ {0} /\ DOMAIN pedido[p] = 1 .. Len(pedido[p])
      /\ Len(pedido'[p]) = Len(pedido[p]) - 1
      /\ DOMAIN pedido'[p] = 1 .. Len(pedido[p]) - 1
  BY <1>1, Consumo
<1>3. InvPedido(p) /\ InvFase(p) /\ InvEtapa(p) /\ fase[p] \in Fase
  BY Hechos
<1>4. op # "SUSE_CREATE"
  BY DEF OpConRespuesta
<1>5. Len(pedido[p]) = 1
  <2>1. 1 \in DOMAIN pedido[p] /\ pedido[p][1].op = op
    BY <1>2
  <2>2. 1 # Len(pedido[p]) => pedido[p][1].op = "SUSE_CREATE"
    BY <1>3, <2>1 DEF InvPedido, Pide
  <2> QED BY <1>4, <2>1, <2>2
<1>6. pedido'[p] = <<>> /\ DOMAIN pedido'[p] = {}
  <2>1. Len(pedido'[p]) = 0 /\ DOMAIN pedido'[p] = {} /\ pedido'[p] \in Seq(Pedido)
    BY <1>2, <1>5
  <2> QED BY <2>1, Vacia, Zenon
<1>7. fase[p] \notin {"sin_conectar", "HANDSHAKE", "corriendo"}
  BY <1>1, <1>2, <1>3, <1>4 DEF InvEtapa, InvFase, Pide
<1>8. fase[p] \in OpConRespuesta => fase[p] = op /\ respuesta[p] = <<>>
  BY <1>2, <1>3, <1>5 DEF InvFase, Pendiente, Respondido, SinNadaQueEjecutar, Pide
<1>9. /\ fase[p] \in {op, "terminado"} /\ (p \in abierto <=> fase[p] = op)
      /\ respuesta[p] = <<>>
  <2>1. op # "terminado" /\ op # "sin_conectar"
    BY DEF OpConRespuesta
  <2> QED BY <1>3, <1>7, <1>8, <2>1 DEF Fase, InvFase
<1>10. /\ running_thread[p] # Nulo /\ estado[principal[p]] # "SIN_CREAR"
       /\ op # "SUSE_SCHEDULE_NEXT" => estado[running_thread[p]] = "RUNNING"
  BY <1>1, <1>2, <1>3 DEF InvEtapa, Pide
<1>11. running_thread[p] \in Hilo /\ padre[running_thread[p]] = p
  BY <1>10, Hechos
<1>12. ASSUME NEW h \in ults[p] PROVE estado[h] # "SIN_CREAR" /\ padre[h] = p
  <2>1. \A i \in DOMAIN pedido[p] : pedido[p][i].op # "SUSE_CREATE"
    BY <1>2, <1>4, <1>5
  <2>2. [op |-> "SUSE_CREATE", arg |-> h].op = "SUSE_CREATE"
    OBVIOUS
  <2> QED BY <1>3, <2>1, <2>2 DEF InvEtapa
<1>13. op = "SUSE_JOIN" => arg \in ults[p]
  BY <1>2, <1>3 DEF InvPedido, Pide
<1> QED BY <1>1, <1>2, <1>6, <1>9, <1>10, <1>11, <1>12, <1>13

(* The protocol of a process whose request has just been answered.           *)
LEMMA OperacionRespondida ==
  ASSUME Invariante, NEW p \in Proceso, NEW op \in OpConRespuesta, NEW arg,
         Atender(p, op, arg), UNCHANGED hilolay,
         p \notin abierto => respuesta'[p] = <<>>,
         p \in abierto =>
           /\ Len(respuesta'[p]) = 1 /\ respuesta'[p][1].op = op
           /\ op = "SUSE_SCHEDULE_NEXT" =>
                /\ respuesta'[p][1].valor = running_thread'[p]
                /\ estado'[running_thread'[p]] = "RUNNING",
         running_thread'[p] # Nulo,
         \A h \in Hilo : estado[h] # "SIN_CREAR" => estado'[h] # "SIN_CREAR"
  PROVE  InvPedido(p)' /\ InvFase(p)' /\ InvEtapa(p)'
<1>1. /\ pedido'[p] = <<>> /\ DOMAIN pedido'[p] = {}
      /\ etapa[p] = "bucle" /\ etapa' = etapa /\ abierto' = abierto
      /\ fase[p] \in {op, "terminado"} /\ (p \in abierto <=> fase[p] = op)
      /\ \A h \in ults[p] : estado[h] # "SIN_CREAR" /\ padre[h] = p
      /\ estado[principal[p]] # "SIN_CREAR"
  BY Atencion
<1>2. fase' = fase /\ ults' = ults /\ current_ult' = current_ult
  BY DEF hilolay
<1>3. /\ InvFase(p) /\ ults[p] \subseteq Hilo /\ principal[p] \in Hilo
      /\ op \notin {"sin_conectar", "HANDSHAKE", "corriendo", "terminado"}
  BY Hechos DEF OpConRespuesta
<1>4. InvPedido(p)'
  BY <1>1 DEF InvPedido
<1>5. InvFase(p)'
  <2>1. p \in abierto => Respondido(p)'
    BY <1>1, <1>2 DEF Respondido
  <2>2. ults[p] # {}
    BY <1>1, <1>3 DEF InvFase
  <2> QED BY <1>1, <1>2, <1>3, <2>1, <2>2 DEF InvFase, OpConRespuesta
<1>6. InvEtapa(p)'
  BY <1>1, <1>2, <1>3 DEF InvEtapa
<1> QED BY <1>4, <1>5, <1>6
-------------------------------------------------------------------------------
(* Steps of the server: what they have in common *)

(* The admissions: four ways in which a step can keep the count.             *)
LEMMA AdmitidosFinito ==
  ASSUME Invariante
  PROVE  /\ IsFiniteSet(Admitidos) /\ Cardinality(Admitidos) \in Nat
         /\ g_multiprog_max \in Nat /\ MaxMultiprog \in Nat
<1>1. Admitidos \subseteq Hilo
  BY DEF Admitidos
<1>2. IsFiniteSet(Admitidos) /\ Cardinality(Admitidos) \in Nat
  BY <1>1, HilosAssumption, FS_Subset, FS_CardinalityType
<1> QED BY <1>2, ConfigAssumption DEF Invariante, TypeOK, SuseTipo

LEMMA AdmitidosIgual ==
  ASSUME Invariante, Admitidos' = Admitidos, g_multiprog_max' = g_multiprog_max
  PROVE  MultiprogConservado'
BY DEF Invariante, MultiprogConservado

LEMMA AdmitidosMas ==
  ASSUME Invariante, NEW h, h \notin Admitidos, Admitidos' = Admitidos \cup {h},
         g_multiprog_max' = g_multiprog_max - 1
  PROVE  MultiprogConservado'
<1>1. Cardinality(Admitidos') = Cardinality(Admitidos) + 1
  BY AdmitidosFinito, FS_AddElement
<1> QED BY <1>1, AdmitidosFinito DEF Invariante, MultiprogConservado

LEMMA AdmitidosMenos ==
  ASSUME Invariante, NEW h \in Admitidos, Admitidos' = Admitidos \ {h},
         g_multiprog_max' = g_multiprog_max + 1
  PROVE  MultiprogConservado'
<1>1. Cardinality(Admitidos') = Cardinality(Admitidos) - 1
  BY AdmitidosFinito, FS_RemoveElement
<1> QED BY <1>1, AdmitidosFinito DEF Invariante, MultiprogConservado

LEMMA AdmitidosReemplazo ==
  ASSUME Invariante, NEW h \in Admitidos, NEW n, n \notin Admitidos,
         Admitidos' = (Admitidos \ {h}) \cup {n}, g_multiprog_max' = g_multiprog_max
  PROVE  MultiprogConservado'
<1> DEFINE quedan == Admitidos \ {h}
<1>1. IsFiniteSet(quedan) /\ Cardinality(quedan) = Cardinality(Admitidos) - 1
  BY AdmitidosFinito, FS_RemoveElement
<1>2. n \notin quedan /\ Admitidos' = quedan \cup {n}
  OBVIOUS
<1> HIDE DEF quedan
<1>3. Cardinality(Admitidos') = Cardinality(quedan) + 1
  BY <1>1, <1>2, FS_AddElement
<1> QED BY <1>1, <1>3, AdmitidosFinito DEF Invariante, MultiprogConservado

(* A step of the thread that serves p leaves the other connections alone.    *)
SirveSolo(p) ==
  /\ abierto' = abierto
  /\ \A q \in Proceso \ {p} :
       /\ pedido'[q] = pedido[q] /\ respuesta'[q] = respuesta[q]
       /\ etapa'[q] = etapa[q] /\ running_thread'[q] = running_thread[q]
  /\ \A h \in Hilo : padre[h] # p =>
       /\ (estado'[h] = "SIN_CREAR") <=> (estado[h] = "SIN_CREAR")
       /\ estado[h] = "RUNNING" => estado'[h] = "RUNNING"

LEMMA PasoDeServidor ==
  ASSUME Invariante, NEW p \in Proceso, UNCHANGED hilolay, SirveSolo(p),
         pedido' \in [Proceso -> Seq(Pedido)], respuesta' \in [Proceso -> Seq(Respuesta)],
         InvPedido(p)', InvFase(p)', InvEtapa(p)',
         SuseTipo', InvListas', EsperaUnica', SemaforoConsistente',
         MultiprogConservado', NewSoloSinLugar'
  PROVE  Invariante'
<1>1. fase' = fase /\ ults' = ults /\ current_ult' = current_ult
  BY DEF hilolay
<1>2. TypeOK'
  BY <1>1 DEF Invariante, TypeOK, ConexionTipo, HilolayTipo, SirveSolo
<1>3. ASSUME NEW q \in Proceso PROVE InvPedido(q)' /\ InvFase(q)' /\ InvEtapa(q)'
  <2>1. CASE q = p
    BY <2>1
  <2>2. CASE q # p
    <3>1. TypeOK /\ InvPropias /\ InvPedido(q) /\ InvFase(q) /\ InvEtapa(q)
      BY DEF Invariante, InvProtocolo, InvListas
    <3> QED BY <1>1, <2>2, <3>1, MarcoProtocolo DEF SirveSolo
  <2> QED BY <2>1, <2>2
<1> QED BY <1>2, <1>3 DEF Invariante, InvProtocolo
-------------------------------------------------------------------------------
(* Steps of the server: connections and creations *)

LEMMA PasoMultiProg ==
  ASSUME Invariante, NEW p \in Proceso, enviarMultiProg(p), UNCHANGED hilolay
  PROVE  Invariante'
<1>1. /\ Recibido(p, "HANDSHAKE", Nulo) /\ ConsumirPedido(p) /\ etapa[p] = "handshake"
      /\ respuesta' = enviarPaquetes(respuesta, p, "SUSE_GRADO_MULTIPROG", g_multiprog_max)
      /\ etapa' = [etapa EXCEPT ![p] = "create_main"] /\ abierto' = abierto
      /\ UNCHANGED <<listas, semaforos, g_multiprog_max>>
  BY DEF enviarMultiProg, Responder
<1>2. fase' = fase /\ ults' = ults /\ current_ult' = current_ult
  BY DEF hilolay
<1>3. /\ pedido' \in [Proceso -> Seq(Pedido)] /\ pedido[p] # <<>>
      /\ \A q \in Proceso \ {p} : pedido'[q] = pedido[q]
      /\ Len(pedido[p]) \in Nat
      /\ Len(pedido'[p]) = Len(pedido[p]) - 1
  BY <1>1, Consumo
<1>4. InvFase(p) /\ InvEtapa(p) /\ fase[p] \in Fase
  BY Hechos
<1>5. /\ fase[p] = "HANDSHAKE" /\ Len(pedido[p]) = 1 /\ respuesta[p] = <<>>
      /\ p \in abierto /\ ults[p] = {}
  BY <1>1, <1>3, <1>4 DEF InvEtapa, InvFase
<1>6. pedido'[p] = <<>> /\ DOMAIN pedido'[p] = {}
  <2>1. Len(pedido'[p]) = 0 /\ pedido'[p] \in Seq(Pedido)
    BY <1>3, <1>5
  <2>2. pedido'[p] = <<>>
    BY <2>1, Vacia, Zenon
  <2> QED BY <2>2
<1>7. /\ respuesta' \in [Proceso -> Seq(Respuesta)]
      /\ \A q \in Proceso \ {p} : respuesta'[q] = respuesta[q]
      /\ Len(respuesta'[p]) = 1
      /\ respuesta'[p][1] = [op |-> "SUSE_GRADO_MULTIPROG", valor |-> g_multiprog_max]
  <2>1. respuesta \in [Proceso -> Seq(Respuesta)] /\ g_multiprog_max \in Int
    BY DEF Invariante, TypeOK, ConexionTipo, SuseTipo
  <2>2. [op |-> "SUSE_GRADO_MULTIPROG", valor |-> g_multiprog_max] \in Respuesta
    BY <2>1 DEF Respuesta
  <2> QED BY <1>1, <1>5, <2>1, <2>2, Entrega
<1>8. /\ InvListas' /\ EsperaUnica' /\ SemaforoConsistente'
      /\ MultiprogConservado' /\ NewSoloSinLugar'
  BY <1>1, <1>2, MarcoServidor
<1>9. SuseTipo' /\ etapa'[p] = "create_main" /\ SirveSolo(p)
  BY <1>1, <1>3, <1>7
     DEF Invariante, TypeOK, SuseTipo, Etapa, SirveSolo, listas, semaforos
<1>10. InvPedido(p)'
  BY <1>6 DEF InvPedido
<1>11. InvFase(p)'
  BY <1>1, <1>2, <1>5, <1>6, <1>7, <1>9 DEF InvFase, OpConRespuesta
<1>12. InvEtapa(p)'
  <2>1. respuesta'[p] # <<>>
    <3>1. respuesta'[p] \in Seq(Respuesta)
      BY <1>7
    <3>2. respuesta'[p] = <<>> <=> Len(respuesta'[p]) = 0
      BY <3>1, Vacia, Zenon
    <3> QED BY <1>7, <3>2
  <2>2. \A h \in Hilo : padre[h] = p => estado'[h] = "SIN_CREAR"
    BY <1>1, <1>4 DEF InvEtapa, listas
  <2> QED BY <1>2, <1>5, <1>9, <2>1, <2>2 DEF InvEtapa
<1> QED BY <1>3, <1>7, <1>8, <1>9, <1>10, <1>11, <1>12, PasoDeServidor

LEMMA PasoCerrarConexion ==
  ASSUME Invariante, NEW p \in Proceso, CerrarConexion(p), UNCHANGED hilolay
  PROVE  Invariante'
<1>1. /\ etapa[p] = "bucle" /\ p \notin abierto /\ pedido[p] = <<>>
      /\ etapa' = [etapa EXCEPT ![p] = "cerrada"]
      /\ pedido' = pedido /\ respuesta' = respuesta /\ abierto' = abierto
      /\ UNCHANGED <<listas, semaforos, g_multiprog_max>>
  BY DEF CerrarConexion, FinDeConexion, conexion
<1>2. fase' = fase /\ ults' = ults /\ current_ult' = current_ult
  BY DEF hilolay
<1>3. InvPedido(p) /\ InvFase(p) /\ InvEtapa(p)
  BY Hechos
<1>4. fase[p] = "terminado"
  BY <1>1, <1>3 DEF InvFase, InvEtapa
<1>5. /\ InvListas' /\ EsperaUnica' /\ SemaforoConsistente'
      /\ MultiprogConservado' /\ NewSoloSinLugar'
  BY <1>1, <1>2, MarcoServidor
<1>6. SuseTipo' /\ etapa'[p] = "cerrada" /\ SirveSolo(p)
  BY <1>1 DEF Invariante, TypeOK, SuseTipo, Etapa, SirveSolo, listas, semaforos
<1>7. estado' = estado /\ running_thread' = running_thread
  BY <1>1 DEF listas
<1>8. InvPedido(p)'
  BY <1>1, <1>2, <1>3, <1>7 DEF InvPedido, Pide
<1>9. InvFase(p)'
  BY <1>1, <1>2, <1>3, <1>4, <1>6, <1>7 DEF InvFase, OpConRespuesta
<1>10. InvEtapa(p)'
  BY <1>1, <1>2, <1>3, <1>4, <1>6, <1>7 DEF InvEtapa
<1> QED BY <1>1, <1>5, <1>6, <1>8, <1>9, <1>10, PasoDeServidor
    DEF Invariante, TypeOK, ConexionTipo

(* The buffered requests after the first one, a creation, is read.           *)
LEMMA ConsumoCreate ==
  ASSUME Invariante, NEW p \in Proceso, NEW h \in Hilo, UNCHANGED hilolay,
         Recibido(p, "SUSE_CREATE", h), ConsumirPedido(p),
         \A t \in Hilo : t # h => estado'[t] = estado[t]
  PROVE  /\ InvPedido(p)'
         /\ h \in ults[p] /\ estado[h] = "SIN_CREAR" /\ padre[h] = p
         /\ \A t \in ults[p] \ {h} :
              /\ estado[t] = "SIN_CREAR"
              /\ \E i \in DOMAIN pedido[p] : pedido[p][i] = [op |-> "SUSE_CREATE", arg |-> t]
              => \E i \in DOMAIN pedido'[p] : pedido'[p][i] = [op |-> "SUSE_CREATE", arg |-> t]
<1>1. /\ pedido[p] # <<>> /\ pedido[p][1] = [op |-> "SUSE_CREATE", arg |-> h]
      /\ Len(pedido[p]) \in Nat \ {0}
      /\ DOMAIN pedido[p] = 1 .. Len(pedido[p])
      /\ Len(pedido'[p]) = Len(pedido[p]) - 1
      /\ DOMAIN pedido'[p] = 1 .. Len(pedido[p]) - 1
      /\ \A i \in 1 .. Len(pedido[p]) - 1 : pedido'[p][i] = pedido[p][i + 1]
  BY Consumo
<1>2. InvPedido(p) /\ ults[p] \subseteq Hilo /\ (\A t \in ults[p] : padre[t] = p) /\ ults' = ults
  BY Hechos DEF hilolay
<1>3. h \in ults[p] /\ estado[h] = "SIN_CREAR" /\ padre[h] = p
  BY <1>1, <1>2 DEF InvPedido, Pide
<1>4. ASSUME NEW i \in 1 .. Len(pedido[p]) - 1
      PROVE /\ i + 1 \in DOMAIN pedido[p] /\ i + 1 # 1 /\ pedido'[p][i] = pedido[p][i + 1]
            /\ pedido[p][i + 1].op = "SUSE_CREATE" => pedido[p][i + 1].arg # h
  <2>1. i + 1 \in DOMAIN pedido[p] /\ i + 1 # 1 /\ pedido'[p][i] = pedido[p][i + 1]
    BY <1>1
  <2>2. 1 \in DOMAIN pedido[p] /\ pedido[p][1].op = "SUSE_CREATE" /\ pedido[p][1].arg = h
    BY <1>1
  <2> QED BY <1>2, <2>1, <2>2 DEF InvPedido, Pide
<1>5. ASSUME NEW i \in 1 .. Len(pedido[p]) - 1
      PROVE  /\ i # Len(pedido[p]) - 1 => pedido'[p][i].op = "SUSE_CREATE"
             /\ pedido'[p][i].op = "SUSE_CREATE" =>
                  /\ pedido'[p][i].arg \in ults[p]
                  /\ estado'[pedido'[p][i].arg] = "SIN_CREAR"
                  /\ \A j \in 1 .. Len(pedido[p]) - 1 :
                       pedido'[p][j].op = "SUSE_CREATE"
                       /\ pedido'[p][j].arg = pedido'[p][i].arg => j = i
             /\ pedido'[p][i].op = "SUSE_JOIN" => pedido'[p][i].arg \in ults[p]
  <2>1. i # Len(pedido[p]) - 1 => i + 1 # Len(pedido[p])
    BY <1>1
  <2>2. ASSUME NEW j \in 1 .. Len(pedido[p]) - 1,
               pedido'[p][i].op = "SUSE_CREATE", pedido'[p][j].op = "SUSE_CREATE",
               pedido'[p][j].arg = pedido'[p][i].arg
        PROVE  j = i
    <3>1. /\ i + 1 \in DOMAIN pedido[p] /\ j + 1 \in DOMAIN pedido[p]
          /\ pedido[p][i + 1].op = "SUSE_CREATE" /\ pedido[p][j + 1].op = "SUSE_CREATE"
          /\ pedido[p][j + 1].arg = pedido[p][i + 1].arg
      BY <1>4, <2>2
    <3>2. j + 1 = i + 1
      BY <1>2, <3>1, Zenon DEF InvPedido, Pide
    <3> QED BY <3>2
  <2>3. /\ i + 1 \in DOMAIN pedido[p] /\ pedido'[p][i] = pedido[p][i + 1]
        /\ pedido[p][i + 1].op = "SUSE_CREATE" => pedido[p][i + 1].arg # h
    BY <1>4
  <2>4. /\ i + 1 # Len(pedido[p]) => pedido[p][i + 1].op = "SUSE_CREATE"
        /\ pedido[p][i + 1].op = "SUSE_CREATE" =>
             pedido[p][i + 1].arg \in ults[p] /\ estado[pedido[p][i + 1].arg] = "SIN_CREAR"
        /\ pedido[p][i + 1].op = "SUSE_JOIN" => pedido[p][i + 1].arg \in ults[p]
    BY <1>2, <2>3, Zenon DEF InvPedido, Pide
  <2> QED BY <1>2, <2>1, <2>2, <2>3, <2>4
<1>7. InvPedido(p)'
  BY <1>1, <1>2, <1>5 DEF InvPedido, Pide
<1>6. ASSUME NEW t \in ults[p] \ {h}, NEW i \in DOMAIN pedido[p],
             pedido[p][i] = [op |-> "SUSE_CREATE", arg |-> t]
      PROVE  \E j \in DOMAIN pedido'[p] : pedido'[p][j] = [op |-> "SUSE_CREATE", arg |-> t]
  <2>1. i # 1
    <3>1. [op |-> "SUSE_CREATE", arg |-> t].arg = t /\ [op |-> "SUSE_CREATE", arg |-> h].arg = h
      OBVIOUS
    <3> QED BY <1>1, <1>6, <3>1
  <2>2. i - 1 \in 1 .. Len(pedido[p]) - 1 /\ (i - 1) + 1 = i
    BY <1>1, <1>6, <2>1
  <2>3. pedido'[p][i - 1] = pedido[p][i]
    BY <1>1, <2>2
  <2> QED BY <1>1, <1>6, <2>2, <2>3
<1> QED BY <1>3, <1>6, <1>7

(* The protocol after a creation, in either stage that reads one.            *)
LEMMA ProtocoloCreate ==
  ASSUME Invariante, NEW p \in Proceso, NEW h \in Hilo, UNCHANGED hilolay,
         Recibido(p, "SUSE_CREATE", h), ConsumirPedido(p),
         respuesta' = respuesta, abierto' = abierto,
         etapa[p] \in {"create_main", "bucle"}, etapa'[p] = "bucle",
         estado'[h] # "SIN_CREAR", \A t \in Hilo : t # h => estado'[t] = estado[t],
         etapa[p] = "create_main" =>
           h = principal[p] /\ running_thread'[p] = h /\ estado'[h] = "RUNNING",
         etapa[p] = "bucle" => running_thread'[p] = running_thread[p]
  PROVE  InvPedido(p)' /\ InvFase(p)' /\ InvEtapa(p)'
<1>1. /\ InvPedido(p)' /\ h \in ults[p] /\ estado[h] = "SIN_CREAR" /\ padre[h] = p
      /\ \A t \in ults[p] \ {h} :
           /\ estado[t] = "SIN_CREAR"
           /\ \E i \in DOMAIN pedido[p] : pedido[p][i] = [op |-> "SUSE_CREATE", arg |-> t]
           => \E i \in DOMAIN pedido'[p] : pedido'[p][i] = [op |-> "SUSE_CREATE", arg |-> t]
  BY ConsumoCreate
<1>2. fase' = fase /\ ults' = ults /\ current_ult' = current_ult
  BY DEF hilolay
<1>3. /\ InvFase(p) /\ InvEtapa(p) /\ fase[p] \in Fase
      /\ ults[p] \subseteq Hilo /\ principal[p] \in Hilo
      /\ running_thread[p] # Nulo => running_thread[p] \in Hilo
  BY Hechos
<1>4. /\ pedido[p] # <<>> /\ pedido[p][1] = [op |-> "SUSE_CREATE", arg |-> h]
      /\ Len(pedido[p]) \in Nat \ {0} /\ pedido'[p] \in Seq(Pedido)
      /\ DOMAIN pedido[p] = 1 .. Len(pedido[p])
      /\ Len(pedido'[p]) = Len(pedido[p]) - 1
      /\ DOMAIN pedido'[p] = 1 .. Len(pedido[p]) - 1
      /\ \A i \in 1 .. Len(pedido[p]) - 1 : pedido'[p][i] = pedido[p][i + 1]
  BY SMTT(30), Consumo
<1>5. pedido[p][1].op = "SUSE_CREATE"
  BY <1>4
<1>6. /\ running_thread'[p] # Nulo /\ estado'[running_thread'[p]] = "RUNNING"
      /\ etapa[p] = "bucle" => running_thread[p] # h
      /\ estado'[principal[p]] # "SIN_CREAR"
  <2>1. CASE etapa[p] = "create_main"
    BY <1>3, <2>1, NuloAssumption
  <2>2. CASE etapa[p] = "bucle"
    <3>1. running_thread[p] # Nulo /\ estado[running_thread[p]] = "RUNNING"
          /\ estado[principal[p]] # "SIN_CREAR"
      BY <1>3, <1>4, <1>5, <2>2 DEF InvEtapa, Pide
    <3> QED BY <1>1, <1>3, <2>2, <3>1
  <2> QED BY <2>1, <2>2
<1>7. fase[p] \notin {"sin_conectar", "HANDSHAKE"}
  BY <1>3, <1>4 DEF InvFase, InvEtapa
<1>8. InvFase(p)'
  <2>1. CASE fase[p] = "terminado"
    BY <1>2, <1>3, <2>1 DEF InvFase, OpConRespuesta
  <2>2. CASE fase[p] = "corriendo"
    <3>1. \A i \in DOMAIN pedido'[p] : Pide(p, i, "SUSE_CREATE")'
      <4>1. \A i \in DOMAIN pedido[p] : pedido[p][i].op = "SUSE_CREATE"
        BY <1>3, <2>2 DEF InvFase, Pide
      <4>2. ASSUME NEW i \in 1 .. Len(pedido[p]) - 1 PROVE pedido'[p][i].op = "SUSE_CREATE"
        <5>1. i + 1 \in DOMAIN pedido[p] /\ pedido'[p][i] = pedido[p][i + 1]
          BY <1>4
        <5> QED BY <4>1, <5>1
      <4> QED BY <1>4, <4>2 DEF Pide
    <3>2. running_thread'[p] = current_ult[p]
      BY <1>3, <2>2 DEF InvFase
    <3> QED BY <1>2, <1>3, <1>6, <2>2, <3>1, <3>2 DEF InvFase, OpConRespuesta
  <2>3. CASE fase[p] \in OpConRespuesta
    <3>1. Pendiente(p)
      BY <1>3, <1>4, <2>3 DEF InvFase, Respondido, SinNadaQueEjecutar
    <3>2. Len(pedido[p]) # 1
      BY <1>5, <2>3, <3>1 DEF Pendiente, Pide, OpConRespuesta
    <3>3. Len(pedido[p]) - 1 \in 1 .. Len(pedido[p]) - 1 /\ (Len(pedido[p]) - 1) + 1 = Len(pedido[p])
      <4>1. \A n \in Nat \ {0} : n # 1 => n - 1 \in 1 .. n - 1 /\ (n - 1) + 1 = n
        OBVIOUS
      <4>2. Len(pedido[p]) \in Nat \ {0}
        BY <1>4
      <4> QED BY <3>2, <4>1, <4>2
    <3>4. /\ pedido'[p][Len(pedido'[p])] = pedido[p][Len(pedido[p])]
          /\ Len(pedido'[p]) # 0
      BY <1>4, <3>2, <3>3
    <3>5. pedido'[p] # <<>>
      <4>1. pedido'[p] = <<>> <=> Len(pedido'[p]) = 0
        BY <1>4, Vacia, Zenon
      <4> QED BY <3>4, <4>1
    <3>6. Pendiente(p)'
      BY <1>2, <3>1, <3>4, <3>5 DEF Pendiente, Pide
    <3> QED BY <1>2, <1>3, <2>3, <3>6 DEF InvFase, OpConRespuesta
  <2> QED BY <1>3, <1>7, <2>1, <2>2, <2>3 DEF Fase
<1>9. InvEtapa(p)'
  <2>1. ASSUME NEW t \in ults'[p]
        PROVE  /\ padre[t] = p
               /\ estado'[t] = "SIN_CREAR" =>
                    \E i \in DOMAIN pedido'[p] : pedido'[p][i] = [op |-> "SUSE_CREATE", arg |-> t]
    BY <1>1, <1>2, <1>3, <2>1 DEF InvEtapa
  <2> QED BY <1>2, <1>6, <1>7, <2>1 DEF InvEtapa
<1> QED BY <1>1, <1>8, <1>9

-------------------------------------------------------------------------------
(* Steps of the server: frames for the lists *)

(* Nobody starts or stops waiting, and no thread ends.                       *)
LEMMA MarcoEsperas ==
  ASSUME Invariante,
         UNCHANGED <<g_blocked_threads, cola, threads_bloqueados>>,
         \A t \in Hilo : estado'[t] = "EXIT" => estado[t] = "EXIT"
  PROVE  EsperaUnica'
<1>1. \A h \in Hilo : Esperas(h)' = Esperas(h)
  BY DEF Esperas, Elementos
<1> QED BY <1>1 DEF Invariante, EsperaUnica, SinRepetidos

LEMMA MarcoSemaforos ==
  ASSUME Invariante, UNCHANGED semaforos
  PROVE  SemaforoConsistente'
BY DEF Invariante, semaforos, SemaforoConsistente

(* The types of the server's lists, for the cases below.                     *)
LEMMA Tipos ==
  ASSUME Invariante
  PROVE  /\ etapa \in [Proceso -> Etapa] /\ estado \in [Hilo -> Estado]
         /\ threads_bloqueados \in [Hilo -> SUBSET Hilo]
         /\ running_thread \in [Proceso -> Hilo \cup {Nulo}]
         /\ ready \in [Proceso -> SUBSET Hilo]
         /\ g_new_threads \in Seq(Hilo)
         /\ g_blocked_threads \subseteq Hilo /\ g_exit_threads \subseteq Hilo
         /\ current_value \in [Semaforo -> Nat] /\ cola \in [Semaforo -> Seq(Hilo)]
         /\ g_multiprog_max \in Nat
         /\ respuesta \in [Proceso -> Seq(Respuesta)] /\ abierto \subseteq Proceso
BY DEF Invariante, TypeOK, SuseTipo, ConexionTipo

(* esperarPaqueteCreateMain *)
LEMMA PasoCreateMain ==
  ASSUME Invariante, NEW p \in Proceso, esperarPaqueteCreateMain(p), UNCHANGED hilolay
  PROVE  Invariante'
<1> DEFINE h == principal[p]
<1>1. /\ Recibido(p, "SUSE_CREATE", h) /\ ConsumirPedido(p) /\ etapa[p] = "create_main"
      /\ etapa' = [etapa EXCEPT ![p] = "bucle"]
      /\ estado' = [estado EXCEPT ![h] = "RUNNING"]
      /\ running_thread' = [running_thread EXCEPT ![p] = h]
      /\ UNCHANGED <<respuesta, abierto, threads_bloqueados, ready, g_new_threads,
                     g_blocked_threads, g_exit_threads, semaforos, g_multiprog_max>>
  BY DEF esperarPaqueteCreateMain
<1>2. h \in Hilo /\ padre[h] = p /\ InvEtapa(p)
  BY Hechos
<1>3. /\ etapa'[p] = "bucle" /\ estado'[h] = "RUNNING" /\ running_thread'[p] = h
      /\ \A t \in Hilo : t # h => estado'[t] = estado[t]
      /\ \A q \in Proceso : q # p => etapa'[q] = etapa[q] /\ running_thread'[q] = running_thread[q]
  BY <1>1, <1>2, Tipos
<1> HIDE DEF h
<1>4. h \in ults[p] /\ estado[h] = "SIN_CREAR"
  BY <1>1, <1>2, <1>3, ConsumoCreate
<1>5. InvPedido(p)' /\ InvFase(p)' /\ InvEtapa(p)'
  BY <1>1, <1>2, <1>3, ProtocoloCreate DEF h
<1>6. /\ pedido' \in [Proceso -> Seq(Pedido)] /\ \A q \in Proceso \ {p} : pedido'[q] = pedido[q]
  BY <1>1, Consumo
<1>7. SuseTipo'
  BY <1>1, <1>2, Tipos DEF SuseTipo, semaforos, Etapa, Estado
<1>8. SirveSolo(p)
  BY <1>1, <1>2, <1>3, <1>6 DEF SirveSolo
<1>9. \A t \in Hilo : padre[t] = p => estado[t] = "SIN_CREAR"
  BY <1>1, <1>2 DEF InvEtapa
<1>10. InvListas'
  <2>1. InvPropias'
    BY <1>1, <1>2, <1>3 DEF Invariante, InvListas, InvPropias, SinRepetidos
  <2>2. ASSUME NEW t \in Hilo PROVE InvLista(t)'
    <3>1. InvLista(t) /\ ults' = ults /\ padre[t] \in Proceso
      BY HilosAssumption DEF Invariante, InvListas, hilolay
    <3>2. CASE t = h
      BY <1>1, <1>2, <1>3, <1>4, <3>1, <3>2 DEF InvLista, Elementos
    <3>3. CASE t # h
      BY <1>1, <1>2, <1>3, <1>9, <3>1, <3>3 DEF InvLista, Elementos
    <3> QED BY <3>2, <3>3
  <2> QED BY <2>1, <2>2 DEF InvListas
<1>11. EsperaUnica' /\ SemaforoConsistente' /\ NewSoloSinLugar'
  <2>1. EsperaUnica'
    BY <1>1, <1>2, <1>3, MarcoEsperas DEF semaforos
  <2>2. SemaforoConsistente'
    BY <1>1, MarcoSemaforos
  <2> QED BY <1>1, <2>1, <2>2 DEF Invariante, NewSoloSinLugar
<1>12. MultiprogConservado'
  <2>1. Admitidos' = Admitidos
    BY <1>2, <1>3 DEF Admitidos, h
  <2> QED BY <1>1, <2>1, AdmitidosIgual
<1> QED BY <1>1, <1>5, <1>6, <1>7, <1>8, <1>10, <1>11, <1>12, Tipos, PasoDeServidor

(* A queue without repetitions stays so, by either end.                      *)
LEMMA SinRepetidosAgregar ==
  ASSUME NEW S, NEW s \in Seq(S), NEW e \in S, SinRepetidos(s), e \notin Elementos(s)
  PROVE  SinRepetidos(Append(s, e))
<1>1. /\ Len(s) \in Nat /\ DOMAIN s = 1 .. Len(s)
      /\ DOMAIN Append(s, e) = 1 .. Len(s) + 1
      /\ \A i \in 1 .. Len(s) : Append(s, e)[i] = s[i]
      /\ Append(s, e)[Len(s) + 1] = e
  BY Agregar, LenProperties
<1>2. \A i \in 1 .. Len(s) : s[i] # e
  BY <1>1 DEF Elementos
<1>3. \A i, j \in 1 .. Len(s) : s[i] = s[j] => i = j
  BY <1>1 DEF SinRepetidos
<1>4. \A i \in 1 .. Len(s) + 1 : i \in 1 .. Len(s) \/ i = Len(s) + 1
  BY <1>1
<1> QED BY <1>1, <1>2, <1>3, <1>4 DEF SinRepetidos

LEMMA SinRepetidosQuitar ==
  ASSUME NEW S, NEW s \in Seq(S), s # <<>>, SinRepetidos(s)
  PROVE  SinRepetidos(Tail(s)) /\ Elementos(Tail(s)) = Elementos(s) \ {Head(s)}
<1>1. /\ Head(s) = s[1] /\ Len(s) \in Nat \ {0} /\ DOMAIN s = 1 .. Len(s)
      /\ DOMAIN Tail(s) = 1 .. Len(s) - 1
      /\ \A i \in 1 .. Len(s) - 1 : Tail(s)[i] = s[i + 1]
      /\ Elementos(s) = Elementos(Tail(s)) \cup {Head(s)}
  BY Quitar
<1>2. \A i, j \in 1 .. Len(s) : s[i] = s[j] => i = j
  BY <1>1 DEF SinRepetidos
<1>3. \A i \in 1 .. Len(s) - 1 : i + 1 \in 1 .. Len(s) /\ i + 1 # 1
  BY <1>1
<1>4. ASSUME NEW i \in 1 .. Len(s) - 1, NEW j \in 1 .. Len(s) - 1, Tail(s)[i] = Tail(s)[j]
      PROVE  i = j
  <2>1. i + 1 = j + 1
    BY <1>1, <1>2, <1>3, <1>4
  <2> QED BY <2>1
<1>5. ASSUME NEW i \in 1 .. Len(s) - 1 PROVE Tail(s)[i] # Head(s)
  <2>1. i + 1 \in 1 .. Len(s) /\ 1 \in 1 .. Len(s) /\ i + 1 # 1 /\ Tail(s)[i] = s[i + 1]
    BY <1>1, <1>3
  <2> QED BY <1>1, <1>2, <2>1
<1>6. Head(s) \notin Elementos(Tail(s))
  BY <1>1, <1>5 DEF Elementos
<1> QED BY <1>1, <1>4, <1>6 DEF SinRepetidos

-------------------------------------------------------------------------------
(* Steps of the server: the creation of a thread *)

LEMMA PasoThreadCreate ==
  ASSUME Invariante, NEW p \in Proceso, NEW h \in Hilo, procesarThreadCreate(p, h), UNCHANGED hilolay
  PROVE  Invariante'
<1>1. /\ Recibido(p, "SUSE_CREATE", h) /\ ConsumirPedido(p) /\ etapa[p] = "bucle"
      /\ UNCHANGED <<respuesta, abierto, etapa, threads_bloqueados, running_thread,
                     g_blocked_threads, g_exit_threads, semaforos>>
      /\ AdmitirThread(p, h) \/ EncolarThread(p, h)
  BY DEF procesarThreadCreate, Atender
<1>2. /\ estado'[h] \in {"READY", "NEW"}
      /\ \A t \in Hilo : t # h => estado'[t] = estado[t]
  BY <1>1, Tipos DEF AdmitirThread, EncolarThread
<1>3. h \in ults[p] /\ estado[h] = "SIN_CREAR" /\ padre[h] = p
  BY <1>1, <1>2, ConsumoCreate
<1>4. InvPedido(p)' /\ InvFase(p)' /\ InvEtapa(p)'
  BY <1>1, <1>2, ProtocoloCreate
<1>5. /\ pedido' \in [Proceso -> Seq(Pedido)] /\ \A q \in Proceso \ {p} : pedido'[q] = pedido[q]
  BY <1>1, Consumo
<1>6. SirveSolo(p)
  BY <1>1, <1>2, <1>3, <1>5 DEF SirveSolo
<1>7. h # principal[padre[h]]
  <2>1. InvEtapa(p)
    BY Hechos
  <2> QED BY <1>1, <1>3, <2>1 DEF InvEtapa
<1>8. EsperaUnica' /\ SemaforoConsistente'
  <2>1. EsperaUnica'
    BY <1>1, <1>2, MarcoEsperas DEF semaforos
  <2> QED BY <1>1, <2>1, MarcoSemaforos
<1>9. InvLista(h) /\ ults' = ults /\ h \notin Elementos(g_new_threads) /\ SinRepetidos(g_new_threads)
  BY <1>3 DEF Invariante, InvListas, InvLista, InvPropias, hilolay
<1>10. CASE AdmitirThread(p, h)
  <2>1. /\ g_multiprog_max > 0 /\ estado' = [estado EXCEPT ![h] = "READY"]
        /\ ready' = [ready EXCEPT ![p] = @ \cup {h}]
        /\ g_multiprog_max' = g_multiprog_max - 1 /\ g_new_threads' = g_new_threads
    BY <1>10 DEF AdmitirThread, HayLugar
  <2>2. /\ estado'[h] = "READY" /\ ready'[p] = ready[p] \cup {h}
        /\ \A q \in Proceso : q # p => ready'[q] = ready[q]
    BY <2>1, Tipos
  <2>3. SuseTipo'
    BY <1>1, <2>1, Tipos DEF SuseTipo, semaforos, Estado
  <2>4. InvListas'
    <3>1. InvPropias'
      BY <1>1, <1>3, <2>1, <2>2 DEF Invariante, InvListas, InvPropias, SinRepetidos
    <3>2. ASSUME NEW t \in Hilo PROVE InvLista(t)'
      <4>1. InvLista(t) /\ padre[t] \in Proceso
        BY HilosAssumption DEF Invariante, InvListas
      <4>2. h \in ready[p] => estado[h] \in {"READY", "BLOCKED"}
        BY <1>3, <1>9 DEF InvLista
      <4>3. CASE t = h
        BY <1>1, <1>3, <1>9, <2>1, <2>2, <4>3 DEF InvLista, Elementos
      <4>4. CASE t # h
        <5>1. estado'[t] = estado[t] /\ (t \in ready'[padre[t]] <=> t \in ready[padre[t]])
          BY <1>2, <2>2, <4>1, <4>4
        <5> QED BY <1>1, <1>9, <2>1, <4>1, <5>1 DEF InvLista, Elementos
      <4> QED BY <4>3, <4>4
    <3> QED BY <3>1, <3>2 DEF InvListas
  <2>5. MultiprogConservado'
    <3>1. h \notin Admitidos /\ Admitidos' = Admitidos \cup {h}
      BY <1>2, <1>3, <1>7, <2>2 DEF Admitidos
    <3> QED BY <2>1, <3>1, AdmitidosMas
  <2>6. NewSoloSinLugar'
    BY <2>1 DEF Invariante, NewSoloSinLugar
  <2> QED BY <1>1, <1>4, <1>5, <1>6, <1>8, <2>3, <2>4, <2>5, <2>6, Tipos, PasoDeServidor
<1>11. CASE EncolarThread(p, h)
  <2>1. /\ ~ (g_multiprog_max > 0) /\ estado' = [estado EXCEPT ![h] = "NEW"]
        /\ g_new_threads' = Append(g_new_threads, h)
        /\ ready' = ready /\ g_multiprog_max' = g_multiprog_max
    BY <1>11 DEF EncolarThread, HayLugar
  <2>2. estado'[h] = "NEW" /\ g_new_threads \in Seq(Hilo)
    BY <2>1, Tipos
  <2>3. /\ g_new_threads' \in Seq(Hilo) /\ SinRepetidos(g_new_threads')
        /\ Elementos(g_new_threads') = Elementos(g_new_threads) \cup {h}
    BY <1>9, <2>1, <2>2, Agregar, SinRepetidosAgregar
  <2>4. SuseTipo'
    BY <1>1, <2>1, <2>3, Tipos DEF SuseTipo, semaforos, Estado
  <2>5. InvListas'
    <3>1. InvPropias'
      BY <1>1, <2>1, <2>3 DEF Invariante, InvListas, InvPropias, SinRepetidos
    <3>2. ASSUME NEW t \in Hilo PROVE InvLista(t)'
      <4>1. InvLista(t) /\ Elementos(g_new_threads)' = Elementos(g_new_threads) \cup {h}
        BY <2>3 DEF Invariante, InvListas, Elementos
      <4>2. CASE t = h
        BY <1>1, <1>3, <1>7, <1>9, <2>1, <2>2, <4>1, <4>2 DEF InvLista
      <4>3. CASE t # h
        BY <1>1, <1>2, <1>9, <2>1, <4>1, <4>3 DEF InvLista
      <4> QED BY <4>2, <4>3
    <3> QED BY <3>1, <3>2 DEF InvListas
  <2>6. MultiprogConservado'
    <3>1. Admitidos' = Admitidos
      BY <1>2, <1>3, <2>2 DEF Admitidos
    <3> QED BY <2>1, <3>1, AdmitidosIgual
  <2>7. NewSoloSinLugar'
    BY <2>1, Tipos DEF NewSoloSinLugar
  <2> QED BY <1>1, <1>4, <1>5, <1>6, <1>8, <2>4, <2>5, <2>6, <2>7, Tipos, PasoDeServidor
<1> QED BY <1>1, <1>10, <1>11

-------------------------------------------------------------------------------
(* Steps of the server: the end of a thread *)

(* Those who wait for h in a join are blocked, and wait for nothing else.    *)
LEMMA EsperanSolo ==
  ASSUME Invariante, NEW h \in Hilo, NEW x \in threads_bloqueados[h]
  PROVE  /\ x \in Hilo /\ x \in g_blocked_threads /\ estado[x] = "BLOCKED"
         /\ \A s \in Semaforo : x \notin Elementos(cola[s])
         /\ \A t \in Hilo : t # h => x \notin threads_bloqueados[t]
<1>1. x \in Hilo
  BY Tipos
<1>2. h \in Esperas(x)
  BY DEF Esperas
<1>3. x \in g_blocked_threads /\ Esperas(x) = {h}
  BY <1>1, <1>2 DEF Invariante, EsperaUnica
<1>4. estado[x] = "BLOCKED"
  BY <1>1, <1>3 DEF Invariante, InvListas, InvLista
<1>5. \A s \in Semaforo : s \notin Hilo
  BY NombresAssumption, ConfigAssumption
<1> QED BY <1>1, <1>3, <1>4, <1>5 DEF Esperas

(* The end of h: its joiners leave the blocked list, and the NEW threads N   *)
(* are admitted.                                                             *)
Cierra(h, N) ==
  /\ running_thread' = running_thread /\ UNCHANGED semaforos
  /\ g_exit_threads' = g_exit_threads \cup {h}
  /\ g_blocked_threads' = g_blocked_threads \ threads_bloqueados[h]
  /\ threads_bloqueados' = [threads_bloqueados EXCEPT ![h] = {}]
  /\ ready' = AgregarAReady(threads_bloqueados[h] \cup N)
  /\ estado' \in [Hilo -> Estado] /\ estado'[h] = "EXIT"
  /\ \A t \in N : estado[t] = "NEW" /\ estado'[t] = "READY"
  /\ \A t \in Hilo : t \notin N /\ t # h => estado'[t] = estado[t]
  /\ SinRepetidos(g_new_threads') /\ g_new_threads' \in Seq(Hilo)
  /\ Elementos(g_new_threads') = Elementos(g_new_threads) \ N

LEMMA CierreDeThread ==
  ASSUME Invariante, NEW p \in Proceso, NEW h \in Hilo, NEW N \in SUBSET Hilo,
         estado[h] = "RUNNING", padre[h] = p, UNCHANGED hilolay, Cierra(h, N)
  PROVE  InvListas' /\ EsperaUnica' /\ SemaforoConsistente'
<1> DEFINE J == threads_bloqueados[h]
<1> USE DEF Cierra
<1>1. /\ J \subseteq Hilo /\ h \notin J /\ h \notin N
      /\ \A x \in J : x \in g_blocked_threads /\ estado[x] = "BLOCKED" /\ x \notin N
  BY EsperanSolo
<1>2. /\ threads_bloqueados'[h] = {}
      /\ \A t \in Hilo : t # h => threads_bloqueados'[t] = threads_bloqueados[t]
      /\ g_blocked_threads' = g_blocked_threads \ J
      /\ cola' = cola
  BY Tipos DEF semaforos
<1>3. \A q \in Proceso : ready'[q] = ready[q] \cup {x \in J \cup N : padre[x] = q}
  BY DEF AgregarAReady
<1>4. \A x \in J : /\ \A s \in Semaforo : x \notin Elementos(cola[s])
                   /\ \A t \in Hilo : t # h => x \notin threads_bloqueados[t]
  BY EsperanSolo
<1> HIDE DEF J
<1>5. EsperaUnica'
  <2>1. ASSUME NEW x \in Hilo, x \in J PROVE Esperas(x)' = {} /\ x \notin g_blocked_threads'
    BY <1>2, <1>4, <2>1 DEF Esperas, Elementos
  <2>2. ASSUME NEW x \in Hilo, x \notin J
        PROVE  Esperas(x)' = Esperas(x) /\ (x \in g_blocked_threads' <=> x \in g_blocked_threads)
    BY <1>2, <2>2 DEF Esperas, Elementos, J
  <2>3. \A x \in Hilo : IF x \in g_blocked_threads
          THEN \E e \in Semaforo \cup Hilo : Esperas(x) = {e} ELSE Esperas(x) = {}
    BY DEF Invariante, EsperaUnica
  <2>4. \A x \in Hilo : IF x \in g_blocked_threads'
          THEN \E e \in Semaforo \cup Hilo : Esperas(x)' = {e} ELSE Esperas(x)' = {}
    BY <2>1, <2>2, <2>3
  <2>5. \A t \in Hilo : estado'[t] = "EXIT" => threads_bloqueados'[t] = {}
    BY <1>2 DEF Invariante, EsperaUnica
  <2> QED BY <1>2, <2>4, <2>5 DEF Invariante, EsperaUnica, SinRepetidos
<1>6. InvListas'
  <2>1. InvPropias'
    BY <1>3 DEF Invariante, InvListas, InvPropias
  <2>2. ASSUME NEW t \in Hilo PROVE InvLista(t)'
    <3>1. InvLista(t) /\ padre[t] \in Proceso /\ ults' = ults
      BY HilosAssumption DEF Invariante, InvListas, hilolay
    <3>2. /\ t \in ready'[padre[t]] <=> t \in ready[padre[t]] \/ t \in J \cup N
          /\ t \in Elementos(g_new_threads') <=> t \in Elementos(g_new_threads) /\ t \notin N
          /\ Elementos(g_new_threads)' = Elementos(g_new_threads')
      BY <1>3, <3>1 DEF Elementos
    <3>3. CASE t = h
      BY <1>1, <3>1, <3>2, <3>3 DEF InvLista
    <3>4. CASE t \in N
      BY <1>1, <1>2, <3>1, <3>2, <3>4 DEF InvLista
    <3>5. CASE t \in J
      <4>1. estado'[t] = "BLOCKED" /\ t # h /\ t \notin N
        BY <1>1, <3>5
      <4> QED BY <1>1, <1>2, <3>1, <3>2, <3>5, <4>1 DEF InvLista
    <3>6. CASE t # h /\ t \notin J \cup N
      BY <1>1, <1>2, <3>1, <3>2, <3>6 DEF InvLista
    <3> QED BY <3>3, <3>4, <3>5, <3>6
  <2> QED BY <2>1, <2>2 DEF InvListas
<1> QED BY <1>5, <1>6, MarcoSemaforos

LEMMA PasoThreadClose ==
  ASSUME Invariante, NEW p \in Proceso, procesarThreadClose(p), UNCHANGED hilolay
  PROVE  Invariante'
<1>1. PICK arg \in Hilo : Atender(p, "SUSE_CLOSE", arg)
  BY DEF procesarThreadClose
<1> DEFINE h == running_thread[p]
           J == threads_bloqueados[h]
<1>2. /\ pedido' \in [Proceso -> Seq(Pedido)]
      /\ \A q \in Proceso \ {p} : pedido'[q] = pedido[q]
      /\ etapa[p] = "bucle" /\ etapa' = etapa /\ abierto' = abierto
      /\ respuesta[p] = <<>> /\ h # Nulo /\ h \in Hilo /\ padre[h] = p
      /\ estado[h] = "RUNNING"
  <2>1. "SUSE_CLOSE" \in OpConRespuesta /\ "SUSE_CLOSE" # "SUSE_SCHEDULE_NEXT"
    BY DEF OpConRespuesta
  <2> QED BY <1>1, <2>1, Atencion, NuloAssumption
<1>3. /\ respuesta' = enviarPaquetes(respuesta, p, "SUSE_CLOSE", 0)
      /\ g_exit_threads' = g_exit_threads \cup {h}
      /\ g_blocked_threads' = g_blocked_threads \ J
      /\ threads_bloqueados' = [threads_bloqueados EXCEPT ![h] = {}]
      /\ LiberarAdmision(h, J)
      /\ running_thread' = running_thread /\ UNCHANGED semaforos
  BY <1>2 DEF procesarThreadClose, CerrarThread, Responder, OK
<1> HIDE DEF h
<1>4. /\ respuesta' \in [Proceso -> Seq(Respuesta)]
      /\ \A q \in Proceso \ {p} : respuesta'[q] = respuesta[q]
      /\ p \notin abierto => respuesta'[p] = <<>>
      /\ p \in abierto => Len(respuesta'[p]) = 1 /\ respuesta'[p][1].op = "SUSE_CLOSE"
  <2>1. [op |-> "SUSE_CLOSE", valor |-> 0] \in Respuesta
    BY DEF Respuesta, OpConRespuesta
  <2>2. /\ respuesta' \in [Proceso -> Seq(Respuesta)]
        /\ \A q \in Proceso \ {p} : respuesta'[q] = respuesta[q]
        /\ p \notin abierto => respuesta'[p] = <<>>
        /\ p \in abierto => Len(respuesta'[p]) = 1
                            /\ respuesta'[p][1] = [op |-> "SUSE_CLOSE", valor |-> 0]
    BY <1>2, <1>3, <2>1, Tipos, Entrega
  <2> QED BY <2>2
<1>5. ASSUME NEW N \in SUBSET Hilo,
             Cierra(h, N), g_multiprog_max' \in Nat,
             MultiprogConservado', NewSoloSinLugar'
      PROVE  Invariante'
  <2>1. InvListas' /\ EsperaUnica' /\ SemaforoConsistente'
    BY <1>2, <1>5, CierreDeThread
  <2>2. InvPedido(p)' /\ InvFase(p)' /\ InvEtapa(p)'
    <3>1. \A t \in Hilo : estado[t] # "SIN_CREAR" => estado'[t] # "SIN_CREAR"
      BY <1>5 DEF Cierra
    <3>2. running_thread'[p] # Nulo
      BY <1>2, <1>3 DEF h
    <3>3. "SUSE_CLOSE" \in OpConRespuesta
      BY DEF OpConRespuesta
    <3> QED BY <1>1, <1>4, <3>1, <3>2, <3>3, OperacionRespondida
  <2>3. SirveSolo(p)
    <3>1. ASSUME NEW t \in Hilo, padre[t] # p
          PROVE  /\ (estado'[t] = "SIN_CREAR") <=> (estado[t] = "SIN_CREAR")
                 /\ estado[t] = "RUNNING" => estado'[t] = "RUNNING"
      BY <1>2, <1>5, <3>1 DEF Cierra
    <3> QED BY <1>2, <1>3, <1>4, <3>1 DEF SirveSolo
  <2>4. SuseTipo'
    <3>1. ready' \in [Proceso -> SUBSET Hilo]
      BY <1>2, <1>5, Tipos DEF AgregarAReady, Cierra
    <3> QED BY ZenonT(60), <1>2, <1>3, <1>5, <3>1, Tipos DEF SuseTipo, semaforos, Cierra
  <2> QED BY <1>2, <1>4, <1>5, <2>1, <2>2, <2>3, <2>4, PasoDeServidor
<1>6. SinRepetidos(g_new_threads) /\ g_new_threads \in Seq(Hilo)
  BY Tipos DEF Invariante, InvListas, InvPropias
<1>7. CASE h = principal[padre[h]]
  <2>1. /\ estado' = [estado EXCEPT ![h] = "EXIT"] /\ ready' = AgregarAReady(J \cup {})
        /\ g_new_threads' = g_new_threads /\ g_multiprog_max' = g_multiprog_max
    BY <1>3, <1>7 DEF LiberarAdmision
  <2>2. /\ estado' \in [Hilo -> Estado] /\ estado'[h] = "EXIT"
        /\ \A t \in Hilo : t # h => estado'[t] = estado[t]
    BY <1>2, <2>1, Tipos DEF Estado
  <2>3. Admitidos' = Admitidos
    BY <1>7, <2>2 DEF Admitidos
  <2>4. MultiprogConservado' /\ NewSoloSinLugar' /\ g_multiprog_max' \in Nat
    BY <2>1, <2>3, AdmitidosIgual, Tipos DEF Invariante, NewSoloSinLugar
  <2>5. Cierra(h, {})
    BY <1>3, <1>6, <2>1, <2>2 DEF Cierra
  <2> QED BY <1>5, <2>4, <2>5
<1>8. CASE h # principal[padre[h]] /\ g_new_threads = <<>>
  <2>1. /\ estado' = [estado EXCEPT ![h] = "EXIT"] /\ ready' = AgregarAReady(J \cup {})
        /\ g_new_threads' = g_new_threads /\ g_multiprog_max' = g_multiprog_max + 1
    BY <1>3, <1>8 DEF LiberarAdmision
  <2>2. /\ estado' \in [Hilo -> Estado] /\ estado'[h] = "EXIT"
        /\ \A t \in Hilo : t # h => estado'[t] = estado[t]
    BY <1>2, <2>1, Tipos DEF Estado
  <2>3. h \in Admitidos /\ Admitidos' = Admitidos \ {h}
    BY <1>2, <1>8, <2>2 DEF Admitidos
  <2>4. MultiprogConservado' /\ NewSoloSinLugar' /\ g_multiprog_max' \in Nat
    BY <1>8, <2>1, <2>3, AdmitidosMenos, Tipos DEF NewSoloSinLugar
  <2>5. Cierra(h, {})
    BY <1>3, <1>6, <2>1, <2>2 DEF Cierra
  <2> QED BY <1>5, <2>4, <2>5
<1>9. CASE h # principal[padre[h]] /\ g_new_threads # <<>>
  <2> DEFINE n == Head(g_new_threads)
  <2>1. /\ estado' = [estado EXCEPT ![h] = "EXIT", ![n] = "READY"]
        /\ ready' = AgregarAReady(J \cup {n})
        /\ g_new_threads' = Tail(g_new_threads) /\ g_multiprog_max' = g_multiprog_max
    BY <1>3, <1>9 DEF LiberarAdmision
  <2>2. /\ n \in Hilo /\ n \in Elementos(g_new_threads)
        /\ g_new_threads' \in Seq(Hilo) /\ SinRepetidos(g_new_threads')
        /\ Elementos(g_new_threads') = Elementos(g_new_threads) \ {n}
    BY <1>6, <1>9, <2>1, Quitar, SinRepetidosQuitar
  <2> HIDE DEF n
  <2>3. estado[n] = "NEW" /\ n # h
    BY <1>2, <2>2 DEF Invariante, InvListas, InvLista
  <2>4. /\ estado' \in [Hilo -> Estado] /\ estado'[h] = "EXIT" /\ estado'[n] = "READY"
        /\ \A t \in Hilo : t # h /\ t # n => estado'[t] = estado[t]
    BY <1>2, <2>1, <2>2, <2>3, Tipos DEF Estado
  <2>5. n # principal[padre[n]]
    BY <2>2, <2>3 DEF Invariante, InvListas, InvLista
  <2>6. h \in Admitidos /\ n \notin Admitidos /\ Admitidos' = (Admitidos \ {h}) \cup {n}
    BY <1>2, <1>9, <2>2, <2>3, <2>4, <2>5 DEF Admitidos
  <2>7. MultiprogConservado' /\ NewSoloSinLugar' /\ g_multiprog_max' \in Nat
    BY <1>9, <2>1, <2>6, AdmitidosReemplazo, Tipos DEF Invariante, NewSoloSinLugar
  <2>8. Cierra(h, {n}) /\ {n} \in SUBSET Hilo
    BY <1>3, <2>1, <2>2, <2>3, <2>4 DEF Cierra
  <2> QED BY <1>5, <2>7, <2>8
<1> QED BY <1>7, <1>8, <1>9

-------------------------------------------------------------------------------
(* Steps of the server: join, wait, schedule_next *)

(* The response to the request just read.                                    *)
LEMMA RespuestaUnica ==
  ASSUME Invariante, NEW p \in Proceso, NEW op \in OpConRespuesta, NEW arg,
         NEW valor \in Hilo \cup Int, Atender(p, op, arg), Responder(p, op, valor)
  PROVE  /\ respuesta' \in [Proceso -> Seq(Respuesta)]
         /\ \A q \in Proceso \ {p} : respuesta'[q] = respuesta[q]
         /\ p \notin abierto => respuesta'[p] = <<>>
         /\ p \in abierto => /\ Len(respuesta'[p]) = 1
                             /\ respuesta'[p][1].op = op /\ respuesta'[p][1].valor = valor
<1>1. respuesta[p] = <<>>
  BY Atencion
<1>2. [op |-> op, valor |-> valor] \in Respuesta
  BY DEF Respuesta
<1>3. /\ respuesta' \in [Proceso -> Seq(Respuesta)]
      /\ \A q \in Proceso \ {p} : respuesta'[q] = respuesta[q]
      /\ p \notin abierto => respuesta'[p] = <<>>
      /\ p \in abierto => /\ Len(respuesta'[p]) = 1
                          /\ respuesta'[p][1] = [op |-> op, valor |-> valor]
  <2>1. respuesta \in [Proceso -> Seq(Respuesta)]
    BY Tipos
  <2>2. respuesta' = enviarPaquetes(respuesta, p, op, valor)
    BY DEF Responder
  <2> QED BY <1>1, <1>2, <2>1, <2>2, Entrega
<1> QED BY <1>3

(* A handler that answers and leaves the running thread of every process.    *)
LEMMA PasoRespondido ==
  ASSUME Invariante, NEW p \in Proceso, NEW op \in OpConRespuesta, NEW arg, NEW valor \in Int,
         Atender(p, op, arg), Responder(p, op, valor), UNCHANGED hilolay,
         op # "SUSE_SCHEDULE_NEXT", running_thread' = running_thread,
         \A t \in Hilo : /\ (estado'[t] = "SIN_CREAR") <=> (estado[t] = "SIN_CREAR")
                         /\ padre[t] # p /\ estado[t] = "RUNNING" => estado'[t] = "RUNNING",
         SuseTipo', InvListas', EsperaUnica', SemaforoConsistente',
         MultiprogConservado', NewSoloSinLugar'
  PROVE  Invariante'
<1>1. /\ pedido' \in [Proceso -> Seq(Pedido)]
      /\ \A q \in Proceso \ {p} : pedido'[q] = pedido[q]
      /\ etapa' = etapa /\ abierto' = abierto /\ running_thread[p] \in Hilo
  BY Atencion
<1>2. /\ respuesta' \in [Proceso -> Seq(Respuesta)]
      /\ \A q \in Proceso \ {p} : respuesta'[q] = respuesta[q]
      /\ p \notin abierto => respuesta'[p] = <<>>
      /\ p \in abierto => Len(respuesta'[p]) = 1 /\ respuesta'[p][1].op = op
  BY RespuestaUnica
<1>3. running_thread'[p] # Nulo
  BY <1>1, NuloAssumption
<1>4. InvPedido(p)' /\ InvFase(p)' /\ InvEtapa(p)'
  BY <1>2, <1>3, OperacionRespondida
<1>5. SirveSolo(p)
  BY <1>1, <1>2 DEF SirveSolo
<1> QED BY <1>1, <1>2, <1>4, <1>5, PasoDeServidor

(* The running thread blocks.                                                *)
LEMMA BloqueoListas ==
  ASSUME Invariante, NEW r \in Hilo, estado[r] = "RUNNING",
         estado' = [estado EXCEPT ![r] = "BLOCKED"],
         g_blocked_threads' = g_blocked_threads \cup {r},
         UNCHANGED <<running_thread, ready, g_new_threads, g_exit_threads, g_multiprog_max>>,
         UNCHANGED hilolay
  PROVE  /\ InvListas' /\ MultiprogConservado' /\ NewSoloSinLugar'
         /\ estado' \in [Hilo -> Estado] /\ g_blocked_threads' \subseteq Hilo
         /\ \A t \in Hilo : t # r => estado'[t] = estado[t]
         /\ estado'[r] = "BLOCKED"
<1>1. /\ estado' \in [Hilo -> Estado] /\ g_blocked_threads' \subseteq Hilo
      /\ estado'[r] = "BLOCKED" /\ \A t \in Hilo : t # r => estado'[t] = estado[t]
  BY Tipos DEF Estado
<1>2. InvPropias' /\ NewSoloSinLugar'
  BY DEF Invariante, InvListas, InvPropias, SinRepetidos, NewSoloSinLugar
<1>3. ASSUME NEW t \in Hilo PROVE InvLista(t)'
  <2>1. InvLista(t) /\ ults' = ults
    BY DEF Invariante, InvListas, hilolay
  <2>2. CASE t = r
    BY <1>1, <2>1, <2>2 DEF InvLista, Elementos
  <2>3. CASE t # r
    BY <1>1, <2>1, <2>3 DEF InvLista, Elementos
  <2> QED BY <2>2, <2>3
<1>4. Admitidos' = Admitidos
  BY <1>1 DEF Admitidos
<1> QED BY <1>1, <1>2, <1>3, <1>4, AdmitidosIgual DEF InvListas

(* What a wait or a join that blocks r does to who waits for what.           *)
LEMMA BloqueoEsperas ==
  ASSUME Invariante, NEW r \in Hilo, estado[r] = "RUNNING", NEW e \in Semaforo \cup Hilo,
         g_blocked_threads' = g_blocked_threads \cup {r},
         Esperas(r)' = Esperas(r) \cup {e},
         \A t \in Hilo : t # r => Esperas(t)' = Esperas(t),
         \A s \in Semaforo : SinRepetidos(cola'[s]),
         \A t \in Hilo : estado'[t] = "EXIT" => threads_bloqueados'[t] = {}
  PROVE  EsperaUnica'
<1>1. r \notin g_blocked_threads
  BY DEF Invariante, InvListas, InvLista
<1>2. Esperas(r) = {}
  BY <1>1 DEF Invariante, EsperaUnica
<1>3. Esperas(r)' = {e}
  BY <1>2
<1>4. \A t \in Hilo : t # r =>
        IF t \in g_blocked_threads'
        THEN \E x \in Semaforo \cup Hilo : Esperas(t)' = {x} ELSE Esperas(t)' = {}
  BY DEF Invariante, EsperaUnica
<1>5. r \in g_blocked_threads' /\ \E x \in Semaforo \cup Hilo : Esperas(r)' = {x}
  BY <1>3
<1>6. \A t \in Hilo :
        IF t \in g_blocked_threads'
        THEN \E x \in Semaforo \cup Hilo : Esperas(t)' = {x} ELSE Esperas(t)' = {}
  BY <1>4, <1>5
<1> QED BY <1>6 DEF EsperaUnica, SinRepetidos

LEMMA PasoThreadJoin ==
  ASSUME Invariante, NEW p \in Proceso, NEW tid \in Hilo, procesarThreadJoin(p, tid),
         UNCHANGED hilolay
  PROVE  Invariante'
<1>1. Atender(p, "SUSE_JOIN", tid)
  BY DEF procesarThreadJoin
<1>2. "SUSE_JOIN" \in OpConRespuesta /\ "SUSE_JOIN" # "SUSE_SCHEDULE_NEXT"
  BY DEF OpConRespuesta
<1>0. running_thread[p] \in Hilo
  BY <1>1, <1>2, Atencion
<1> PICK r \in Hilo : r = running_thread[p]
  BY <1>0
<1>3. /\ r \in Hilo /\ padre[r] = p /\ estado[r] = "RUNNING" /\ r # Nulo
      /\ tid \in ults[p] /\ estado[tid] # "SIN_CREAR" /\ padre[tid] = p
      /\ etapa' = etapa
  BY <1>1, <1>2, Atencion, NuloAssumption
<1>4. /\ Responder(p, "SUSE_JOIN", 0)
      /\ IF tid \in g_exit_threads
         THEN UNCHANGED <<estado, g_blocked_threads, threads_bloqueados>>
         ELSE BloquearPorJoin(r, find_thread_by_tid_in_parent(p, tid))
      /\ UNCHANGED <<running_thread, ready, g_new_threads, g_exit_threads, g_multiprog_max>>
      /\ UNCHANGED semaforos
  BY <1>3 DEF procesarThreadJoin, OK
<1>5. CASE tid \in g_exit_threads
  <2>1. UNCHANGED <<listas, semaforos, g_multiprog_max>>
    BY <1>4, <1>5 DEF listas
  <2>2. SuseTipo' /\ estado' = estado
    BY <1>3, <2>1 DEF Invariante, TypeOK, SuseTipo, listas, semaforos
  <2>3. \A q \in Proceso : ults[q] \subseteq ults'[q]
    BY DEF hilolay
  <2>4. /\ InvListas' /\ EsperaUnica' /\ SemaforoConsistente'
        /\ MultiprogConservado' /\ NewSoloSinLugar'
    BY <2>1, <2>3, MarcoServidor
  <2> QED BY <1>1, <1>2, <1>4, <2>2, <2>4, PasoRespondido
<1>6. CASE tid \notin g_exit_threads
  <2>1. find_thread_by_tid_in_parent(p, tid) = tid
    <3>1. InvLista(tid) /\ estado[tid] \in Estado
      BY Tipos DEF Invariante, InvListas
    <3> QED BY <1>3, <3>1 DEF InvLista, Estado, find_thread_by_tid_in_parent
  <2>2. /\ estado' = [estado EXCEPT ![r] = "BLOCKED"]
        /\ g_blocked_threads' = g_blocked_threads \cup {r}
        /\ threads_bloqueados' = [threads_bloqueados EXCEPT ![tid] = @ \cup {r}]
    BY <1>4, <1>6, <2>1 DEF BloquearPorJoin
  <2>3. /\ InvListas' /\ MultiprogConservado' /\ NewSoloSinLugar'
        /\ estado' \in [Hilo -> Estado] /\ g_blocked_threads' \subseteq Hilo
        /\ \A t \in Hilo : t # r => estado'[t] = estado[t]
        /\ estado'[r] = "BLOCKED"
    BY <1>3, <1>4, <2>2, BloqueoListas
  <2>4. /\ threads_bloqueados'[tid] = threads_bloqueados[tid] \cup {r}
        /\ \A t \in Hilo : t # tid => threads_bloqueados'[t] = threads_bloqueados[t]
        /\ threads_bloqueados' \in [Hilo -> SUBSET Hilo] /\ cola' = cola
    BY <1>3, <1>4, <2>2, Tipos DEF semaforos
  <2>5. EsperaUnica'
    <3>1. Esperas(r)' = Esperas(r) \cup {tid}
      <4>1. \A t \in Hilo : r \in threads_bloqueados'[t] <=> r \in threads_bloqueados[t] \/ t = tid
        BY <2>4
      <4> QED BY <2>4, <4>1, Zenon DEF Esperas, Elementos
    <3>2. \A t \in Hilo : t # r => Esperas(t)' = Esperas(t)
      BY <2>4 DEF Esperas, Elementos
    <3>3. \A s \in Semaforo : SinRepetidos(cola'[s])
      BY <2>4 DEF Invariante, EsperaUnica
    <3>4. \A t \in Hilo : estado'[t] = "EXIT" => threads_bloqueados'[t] = {}
      <4>1. estado[tid] # "EXIT"
        BY <1>6 DEF Invariante, InvListas, InvLista
      <4> QED BY <1>3, <2>3, <2>4, <4>1 DEF Invariante, EsperaUnica
    <3>5. r \in Hilo /\ estado[r] = "RUNNING" /\ tid \in Semaforo \cup Hilo
      BY <1>3
    <3>6. g_blocked_threads' = g_blocked_threads \cup {r}
      BY <2>2
    <3> QED BY <3>1, <3>2, <3>3, <3>4, <3>5, <3>6, BloqueoEsperas
  <2>6. SuseTipo'
    BY <1>3, <1>4, <2>3, <2>4, Tipos DEF SuseTipo, semaforos
  <2>7. SemaforoConsistente'
    BY <1>4, MarcoSemaforos
  <2>8. \A t \in Hilo : /\ (estado'[t] = "SIN_CREAR") <=> (estado[t] = "SIN_CREAR")
                        /\ padre[t] # p /\ estado[t] = "RUNNING" => estado'[t] = "RUNNING"
    BY <1>3, <2>3
  <2> QED BY <1>1, <1>2, <1>4, <2>3, <2>5, <2>6, <2>7, <2>8, PasoRespondido
<1> QED BY <1>5, <1>6

LEMMA PasoSemWait ==
  ASSUME Invariante, NEW p \in Proceso, NEW s \in Nombre, procesarSemWait(p, s), UNCHANGED hilolay
  PROVE  Invariante'
<1>1. Atender(p, "SUSE_WAIT", s)
  BY DEF procesarSemWait
<1>2. "SUSE_WAIT" \in OpConRespuesta /\ "SUSE_WAIT" # "SUSE_SCHEDULE_NEXT"
  BY DEF OpConRespuesta
<1>3. /\ running_thread[p] \in Hilo /\ padre[running_thread[p]] = p
      /\ estado[running_thread[p]] = "RUNNING" /\ etapa' = etapa
  BY <1>1, <1>2, Atencion
<1> PICK r \in Hilo : r = running_thread[p]
  BY <1>3
<1>4. UNCHANGED <<threads_bloqueados, running_thread, ready, g_new_threads,
                  g_exit_threads, g_multiprog_max>>
  BY DEF procesarSemWait
<1>5. CASE s \notin Semaforo
  <2>1. Responder(p, "SUSE_WAIT", -22) /\ UNCHANGED <<listas, semaforos, g_multiprog_max>>
    BY <1>4, <1>5 DEF procesarSemWait, EINVAL, listas
  <2>2. SuseTipo' /\ estado' = estado
    BY <1>3, <2>1 DEF Invariante, TypeOK, SuseTipo, listas, semaforos
  <2>3. \A q \in Proceso : ults[q] \subseteq ults'[q]
    BY DEF hilolay
  <2>4. /\ InvListas' /\ EsperaUnica' /\ SemaforoConsistente'
        /\ MultiprogConservado' /\ NewSoloSinLugar'
    BY <2>1, <2>3, MarcoServidor
  <2>5. -22 \in Int
    OBVIOUS
  <2> QED BY <1>1, <1>2, <1>4, <2>1, <2>2, <2>4, <2>5, PasoRespondido
<1>6. CASE s \in Semaforo /\ current_value[s] = 0
  <2>1. /\ Responder(p, "SUSE_WAIT", 0)
        /\ estado' = [estado EXCEPT ![r] = "BLOCKED"]
        /\ cola' = [cola EXCEPT ![s] = Append(@, r)]
        /\ g_blocked_threads' = g_blocked_threads \cup {r}
        /\ current_value' = current_value
    BY <1>6 DEF procesarSemWait, OK
  <2>2. estado[r] = "RUNNING" /\ padre[r] = p
    BY <1>3
  <2>3. /\ InvListas' /\ MultiprogConservado' /\ NewSoloSinLugar'
        /\ estado' \in [Hilo -> Estado] /\ g_blocked_threads' \subseteq Hilo
        /\ \A t \in Hilo : t # r => estado'[t] = estado[t]
        /\ estado'[r] = "BLOCKED"
    BY <1>4, <2>1, <2>2, BloqueoListas
  <2>4. cola \in [Semaforo -> Seq(Hilo)] /\ cola[s] \in Seq(Hilo)
    BY <1>6, Tipos
  <2>5. /\ cola'[s] = Append(cola[s], r)
        /\ \A x \in Semaforo : x # s => cola'[x] = cola[x]
    BY <1>6, <2>1, <2>4
  <2>6. cola'[s] \in Seq(Hilo) /\ Elementos(cola'[s]) = Elementos(cola[s]) \cup {r}
    BY <2>4, <2>5, Agregar
  <2>7. cola' \in [Semaforo -> Seq(Hilo)]
    BY <1>6, <2>1, <2>4, <2>5, <2>6
  <2>8. EsperaUnica'
    <3>1. Esperas(r)' = Esperas(r) \cup {s}
      <4>1. \A x \in Semaforo : r \in Elementos(cola'[x]) <=> r \in Elementos(cola[x]) \/ x = s
        BY <2>5, <2>6
      <4>2. \A x \in Semaforo : Elementos(cola[x])' = Elementos(cola'[x])
        BY DEF Elementos
      <4> QED BY <1>4, <1>6, <4>1, <4>2 DEF Esperas
    <3>2. ASSUME NEW t \in Hilo, t # r PROVE Esperas(t)' = Esperas(t)
      <4>1. \A x \in Semaforo : t \in Elementos(cola'[x]) <=> t \in Elementos(cola[x])
        BY <2>5, <2>6, <3>2
      <4>2. \A x \in Semaforo : Elementos(cola[x])' = Elementos(cola'[x])
        BY DEF Elementos
      <4> QED BY <1>4, <4>1, <4>2 DEF Esperas
    <3>3. ASSUME NEW x \in Semaforo PROVE SinRepetidos(cola'[x])
      <4>1. SinRepetidos(cola[x])
        BY DEF Invariante, EsperaUnica
      <4>2. CASE x = s
        <5>1. r \notin g_blocked_threads
          BY <2>2 DEF Invariante, InvListas, InvLista
        <5>2. s \notin Esperas(r)
          BY <5>1 DEF Invariante, EsperaUnica
        <5>3. r \notin Elementos(cola[s])
          BY <1>6, <5>2 DEF Esperas
        <5> QED BY <2>4, <2>5, <4>1, <4>2, <5>3, SinRepetidosAgregar
      <4>3. CASE x # s
        BY <2>5, <4>1, <4>3
      <4> QED BY <4>2, <4>3
    <3>4. \A t \in Hilo : estado'[t] = "EXIT" => threads_bloqueados'[t] = {}
      BY <1>4, <2>3 DEF Invariante, EsperaUnica
    <3>5. s \in Semaforo \cup Hilo /\ g_blocked_threads' = g_blocked_threads \cup {r}
      BY <1>6, <2>1
    <3> QED BY <2>2, <3>1, <3>2, <3>3, <3>4, <3>5, BloqueoEsperas
  <2>9. SuseTipo'
    BY <1>3, <1>4, <2>1, <2>3, <2>7, Tipos DEF SuseTipo
  <2>10. SemaforoConsistente'
    BY <1>6, <2>1, <2>5 DEF Invariante, SemaforoConsistente
  <2>11. \A t \in Hilo : /\ (estado'[t] = "SIN_CREAR") <=> (estado[t] = "SIN_CREAR")
                         /\ padre[t] # p /\ estado[t] = "RUNNING" => estado'[t] = "RUNNING"
    BY <2>2, <2>3
  <2> QED BY <1>1, <1>2, <1>4, <2>1, <2>3, <2>8, <2>9, <2>10, <2>11, PasoRespondido
<1>7. CASE s \in Semaforo /\ current_value[s] # 0
  <2>1. /\ Responder(p, "SUSE_WAIT", 0)
        /\ current_value' = [current_value EXCEPT ![s] = @ - 1]
        /\ UNCHANGED <<estado, g_blocked_threads, cola>>
    BY <1>7 DEF procesarSemWait, OK
  <2>2. /\ current_value[s] \in Nat \ {0} /\ current_value'[s] = current_value[s] - 1
        /\ \A x \in Semaforo : x # s => current_value'[x] = current_value[x]
        /\ current_value' \in [Semaforo -> Nat]
    <3>1. current_value \in [Semaforo -> Nat] /\ current_value[s] \in Nat \ {0}
      BY <1>7, Tipos
    <3>2. current_value[s] - 1 \in Nat
      BY <3>1
    <3> QED BY <1>7, <2>1, <3>1, <3>2
  <2>3. SuseTipo'
    BY <1>3, <1>4, <2>1, <2>2, Tipos DEF SuseTipo
  <2>4. SemaforoConsistente'
    <3>1. ASSUME NEW x \in Semaforo
          PROVE /\ cola'[x] # <<>> => current_value'[x] = 0
                /\ current_value'[x] <= ValorMaximo[x]
      <4>1. /\ cola[x] # <<>> => current_value[x] = 0
            /\ current_value[x] <= ValorMaximo[x] /\ cola'[x] = cola[x]
            /\ ValorMaximo[x] \in Nat /\ current_value[x] \in Nat
        BY <2>1, Tipos, ConfigAssumption DEF Invariante, SemaforoConsistente
      <4> QED BY <1>7, <2>2, <4>1
    <3> QED BY <3>1 DEF SemaforoConsistente
  <2>5. EsperaUnica'
    BY <1>4, <2>1, MarcoEsperas
  <2>6. InvListas'
    BY <1>4, <2>1 DEF Invariante, InvListas, InvPropias, InvLista, Elementos, SinRepetidos, hilolay
  <2>7. MultiprogConservado' /\ NewSoloSinLugar'
    <3>1. Admitidos' = Admitidos
      BY <2>1 DEF Admitidos
    <3> QED BY <1>4, <3>1, AdmitidosIgual DEF Invariante, NewSoloSinLugar
  <2> QED BY <1>1, <1>2, <1>4, <2>1, <2>3, <2>4, <2>5, <2>6, <2>7, PasoRespondido
<1> QED BY <1>5, <1>6, <1>7

LEMMA PasoScheduleNext ==
  ASSUME Invariante, NEW p \in Proceso, procesarThreadScheduleNext(p), UNCHANGED hilolay
  PROVE  Invariante'
<1>1. Atender(p, "SUSE_SCHEDULE_NEXT", Nulo)
  BY DEF procesarThreadScheduleNext
<1>2. "SUSE_SCHEDULE_NEXT" \in OpConRespuesta
  BY DEF OpConRespuesta
<1>3. /\ pedido' \in [Proceso -> Seq(Pedido)]
      /\ \A q \in Proceso \ {p} : pedido'[q] = pedido[q]
      /\ running_thread[p] \in Hilo /\ padre[running_thread[p]] = p
      /\ etapa' = etapa /\ abierto' = abierto /\ running_thread[p] # Nulo
  BY <1>1, <1>2, Atencion, NuloAssumption
<1> PICK r \in Hilo : r = running_thread[p]
  BY <1>3
<1>4. /\ UNCHANGED <<threads_bloqueados, g_new_threads, g_blocked_threads,
                     g_exit_threads, g_multiprog_max>>
      /\ UNCHANGED semaforos
      /\ \/ \E h \in Candidatos(p) : PonerARunning(p, h)
         \/ Candidatos(p) = {} /\ QuedarSinRunning(p)
  BY <1>3 DEF procesarThreadScheduleNext
<1>5. Candidatos(p) = IF estado[r] = "RUNNING" THEN ready[p] \cup {r} ELSE ready[p]
  BY DEF Candidatos
<1>6. \A t \in ready[p] : t \in Hilo /\ padre[t] = p /\ estado[t] \in {"READY", "BLOCKED"}
  <2>1. \A t \in ready[p] : t \in Hilo /\ padre[t] = p
    BY Tipos DEF Invariante, InvListas, InvPropias
  <2> QED BY <2>1 DEF Invariante, InvListas, InvLista
<1>7. ASSUME NEW h \in Candidatos(p), PonerARunning(p, h) PROVE Invariante'
  <2>1. h \in Hilo /\ padre[h] = p /\ estado[h] \in {"READY", "BLOCKED", "RUNNING"}
    BY <1>3, <1>5, <1>6, <1>7
  <2>2. /\ running_thread' = [running_thread EXCEPT ![p] = h]
        /\ ready' = [ready EXCEPT ![p] = Candidatos(p) \ {h}]
        /\ estado' = [[t \in Hilo |-> IF t = r /\ estado[t] = "RUNNING"
                                      THEN "READY" ELSE estado[t]] EXCEPT ![h] = "RUNNING"]
        /\ Responder(p, "SUSE_SCHEDULE_NEXT", h)
    BY <1>7 DEF PonerARunning
  <2>3. /\ running_thread'[p] = h
        /\ \A q \in Proceso : q # p => running_thread'[q] = running_thread[q] /\ ready'[q] = ready[q]
        /\ ready'[p] = Candidatos(p) \ {h}
        /\ estado'[h] = "RUNNING"
        /\ \A t \in Hilo : t # h => estado'[t] = IF t = r /\ estado[t] = "RUNNING"
                                                 THEN "READY" ELSE estado[t]
        /\ running_thread' \in [Proceso -> Hilo \cup {Nulo}]
    BY <2>1, <2>2, Tipos
  <2>4. SuseTipo'
    <3>1. estado' \in [Hilo -> Estado] /\ ready' \in [Proceso -> SUBSET Hilo]
      <4>1. Candidatos(p) \ {h} \in SUBSET Hilo
        BY <1>5, <1>6
      <4>2. [t \in Hilo |-> IF t = r /\ estado[t] = "RUNNING" THEN "READY" ELSE estado[t]]
              \in [Hilo -> Estado]
        BY Tipos DEF Estado
      <4>3. "RUNNING" \in Estado
        BY DEF Estado
      <4> QED BY <2>2, <4>1, <4>2, <4>3, Tipos
    <3> QED BY <1>3, <1>4, <2>3, <3>1, Tipos DEF SuseTipo, semaforos
  <2>5. /\ respuesta' \in [Proceso -> Seq(Respuesta)]
        /\ \A q \in Proceso \ {p} : respuesta'[q] = respuesta[q]
        /\ p \notin abierto => respuesta'[p] = <<>>
        /\ p \in abierto => /\ Len(respuesta'[p]) = 1
                            /\ respuesta'[p][1].op = "SUSE_SCHEDULE_NEXT"
                            /\ respuesta'[p][1].valor = h
    <3>1. h \in Hilo \cup Int /\ Responder(p, "SUSE_SCHEDULE_NEXT", h)
      BY <2>1, <2>2
    <3> QED BY <1>1, <1>2, <3>1, RespuestaUnica
  <2>6. \A t \in Hilo : (estado'[t] = "SIN_CREAR") <=> (estado[t] = "SIN_CREAR")
    BY <2>1, <2>3
  <2>7. InvPedido(p)' /\ InvFase(p)' /\ InvEtapa(p)'
    <3>1. running_thread'[p] # Nulo /\ estado'[running_thread'[p]] = "RUNNING"
      BY <2>1, <2>3, NuloAssumption
    <3> QED BY <1>1, <1>2, <2>3, <2>5, <2>6, <3>1, OperacionRespondida
  <2>8. SirveSolo(p)
    BY <1>3, <2>1, <2>3, <2>5, <2>6 DEF SirveSolo
  <2>9. InvListas'
    <3>1. InvPropias'
      <4>1. \A t \in ready'[p] : padre[t] = p
        BY <1>3, <1>5, <1>6, <2>3
      <4> QED BY <1>4, <2>1, <2>3, <4>1 DEF Invariante, InvListas, InvPropias, SinRepetidos
    <3>2. ASSUME NEW t \in Hilo PROVE InvLista(t)'
      <4>1. InvLista(t) /\ InvLista(h) /\ padre[t] \in Proceso /\ ults' = ults
        BY <2>1, HilosAssumption DEF Invariante, InvListas, hilolay
      <4>2. CASE t = h
        <5>1. h \notin g_blocked_threads
          BY <1>3, <1>5, <1>7, <2>1, <4>1 DEF InvLista
        <5>2. h \notin ready'[padre[h]]
          BY <2>1, <2>3
        <5> QED BY <1>4, <2>1, <2>3, <4>1, <4>2, <5>1, <5>2 DEF InvLista, Elementos
      <4>3. CASE t # h /\ t = r
        <5>1. padre[t] = p /\ (t \in ready'[p] <=> t \in Candidatos(p))
          BY <1>3, <2>3, <4>3
        <5>2. CASE estado[t] = "RUNNING"
          <6>1. estado'[t] = "READY" /\ t \in ready'[padre[t]]
            BY <1>5, <2>3, <4>3, <5>1, <5>2
          <6> QED BY <1>4, <4>1, <5>2, <6>1 DEF InvLista, Elementos
        <5>3. CASE estado[t] # "RUNNING"
          <6>1. estado'[t] = estado[t] /\ (t \in ready'[padre[t]] <=> t \in ready[padre[t]])
            BY <1>5, <2>3, <4>3, <5>1, <5>3
          <6> QED BY <1>4, <4>1, <5>3, <6>1 DEF InvLista, Elementos
        <5> QED BY <5>2, <5>3
      <4>4. CASE t # h /\ t # r
        <5>1. estado'[t] = estado[t] /\ (t \in ready'[padre[t]] <=> t \in ready[padre[t]])
          BY <1>5, <2>3, <4>1, <4>4
        <5>2. estado[t] = "RUNNING" => padre[t] # p
          BY <4>1, <4>4 DEF InvLista
        <5> QED BY <1>4, <2>3, <4>1, <5>1, <5>2 DEF InvLista, Elementos
      <4> QED BY <4>2, <4>3, <4>4
    <3> QED BY <3>1, <3>2 DEF InvListas
  <2>10. EsperaUnica'
    <3>1. \A t \in Hilo : estado'[t] = "EXIT" => estado[t] = "EXIT"
      BY <2>3
    <3> QED BY <1>4, <3>1, MarcoEsperas DEF semaforos
  <2>11. MultiprogConservado' /\ NewSoloSinLugar' /\ SemaforoConsistente'
    <3>1. Admitidos' = Admitidos
      BY <2>1, <2>3 DEF Admitidos
    <3> QED BY <1>4, <3>1, AdmitidosIgual, MarcoSemaforos DEF Invariante, NewSoloSinLugar
  <2> QED BY <1>3, <2>4, <2>5, <2>7, <2>8, <2>9, <2>10, <2>11, PasoDeServidor
<1>8. CASE Candidatos(p) = {} /\ QuedarSinRunning(p)
  <2>1. /\ running_thread' = [running_thread EXCEPT ![p] = Nulo]
        /\ UNCHANGED <<respuesta, ready, estado>>
        /\ estado[r] # "RUNNING"
    BY <1>5, <1>8 DEF QuedarSinRunning
  <2>2. /\ running_thread'[p] = Nulo
        /\ \A q \in Proceso : q # p => running_thread'[q] = running_thread[q]
        /\ running_thread' \in [Proceso -> Hilo \cup {Nulo}]
    BY <2>1, Tipos
  <2>3. SuseTipo' /\ SirveSolo(p) /\ respuesta' \in [Proceso -> Seq(Respuesta)]
    BY <1>3, <1>4, <2>1, <2>2, Tipos DEF SuseTipo, SirveSolo, semaforos
  <2>4. InvListas'
    <3>1. InvPropias'
      BY <1>4, <2>1, <2>2 DEF Invariante, InvListas, InvPropias, SinRepetidos
    <3>2. ASSUME NEW t \in Hilo PROVE InvLista(t)'
      <4>1. InvLista(t) /\ padre[t] \in Proceso /\ ults' = ults
        BY HilosAssumption DEF Invariante, InvListas, hilolay
      <4>2. estado[t] = "RUNNING" => padre[t] # p
        BY <2>1, <4>1 DEF InvLista
      <4> QED BY <1>4, <2>1, <2>2, <4>1, <4>2 DEF InvLista, Elementos
    <3> QED BY <3>1, <3>2 DEF InvListas
  <2>5. EsperaUnica'
    BY <1>4, <2>1, MarcoEsperas DEF semaforos
  <2>6. MultiprogConservado' /\ NewSoloSinLugar' /\ SemaforoConsistente'
    <3>1. Admitidos' = Admitidos
      BY <2>1 DEF Admitidos
    <3> QED BY <1>4, <3>1, AdmitidosIgual, MarcoSemaforos DEF Invariante, NewSoloSinLugar
  <2>7. InvPedido(p)' /\ InvFase(p)' /\ InvEtapa(p)'
    <3>1. /\ pedido'[p] = <<>> /\ DOMAIN pedido'[p] = {} /\ etapa[p] = "bucle"
          /\ fase[p] \in {"SUSE_SCHEDULE_NEXT", "terminado"}
          /\ (p \in abierto <=> fase[p] = "SUSE_SCHEDULE_NEXT") /\ respuesta[p] = <<>>
          /\ \A t \in ults[p] : estado[t] # "SIN_CREAR" /\ padre[t] = p
          /\ estado[principal[p]] # "SIN_CREAR"
      BY <1>1, <1>2, Atencion
    <3>2. fase' = fase /\ ults' = ults /\ current_ult' = current_ult
      BY DEF hilolay
    <3>3. InvFase(p)
      BY Hechos
    <3>4. InvFase(p)'
      <4>1. fase[p] = "SUSE_SCHEDULE_NEXT" => SinNadaQueEjecutar(p)'
        BY <1>3, <2>1, <2>2, <3>1, <3>2 DEF SinNadaQueEjecutar
      <4> QED BY <1>3, <2>1, <3>1, <3>2, <3>3, <4>1 DEF InvFase, OpConRespuesta
    <3>5. InvPedido(p)' /\ InvEtapa(p)'
      BY <1>3, <2>1, <3>1, <3>2 DEF InvPedido, InvEtapa
    <3> QED BY <3>4, <3>5
  <2> QED BY <1>3, <2>3, <2>4, <2>5, <2>6, <2>7, PasoDeServidor
<1> QED BY <1>4, <1>7, <1>8

-------------------------------------------------------------------------------
(* Steps of the server: signal *)

(* The first thread of a semaphore's queue leaves it, and stops waiting.     *)
LEMMA Liberacion ==
  ASSUME Invariante, NEW s \in Semaforo, cola[s] # <<>>, NEW h, h = Head(cola[s]),
         cola' = [cola EXCEPT ![s] = Tail(@)], current_value' = current_value,
         threads_bloqueados' = threads_bloqueados,
         g_blocked_threads' = g_blocked_threads \ {h},
         \A t \in Hilo : estado'[t] = "EXIT" => estado[t] = "EXIT"
  PROVE  /\ h \in Hilo /\ h \in g_blocked_threads /\ estado[h] = "BLOCKED"
         /\ EsperaUnica' /\ SemaforoConsistente' /\ cola' \in [Semaforo -> Seq(Hilo)]
<1>1. cola \in [Semaforo -> Seq(Hilo)] /\ cola[s] \in Seq(Hilo) /\ SinRepetidos(cola[s])
  BY Tipos DEF Invariante, EsperaUnica
<1>2. /\ h \in Hilo /\ h \in Elementos(cola[s])
      /\ Tail(cola[s]) \in Seq(Hilo) /\ SinRepetidos(Tail(cola[s]))
      /\ Elementos(Tail(cola[s])) = Elementos(cola[s]) \ {h}
  BY <1>1, Quitar, SinRepetidosQuitar
<1>3. /\ cola'[s] = Tail(cola[s]) /\ \A x \in Semaforo : x # s => cola'[x] = cola[x]
      /\ cola' \in [Semaforo -> Seq(Hilo)]
  BY <1>1, <1>2
<1>4. s \in Esperas(h)
  BY <1>2 DEF Esperas
<1>5. h \in g_blocked_threads /\ Esperas(h) = {s}
  BY <1>2, <1>4 DEF Invariante, EsperaUnica
<1>6. estado[h] = "BLOCKED"
  BY <1>2, <1>5 DEF Invariante, InvListas, InvLista
<1>7. \A x \in Semaforo : Elementos(cola[x])' = Elementos(cola'[x])
  BY DEF Elementos
<1>8. \A x \in Semaforo : h \notin Elementos(cola'[x])
  <2>1. ASSUME NEW x \in Semaforo, x # s PROVE h \notin Elementos(cola[x])
    BY <1>5, <2>1 DEF Esperas
  <2> QED BY <1>2, <1>3, <2>1
<1>9. \A t \in Hilo : h \notin threads_bloqueados[t]
  <2>1. \A t \in Hilo : t # s
    BY NombresAssumption, ConfigAssumption
  <2> QED BY <1>5, <2>1 DEF Esperas
<1>10. Esperas(h)' = {}
  BY <1>7, <1>8, <1>9 DEF Esperas
<1>11. ASSUME NEW t \in Hilo, t # h PROVE Esperas(t)' = Esperas(t)
  <2>1. \A x \in Semaforo : t \in Elementos(cola'[x]) <=> t \in Elementos(cola[x])
    BY <1>2, <1>3, <1>11
  <2> QED BY <1>7, <2>1 DEF Esperas
<1>12. EsperaUnica'
  <2>1. ASSUME NEW t \in Hilo
        PROVE  IF t \in g_blocked_threads'
               THEN \E e \in Semaforo \cup Hilo : Esperas(t)' = {e} ELSE Esperas(t)' = {}
    <3>1. CASE t = h
      BY <1>10, <3>1
    <3>2. CASE t # h
      BY <1>11, <3>2 DEF Invariante, EsperaUnica
    <3> QED BY <3>1, <3>2
  <2>2. \A x \in Semaforo : SinRepetidos(cola'[x])
    BY <1>2, <1>3 DEF Invariante, EsperaUnica
  <2>3. \A t \in Hilo : estado'[t] = "EXIT" => threads_bloqueados'[t] = {}
    BY DEF Invariante, EsperaUnica
  <2> QED BY <2>1, <2>2, <2>3 DEF EsperaUnica, SinRepetidos
<1>13. SemaforoConsistente'
  BY <1>3 DEF Invariante, SemaforoConsistente
<1> QED BY <1>2, <1>3, <1>5, <1>6, <1>12, <1>13

(* The released thread becomes ready.                                        *)
LEMMA PasoSignalReady ==
  ASSUME Invariante, NEW p \in Proceso, NEW s \in Semaforo, NEW h \in Hilo,
         cola[s] # <<>>, h = Head(cola[s]),
         Atender(p, "SUSE_SIGNAL", s), UNCHANGED hilolay,
         cola' = [cola EXCEPT ![s] = Tail(@)], current_value' = current_value,
         PasarDesbloqueadoAReady(p, h),
         UNCHANGED <<threads_bloqueados, g_new_threads, g_exit_threads, g_multiprog_max>>
  PROVE  Invariante'
<1>1. /\ g_blocked_threads' = g_blocked_threads \ {h} /\ ready' = AgregarAReady({h})
      /\ estado' = [estado EXCEPT ![h] = "READY"] /\ running_thread' = running_thread
      /\ Responder(p, "SUSE_SIGNAL", 0)
  BY DEF PasarDesbloqueadoAReady, trancisionar_bloqueado_a_ready, OK
<1>2. /\ estado'[h] = "READY" /\ \A t \in Hilo : t # h => estado'[t] = estado[t]
      /\ estado' \in [Hilo -> Estado]
  BY <1>1, Tipos DEF Estado
<1>3. /\ \A q \in Proceso : \A t \in Hilo :
           t \in ready'[q] <=> t \in ready[q] \/ (t = h /\ padre[t] = q)
      /\ ready' \in [Proceso -> SUBSET Hilo]
  BY <1>1, Tipos DEF AgregarAReady
<1>4. \A t \in Hilo : estado'[t] = "EXIT" => estado[t] = "EXIT"
  BY <1>2
<1>5. /\ h \in g_blocked_threads /\ estado[h] = "BLOCKED"
      /\ EsperaUnica' /\ SemaforoConsistente' /\ cola' \in [Semaforo -> Seq(Hilo)]
  BY <1>1, <1>4, Liberacion
<1>6. "SUSE_SIGNAL" \in OpConRespuesta /\ "SUSE_SIGNAL" # "SUSE_SCHEDULE_NEXT" /\ etapa' = etapa
  BY DEF OpConRespuesta, Atender
<1>7. SuseTipo'
  BY <1>1, <1>2, <1>3, <1>5, <1>6, Tipos DEF SuseTipo
<1>8. InvListas'
  <2>1. InvPropias'
    <3>1. \A q \in Proceso : \A t \in ready'[q] : t \in Hilo /\ padre[t] = q
      BY <1>3 DEF Invariante, InvListas, InvPropias
    <3> QED BY <1>1, <3>1 DEF Invariante, InvListas, InvPropias, SinRepetidos
  <2>2. ASSUME NEW t \in Hilo PROVE InvLista(t)'
    <3>1. InvLista(t) /\ padre[t] \in Proceso /\ ults' = ults
      BY HilosAssumption DEF Invariante, InvListas, hilolay
    <3>2. /\ t \in ready'[padre[t]] <=> t \in ready[padre[t]] \/ t = h
          /\ Elementos(g_new_threads)' = Elementos(g_new_threads)
      BY <1>3, <3>1 DEF Elementos
    <3>3. CASE t = h
      BY <1>1, <1>2, <1>5, <3>1, <3>2, <3>3 DEF InvLista
    <3>4. CASE t # h
      BY <1>1, <1>2, <3>1, <3>2, <3>4 DEF InvLista
    <3> QED BY <3>3, <3>4
  <2> QED BY <2>1, <2>2 DEF InvListas
<1>9. MultiprogConservado' /\ NewSoloSinLugar'
  <2>1. Admitidos' = Admitidos
    BY <1>2, <1>5 DEF Admitidos
  <2> QED BY <2>1, AdmitidosIgual DEF Invariante, NewSoloSinLugar
<1>10. \A t \in Hilo : /\ (estado'[t] = "SIN_CREAR") <=> (estado[t] = "SIN_CREAR")
                       /\ padre[t] # p /\ estado[t] = "RUNNING" => estado'[t] = "RUNNING"
  BY <1>2, <1>5
<1> QED BY <1>1, <1>5, <1>6, <1>7, <1>8, <1>9, <1>10, PasoRespondido

(* The released thread runs, in a process q left without a running thread.   *)
LEMMA PasoSignalExterno ==
  ASSUME Invariante, NEW p \in Proceso, NEW s \in Semaforo, NEW h \in Hilo,
         cola[s] # <<>>, h = Head(cola[s]),
         Atender(p, "SUSE_SIGNAL", s), UNCHANGED hilolay,
         cola' = [cola EXCEPT ![s] = Tail(@)], current_value' = current_value,
         EjecutarDesbloqueado(p, h), running_thread[padre[h]] = Nulo,
         UNCHANGED <<threads_bloqueados, g_new_threads, g_exit_threads, g_multiprog_max>>
  PROVE  Invariante'
<1> PICK q \in Proceso : q = padre[h]
  BY HilosAssumption
<1>1. /\ g_blocked_threads' = g_blocked_threads \ {h} /\ ready' = ready
      /\ estado' = [estado EXCEPT ![h] = "RUNNING"]
      /\ running_thread' = [running_thread EXCEPT ![q] = h]
      /\ respuesta' = enviarPaquetes(enviarPaquetes(respuesta, q, "SUSE_SCHEDULE_NEXT", h),
                                     p, "SUSE_SIGNAL", 0)
  BY DEF EjecutarDesbloqueado, OK
<1>2. /\ estado'[h] = "RUNNING" /\ \A t \in Hilo : t # h => estado'[t] = estado[t]
      /\ estado' \in [Hilo -> Estado]
  BY <1>1, Tipos DEF Estado
<1>3. /\ running_thread'[q] = h /\ \A x \in Proceso : x # q => running_thread'[x] = running_thread[x]
      /\ running_thread' \in [Proceso -> Hilo \cup {Nulo}] /\ h # Nulo
  BY <1>1, Tipos, NuloAssumption
<1>4. \A t \in Hilo : estado'[t] = "EXIT" => estado[t] = "EXIT"
  BY <1>2
<1>5. /\ h \in g_blocked_threads /\ estado[h] = "BLOCKED"
      /\ EsperaUnica' /\ SemaforoConsistente' /\ cola' \in [Semaforo -> Seq(Hilo)]
  BY <1>1, <1>4, Liberacion
<1>6. "SUSE_SIGNAL" \in OpConRespuesta /\ "SUSE_SIGNAL" # "SUSE_SCHEDULE_NEXT"
  BY DEF OpConRespuesta
<1>7. /\ pedido' \in [Proceso -> Seq(Pedido)]
      /\ \A x \in Proceso \ {p} : pedido'[x] = pedido[x]
      /\ etapa' = etapa /\ abierto' = abierto /\ respuesta[p] = <<>>
      /\ running_thread[p] \in Hilo
  BY <1>6, Atencion
<1>8. p # q
  BY <1>7, NuloAssumption
<1>9. fase' = fase /\ ults' = ults /\ current_ult' = current_ult
  BY DEF hilolay
(* q waits for a schedule_next, or has ended. *)
<1>10. /\ InvPedido(q) /\ InvFase(q) /\ InvEtapa(q) /\ fase[q] \in Fase /\ etapa[q] \in Etapa
       /\ ults[q] \subseteq Hilo /\ principal[q] \in Hilo
  BY Hechos
<1>11. etapa[q] \in {"bucle", "cerrada"}
  BY <1>5, <1>10 DEF InvEtapa, Etapa
<1>12. fase[q] = "terminado" \/ SinNadaQueEjecutar(q)
  <2>1. fase[q] \notin {"sin_conectar", "HANDSHAKE"}
    BY SMTT(30), <1>10, <1>11 DEF InvEtapa
  <2>2. fase[q] # "corriendo"
    BY SMTT(30), <1>10, <1>11 DEF InvFase, InvEtapa
  <2>3. fase[q] \in OpConRespuesta => SinNadaQueEjecutar(q)
    <3>1. fase[q] \in OpConRespuesta => etapa[q] = "bucle"
      BY SMTT(30), <1>10, <1>11 DEF InvEtapa, OpConRespuesta
    <3> QED BY <1>10, <3>1 DEF InvFase, InvEtapa, Pendiente, Respondido
  <2> QED BY <1>10, <2>1, <2>2, <2>3 DEF Fase
<1>13. respuesta[q] = <<>> /\ (q \in abierto <=> SinNadaQueEjecutar(q))
  BY <1>10, <1>12 DEF InvFase, SinNadaQueEjecutar
(* The two responses go to different connections. *)
<1> DEFINE buzones == enviarPaquetes(respuesta, q, "SUSE_SCHEDULE_NEXT", h)
<1>14. /\ buzones \in [Proceso -> Seq(Respuesta)]
       /\ \A x \in Proceso \ {q} : buzones[x] = respuesta[x]
       /\ q \notin abierto => buzones[q] = <<>>
       /\ q \in abierto => /\ Len(buzones[q]) = 1
                           /\ buzones[q][1] = [op |-> "SUSE_SCHEDULE_NEXT", valor |-> h]
  <2>1. [op |-> "SUSE_SCHEDULE_NEXT", valor |-> h] \in Respuesta
    BY DEF Respuesta, OpConRespuesta
  <2>2. respuesta \in [Proceso -> Seq(Respuesta)]
    BY Tipos
  <2> QED BY <1>13, <2>1, <2>2, Entrega
<1> HIDE DEF buzones
<1>15. /\ respuesta' \in [Proceso -> Seq(Respuesta)]
       /\ \A x \in Proceso \ {p} : respuesta'[x] = buzones[x]
       /\ p \notin abierto => respuesta'[p] = <<>>
       /\ p \in abierto => /\ Len(respuesta'[p]) = 1
                           /\ respuesta'[p][1] = [op |-> "SUSE_SIGNAL", valor |-> 0]
  <2>1. [op |-> "SUSE_SIGNAL", valor |-> 0] \in Respuesta
    BY <1>6 DEF Respuesta
  <2>2. respuesta' = enviarPaquetes(buzones, p, "SUSE_SIGNAL", 0) /\ buzones[p] = <<>>
    BY <1>1, <1>7, <1>8, <1>14 DEF buzones
  <2> QED BY <1>14, <2>1, <2>2, Entrega
<1>16. \A t \in Hilo : /\ (estado'[t] = "SIN_CREAR") <=> (estado[t] = "SIN_CREAR")
                       /\ estado[t] = "RUNNING" => estado'[t] = "RUNNING"
  BY <1>2, <1>5
<1>17. InvPedido(p)' /\ InvFase(p)' /\ InvEtapa(p)'
  <2>1. p \in abierto => Len(respuesta'[p]) = 1 /\ respuesta'[p][1].op = "SUSE_SIGNAL"
    BY <1>15
  <2>2. running_thread'[p] # Nulo
    BY <1>3, <1>7, <1>8, NuloAssumption
  <2> QED BY <1>6, <1>15, <1>16, <2>1, <2>2, OperacionRespondida
<1>18. InvPedido(q)' /\ InvFase(q)' /\ InvEtapa(q)'
  <2>1. /\ pedido'[q] = pedido[q] /\ respuesta'[q] = buzones[q]
        /\ (q \in abierto') <=> (q \in abierto)
    BY <1>7, <1>8, <1>15
  <2>2. ASSUME SinNadaQueEjecutar(q) PROVE Respondido(q)'
    <3>1. /\ Len(respuesta'[q]) = 1 /\ respuesta'[q][1].op = "SUSE_SCHEDULE_NEXT"
          /\ respuesta'[q][1].valor = h
      BY <1>13, <1>14, <2>1, <2>2
    <3> QED BY <1>2, <1>3, <1>7, <1>9, <2>1, <2>2, <3>1 DEF SinNadaQueEjecutar, Respondido
  <2>3. InvFase(q)'
    <3>1. CASE fase[q] = "terminado"
      <4>1. q \notin abierto
        BY <1>13, <3>1 DEF SinNadaQueEjecutar
      <4> QED BY <1>9, <1>10, <1>14, <2>1, <3>1, <4>1 DEF InvFase, OpConRespuesta
    <3>2. CASE SinNadaQueEjecutar(q)
      <4>1. fase[q] = "SUSE_SCHEDULE_NEXT"
        BY <3>2 DEF SinNadaQueEjecutar
      <4> QED BY <1>9, <1>10, <2>1, <2>2, <3>2, <4>1 DEF InvFase, OpConRespuesta
    <3> QED BY <1>12, <3>1, <3>2
  <2>4. InvPedido(q)'
    <3>1. \A t \in ults[q] : (estado'[t] = "SIN_CREAR") <=> (estado[t] = "SIN_CREAR")
      BY <1>10, <1>16
    <3>2. InvPedido(q) /\ pedido'[q] = pedido[q] /\ ults'[q] = ults[q]
      BY SMTT(30), <1>9, <1>10, <2>1
    <3> QED BY <3>1, <3>2, MarcoPedido
  <2>5. InvEtapa(q)'
    <3>1. etapa[q] = "bucle" => pedido[q] = <<>>
      BY SMTT(30), <1>10 DEF InvEtapa
    <3>2. fase[q] \notin {"sin_conectar", "HANDSHAKE"}
      BY <1>10, <1>11 DEF InvEtapa
    <3>3. estado'[principal[q]] # "SIN_CREAR"
      BY SMTT(30), <1>10, <1>11, <1>16 DEF InvEtapa
    <3>4. etapa[q] = "cerrada" => fase[q] = "terminado" /\ pedido[q] = <<>>
      BY SMTT(30), <1>10 DEF InvEtapa
    <3>5. Creaciones(q)
      BY <1>10 DEF InvEtapa, Creaciones
    <3>6. /\ pedido'[q] = pedido[q] /\ etapa'[q] = etapa[q] /\ fase'[q] = fase[q]
          /\ ults'[q] = ults[q]
      BY <1>7, <1>9, <2>1
    <3>7. Creaciones(q)'
      <4>1. \A t \in ults[q] : estado'[t] = "SIN_CREAR" => estado[t] = "SIN_CREAR"
        BY <1>10, <1>16
      <4> QED BY <3>5, <3>6, <4>1, MarcoCreaciones
    <3>8. /\ etapa'[q] = "handshake" <=> fase'[q] \in {"sin_conectar", "HANDSHAKE"} /\ respuesta'[q] = <<>>
          /\ etapa'[q] \notin {"handshake", "create_main"}
          /\ ~ (etapa'[q] = "bucle" /\ pedido'[q] # <<>>)
      BY <1>11, <3>1, <3>2, <3>6
    <3> QED BY ZenonT(60), <3>2, <3>3, <3>4, <3>6, <3>7, <3>8 DEF InvEtapa, Creaciones
  <2> QED BY <2>3, <2>4, <2>5
<1>19. ASSUME NEW x \in Proceso, x # p, x # q PROVE InvPedido(x)' /\ InvFase(x)' /\ InvEtapa(x)'
  <2>1. TypeOK /\ InvPropias /\ InvPedido(x) /\ InvFase(x) /\ InvEtapa(x)
    BY DEF Invariante, InvProtocolo, InvListas
  <2>2. /\ pedido'[x] = pedido[x] /\ respuesta'[x] = respuesta[x]
        /\ running_thread'[x] = running_thread[x]
    BY <1>3, <1>7, <1>14, <1>15, <1>19
  <2> QED BY <1>7, <1>9, <1>16, <2>1, <2>2, MarcoProtocolo
<1>20. InvProtocolo'
  BY <1>17, <1>18, <1>19 DEF InvProtocolo
<1>21. TypeOK'
  <2>1. SuseTipo'
    BY <1>1, <1>2, <1>3, <1>5, <1>7, Tipos DEF SuseTipo
  <2>2. ConexionTipo' /\ HilolayTipo'
    BY <1>7, <1>9, <1>15 DEF Invariante, TypeOK, ConexionTipo, HilolayTipo
  <2> QED BY <2>1, <2>2 DEF TypeOK
<1>22. InvListas'
  <2>1. InvPropias'
    BY <1>1, <1>3 DEF Invariante, InvListas, InvPropias, SinRepetidos
  <2>2. ASSUME NEW t \in Hilo PROVE InvLista(t)'
    <3>1. InvLista(t) /\ padre[t] \in Proceso
      BY HilosAssumption DEF Invariante, InvListas
    <3>2. CASE t = h
      BY <1>1, <1>2, <1>3, <1>5, <1>9, <3>1, <3>2 DEF InvLista, Elementos
    <3>3. CASE t # h
      <4>1. estado[t] = "RUNNING" => padre[t] # q
        BY <1>3, <3>1, NuloAssumption DEF InvLista
      <4> QED BY <1>1, <1>2, <1>3, <1>9, <3>1, <3>3, <4>1 DEF InvLista, Elementos
    <3> QED BY <3>2, <3>3
  <2> QED BY <2>1, <2>2 DEF InvListas
<1>23. MultiprogConservado' /\ NewSoloSinLugar'
  <2>1. Admitidos' = Admitidos
    BY <1>2, <1>5 DEF Admitidos
  <2> QED BY <2>1, AdmitidosIgual DEF Invariante, NewSoloSinLugar
<1> QED BY <1>5, <1>20, <1>21, <1>22, <1>23 DEF Invariante

LEMMA PasoSemSignal ==
  ASSUME Invariante, NEW p \in Proceso, NEW s \in Nombre, procesarSemSignal(p, s), UNCHANGED hilolay
  PROVE  Invariante'
<1>1. /\ Atender(p, "SUSE_SIGNAL", s)
      /\ UNCHANGED <<threads_bloqueados, g_new_threads, g_exit_threads, g_multiprog_max>>
  BY DEF procesarSemSignal
<1>2. "SUSE_SIGNAL" \in OpConRespuesta /\ "SUSE_SIGNAL" # "SUSE_SCHEDULE_NEXT" /\ etapa' = etapa
  BY <1>1 DEF OpConRespuesta, Atender
<1>3. CASE s \notin Semaforo \/ (s \in Semaforo /\ current_value[s] = ValorMaximo[s])
  <2>1. PICK v \in Int : Responder(p, "SUSE_SIGNAL", v)
    BY <1>3 DEF procesarSemSignal, EINVAL, EOVERFLOW
  <2>2. UNCHANGED <<listas, semaforos, g_multiprog_max>>
    BY <1>1, <1>3 DEF procesarSemSignal, listas
  <2>3. SuseTipo' /\ estado' = estado /\ running_thread' = running_thread
    BY <1>2, <2>2 DEF Invariante, TypeOK, SuseTipo, listas, semaforos
  <2>4. \A q \in Proceso : ults[q] \subseteq ults'[q]
    BY DEF hilolay
  <2>5. /\ InvListas' /\ EsperaUnica' /\ SemaforoConsistente'
        /\ MultiprogConservado' /\ NewSoloSinLugar'
    BY <2>2, <2>4, MarcoServidor
  <2> QED BY <1>1, <1>2, <2>1, <2>3, <2>5, PasoRespondido
<1>4. CASE s \in Semaforo /\ current_value[s] # ValorMaximo[s] /\ cola[s] = <<>>
  <2>1. /\ current_value' = [current_value EXCEPT ![s] = @ + 1]
        /\ Responder(p, "SUSE_SIGNAL", 0)
        /\ UNCHANGED <<cola, estado, running_thread, ready, g_blocked_threads>>
    BY <1>4 DEF procesarSemSignal, SumarAlSemaforo, OK
  <2>2. /\ current_value'[s] = current_value[s] + 1
        /\ \A x \in Semaforo : x # s => current_value'[x] = current_value[x]
        /\ current_value' \in [Semaforo -> Nat]
    BY <1>4, <2>1, Tipos
  <2>3. SemaforoConsistente'
    <3>1. ASSUME NEW x \in Semaforo
          PROVE /\ cola'[x] # <<>> => current_value'[x] = 0
                /\ current_value'[x] <= ValorMaximo[x]
      <4>1. /\ cola[x] # <<>> => current_value[x] = 0
            /\ current_value[x] <= ValorMaximo[x] /\ cola'[x] = cola[x]
            /\ ValorMaximo[x] \in Nat /\ current_value[x] \in Nat
        BY <2>1, Tipos, ConfigAssumption DEF Invariante, SemaforoConsistente
      <4> QED BY <1>4, <2>2, <4>1
    <3> QED BY <3>1 DEF SemaforoConsistente
  <2>4. SuseTipo' /\ EsperaUnica'
    BY <1>1, <1>2, <2>1, <2>2, Tipos, MarcoEsperas DEF SuseTipo
  <2>5. InvListas'
    BY <1>1, <2>1 DEF Invariante, InvListas, InvPropias, InvLista, Elementos, SinRepetidos, hilolay
  <2>6. MultiprogConservado' /\ NewSoloSinLugar'
    <3>1. Admitidos' = Admitidos
      BY <2>1 DEF Admitidos
    <3> QED BY <1>1, <3>1, AdmitidosIgual DEF Invariante, NewSoloSinLugar
  <2> QED BY <1>1, <1>2, <2>1, <2>3, <2>4, <2>5, <2>6, PasoRespondido
<1>5. CASE s \in Semaforo /\ current_value[s] # ValorMaximo[s] /\ cola[s] # <<>>
  <2>1. Head(cola[s]) \in Hilo
    BY <1>5, Tipos, Quitar
  <2> PICK h \in Hilo : h = Head(cola[s])
    BY <2>1
  <2>2. /\ cola' = [cola EXCEPT ![s] = Tail(@)] /\ current_value' = current_value
        /\ IF running_thread[padre[h]] = Nulo
           THEN EjecutarDesbloqueado(p, h) ELSE PasarDesbloqueadoAReady(p, h)
    BY <1>5 DEF procesarSemSignal, DesbloquearPrimero
  <2>3. CASE running_thread[padre[h]] = Nulo
    BY <1>1, <1>5, <2>2, <2>3, PasoSignalExterno
  <2>4. CASE running_thread[padre[h]] # Nulo
    BY <1>1, <1>5, <2>2, <2>4, PasoSignalReady
  <2> QED BY <2>3, <2>4
<1> QED BY <1>3, <1>4, <1>5

-------------------------------------------------------------------------------
(* The whole system *)

(* Every step of a server thread keeps the invariant.                        *)
LEMMA PasoServidor ==
  ASSUME Invariante, NEW p \in Proceso, Servidor(p)
  PROVE  Invariante'
<1>1. atenderConexion(p) /\ UNCHANGED hilolay
  BY DEF Servidor
<1>2. CASE enviarMultiProg(p)
  BY <1>1, <1>2, PasoMultiProg
<1>3. CASE esperarPaqueteCreateMain(p)
  BY <1>1, <1>3, PasoCreateMain
<1>4. CASE CerrarConexion(p)
  BY <1>1, <1>4, PasoCerrarConexion
<1>5. ASSUME NEW h \in Hilo, procesarThreadCreate(p, h) PROVE Invariante'
  BY <1>1, <1>5, PasoThreadCreate
<1>6. CASE procesarThreadClose(p)
  BY <1>1, <1>6, PasoThreadClose
<1>7. ASSUME NEW h \in Hilo, procesarThreadJoin(p, h) PROVE Invariante'
  BY <1>1, <1>7, PasoThreadJoin
<1>8. CASE procesarThreadScheduleNext(p)
  BY <1>1, <1>8, PasoScheduleNext
<1>9. ASSUME NEW s \in Nombre, procesarSemSignal(p, s) PROVE Invariante'
  BY <1>1, <1>9, PasoSemSignal
<1>10. ASSUME NEW s \in Nombre, procesarSemWait(p, s) PROVE Invariante'
  BY <1>1, <1>10, PasoSemWait
<1> QED BY <1>1, <1>2, <1>3, <1>4, <1>5, <1>6, <1>7, <1>8, <1>9, <1>10
    DEF atenderConexion, procesarPaqueteLibSuse

(* A step that changes nothing keeps the invariant.                          *)
LEMMA PasoNulo ==
  ASSUME Invariante, UNCHANGED vars
  PROVE  Invariante'
<1>1. /\ UNCHANGED <<listas, semaforos, g_multiprog_max>> /\ UNCHANGED servidor
      /\ pedido' = pedido /\ respuesta' = respuesta /\ abierto' = abierto
      /\ fase' = fase /\ ults' = ults /\ current_ult' = current_ult
      /\ etapa' = etapa /\ running_thread' = running_thread /\ estado' = estado
  BY DEF vars, conexion, servidor, hilolay, listas
<1>2. /\ InvListas' /\ EsperaUnica' /\ SemaforoConsistente'
      /\ MultiprogConservado' /\ NewSoloSinLugar'
  BY <1>1, MarcoServidor
<1>3. InvProtocolo'
  <2>1. ASSUME NEW q \in Proceso PROVE InvPedido(q)' /\ InvFase(q)' /\ InvEtapa(q)'
    BY <1>1, MarcoProtocolo DEF Invariante, InvProtocolo, InvListas
  <2> QED BY <2>1 DEF InvProtocolo
<1>4. TypeOK'
  BY <1>1 DEF Invariante, TypeOK, ConexionTipo, SuseTipo, HilolayTipo, servidor, listas, semaforos
<1> QED BY <1>2, <1>3, <1>4 DEF Invariante

(* Every step of the system keeps the invariant.                             *)
LEMMA PasoInvariante == Invariante /\ [Next]_vars => Invariante'
<1> SUFFICES ASSUME Invariante, [Next]_vars PROVE Invariante'
  OBVIOUS
<1>1. ASSUME NEW p \in Proceso, Servidor(p) PROVE Invariante'
  BY <1>1, PasoServidor
<1>2. ASSUME NEW p \in Proceso, Cliente(p) PROVE Invariante'
  BY <1>2, PasoCliente
<1>3. CASE UNCHANGED vars
  BY <1>3, PasoNulo
<1> QED BY <1>1, <1>2, <1>3 DEF Next

(* Invariante holds in every state of every behaviour of the system: the     *)
(* inductive invariant all the theorems below follow from.                   *)
THEOREM InvarianteSiempre == Spec => []Invariante
<1>1. Init => Invariante
  BY InitInvariante
<1>2. Invariante /\ [Next]_vars => Invariante'
  BY PasoInvariante
<1> QED BY <1>1, <1>2, PTL DEF Spec

-------------------------------------------------------------------------------
(* What the invariant says of SUSE and its clients *)

(* The state keeps its shape: a queue holds threads, a counter is a natural  *)
(* number, a packet carries what its operation says.                         *)
THEOREM TypeOKSiempre == Spec => []TypeOK
<1>1. Invariante => TypeOK
  BY DEF Invariante
<1> QED BY <1>1, InvarianteSiempre, PTL

(* procesarSemWait and procesarSemSignal: threads queue on a semaphore only  *)
(* at value 0, and no value passes SEM_MAX.                                  *)
THEOREM SemaforoSiempre == Spec => []SemaforoConsistente
<1>1. Invariante => SemaforoConsistente
  BY DEF Invariante
<1> QED BY <1>1, InvarianteSiempre, PTL

(* A thread blocked by procesarSemWait or procesarThreadJoin waits for one   *)
(* thing that can still happen, and nobody else is in a queue of waiters.    *)
THEOREM EsperaUnicaSiempre == Spec => []EsperaUnica
<1>1. Invariante => EsperaUnica
  BY DEF Invariante
<1> QED BY <1>1, InvarianteSiempre, PTL

(* procesarThreadCreate and procesarThreadClose neither lose nor invent an   *)
(* admission: g_multiprog_max and the admitted threads add up.               *)
THEOREM MultiprogSiempre == Spec => []MultiprogConservado
<1>1. Invariante => MultiprogConservado
  BY DEF Invariante
<1> QED BY <1>1, InvarianteSiempre, PTL

(* A thread waits in g_new_threads only while no admission is left.          *)
THEOREM NewSiempre == Spec => []NewSoloSinLugar
<1>1. Invariante => NewSoloSinLugar
  BY DEF Invariante
<1> QED BY <1>1, InvarianteSiempre, PTL

-------------------------------------------------------------------------------
(* No handler loses a thread or leaves one in two lists.                     *)
LEMMA InvarianteUnSoloLugar == Invariante => UnSoloLugar
<1> SUFFICES ASSUME Invariante, NEW h \in Hilo
             PROVE  IF estado[h] = "SIN_CREAR" THEN Lugares(h) = {}
                    ELSE \E l \in Lista : Lugares(h) = {l}
  BY DEF UnSoloLugar
<1>1. InvLista(h) /\ estado[h] \in Estado
  BY Tipos DEF Invariante, InvListas
<1>2. CASE estado[h] = "SIN_CREAR"
  BY <1>1, <1>2 DEF InvLista, Lugares
<1>3. CASE estado[h] = "NEW"
  <2>1. Lugares(h) = {"g_new_threads"}
    BY <1>1, <1>3 DEF InvLista, Lugares
  <2> QED BY <1>3, <2>1 DEF Lista
<1>4. CASE estado[h] = "RUNNING"
  <2>1. Lugares(h) = {"running_thread"}
    BY <1>1, <1>4 DEF InvLista, Lugares
  <2> QED BY <1>4, <2>1 DEF Lista
<1>5. CASE estado[h] = "EXIT"
  <2>1. Lugares(h) = {"g_exit_threads"}
    BY <1>1, <1>5 DEF InvLista, Lugares
  <2> QED BY <1>5, <2>1 DEF Lista
<1>6. CASE estado[h] \in {"READY", "BLOCKED"} /\ h \in ready[padre[h]]
  <2>1. Lugares(h) = {"ready"}
    BY <1>1, <1>6 DEF InvLista, Lugares
  <2> QED BY <1>6, <2>1 DEF Lista
<1>7. CASE estado[h] \in {"READY", "BLOCKED"} /\ h \notin ready[padre[h]]
  <2>1. Lugares(h) = {"g_blocked_threads"}
    BY <1>1, <1>7 DEF InvLista, Lugares
  <2> QED BY <1>7, <2>1 DEF Lista
<1> QED BY <1>1, <1>2, <1>3, <1>4, <1>5, <1>6, <1>7 DEF Estado

(* Every known thread is in exactly one place: running, ready, NEW, blocked  *)
(* or ended.                                                                 *)
THEOREM UnSoloLugarSiempre == Spec => []UnSoloLugar
BY InvarianteUnSoloLugar, InvarianteSiempre, PTL

-------------------------------------------------------------------------------
(* The protocol *)

LEMMA InvarianteRespuesta == Invariante => RespuestaCorresponde
<1> SUFFICES ASSUME Invariante, NEW p \in Proceso
             PROVE  /\ Len(respuesta[p]) <= 1
                    /\ respuesta[p] # <<>> =>
                         \/ fase[p] = "HANDSHAKE" /\ Head(respuesta[p]).op = "SUSE_GRADO_MULTIPROG"
                         \/ /\ Head(respuesta[p]).op = fase[p]
                            /\ fase[p] = "SUSE_SCHEDULE_NEXT" => Head(respuesta[p]).valor \in ults[p]
  BY DEF RespuestaCorresponde
<1>1. InvFase(p) /\ fase[p] \in Fase /\ respuesta[p] \in Seq(Respuesta)
  BY Hechos
<1>2. respuesta[p] # <<>> => Head(respuesta[p]) = respuesta[p][1]
  BY <1>1, Quitar
<1>3. respuesta[p] = <<>> => Len(respuesta[p]) = 0
  BY <1>1, Vacia, Zenon
<1>4. ASSUME Respondido(p)
      PROVE  /\ Len(respuesta[p]) = 1 /\ respuesta[p][1].op = fase[p]
             /\ fase[p] = "SUSE_SCHEDULE_NEXT" => respuesta[p][1].valor \in ults[p]
  <2>1. running_thread[p] \in Hilo /\ padre[running_thread[p]] = p
    BY <1>4, Hechos DEF Respondido
  <2>2. estado[running_thread[p]] = "RUNNING" => running_thread[p] \in ults[p]
    BY <2>1 DEF Invariante, InvListas, InvLista
  <2> QED BY <1>4, <2>2 DEF Respondido
<1>5. CASE fase[p] \in OpConRespuesta
  <2>1. respuesta[p] = <<>> \/ Respondido(p)
    BY <1>1, <1>5 DEF InvFase, Pendiente, SinNadaQueEjecutar
  <2>2. CASE respuesta[p] = <<>>
    BY <1>3, <2>2
  <2>3. CASE respuesta[p] # <<>>
    <3>1. Head(respuesta[p]) = respuesta[p][1] /\ Respondido(p)
      BY <1>2, <2>1, <2>3
    <3>2. /\ Len(respuesta[p]) = 1 /\ respuesta[p][1].op = fase[p]
          /\ fase[p] = "SUSE_SCHEDULE_NEXT" => respuesta[p][1].valor \in ults[p]
      BY <1>4, <3>1
    <3> QED BY <3>1, <3>2
  <2> QED BY <2>2, <2>3
<1>6. CASE fase[p] = "HANDSHAKE"
  <2>1. \/ respuesta[p] = <<>>
        \/ Len(respuesta[p]) = 1 /\ respuesta[p][1].op = "SUSE_GRADO_MULTIPROG"
    BY <1>1, <1>6 DEF InvFase
  <2>2. CASE respuesta[p] = <<>>
    BY <1>3, <2>2
  <2>3. CASE respuesta[p] # <<>>
    <3>1. Len(respuesta[p]) = 1 /\ respuesta[p][1].op = "SUSE_GRADO_MULTIPROG"
      BY <2>1, <2>3
    <3>2. Head(respuesta[p]) = respuesta[p][1]
      BY <1>2, <2>3
    <3> QED BY <1>6, <3>1, <3>2
  <2> QED BY <2>2, <2>3
<1>7. CASE fase[p] \in {"sin_conectar", "corriendo", "terminado"}
  <2>1. respuesta[p] = <<>>
    BY <1>1, <1>7 DEF InvFase
  <2> QED BY <1>3, <2>1
<1> QED BY <1>1, <1>5, <1>6, <1>7 DEF Fase

(* A process never reads a response meant for another operation, and the     *)
(* tid of a schedule_next is always one get_next_tid finds.                  *)
THEOREM RespuestaSiempre == Spec => []RespuestaCorresponde
BY InvarianteRespuesta, InvarianteSiempre, PTL

LEMMA InvarianteMismoHilo == Invariante => MismoHilo
<1> SUFFICES ASSUME Invariante, NEW p \in Proceso, fase[p] = "corriendo", pedido[p] = <<>>
             PROVE  running_thread[p] = current_ult[p] /\ estado[current_ult[p]] = "RUNNING"
  BY DEF MismoHilo
<1>1. InvFase(p) /\ InvEtapa(p) /\ etapa[p] \in Etapa
  BY Hechos
<1>2. etapa[p] = "bucle"
  BY <1>1 DEF InvEtapa, Etapa
<1> QED BY <1>1, <1>2 DEF InvFase

(* While user code runs, server and library agree on which thread runs.      *)
THEOREM MismoHiloSiempre == Spec => []MismoHilo
BY InvarianteMismoHilo, InvarianteSiempre, PTL

LEMMA InvarianteSinNulos == Invariante => SinNulos
<1> SUFFICES ASSUME Invariante, NEW p \in Proceso, etapa[p] = "bucle", pedido[p] # <<>>
             PROVE  running_thread[p] # Nulo
  BY DEF SinNulos
<1>1. InvEtapa(p) /\ Len(pedido[p]) \in Nat \ {0}
  BY Hechos
<1> QED BY <1>1 DEF InvEtapa

(* Every request finds a running thread: the NULL that the handlers of join, *)
(* close, wait and signal do not test for never reaches them, also when they *)
(* serve what a dead process had sent.                                       *)
THEOREM SinNulosSiempre == Spec => []SinNulos
BY InvarianteSinNulos, InvarianteSiempre, PTL

LEMMA InvarianteSinRunning == Invariante => SinRunningEspera
<1> SUFFICES ASSUME Invariante, NEW p \in Proceso,
                    etapa[p] = "bucle", running_thread[p] = Nulo, p \in abierto
             PROVE  fase[p] = "SUSE_SCHEDULE_NEXT" /\ pedido[p] = <<>> /\ respuesta[p] = <<>>
  BY DEF SinRunningEspera
<1>1. InvFase(p) /\ InvEtapa(p) /\ fase[p] \in Fase
  BY Hechos
<1>2. fase[p] \in OpConRespuesta
  BY <1>1 DEF Fase, InvFase, InvEtapa
<1>3. pedido[p] = <<>>
  BY <1>1 DEF InvEtapa
<1> QED BY <1>1, <1>2, <1>3 DEF InvFase, Pendiente, Respondido, SinNadaQueEjecutar

(* A connected process without a running thread is stopped in the recv of a  *)
(* schedule_next that nobody answered yet: a signal may schedule it.         *)
THEOREM SinRunningSiempre == Spec => []SinRunningEspera
BY InvarianteSinRunning, InvarianteSiempre, PTL

-------------------------------------------------------------------------------
(* The life cycle of a thread *)

(* The change of estado a step makes to a thread is one of the life cycle.   *)
Cambio(h) == estado'[h] # estado[h] => <<estado[h], estado'[h]>> \in CambiosDeEstado

LEMMA CicloCreate ==
  ASSUME Invariante, NEW p \in Proceso, UNCHANGED hilolay, NEW t \in Hilo,
         esperarPaqueteCreateMain(p) \/ \E h \in Hilo : procesarThreadCreate(p, h)
  PROVE  Cambio(t)
<1>1. PICK h \in Hilo, e \in {"RUNNING", "READY", "NEW"} :
        /\ Recibido(p, "SUSE_CREATE", h) /\ ConsumirPedido(p)
        /\ estado' = [estado EXCEPT ![h] = e]
  <2>1. CASE esperarPaqueteCreateMain(p)
    BY <2>1, HilosAssumption DEF esperarPaqueteCreateMain
  <2>2. ASSUME NEW h \in Hilo, procesarThreadCreate(p, h)
        PROVE  \E e \in {"READY", "NEW"} :
                 /\ Recibido(p, "SUSE_CREATE", h) /\ ConsumirPedido(p)
                 /\ estado' = [estado EXCEPT ![h] = e]
    BY <2>2 DEF procesarThreadCreate, Atender, AdmitirThread, EncolarThread
  <2> QED BY <2>1, <2>2
<1>2. estado'[h] = e /\ \A x \in Hilo : x # h => estado'[x] = estado[x]
  BY <1>1, Tipos
<1>3. estado[h] = "SIN_CREAR"
  BY <1>1, <1>2, ConsumoCreate
<1> QED BY <1>2, <1>3 DEF Cambio, CambiosDeEstado

LEMMA CicloClose ==
  ASSUME Invariante, NEW p \in Proceso, NEW t \in Hilo, procesarThreadClose(p)
  PROVE  Cambio(t)
<1>1. PICK arg \in Hilo : Atender(p, "SUSE_CLOSE", arg)
  BY DEF procesarThreadClose
<1>2. running_thread[p] \in Hilo /\ estado[running_thread[p]] = "RUNNING"
  <2>1. "SUSE_CLOSE" \in OpConRespuesta /\ "SUSE_CLOSE" # "SUSE_SCHEDULE_NEXT"
    BY DEF OpConRespuesta
  <2> QED BY <1>1, <2>1, Atencion
<1> PICK h \in Hilo : h = running_thread[p]
  BY <1>2
<1>3. LiberarAdmision(h, threads_bloqueados[h])
  BY <1>2, NuloAssumption DEF procesarThreadClose, CerrarThread
<1>4. CASE estado' = [estado EXCEPT ![h] = "EXIT"]
  <2>1. estado'[h] = "EXIT" /\ \A x \in Hilo : x # h => estado'[x] = estado[x]
    BY <1>4, Tipos
  <2> QED BY <1>2, <2>1 DEF Cambio, CambiosDeEstado
<1>5. CASE /\ g_new_threads # <<>>
           /\ estado' = [estado EXCEPT ![h] = "EXIT", ![Head(g_new_threads)] = "READY"]
  <2>1. Head(g_new_threads) \in Hilo /\ Head(g_new_threads) \in Elementos(g_new_threads)
    BY <1>5, Tipos, Quitar
  <2>2. estado[Head(g_new_threads)] = "NEW"
    BY <2>1 DEF Invariante, InvListas, InvLista
  <2>3. /\ estado'[h] = "EXIT" /\ estado'[Head(g_new_threads)] = "READY"
        /\ \A x \in Hilo : x # h /\ x # Head(g_new_threads) => estado'[x] = estado[x]
    BY <1>2, <1>5, <2>1, <2>2, Tipos
  <2> QED BY <1>2, <2>2, <2>3 DEF Cambio, CambiosDeEstado
<1> QED BY <1>3, <1>4, <1>5 DEF LiberarAdmision

LEMMA CicloBloqueo ==
  ASSUME Invariante, NEW p \in Proceso, NEW t \in Hilo,
         (\E h \in Hilo : procesarThreadJoin(p, h)) \/ (\E s \in Nombre : procesarSemWait(p, s))
  PROVE  Cambio(t)
<1>1. PICK op \in {"SUSE_JOIN", "SUSE_WAIT"}, arg \in Hilo \cup Nombre : Atender(p, op, arg)
  BY DEF procesarThreadJoin, procesarSemWait
<1>2. running_thread[p] \in Hilo /\ estado[running_thread[p]] = "RUNNING"
  <2>1. op \in OpConRespuesta /\ op # "SUSE_SCHEDULE_NEXT"
    BY DEF OpConRespuesta
  <2> QED BY <1>1, <2>1, Atencion
<1>3. estado' = estado \/ estado' = [estado EXCEPT ![running_thread[p]] = "BLOCKED"]
  BY <1>2, NuloAssumption DEF procesarThreadJoin, procesarSemWait, BloquearPorJoin
<1> QED BY <1>2, <1>3, Tipos DEF Cambio, CambiosDeEstado

LEMMA CicloScheduleNext ==
  ASSUME Invariante, NEW p \in Proceso, NEW t \in Hilo, procesarThreadScheduleNext(p)
  PROVE  Cambio(t)
<1>1. \/ UNCHANGED estado
      \/ \E h \in Candidatos(p) : PonerARunning(p, h)
  BY DEF procesarThreadScheduleNext, QuedarSinRunning
<1>2. ASSUME NEW h \in Candidatos(p), PonerARunning(p, h) PROVE Cambio(t)
  <2>1. (h = running_thread[p] /\ estado[h] = "RUNNING") \/ h \in ready[p]
    BY DEF Candidatos
  <2>2. h \in ready[p] => h \in Hilo /\ estado[h] \in {"READY", "BLOCKED"}
    <3>1. h \in ready[p] => h \in Hilo /\ padre[h] = p
      BY Tipos DEF Invariante, InvListas, InvPropias
    <3> QED BY <3>1 DEF Invariante, InvListas, InvLista
  <2>3. CASE t = h
    <3>1. estado'[t] = "RUNNING"
      BY <1>2, <2>3 DEF PonerARunning
    <3> QED BY <2>1, <2>2, <2>3, <3>1 DEF Cambio, CambiosDeEstado
  <2>4. CASE t # h
    <3>1. estado'[t] = IF t = running_thread[p] /\ estado[t] = "RUNNING" THEN "READY" ELSE estado[t]
      BY <1>2, <2>4 DEF PonerARunning
    <3> QED BY <3>1 DEF Cambio, CambiosDeEstado
  <2> QED BY <2>3, <2>4
<1> QED BY <1>1, <1>2 DEF Cambio

LEMMA CicloSignal ==
  ASSUME Invariante, NEW p \in Proceso, NEW s \in Nombre, NEW t \in Hilo, procesarSemSignal(p, s)
  PROVE  Cambio(t)
<1>1. \/ UNCHANGED estado
      \/ s \in Semaforo /\ cola[s] # <<>> /\ DesbloquearPrimero(p, s)
  BY DEF procesarSemSignal, SumarAlSemaforo
<1>2. ASSUME s \in Semaforo, cola[s] # <<>>, DesbloquearPrimero(p, s) PROVE Cambio(t)
  <2>1. Head(cola[s]) \in Hilo /\ Head(cola[s]) \in Elementos(cola[s])
    BY <1>2, Tipos, Quitar
  <2> PICK h \in Hilo : h = Head(cola[s])
    BY <2>1
  <2>2. estado[h] = "BLOCKED"
    <3>1. s \in Esperas(h)
      BY <1>2, <2>1 DEF Esperas
    <3>2. h \in g_blocked_threads
      BY <3>1 DEF Invariante, EsperaUnica
    <3> QED BY <3>2 DEF Invariante, InvListas, InvLista
  <2>3. PICK e \in {"READY", "RUNNING"} : estado' = [estado EXCEPT ![h] = e]
    BY <1>2 DEF DesbloquearPrimero, EjecutarDesbloqueado, PasarDesbloqueadoAReady
  <2> QED BY <2>2, <2>3, Tipos DEF Cambio, CambiosDeEstado
<1> QED BY <1>1, <1>2 DEF Cambio

LEMMA CicloPaso == Invariante /\ [Next]_vars => [\A h \in Hilo : Cambio(h)]_vars
<1> SUFFICES ASSUME Invariante, NEW p \in Proceso, NEW t \in Hilo, Servidor(p) \/ Cliente(p)
             PROVE  Cambio(t)
  BY DEF Next
<1>1. CASE UNCHANGED estado
  BY <1>1 DEF Cambio
<1>2. CASE Cliente(p)
  BY <1>1, <1>2 DEF Cliente, servidor, listas
<1>3. CASE Servidor(p)
  <2>1. atenderConexion(p) /\ UNCHANGED hilolay
    BY <1>3 DEF Servidor
  <2>2. CASE enviarMultiProg(p) \/ CerrarConexion(p)
    BY <1>1, <2>2 DEF enviarMultiProg, CerrarConexion, listas
  <2>3. CASE esperarPaqueteCreateMain(p) \/ \E h \in Hilo : procesarThreadCreate(p, h)
    BY <2>1, <2>3, CicloCreate
  <2>4. CASE procesarThreadClose(p)
    BY <2>4, CicloClose
  <2>5. CASE (\E h \in Hilo : procesarThreadJoin(p, h)) \/ (\E s \in Nombre : procesarSemWait(p, s))
    BY <2>5, CicloBloqueo
  <2>6. CASE procesarThreadScheduleNext(p)
    BY <2>6, CicloScheduleNext
  <2>7. CASE \E s \in Nombre : procesarSemSignal(p, s)
    BY <2>7, CicloSignal
  <2> QED BY <2>1, <2>2, <2>3, <2>4, <2>5, <2>6, <2>7 DEF atenderConexion, procesarPaqueteLibSuse
<1> QED BY <1>2, <1>3

(* A thread moves along the life cycle only: nothing runs from NEW, nothing  *)
(* comes back from EXIT, and a thread blocks or ends only while it runs.     *)
THEOREM CicloDeVidaSiempre == Spec => CicloDeVida
<1>1. [\A h \in Hilo : Cambio(h)]_vars
        => [\A h \in Hilo : estado'[h] # estado[h]
              => <<estado[h], estado'[h]>> \in CambiosDeEstado]_vars
  BY DEF Cambio
<1> QED BY <1>1, CicloPaso, InvarianteSiempre, PTL DEF Spec, CicloDeVida

-------------------------------------------------------------------------------
(* A process left waiting with a ready thread *)

(* The step does to p what ParoSoloPorAdmision allows.                       *)
ParoExplicado(p) ==
  Parado(p)' /\ ~ Parado(p) =>
    /\ running_thread[p] = Nulo /\ g_new_threads # <<>>
    /\ padre[Head(g_new_threads)] = p /\ g_new_threads' = Tail(g_new_threads)

(* It explains itself when p keeps its running thread and its ready list, or *)
(* has a running thread afterwards.                                          *)
LEMMA ParoMarco ==
  ASSUME NEW p \in Proceso,
         \/ etapa'[p] = etapa[p] /\ running_thread'[p] = running_thread[p] /\ ready'[p] = ready[p]
         \/ running_thread'[p] # Nulo
         \/ etapa'[p] # "bucle"
         \/ ready'[p] = {}
  PROVE  ParoExplicado(p)
BY DEF ParoExplicado, Parado

(* A thread waits only for a thread of its own process to end.               *)
EsperaALosSuyos == \A h \in Hilo : \A x \in threads_bloqueados[h] : padre[x] = padre[h]

LEMMA EsperaALosSuyosPaso ==
  Invariante /\ EsperaALosSuyos /\ [Next]_vars => EsperaALosSuyos'
<1> SUFFICES ASSUME Invariante, EsperaALosSuyos, [Next]_vars PROVE EsperaALosSuyos'
  OBVIOUS
<1>1. CASE UNCHANGED threads_bloqueados
  BY <1>1 DEF EsperaALosSuyos
<1>2. ASSUME NEW p \in Proceso, NEW tid \in Hilo, procesarThreadJoin(p, tid)
      PROVE  EsperaALosSuyos'
  <2>1. /\ running_thread[p] \in Hilo /\ padre[running_thread[p]] = p
        /\ tid \in ults[p] /\ padre[tid] = p
    <3>1. "SUSE_JOIN" \in OpConRespuesta /\ Atender(p, "SUSE_JOIN", tid)
      BY <1>2 DEF OpConRespuesta, procesarThreadJoin
    <3>2. tid \in ults[p] /\ running_thread[p] \in Hilo /\ padre[running_thread[p]] = p
      BY <3>1, Atencion
    <3> QED BY <3>2, Hechos
  <2>2. \/ UNCHANGED threads_bloqueados
        \/ threads_bloqueados' = [threads_bloqueados EXCEPT
              ![find_thread_by_tid_in_parent(p, tid)] = @ \cup {running_thread[p]}]
    BY <1>2, <2>1, NuloAssumption DEF procesarThreadJoin, BloquearPorJoin
  <2>3. find_thread_by_tid_in_parent(p, tid) \in {tid, Nulo}
    BY DEF find_thread_by_tid_in_parent
  <2>4. \A h \in Hilo : \/ threads_bloqueados'[h] = threads_bloqueados[h]
                        \/ h = tid /\ threads_bloqueados'[h] =
                                         threads_bloqueados[h] \cup {running_thread[p]}
    BY <2>2, <2>3, Tipos, NuloAssumption
  <2> QED BY <2>1, <2>4 DEF EsperaALosSuyos
<1>3. ASSUME NEW p \in Proceso, procesarThreadClose(p) PROVE EsperaALosSuyos'
  <2>1. \A h \in Hilo : threads_bloqueados'[h] \subseteq threads_bloqueados[h]
    BY <1>3, Tipos DEF procesarThreadClose, CerrarThread, listas
  <2> QED BY <2>1 DEF EsperaALosSuyos
<1>4. ASSUME NEW p \in Proceso, Servidor(p) PROVE EsperaALosSuyos'
  BY <1>1, <1>2, <1>3, <1>4
     DEF Servidor, atenderConexion, enviarMultiProg, esperarPaqueteCreateMain, CerrarConexion,
         listas, procesarPaqueteLibSuse, procesarThreadCreate, procesarThreadScheduleNext,
         procesarSemSignal, procesarSemWait
<1>5. ASSUME NEW p \in Proceso, Cliente(p) PROVE EsperaALosSuyos'
  BY <1>1, <1>5 DEF Cliente, servidor, listas
<1>6. CASE UNCHANGED vars
  BY <1>1, <1>6 DEF vars, servidor, listas
<1> QED BY <1>4, <1>5, <1>6 DEF Next

LEMMA EsperaALosSuyosSiempre == Spec => []EsperaALosSuyos
<1>1. Init => EsperaALosSuyos
  BY DEF Init, SuseInit, EsperaALosSuyos
<1> QED BY <1>1, EsperaALosSuyosPaso, InvarianteSiempre, PTL DEF Spec

(* A close: its own process has a running thread, the threads it releases    *)
(* from a join are of that process, and only the NEW thread may be another's. *)
LEMMA ParoClose ==
  ASSUME Invariante, EsperaALosSuyos, NEW p \in Proceso, NEW q \in Proceso,
         procesarThreadClose(p)
  PROVE  ParoExplicado(q)
<1>1. PICK arg \in Hilo : Atender(p, "SUSE_CLOSE", arg)
  BY DEF procesarThreadClose
<1>2. /\ running_thread[p] \in Hilo /\ padre[running_thread[p]] = p
      /\ running_thread[p] # Nulo /\ etapa' = etapa
  <2>1. "SUSE_CLOSE" \in OpConRespuesta
    BY DEF OpConRespuesta
  <2> QED BY <1>1, <2>1, Atencion, NuloAssumption
<1> PICK h \in Hilo : h = running_thread[p]
  BY <1>2
<1>3. LiberarAdmision(h, threads_bloqueados[h]) /\ running_thread' = running_thread
  BY <1>2 DEF procesarThreadClose, CerrarThread
<1>4. CASE q = p
  BY <1>2, <1>3, <1>4, ParoMarco
<1>5. CASE q # p
  <2>1. \A x \in threads_bloqueados[h] : padre[x] # q
    BY <1>2, <1>5 DEF EsperaALosSuyos
  <2>2. ready[q] \subseteq Hilo
    BY Tipos
  <2>3. CASE ready' = AgregarAReady(threads_bloqueados[h])
    <3>1. ready'[q] = ready[q]
      BY <2>1, <2>3 DEF AgregarAReady
    <3> QED BY <1>2, <1>3, <3>1, ParoMarco
  <2>4. CASE /\ g_new_threads # <<>> /\ g_new_threads' = Tail(g_new_threads)
             /\ ready' = AgregarAReady(threads_bloqueados[h] \cup {Head(g_new_threads)})
    <3>1. CASE padre[Head(g_new_threads)] = q
      BY <1>2, <1>3, <2>4, <3>1 DEF ParoExplicado, Parado
    <3>2. CASE padre[Head(g_new_threads)] # q
      <4>1. ready'[q] = ready[q]
        BY <2>1, <2>4, <3>2 DEF AgregarAReady
      <4> QED BY <1>2, <1>3, <4>1, ParoMarco
    <3> QED BY <3>1, <3>2
  <2> QED BY <1>3, <2>3, <2>4 DEF LiberarAdmision
<1> QED BY <1>4, <1>5

(* schedule_next leaves its process without a running thread only when no    *)
(* thread of it is ready.                                                    *)
LEMMA ParoScheduleNext ==
  ASSUME Invariante, NEW p \in Proceso, NEW q \in Proceso, procesarThreadScheduleNext(p)
  PROVE  ParoExplicado(q)
<1>1. /\ running_thread[p] # Nulo /\ etapa' = etapa
  <2>1. "SUSE_SCHEDULE_NEXT" \in OpConRespuesta
    BY DEF OpConRespuesta
  <2> QED BY <2>1, Atencion, NuloAssumption DEF procesarThreadScheduleNext
<1>2. ASSUME NEW h \in Candidatos(p), PonerARunning(p, h) PROVE ParoExplicado(q)
  <2>1. h \in Hilo
    BY <1>1, Tipos DEF Candidatos
  <2>2. running_thread' = [running_thread EXCEPT ![p] = h]
        /\ ready' = [ready EXCEPT ![p] = Candidatos(p) \ {h}]
    BY <1>2 DEF PonerARunning
  <2>3. CASE q = p
    BY <2>1, <2>2, <2>3, Tipos, NuloAssumption, ParoMarco
  <2>4. CASE q # p
    BY <1>1, <2>2, <2>4, Tipos, ParoMarco
  <2> QED BY <2>3, <2>4
<1>3. CASE Candidatos(p) = {} /\ QuedarSinRunning(p)
  <2>1. ready[p] = {} /\ ready' = ready
        /\ running_thread' = [running_thread EXCEPT ![p] = Nulo]
    BY <1>3, Tipos DEF Candidatos, QuedarSinRunning
  <2>2. CASE q = p
    BY <2>1, <2>2, ParoMarco
  <2>3. CASE q # p
    BY <1>1, <2>1, <2>3, Tipos, ParoMarco
  <2> QED BY <2>2, <2>3
<1> QED BY <1>1, <1>2, <1>3 DEF procesarThreadScheduleNext

(* A signal to an idle process gives it the thread it releases as running.   *)
LEMMA ParoSignal ==
  ASSUME Invariante, NEW p \in Proceso, NEW q \in Proceso, NEW s \in Nombre,
         procesarSemSignal(p, s)
  PROVE  ParoExplicado(q)
<1>1. etapa' = etapa
  BY DEF procesarSemSignal, Atender
<1>2. \/ UNCHANGED <<running_thread, ready>>
      \/ s \in Semaforo /\ cola[s] # <<>> /\ DesbloquearPrimero(p, s)
  BY DEF procesarSemSignal, SumarAlSemaforo
<1>3. CASE UNCHANGED <<running_thread, ready>>
  BY <1>1, <1>3, ParoMarco
<1>4. CASE s \in Semaforo /\ cola[s] # <<>> /\ DesbloquearPrimero(p, s)
  <2>1. Head(cola[s]) \in Hilo
    BY <1>4, Tipos, Quitar
  <2> PICK h \in Hilo : h = Head(cola[s])
    BY <2>1
  <2>2. padre[h] \in Proceso
    BY HilosAssumption
  <2>3. CASE running_thread[padre[h]] = Nulo
    <3>1. ready' = ready /\ running_thread' = [running_thread EXCEPT ![padre[h]] = h]
      BY <1>4, <2>3 DEF DesbloquearPrimero, EjecutarDesbloqueado
    <3>2. CASE q = padre[h]
      BY <3>1, <3>2, Tipos, NuloAssumption, ParoMarco
    <3>3. CASE q # padre[h]
      BY <1>1, <3>1, <3>3, Tipos, ParoMarco
    <3> QED BY <3>2, <3>3
  <2>4. CASE running_thread[padre[h]] # Nulo
    <3>1. ready' = AgregarAReady({h}) /\ running_thread' = running_thread
      BY <1>4, <2>4 DEF DesbloquearPrimero, PasarDesbloqueadoAReady, trancisionar_bloqueado_a_ready
    <3>2. CASE q = padre[h]
      BY <2>4, <3>1, <3>2, ParoMarco
    <3>3. CASE q # padre[h]
      <4>1. ready'[q] = ready[q]
        BY <3>1, <3>3 DEF AgregarAReady
      <4> QED BY <1>1, <3>1, <4>1, ParoMarco
    <3> QED BY <3>2, <3>3
  <2> QED BY <2>3, <2>4
<1> QED BY <1>2, <1>3, <1>4

(* The creations: the process that creates has a running thread.             *)
LEMMA ParoCreate ==
  ASSUME Invariante, NEW p \in Proceso, NEW q \in Proceso,
         esperarPaqueteCreateMain(p) \/ \E h \in Hilo : procesarThreadCreate(p, h)
  PROVE  ParoExplicado(q)
<1>1. CASE esperarPaqueteCreateMain(p)
  <2>1. /\ etapa' = [etapa EXCEPT ![p] = "bucle"] /\ ready' = ready
        /\ running_thread' = [running_thread EXCEPT ![p] = principal[p]]
    BY <1>1 DEF esperarPaqueteCreateMain
  <2>2. principal[p] \in Hilo /\ principal[p] # Nulo
    BY HilosAssumption, NuloAssumption
  <2>3. CASE q = p
    BY <2>1, <2>2, <2>3, Tipos, ParoMarco
  <2>4. CASE q # p
    BY <2>1, <2>4, Tipos, ParoMarco
  <2> QED BY <2>3, <2>4
<1>2. ASSUME NEW h \in Hilo, procesarThreadCreate(p, h) PROVE ParoExplicado(q)
  <2>1. /\ etapa[p] = "bucle" /\ etapa' = etapa /\ running_thread' = running_thread
        /\ pedido[p] # <<>>
    BY <1>2 DEF procesarThreadCreate, Atender, Recibido
  <2>2. running_thread[p] # Nulo
    BY <2>1, Hechos DEF InvEtapa
  <2>3. ready' = ready \/ ready' = [ready EXCEPT ![p] = @ \cup {h}]
    BY <1>2 DEF procesarThreadCreate, AdmitirThread, EncolarThread
  <2>4. CASE q = p
    BY <2>1, <2>2, <2>4, ParoMarco
  <2>5. CASE q # p
    BY <2>1, <2>3, <2>5, Tipos, ParoMarco
  <2> QED BY <2>4, <2>5
<1> QED BY <1>1, <1>2

LEMMA ParoPaso ==
  Invariante /\ EsperaALosSuyos /\ [Next]_vars => [\A p \in Proceso : ParoExplicado(p)]_vars
<1> SUFFICES ASSUME Invariante, EsperaALosSuyos, NEW p \in Proceso, NEW q \in Proceso, Servidor(p) \/ Cliente(p)
             PROVE  ParoExplicado(q)
  BY DEF Next
<1>1. CASE UNCHANGED <<etapa, running_thread, ready>>
  BY <1>1, ParoMarco
<1>2. CASE Cliente(p)
  BY <1>1, <1>2 DEF Cliente, servidor, listas
<1>3. CASE Servidor(p)
  <2>1. atenderConexion(p)
    BY <1>3 DEF Servidor
  <2>2. CASE enviarMultiProg(p) \/ CerrarConexion(p)
    <3>1. /\ UNCHANGED <<running_thread, ready>>
          /\ \E e \in {"create_main", "cerrada"} : etapa' = [etapa EXCEPT ![p] = e]
      BY <2>2 DEF enviarMultiProg, CerrarConexion, listas
    <3>2. etapa'[q] = etapa[q] \/ etapa'[q] # "bucle"
      BY <3>1, Tipos
    <3> QED BY <3>1, <3>2, ParoMarco
  <2>3. CASE esperarPaqueteCreateMain(p) \/ \E h \in Hilo : procesarThreadCreate(p, h)
    BY <2>3, ParoCreate
  <2>4. CASE procesarThreadClose(p)
    BY <2>4, ParoClose
  <2>5. CASE (\E h \in Hilo : procesarThreadJoin(p, h)) \/ (\E s \in Nombre : procesarSemWait(p, s))
    BY <1>1, <2>5 DEF procesarThreadJoin, procesarSemWait, Atender
  <2>6. CASE procesarThreadScheduleNext(p)
    BY <2>6, ParoScheduleNext
  <2>7. CASE \E s \in Nombre : procesarSemSignal(p, s)
    BY <2>7, ParoSignal
  <2> QED BY <2>1, <2>2, <2>3, <2>4, <2>5, <2>6, <2>7 DEF atenderConexion, procesarPaqueteLibSuse
<1> QED BY <1>2, <1>3

(* Only a close that admits the first NEW thread of an idle process leaves   *)
(* that process waiting with a ready thread (SUSE.c:216): no schedule_next,  *)
(* release of joiners, signal or death does.                                 *)
THEOREM ParoSiempre == Spec => ParoSoloPorAdmision
<1>1. [\A p \in Proceso : ParoExplicado(p)]_vars
        => [\A p \in Proceso : Parado(p)' /\ ~ Parado(p) =>
              /\ running_thread[p] = Nulo /\ g_new_threads # <<>>
              /\ padre[Head(g_new_threads)] = p /\ g_new_threads' = Tail(g_new_threads)]_vars
  BY DEF ParoExplicado
<1> QED BY <1>1, ParoPaso, InvarianteSiempre, EsperaALosSuyosSiempre, PTL DEF Spec, ParoSoloPorAdmision
===============================================================================
