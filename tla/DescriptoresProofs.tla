--------------------------- MODULE DescriptoresProofs --------------------------
(***************************************************************************)
(* Theorems about Descriptores as the code is, for any number of clients:  *)
(* which of the four orders that nothing in the server prevents (see       *)
(* DescriptoresVista) each promise depends on, and that it depends on no   *)
(* other.  The invariant has one part per set of orders.                   *)
(***************************************************************************)
EXTENDS DescriptoresVista, LemasComunes

Vivo == {"leer", "recv", "procesar", "responder", "error"}
Atenta == {"leer", "recv"}
EnMano == {"procesar", "responder"}
Acabado == {"error", "sacar", "cerrar", "fin"}

(* Whatever happens: a thread has a number and reads somebody; a connection  *)
(* is named by one number at most, and by none before it is accepted.        *)
Cimientos ==
  \A c \in Cliente :
    /\ pc[c] # "sin_hilo" => socketCliente[c] \in Numero
    /\ pc[c] = "recv" => leyendo[c] \in Cliente
    /\ pc[c] \in EnMano => paquete[c] \in Mensaje
    /\ pc[c] = "sin_hilo" => \A n \in Numero : descriptor[n] # c
    /\ fase[c] = "afuera" => pc[c] = "sin_hilo"

UnNumero ==
  \A n, m \in Numero : descriptor[n] \in Cliente /\ descriptor[n] = descriptor[m] => n = m

PorAceptar ==
  /\ \A i \in DOMAIN pendientes :
       pc[pendientes[i]] = "sin_hilo" /\ fase[pendientes[i]] # "afuera"
  /\ \A i, j \in DOMAIN pendientes : pendientes[i] = pendientes[j] => i = j

Base == TypeOKDescriptores /\ Cimientos /\ UnNumero /\ PorAceptar

(* Without a reuse.  The numbers of the threads that still use them differ.  *)
NumerosDistintos ==
  \A c, d \in Cliente :
    c # d /\ pc[c] \notin {"sin_hilo", "fin"} /\ pc[d] \notin {"sin_hilo", "fin"} =>
      socketCliente[c] # socketCliente[d]

(* How many packets of c were read, up to the second: then all are alike.    *)
Leidos(c) ==
  IF etapa[c] = "bucle" THEN 2
  ELSE (IF etapa[c] = "create_main" THEN 1 ELSE 0) + (IF pc[c] = "procesar" THEN 1 ELSE 0)

(* What a client sends after k packets: handshake, main, operations. *)
EsGuion(s, k) ==
  \A i \in DOMAIN s : s[i] \in IF i + k = 1 THEN {"HANDSHAKE"}
                               ELSE IF i + k = 2 THEN {"SUSE_CREATE"} ELSE Operacion

(* The requests of c come to its thread in the order in which it sends them. *)
Orden(c) ==
  /\ EsGuion(pedido[c], Leidos(c))
  /\ fase[c] = "afuera" => Len(pedido[c]) + Leidos(c) = 0
  /\ fase[c] = "SUSE_GRADO_MULTIPROG" => Len(pedido[c]) + Leidos(c) = 1
  /\ fase[c] = "terminado" => Len(pedido[c]) + Leidos(c) >= 1
  /\ fase[c] \in Operacion \cup {"corriendo"} => Len(pedido[c]) + Leidos(c) >= 2
  /\ pc[c] \in EnMano =>
       paquete[c] \in IF etapa[c] = "handshake" THEN {"HANDSHAKE"}
                      ELSE IF etapa[c] = "create_main" THEN {"SUSE_CREATE"} ELSE Operacion
  /\ etapa[c] = "bucle" => self_socket[c] = socketCliente[c] /\ pc[c] # "sin_hilo"
  /\ etapa[c] # "bucle" => pc[c] \notin {"responder", "cerrar", "fin"}
  /\ etapa[c] = "handshake" => pc[c] \in {"sin_hilo", "leer", "recv", "procesar"}
  /\ etapa[c] # "bucle" /\ pc[c] = "sacar" => caido
  /\ etapa[c] # "handshake" => pc[c] # "sin_hilo"
  /\ pc[c] \in Acabado => fase[c] = "terminado" /\ pedido[c] = <<>>

Atendido(c) == etapa[c] = "bucle" /\ pc[c] \notin {"cerrar", "fin"}

Lista ==
  /\ \A c \in Cliente : Atendido(c) <=> \E i \in DOMAIN g_running_procs : g_running_procs[i] = c
  /\ \A i, j \in DOMAIN g_running_procs : g_running_procs[i] = g_running_procs[j] => i = j

SinReuso == CadaHiloLoSuyo /\ NumerosDistintos /\ Lista /\ \A c \in Cliente : Orden(c)

(* The client has ended after one packet, without creating its main thread.  *)
Temprano(c) == fase[c] = "terminado" /\ Len(pedido[c]) + Leidos(c) = 1

(* Without a reuse, what explains the fall of the server. *)
Explicada ==
  /\ caido => ~ Sin({"arranque", "salida"})
  /\ \A c \in Cliente : Temprano(c) => "arranque" \in faltas

(* The metrics still count on what is in the list. *)
Medida == Sin({"salida"}) => cantidad <= Len(g_running_procs)

(* Without a reuse and without an answer to a process that has ended: what   *)
(* is in flight for c.  While the server waits for its handshake:            *)
EnHandshake(c) ==
  /\ respuesta[c] = <<>> /\ c \notin ocioso
  /\ \/ fase[c] = "afuera" /\ pc[c] = "sin_hilo" /\ pedido[c] = <<>>
     \/ /\ fase[c] \in {"SUSE_GRADO_MULTIPROG", "terminado"}
        /\ \/ pc[c] \in {"sin_hilo"} \cup Atenta /\ pedido[c] = <<"HANDSHAKE">>
           \/ pc[c] = "procesar" /\ paquete[c] = "HANDSHAKE" /\ pedido[c] = <<>>

(* What follows the creation of main in what c sent.                         *)
Resto(c, s) ==
  /\ fase[c] = "corriendo" => s = <<>>
  /\ fase[c] \in Operacion => s = <<fase[c]>>
  /\ fase[c] = "terminado" => s = <<>> \/ \E op \in Operacion : s = <<op>>

(* While it waits for the creation of main, which may never come. *)
EnCreateMain(c) ==
  /\ c \notin ocioso
  /\ \/ /\ fase[c] = "SUSE_GRADO_MULTIPROG" /\ pc[c] \in Atenta /\ pedido[c] = <<>>
        /\ respuesta[c] = <<[op |-> "SUSE_GRADO_MULTIPROG", para |-> c]>>
     \/ /\ fase[c] \in Operacion \cup {"corriendo", "terminado"} /\ respuesta[c] = <<>>
        /\ \/ /\ pc[c] \in Atenta /\ pedido[c] # <<>> /\ Head(pedido[c]) = "SUSE_CREATE"
              /\ Resto(c, Tail(pedido[c]))
           \/ pc[c] = "procesar" /\ paquete[c] = "SUSE_CREATE" /\ Resto(c, pedido[c])
     \/ /\ fase[c] = "terminado" /\ respuesta[c] = <<>> /\ pedido[c] = <<>>
        /\ pc[c] \in Atenta \cup {"error", "sacar"}

(* In the loop, between two packets of c: an operation c waits for is        *)
(* unread, or unanswered in the hands of the others, or answered.            *)
EntrePaquetes(c) ==
  \/ fase[c] = "corriendo" /\ pedido[c] = <<>> /\ respuesta[c] = <<>> /\ c \notin ocioso
  \/ fase[c] \in Operacion /\ pedido[c] = <<fase[c]>> /\ respuesta[c] = <<>> /\ c \notin ocioso
  \/ fase[c] = "SUSE_SCHEDULE_NEXT" /\ pedido[c] = <<>> /\ respuesta[c] = <<>> /\ c \in ocioso
  \/ /\ fase[c] \in Operacion /\ pedido[c] = <<>> /\ c \notin ocioso
     /\ respuesta[c] = <<[op |-> fase[c], para |-> c]>>
  \/ /\ fase[c] = "terminado" /\ respuesta[c] = <<>>
     /\ pedido[c] = <<>> \/ (c \notin ocioso /\ \E op \in Operacion : pedido[c] = <<op>>)

EnBucle(c) ==
  /\ pc[c] # "sin_hilo"
  /\ pc[c] \in Atenta => EntrePaquetes(c)
  /\ pc[c] \in EnMano =>
       /\ paquete[c] \in Operacion /\ pedido[c] = <<>> /\ respuesta[c] = <<>> /\ c \notin ocioso
       /\ fase[c] \in {paquete[c], "terminado"}
  /\ pc[c] \in Acabado => fase[c] = "terminado" /\ pedido[c] = <<>> /\ respuesta[c] = <<>>

Curso(c) ==
  /\ etapa[c] = "handshake" => EnHandshake(c)
  /\ etapa[c] = "create_main" => EnCreateMain(c)
  /\ etapa[c] = "bucle" => EnBucle(c)

Cursos == \A c \in Cliente : Curso(c)

InvarianteD ==
  /\ Base /\ faltas \subseteq Falta
  /\ Sin({"reuso"}) => SinReuso /\ Explicada
  /\ Sin({"reuso", "huerfano"}) => Cursos
  /\ Medida

-------------------------------------------------------------------------------
(* What holds whatever happens. *)

(* Who reads, and whom, while numbers and connections stay as they are. *)
LEMMA MarcoBase ==
  ASSUME Base, TypeOKDescriptores', UNCHANGED <<pendientes, descriptor, socketCliente>>,
         \A q \in Cliente :
           /\ pc'[q] = "sin_hilo" <=> pc[q] = "sin_hilo"
           /\ pc'[q] = "recv" => (pc[q] = "recv" /\ leyendo'[q] = leyendo[q]) \/ leyendo'[q] \in Cliente
           /\ pc'[q] \in EnMano => (pc[q] \in EnMano /\ paquete'[q] = paquete[q]) \/ paquete'[q] \in Mensaje
           /\ fase'[q] = "afuera" => fase[q] = "afuera"
  PROVE  Base'
<1>1. Cimientos'
  BY DEF Base, Cimientos
<1>2. UnNumero'
  BY DEF Base, UnNumero
<1>3. PorAceptar'
  BY DEF Base, PorAceptar, TypeOKDescriptores
<1> QED BY <1>1, <1>2, <1>3 DEF Base

LEMMA InitBase == Init => Base
<1> SUFFICES ASSUME Init PROVE Base
  OBVIOUS
<1> USE NumerosAssumption, NuloAssumption DEF Init
<1>1. TypeOKDescriptores
  <2>1. <<>> \in Seq(Mensaje) /\ <<>> \in Seq(Respuesta) /\ <<>> \in Seq(Cliente)
    OBVIOUS
  <2>2. pedido \in [Cliente -> Seq(Mensaje)] /\ respuesta \in [Cliente -> Seq(Respuesta)]
    BY <2>1
  <2> QED BY <2>1, <2>2 DEF TypeOKDescriptores, Fase, Punto, Etapa
<1>2. Cimientos /\ UnNumero
  BY DEF Cimientos, UnNumero, EnMano
<1>3. PorAceptar
  BY DEF PorAceptar
<1> QED BY <1>1, <1>2, <1>3 DEF Base

LEMMA BaseConectar ==
  ASSUME Base, NEW c \in Cliente, Conectar(c)
  PROVE  Base'
<1> USE DEF Conectar, hilos, suse, metricas
<1>1. TypeOKDescriptores'
  <2>1. fase' \in [Cliente -> Fase] /\ pedido' \in [Cliente -> Seq(Mensaje)]
    BY DEF Base, TypeOKDescriptores, Fase, Mensaje
  <2>2. pendientes' \in Seq(Cliente)
    BY DEF Base, TypeOKDescriptores
  <2> QED BY <2>1, <2>2 DEF Base, TypeOKDescriptores
<1>2. Cimientos'
  BY DEF Base, Cimientos, TypeOKDescriptores
<1>3. UnNumero'
  BY DEF Base, UnNumero
<1>4. PorAceptar'
  <2>1. pc[c] = "sin_hilo" /\ \A i \in DOMAIN pendientes : pendientes[i] # c
    BY DEF Base, Cimientos, PorAceptar
  <2> QED BY SMTT(30), <2>1 DEF Base, TypeOKDescriptores, PorAceptar
<1> QED BY <1>1, <1>2, <1>3, <1>4 DEF Base

LEMMA BaseCliente ==
  ASSUME Base, NEW c \in Cliente,
         CrearMain(c) \/ (\E op \in Operacion : Pedir(c, op)) \/ esperarRespuesta(c) \/ Terminar(c)
  PROVE  Base'
<1>1. /\ fase' \in [Cliente -> Fase] /\ pedido' \in [Cliente -> Seq(Mensaje)]
      /\ respuesta' \in [Cliente -> Seq(Respuesta)]
      /\ \A q \in Cliente : fase'[q] = "afuera" => fase[q] = "afuera"
  <2> USE DEF Base, TypeOKDescriptores, Fase, Mensaje
  <2>1. CASE CrearMain(c)
    BY <2>1 DEF CrearMain
  <2>2. CASE \E op \in Operacion : Pedir(c, op)
    <3>1. PICK op \in Operacion : Pedir(c, op)
      BY <2>2
    <3>2. op \in Mensaje /\ op \in Fase /\ op # "afuera"
      BY DEF Operacion
    <3> QED BY <3>1, <3>2 DEF Pedir
  <2>3. CASE esperarRespuesta(c)
    BY <2>3 DEF esperarRespuesta
  <2>4. CASE Terminar(c)
    <3>1. <<>> \in Seq(Respuesta)
      OBVIOUS
    <3> QED BY <2>4, <3>1 DEF Terminar
  <2> QED BY <2>1, <2>2, <2>3, <2>4
<1>2. UNCHANGED <<pendientes, descriptor, hilos, suse, metricas, caido>>
  BY DEF CrearMain, Pedir, esperarRespuesta, Terminar
<1>3. TypeOKDescriptores'
  BY <1>1, <1>2 DEF Base, TypeOKDescriptores, hilos, suse, metricas
<1> QED BY <1>1, <1>2, <1>3, MarcoBase DEF hilos

(* Whom a packet reaches: the client whose connection the number names now.  *)
LEMMA Envio ==
  ASSUME TypeOKDescriptores, NEW n \in Numero, NEW op \in Mensaje, NEW para \in Cliente,
         NEW d \in Cliente, descriptor[n] = d, enviarPaquetes(n, op, para)
  PROVE  /\ respuesta' \in [Cliente -> Seq(Respuesta)]
         /\ \A q \in Cliente : q # d => respuesta'[q] = respuesta[q]
         /\ fase[d] = "terminado" => respuesta'[d] = respuesta[d]
         /\ fase[d] # "terminado" /\ respuesta[d] = <<>> =>
              respuesta'[d] = <<[op |-> op, para |-> para]>>
<1>1. d # Nulo
  BY NuloAssumption
<1>2. CASE fase[d] = "terminado"
  BY <1>1, <1>2 DEF enviarPaquetes, TypeOKDescriptores
<1>3. CASE fase[d] # "terminado"
  <2> DEFINE r == [op |-> op, para |-> para]
  <2>1. r \in Respuesta
    BY DEF Respuesta
  <2>2. respuesta' = [respuesta EXCEPT ![d] = Append(@, r)]
    BY <1>1, <1>3 DEF enviarPaquetes
  <2> HIDE DEF r
  <2>3. respuesta[d] = <<>> => Append(respuesta[d], r) = <<r>>
    OBVIOUS
  <2>4. Append(respuesta[d], r) \in Seq(Respuesta)
    BY <2>1 DEF TypeOKDescriptores
  <2>5. /\ respuesta' \in [Cliente -> Seq(Respuesta)]
        /\ \A q \in Cliente : q # d => respuesta'[q] = respuesta[q]
        /\ respuesta[d] = <<>> => respuesta'[d] = <<r>>
    BY <2>2, <2>3, <2>4 DEF TypeOKDescriptores
  <2> QED BY <1>3, <2>5 DEF r
<1> QED BY <1>2, <1>3

(* A packet may reach nobody, or whom the sender did not mean. *)
LEMMA TipoEnvio ==
  ASSUME TypeOKDescriptores, NEW n \in Numero, NEW op \in Mensaje, NEW para \in Cliente,
         enviarPaquetes(n, op, para)
  PROVE  respuesta' \in [Cliente -> Seq(Respuesta)]
<1>1. CASE descriptor[n] \in Cliente
  BY <1>1, Envio
<1>2. CASE descriptor[n] = Nulo
  BY <1>2 DEF enviarPaquetes, TypeOKDescriptores
<1> QED BY <1>1, <1>2 DEF TypeOKDescriptores

(* What leaves the list of processes: one of them, or none. *)
LEMMA TipoSacar ==
  ASSUME TypeOKDescriptores, NEW n
  PROVE  sacar(n) \in Seq(Cliente) /\ Len(sacar(n)) \in Nat
<1> DEFINE g == g_running_procs
           iguales == {i \in DOMAIN g : self_socket[g[i]] = n}
           k == CHOOSE i \in iguales : \A j \in iguales : i <= j
<1>1. g \in Seq(Cliente) /\ Len(g) \in Nat /\ DOMAIN g = 1 .. Len(g)
  BY LenProperties DEF TypeOKDescriptores
<1>2. CASE iguales = {}
  BY <1>1, <1>2 DEF sacar
<1>3. CASE iguales # {}
  <2>1. iguales \subseteq Int /\ IsFiniteSet(iguales)
    <3>1. iguales \subseteq 1 .. Len(g) /\ Len(g) \in Int
      BY <1>1
    <3>2. IsFiniteSet(1 .. Len(g))
      BY <3>1, FS_Interval
    <3> HIDE DEF iguales, g, k
    <3>3. IsFiniteSet(iguales)
      BY <3>1, <3>2, FS_Subset
    <3> QED BY <3>1, <3>3
  <2>2. k \in iguales
    <3>1. \E i \in iguales : \A j \in iguales : i <= j
      <4> HIDE DEF iguales
      <4> QED BY <1>3, <2>1, Minimo
    <3> HIDE DEF iguales
    <3> QED BY <3>1
  <2>3. k \in 1 .. Len(g)
    BY <1>1, <2>2
  <2>4. sacar(n) = SubSeq(g, 1, k - 1) \o SubSeq(g, k + 1, Len(g))
    BY <1>3 DEF sacar
  <2> HIDE DEF g, k, iguales
  <2>5. sacar(n) \in Seq(Cliente)
    BY <1>1, <2>3, <2>4, Quitar
  <2> QED BY <2>5, LenProperties
<1> QED BY <1>2, <1>3

(* The steps of a thread that leave the numbers alone. *)
LEMMA BaseHilo ==
  ASSUME Base, NEW c \in Cliente,
         \/ EmpezarRecv(c) \/ recibirPaquete(c) \/ RecibirFin(c)
         \/ QuedarOcioso(c) \/ SacarProceso(c)
  PROVE  Base'
<1> USE DEF Ir
<1>1. CASE EmpezarRecv(c)
  <2> USE DEF EmpezarRecv, clientes, suse, metricas
  <2>1. socketCliente[c] \in Numero
    BY <1>1 DEF Base, Cimientos
  <2>2. descriptor[socketCliente[c]] \in Cliente \cup {Nulo}
    BY <2>1 DEF Base, TypeOKDescriptores
  <2>3. /\ pc' \in [Cliente -> Punto] /\ leyendo' \in [Cliente -> Cliente \cup {Nulo}]
        /\ leyendo'[c] = descriptor[socketCliente[c]]
        /\ pc'[c] = IF leyendo'[c] = Nulo THEN "error" ELSE "recv"
    BY <1>1, <2>2 DEF Base, TypeOKDescriptores, Punto
  <2>4. TypeOKDescriptores'
    BY <1>1, <2>3 DEF Base, TypeOKDescriptores
  <2> QED BY <1>1, <2>2, <2>3, <2>4, MarcoBase DEF Base, TypeOKDescriptores, EnMano
<1>2. CASE recibirPaquete(c)
  <2> USE DEF recibirPaquete, suse, metricas
  <2>1. leyendo[c] \in Cliente
    BY <1>2 DEF Base, Cimientos
  <2>2. pedido[leyendo[c]] \in Seq(Mensaje) /\ pedido[leyendo[c]] # <<>>
    BY <1>2, <2>1 DEF Base, TypeOKDescriptores
  <2>3. Head(pedido[leyendo[c]]) \in Mensaje /\ Tail(pedido[leyendo[c]]) \in Seq(Mensaje)
    BY <2>2, HeadTailProperties
  <2>4. /\ pc' \in [Cliente -> Punto] /\ leyendo' \in [Cliente -> Cliente \cup {Nulo}]
        /\ paquete' \in [Cliente -> Mensaje \cup {Nulo}] /\ pedido' \in [Cliente -> Seq(Mensaje)]
        /\ pc'[c] = "procesar" /\ paquete'[c] \in Mensaje
    BY <1>2, <2>1, <2>3 DEF Base, TypeOKDescriptores, Punto
  <2>5. TypeOKDescriptores'
    BY <1>2, <2>4 DEF Base, TypeOKDescriptores
  <2> QED BY <1>2, <2>4, <2>5, MarcoBase DEF Base, TypeOKDescriptores, EnMano
<1>3. CASE RecibirFin(c)
  <2> USE DEF RecibirFin, clientes, suse, metricas
  <2>1. pc' \in [Cliente -> Punto] /\ leyendo' \in [Cliente -> Cliente \cup {Nulo}] /\ pc'[c] = "error"
    BY <1>3 DEF Base, TypeOKDescriptores, Punto
  <2>2. TypeOKDescriptores'
    BY <1>3, <2>1 DEF Base, TypeOKDescriptores
  <2> QED BY <1>3, <2>1, <2>2, MarcoBase DEF Base, TypeOKDescriptores, EnMano
<1>4. CASE QuedarOcioso(c)
  <2> USE DEF QuedarOcioso, clientes, metricas
  <2>1. /\ pc' \in [Cliente -> Punto] /\ paquete' \in [Cliente -> Mensaje \cup {Nulo}]
        /\ ocioso' \subseteq Cliente /\ pc'[c] = "leer"
    BY <1>4 DEF Base, TypeOKDescriptores, Punto
  <2>2. TypeOKDescriptores'
    BY <1>4, <2>1 DEF Base, TypeOKDescriptores
  <2> QED BY <1>4, <2>1, <2>2, MarcoBase DEF Base, TypeOKDescriptores, EnMano
<1>5. CASE SacarProceso(c)
  <2> USE DEF SacarProceso, clientes, metricas
  <2>1. pc' \in [Cliente -> Punto] /\ pc'[c] = "cerrar"
    BY <1>5 DEF Base, TypeOKDescriptores, Punto
  <2>2. g_running_procs' \in Seq(Cliente)
    BY <1>5, TipoSacar DEF Base
  <2>3. TypeOKDescriptores'
    BY <1>5, <2>1, <2>2 DEF Base, TypeOKDescriptores
  <2> QED BY <1>5, <2>1, <2>3, MarcoBase DEF Base, TypeOKDescriptores, EnMano
<1> QED BY <1>1, <1>2, <1>3, <1>4, <1>5

(* The steps of a thread that send. *)
LEMMA BaseEnvia ==
  ASSUME Base, NEW c \in Cliente,
         \/ enviarMultiProg(c) \/ Responder(c)
         \/ \E q \in Cliente : snd_schd_nxt_blockd_process(c, q)
  PROVE  Base'
<1> USE DEF Ir
<1>1. CASE enviarMultiProg(c)
  <2> USE DEF enviarMultiProg, suse, metricas
  <2>1. socketCliente[c] \in Numero /\ "SUSE_GRADO_MULTIPROG" \in Mensaje
    BY <1>1 DEF Base, Cimientos, Mensaje
  <2>2. respuesta' \in [Cliente -> Seq(Respuesta)]
    <3>1. enviarPaquetes(socketCliente[c], "SUSE_GRADO_MULTIPROG", c) \/ UNCHANGED respuesta
      BY <1>1
    <3>2. CASE UNCHANGED respuesta
      BY <3>2 DEF Base, TypeOKDescriptores
    <3> HIDE DEF enviarMultiProg
    <3> QED BY <2>1, <3>1, <3>2, TipoEnvio DEF Base
  <2>3. /\ pc' \in [Cliente -> Punto] /\ paquete' \in [Cliente -> Mensaje \cup {Nulo}]
        /\ etapa' \in [Cliente -> Etapa] /\ pc'[c] \in {"leer", "cerrar"}
        /\ \A q \in Cliente : q # c => pc'[q] = pc[q] /\ paquete'[q] = paquete[q]
    BY <1>1 DEF Base, TypeOKDescriptores, Punto, Etapa
  <2>4. TypeOKDescriptores'
    BY <1>1, <2>2, <2>3 DEF Base, TypeOKDescriptores
  <2> QED BY <1>1, <2>3, <2>4, MarcoBase DEF EnMano
<1>2. CASE Responder(c)
  <2> USE DEF Responder, suse, metricas
  <2>1. socketCliente[c] \in Numero /\ Operacion \subseteq Mensaje
    BY <1>2 DEF Base, Cimientos, Mensaje
  <2>2. respuesta' \in [Cliente -> Seq(Respuesta)]
    <3>1. \/ paquete[c] \in Operacion /\ enviarPaquetes(socketCliente[c], paquete[c], c)
          \/ UNCHANGED respuesta
      BY <1>2
    <3>2. CASE UNCHANGED respuesta
      BY <3>2 DEF Base, TypeOKDescriptores
    <3> HIDE DEF Responder
    <3> QED BY <2>1, <3>1, <3>2, TipoEnvio DEF Base
  <2>3. /\ pc' \in [Cliente -> Punto] /\ paquete' \in [Cliente -> Mensaje \cup {Nulo}]
        /\ pc'[c] = "leer" /\ caido' \in BOOLEAN
        /\ \A q \in Cliente : q # c => pc'[q] = pc[q] /\ paquete'[q] = paquete[q]
    BY <1>2 DEF Base, TypeOKDescriptores, Punto
  <2>4. TypeOKDescriptores'
    BY <1>2, <2>2, <2>3 DEF Base, TypeOKDescriptores
  <2> QED BY <1>2, <2>3, <2>4, MarcoBase DEF EnMano
<1>3. CASE \E q \in Cliente : snd_schd_nxt_blockd_process(c, q)
  <2>1. PICK d \in Cliente : snd_schd_nxt_blockd_process(c, d)
    BY <1>3
  <2> USE DEF snd_schd_nxt_blockd_process, metricas
  <2>2. self_socket[d] \in Numero /\ "SUSE_SCHEDULE_NEXT" \in Mensaje
    BY <2>1 DEF Base, TypeOKDescriptores, Mensaje, Operacion
  <2>3. respuesta' \in [Cliente -> Seq(Respuesta)]
    BY <2>1, <2>2, TipoEnvio DEF Base
  <2>4. /\ pc' \in [Cliente -> Punto] /\ ocioso' \subseteq Cliente /\ pc'[c] = "responder"
        /\ \A q \in Cliente : q # c => pc'[q] = pc[q]
    BY <2>1 DEF Base, TypeOKDescriptores, Punto
  <2>5. TypeOKDescriptores'
    BY <2>1, <2>3, <2>4 DEF Base, TypeOKDescriptores
  <2> QED BY <2>1, <2>4, <2>5, MarcoBase DEF EnMano
<1> QED BY <1>1, <1>2, <1>3

LEMMA BaseCreateMain ==
  ASSUME Base, NEW c \in Cliente, esperarPaqueteCreateMain(c)
  PROVE  Base'
<1> USE DEF esperarPaqueteCreateMain, Ir, clientes, metricas
<1>1. socketCliente[c] \in Numero
  BY DEF Base, Cimientos
<1>2. /\ pc' \in [Cliente -> Punto] /\ paquete' \in [Cliente -> Mensaje \cup {Nulo}]
      /\ etapa' \in [Cliente -> Etapa] /\ pc'[c] = "leer"
      /\ \A q \in Cliente : q # c => pc'[q] = pc[q] /\ paquete'[q] = paquete[q]
  BY DEF Base, TypeOKDescriptores, Punto, Etapa
<1>3. self_socket' \in [Cliente -> Numero \cup {Nulo}]
  BY <1>1 DEF Base, TypeOKDescriptores
<1>4. g_running_procs' \in Seq(Cliente)
  <2>1. g_running_procs \in Seq(Cliente)
    BY DEF Base, TypeOKDescriptores
  <2> QED BY <2>1, AppendProperties
<1>5. TypeOKDescriptores'
  BY <1>2, <1>3, <1>4 DEF Base, TypeOKDescriptores
<1> QED BY <1>2, <1>5, MarcoBase DEF EnMano

(* A close takes at most one name away. *)
LEMMA BaseCierra ==
  ASSUME Base, NEW c \in Cliente, recibirTamPaquete(c) \/ CerrarConexion(c)
  PROVE  Base'
<1> USE DEF recibirTamPaquete, CerrarConexion, Ir, Cerrar
<1> DEFINE n == socketCliente[c]
<1>1. n \in Numero
  BY DEF Base, Cimientos
<1>2. /\ descriptor' = [descriptor EXCEPT ![n] = Nulo]
      /\ UNCHANGED <<clientes, pendientes, socketCliente, leyendo, paquete, etapa, suse, metricas>>
      /\ caido' \in BOOLEAN
  BY DEF Base, TypeOKDescriptores
<1>3. /\ pc' \in [Cliente -> Punto] /\ pc'[c] \in {"sacar", "fin"}
      /\ \A q \in Cliente : q # c => pc'[q] = pc[q]
  BY DEF Base, TypeOKDescriptores, Punto
<1>4. pc[c] # "sin_hilo"
  OBVIOUS
<1> HIDE DEF recibirTamPaquete, CerrarConexion
<1>5. /\ descriptor' \in [Numero -> Cliente \cup {Nulo}]
      /\ \A m \in Numero : descriptor'[m] = descriptor[m] \/ descriptor'[m] = Nulo
  BY <1>1, <1>2 DEF Base, TypeOKDescriptores
<1>6. TypeOKDescriptores'
  BY <1>2, <1>3, <1>5 DEF Base, TypeOKDescriptores, clientes, suse, metricas
<1>7. Nulo \notin Cliente
  BY NuloAssumption
<1>8. Cimientos'
  BY <1>2, <1>3, <1>4, <1>5, <1>7 DEF Base, Cimientos, clientes, EnMano
<1>9. UnNumero'
  BY <1>5, <1>7 DEF Base, UnNumero
<1>10. PorAceptar'
  BY <1>2, <1>3, <1>4 DEF Base, PorAceptar, TypeOKDescriptores, clientes
<1> QED BY <1>6, <1>8, <1>9, <1>10 DEF Base

(* There is always a lowest free number for a connection without a thread.   *)
LEMMA HayLibre ==
  ASSUME Base, NEW c \in Cliente, pc[c] = "sin_hilo"
  PROVE  PrimerLibre \in Numero /\ descriptor[PrimerLibre] = Nulo
<1>1. Libres # {}
  <2> SUFFICES ASSUME Libres = {} PROVE FALSE
    OBVIOUS
  <2>1. descriptor \in [Numero -> Cliente]
    BY DEF Base, TypeOKDescriptores, Libres
  <2>2. \A n \in Numero : descriptor[n] # c
    BY DEF Base, Cimientos
  <2>3. ASSUME NEW n \in Numero, NEW m \in Numero, descriptor[n] = descriptor[m]
        PROVE  n = m
    BY <2>1, <2>3 DEF Base, UnNumero
  <2>4. descriptor \in [Numero -> Cliente \ {c}]
    BY <2>1, <2>2
  <2>5. descriptor \in Injection(Numero, Cliente \ {c})
    BY <2>3, <2>4 DEF Injection, IsInjective
  <2>6. /\ IsFiniteSet(Cliente \ {c}) /\ Cardinality(Cliente) \in Nat
        /\ Cardinality(Cliente \ {c}) = Cardinality(Cliente) - 1
    BY NumerosAssumption, FS_RemoveElement, FS_CardinalityType
  <2>7. Cardinality(Numero) <= Cardinality(Cliente \ {c}) /\ Cardinality(Numero) \in Nat
    BY <2>5, <2>6, NumerosAssumption, FS_Injection, FS_CardinalityType
  <2> QED BY <2>6, <2>7, NumerosAssumption
<1>2. \E n \in Libres : \A m \in Libres : n <= m
  <2>1. Libres \subseteq Nat /\ IsFiniteSet(Libres)
    BY NumerosAssumption, FS_Subset DEF Libres
  <2>2. Libres \subseteq Int
    BY <2>1
  <2> QED BY <1>1, <2>1, <2>2, Minimo
<1>3. PrimerLibre \in Libres
  BY <1>2 DEF PrimerLibre
<1> QED BY <1>3 DEF Libres

(* What accept does, with the number it gives written n. *)
LEMMA Aceptada ==
  ASSUME Base, NEW c \in Cliente, Aceptar(c), NEW n, n = PrimerLibre
  PROVE  /\ pendientes \in Seq(Cliente) /\ 1 \in DOMAIN pendientes /\ pendientes[1] = c
         /\ Len(pendientes) \in Nat /\ DOMAIN pendientes = 1 .. Len(pendientes)
         /\ pc[c] = "sin_hilo" /\ fase[c] # "afuera" /\ ~ caido
         /\ n \in Numero /\ descriptor[n] = Nulo
         /\ descriptor' = [descriptor EXCEPT ![n] = c]
         /\ socketCliente' = [socketCliente EXCEPT ![c] = n]
         /\ pc' = [pc EXCEPT ![c] = "leer"] /\ pendientes' = Tail(pendientes)
         /\ UNCHANGED <<clientes, leyendo, paquete, etapa, suse, metricas, caido>>
         /\ pc'[c] = "leer" /\ socketCliente'[c] = n
         /\ \A q \in Cliente : q # c => pc'[q] = pc[q] /\ socketCliente'[q] = socketCliente[q]
<1> USE DEF Aceptar, Ir
<1>1. /\ pendientes \in Seq(Cliente) /\ 1 \in DOMAIN pendientes /\ pendientes[1] = c
      /\ Len(pendientes) \in Nat /\ DOMAIN pendientes = 1 .. Len(pendientes)
  <2>1. pendientes \in Seq(Cliente) /\ pendientes # <<>> /\ Head(pendientes) = c
    BY DEF Base, TypeOKDescriptores
  <2>2. Len(pendientes) \in Nat \ {0} /\ DOMAIN pendientes = 1 .. Len(pendientes)
    BY <2>1, EmptySeq, LenProperties
  <2> QED BY <2>1, <2>2
<1>2. pc[c] = "sin_hilo" /\ fase[c] # "afuera"
  BY <1>1 DEF Base, PorAceptar
<1>3. n \in Numero /\ descriptor[n] = Nulo
  BY <1>2, HayLibre
<1>4. /\ descriptor' = [descriptor EXCEPT ![n] = c]
      /\ socketCliente' = [socketCliente EXCEPT ![c] = n]
      /\ pc' = [pc EXCEPT ![c] = "leer"] /\ pendientes' = Tail(pendientes) /\ ~ caido
      /\ UNCHANGED <<clientes, leyendo, paquete, etapa, suse, metricas, caido>>
  OBVIOUS
<1> HIDE DEF Aceptar
<1>5. /\ pc'[c] = "leer" /\ socketCliente'[c] = n
      /\ \A q \in Cliente : q # c => pc'[q] = pc[q] /\ socketCliente'[q] = socketCliente[q]
  BY <1>4 DEF Base, TypeOKDescriptores
<1> QED BY <1>1, <1>2, <1>3, <1>4, <1>5

LEMMA BaseAceptar ==
  ASSUME Base, NEW c \in Cliente, Aceptar(c)
  PROVE  Base'
<1>1. PICK n : n = PrimerLibre
  OBVIOUS
<1>2. /\ pendientes \in Seq(Cliente) /\ 1 \in DOMAIN pendientes /\ pendientes[1] = c
      /\ Len(pendientes) \in Nat /\ DOMAIN pendientes = 1 .. Len(pendientes)
      /\ pc[c] = "sin_hilo" /\ fase[c] # "afuera"
      /\ n \in Numero /\ descriptor[n] = Nulo
      /\ descriptor' = [descriptor EXCEPT ![n] = c]
      /\ socketCliente' = [socketCliente EXCEPT ![c] = n]
      /\ pc' = [pc EXCEPT ![c] = "leer"] /\ pendientes' = Tail(pendientes)
      /\ UNCHANGED <<clientes, leyendo, paquete, etapa, suse, metricas, caido>>
      /\ pc'[c] = "leer" /\ socketCliente'[c] = n
      /\ \A q \in Cliente : q # c => pc'[q] = pc[q] /\ socketCliente'[q] = socketCliente[q]
  BY <1>1, Aceptada
<1>3. /\ pendientes' \in Seq(Cliente) /\ DOMAIN pendientes' = 1 .. Len(pendientes) - 1
      /\ \A i \in DOMAIN pendientes' : pendientes'[i] = pendientes[i + 1]
  BY <1>2
<1>4. /\ descriptor' \in [Numero -> Cliente \cup {Nulo}] /\ descriptor'[n] = c
      /\ \A m \in Numero : m # n => descriptor'[m] = descriptor[m]
  BY <1>2 DEF Base, TypeOKDescriptores
<1>5. TypeOKDescriptores'
  <2>1. pc' \in [Cliente -> Punto] /\ socketCliente' \in [Cliente -> Numero \cup {Nulo}]
    BY <1>2 DEF Base, TypeOKDescriptores, Punto
  <2> QED BY <1>2, <1>3, <1>4, <2>1 DEF Base, TypeOKDescriptores, metricas, clientes, suse
<1>6. Cimientos'
  BY <1>2, <1>4 DEF Base, Cimientos, clientes, EnMano
<1>7. UnNumero'
  BY <1>2, <1>4 DEF Base, Cimientos, UnNumero
<1>8. PorAceptar'
  <2>1. ASSUME NEW i \in DOMAIN pendientes'
        PROVE  /\ pendientes'[i] = pendientes[i + 1] /\ pendientes[i + 1] # c
               /\ i + 1 \in DOMAIN pendientes /\ i \in Nat /\ pendientes[i + 1] \in Cliente
    BY <1>2, <1>3 DEF Base, PorAceptar
  <2>2. ASSUME NEW i \in DOMAIN pendientes'
        PROVE  pc'[pendientes'[i]] = "sin_hilo" /\ fase'[pendientes'[i]] # "afuera"
    BY <1>2, <2>1 DEF Base, PorAceptar, clientes
  <2>3. ASSUME NEW i \in DOMAIN pendientes', NEW j \in DOMAIN pendientes',
               pendientes'[i] = pendientes'[j]
        PROVE  i = j
    <3>1. i + 1 = j + 1
      BY <2>1, <2>3 DEF Base, PorAceptar
    <3> QED BY <2>1, <3>1
  <2> QED BY <2>2, <2>3 DEF PorAceptar
<1> QED BY <1>5, <1>6, <1>7, <1>8 DEF Base

LEMMA BaseMetricas ==
  ASSUME Base, EmpezarMetricas \/ MedirProceso
  PROVE  Base'
<1> USE DEF EmpezarMetricas, MedirProceso
<1>1. Len(g_running_procs) \in Nat
  BY LenProperties DEF Base, TypeOKDescriptores
<1>2. UNCHANGED <<clientes, pendientes, descriptor, hilos, suse>>
  OBVIOUS
<1>3. /\ caido' \in BOOLEAN
      /\ cantidad' \in Nat /\ indice' \in Nat /\ (indice' < cantidad' \/ indice' = 0)
  <2>1. /\ caido \in BOOLEAN
        /\ cantidad \in Nat /\ indice \in Nat /\ (indice < cantidad \/ indice = 0)
    BY DEF Base, TypeOKDescriptores
  <2>2. CASE EmpezarMetricas
    BY <1>1, <2>1, <2>2
  <2>3. CASE MedirProceso
    BY <1>1, <2>1, <2>3
  <2> QED BY <2>2, <2>3
<1> HIDE DEF EmpezarMetricas, MedirProceso
<1>4. TypeOKDescriptores'
  BY <1>2, <1>3 DEF Base, TypeOKDescriptores, hilos, suse, clientes
<1> QED BY <1>2, <1>4, MarcoBase DEF hilos, clientes

LEMMA NextBase ==
  ASSUME Base, Next
  PROVE  Base'
<1>1. ASSUME NEW c \in Cliente, ClienteHace(c) PROVE Base'
  BY <1>1, BaseConectar, BaseCliente DEF ClienteHace
<1>2. ASSUME NEW c \in Cliente, AtenderConexion(c) PROVE Base'
  BY <1>2, BaseHilo, BaseEnvia, BaseCreateMain, BaseCierra DEF AtenderConexion
<1> QED BY <1>1, <1>2, BaseAceptar, BaseMetricas DEF Next

-------------------------------------------------------------------------------
(* What holds without a reuse: first, the order of the requests. *)

LEMMA MarcoOrden ==
  ASSUME NEW q \in Cliente, Orden(q),
         fase'[q] = fase[q], pedido'[q] = pedido[q], pc'[q] = pc[q], paquete'[q] = paquete[q],
         etapa'[q] = etapa[q], socketCliente'[q] = socketCliente[q],
         self_socket'[q] = self_socket[q], caido => caido'
  PROVE  Orden(q)' /\ Leidos(q)' = Leidos(q)
<1>1. Leidos(q)' = Leidos(q)
  BY DEF Leidos
<1>2. EsGuion(pedido[q], Leidos(q))'
  BY <1>1 DEF Orden, EsGuion
<1> QED BY <1>1, <1>2 DEF Orden

LEMMA UnoLeido ==
  ASSUME NEW c \in Cliente
  PROVE  Leidos(c) \in {0, 1, 2} /\ (etapa[c] = "bucle" => Leidos(c) = 2)
BY DEF Leidos

LEMMA OrdenConectar ==
  ASSUME Base, NEW c \in Cliente, Conectar(c), \A q \in Cliente : Orden(q)
  PROVE  \A q \in Cliente : Orden(q)'
<1> USE DEF Conectar, hilos, suse
<1>1. ASSUME NEW q \in Cliente, q # c PROVE Orden(q)'
  BY <1>1, MarcoOrden DEF Base, TypeOKDescriptores
<1>2. Leidos(c) = 0 /\ Leidos(c)' = 0 /\ pc[c] = "sin_hilo" /\ Orden(c)
  <2>1. Len(pedido[c]) \in Nat /\ Len(pedido[c]) + Leidos(c) = 0
    BY DEF Base, TypeOKDescriptores, Orden
  <2>2. Leidos(c) \in {0, 1, 2} /\ Leidos(c)' = Leidos(c)
    BY DEF Leidos
  <2>3. pc[c] = "sin_hilo"
    BY DEF Base, Cimientos
  <2> QED BY <2>1, <2>2, <2>3
<1>3. pedido'[c] = <<"HANDSHAKE">> /\ fase'[c] = "SUSE_GRADO_MULTIPROG"
  BY DEF Base, TypeOKDescriptores
<1>4. EsGuion(pedido[c], Leidos(c))' /\ Len(pedido'[c]) = 1
  BY <1>2, <1>3 DEF EsGuion
<1>5. Orden(c)'
  BY <1>2, <1>3, <1>4 DEF Orden, Operacion, EnMano, Acabado
<1> QED BY <1>1, <1>5

(* A client that goes on sends what comes next. *)
LEMMA GuionSigue ==
  ASSUME NEW s \in Seq(Mensaje), NEW k \in {0, 1, 2}, EsGuion(s, k), NEW m \in Mensaje,
         m \in IF Len(s) + k = 1 THEN {"SUSE_CREATE"} ELSE Operacion, Len(s) + k >= 1
  PROVE  EsGuion(Append(s, m), k) /\ Len(Append(s, m)) = Len(s) + 1
<1>1. Len(s) \in Nat /\ DOMAIN s = 1 .. Len(s)
  BY LenProperties
<1>2. /\ Append(s, m) \in Seq(Mensaje) /\ Len(Append(s, m)) = Len(s) + 1
      /\ DOMAIN Append(s, m) = 1 .. Len(s) + 1
      /\ \A i \in 1 .. Len(s) : Append(s, m)[i] = s[i]
      /\ Append(s, m)[Len(s) + 1] = m
  BY <1>1, AppendProperties, LenProperties
<1>3. ASSUME NEW i \in DOMAIN Append(s, m)
      PROVE  Append(s, m)[i] \in IF i + k = 1 THEN {"HANDSHAKE"}
                                 ELSE IF i + k = 2 THEN {"SUSE_CREATE"} ELSE Operacion
  <2>1. CASE i \in 1 .. Len(s)
    BY <1>1, <1>2, <2>1 DEF EsGuion
  <2>2. CASE i = Len(s) + 1
    <3>1. i + k = Len(s) + k + 1 /\ i + k # 1
      BY <1>1, <2>2
    <3> QED BY <1>1, <1>2, <2>2, <3>1
  <2> QED BY <1>1, <1>2, <2>1, <2>2
<1> QED BY <1>2, <1>3 DEF EsGuion

LEMMA OrdenCliente ==
  ASSUME Base, NEW c \in Cliente, \A q \in Cliente : Orden(q),
         CrearMain(c) \/ (\E op \in Operacion : Pedir(c, op)) \/ esperarRespuesta(c) \/ Terminar(c)
  PROVE  \A q \in Cliente : Orden(q)'
<1>1. UNCHANGED <<pendientes, descriptor, hilos, suse, metricas, caido>>
  BY DEF CrearMain, Pedir, esperarRespuesta, Terminar
<1>2. \A q \in Cliente : q # c => fase'[q] = fase[q] /\ pedido'[q] = pedido[q]
  BY DEF CrearMain, Pedir, esperarRespuesta, Terminar, Base, TypeOKDescriptores
<1>3. ASSUME NEW q \in Cliente, q # c PROVE Orden(q)'
  BY <1>1, <1>2, <1>3, MarcoOrden DEF hilos, suse
<1> DEFINE k == Leidos(c)
<1>4. Leidos(c)' = k /\ k \in {0, 1, 2} /\ Orden(c)
  BY <1>1, UnoLeido DEF Leidos, hilos
<1>5. pedido[c] \in Seq(Mensaje) /\ Len(pedido[c]) \in Nat /\ fase[c] \in Fase
  BY DEF Base, TypeOKDescriptores
<1>6. Operacion \subseteq Mensaje /\ "SUSE_CREATE" \in Mensaje
  BY DEF Mensaje
<1> HIDE DEF k
<1>7. CASE CrearMain(c)
  <2>1. /\ fase[c] = "SUSE_GRADO_MULTIPROG" /\ fase'[c] = "corriendo"
        /\ pedido'[c] = Append(pedido[c], "SUSE_CREATE")
    BY <1>7 DEF CrearMain, Base, TypeOKDescriptores
  <2>2. Len(pedido[c]) + k = 1 /\ EsGuion(pedido[c], k) /\ pc[c] \notin Acabado
    BY <1>4, <2>1 DEF Orden, k
  <2>3. EsGuion(pedido'[c], k) /\ Len(pedido'[c]) = Len(pedido[c]) + 1
    <3>1. /\ Len(pedido[c]) + k >= 1
          /\ "SUSE_CREATE" \in IF Len(pedido[c]) + k = 1 THEN {"SUSE_CREATE"} ELSE Operacion
      BY <1>4, <1>5, <2>2
    <3>2. /\ EsGuion(Append(pedido[c], "SUSE_CREATE"), k)
          /\ Len(Append(pedido[c], "SUSE_CREATE")) = Len(pedido[c]) + 1
      BY <1>4, <1>5, <1>6, <2>2, <3>1, GuionSigue
    <3> QED BY <2>1, <3>2
  <2>4. EsGuion(pedido[c], Leidos(c))' /\ Len(pedido'[c]) + Leidos(c)' = 2
    BY <1>4, <1>5, <2>2, <2>3 DEF EsGuion
  <2>5. Orden(c)'
    BY <1>1, <1>4, <2>1, <2>2, <2>4 DEF Orden, Operacion, hilos, suse
  <2> QED BY <1>3, <2>5
<1>8. CASE \E op \in Operacion : Pedir(c, op)
  <2>1. PICK op \in Operacion : Pedir(c, op)
    BY <1>8
  <2>2. fase[c] = "corriendo" /\ fase'[c] = op /\ pedido'[c] = Append(pedido[c], op)
    BY <1>5, <2>1 DEF Pedir, Base, TypeOKDescriptores
  <2>3. Len(pedido[c]) + k >= 2 /\ EsGuion(pedido[c], k) /\ pc[c] \notin Acabado
    BY <1>4, <2>2 DEF Orden, k
  <2>4. EsGuion(pedido'[c], k) /\ Len(pedido'[c]) = Len(pedido[c]) + 1
    <3>1. /\ Len(pedido[c]) + k >= 1
          /\ op \in IF Len(pedido[c]) + k = 1 THEN {"SUSE_CREATE"} ELSE Operacion
      BY <1>4, <1>5, <2>3
    <3>2. EsGuion(Append(pedido[c], op), k) /\ Len(Append(pedido[c], op)) = Len(pedido[c]) + 1
      BY <1>4, <1>5, <1>6, <2>3, <3>1, GuionSigue
    <3> QED BY <2>2, <3>2
  <2>5. EsGuion(pedido[c], Leidos(c))' /\ Len(pedido'[c]) + Leidos(c)' >= 2
    BY <1>4, <1>5, <2>3, <2>4 DEF EsGuion
  <2>6. Orden(c)'
    BY <1>1, <1>4, <2>2, <2>3, <2>5 DEF Orden, Operacion, hilos, suse
  <2> QED BY <1>3, <2>6
<1>9. CASE esperarRespuesta(c) \/ Terminar(c)
  <2>1. /\ pedido'[c] = pedido[c]
        /\ \/ fase[c] \in Operacion /\ fase'[c] = "corriendo"
           \/ fase[c] \notin {"afuera", "terminado"} /\ fase'[c] = "terminado"
    BY <1>9 DEF esperarRespuesta, Terminar, Base, TypeOKDescriptores
  <2>2. EsGuion(pedido[c], Leidos(c))'
    BY <1>4, <2>1 DEF Orden, EsGuion, k
  <2>3. Orden(c)'
    BY <1>1, <1>4, <1>5, <2>1, <2>2 DEF Orden, Operacion, Fase, hilos, suse, k
  <2> QED BY <1>3, <2>3
<1> QED BY <1>7, <1>8, <1>9

-------------------------------------------------------------------------------
(* Then the numbers of the threads and the list of processes. *)

(* A thread that goes on keeps its number, and reads its own connection. *)
LEMMA MarcoNumeros ==
  ASSUME CadaHiloLoSuyo, NumerosDistintos, UNCHANGED <<descriptor, socketCliente>>,
         \A q \in Cliente :
           \/ pc'[q] = pc[q] /\ leyendo'[q] = leyendo[q]
           \/ pc[q] \in Vivo /\ pc'[q] \in Vivo /\ (pc'[q] = "recv" => leyendo'[q] = q)
  PROVE  CadaHiloLoSuyo' /\ NumerosDistintos'
<1>1. CadaHiloLoSuyo'
  BY DEF CadaHiloLoSuyo, Vivo
<1>2. NumerosDistintos'
  BY DEF NumerosDistintos, Vivo
<1> QED BY <1>1, <1>2

LEMMA MarcoLista ==
  ASSUME Lista, UNCHANGED g_running_procs,
         \A q \in Cliente : Atendido(q)' <=> Atendido(q)
  PROVE  Lista'
BY DEF Lista

(* While a thread lives, its number names its connection. *)
LEMMA Suyo ==
  ASSUME Base, CadaHiloLoSuyo, NEW c \in Cliente, pc[c] \in Vivo
  PROVE  socketCliente[c] \in Numero /\ descriptor[socketCliente[c]] = c
<1>1. socketCliente[c] \in Numero
  BY DEF Base, Cimientos, Vivo
<1>2. {n \in Numero : descriptor[n] = c} = {socketCliente[c]}
  BY DEF CadaHiloLoSuyo, Vivo
<1> QED BY <1>1, <1>2

LEMMA ReusoCliente ==
  ASSUME Base, SinReuso, NEW c \in Cliente, ClienteHace(c)
  PROVE  SinReuso'
<1>1. UNCHANGED <<descriptor, hilos, suse>>
  BY DEF ClienteHace, Conectar, CrearMain, Pedir, esperarRespuesta, Terminar
<1>2. CadaHiloLoSuyo' /\ NumerosDistintos'
  BY <1>1, MarcoNumeros DEF SinReuso, hilos
<1>3. Lista'
  BY <1>1, MarcoLista DEF SinReuso, Atendido, hilos, suse
<1>4. \A q \in Cliente : Orden(q)'
  BY OrdenConectar, OrdenCliente DEF ClienteHace, SinReuso
<1> QED BY <1>2, <1>3, <1>4 DEF SinReuso

(* A step of a living thread that leaves numbers and list alone. *)
LEMMA MarcoHilo ==
  ASSUME Base, SinReuso, NEW c \in Cliente, Orden(c)', caido => caido',
         UNCHANGED <<descriptor, socketCliente, g_running_procs, fase>>,
         \A q \in Cliente : q # c =>
           /\ pc'[q] = pc[q] /\ leyendo'[q] = leyendo[q] /\ paquete'[q] = paquete[q]
           /\ etapa'[q] = etapa[q] /\ self_socket'[q] = self_socket[q] /\ pedido'[q] = pedido[q],
         pc[c] \in Vivo, pc'[c] \in Vivo, pc'[c] = "recv" => leyendo'[c] = c,
         Atendido(c)' <=> Atendido(c)
  PROVE  SinReuso'
<1>1. CadaHiloLoSuyo' /\ NumerosDistintos'
  BY MarcoNumeros DEF SinReuso
<1>2. Lista'
  <2>1. \A q \in Cliente : Atendido(q)' <=> Atendido(q)
    BY DEF Atendido
  <2> QED BY <2>1, MarcoLista DEF SinReuso
<1>3. ASSUME NEW q \in Cliente PROVE Orden(q)'
  BY MarcoOrden DEF SinReuso
<1> QED BY <1>1, <1>2, <1>3 DEF SinReuso

LEMMA ReusoEmpezarRecv ==
  ASSUME Base, SinReuso, NEW c \in Cliente, EmpezarRecv(c)
  PROVE  SinReuso' /\ pc[c] = "leer" /\ pc'[c] = "recv" /\ leyendo'[c] = c
<1> USE DEF EmpezarRecv, Ir, clientes, suse
<1>1. pc[c] = "leer" /\ descriptor[socketCliente[c]] = c
  BY Suyo DEF Vivo, SinReuso
<1>2. leyendo'[c] = c /\ pc'[c] = "recv" /\ c # Nulo
  BY <1>1, NuloAssumption DEF Base, TypeOKDescriptores
<1>3. Orden(c)'
  <2>1. Leidos(c)' = Leidos(c)
    BY <1>1, <1>2 DEF Leidos
  <2>2. EsGuion(pedido[c], Leidos(c))'
    BY <2>1 DEF SinReuso, Orden, EsGuion
  <2> QED BY <1>1, <1>2, <2>1, <2>2 DEF SinReuso, Orden, EnMano, Acabado
<1>4. Atendido(c)' <=> Atendido(c)
  BY <1>1, <1>2 DEF Atendido
<1> QED BY <1>1, <1>2, <1>3, <1>4, MarcoHilo DEF Vivo, Base, TypeOKDescriptores

(* The first packet is out of the way; the others move up. *)
LEMMA GuionAvanza ==
  ASSUME NEW s \in Seq(Mensaje), NEW k \in {0, 1, 2}, EsGuion(s, k), s # <<>>
  PROVE  /\ Head(s) \in IF k = 0 THEN {"HANDSHAKE"} ELSE IF k = 1 THEN {"SUSE_CREATE"} ELSE Operacion
         /\ k # 2 => EsGuion(Tail(s), k + 1)
         /\ k = 2 => EsGuion(Tail(s), 2)
         /\ Len(Tail(s)) = Len(s) - 1 /\ Len(s) \in Nat \ {0}
<1>1. /\ Len(s) \in Nat \ {0} /\ DOMAIN s = 1 .. Len(s) /\ Head(s) = s[1]
      /\ Len(Tail(s)) = Len(s) - 1 /\ DOMAIN Tail(s) = 1 .. Len(s) - 1
      /\ \A i \in 1 .. Len(s) - 1 : Tail(s)[i] = s[i + 1]
  BY EmptySeq, LenProperties, HeadTailProperties
<1>2. Head(s) \in IF k = 0 THEN {"HANDSHAKE"} ELSE IF k = 1 THEN {"SUSE_CREATE"} ELSE Operacion
  <2>1. 1 \in DOMAIN s /\ s[1] \in IF 1 + k = 1 THEN {"HANDSHAKE"}
                                   ELSE IF 1 + k = 2 THEN {"SUSE_CREATE"} ELSE Operacion
    BY <1>1 DEF EsGuion
  <2> QED BY <1>1, <2>1
<1>3. ASSUME NEW i \in DOMAIN Tail(s)
      PROVE  /\ i \in Nat \ {0}
             /\ Tail(s)[i] \in IF i + 1 + k = 1 THEN {"HANDSHAKE"}
                               ELSE IF i + 1 + k = 2 THEN {"SUSE_CREATE"} ELSE Operacion
  <2>1. i \in Nat \ {0} /\ i + 1 \in DOMAIN s /\ Tail(s)[i] = s[i + 1]
    BY <1>1
  <2> QED BY <2>1 DEF EsGuion
<1>4. k # 2 => EsGuion(Tail(s), k + 1)
  <2> SUFFICES ASSUME k # 2, NEW i \in DOMAIN Tail(s)
               PROVE  Tail(s)[i] \in IF i + (k + 1) = 1 THEN {"HANDSHAKE"}
                                     ELSE IF i + (k + 1) = 2 THEN {"SUSE_CREATE"} ELSE Operacion
    BY DEF EsGuion
  <2>1. i + (k + 1) = i + 1 + k
    BY <1>3
  <2> QED BY <1>3, <2>1
<1>5. k = 2 => EsGuion(Tail(s), 2)
  <2> SUFFICES ASSUME k = 2, NEW i \in DOMAIN Tail(s)
               PROVE  Tail(s)[i] \in IF i + 2 = 1 THEN {"HANDSHAKE"}
                                     ELSE IF i + 2 = 2 THEN {"SUSE_CREATE"} ELSE Operacion
    BY DEF EsGuion
  <2>1. i + 1 + k # 1 /\ i + 1 + k # 2 /\ i + 2 # 1 /\ i + 2 # 2
    BY <1>3
  <2> QED BY <1>3, <2>1
<1> QED BY <1>1, <1>2, <1>4, <1>5

LEMMA ReusoRecibirPaquete ==
  ASSUME Base, SinReuso, NEW c \in Cliente, recibirPaquete(c)
  PROVE  /\ SinReuso' /\ pc[c] = "recv" /\ leyendo[c] = c /\ pedido[c] # <<>> /\ pc'[c] = "procesar"
         /\ paquete'[c] = Head(pedido[c]) /\ pedido'[c] = Tail(pedido[c])
         /\ Len(pedido'[c]) + Leidos(c)' >= Len(pedido[c]) + Leidos(c) - 1
         /\ etapa[c] # "bucle" => Len(pedido'[c]) + Leidos(c)' = Len(pedido[c]) + Leidos(c)
<1> USE DEF recibirPaquete, Ir, suse
<1>1. pc[c] = "recv" /\ leyendo[c] = c /\ pedido[c] # <<>> /\ Orden(c)
  BY DEF SinReuso, CadaHiloLoSuyo
<1>2. pedido[c] \in Seq(Mensaje) /\ etapa[c] \in Etapa
  BY DEF Base, TypeOKDescriptores
<1>3. pc'[c] = "procesar" /\ paquete'[c] = Head(pedido[c]) /\ pedido'[c] = Tail(pedido[c])
  BY <1>1 DEF Base, TypeOKDescriptores
<1> DEFINE k == Leidos(c)
<1>4. /\ k = IF etapa[c] = "bucle" THEN 2 ELSE IF etapa[c] = "create_main" THEN 1 ELSE 0
      /\ Leidos(c)' = IF k = 2 THEN 2 ELSE k + 1
  BY <1>1, <1>3 DEF Leidos
<1>5. /\ paquete'[c] \in IF k = 0 THEN {"HANDSHAKE"} ELSE IF k = 1 THEN {"SUSE_CREATE"} ELSE Operacion
      /\ EsGuion(pedido'[c], Leidos(c)')
      /\ Len(pedido'[c]) = Len(pedido[c]) - 1 /\ Len(pedido[c]) \in Nat \ {0}
  <2>1. k \in {0, 1, 2} /\ EsGuion(pedido[c], k)
    BY <1>1, <1>4 DEF Orden
  <2> HIDE DEF k, recibirPaquete
  <2> QED BY <1>1, <1>2, <1>3, <1>4, <2>1, GuionAvanza
<1>6. EsGuion(pedido[c], Leidos(c))'
  BY <1>5 DEF EsGuion
<1> DEFINE l == Len(pedido[c])
           l2 == Len(pedido'[c])
           k2 == Leidos(c)'
<1>7. /\ k \in {0, 1, 2} /\ l \in Nat \ {0} /\ l2 = l - 1 /\ k2 = IF k = 2 THEN 2 ELSE k + 1
      /\ etapa[c] # "bucle" => k # 2
      /\ etapa[c] = "bucle" => k = 2
  BY <1>4, <1>5
<1>8. /\ l2 + k2 >= l + k - 1 /\ l2 \in Nat
      /\ etapa[c] # "bucle" => l2 + k2 = l + k
      /\ etapa[c] = "bucle" => k2 = 2
  <2> HIDE DEF k, l, l2, k2, recibirPaquete
  <2> QED BY <1>7
<1>9. /\ Len(pedido'[c]) + Leidos(c)' >= Len(pedido[c]) + Leidos(c) - 1
      /\ etapa[c] # "bucle" => Len(pedido'[c]) + Leidos(c)' = Len(pedido[c]) + Leidos(c)
      /\ Len(pedido'[c]) \in Nat /\ (etapa[c] = "bucle" => Leidos(c)' = 2)
  BY <1>8
<1> HIDE DEF l, l2, k2
<1>10. Orden(c)'
  <2>1. paquete'[c] \in IF etapa[c] = "handshake" THEN {"HANDSHAKE"}
                        ELSE IF etapa[c] = "create_main" THEN {"SUSE_CREATE"} ELSE Operacion
    BY <1>2, <1>4, <1>5 DEF Etapa
  <2>2. UNCHANGED <<fase, etapa, self_socket, socketCliente>>
    OBVIOUS
  <2>3. CASE etapa[c] = "bucle"
    <3>1. fase[c] \notin {"afuera", "SUSE_GRADO_MULTIPROG"}
      BY <1>1, <1>4, <1>5, <2>3 DEF Orden
    <3> QED BY <1>1, <1>3, <1>6, <1>9, <2>1, <2>2, <2>3, <3>1
            DEF Orden, EnMano, Acabado
  <2>4. CASE etapa[c] # "bucle"
    BY <1>1, <1>2, <1>3, <1>6, <1>9, <2>1, <2>2, <2>4 DEF Orden, EnMano, Acabado, Etapa
  <2> QED BY <2>3, <2>4
<1>11. Atendido(c)' <=> Atendido(c)
  BY <1>1, <1>3 DEF Atendido
<1>12. SinReuso'
  BY <1>1, <1>3, <1>10, <1>11, MarcoHilo DEF Vivo, Base, TypeOKDescriptores
<1> QED BY <1>1, <1>3, <1>9, <1>12

LEMMA ReusoRecibirFin ==
  ASSUME Base, SinReuso, NEW c \in Cliente, RecibirFin(c)
  PROVE  /\ SinReuso' /\ pc[c] = "recv" /\ leyendo[c] = c /\ pc'[c] = "error"
         /\ pedido[c] = <<>> /\ fase[c] = "terminado"
<1> USE DEF RecibirFin, Ir, suse, clientes
<1>1. pc[c] = "recv" /\ leyendo[c] = c /\ pedido[c] = <<>> /\ fase[c] = "terminado"
  BY DEF SinReuso, CadaHiloLoSuyo
<1>2. pc'[c] = "error"
  BY DEF Base, TypeOKDescriptores
<1>3. Orden(c)'
  <2>1. Leidos(c)' = Leidos(c) /\ Orden(c)
    BY <1>1, <1>2 DEF Leidos, SinReuso
  <2>2. EsGuion(pedido[c], Leidos(c))'
    BY <2>1 DEF Orden, EsGuion
  <2>3. etapa[c] # "handshake"
    <3>1. Len(pedido[c]) = 0
      BY <1>1
    <3>2. etapa[c] = "handshake" => Leidos(c) = 0
      BY <1>1 DEF Leidos
    <3> QED BY <1>1, <2>1, <3>1, <3>2 DEF Orden
  <2> QED BY <1>1, <1>2, <2>1, <2>2, <2>3 DEF Orden, EnMano, Acabado
<1>4. Atendido(c)' <=> Atendido(c)
  BY <1>1, <1>2 DEF Atendido
<1>5. SinReuso'
  BY <1>1, <1>2, <1>3, <1>4, MarcoHilo DEF Vivo, Base, TypeOKDescriptores
<1> QED BY <1>1, <1>2, <1>5

LEMMA ReusoEnviarMultiProg ==
  ASSUME Base, SinReuso, NEW c \in Cliente, enviarMultiProg(c)
  PROVE  /\ SinReuso' /\ pc[c] = "procesar" /\ paquete[c] = "HANDSHAKE" /\ etapa[c] = "handshake"
         /\ socketCliente[c] \in Numero /\ descriptor[socketCliente[c]] = c
         /\ pc'[c] = "leer" /\ etapa'[c] = "create_main" /\ Leidos(c)' = Leidos(c)
         /\ enviarPaquetes(socketCliente[c], "SUSE_GRADO_MULTIPROG", c)
<1> USE DEF enviarMultiProg, Ir, suse
<1>1. pc[c] = "procesar" /\ etapa[c] = "handshake" /\ Orden(c) /\ paquete[c] = "HANDSHAKE"
  BY DEF SinReuso, Orden, EnMano
<1>2. socketCliente[c] \in Numero /\ descriptor[socketCliente[c]] = c
  BY <1>1, Suyo DEF Vivo, SinReuso
<1>3. pc'[c] = "leer" /\ etapa'[c] = "create_main"
  BY <1>1 DEF Base, TypeOKDescriptores
<1>4. Leidos(c)' = 1 /\ Leidos(c) = 1
  BY <1>1, <1>3 DEF Leidos
<1>5. EsGuion(pedido[c], Leidos(c))'
  BY <1>1, <1>4 DEF Orden, EsGuion
<1>6. Orden(c)'
  BY <1>1, <1>3, <1>4, <1>5 DEF Orden, EnMano, Acabado
<1>7. Atendido(c)' <=> Atendido(c)
  BY <1>1, <1>3 DEF Atendido
<1>8. SinReuso'
  BY <1>1, <1>3, <1>6, <1>7, MarcoHilo DEF Vivo, Base, TypeOKDescriptores
<1> QED BY <1>1, <1>2, <1>3, <1>4, <1>8

(* A thread in the loop ends with its packet, or goes on with the answer.    *)
LEMMA MarcoBucle ==
  ASSUME Base, SinReuso, NEW c \in Cliente, etapa[c] = "bucle", pc[c] \in EnMano,
         caido => caido', NEW l \in {"leer", "responder"}, Ir(c, l),
         UNCHANGED <<descriptor, socketCliente, leyendo, etapa, self_socket,
                     g_running_procs, fase, pedido>>,
         \A q \in Cliente : q # c => paquete'[q] = paquete[q],
         l = "responder" => paquete'[c] = paquete[c]
  PROVE  SinReuso' /\ pc'[c] = l
<1>1. pc'[c] = l /\ \A q \in Cliente : q # c => pc'[q] = pc[q]
  BY DEF Ir, Base, TypeOKDescriptores
<1>2. Orden(c) /\ Leidos(c) = 2 /\ Leidos(c)' = 2
  BY DEF SinReuso, Leidos
<1>3. EsGuion(pedido[c], Leidos(c))'
  BY <1>2 DEF Orden, EsGuion
<1>4. Orden(c)'
  BY <1>1, <1>2, <1>3 DEF Orden, EnMano, Acabado
<1>5. Atendido(c)' <=> Atendido(c)
  BY <1>1 DEF Atendido, EnMano
<1>6. pc[c] \in Vivo /\ pc'[c] \in Vivo /\ pc'[c] # "recv"
  BY <1>1 DEF Vivo, EnMano
<1> QED BY <1>1, <1>4, <1>5, <1>6, MarcoHilo

LEMMA ReusoBucle ==
  ASSUME Base, SinReuso, NEW c \in Cliente,
         Responder(c) \/ QuedarOcioso(c) \/ \E q \in Cliente : snd_schd_nxt_blockd_process(c, q)
  PROVE  /\ SinReuso' /\ ~ caido /\ ~ caido' /\ etapa[c] = "bucle" /\ pc[c] \in EnMano
         /\ paquete[c] \in Operacion /\ self_socket[c] = socketCliente[c]
         /\ socketCliente[c] \in Numero /\ descriptor[socketCliente[c]] = c
<1>1. etapa[c] = "bucle" /\ pc[c] \in EnMano /\ Orden(c) /\ ~ caido
  BY DEF Responder, QuedarOcioso, snd_schd_nxt_blockd_process, EnMano, SinReuso
<1>2. /\ paquete[c] \in Operacion /\ self_socket[c] = socketCliente[c]
      /\ socketCliente[c] \in Numero /\ descriptor[socketCliente[c]] = c
  BY <1>1, Suyo DEF Orden, SinReuso, Vivo, EnMano
<1>3. self_socket[c] # Nulo
  BY <1>2, NuloAssumption
<1>4. CASE Responder(c)
  <2>1. ~ caido'
    BY <1>3, <1>4 DEF Responder
  <2>2. SinReuso'
    BY <1>1, <1>4, MarcoBucle DEF Responder, suse, Base, TypeOKDescriptores
  <2> QED BY <1>1, <1>2, <2>1, <2>2
<1>5. CASE QuedarOcioso(c)
  BY <1>1, <1>2, <1>5, MarcoBucle DEF QuedarOcioso, clientes, Base, TypeOKDescriptores
<1>6. CASE \E q \in Cliente : snd_schd_nxt_blockd_process(c, q)
  BY <1>1, <1>2, <1>6, MarcoBucle DEF snd_schd_nxt_blockd_process, Base, TypeOKDescriptores
<1> QED BY <1>4, <1>5, <1>6

(* The creation of main puts the process, once, in the list of processes.    *)
LEMMA ReusoCreateMain ==
  ASSUME Base, SinReuso, NEW c \in Cliente, esperarPaqueteCreateMain(c)
  PROVE  /\ SinReuso' /\ pc[c] = "procesar" /\ paquete[c] = "SUSE_CREATE" /\ etapa[c] = "create_main"
         /\ pc'[c] = "leer" /\ etapa'[c] = "bucle" /\ Leidos(c) = 2 /\ Leidos(c)' = 2
         /\ Len(g_running_procs') = Len(g_running_procs) + 1 /\ Len(g_running_procs) \in Nat
<1> USE DEF esperarPaqueteCreateMain, Ir
<1>1. /\ pc[c] = "procesar" /\ paquete[c] = "SUSE_CREATE" /\ etapa[c] = "create_main" /\ Orden(c)
  BY DEF SinReuso, Orden, EnMano
<1>2. socketCliente[c] \in Numero
  BY DEF Base, Cimientos
<1>3. /\ pc'[c] = "leer" /\ etapa'[c] = "bucle" /\ self_socket'[c] = socketCliente[c]
      /\ g_running_procs' = Append(g_running_procs, c)
  BY <1>1 DEF Base, TypeOKDescriptores
<1>4. g_running_procs \in Seq(Cliente)
  BY DEF Base, TypeOKDescriptores
<1>5. Leidos(c) = 2 /\ Leidos(c)' = 2
  BY <1>1, <1>3 DEF Leidos
<1>6. CadaHiloLoSuyo' /\ NumerosDistintos'
  BY <1>1, MarcoNumeros DEF SinReuso, Base, TypeOKDescriptores, Vivo
<1>7. ASSUME NEW q \in Cliente PROVE Orden(q)'
  <2>1. CASE q # c
    BY <1>1, <2>1, MarcoOrden DEF SinReuso, Base, TypeOKDescriptores, clientes
  <2>2. EsGuion(pedido[c], Leidos(c))'
    BY <1>1, <1>5 DEF Orden, EsGuion, clientes
  <2>3. Orden(c)'
    <3>1. UNCHANGED <<fase, pedido, socketCliente>>
      BY DEF clientes
    <3> QED BY <1>1, <1>3, <1>5, <2>2, <3>1 DEF Orden, EnMano, Acabado
  <2> QED BY <2>1, <2>3
<1>8. /\ Len(g_running_procs') = Len(g_running_procs) + 1 /\ Len(g_running_procs) \in Nat
  BY <1>3, <1>4
<1>9. Lista'
  <2> DEFINE g == g_running_procs
  <2>1. /\ Len(g') = Len(g) + 1 /\ Len(g) \in Nat
        /\ DOMAIN g = 1 .. Len(g) /\ DOMAIN g' = 1 .. Len(g) + 1
        /\ \A i \in 1 .. Len(g) : g'[i] = g[i]
        /\ g'[Len(g) + 1] = c
    BY <1>3, <1>4, AppendProperties, LenProperties
  <2>2. \A i \in DOMAIN g : g[i] # c
    BY <1>1 DEF SinReuso, Lista, Atendido
  <2>3. Atendido(c)' /\ \A q \in Cliente : q # c => (Atendido(q)' <=> Atendido(q))
    BY <1>3 DEF Atendido, Base, TypeOKDescriptores
  <2>4. /\ \A q \in Cliente : Atendido(q) <=> \E i \in DOMAIN g : g[i] = q
        /\ \A i, j \in DOMAIN g : g[i] = g[j] => i = j
    BY DEF SinReuso, Lista
  <2> HIDE DEF g, esperarPaqueteCreateMain
  <2>5. \A i, j \in DOMAIN g' : g'[i] = g'[j] => i = j
    BY <2>1, <2>2, <2>4
  <2>6. ASSUME NEW q \in Cliente PROVE Atendido(q)' <=> \E i \in DOMAIN g' : g'[i] = q
    <3>1. CASE q = c
      BY <2>1, <2>3, <3>1
    <3>2. CASE q # c
      BY <2>1, <2>3, <2>4, <3>2
    <3> QED BY <3>1, <3>2
  <2> QED BY <2>5, <2>6 DEF Lista, g
<1> QED BY <1>1, <1>3, <1>5, <1>6, <1>7, <1>8, <1>9 DEF SinReuso

(* The end of a process goes on from one point to the next. *)
LEMMA MarcoFinal ==
  ASSUME Base, SinReuso, NEW c \in Cliente, pc[c] \in {"error", "sacar", "cerrar"}, ~ caido,
         NEW l \in {"sacar", "cerrar", "fin"}, Ir(c, l),
         etapa[c] = "bucle" \/ (l = "sacar" /\ caido'), caido' \in BOOLEAN,
         UNCHANGED <<fase, pedido, socketCliente, leyendo, paquete, etapa, self_socket>>
  PROVE  /\ pc'[c] = l /\ \A q \in Cliente : q # c => pc'[q] = pc[q]
         /\ fase[c] = "terminado" /\ pedido[c] = <<>> /\ socketCliente[c] \in Numero
         /\ pc[c] # "error" => etapa[c] = "bucle"
         /\ etapa[c] # "handshake" /\ Leidos(c)' = Leidos(c)
         /\ \A q \in Cliente : Orden(q)'
         /\ NumerosDistintos'
<1>1. pc'[c] = l /\ \A q \in Cliente : q # c => pc'[q] = pc[q]
  BY DEF Base, TypeOKDescriptores, Ir
<1>2. Orden(c) /\ fase[c] = "terminado" /\ pedido[c] = <<>> /\ Leidos(c)' = Leidos(c)
  BY <1>1 DEF SinReuso, Orden, Acabado, Leidos
<1>3. pc[c] # "error" => etapa[c] = "bucle"
  BY <1>2 DEF Orden
<1>4. socketCliente[c] \in Numero
  BY DEF Base, Cimientos
<1>5. EsGuion(pedido[c], Leidos(c))' /\ etapa[c] # "handshake"
  BY <1>2 DEF Orden, EsGuion
<1>6. Orden(c)'
  BY <1>1, <1>2, <1>5 DEF Orden, EnMano, Acabado
<1>7. ASSUME NEW q \in Cliente PROVE Orden(q)'
  <2>1. CASE q # c
    BY <1>1, <2>1, MarcoOrden DEF SinReuso
  <2> QED BY <1>6, <2>1
<1>8. NumerosDistintos'
  BY <1>1 DEF SinReuso, NumerosDistintos
<1> QED BY <1>1, <1>2, <1>3, <1>4, <1>5, <1>7, <1>8

(* The first close: the number is still that of the connection.              *)
LEMMA ReusoRecibirTamPaquete ==
  ASSUME Base, SinReuso, NEW c \in Cliente, recibirTamPaquete(c)
  PROVE  /\ SinReuso' /\ pc[c] = "error" /\ pc'[c] = "sacar" /\ fase[c] = "terminado"
         /\ pedido[c] = <<>> /\ Leidos(c)' = Leidos(c)
         /\ caido' => etapa[c] = "create_main"
<1> USE DEF recibirTamPaquete
<1> DEFINE n == socketCliente[c]
<1>1. n \in Numero /\ descriptor[n] = c /\ c # Nulo
  BY Suyo, NuloAssumption DEF Vivo, SinReuso
<1>2. descriptor' = [descriptor EXCEPT ![n] = Nulo] /\ caido' = (etapa[c] # "bucle")
  BY <1>1 DEF Cerrar
<1>3. /\ pc'[c] = "sacar" /\ \A q \in Cliente : q # c => pc'[q] = pc[q]
      /\ fase[c] = "terminado" /\ pedido[c] = <<>>
      /\ etapa[c] # "handshake" /\ Leidos(c)' = Leidos(c)
      /\ \A q \in Cliente : Orden(q)'
      /\ NumerosDistintos'
  <2>1. etapa[c] = "bucle" \/ caido'
    BY <1>2
  <2>2. /\ pc[c] \in {"error", "sacar", "cerrar"} /\ ~ caido /\ Ir(c, "sacar") /\ caido' \in BOOLEAN
        /\ UNCHANGED <<fase, pedido, socketCliente, leyendo, paquete, etapa, self_socket>>
    BY <1>2 DEF suse, clientes
  <2> HIDE DEF recibirTamPaquete
  <2> QED BY <2>1, <2>2, MarcoFinal
<1> HIDE DEF n
<1>4. CadaHiloLoSuyo'
  <2> SUFFICES ASSUME NEW q \in Cliente
               PROVE  /\ {m \in Numero : descriptor'[m] = q} =
                            IF pc'[q] \in Vivo THEN {socketCliente'[q]} ELSE {}
                      /\ pc'[q] = "recv" => leyendo'[q] = q
    BY DEF CadaHiloLoSuyo, Vivo
  <2>1. /\ {m \in Numero : descriptor[m] = q} =
             IF pc[q] \in Vivo THEN {socketCliente[q]} ELSE {}
        /\ pc[q] = "recv" => leyendo[q] = q
    BY DEF CadaHiloLoSuyo, Vivo, SinReuso
  <2>2. CASE q = c
    <3>1. {m \in Numero : descriptor[m] = c} = {n}
      BY <2>1, <2>2 DEF Vivo, n
    <3>2. {m \in Numero : descriptor'[m] = c} = {}
      BY <1>1, <1>2, <3>1 DEF Base, TypeOKDescriptores
    <3> QED BY <1>3, <2>2, <3>2 DEF Vivo
  <2>3. CASE q # c
    <3>1. q # Nulo
      BY NuloAssumption
    <3>2. {m \in Numero : descriptor'[m] = q} = {m \in Numero : descriptor[m] = q}
      BY <1>1, <1>2, <2>3, <3>1 DEF Base, TypeOKDescriptores
    <3> QED BY <1>3, <2>1, <2>3, <3>2
  <2> QED BY <2>2, <2>3
<1>5. Lista'
  <2>1. \A q \in Cliente : Atendido(q)' <=> Atendido(q)
    BY <1>3 DEF Atendido
  <2> QED BY <2>1, MarcoLista DEF SinReuso, suse
<1>6. caido' => etapa[c] = "create_main"
  BY <1>2, <1>3 DEF Base, TypeOKDescriptores, Etapa
<1> QED BY <1>3, <1>4, <1>5, <1>6 DEF SinReuso

(* The second close: no living thread has the number, and no connection.     *)
LEMMA ReusoCerrarConexion ==
  ASSUME Base, SinReuso, NEW c \in Cliente, CerrarConexion(c)
  PROVE  /\ SinReuso' /\ pc[c] = "cerrar" /\ pc'[c] = "fin" /\ etapa[c] = "bucle"
         /\ fase[c] = "terminado" /\ Leidos(c)' = Leidos(c)
<1> USE DEF CerrarConexion
<1> DEFINE n == socketCliente[c]
<1>1. etapa[c] = "bucle" /\ n \in Numero
  BY DEF Base, Cimientos, SinReuso, Orden
<1>2. descriptor[n] = Nulo
  <2> SUFFICES ASSUME descriptor[n] # Nulo PROVE FALSE
    OBVIOUS
  <2> DEFINE d == descriptor[n]
  <2>1. d \in Cliente
    BY <1>1 DEF Base, TypeOKDescriptores
  <2>2. n \in {m \in Numero : descriptor[m] = d}
    BY <1>1
  <2> HIDE DEF d
  <2>3. pc[d] \in Vivo /\ n \in {socketCliente[d]}
    BY <2>1, <2>2 DEF SinReuso, CadaHiloLoSuyo, Vivo
  <2> QED BY <2>1, <2>3 DEF SinReuso, NumerosDistintos, Vivo
<1>3. descriptor' = descriptor
  BY <1>1, <1>2 DEF Cerrar, Base, TypeOKDescriptores
<1>4. /\ pc'[c] = "fin" /\ \A q \in Cliente : q # c => pc'[q] = pc[q]
      /\ fase[c] = "terminado" /\ Leidos(c)' = Leidos(c)
      /\ \A q \in Cliente : Orden(q)'
      /\ NumerosDistintos'
  <2>1. /\ pc[c] \in {"error", "sacar", "cerrar"} /\ ~ caido /\ Ir(c, "fin") /\ caido' \in BOOLEAN
        /\ UNCHANGED <<fase, pedido, socketCliente, leyendo, paquete, etapa, self_socket>>
    BY DEF suse, clientes, Base, TypeOKDescriptores
  <2> HIDE DEF CerrarConexion
  <2> QED BY <1>1, <2>1, MarcoFinal
<1>5. CadaHiloLoSuyo'
  BY <1>3, <1>4 DEF SinReuso, CadaHiloLoSuyo
<1>6. Lista'
  <2>1. \A q \in Cliente : Atendido(q)' <=> Atendido(q)
    BY <1>1, <1>4 DEF Atendido
  <2> QED BY <2>1, MarcoLista DEF SinReuso, suse
<1> QED BY <1>1, <1>4, <1>5, <1>6 DEF SinReuso

(* The process that leaves is the one with the number, and the only one.     *)
LEMMA ReusoSacarProceso ==
  ASSUME Base, SinReuso, NEW c \in Cliente, SacarProceso(c)
  PROVE  /\ SinReuso' /\ pc[c] = "sacar" /\ pc'[c] = "cerrar" /\ etapa[c] = "bucle"
         /\ fase[c] = "terminado" /\ Leidos(c)' = Leidos(c)
         /\ Len(g_running_procs') = Len(g_running_procs) - 1 /\ Len(g_running_procs) \in Nat
<1> USE DEF SacarProceso
<1> DEFINE g == g_running_procs
           iguales == {i \in DOMAIN g : self_socket[g[i]] = socketCliente[c]}
<1>1. /\ etapa[c] = "bucle" /\ socketCliente[c] \in Numero /\ self_socket[c] = socketCliente[c]
  BY DEF SinReuso, Orden, Base, Cimientos
<1>2. g \in Seq(Cliente) /\ Len(g) \in Nat /\ DOMAIN g = 1 .. Len(g)
  BY LenProperties DEF Base, TypeOKDescriptores
<1>3. /\ \A q \in Cliente : Atendido(q) <=> \E i \in DOMAIN g : g[i] = q
      /\ \A i, j \in DOMAIN g : g[i] = g[j] => i = j
  BY DEF SinReuso, Lista
<1>4. PICK k \in DOMAIN g : g[k] = c
  BY <1>1, <1>3 DEF Atendido
<1>5. ASSUME NEW i \in DOMAIN g, self_socket[g[i]] = socketCliente[c] PROVE i = k
  <2> DEFINE d == g[i]
  <2>1. d \in Cliente
    BY <1>2, ElementOfSeq
  <2>2. Atendido(d)
    BY <1>3, <2>1
  <2> HIDE DEF d
  <2>3. Orden(d) /\ etapa[d] = "bucle" /\ pc[d] # "fin"
    BY <2>1, <2>2 DEF Atendido, SinReuso
  <2>4. socketCliente[d] = socketCliente[c] /\ pc[d] \notin {"sin_hilo", "fin"}
    BY <1>5, <2>3 DEF Orden, d
  <2>5. d = c
    BY <2>1, <2>4 DEF SinReuso, NumerosDistintos
  <2> QED BY <1>3, <1>4, <2>5 DEF d
<1>6. iguales = {k}
  <2>1. k \in iguales
    BY SMTT(30), <1>1, <1>4
  <2> QED BY <1>5, <2>1
<1>7. g' = SubSeq(g, 1, k - 1) \o SubSeq(g, k + 1, Len(g))
  <2>1. (CHOOSE i \in iguales : \A j \in iguales : i <= j) = k
    <3> HIDE DEF iguales
    <3>1. k <= k
      BY <1>2, <1>4
    <3> QED BY <1>6, <3>1
  <2>2. g' = sacar(socketCliente[c])
    OBVIOUS
  <2> QED BY <1>6, <2>1, <2>2 DEF sacar
<1>8. /\ g' \in Seq(Cliente) /\ Len(g') = Len(g) - 1
      /\ \A i \in 1 .. Len(g) - 1 : g'[i] = IF i < k THEN g[i] ELSE g[i + 1]
  <2> HIDE DEF g
  <2> QED BY <1>2, <1>4, <1>7, Quitar
<1>9. DOMAIN g' = 1 .. Len(g) - 1
  BY <1>8, LenProperties
<1>10. /\ pc'[c] = "cerrar" /\ \A q \in Cliente : q # c => pc'[q] = pc[q]
       /\ fase[c] = "terminado" /\ Leidos(c)' = Leidos(c)
       /\ \A q \in Cliente : Orden(q)'
       /\ NumerosDistintos'
  <2>1. /\ pc[c] \in {"error", "sacar", "cerrar"} /\ ~ caido /\ Ir(c, "cerrar") /\ caido' \in BOOLEAN
        /\ UNCHANGED <<fase, pedido, socketCliente, leyendo, paquete, etapa, self_socket>>
    BY DEF clientes, Base, TypeOKDescriptores
  <2> HIDE DEF SacarProceso
  <2> QED BY <1>1, <2>1, MarcoFinal
<1>11. CadaHiloLoSuyo'
  BY <1>10 DEF SinReuso, CadaHiloLoSuyo
<1>12. Lista'
  <2>1. /\ ~ Atendido(c)'
        /\ \A q \in Cliente : q # c => (Atendido(q)' <=> Atendido(q))
    BY <1>10 DEF Atendido
  <2> HIDE DEF g, SacarProceso
  <2> DEFINE de(i) == IF i < k THEN i ELSE i + 1
  <2>2. ASSUME NEW i \in DOMAIN g'
        PROVE  g'[i] = g[de(i)] /\ de(i) \in DOMAIN g /\ de(i) # k
    BY <1>2, <1>4, <1>8, <1>9
  <2>3. \A i \in DOMAIN g' : g'[i] # c
    <3> HIDE DEF de
    <3> QED BY <1>3, <1>4, <2>2
  <2>4. ASSUME NEW i \in DOMAIN g', NEW j \in DOMAIN g', g'[i] = g'[j] PROVE i = j
    <3>1. de(i) = de(j)
      <4> HIDE DEF de
      <4> QED BY <1>3, <2>2, <2>4
    <3> QED BY <1>2, <1>4, <1>9, <3>1
  <2>5. ASSUME NEW j \in DOMAIN g, j # k PROVE \E i \in DOMAIN g' : g'[i] = g[j]
    <3>1. CASE j < k
      <4>1. j \in DOMAIN g' /\ g'[j] = g[j]
        BY <1>2, <1>4, <1>8, <1>9, <3>1
      <4> QED BY <4>1
    <3>2. CASE j > k
      <4>1. j - 1 \in DOMAIN g' /\ g'[j - 1] = g[j - 1 + 1] /\ j - 1 + 1 = j
        BY <1>2, <1>4, <1>8, <1>9, <3>2
      <4> QED BY <4>1
    <3> QED BY <1>2, <1>4, <2>5, <3>1, <3>2
  <2>6. ASSUME NEW q \in Cliente PROVE Atendido(q)' <=> \E i \in DOMAIN g' : g'[i] = q
    <3>1. CASE q = c
      BY <2>1, <2>3, <3>1
    <3>2. CASE q # c
      <4> HIDE DEF de
      <4> QED BY <1>3, <1>4, <2>1, <2>2, <2>5, <3>2
    <3> QED BY <3>1, <3>2
  <2> QED BY <2>4, <2>6 DEF Lista, g
<1> QED BY <1>1, <1>2, <1>8, <1>10, <1>11, <1>12 DEF SinReuso

(* An accept that gives no number that a thread has still to close.          *)
LEMMA ReusoAceptar ==
  ASSUME Base, SinReuso, NEW c \in Cliente, Aceptar(c), ~ Ocurre("reuso")
  PROVE  /\ SinReuso' /\ pc[c] = "sin_hilo" /\ pc'[c] = "leer" /\ Leidos(c)' = Leidos(c)
         /\ etapa[c] = "handshake" /\ \A q \in Cliente : q # c => pc'[q] = pc[q]
<1>1. PICK n : n = PrimerLibre
  OBVIOUS
<1>2. /\ pc[c] = "sin_hilo" /\ fase[c] # "afuera"
      /\ n \in Numero /\ descriptor[n] = Nulo
      /\ descriptor' = [descriptor EXCEPT ![n] = c]
      /\ socketCliente' = [socketCliente EXCEPT ![c] = n]
      /\ UNCHANGED <<clientes, leyendo, paquete, etapa, suse, metricas, caido>>
      /\ pc'[c] = "leer" /\ socketCliente'[c] = n
      /\ \A q \in Cliente : q # c => pc'[q] = pc[q] /\ socketCliente'[q] = socketCliente[q]
  BY <1>1, Aceptada
<1>3. \A d \in Cliente : pc[d] \in {"sacar", "cerrar"} => socketCliente[d] # n
  BY <1>2 DEF Ocurre
<1>4. etapa[c] = "handshake"
  BY <1>2 DEF SinReuso, Orden, Base, TypeOKDescriptores, Etapa
<1>5. Leidos(c)' = Leidos(c)
  BY <1>2 DEF Leidos
<1>6. CadaHiloLoSuyo'
  <2> SUFFICES ASSUME NEW q \in Cliente
               PROVE  /\ {m \in Numero : descriptor'[m] = q} =
                            IF pc'[q] \in Vivo THEN {socketCliente'[q]} ELSE {}
                      /\ pc'[q] = "recv" => leyendo'[q] = q
    BY DEF CadaHiloLoSuyo, Vivo
  <2>1. /\ {m \in Numero : descriptor[m] = q} =
             IF pc[q] \in Vivo THEN {socketCliente[q]} ELSE {}
        /\ pc[q] = "recv" => leyendo[q] = q
    BY DEF CadaHiloLoSuyo, Vivo, SinReuso
  <2>2. CASE q = c
    BY <1>2, <2>1, <2>2 DEF Base, TypeOKDescriptores, Vivo
  <2>3. CASE q # c
    <3>1. q # Nulo
      BY NuloAssumption
    <3>2. {m \in Numero : descriptor'[m] = q} = {m \in Numero : descriptor[m] = q}
      BY <1>2, <2>3, <3>1 DEF Base, TypeOKDescriptores
    <3> QED BY <1>2, <2>1, <2>3, <3>2
  <2> QED BY <2>2, <2>3
<1>7. NumerosDistintos'
  <2>1. ASSUME NEW d \in Cliente, d # c, pc[d] \notin {"sin_hilo", "fin"}
        PROVE  socketCliente[d] # n
    <3>1. CASE pc[d] \in {"sacar", "cerrar"}
      BY <1>3, <3>1
    <3>2. CASE pc[d] \notin {"sacar", "cerrar"}
      <4>1. pc[d] \in Vivo
        BY <2>1, <3>2 DEF Vivo, Base, TypeOKDescriptores, Punto
      <4>2. descriptor[socketCliente[d]] = d /\ d # Nulo
        BY <4>1, Suyo, NuloAssumption DEF SinReuso
      <4> QED BY <1>2, <4>2
    <3> QED BY <3>1, <3>2
  <2> QED BY <1>2, <2>1 DEF SinReuso, NumerosDistintos
<1>8. Lista'
  <2>1. \A q \in Cliente : Atendido(q)' <=> Atendido(q)
    BY <1>2, <1>4 DEF Atendido
  <2> QED BY <1>2, <2>1, MarcoLista DEF SinReuso, suse
<1>9. ASSUME NEW q \in Cliente PROVE Orden(q)'
  <2>1. CASE q # c
    BY <1>2, <2>1, MarcoOrden DEF SinReuso, clientes, suse
  <2>2. Orden(c) /\ EsGuion(pedido[c], Leidos(c))'
    BY <1>2, <1>5 DEF SinReuso, Orden, EsGuion, clientes
  <2>3. Orden(c)'
    BY <1>2, <1>4, <1>5, <2>2 DEF Orden, EnMano, Acabado, clientes, suse
  <2> QED BY <2>1, <2>3
<1> QED BY <1>2, <1>4, <1>5, <1>6, <1>7, <1>8, <1>9 DEF SinReuso

LEMMA ReusoMetricas ==
  ASSUME Base, SinReuso, EmpezarMetricas \/ MedirProceso
  PROVE  SinReuso'
<1>1. UNCHANGED <<clientes, pendientes, descriptor, hilos, suse>> /\ ~ caido
  BY DEF EmpezarMetricas, MedirProceso
<1>2. CadaHiloLoSuyo' /\ NumerosDistintos'
  BY <1>1, MarcoNumeros DEF SinReuso, hilos
<1>3. Lista'
  BY <1>1, MarcoLista DEF SinReuso, Atendido, hilos, suse
<1>4. ASSUME NEW q \in Cliente PROVE Orden(q)'
  BY <1>1, MarcoOrden DEF SinReuso, hilos, suse, clientes
<1> QED BY <1>2, <1>3, <1>4 DEF SinReuso

-------------------------------------------------------------------------------
(* What explains the fall of the server. *)

(* No client becomes one that ended early, but by ending early.              *)
NadieTemprano == \A q \in Cliente : Temprano(q)' => Temprano(q) \/ Ocurre("arranque")

LEMMA MarcoTemprano ==
  ASSUME NEW c \in Cliente, UNCHANGED fase,
         \A q \in Cliente : q # c =>
           pedido'[q] = pedido[q] /\ etapa'[q] = etapa[q] /\ pc'[q] = pc[q],
         Temprano(c)' => Temprano(c)
  PROVE  NadieTemprano
<1>1. ASSUME NEW q \in Cliente, q # c, Temprano(q)' PROVE Temprano(q)
  BY <1>1 DEF Temprano, Leidos
<1> QED BY <1>1 DEF NadieTemprano

LEMMA TempranoCliente ==
  ASSUME Base, SinReuso, NEW c \in Cliente, ClienteHace(c)
  PROVE  NadieTemprano /\ UNCHANGED <<caido, cantidad, g_running_procs>>
<1>1. UNCHANGED <<descriptor, hilos, suse, metricas, caido>>
  BY DEF ClienteHace, Conectar, CrearMain, Pedir, esperarRespuesta, Terminar
<1>2. ASSUME NEW q \in Cliente, q # c, Temprano(q)' PROVE Temprano(q)
  <2>1. fase'[q] = fase[q] /\ pedido'[q] = pedido[q]
    BY <1>2 DEF ClienteHace, Conectar, CrearMain, Pedir, esperarRespuesta, Terminar,
                Base, TypeOKDescriptores
  <2> QED BY <1>1, <1>2, <2>1 DEF Temprano, Leidos, hilos
<1>3. ASSUME Temprano(c)' PROVE Ocurre("arranque")
  <2>1. fase'[c] = "terminado" /\ Leidos(c)' = Leidos(c)
    BY <1>1, <1>3 DEF Temprano, Leidos, hilos
  <2>2. Terminar(c)
    BY <2>1 DEF ClienteHace, Conectar, CrearMain, Pedir, esperarRespuesta, Operacion,
                Base, TypeOKDescriptores
  <2>3. fase[c] \notin {"afuera", "terminado"} /\ pedido'[c] = pedido[c]
    BY <2>2 DEF Terminar
  <2>4. fase[c] \in Operacion \cup {"corriendo"} => Len(pedido[c]) + Leidos(c) >= 2
    BY DEF SinReuso, Orden
  <2>5. fase[c] = "SUSE_GRADO_MULTIPROG"
    <3>1. Len(pedido[c]) \in Nat /\ Leidos(c) \in {0, 1, 2}
      BY UnoLeido DEF Base, TypeOKDescriptores
    <3> QED BY <1>3, <2>1, <2>3, <2>4, <3>1 DEF Temprano, Fase, Base, TypeOKDescriptores
  <2> QED BY <2>1, <2>5 DEF Ocurre
<1>4. NadieTemprano
  BY <1>2, <1>3 DEF NadieTemprano
<1> QED BY <1>1, <1>4 DEF suse, metricas

(* The only thread that makes the server fall reads the end of its client.   *)
LEMMA TempranoHilo ==
  ASSUME Base, SinReuso, NEW c \in Cliente, AtenderConexion(c)
  PROVE  /\ NadieTemprano /\ cantidad' = cantidad
         /\ caido' => Temprano(c)
<1>1. \A q \in Cliente : q # c => pedido'[q] = pedido[q] /\ etapa'[q] = etapa[q] /\ pc'[q] = pc[q]
  <2>1. recibirPaquete(c) => leyendo[c] = c
    BY DEF recibirPaquete, SinReuso, CadaHiloLoSuyo
  <2>2. \/ pedido' = pedido
        \/ pedido' = [pedido EXCEPT ![c] = Tail(@)]
    BY <2>1 DEF AtenderConexion, EmpezarRecv, recibirPaquete, RecibirFin, recibirTamPaquete,
       enviarMultiProg, esperarPaqueteCreateMain, Responder, QuedarOcioso,
       snd_schd_nxt_blockd_process, SacarProceso, CerrarConexion, clientes
  <2>3. /\ \A q \in Cliente : q # c => etapa'[q] = etapa[q]
        /\ \E l : Ir(c, l)
    BY DEF AtenderConexion, EmpezarRecv, recibirPaquete, RecibirFin, recibirTamPaquete,
       enviarMultiProg, esperarPaqueteCreateMain, Responder, QuedarOcioso,
       snd_schd_nxt_blockd_process, SacarProceso, CerrarConexion, Base, TypeOKDescriptores
  <2> QED BY <2>2, <2>3 DEF Ir, Base, TypeOKDescriptores
<1>2. fase' = fase /\ cantidad' = cantidad /\ ~ caido
  BY DEF AtenderConexion, EmpezarRecv, recibirPaquete, RecibirFin, recibirTamPaquete,
     enviarMultiProg, esperarPaqueteCreateMain, Responder, QuedarOcioso,
     snd_schd_nxt_blockd_process, SacarProceso, CerrarConexion, clientes, metricas
<1>3. CASE EmpezarRecv(c)
  <2>1. pedido'[c] = pedido[c] /\ etapa'[c] = etapa[c] /\ caido' = caido
    BY <1>3 DEF EmpezarRecv, clientes
  <2>2. Temprano(c)' => Temprano(c)
    BY <1>2, <1>3, <2>1, ReusoEmpezarRecv DEF Temprano, Leidos
  <2> QED BY <1>1, <1>2, <2>1, <2>2, MarcoTemprano
<1>4. CASE recibirPaquete(c)
  <2>1. caido' = caido /\ etapa'[c] = etapa[c]
    BY <1>4 DEF recibirPaquete
  <2>2. Temprano(c)' => Temprano(c)
    <3>1. CASE etapa[c] = "bucle"
      <4>1. Leidos(c)' = 2 /\ Len(pedido'[c]) \in Nat
        BY <2>1, <3>1, <1>4, BaseHilo DEF Leidos, Base, TypeOKDescriptores
      <4> QED BY <4>1 DEF Temprano
    <3>2. CASE etapa[c] # "bucle"
      BY <1>2, <1>4, <3>2, ReusoRecibirPaquete DEF Temprano
    <3> QED BY <3>1, <3>2
  <2> QED BY <1>1, <1>2, <2>1, <2>2, MarcoTemprano
<1>5. CASE RecibirFin(c)
  <2>1. pedido'[c] = pedido[c] /\ etapa'[c] = etapa[c] /\ caido' = caido
    BY <1>5 DEF RecibirFin, clientes
  <2>2. Temprano(c)' => Temprano(c)
    BY <1>2, <1>5, <2>1, ReusoRecibirFin DEF Temprano, Leidos
  <2> QED BY <1>1, <1>2, <2>1, <2>2, MarcoTemprano
<1>6. CASE recibirTamPaquete(c)
  <2>1. pedido'[c] = pedido[c]
    BY <1>6 DEF recibirTamPaquete, clientes
  <2>2. Temprano(c)' => Temprano(c)
    BY <1>2, <1>6, <2>1, ReusoRecibirTamPaquete DEF Temprano
  <2>3. ASSUME caido' PROVE Temprano(c)
    <3>1. /\ etapa[c] = "create_main" /\ pc[c] = "error"
          /\ fase[c] = "terminado" /\ pedido[c] = <<>>
      BY <1>6, <2>3, ReusoRecibirTamPaquete
    <3>2. Len(pedido[c]) = 0 /\ Leidos(c) = 1
      BY <3>1 DEF Leidos
    <3> QED BY <3>1, <3>2 DEF Temprano
  <2> QED BY <1>1, <1>2, <2>2, <2>3, MarcoTemprano
<1>7. CASE enviarMultiProg(c)
  <2>1. pedido'[c] = pedido[c] /\ caido' = caido
    BY <1>7 DEF enviarMultiProg
  <2>2. Temprano(c)' => Temprano(c)
    BY <1>2, <1>7, <2>1, ReusoEnviarMultiProg DEF Temprano
  <2> QED BY <1>1, <1>2, <2>1, <2>2, MarcoTemprano
<1>8. CASE esperarPaqueteCreateMain(c)
  <2>1. pedido'[c] = pedido[c] /\ caido' = caido
    BY <1>8 DEF esperarPaqueteCreateMain, clientes
  <2>2. Temprano(c)' => Temprano(c)
    BY <1>2, <1>8, <2>1, ReusoCreateMain DEF Temprano
  <2> QED BY <1>1, <1>2, <2>1, <2>2, MarcoTemprano
<1>9. CASE Responder(c) \/ QuedarOcioso(c) \/ \E q \in Cliente : snd_schd_nxt_blockd_process(c, q)
  <2>1. pedido'[c] = pedido[c] /\ etapa'[c] = etapa[c] /\ etapa[c] = "bucle" /\ ~ caido'
    BY <1>9, ReusoBucle DEF Responder, QuedarOcioso, snd_schd_nxt_blockd_process, clientes
  <2>2. Temprano(c)' => Temprano(c)
    BY <1>2, <2>1 DEF Temprano, Leidos
  <2> QED BY <1>1, <1>2, <2>1, <2>2, MarcoTemprano
<1>10. CASE SacarProceso(c) \/ CerrarConexion(c)
  <2>1. pedido'[c] = pedido[c] /\ caido' = caido
    BY <1>10 DEF SacarProceso, CerrarConexion, clientes
  <2>2. Temprano(c)' => Temprano(c)
    BY <1>2, <1>10, <2>1, ReusoSacarProceso, ReusoCerrarConexion DEF Temprano
  <2> QED BY <1>1, <1>2, <2>1, <2>2, MarcoTemprano
<1> QED BY <1>3, <1>4, <1>5, <1>6, <1>7, <1>8, <1>9, <1>10 DEF AtenderConexion

LEMMA NextReuso ==
  ASSUME Base, SinReuso, Next, ~ Ocurre("reuso")
  PROVE  SinReuso'
<1>1. ASSUME NEW c \in Cliente, AtenderConexion(c) PROVE SinReuso'
  <2>1. CASE EmpezarRecv(c) \/ recibirPaquete(c) \/ RecibirFin(c) \/ recibirTamPaquete(c)
    BY <2>1, ReusoEmpezarRecv, ReusoRecibirPaquete, ReusoRecibirFin, ReusoRecibirTamPaquete
  <2>2. CASE enviarMultiProg(c) \/ esperarPaqueteCreateMain(c)
    BY <2>2, ReusoEnviarMultiProg, ReusoCreateMain
  <2>3. CASE Responder(c) \/ QuedarOcioso(c) \/ \E q \in Cliente : snd_schd_nxt_blockd_process(c, q)
    BY <2>3, ReusoBucle
  <2>4. CASE SacarProceso(c) \/ CerrarConexion(c)
    BY <2>4, ReusoSacarProceso, ReusoCerrarConexion
  <2> QED BY <1>1, <2>1, <2>2, <2>3, <2>4 DEF AtenderConexion
<1> QED BY <1>1, ReusoCliente, ReusoAceptar, ReusoMetricas DEF Next

(* The count of the metrics only goes wrong when a process leaves meanwhile. *)
LEMMA MedidaSigue ==
  ASSUME Base, Medida, NextV
  PROVE  Medida' /\ faltas \subseteq faltas'
<1>1. faltas' = faltas \cup {f \in Falta : Ocurre(f)} /\ Next
  BY DEF NextV
<1>2. Len(g_running_procs) \in Nat /\ Len(g_running_procs') \in Nat /\ cantidad \in Nat
  <2>1. TypeOKDescriptores /\ TypeOKDescriptores'
    BY <1>1, NextBase DEF Base
  <2> QED BY <2>1 DEF TypeOKDescriptores
<1>3. \/ cantidad' = cantidad
      \/ cantidad' = Len(g_running_procs) /\ g_running_procs' = g_running_procs
      \/ cantidad' = 0
  <2>1. ASSUME NEW c \in Cliente, ClienteHace(c) \/ Aceptar(c) \/ AtenderConexion(c)
        PROVE  cantidad' = cantidad
    BY <2>1 DEF ClienteHace, Conectar, CrearMain, Pedir, esperarRespuesta, Terminar, Aceptar,
       AtenderConexion, EmpezarRecv, recibirPaquete, RecibirFin, recibirTamPaquete,
       enviarMultiProg, esperarPaqueteCreateMain, Responder, QuedarOcioso,
       snd_schd_nxt_blockd_process, SacarProceso, CerrarConexion, metricas
  <2>2. ASSUME EmpezarMetricas \/ MedirProceso PROVE <1>3!1 \/ <1>3!2 \/ <1>3!3
    BY <2>2 DEF EmpezarMetricas, MedirProceso, suse
  <2> QED BY <1>1, <2>1, <2>2 DEF Next
<1>4. ASSUME Sin({"salida"})' PROVE cantidad' <= Len(g_running_procs')
  <2>1. Sin({"salida"}) /\ ~ Ocurre("salida")
    BY <1>1, <1>4 DEF Sin, Falta
  <2>2. cantidad <= Len(g_running_procs)
    BY <2>1 DEF Medida
  <2>3. cantidad > 0 => Len(g_running_procs') >= Len(g_running_procs)
    BY <1>2, <2>1 DEF Ocurre
  <2> QED BY <1>2, <1>3, <2>2, <2>3
<1> QED BY <1>1, <1>4 DEF Medida

LEMMA NextExplicada ==
  ASSUME Base, SinReuso, Explicada, Medida, NextV
  PROVE  Explicada'
<1>1. Next /\ faltas' = faltas \cup {f \in Falta : Ocurre(f)}
  BY DEF NextV
<1>2. NadieTemprano
  <2>1. ASSUME NEW c \in Cliente, Aceptar(c) PROVE NadieTemprano
    <3>1. PICK n : n = PrimerLibre
      OBVIOUS
    <3>2. /\ pc[c] = "sin_hilo" /\ pc'[c] = "leer"
          /\ \A q \in Cliente : q # c => pc'[q] = pc[q]
          /\ UNCHANGED <<clientes, etapa>>
      BY <2>1, <3>1, Aceptada
    <3> QED BY <3>2 DEF NadieTemprano, Temprano, Leidos, clientes
  <2>2. ASSUME EmpezarMetricas \/ MedirProceso PROVE NadieTemprano
    BY <2>2 DEF EmpezarMetricas, MedirProceso, NadieTemprano, Temprano, Leidos, clientes, hilos
  <2> QED BY <1>1, <2>1, <2>2, TempranoCliente, TempranoHilo DEF Next
<1>3. \A q \in Cliente : Temprano(q)' => "arranque" \in faltas'
  BY <1>1, <1>2 DEF NadieTemprano, Explicada, Falta
<1>4. ASSUME caido' PROVE "arranque" \in faltas' \/ "salida" \in faltas'
  <2>1. CASE caido
    BY <1>1, <2>1 DEF Explicada, Sin
  <2>2. CASE ~ caido
    <3>1. ASSUME NEW c \in Cliente, ClienteHace(c) \/ Aceptar(c) PROVE FALSE
      BY <1>4, <2>2, <3>1, TempranoCliente DEF Aceptar
    <3>2. ASSUME NEW c \in Cliente, AtenderConexion(c) PROVE "arranque" \in faltas'
      BY <1>1, <1>4, <3>2, TempranoHilo DEF Explicada
    <3>3. ASSUME EmpezarMetricas PROVE FALSE
      BY <1>4, <2>2, <3>3 DEF EmpezarMetricas
    <3>4. ASSUME MedirProceso PROVE "salida" \in faltas'
      <4>1. cantidad > 0 /\ indice >= Len(g_running_procs)
        BY <1>4, <3>4 DEF MedirProceso
      <4>2. /\ Len(g_running_procs) \in Nat /\ cantidad \in Nat /\ indice \in Nat
            /\ indice < cantidad \/ indice = 0
        BY DEF Base, TypeOKDescriptores
      <4>3. ~ (cantidad <= Len(g_running_procs))
        BY <4>1, <4>2
      <4> QED BY <1>1, <4>3 DEF Medida, Sin
    <3> QED BY <1>1, <3>1, <3>2, <3>3, <3>4 DEF Next
  <2> QED BY <2>1, <2>2
<1> QED BY <1>3, <1>4 DEF Explicada, Sin

-------------------------------------------------------------------------------
(* What is in flight, without a reuse and without an answer to an ended      *)
(* process. *)

(* One packet, and one that is sent behind it. *)
LEMMA Unico ==
  ASSUME NEW S, NEW e \in S
  PROVE  Head(<<e>>) = e /\ Tail(<<e>>) = <<>>
<1>1. Append(<<>>, e) = <<e>> /\ <<>> \in Seq(S)
  OBVIOUS
<1>2. Head(Append(<<>>, e)) = e /\ Tail(Append(<<>>, e)) = <<>>
  BY <1>1, HeadTailAppend
<1> QED BY <1>1, <1>2

LEMMA DetrasDelPrimero ==
  ASSUME NEW S, NEW s \in Seq(S), NEW e \in S, s # <<>>, Tail(s) = <<>>
  PROVE  Append(s, e) # <<>> /\ Head(Append(s, e)) = Head(s) /\ Tail(Append(s, e)) = <<e>>
<1>1. Append(<<>>, e) = <<e>>
  OBVIOUS
<1>2. Head(Append(s, e)) = Head(s) /\ Tail(Append(s, e)) = Append(Tail(s), e)
  BY HeadTailAppend
<1>3. Append(s, e) # <<>>
  BY AppendProperties
<1> QED BY <1>1, <1>2, <1>3

(* Where a client is, by what its thread expects. *)
LEMMA Etapas ==
  ASSUME Base, NEW c \in Cliente, Curso(c)
  PROVE  \/ etapa[c] = "handshake" /\ EnHandshake(c)
         \/ etapa[c] = "create_main" /\ EnCreateMain(c)
         \/ etapa[c] = "bucle" /\ EnBucle(c)
BY DEF Base, TypeOKDescriptores, Etapa, Curso

LEMMA MarcoCurso ==
  ASSUME NEW q \in Cliente, Curso(q),
         fase'[q] = fase[q], pedido'[q] = pedido[q], respuesta'[q] = respuesta[q],
         pc'[q] = pc[q], paquete'[q] = paquete[q], etapa'[q] = etapa[q],
         q \in ocioso' <=> q \in ocioso
  PROVE  Curso(q)'
BY DEF Curso, EnHandshake, EnCreateMain, EnBucle, EntrePaquetes, Resto

(* A step of c that leaves the others alone. *)
LEMMA MarcoCursos ==
  ASSUME Cursos, NEW c \in Cliente, Curso(c)',
         \A q \in Cliente : q # c =>
           /\ fase'[q] = fase[q] /\ pedido'[q] = pedido[q] /\ respuesta'[q] = respuesta[q]
           /\ pc'[q] = pc[q] /\ paquete'[q] = paquete[q] /\ etapa'[q] = etapa[q]
           /\ q \in ocioso' <=> q \in ocioso
  PROVE  Cursos'
<1>1. ASSUME NEW q \in Cliente PROVE Curso(q)'
  <2>1. CASE q # c
    BY <2>1, MarcoCurso DEF Cursos
  <2> QED BY <2>1
<1> QED BY <1>1 DEF Cursos

LEMMA CursoConectar ==
  ASSUME Base, SinReuso, Cursos, NEW c \in Cliente, Conectar(c)
  PROVE  Cursos'
<1> USE DEF Conectar, hilos, suse
<1>1. pc[c] = "sin_hilo" /\ etapa[c] = "handshake"
  BY DEF Base, TypeOKDescriptores, Cimientos, Etapa, SinReuso, Orden
<1>2. Curso(c)'
  <2>1. EnHandshake(c)
    BY <1>1 DEF Cursos, Curso
  <2>2. fase'[c] = "SUSE_GRADO_MULTIPROG" /\ pedido'[c] = <<"HANDSHAKE">>
    BY DEF Base, TypeOKDescriptores
  <2>3. EnHandshake(c)'
    BY <1>1, <2>1, <2>2 DEF EnHandshake
  <2> QED BY <1>1, <2>3 DEF Curso
<1> QED BY <1>2, MarcoCursos DEF Base, TypeOKDescriptores

LEMMA CursoCrearMain ==
  ASSUME Base, SinReuso, Cursos, NEW c \in Cliente, CrearMain(c)
  PROVE  Cursos'
<1> USE DEF CrearMain
<1>1. Curso(c)'
  <2>1. etapa[c] = "create_main" /\ EnCreateMain(c)
    <3>1. Curso(c) /\ pc[c] \in Punto
      BY DEF Cursos, Base, TypeOKDescriptores
    <3> QED BY <3>1, Etapas DEF EnHandshake, EnBucle, EntrePaquetes, Operacion, Acabado,
                                Atenta, EnMano, Punto
  <2>2. /\ pc[c] \in Atenta /\ pedido[c] = <<>> /\ c \notin ocioso
        /\ respuesta[c] = <<[op |-> "SUSE_GRADO_MULTIPROG", para |-> c]>>
    BY <2>1 DEF EnCreateMain, Operacion
  <2>3. pedido'[c] = <<"SUSE_CREATE">> /\ respuesta'[c] = <<>> /\ fase'[c] = "corriendo"
    BY <2>2 DEF Base, TypeOKDescriptores
  <2>4. EnCreateMain(c)'
    BY <2>2, <2>3 DEF EnCreateMain, Resto, Operacion, hilos, suse
  <2> QED BY <2>1, <2>4 DEF Curso, hilos
<1> QED BY <1>1, MarcoCursos DEF Base, TypeOKDescriptores, hilos, suse

LEMMA CursoPedir ==
  ASSUME Base, SinReuso, Cursos, NEW c \in Cliente, NEW op \in Operacion, Pedir(c, op)
  PROVE  Cursos'
<1> USE DEF Pedir
<1>1. Curso(c) /\ op \in Mensaje
  BY DEF Cursos, Mensaje
<1>2. fase'[c] = op /\ pedido'[c] = Append(pedido[c], op) /\ respuesta'[c] = respuesta[c]
  BY DEF Base, TypeOKDescriptores
<1>3. pedido[c] \in Seq(Mensaje) /\ pc[c] \in Punto
  BY DEF Base, TypeOKDescriptores
<1>4. Curso(c)'
  <2>1. CASE etapa[c] = "create_main" /\ EnCreateMain(c)
    <3>1. respuesta[c] = <<>> /\ c \notin ocioso
      BY <2>1 DEF EnCreateMain
    <3>2. CASE pc[c] \in Atenta
      <4>1. pedido[c] # <<>> /\ Head(pedido[c]) = "SUSE_CREATE" /\ Tail(pedido[c]) = <<>>
        BY <2>1, <3>2 DEF EnCreateMain, Resto, Atenta
      <4>2. pedido'[c] # <<>> /\ Head(pedido'[c]) = "SUSE_CREATE" /\ Tail(pedido'[c]) = <<op>>
        BY <1>1, <1>2, <1>3, <4>1, DetrasDelPrimero
      <4>3. EnCreateMain(c)'
        BY <1>2, <3>1, <3>2, <4>2 DEF EnCreateMain, Resto, Operacion, hilos, suse
      <4> QED BY <2>1, <4>3 DEF Curso, hilos
    <3>3. CASE pc[c] = "procesar" /\ paquete[c] = "SUSE_CREATE" /\ pedido[c] = <<>>
      <4>1. pedido'[c] = <<op>>
        BY <1>2, <3>3
      <4>2. EnCreateMain(c)'
        BY <1>2, <3>1, <3>3, <4>1 DEF EnCreateMain, Resto, Operacion, hilos, suse
      <4> QED BY <2>1, <4>2 DEF Curso, hilos
    <3> QED BY <2>1, <3>2, <3>3 DEF EnCreateMain, Resto
  <2>2. CASE etapa[c] = "bucle" /\ EnBucle(c)
    <3>1. pc[c] \in Atenta /\ pedido[c] = <<>> /\ respuesta[c] = <<>> /\ c \notin ocioso
      BY <1>3, <2>2 DEF EnBucle, EntrePaquetes, Operacion, Acabado, Atenta, EnMano, Punto
    <3>2. pedido'[c] = <<op>>
      BY <1>2, <3>1
    <3>3. EnBucle(c)'
      BY <1>2, <2>2, <3>1, <3>2 DEF EnBucle, EntrePaquetes, Atenta, Acabado, EnMano, hilos, suse
    <3> QED BY <2>2, <3>3 DEF Curso, hilos
  <2> QED BY <1>1, <2>1, <2>2, Etapas DEF EnHandshake
<1> QED BY <1>4, MarcoCursos DEF Base, TypeOKDescriptores, hilos, suse

LEMMA CursoEsperarRespuesta ==
  ASSUME Base, SinReuso, Cursos, NEW c \in Cliente, esperarRespuesta(c)
  PROVE  Cursos'
<1> USE DEF esperarRespuesta
<1>1. Curso(c)'
  <2>1. pc[c] \in Punto /\ Curso(c)
    BY DEF Base, TypeOKDescriptores, Cursos
  <2>2. etapa[c] = "bucle" /\ EnBucle(c)
    BY <2>1, Etapas DEF EnHandshake, EnCreateMain, Operacion
  <2>3. /\ pc[c] \in Atenta /\ pedido[c] = <<>> /\ c \notin ocioso
        /\ respuesta[c] = <<[op |-> fase[c], para |-> c]>>
    BY <2>1, <2>2 DEF EnBucle, EntrePaquetes, Operacion, Acabado, Atenta, EnMano, Punto
  <2>4. pedido'[c] = <<>> /\ respuesta'[c] = <<>> /\ fase'[c] = "corriendo"
    BY <2>3 DEF Base, TypeOKDescriptores
  <2>5. EnBucle(c)'
    BY <2>2, <2>3, <2>4 DEF EnBucle, EntrePaquetes, Atenta, Acabado, EnMano, hilos, suse
  <2> QED BY <2>2, <2>5 DEF Curso, hilos
<1> QED BY <1>1, MarcoCursos DEF Base, TypeOKDescriptores, hilos, suse

LEMMA CursoTerminar ==
  ASSUME Base, SinReuso, Cursos, NEW c \in Cliente, Terminar(c)
  PROVE  Cursos'
<1> USE DEF Terminar
<1>1. fase'[c] = "terminado" /\ respuesta'[c] = <<>> /\ pedido'[c] = pedido[c]
  BY DEF Base, TypeOKDescriptores
<1>2. Curso(c) /\ fase[c] \in Operacion \cup {"corriendo", "SUSE_GRADO_MULTIPROG"}
  BY DEF Base, TypeOKDescriptores, Fase, Cursos
<1>3. Curso(c)'
  <2>1. CASE etapa[c] = "handshake" /\ EnHandshake(c)
    <3>1. EnHandshake(c)'
      BY <1>1, <1>2, <2>1 DEF EnHandshake, hilos, suse
    <3> QED BY <2>1, <3>1 DEF Curso, hilos
  <2>2. CASE etapa[c] = "create_main" /\ EnCreateMain(c)
    <3>1. CASE fase[c] = "SUSE_GRADO_MULTIPROG"
      <4>1. pc[c] \in Atenta /\ pedido[c] = <<>> /\ c \notin ocioso
        BY <2>2, <3>1 DEF EnCreateMain, Operacion
      <4>2. EnCreateMain(c)'
        BY <1>1, <4>1 DEF EnCreateMain, hilos, suse
      <4> QED BY <2>2, <4>2 DEF Curso, hilos
    <3>2. CASE fase[c] # "SUSE_GRADO_MULTIPROG"
      <4>1. fase[c] \in Operacion \cup {"corriendo"}
        BY <1>2, <3>2
      <4>2. ASSUME NEW s, Resto(c, s) PROVE Resto(c, s)'
        BY <1>1, <4>1, <4>2 DEF Resto, Operacion
      <4>3. EnCreateMain(c)'
        BY <1>1, <2>2, <4>1, <4>2 DEF EnCreateMain, hilos, suse
      <4> QED BY <2>2, <4>3 DEF Curso, hilos
    <3> QED BY <3>1, <3>2
  <2>3. CASE etapa[c] = "bucle" /\ EnBucle(c)
    <3>1. EnBucle(c)'
      BY <1>1, <1>2, <2>3 DEF EnBucle, EntrePaquetes, Operacion, Atenta, Acabado, EnMano, hilos, suse
    <3> QED BY <2>3, <3>1 DEF Curso, hilos
  <2> QED BY <1>2, <2>1, <2>2, <2>3, Etapas
<1> QED BY <1>3, MarcoCursos DEF Base, TypeOKDescriptores, hilos, suse

LEMMA CursoEmpezarRecv ==
  ASSUME Base, SinReuso, Cursos, NEW c \in Cliente, EmpezarRecv(c)
  PROVE  Cursos'
<1> USE DEF EmpezarRecv, Ir, clientes, suse
<1>1. pc[c] = "leer" /\ pc'[c] = "recv" /\ Curso(c)
  BY ReusoEmpezarRecv DEF Cursos
<1>2. Curso(c)'
  BY <1>1 DEF Curso, EnHandshake, EnCreateMain, EnBucle, EntrePaquetes, Resto, Atenta, Acabado, EnMano
<1> QED BY <1>2, MarcoCursos DEF Base, TypeOKDescriptores

LEMMA CursoRecibirPaquete ==
  ASSUME Base, SinReuso, Cursos, NEW c \in Cliente, recibirPaquete(c)
  PROVE  Cursos'
<1> USE DEF recibirPaquete, Ir, suse
<1>1. /\ pc[c] = "recv" /\ leyendo[c] = c /\ pedido[c] # <<>> /\ pc'[c] = "procesar"
      /\ paquete'[c] = Head(pedido[c]) /\ pedido'[c] = Tail(pedido[c])
  BY ReusoRecibirPaquete
<1>2. Curso(c)
  BY DEF Cursos
<1>3. Curso(c)'
  <2>1. CASE etapa[c] = "handshake" /\ EnHandshake(c)
    <3>1. Head(pedido[c]) = "HANDSHAKE" /\ Tail(pedido[c]) = <<>>
      BY <1>1, <2>1, Unico DEF EnHandshake
    <3>2. EnHandshake(c)'
      BY <1>1, <2>1, <3>1 DEF EnHandshake, Atenta
    <3> QED BY <2>1, <3>2 DEF Curso
  <2>2. CASE etapa[c] = "create_main" /\ EnCreateMain(c)
    <3>1. EnCreateMain(c)'
      BY <1>1, <2>2 DEF EnCreateMain, Resto, Atenta
    <3> QED BY <2>2, <3>1 DEF Curso
  <2>3. CASE etapa[c] = "bucle" /\ EnBucle(c)
    <3>1. /\ \/ fase[c] \in Operacion /\ pedido[c] = <<fase[c]>>
             \/ fase[c] = "terminado" /\ \E op \in Operacion : pedido[c] = <<op>>
          /\ respuesta[c] = <<>> /\ c \notin ocioso
      BY <1>1, <2>3 DEF EnBucle, EntrePaquetes, Atenta
    <3>2. PICK op \in Operacion : pedido[c] = <<op>> /\ fase[c] \in {op, "terminado"}
      BY <3>1
    <3>3. Head(pedido[c]) = op /\ Tail(pedido[c]) = <<>>
      BY <3>2, Unico
    <3>4. EnBucle(c)'
      BY <1>1, <2>3, <3>1, <3>2, <3>3 DEF EnBucle, Atenta, Acabado, EnMano
    <3> QED BY <2>3, <3>4 DEF Curso
  <2> QED BY <1>2, <2>1, <2>2, <2>3, Etapas
<1> QED BY <1>1, <1>3, MarcoCursos DEF Base, TypeOKDescriptores

LEMMA CursoRecibirFin ==
  ASSUME Base, SinReuso, Cursos, NEW c \in Cliente, RecibirFin(c)
  PROVE  Cursos'
<1> USE DEF RecibirFin, Ir, suse, clientes
<1>1. pc[c] = "recv" /\ pc'[c] = "error" /\ pedido[c] = <<>> /\ fase[c] = "terminado" /\ Curso(c)
  BY ReusoRecibirFin DEF Cursos
<1>2. Curso(c)'
  <2>1. CASE etapa[c] = "create_main" /\ EnCreateMain(c)
    <3>1. EnCreateMain(c)'
      BY <1>1, <2>1 DEF EnCreateMain
    <3> QED BY <2>1, <3>1 DEF Curso
  <2>2. CASE etapa[c] = "bucle" /\ EnBucle(c)
    <3>1. EnBucle(c)'
      BY <1>1, <2>2 DEF EnBucle, EntrePaquetes, Operacion, Atenta, Acabado, EnMano
    <3> QED BY <2>2, <3>1 DEF Curso
  <2> QED BY <1>1, <2>1, <2>2, Etapas DEF EnHandshake
<1> QED BY <1>2, MarcoCursos DEF Base, TypeOKDescriptores

(* The end of a thread changes nothing that is in flight for the others.     *)
LEMMA CursoFinal ==
  ASSUME Base, SinReuso, Cursos, NEW c \in Cliente,
         recibirTamPaquete(c) \/ SacarProceso(c) \/ CerrarConexion(c)
  PROVE  Cursos'
<1>1. /\ pc[c] \in {"error", "sacar", "cerrar"} /\ pc'[c] \in {"sacar", "cerrar", "fin"}
      /\ \/ etapa[c] = "bucle"
         \/ etapa[c] # "bucle" /\ pc'[c] = "sacar"
  BY ReusoRecibirTamPaquete, ReusoSacarProceso, ReusoCerrarConexion
<1>2. /\ UNCHANGED <<clientes, leyendo, paquete, etapa, ocioso>>
      /\ \A q \in Cliente : q # c => pc'[q] = pc[q]
  BY DEF recibirTamPaquete, SacarProceso, CerrarConexion, Ir, suse, Base, TypeOKDescriptores
<1>3. Curso(c)
  BY DEF Cursos
<1>4. Curso(c)'
  <2>1. CASE etapa[c] = "create_main" /\ EnCreateMain(c)
    <3>1. fase[c] = "terminado" /\ respuesta[c] = <<>> /\ pedido[c] = <<>> /\ c \notin ocioso
      BY <1>1, <2>1 DEF EnCreateMain, Atenta
    <3>2. EnCreateMain(c)'
      BY <1>1, <1>2, <2>1, <3>1 DEF EnCreateMain, clientes
    <3> QED BY <1>2, <2>1, <3>2 DEF Curso
  <2>2. CASE etapa[c] = "bucle" /\ EnBucle(c)
    <3>1. EnBucle(c)'
      BY <1>1, <1>2, <2>2 DEF EnBucle, Atenta, Acabado, EnMano, clientes
    <3> QED BY <1>2, <2>2, <3>1 DEF Curso
  <2> QED BY <1>1, <1>3, <2>1, <2>2, Etapas DEF EnHandshake, Atenta
<1> QED BY <1>2, <1>4, MarcoCursos DEF clientes

LEMMA CursoEnviarMultiProg ==
  ASSUME Base, SinReuso, Cursos, NEW c \in Cliente, enviarMultiProg(c)
  PROVE  Cursos'
<1> USE DEF enviarMultiProg, Ir, suse
<1>1. /\ pc[c] = "procesar" /\ paquete[c] = "HANDSHAKE" /\ etapa[c] = "handshake"
      /\ socketCliente[c] \in Numero /\ descriptor[socketCliente[c]] = c
      /\ pc'[c] = "leer" /\ etapa'[c] = "create_main"
      /\ enviarPaquetes(socketCliente[c], "SUSE_GRADO_MULTIPROG", c)
  BY ReusoEnviarMultiProg
<1>2. /\ fase[c] \in {"SUSE_GRADO_MULTIPROG", "terminado"}
      /\ pedido[c] = <<>> /\ respuesta[c] = <<>> /\ c \notin ocioso
  BY <1>1 DEF Cursos, Curso, EnHandshake, Atenta
<1>3. /\ \A q \in Cliente : q # c => respuesta'[q] = respuesta[q]
      /\ fase[c] = "terminado" => respuesta'[c] = <<>>
      /\ fase[c] # "terminado" => respuesta'[c] = <<[op |-> "SUSE_GRADO_MULTIPROG", para |-> c]>>
  <2>1. "SUSE_GRADO_MULTIPROG" \in Mensaje
    BY DEF Mensaje
  <2>2. TypeOKDescriptores
    BY DEF Base
  <2> HIDE DEF enviarMultiProg
  <2>3. /\ \A q \in Cliente : q # c => respuesta'[q] = respuesta[q]
        /\ fase[c] = "terminado" => respuesta'[c] = respuesta[c]
        /\ fase[c] # "terminado" /\ respuesta[c] = <<>> =>
              respuesta'[c] = <<[op |-> "SUSE_GRADO_MULTIPROG", para |-> c]>>
    BY <1>1, <2>1, <2>2, Envio
  <2> QED BY <1>2, <2>3
<1>4. Curso(c)'
  <2>1. EnCreateMain(c)'
    BY <1>1, <1>2, <1>3 DEF EnCreateMain, Atenta
  <2> QED BY <1>1, <2>1 DEF Curso
<1> QED BY <1>1, <1>3, <1>4, MarcoCursos DEF Base, TypeOKDescriptores

(* What holds while a thread works on a packet in the loop. *)
LEMMA EnManos ==
  ASSUME Base, Cursos, NEW c \in Cliente, etapa[c] = "bucle", pc[c] \in EnMano
  PROVE  /\ paquete[c] \in Operacion /\ pedido[c] = <<>> /\ respuesta[c] = <<>> /\ c \notin ocioso
         /\ fase[c] \in {paquete[c], "terminado"}
BY DEF Cursos, Curso, EnBucle

LEMMA CursoResponder ==
  ASSUME Base, SinReuso, Cursos, NEW c \in Cliente, Responder(c)
  PROVE  Cursos'
<1> USE DEF Responder, Ir
<1>1. /\ etapa[c] = "bucle" /\ pc[c] \in EnMano /\ paquete[c] \in Operacion
      /\ socketCliente[c] \in Numero /\ descriptor[socketCliente[c]] = c
  BY ReusoBucle
<1>2. /\ pedido[c] = <<>> /\ respuesta[c] = <<>> /\ c \notin ocioso
      /\ fase[c] \in {paquete[c], "terminado"}
  BY <1>1, EnManos
<1>3. pc'[c] = "leer" /\ etapa'[c] = "bucle"
  BY DEF Base, TypeOKDescriptores
<1>4. /\ \A q \in Cliente : q # c => respuesta'[q] = respuesta[q]
      /\ fase[c] = "terminado" => respuesta'[c] = <<>>
      /\ fase[c] # "terminado" => respuesta'[c] = <<[op |-> fase[c], para |-> c]>>
  <2>1. paquete[c] \in Mensaje /\ enviarPaquetes(socketCliente[c], paquete[c], c)
    BY <1>1 DEF Mensaje
  <2> HIDE DEF Responder
  <2>2. /\ \A q \in Cliente : q # c => respuesta'[q] = respuesta[q]
        /\ fase[c] = "terminado" => respuesta'[c] = respuesta[c]
        /\ fase[c] # "terminado" /\ respuesta[c] = <<>> =>
              respuesta'[c] = <<[op |-> paquete[c], para |-> c]>>
    BY <1>1, <2>1, Envio DEF Base
  <2> QED BY <1>2, <2>2
<1>5. Curso(c)'
  <2>1. EntrePaquetes(c)'
    BY <1>1, <1>2, <1>4 DEF EntrePaquetes, Operacion, suse
  <2>2. EnBucle(c)'
    BY <1>1, <1>3, <2>1 DEF EnBucle, Acabado, EnMano, suse
  <2> QED BY <1>3, <2>2 DEF Curso
<1> QED BY <1>4, <1>5, MarcoCursos DEF Base, TypeOKDescriptores, suse

LEMMA CursoQuedarOcioso ==
  ASSUME Base, SinReuso, Cursos, NEW c \in Cliente, QuedarOcioso(c)
  PROVE  Cursos'
<1> USE DEF QuedarOcioso, Ir, clientes
<1>1. /\ pedido[c] = <<>> /\ respuesta[c] = <<>>
      /\ fase[c] \in {"SUSE_SCHEDULE_NEXT", "terminado"}
  BY EnManos DEF EnMano
<1>2. pc'[c] = "leer" /\ etapa'[c] = "bucle" /\ c \in ocioso'
  BY DEF Base, TypeOKDescriptores
<1>3. Curso(c)'
  <2>1. EntrePaquetes(c)'
    BY <1>1, <1>2 DEF EntrePaquetes
  <2>2. EnBucle(c)'
    BY <1>1, <1>2, <2>1 DEF EnBucle, Acabado, EnMano
  <2> QED BY <1>2, <2>2 DEF Curso
<1> QED BY <1>3, MarcoCursos DEF Base, TypeOKDescriptores

(* The one step that writes to the connection of another process.            *)
LEMMA CursoDespertar ==
  ASSUME Base, SinReuso, Cursos, NEW c \in Cliente, NEW d \in Cliente,
         snd_schd_nxt_blockd_process(c, d), ~ Ocurre("huerfano")
  PROVE  Cursos'
<1> USE DEF snd_schd_nxt_blockd_process, Ir
<1>1. /\ etapa[c] = "bucle" /\ pc[c] \in EnMano /\ paquete[c] = "SUSE_SIGNAL"
      /\ pedido[c] = <<>> /\ respuesta[c] = <<>> /\ c \notin ocioso
      /\ fase[c] \in {"SUSE_SIGNAL", "terminado"}
  BY EnManos DEF EnMano
<1>2. d \in ocioso /\ fase[d] # "terminado" /\ d # c /\ Curso(d)
  BY <1>1 DEF Ocurre, Cursos
<1>3. etapa[d] = "bucle" /\ EnBucle(d)
  BY <1>2, Etapas DEF EnHandshake, EnCreateMain
<1>4. pc[d] \in Atenta
  BY <1>2, <1>3 DEF EnBucle, Atenta, Acabado, EnMano, Punto, Base, TypeOKDescriptores
<1>5. fase[d] = "SUSE_SCHEDULE_NEXT" /\ pedido[d] = <<>> /\ respuesta[d] = <<>>
  BY <1>2, <1>3, <1>4 DEF EnBucle, EntrePaquetes
<1>6. self_socket[d] \in Numero /\ descriptor[self_socket[d]] = d
  <2>1. pc[d] \in Vivo /\ self_socket[d] = socketCliente[d]
    BY <1>3, <1>4 DEF Vivo, Atenta, SinReuso, Orden
  <2> QED BY <2>1, Suyo DEF SinReuso
<1>7. /\ \A q \in Cliente : q # d => respuesta'[q] = respuesta[q]
      /\ respuesta'[d] = <<[op |-> "SUSE_SCHEDULE_NEXT", para |-> d]>>
  BY <1>5, <1>6, Envio DEF Base, Mensaje, Operacion
<1>8. pc'[c] = "responder" /\ etapa'[c] = "bucle" /\ \A q \in Cliente : q # c => pc'[q] = pc[q]
  BY DEF Base, TypeOKDescriptores
<1>9. ASSUME NEW q \in Cliente PROVE Curso(q)'
  <2>1. CASE q # c /\ q # d
    BY <1>7, <1>8, <2>1, MarcoCurso DEF Cursos
  <2>2. CASE q = c
    <3>1. EnBucle(c)'
      BY <1>1, <1>2, <1>7, <1>8 DEF EnBucle, Operacion, Atenta, Acabado, EnMano
    <3> QED BY <1>8, <2>2, <3>1 DEF Curso
  <2>3. CASE q = d
    <3>1. EntrePaquetes(d)'
      BY <1>5, <1>7 DEF EntrePaquetes, Operacion
    <3>2. EnBucle(d)'
      BY <1>2, <1>3, <1>4, <1>8, <3>1 DEF EnBucle, Atenta, Acabado, EnMano
    <3> QED BY <1>3, <2>3, <3>2 DEF Curso
  <2> QED BY <2>1, <2>2, <2>3
<1> QED BY <1>9 DEF Cursos

LEMMA CursoCreateMain ==
  ASSUME Base, SinReuso, Cursos, NEW c \in Cliente, esperarPaqueteCreateMain(c)
  PROVE  Cursos'
<1> USE DEF esperarPaqueteCreateMain, Ir
<1>1. /\ pc[c] = "procesar" /\ etapa[c] = "create_main" /\ pc'[c] = "leer" /\ etapa'[c] = "bucle"
  BY ReusoCreateMain
<1>2. /\ fase[c] \in Operacion \cup {"corriendo", "terminado"} /\ Resto(c, pedido[c])
      /\ respuesta[c] = <<>> /\ c \notin ocioso
  BY <1>1 DEF Cursos, Curso, EnCreateMain, Atenta
<1>3. Curso(c)'
  <2>1. EntrePaquetes(c)'
    BY <1>2 DEF EntrePaquetes, Resto, clientes
  <2>2. EnBucle(c)'
    BY <1>1, <2>1 DEF EnBucle, Acabado, EnMano
  <2> QED BY <1>1, <2>2 DEF Curso
<1> QED BY <1>3, MarcoCursos DEF Base, TypeOKDescriptores, clientes

LEMMA CursoAceptar ==
  ASSUME Base, SinReuso, Cursos, NEW c \in Cliente, Aceptar(c), ~ Ocurre("reuso")
  PROVE  Cursos'
<1>1. /\ pc[c] = "sin_hilo" /\ pc'[c] = "leer" /\ etapa[c] = "handshake"
      /\ \A q \in Cliente : q # c => pc'[q] = pc[q]
  BY ReusoAceptar
<1>2. UNCHANGED <<clientes, leyendo, paquete, etapa, suse>> /\ fase[c] # "afuera"
  <2>1. PICK n : n = PrimerLibre
    OBVIOUS
  <2> QED BY <2>1, Aceptada
<1>3. Curso(c)'
  <2>1. EnHandshake(c)
    BY <1>1 DEF Cursos, Curso
  <2>2. EnHandshake(c)'
    BY <1>1, <1>2, <2>1 DEF EnHandshake, Atenta, clientes, suse
  <2> QED BY <1>1, <1>2, <2>2 DEF Curso
<1> QED BY <1>1, <1>2, <1>3, MarcoCursos DEF clientes, suse

LEMMA NextCursos ==
  ASSUME Base, SinReuso, Cursos, Next, ~ Ocurre("reuso"), ~ Ocurre("huerfano")
  PROVE  Cursos'
<1>1. ASSUME NEW c \in Cliente, ClienteHace(c) PROVE Cursos'
  BY <1>1, CursoConectar, CursoCrearMain, CursoPedir, CursoEsperarRespuesta, CursoTerminar
     DEF ClienteHace
<1>2. ASSUME NEW c \in Cliente, AtenderConexion(c) PROVE Cursos'
  <2>1. CASE EmpezarRecv(c) \/ recibirPaquete(c) \/ RecibirFin(c)
    BY <2>1, CursoEmpezarRecv, CursoRecibirPaquete, CursoRecibirFin
  <2>2. CASE enviarMultiProg(c) \/ esperarPaqueteCreateMain(c)
    BY <2>2, CursoEnviarMultiProg, CursoCreateMain
  <2>3. CASE Responder(c) \/ QuedarOcioso(c)
    BY <2>3, CursoResponder, CursoQuedarOcioso
  <2>4. CASE \E q \in Cliente : snd_schd_nxt_blockd_process(c, q)
    BY <2>4, CursoDespertar
  <2>5. CASE recibirTamPaquete(c) \/ SacarProceso(c) \/ CerrarConexion(c)
    BY <2>5, CursoFinal
  <2> QED BY <1>2, <2>1, <2>2, <2>3, <2>4, <2>5 DEF AtenderConexion
<1>3. ASSUME EmpezarMetricas \/ MedirProceso PROVE Cursos'
  <2>1. UNCHANGED <<clientes, hilos, suse>>
    BY <1>3 DEF EmpezarMetricas, MedirProceso
  <2> QED BY <2>1, MarcoCurso DEF Cursos, clientes, hilos, suse
<1> QED BY <1>1, <1>2, <1>3, CursoAceptar DEF Next

-------------------------------------------------------------------------------
(* The invariant. *)

LEMMA InitD == InitV => InvarianteD
<1> SUFFICES ASSUME InitV PROVE InvarianteD
  OBVIOUS
<1> USE DEF InitV, Init
<1>1. Base /\ faltas \subseteq Falta
  BY InitBase
<1>2. CadaHiloLoSuyo /\ NumerosDistintos /\ Lista
  <2>1. Nulo \notin Cliente
    BY NuloAssumption
  <2> QED BY <2>1 DEF CadaHiloLoSuyo, NumerosDistintos, Lista, Atendido
<1>3. ASSUME NEW c \in Cliente PROVE Leidos(c) = 0 /\ Len(pedido[c]) = 0 /\ Orden(c)
  <2>1. Leidos(c) = 0 /\ pedido[c] = <<>> /\ Len(pedido[c]) = 0
    BY DEF Leidos
  <2>2. EsGuion(pedido[c], Leidos(c))
    BY <2>1 DEF EsGuion
  <2> QED BY <2>1, <2>2 DEF Orden, Operacion, EnMano, Acabado
<1>4. Explicada
  BY <1>3 DEF Explicada, Temprano
<1>5. Cursos
  BY DEF Cursos, Curso, EnHandshake
<1>6. Medida
  BY DEF Medida
<1> QED BY <1>1, <1>2, <1>3, <1>4, <1>5, <1>6 DEF InvarianteD, SinReuso

LEMMA QuietoD ==
  ASSUME InvarianteD, UNCHANGED varsV
  PROVE  InvarianteD'
<1> USE DEF varsV, vars, hilos, suse, clientes, metricas
<1>1. Base' /\ (faltas \subseteq Falta)'
  BY DEF InvarianteD, Base, TypeOKDescriptores, Cimientos, UnNumero, PorAceptar
<1>2. SinReuso => SinReuso'
  <2> SUFFICES ASSUME SinReuso PROVE SinReuso'
    OBVIOUS
  <2>1. \A q \in Cliente : Orden(q)'
    BY MarcoOrden DEF SinReuso
  <2>2. CadaHiloLoSuyo' /\ NumerosDistintos' /\ Lista'
    BY DEF SinReuso, CadaHiloLoSuyo, NumerosDistintos, Lista, Atendido
  <2> QED BY <2>1, <2>2 DEF SinReuso
<1>3. Explicada => Explicada'
  BY DEF Explicada, Temprano, Leidos, Sin
<1>4. Cursos => Cursos'
  BY MarcoCurso DEF Cursos
<1>5. Medida'
  BY DEF InvarianteD, Medida, Sin
<1> QED BY <1>1, <1>2, <1>3, <1>4, <1>5 DEF InvarianteD, Sin

LEMMA NextD ==
  ASSUME InvarianteD, [NextV]_varsV
  PROVE  InvarianteD'
<1>1. CASE NextV
  <2>1. Next /\ faltas' = faltas \cup {f \in Falta : Ocurre(f)}
    BY <1>1 DEF NextV
  <2>2. Base' /\ (faltas \subseteq Falta)'
    BY <2>1, NextBase DEF InvarianteD
  <2>3. Medida'
    BY <1>1, MedidaSigue DEF InvarianteD
  <2>4. ASSUME Sin({"reuso"})'
        PROVE  SinReuso /\ Explicada /\ ~ Ocurre("reuso")
    BY <2>1, <2>4 DEF InvarianteD, Sin, Falta
  <2>5. Sin({"reuso"})' => SinReuso' /\ Explicada'
    BY <1>1, <2>1, <2>4, NextReuso, NextExplicada DEF InvarianteD
  <2>6. ASSUME Sin({"reuso", "huerfano"})' PROVE Cursos'
    <3>1. Sin({"reuso"})' /\ Cursos /\ ~ Ocurre("huerfano")
      BY <2>1, <2>6 DEF InvarianteD, Sin, Falta
    <3> QED BY <2>1, <2>4, <3>1, NextCursos DEF InvarianteD
  <2> QED BY <2>2, <2>3, <2>5, <2>6 DEF InvarianteD
<1> QED BY <1>1, QuietoD

-------------------------------------------------------------------------------
(* The inductive invariant holds in every state the server reaches, the      *)
(* harmful orders included: each of its parts says what none of them, or     *)
(* none of some of them, has damaged.                                        *)
THEOREM InvarianteCorrecto == SpecV => []InvarianteD
<1>1. InvarianteD /\ [NextV]_varsV => InvarianteD'
  BY NextD
<1> QED BY InitD, <1>1, PTL DEF SpecV

(* Every variable keeps its type, whatever the threads interleave with       *)
(* accept, the closes, the signals and the metrics: a number given away      *)
(* twice may mix up connections, and not the structures of the server.       *)
THEOREM TipoDescriptores == SpecV => []TypeOKDescriptores
<1>1. InvarianteD => TypeOKDescriptores
  BY DEF InvarianteD, Base
<1> QED BY <1>1, InvarianteCorrecto, PTL

(* Until an accept gives a number that a thread has still to close, each     *)
(* thread reads and answers the connection it was made for: no other order   *)
(* of signals, ends and metrics disturbs it.                                 *)
THEOREM HilosLeenLoSuyo == SpecV => []HiloLeeLoSuyo
<1>1. InvarianteD => HiloLeeLoSuyo
  BY DEF InvarianteD, SinReuso, HiloLeeLoSuyo
<1> QED BY <1>1, InvarianteCorrecto, PTL

LEMMA UnaRespuesta ==
  ASSUME Base, NEW c \in Cliente, Curso(c)
  PROVE  /\ Len(respuesta[c]) <= 1
         /\ respuesta[c] # <<>> => respuesta[c][1] = [op |-> fase[c], para |-> c]
<1>1. respuesta[c] = <<>> \/ respuesta[c] = <<[op |-> fase[c], para |-> c]>>
  <2>1. CASE etapa[c] = "handshake" /\ EnHandshake(c)
    BY <2>1 DEF EnHandshake
  <2>2. CASE etapa[c] = "create_main" /\ EnCreateMain(c)
    BY <2>2 DEF EnCreateMain
  <2>3. CASE etapa[c] = "bucle" /\ EnBucle(c)
    <3>1. pc[c] \in Atenta \cup EnMano \cup Acabado
      BY <2>3 DEF EnBucle, Atenta, Acabado, EnMano, Base, TypeOKDescriptores, Punto
    <3> QED BY <2>3, <3>1 DEF EnBucle, EntrePaquetes
  <2> QED BY <2>1, <2>2, <2>3, Etapas
<1> DEFINE r == [op |-> fase[c], para |-> c]
<1>2. respuesta[c] = <<>> \/ respuesta[c] = <<r>>
  BY <1>1
<1> SUFFICES Len(respuesta[c]) <= 1 /\ (respuesta[c] # <<>> => respuesta[c][1] = r)
  OBVIOUS
<1> HIDE DEF r
<1>3. Len(<<>>) = 0 /\ Len(<<r>>) = 1 /\ <<r>>[1] = r
  OBVIOUS
<1>4. CASE respuesta[c] = <<>>
  <2>1. Len(respuesta[c]) = 0
    BY <1>3, <1>4, Zenon
  <2> QED BY <1>4, <2>1
<1>5. CASE respuesta[c] = <<r>>
  <2>1. Len(respuesta[c]) = 1 /\ respuesta[c][1] = r
    BY <1>3, <1>5, Zenon
  <2> QED BY <2>1
<1> QED BY <1>2, <1>4, <1>5

(* Until such an accept, or a signal that answers a process that has ended,  *)
(* what arrives on a connection is the one answer to the operation its       *)
(* process waits for, also when a signal of another process sends it.        *)
THEOREM RespuestasPropias == SpecV => []RespuestaPropia
<1>1. InvarianteD => RespuestaPropia
  BY UnaRespuesta DEF InvarianteD, Cursos, RespuestaPropia, CadaRespuestaAQuienLaEspera
<1> QED BY <1>1, InvarianteCorrecto, PTL

(* Until such an accept, g_running_procs has the attended processes, once    *)
(* each, under the numbers of their connections.                             *)
THEOREM ListasDeVivos == SpecV => []ListaDeVivos
<1>1. ASSUME InvarianteD, Sin({"reuso"}) PROVE ListaDeVivos
  <2> DEFINE g == g_running_procs
  <2>0. SinReuso /\ Base
    BY <1>1 DEF InvarianteD
  <2>1. ASSUME NEW c \in Cliente
        PROVE  Cardinality({i \in DOMAIN g : g[i] = c}) = IF Atendido(c) THEN 1 ELSE 0
    <3>1. CASE Atendido(c)
      <4>1. PICK k \in DOMAIN g : g[k] = c
        BY <2>0, <3>1 DEF SinReuso, Lista
      <4>2. {i \in DOMAIN g : g[i] = c} = {k}
        BY <2>0, <4>1 DEF SinReuso, Lista
      <4>3. Cardinality({k}) = 1
        BY FS_Singleton
      <4> QED BY <3>1, <4>2, <4>3
    <3>2. CASE ~ Atendido(c)
      <4>1. {i \in DOMAIN g : g[i] = c} = {}
        BY <2>0, <3>2 DEF SinReuso, Lista
      <4> QED BY <3>2, <4>1, FS_EmptySet
    <3> QED BY <3>1, <3>2
  <2>2. ASSUME NEW i \in DOMAIN g PROVE self_socket[g[i]] = socketCliente[g[i]]
    <3> DEFINE d == g[i]
    <3>1. d \in Cliente
      BY <2>0, LenProperties, ElementOfSeq DEF Base, TypeOKDescriptores
    <3>2. Atendido(d)
      BY <2>0, <3>1 DEF SinReuso, Lista
    <3> HIDE DEF d
    <3>3. self_socket[d] = socketCliente[d]
      BY <2>0, <3>1, <3>2 DEF SinReuso, Orden, Atendido
    <3> QED BY <3>3 DEF d
  <2> QED BY <2>1, <2>2 DEF ListaDeVivos, Atendido
<1>2. InvarianteD => ListaDeVivos
  BY <1>1 DEF ListaDeVivos
<1> QED BY <1>2, InvarianteCorrecto, PTL

(* The server falls only when a client ended before it created its main      *)
(* thread or a process left the list under the metrics, unless such an       *)
(* accept mixed up the connections; and until a process leaves so, the       *)
(* metrics find all the processes they counted.                              *)
THEOREM CaidasExplicadas == SpecV => []CaidaExplicada
<1>1. InvarianteD => CaidaExplicada
  BY DEF InvarianteD, Explicada, Medida, CaidaExplicada
<1> QED BY <1>1, InvarianteCorrecto, PTL
===============================================================================
