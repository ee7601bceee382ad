------------------------------- MODULE MapasProofs ------------------------------
(***************************************************************************)
(* Proofs of what MapasVista states of mapped files, for any finite set of  *)
(* programs, any files, pages, frames and accesses.  The programs take      *)
(* turns to map and unmap (Coordinados: the race of a map with an unmap,    *)
(* which muse_desmapeo shows, is excluded) and sync only pages that are in  *)
(* (SyncSoloUsadas: so is the race of two faults on one page).  Some        *)
(* theorems need that a file is mapped all shared or all private            *)
(* (SinMezcla).  Gets, copies, syncs and ends interleave in all of them.    *)
(***************************************************************************)
EXTENDS MapasVista, LemasComunes

(* Who unmaps a private mapping takes the shared one of that name off the    *)
(* list.                                                                     *)
SinMezcla == \A p, q \in Programas : path[p] = path[q] => flags[p] = flags[q]

-------------------------------------------------------------------------------
(* The inductive invariant *)

Puntos == EnMap \cup EnUnmap \cup EnReposo \cup {"get", "copy", "sync"}

Local ==
  [dir : Nat, tam : Nat, dato : Valores \cup {Nada}, pagina : Nat,
   fase : {"mirar", "traer", "usar"}, leido : Seq(Byte), mapeo : Programas \cup {Nada},
   cant : Nat]

TiposM ==
  /\ mapeos \in [Programas -> (UNION {t_mapAbierto(p) : p \in Programas}) \cup {Nada}]
  /\ \A p \in Programas : mapeos[p] # Nada => mapeos[p] \in t_mapAbierto(p)
  /\ mapeosAbiertosCompartidos \in Seq(Programas)
  /\ segmentos \in [Programas -> t_segmento \cup {Nada}]
  /\ marcos \subseteq Frame
  /\ tablasDePaginas \in [Frame -> (Programas \X Nat) \cup {Nada}]
  /\ contenidoFrames \in [Frame -> Contenido]
  /\ pc \in [Programas -> Puntos]
  /\ local \in [Programas -> Local]

MutexM == \A p \in Programas : pc[p] \in {"get", "copy"} <=> g_mutexPaginas = p

(* One map or unmap at a time. *)
Exclusion ==
  \A p, q \in Programas : pc[p] \in EnMap \cup EnUnmap /\ pc[q] \in EnMap \cup EnUnmap => p = q

(* Who has a segment. *)
InvSegmento(p) ==
  /\ pc[p] \in {"nuevo"} \cup EnMap => segmentos[p] = Nada /\ mapeos[p] = Nada
  /\ pc[p] \in {"libre", "get", "copy", "sync"} \cup EnUnmap => segmentos[p] # Nada
  /\ pc[p] \in {"libre", "unmap_borrar"} => local[p].pagina = 0

(* The segments are of mappings in use of their file.                        *)
InvMapeos ==
  \A p \in Programas : segmentos[p] # Nada =>
    LET m == segmentos[p].mapeo IN
    /\ mapeos[m] # Nada /\ ~ mapeos[m].liberado
    /\ path[m] = path[p] /\ flags[m] = flags[p]
    /\ segmentos[p].esCompartido <=> flags[p] = "MAP_SHARED"
    /\ ~ segmentos[p].esCompartido => m = p

InvCuentas ==
  \A m \in Vivos : mapeos[m].cantProcesosUsando = Cardinality(Usuarios(m)) /\ Usuarios(m) # {}

EnLaLista(m) ==
  \E i \in DOMAIN mapeosAbiertosCompartidos : mapeosAbiertosCompartidos[i] = m

(* The list has one mapping for each name, in use. *)
InvLista ==
  /\ \A m \in Programas : EnLaLista(m) =>
       m \in Vivos /\ flags[m] = "MAP_SHARED" /\ \A p \in Usuarios(m) : pc[p] # "unmap_pagina"
  /\ \A i, j \in DOMAIN mapeosAbiertosCompartidos :
       path[mapeosAbiertosCompartidos[i]] = path[mapeosAbiertosCompartidos[j]] => i = j

EnLista ==
  \A p \in Programas : segmentos[p] # Nada /\ segmentos[p].esCompartido /\ pc[p] # "unmap_pagina"
    => EnLaLista(segmentos[p].mapeo)

(* What a map or an unmap has read stays so until it is used. *)
InvLeido(p) ==
  /\ pc[p] \in {"map_sumar", "map_guardar"} =>
       /\ local[p].mapeo \in Programas /\ EnLaLista(local[p].mapeo)
       /\ path[local[p].mapeo] = path[p] /\ flags[p] = "MAP_SHARED"
  /\ pc[p] = "map_guardar" => local[p].cant = mapeos[local[p].mapeo].cantProcesosUsando
  /\ pc[p] = "map_agregar" =>
       /\ flags[p] = "MAP_SHARED"
       /\ \A m \in Programas : EnLaLista(m) => path[m] # path[p]
  /\ pc[p] = "map_privado" => flags[p] = "MAP_PRIVATE"
  /\ pc[p] \in {"unmap_restar", "unmap_guardar"} => Mapeo(p).cantProcesosUsando # 1
  /\ pc[p] = "unmap_guardar" => local[p].cant = Mapeo(p).cantProcesosUsando
  /\ Cerrando(p) => Usuarios(segmentos[p].mapeo) = {p}

(* The page a request works on. *)
InvPagina(p) ==
  /\ Accediendo(p, "traer") => pc[p] # "sync" /\ HayPagina(p) /\ ~ Pagina(p).flagPresencia
  /\ Accediendo(p, "usar") => HayPagina(p) /\ Pagina(p).flagPresencia
  /\ pc[p] = "copy" => local[p].dato \in Valores

(* What a sync has read. *)
InvSync(p) ==
  pc[p] = "sync" =>
    /\ local[p].dir = 0 /\ local[p].tam \in 1..Largo(p)
    /\ YaUsadas(p, local[p].tam)
    /\ local[p].fase = "usar" => local[p].pagina <= UltimaPagina(p)
    /\ Len(local[p].leido) = IF local[p].pagina <= UltimaPagina(p)
                             THEN local[p].pagina * lengthPagina ELSE local[p].tam

InvMarcos ==
  /\ \A m \in Vivos : \A i \in Presentes(m) :
       LET f == mapeos[m].tablaPaginas[i].nroFrame IN
       /\ f \in marcos /\ tablasDePaginas[f] \in Programas \X Nat
       /\ tablasDePaginas[f][2] = i - 1 /\ path[tablasDePaginas[f][1]] = path[m]
  /\ \A m, n \in Vivos : \A i \in Presentes(m), j \in Presentes(n) :
       mapeos[m].tablaPaginas[i].nroFrame = mapeos[n].tablaPaginas[j].nroFrame => m = n /\ i = j
  /\ \A f \in marcos : \E m \in Vivos : \E i \in Presentes(m) : mapeos[m].tablaPaginas[i].nroFrame = f
  /\ \A f \in Frame \ marcos : tablasDePaginas[f] = Nada

InvarianteM ==
  /\ TiposM /\ MutexM /\ Exclusion
  /\ InvMapeos /\ InvCuentas /\ InvLista
  /\ \A p \in Programas : InvSegmento(p) /\ InvLeido(p) /\ InvPagina(p) /\ InvSync(p)
  /\ InvMarcos

(* What holds moreover of programs that map a file all in one way. *)
InvNombres == MismoMapeo /\ EnLista

-------------------------------------------------------------------------------
(* Constants, arithmetic and sequences *)

LEMMA Constantes ==
  /\ lengthPagina \in Nat \ {0} /\ g_cantidadFrames \in Nat
  /\ IsFiniteSet(Programas) /\ Nada \notin Programas /\ Nada \notin t_segmento
  /\ \A p \in Programas : paginasDe[path[p]] \in Nat \ {0} /\ Largo(p) \in Nat \ {0}
  /\ \A p \in Programas : flags[p] \in {"MAP_SHARED", "MAP_PRIVATE"} /\ Nada \notin t_mapAbierto(p)
  /\ Frame \subseteq Nat /\ IsFiniteSet(Frame)
  /\ PaginaEnCero \in Contenido
<1>1. \A p \in Programas : paginasDe[path[p]] \in Nat \ {0}
  BY MapasAssumption
<1>2. lengthPagina \in Nat \ {0} /\ g_cantidadFrames \in Nat
  BY MapasAssumption
<1>3. \A a, b \in Nat \ {0} : a * b \in Nat \ {0}
  OBVIOUS
<1>4. \A p \in Programas : Largo(p) \in Nat \ {0}
  BY <1>1, <1>2, <1>3 DEF Largo
<1>5. IsFiniteSet(Frame)
  BY <1>2, FS_Interval DEF Frame
<1>6. PaginaEnCero \in Contenido
  BY DEF PaginaEnCero, Contenido, Byte
<1> QED BY <1>1, <1>2, <1>4, <1>5, <1>6, MapasAssumption, NadaAssumption DEF Frame

LEMMA MinimoDe ==
  ASSUME NEW T, T \subseteq Nat, IsFiniteSet(T), T # {}
  PROVE  Min(T) \in T /\ \A n \in T : Min(T) <= n
<1>1. T \subseteq Int
  OBVIOUS
<1>2. \E n \in T : \A m \in T : n <= m
  BY <1>1, Minimo
<1> QED BY <1>2 DEF Min

LEMMA MaximoDe ==
  ASSUME NEW T, T \subseteq Nat, IsFiniteSet(T), T # {}
  PROVE  Max(T) \in T /\ \A n \in T : n <= Max(T)
<1>1. T \subseteq Int
  OBVIOUS
<1>2. \E n \in T : \A m \in T : n >= m
  BY <1>1, Maximo
<1> QED BY <1>2 DEF Max

(* Addresses and pages. *)
LEMMA Division ==
  ASSUME NEW a \in Nat
  PROVE  /\ a \div lengthPagina \in Nat /\ a % lengthPagina \in 0 .. (lengthPagina - 1)
         /\ a = (a \div lengthPagina) * lengthPagina + (a % lengthPagina)
BY Constantes

LEMMA DivisionMenor ==
  ASSUME NEW a \in Nat, NEW n \in Nat
  PROVE  a \div lengthPagina < n <=> a < n * lengthPagina
<1> DEFINE d == a \div lengthPagina
<1>1. d \in Nat /\ a % lengthPagina \in 0 .. (lengthPagina - 1) /\ a = d * lengthPagina + (a % lengthPagina)
  BY Division
<1>2. lengthPagina \in Nat /\ lengthPagina > 0
  BY Constantes
<1> HIDE DEF d
<1>3. CASE d < n
  <2>1. (n - d - 1) * lengthPagina >= 0
    BY <1>1, <1>2, <1>3
  <2>2. n * lengthPagina = d * lengthPagina + lengthPagina + (n - d - 1) * lengthPagina
    BY <1>1, <1>2
  <2>3. d * lengthPagina \in Nat /\ n * lengthPagina \in Nat /\ (n - d - 1) * lengthPagina \in Int
    BY <1>1, <1>2
  <2>4. a < n * lengthPagina
    BY <1>1, <1>2, <2>1, <2>2, <2>3
  <2> QED BY <1>3, <2>4 DEF d
<1>4. CASE ~ (d < n)
  <2>1. (d - n) * lengthPagina >= 0
    BY <1>1, <1>2, <1>4
  <2>2. d * lengthPagina = n * lengthPagina + (d - n) * lengthPagina
    BY <1>1, <1>2
  <2>3. d * lengthPagina \in Nat /\ n * lengthPagina \in Nat /\ (d - n) * lengthPagina \in Int
    BY <1>1, <1>2
  <2>4. ~ (a < n * lengthPagina)
    BY <1>1, <1>2, <2>1, <2>2, <2>3
  <2> QED BY <1>4, <2>4 DEF d
<1> QED BY <1>3, <1>4

LEMMA EsSecuencia ==
  ASSUME NEW S, NEW n \in Nat, NEW f \in [1..n -> S]
  PROVE  f \in Seq(S) /\ Len(f) = n
OBVIOUS

-------------------------------------------------------------------------------
(* The list of shared mappings *)

LEMMA PrimeroDe ==
  ASSUME mapeosAbiertosCompartidos \in Seq(Programas), NEW a
  PROVE  LET i == existePath(a) IN
         \/ /\ i = 0 /\ \A m \in Programas : EnLaLista(m) => path[m] # a
            /\ buscarMapeoAbierto(a) = Nada
         \/ /\ i \in DOMAIN mapeosAbiertosCompartidos /\ path[mapeosAbiertosCompartidos[i]] = a
            /\ buscarMapeoAbierto(a) = mapeosAbiertosCompartidos[i]
<1> DEFINE lista == mapeosAbiertosCompartidos
           I == {i \in 1..Len(lista) : path[lista[i]] = a}
<1>1. Len(lista) \in Nat /\ DOMAIN lista = 1..Len(lista)
  BY LenProperties
<1>2. existePath(a) = IF I # {} THEN Min(I) ELSE 0
  BY DEF existePath, SelectInSeq
<1>3. I \subseteq Nat /\ IsFiniteSet(I)
  <2>1. I \in SUBSET (1..Len(lista))
    OBVIOUS
  <2>2. IsFiniteSet(1..Len(lista))
    BY <1>1, FS_Interval
  <2>3. I \subseteq Nat
    BY <1>1
  <2> HIDE DEF I
  <2> QED BY <2>1, <2>2, <2>3, FS_Subset
<1>4. I # {} => Min(I) \in I
  <2> HIDE DEF I
  <2> QED BY <1>3, MinimoDe
<1>5. CASE I = {}
  BY <1>1, <1>2, <1>5 DEF EnLaLista, buscarMapeoAbierto
<1>6. CASE I # {}
  <2>1. existePath(a) \in I
    BY <1>2, <1>4, <1>6
  <2> QED BY <1>1, <2>1 DEF buscarMapeoAbierto
<1> QED BY <1>5, <1>6

-------------------------------------------------------------------------------
(* Segments and mappings *)

LEMMA DeSegmento ==
  ASSUME TiposM, InvMapeos, NEW p \in Programas, segmentos[p] # Nada
  PROVE  LET m == segmentos[p].mapeo IN
         /\ m \in Programas /\ segmentos[p].limiteLogico \in Nat /\ segmentos[p].esCompartido \in BOOLEAN
         /\ mapeos[m] # Nada /\ mapeos[m] \in t_mapAbierto(m) /\ ~ mapeos[m].liberado
         /\ path[m] = path[p] /\ flags[m] = flags[p]
         /\ m \in Vivos /\ p \in Usuarios(m)
         /\ mapeos[m].tablaPaginas \in [1..paginasDe[path[p]] -> EnFrame]
         /\ Len(mapeos[m].tablaPaginas) = paginasDe[path[p]]
         /\ DOMAIN mapeos[m].tablaPaginas = 1..paginasDe[path[p]]
<1> DEFINE m == segmentos[p].mapeo
<1>1. segmentos[p] \in t_segmento
  BY DEF TiposM
<1>2. m \in Programas /\ segmentos[p].limiteLogico \in Nat /\ segmentos[p].esCompartido \in BOOLEAN
  BY <1>1 DEF t_segmento
<1>3. /\ mapeos[m] # Nada /\ ~ mapeos[m].liberado
      /\ path[m] = path[p] /\ flags[m] = flags[p]
  BY DEF InvMapeos
<1>4. mapeos[m] \in t_mapAbierto(m)
  BY <1>2, <1>3 DEF TiposM
<1>5. mapeos[m].tablaPaginas \in [1..paginasDe[path[p]] -> EnFrame]
  BY <1>3, <1>4 DEF t_mapAbierto
<1>6. paginasDe[path[p]] \in Nat
  BY Constantes
<1>7. Len(mapeos[m].tablaPaginas) = paginasDe[path[p]]
  BY <1>5, <1>6, EsSecuencia
<1>8. m \in Vivos /\ p \in Usuarios(m)
  BY <1>2, <1>3 DEF Vivos, Usuarios
<1> QED BY <1>2, <1>3, <1>4, <1>5, <1>7, <1>8

(* The page p is at. *)
LEMMA DePagina ==
  ASSUME TiposM, InvMapeos, NEW p \in Programas, segmentos[p] # Nada, HayPagina(p)
  PROVE  /\ local[p].pagina \in Nat /\ local[p].pagina + 1 \in 1..paginasDe[path[p]]
         /\ Pagina(p) \in EnFrame /\ Pagina(p).nroFrame \in Nat
         /\ Pagina(p).flagPresencia \in BOOLEAN
<1>1. local[p].pagina \in Nat
  BY DEF TiposM, Local
<1>2. /\ Mapeo(p).tablaPaginas \in [1..paginasDe[path[p]] -> EnFrame]
      /\ Len(Mapeo(p).tablaPaginas) = paginasDe[path[p]]
  BY DeSegmento DEF Mapeo
<1>3. paginasDe[path[p]] \in Nat
  BY Constantes
<1>4. local[p].pagina + 1 \in 1..paginasDe[path[p]]
  BY <1>1, <1>2, <1>3 DEF HayPagina
<1>5. Pagina(p) \in EnFrame
  BY <1>2, <1>4 DEF Pagina
<1> QED BY <1>1, <1>4, <1>5 DEF EnFrame

(* The users of a mapping, when one program comes or goes. *)
LEMMA UsuariosFinitos ==
  ASSUME NEW m
  PROVE  IsFiniteSet(Usuarios(m)) /\ Cardinality(Usuarios(m)) \in Nat
<1>1. Usuarios(m) \in SUBSET Programas
  BY DEF Usuarios
<1>2. IsFiniteSet(Usuarios(m))
  BY <1>1, Constantes, FS_Subset
<1> QED BY <1>2, FS_CardinalityType

LEMMA UnSoloUsuario ==
  ASSUME NEW m, NEW p \in Usuarios(m), Cardinality(Usuarios(m)) = 1
  PROVE  Usuarios(m) = {p}
<1>1. \E x : Usuarios(m) = {x}
  BY UsuariosFinitos, FS_Singleton
<1> QED BY <1>1

-------------------------------------------------------------------------------
(* What the actions have in common *)

(* Who is left alone. *)
Otro(p, q) ==
  q # p /\ pc'[q] = pc[q] /\ local'[q] = local[q] /\ segmentos'[q] = segmentos[q]

(* The handler of p goes from a to b; what p has in local is of its type. *)
LEMMA VaDe ==
  ASSUME TiposM, NEW p \in Programas, NEW b, Ir(p, b)
  PROVE  /\ pc'[p] = b /\ \A q \in Programas \ {p} : pc'[q] = pc[q]
         /\ b \in Puntos => pc' \in [Programas -> Puntos]
BY DEF Ir, TiposM

LEMMA Guarda ==
  ASSUME TiposM, NEW p \in Programas, NEW l, Guardar(p, l)
  PROVE  /\ local'[p] = l /\ \A q \in Programas \ {p} : local'[q] = local[q]
         /\ l \in Local => local' \in [Programas -> Local]
BY DEF Guardar, TiposM

LEMMA LocalesIniciales == LocalInicial \in Local
BY Constantes, EmptySeq DEF LocalInicial, Local

LEMMA ExclusionSi ==
  ASSUME Exclusion, NEW p \in Programas, \A q \in Programas \ {p} : pc'[q] = pc[q],
         \/ pc[p] \in EnMap \cup EnUnmap \/ pc'[p] \notin EnMap \cup EnUnmap
         \/ Turno(p)
  PROVE  Exclusion'
BY DEF Exclusion, Turno

LEMMA MutexSi ==
  ASSUME MutexM, NEW p \in Programas, \A q \in Programas \ {p} : pc'[q] = pc[q],
         \/ /\ g_mutexPaginas' = g_mutexPaginas
            /\ pc[p] \in {"get", "copy"} <=> pc'[p] \in {"get", "copy"}
         \/ pc[p] \in {"get", "copy"} /\ pc'[p] \notin {"get", "copy"} /\ g_mutexPaginas' = Nada
         \/ g_mutexPaginas = Nada /\ pc'[p] \in {"get", "copy"} /\ g_mutexPaginas' = p
         \/ g_mutexPaginas = Nada /\ pc'[p] \notin {"get", "copy"} /\ g_mutexPaginas' = Nada
  PROVE  MutexM'
BY Constantes DEF MutexM

(* What the invariant says of one program. *)
InvDe(p) == InvSegmento(p) /\ InvLeido(p) /\ InvPagina(p) /\ InvSync(p)

(* A step that changes neither mappings nor segments nor who has a frame.    *)
LEMMA Callado ==
  ASSUME InvarianteM, NEW p \in Programas,
         UNCHANGED <<mapeos, mapeosAbiertosCompartidos, segmentos, marcos, tablasDePaginas>>,
         \A q \in Programas \ {p} : pc'[q] = pc[q] /\ local'[q] = local[q],
         pc[p] # "unmap_pagina", pc'[p] # "unmap_pagina"
  PROVE  /\ InvMapeos' /\ InvCuentas' /\ InvLista' /\ InvMarcos'
         /\ InvNombres => InvNombres'
         /\ \A q \in Programas \ {p} : InvDe(q)'
<1> USE DEF InvarianteM
<1>1. Vivos' = Vivos /\ \A m : Usuarios(m)' = Usuarios(m)
  BY DEF Vivos, Usuarios
<1>2. \A q \in Programas : pc'[q] = "unmap_pagina" <=> pc[q] = "unmap_pagina"
  OBVIOUS
<1>3. \A q \in Programas : pc[q] = "unmap_pagina" => local'[q] = local[q]
  OBVIOUS
<1>4. InvMapeos' /\ InvCuentas'
  BY <1>1 DEF InvMapeos, InvCuentas
<1>5. InvLista'
  <2>1. \A m : \A q \in Usuarios(m) : q \in Programas
    BY DEF Usuarios
  <2> QED BY <1>1, <1>2, <2>1 DEF InvLista, EnLaLista
<1>6. \A m : Presentes(m)' = Presentes(m)
  <2> TAKE m
  <2>1. \A q \in Usuarios(m) : q \in Programas
    BY SMTT(30) DEF Usuarios
  <2> QED BY <1>1, <1>2, <1>3, <2>1 DEF Presentes
<1>7. InvMarcos'
  BY <1>1, <1>6 DEF InvMarcos
<1>8. InvNombres => InvNombres'
  BY <1>2 DEF InvNombres, MismoMapeo, EnLista, EnLaLista
<1>9. ASSUME NEW q \in Programas \ {p} PROVE InvDe(q)'
  <2>1. InvSegmento(q)'
    BY DEF InvSegmento
  <2>2. InvLeido(q)'
    BY SMTT(30), <1>1 DEF InvLeido, EnLaLista, Mapeo, Cerrando
  <2>3. InvPagina(q)'
    BY DEF InvPagina, Accediendo, HayPagina, Pagina, Mapeo
  <2>4. InvSync(q)'
    BY DEF InvSync, YaUsadas, UltimaPagina
  <2> QED BY <2>1, <2>2, <2>3, <2>4 DEF InvDe
<1> QED BY <1>4, <1>5, <1>7, <1>8, <1>9

(* What remains to prove of such a step. *)
LEMMA Queda ==
  ASSUME TiposM', MutexM', Exclusion', InvMapeos', InvCuentas', InvLista', InvMarcos',
         NEW p \in Programas, \A q \in Programas \ {p} : InvDe(q)', InvDe(p)'
  PROVE  InvarianteM'
BY DEF InvarianteM, InvDe

LEMMA TiposCallado ==
  ASSUME TiposM, UNCHANGED <<mapeos, mapeosAbiertosCompartidos, segmentos, marcos, tablasDePaginas>>,
         contenidoFrames' \in [Frame -> Contenido], pc' \in [Programas -> Puntos],
         local' \in [Programas -> Local]
  PROVE  TiposM'
BY DEF TiposM

(* The step of p that takes it to b with the locals l. *)
LEMMA PasoCallado ==
  ASSUME InvarianteM, NEW p \in Programas,
         UNCHANGED <<mapeos, mapeosAbiertosCompartidos, segmentos, marcos, tablasDePaginas>>,
         contenidoFrames' = contenidoFrames \/ contenidoFrames' \in [Frame -> Contenido],
         NEW b \in Puntos \ {"unmap_pagina"}, Ir(p, b) \/ (pc' = pc /\ b = pc[p]),
         NEW l \in Local, Guardar(p, l) \/ (local' = local /\ l = local[p]),
         pc[p] # "unmap_pagina",
         \/ pc[p] \in EnMap \cup EnUnmap \/ b \notin EnMap \cup EnUnmap
         \/ Turno(p),
         \/ /\ g_mutexPaginas' = g_mutexPaginas
            /\ pc[p] \in {"get", "copy"} <=> b \in {"get", "copy"}
         \/ pc[p] \in {"get", "copy"} /\ b \notin {"get", "copy"} /\ g_mutexPaginas' = Nada
         \/ g_mutexPaginas = Nada /\ b \in {"get", "copy"} /\ g_mutexPaginas' = p
         \/ g_mutexPaginas = Nada /\ b \notin {"get", "copy"} /\ g_mutexPaginas' = Nada,
         pc'[p] = b /\ local'[p] = l => InvDe(p)'
  PROVE  InvarianteM' /\ (InvNombres => InvNombres')
<1>1. TiposM
  BY DEF InvarianteM
<1>2. /\ pc'[p] = b /\ local'[p] = l
      /\ \A q \in Programas \ {p} : pc'[q] = pc[q] /\ local'[q] = local[q]
      /\ pc' \in [Programas -> Puntos] /\ local' \in [Programas -> Local]
  <2>1. pc \in [Programas -> Puntos] /\ local \in [Programas -> Local]
    BY <1>1 DEF TiposM
  <2>2. pc'[p] = b /\ (\A q \in Programas \ {p} : pc'[q] = pc[q]) /\ pc' \in [Programas -> Puntos]
    BY <1>1, <2>1, VaDe
  <2>3. local'[p] = l /\ (\A q \in Programas \ {p} : local'[q] = local[q]) /\ local' \in [Programas -> Local]
    BY <1>1, <2>1, Guarda
  <2> QED BY <2>2, <2>3
<1>3. TiposM'
  <2>1. contenidoFrames' \in [Frame -> Contenido]
    BY <1>1 DEF TiposM
  <2> QED BY <1>1, <1>2, <2>1, TiposCallado
<1>4. MutexM'
  BY <1>2, MutexSi DEF InvarianteM
<1>5. Exclusion'
  BY <1>2, ExclusionSi DEF InvarianteM
<1>6. /\ InvMapeos' /\ InvCuentas' /\ InvLista' /\ InvMarcos'
      /\ InvNombres => InvNombres'
      /\ \A q \in Programas \ {p} : InvDe(q)'
  BY <1>2, Callado
<1>7. InvDe(p)'
  BY <1>2
<1> QED BY <1>3, <1>4, <1>5, <1>6, <1>7, Queda

-------------------------------------------------------------------------------
(* Steps that change neither mappings nor segments *)

LEMMA PasoProcesarMap ==
  ASSUME Coordinados, InvarianteM, NEW p \in Programas, procesarMap(p)
  PROVE  InvarianteM' /\ (InvNombres => InvNombres')
<1> DEFINE m == buscarMapeoAbierto(path[p])
           b == IF flags[p] = "MAP_PRIVATE" THEN "map_privado"
                ELSE IF m = Nada THEN "map_agregar" ELSE "map_sumar"
           l == [LocalInicial EXCEPT !.mapeo = m]
<1>1. /\ pc[p] = "nuevo" /\ Turno(p) /\ Guardar(p, l) /\ Ir(p, b)
      /\ UNCHANGED <<mapeos, mapeosAbiertosCompartidos, segmentos, marcos, tablasDePaginas,
                     contenidoFrames, g_mutexPaginas>>
  BY DEF procesarMap, tablas, frames
<1>2. TiposM /\ InvDe(p)
  BY DEF InvarianteM, InvDe
<1>3. \/ m = Nada /\ \A x \in Programas : EnLaLista(x) => path[x] # path[p]
      \/ m \in Programas /\ EnLaLista(m) /\ path[m] = path[p]
  <2>1. mapeosAbiertosCompartidos \in Seq(Programas)
    BY <1>2 DEF TiposM
  <2>2. \A i \in DOMAIN mapeosAbiertosCompartidos : mapeosAbiertosCompartidos[i] \in Programas
    BY <2>1, LenProperties, ElementOfSeq
  <2> QED BY <2>1, <2>2, PrimeroDe DEF EnLaLista
<1>4. l \in Local /\ l.mapeo = m
  BY <1>3, LocalesIniciales DEF Local, LocalInicial
<1>5. b \in {"map_privado", "map_agregar", "map_sumar"}
  OBVIOUS
<1>6. b \in Puntos /\ b \notin {"unmap_pagina"}
  BY <1>5 DEF Puntos, EnMap
<1>7. flags[p] = "MAP_PRIVATE" <=> b = "map_privado"
  OBVIOUS
<1>8. flags[p] \in {"MAP_SHARED", "MAP_PRIVATE"}
  BY Constantes
<1>9. /\ b = "map_agregar" => \A x \in Programas : EnLaLista(x) => path[x] # path[p]
      /\ b = "map_sumar" => m \in Programas /\ EnLaLista(m) /\ path[m] = path[p]
  BY <1>3, Constantes
<1> HIDE DEF m, b, l
<1>10. ASSUME pc'[p] = b, local'[p] = l PROVE InvDe(p)'
  <2>1. InvSegmento(p)'
    BY <1>1, <1>2, <1>5, <1>10 DEF InvDe, InvSegmento, EnMap, EnUnmap
  <2>2. InvLeido(p)'
    BY <1>1, <1>4, <1>5, <1>7, <1>8, <1>9, <1>10 DEF InvLeido, EnLaLista, Cerrando
  <2>3. InvPagina(p)' /\ InvSync(p)'
    BY <1>5, <1>10 DEF InvPagina, InvSync, Accediendo
  <2> QED BY <2>1, <2>2, <2>3 DEF InvDe
<1>11. b \in Puntos \ {"unmap_pagina"} /\ b \notin {"get", "copy"} /\ pc[p] \notin {"get", "copy", "unmap_pagina"}
  BY <1>1, <1>5, <1>6
<1> QED BY <1>1, <1>4, <1>10, <1>11, PasoCallado

LEMMA PasoMapSumar ==
  ASSUME InvarianteM, NEW p \in Programas, MapSumar(p)
  PROVE  InvarianteM' /\ (InvNombres => InvNombres')
<1> DEFINE m == local[p].mapeo
           l == [local[p] EXCEPT !.cant = mapeos[m].cantProcesosUsando]
<1>1. /\ pc[p] = "map_sumar" /\ Guardar(p, l) /\ Ir(p, "map_guardar")
      /\ UNCHANGED <<mapeos, mapeosAbiertosCompartidos, segmentos, marcos, tablasDePaginas,
                     contenidoFrames, g_mutexPaginas>>
  BY DEF MapSumar, tablas, frames
<1>2. TiposM /\ InvLista /\ InvDe(p) /\ local[p] \in Local
  BY DEF InvarianteM, InvDe, TiposM
<1>3. m \in Programas /\ EnLaLista(m) /\ path[m] = path[p] /\ flags[p] = "MAP_SHARED"
  BY <1>1, <1>2 DEF InvDe, InvLeido
<1>4. m \in Vivos
  BY <1>2, <1>3 DEF InvLista, EnLaLista
<1>5. mapeos[m].cantProcesosUsando \in Nat
  BY <1>2, <1>4 DEF Vivos, TiposM, t_mapAbierto
<1>6. l \in Local /\ l.mapeo = m /\ l.cant = mapeos[m].cantProcesosUsando
  BY <1>2, <1>5 DEF Local
<1> HIDE DEF l
<1>7. ASSUME pc'[p] = "map_guardar", local'[p] = l PROVE InvDe(p)'
  <2>1. InvSegmento(p)'
    BY <1>1, <1>2, <1>7 DEF InvDe, InvSegmento, EnMap, EnUnmap
  <2>2. InvLeido(p)'
    BY <1>1, <1>3, <1>6, <1>7 DEF InvLeido, EnLaLista, Cerrando
  <2>3. InvPagina(p)' /\ InvSync(p)'
    BY <1>7 DEF InvPagina, InvSync, Accediendo
  <2> QED BY <2>1, <2>2, <2>3 DEF InvDe
<1>8. "map_guardar" \in Puntos \ {"unmap_pagina"} /\ pc[p] \in EnMap /\ pc[p] # "unmap_pagina"
  BY <1>1 DEF Puntos, EnMap
<1>9. pc[p] \notin {"get", "copy"} /\ "map_guardar" \notin {"get", "copy"}
  BY <1>1
<1> QED BY <1>1, <1>6, <1>7, <1>8, <1>9, PasoCallado

LEMMA PasoAcceder ==
  ASSUME InvarianteM, NEW p \in Programas, NEW op \in {"get", "copy"},
         NEW dir \in Nat, NEW tam \in Nat \ {0}, NEW v \in Valores \cup {Nada},
         op = "copy" => v \in Valores, Acceder(p, op, dir, tam, v)
  PROVE  InvarianteM' /\ (InvNombres => InvNombres')
<1> DEFINE limite == segmentos[p].limiteLogico
           valida == dir < limite /\ dir + tam <= limite
           b == IF valida THEN op ELSE "fin"
           l == [LocalInicial EXCEPT !.dir = dir, !.tam = tam, !.dato = v, !.pagina = dir \div lengthPagina]
<1>1. /\ pc[p] = "libre" /\ g_mutexPaginas = Nada
      /\ g_mutexPaginas' = IF valida THEN p ELSE Nada
      /\ Guardar(p, l) /\ Ir(p, b)
      /\ UNCHANGED <<mapeos, mapeosAbiertosCompartidos, segmentos, marcos, tablasDePaginas,
                     contenidoFrames>>
  BY DEF Acceder, LibreElMutex, tablas, frames
<1>2. TiposM /\ InvDe(p)
  BY DEF InvarianteM, InvDe
<1>3. l \in Local /\ l.fase = "mirar" /\ l.dato = v
  BY LocalesIniciales, Division DEF Local, LocalInicial
<1>4. /\ b \in {"get", "copy", "fin"}
      /\ b = "copy" => v \in Valores
      /\ b \in {"get", "copy"} <=> valida
  OBVIOUS
<1> HIDE DEF l, b
<1>5. ASSUME pc'[p] = b, local'[p] = l PROVE InvDe(p)'
  <2>1. InvSegmento(p)'
    BY <1>1, <1>2, <1>4, <1>5 DEF InvDe, InvSegmento, EnMap, EnUnmap
  <2>2. InvLeido(p)' /\ InvSync(p)'
    BY <1>4, <1>5 DEF InvLeido, InvSync, Cerrando
  <2>3. InvPagina(p)'
    BY <1>3, <1>4, <1>5 DEF InvPagina, Accediendo
  <2> QED BY <2>1, <2>2, <2>3 DEF InvDe
<1>6. b \in Puntos \ {"unmap_pagina"} /\ b \notin EnMap \cup EnUnmap
  BY <1>4 DEF Puntos, EnMap, EnUnmap, EnReposo
<1>7. pc[p] # "unmap_pagina" /\ pc[p] \notin {"get", "copy"}
  BY <1>1
<1>8. \/ b \in {"get", "copy"} /\ g_mutexPaginas' = p
      \/ b \notin {"get", "copy"} /\ g_mutexPaginas' = Nada
  BY <1>1, <1>4
<1> HIDE DEF limite
<1> QED BY <1>1, <1>3, <1>5, <1>6, <1>7, <1>8, PasoCallado

LEMMA PasoProcesarSync ==
  ASSUME SyncSoloUsadas, InvarianteM, NEW p \in Programas, NEW n \in Descargas[p],
         procesarSync(p, n)
  PROVE  InvarianteM' /\ (InvNombres => InvNombres')
<1> DEFINE l == [LocalInicial EXCEPT !.tam = n]
<1>1. /\ pc[p] = "libre" /\ YaUsadas(p, n) /\ Guardar(p, l) /\ Ir(p, "sync")
      /\ UNCHANGED <<mapeos, mapeosAbiertosCompartidos, segmentos, marcos, tablasDePaginas,
                     contenidoFrames, g_mutexPaginas>>
  BY DEF procesarSync, tablas, frames
<1>2. TiposM /\ InvDe(p)
  BY DEF InvarianteM, InvDe
<1>3. n \in 1..Largo(p) /\ Largo(p) \in Nat /\ lengthPagina \in Nat
  <2>1. Descargas[p] \subseteq 1..Largo(p)
    <3>1. Descargas[p] \subseteq 1..(paginasDe[path[p]] * lengthPagina)
      BY MapasAssumption, Zenon
    <3> QED BY <3>1 DEF Largo
  <2>2. n \in 1..Largo(p)
    BY <2>1
  <2>3. Largo(p) \in Nat /\ lengthPagina \in Nat
    BY Constantes
  <2> QED BY <2>2, <2>3
<1>4. l \in Local /\ l.dir = 0 /\ l.tam = n /\ l.pagina = 0 /\ l.fase = "mirar" /\ l.leido = <<>>
  <2>1. n \in Nat
    BY <1>3
  <2>2. l \in Local
    BY <2>1, LocalesIniciales DEF Local, LocalInicial
  <2> QED BY <2>2 DEF LocalInicial
<1> HIDE DEF l
<1>5. ASSUME pc'[p] = "sync", local'[p] = l PROVE InvDe(p)'
  <2>1. InvSegmento(p)'
    BY <1>1, <1>2, <1>5 DEF InvDe, InvSegmento, EnMap, EnUnmap
  <2>2. InvLeido(p)'
    BY <1>5 DEF InvLeido, Cerrando
  <2>3. InvPagina(p)'
    BY <1>4, <1>5 DEF InvPagina, Accediendo
  <2>4. UltimaPagina(p)' \in Nat
    <3>1. UltimaPagina(p)' = (n - 1) \div lengthPagina
      BY <1>3, <1>4, <1>5 DEF UltimaPagina
    <3>2. n - 1 \in Nat
      BY <1>3
    <3> QED BY <3>1, <3>2, Division
  <2>5. InvSync(p)'
    <3>1. YaUsadas(p, n)'
      BY <1>1 DEF YaUsadas
    <3>2. Len(l.leido) = 0
      BY <1>4, EmptySeq
    <3>3. l.pagina * lengthPagina = 0 /\ l.pagina <= UltimaPagina(p)'
      BY <1>3, <1>4, <2>4
    <3> QED BY <1>3, <1>4, <1>5, <3>1, <3>2, <3>3 DEF InvSync, Largo
  <2> QED BY <2>1, <2>2, <2>3, <2>5 DEF InvDe
<1>6. "sync" \in Puntos \ {"unmap_pagina"} /\ "sync" \notin EnMap \cup EnUnmap
  BY DEF Puntos, EnMap, EnUnmap, EnReposo
<1>7. pc[p] # "unmap_pagina" /\ pc[p] \notin {"get", "copy"} /\ "sync" \notin {"get", "copy"}
  BY <1>1
<1> QED BY <1>1, <1>4, <1>5, <1>6, <1>7, PasoCallado

LEMMA PaginaDeSync ==
  ASSUME InvarianteM, NEW p \in Programas, pc[p] = "sync"
  PROVE  /\ UltimaPagina(p) \in Nat /\ UltimaPagina(p) = (local[p].tam - 1) \div lengthPagina
         /\ local[p].pagina \in Nat /\ local[p].tam \in Nat \ {0}
         /\ local[p].pagina <= UltimaPagina(p) => HayPagina(p) /\ Pagina(p).flagPresencia
<1> DEFINE t == local[p].tam
           u == (t - 1) \div lengthPagina
<1>1. TiposM /\ InvMapeos /\ InvSync(p) /\ InvSegmento(p)
  BY DEF InvarianteM
<1>2. local[p].dir = 0 /\ t \in 1..Largo(p) /\ YaUsadas(p, t)
  BY <1>1 DEF InvSync
<1>3. paginasDe[path[p]] \in Nat /\ Largo(p) \in Nat /\ lengthPagina \in Nat
  BY Constantes
<1>4. t \in Nat \ {0} /\ t - 1 \in Nat /\ t - 1 < Largo(p)
  BY <1>2, <1>3
<1>5. local[p].pagina \in Nat
  BY <1>1 DEF TiposM, Local
<1>6. UltimaPagina(p) = u
  BY <1>2, <1>4 DEF UltimaPagina
<1>7. u \in Nat
  BY <1>4, Division
<1>8. u < paginasDe[path[p]]
  BY <1>3, <1>4, DivisionMenor DEF Largo
<1>9. segmentos[p] # Nada
  BY <1>1 DEF InvSegmento
<1>10. Len(Mapeo(p).tablaPaginas) = paginasDe[path[p]]
  BY <1>1, <1>9, DeSegmento DEF Mapeo
<1>11. ASSUME local[p].pagina <= u PROVE HayPagina(p) /\ Pagina(p).flagPresencia
  <2>1. local[p].pagina \in 0..u
    BY <1>5, <1>7, <1>11
  <2>2. Pagina(p).flagPresencia
    BY <1>2, <2>1 DEF YaUsadas, Pagina, Mapeo
  <2>3. local[p].pagina < paginasDe[path[p]]
    BY <1>3, <1>5, <1>7, <1>8, <1>11
  <2> QED BY <1>10, <2>2, <2>3 DEF HayPagina
<1> HIDE DEF t, u
<1> QED BY <1>4, <1>5, <1>6, <1>7, <1>11 DEF t, u

LEMMA ConSegmento ==
  ASSUME InvarianteM, NEW p \in Programas, pc[p] \in {"libre", "get", "copy", "sync"} \cup EnUnmap
  PROVE  segmentos[p] # Nada
BY DEF InvarianteM, InvSegmento

LEMMA PasoMirarPresencia ==
  ASSUME InvarianteM, NEW p \in Programas, MirarPresencia(p)
  PROVE  InvarianteM' /\ (InvNombres => InvNombres')
<1> DEFINE f == IF Pagina(p).flagPresencia THEN "usar" ELSE "traer"
           l == [local[p] EXCEPT !.fase = f]
<1>1. /\ pc[p] \in {"get", "copy", "sync"} /\ local[p].pagina <= UltimaPagina(p) /\ HayPagina(p)
      /\ Guardar(p, l) /\ pc' = pc
      /\ UNCHANGED <<mapeos, mapeosAbiertosCompartidos, segmentos, marcos, tablasDePaginas,
                     contenidoFrames, g_mutexPaginas>>
  BY DEF MirarPresencia, Accediendo, Fase, tablas, frames
<1>2. TiposM /\ InvMapeos /\ InvDe(p) /\ local[p] \in Local
  BY DEF InvarianteM, InvDe, TiposM
<1>3. /\ l \in Local /\ l.fase = f /\ l.pagina = local[p].pagina /\ l.dato = local[p].dato
      /\ l.dir = local[p].dir /\ l.tam = local[p].tam /\ l.leido = local[p].leido
  <2>1. f \in {"mirar", "traer", "usar"}
    OBVIOUS
  <2> HIDE DEF f
  <2>2. l \in Local /\ l.fase = f
    BY <1>2, <2>1 DEF Local
  <2> QED BY <1>2, <2>2 DEF Local
<1>4. segmentos[p] # Nada
  BY <1>1, ConSegmento
<1>5. Pagina(p).flagPresencia \in BOOLEAN
  BY <1>1, <1>2, <1>4, DePagina
<1>6. pc[p] = "sync" => Pagina(p).flagPresencia
  BY <1>1, PaginaDeSync
<1>7. \/ f = "usar" /\ Pagina(p).flagPresencia
      \/ f = "traer" /\ ~ Pagina(p).flagPresencia
  OBVIOUS
<1> HIDE DEF f, l
<1>8. ASSUME pc'[p] = pc[p], local'[p] = l PROVE InvDe(p)'
  <2>1. InvSegmento(p)'
    BY <1>1, <1>2, <1>8 DEF InvDe, InvSegmento, EnMap, EnUnmap
  <2>2. InvLeido(p)'
    BY <1>1, <1>8 DEF InvLeido, Cerrando
  <2>4. UltimaPagina(p)' = UltimaPagina(p)
    BY <1>8, <1>3 DEF UltimaPagina
  <2>5. HayPagina(p)' /\ Pagina(p)' = Pagina(p)
    BY <1>1, <1>8, <1>3 DEF HayPagina, Pagina, Mapeo
  <2>6. InvPagina(p)'
    BY <1>1, <1>2, <1>3, <1>6, <1>7, <1>8, <2>5 DEF InvDe, InvPagina, Accediendo
  <2>7. YaUsadas(p, local[p].tam)' <=> YaUsadas(p, local[p].tam)
    BY SMTT(30), <1>1, <1>8, <1>3 DEF YaUsadas
  <2>8. InvSync(p)'
    BY <1>1, <1>2, <1>3, <1>8, <2>4, <2>7 DEF InvDe, InvSync, YaUsadas
  <2> QED BY <2>1, <2>2, <2>6, <2>8 DEF InvDe
<1>9. pc[p] \in Puntos \ {"unmap_pagina"} /\ pc[p] \notin EnMap \cup EnUnmap
  BY <1>1 DEF Puntos, EnMap, EnUnmap
<1> QED BY <1>1, <1>3, <1>8, <1>9, PasoCallado

(* The three steps with which a request ends. *)
LEMMA PasoTermina ==
  ASSUME InvarianteM, NEW p \in Programas, PaginaQueNoHay(p) \/ enviarRespuesta(p)
  PROVE  InvarianteM' /\ (InvNombres => InvNombres')
<1>1. PICK b \in {"fin", "libre"} :
        /\ pc[p] \in {"get", "copy", "sync"} /\ g_mutexPaginas' = Nada
        /\ pc[p] = "sync" => PaginaQueNoHay(p)
        /\ Guardar(p, LocalInicial) /\ Ir(p, b)
        /\ UNCHANGED <<mapeos, mapeosAbiertosCompartidos, segmentos, marcos, tablasDePaginas,
                       contenidoFrames>>
  BY DEF PaginaQueNoHay, enviarRespuesta, Accediendo, tablas, frames
<1>2. TiposM /\ InvDe(p)
  BY DEF InvarianteM, InvDe
<1>3. pc[p] # "sync"
  BY <1>1, PaginaDeSync DEF PaginaQueNoHay
<1>4. ASSUME pc'[p] = b, local'[p] = LocalInicial PROVE InvDe(p)'
  <2>1. InvSegmento(p)'
    BY <1>1, <1>2, <1>4 DEF InvDe, InvSegmento, EnMap, EnUnmap, LocalInicial
  <2>2. InvLeido(p)' /\ InvPagina(p)' /\ InvSync(p)'
    BY <1>1, <1>4 DEF InvLeido, InvPagina, InvSync, Accediendo, Cerrando
  <2> QED BY <2>1, <2>2 DEF InvDe
<1>5. b \in Puntos \ {"unmap_pagina"} /\ b \notin EnMap \cup EnUnmap
  BY <1>1 DEF Puntos, EnMap, EnUnmap, EnReposo
<1>6. pc[p] \in {"get", "copy"} /\ b \notin {"get", "copy"} /\ pc[p] # "unmap_pagina"
  BY <1>1, <1>3
<1> QED BY <1>1, <1>4, <1>5, <1>6, LocalesIniciales, PasoCallado

LEMMA PasoProcesarUnMap ==
  ASSUME Coordinados, InvarianteM, NEW p \in Programas, procesarUnMap(p)
  PROVE  InvarianteM' /\ (InvNombres => InvNombres')
<1> DEFINE m == segmentos[p].mapeo
           b == IF EsElUltimo(m) THEN "unmap_borrar" ELSE "unmap_restar"
<1>1. /\ pc[p] = "libre" /\ Turno(p) /\ Ir(p, b) /\ local' = local
      /\ UNCHANGED <<mapeos, mapeosAbiertosCompartidos, segmentos, marcos, tablasDePaginas,
                     contenidoFrames, g_mutexPaginas>>
  BY DEF procesarUnMap, tablas, frames
<1>2. TiposM /\ InvMapeos /\ InvCuentas /\ InvDe(p) /\ local[p] \in Local
  BY DEF InvarianteM, InvDe, TiposM
<1>3. segmentos[p] # Nada
  BY <1>1, ConSegmento
<1>4. m \in Vivos /\ p \in Usuarios(m)
  BY <1>2, <1>3, DeSegmento
<1>5. EsElUltimo(m) => Usuarios(m) = {p}
  BY <1>2, <1>4, UnSoloUsuario DEF InvCuentas, EsElUltimo
<1>6. \/ b = "unmap_borrar" /\ Usuarios(m) = {p}
      \/ b = "unmap_restar" /\ mapeos[m].cantProcesosUsando # 1
  BY <1>5 DEF EsElUltimo
<1> HIDE DEF b
<1>7. ASSUME pc'[p] = b, local'[p] = local[p] PROVE InvDe(p)'
  <2>1. InvSegmento(p)'
    BY <1>1, <1>2, <1>3, <1>6, <1>7 DEF InvDe, InvSegmento, EnMap, EnUnmap
  <2>2. InvLeido(p)'
    <3>1. Usuarios(m)' = Usuarios(m)
      BY <1>1 DEF Usuarios
    <3> QED BY <1>1, <1>6, <1>7, <3>1 DEF InvLeido, Cerrando, Mapeo
  <2>3. InvPagina(p)' /\ InvSync(p)'
    BY <1>6, <1>7 DEF InvPagina, InvSync, Accediendo
  <2> QED BY <2>1, <2>2, <2>3 DEF InvDe
<1>8. b \in Puntos \ {"unmap_pagina"} /\ b \notin {"get", "copy"} /\ pc[p] \notin {"get", "copy", "unmap_pagina"}
  BY <1>1, <1>6 DEF Puntos, EnUnmap
<1> QED BY <1>1, <1>2, <1>7, <1>8, PasoCallado

LEMMA PasoUnmapRestar ==
  ASSUME InvarianteM, NEW p \in Programas, UnmapRestar(p)
  PROVE  InvarianteM' /\ (InvNombres => InvNombres')
<1> DEFINE c == Mapeo(p).cantProcesosUsando
           l == [local[p] EXCEPT !.cant = c]
<1>1. /\ pc[p] = "unmap_restar" /\ Ir(p, "unmap_guardar") /\ Guardar(p, l)
      /\ UNCHANGED <<mapeos, mapeosAbiertosCompartidos, segmentos, marcos, tablasDePaginas,
                     contenidoFrames, g_mutexPaginas>>
  BY DEF UnmapRestar, tablas, frames
<1>2. TiposM /\ InvMapeos /\ InvDe(p) /\ local[p] \in Local
  BY DEF InvarianteM, InvDe, TiposM
<1>3. segmentos[p] # Nada
  BY <1>1, ConSegmento DEF EnUnmap
<1>4. c \in Nat
  BY <1>2, <1>3, DeSegmento DEF Mapeo, t_mapAbierto
<1>5. l \in Local /\ l.cant = c
  BY <1>2, <1>4 DEF Local
<1> HIDE DEF l
<1>6. ASSUME pc'[p] = "unmap_guardar", local'[p] = l PROVE InvDe(p)'
  <2>1. InvSegmento(p)'
    BY <1>1, <1>3, <1>6 DEF InvSegmento, EnMap, EnUnmap
  <2>2. Mapeo(p)' = Mapeo(p)
    BY <1>1 DEF Mapeo
  <2>3. InvLeido(p)'
    BY <1>1, <1>2, <1>5, <1>6, <2>2 DEF InvDe, InvLeido, Cerrando
  <2>4. InvPagina(p)' /\ InvSync(p)'
    BY <1>6 DEF InvPagina, InvSync, Accediendo
  <2> QED BY <2>1, <2>3, <2>4 DEF InvDe
<1>7. "unmap_guardar" \in Puntos \ {"unmap_pagina"} /\ pc[p] \in EnUnmap /\ pc[p] # "unmap_pagina"
  BY <1>1 DEF Puntos, EnUnmap
<1>8. pc[p] \notin {"get", "copy"} /\ "unmap_guardar" \notin {"get", "copy"}
  BY <1>1
<1> QED BY <1>1, <1>5, <1>6, <1>7, <1>8, PasoCallado

LEMMA PasoDesconectar ==
  ASSUME InvarianteM, NEW p \in Programas, Desconectar(p)
  PROVE  InvarianteM' /\ (InvNombres => InvNombres')
<1>1. /\ pc[p] = "libre" /\ Ir(p, "fin") /\ local' = local
      /\ UNCHANGED <<mapeos, mapeosAbiertosCompartidos, segmentos, marcos, tablasDePaginas,
                     contenidoFrames, g_mutexPaginas>>
  BY DEF Desconectar, tablas, frames
<1>2. local[p] \in Local
  BY DEF InvarianteM, TiposM
<1>3. ASSUME pc'[p] = "fin", local'[p] = local[p] PROVE InvDe(p)'
  BY <1>3 DEF InvDe, InvSegmento, InvLeido, InvPagina, InvSync, Accediendo, Cerrando, EnMap, EnUnmap
<1>4. "fin" \in Puntos \ {"unmap_pagina"} /\ "fin" \notin EnMap \cup EnUnmap
  BY DEF Puntos, EnMap, EnUnmap, EnReposo
<1>5. pc[p] \notin {"get", "copy", "unmap_pagina"} /\ "fin" \notin {"get", "copy"}
  BY SMTT(30), <1>1
<1> QED BY <1>1, <1>2, <1>3, <1>4, <1>5, PasoCallado

(* A page that is in use is in a frame, which nobody is giving back. *)
LEMMA PaginaPresente ==
  ASSUME InvarianteM, NEW p \in Programas, pc[p] \in {"get", "copy", "sync"},
         HayPagina(p), Pagina(p).flagPresencia
  PROVE  local[p].pagina + 1 \in Presentes(segmentos[p].mapeo) /\ Pagina(p).nroFrame \in marcos
<1> DEFINE m == segmentos[p].mapeo
           i == local[p].pagina + 1
<1>1. TiposM /\ InvMapeos /\ InvMarcos /\ segmentos[p] # Nada
  BY ConSegmento DEF InvarianteM
<1>2. m \in Vivos /\ p \in Usuarios(m) /\ DOMAIN mapeos[m].tablaPaginas = 1..paginasDe[path[p]]
  BY <1>1, DeSegmento
<1>3. i \in 1..paginasDe[path[p]]
  BY <1>1, DePagina
<1>4. ASSUME NEW q \in Usuarios(m) PROVE pc[q] # "unmap_pagina"
  <2>1. q \in Programas /\ segmentos[q].mapeo = m
    BY DEF Usuarios
  <2>2. pc[q] = "unmap_pagina" => Usuarios(m) = {q}
    BY SMTT(30), <2>1 DEF InvarianteM, InvLeido, Cerrando
  <2> QED BY <1>2, <2>2
<1>5. i \in Presentes(m)
  BY SMTT(30), <1>2, <1>3, <1>4 DEF Presentes, Pagina, Mapeo
<1>6. mapeos[m].tablaPaginas[i].nroFrame \in marcos
  BY <1>1, <1>2, <1>5 DEF InvMarcos
<1> QED BY <1>5, <1>6 DEF Pagina, Mapeo

(* The bytes of page n, of those from 0 to t - 1. *)
LEMMA BytesDePagina ==
  ASSUME NEW n \in Nat, NEW t \in Nat \ {0}, n <= (t - 1) \div lengthPagina
  PROVE  LET c == Cardinality({k \in 0..(lengthPagina - 1) : n * lengthPagina + k \in 0..(0 + t - 1)})
         IN  n * lengthPagina + c = IF n + 1 <= (t - 1) \div lengthPagina
                                    THEN (n + 1) * lengthPagina ELSE t
<1> DEFINE x == n * lengthPagina
           u == (t - 1) \div lengthPagina
           S == {k \in 0..(lengthPagina - 1) : x + k \in 0..(0 + t - 1)}
<1>1. lengthPagina \in Nat \ {0} /\ t - 1 \in Nat
  BY Constantes
<1>2. x \in Nat /\ (n + 1) * lengthPagina = x + lengthPagina
  BY <1>1
<1>3. u \in Nat
  BY <1>1, Division
<1>4. u < n + 1 <=> t - 1 < x + lengthPagina
  BY <1>1, <1>2, DivisionMenor
<1>5. ~ (t - 1 < x)
  <2>1. ~ (u < n)
    BY <1>3
  <2> QED BY <1>1, <2>1, DivisionMenor
<1> HIDE DEF x, u
<1>6. n + 1 <= u => x + Cardinality(S) = (n + 1) * lengthPagina
  <2> HAVE n + 1 <= u
  <2>1. S = 0..(lengthPagina - 1)
    BY <1>1, <1>2, <1>3, <1>4
  <2>2. Cardinality(S) = lengthPagina
    <3>1. 0 \in Int /\ lengthPagina - 1 \in Int /\ ~ (0 > lengthPagina - 1)
      BY <1>1
    <3>2. Cardinality(0..(lengthPagina - 1)) = lengthPagina - 1 - 0 + 1
      BY <3>1, FS_Interval
    <3>3. Cardinality(S) = lengthPagina - 1 - 0 + 1
      BY <2>1, <3>2
    <3> HIDE DEF S
    <3> QED BY <1>1, <3>3
  <2> HIDE DEF S
  <2>3. x + Cardinality(S) = (n + 1) * lengthPagina
    BY <1>2, <2>2
  <2> QED BY <2>3
<1>7. ~ (n + 1 <= u) => x + Cardinality(S) = t
  <2> HAVE ~ (n + 1 <= u)
  <2>1. t - 1 < x + lengthPagina
    BY <1>3, <1>4
  <2>2. S = 0..(t - 1 - x)
    BY <1>1, <1>2, <1>5, <2>1
  <2>3. Cardinality(S) = t - x
    <3>1. 0 \in Int /\ t - 1 - x \in Int /\ ~ (0 > t - 1 - x)
      BY <1>1, <1>2, <1>5
    <3>2. Cardinality(0..(t - 1 - x)) = t - 1 - x - 0 + 1
      BY <3>1, FS_Interval
    <3>3. Cardinality(S) = t - 1 - x - 0 + 1
      BY <2>2, <3>2
    <3> HIDE DEF S
    <3> QED BY <1>1, <1>2, <3>3
  <2> HIDE DEF S
  <2>4. x + Cardinality(S) = t
    BY <1>2, <2>3
  <2> QED BY <2>4
<1> HIDE DEF S
<1>8. x + Cardinality(S) = IF n + 1 <= u THEN (n + 1) * lengthPagina ELSE t
  BY <1>6, <1>7
<1> QED BY <1>8 DEF S, x, u

LEMMA PasoUsarPagina ==
  ASSUME InvarianteM, NEW p \in Programas, UsarPagina(p)
  PROVE  InvarianteM' /\ (InvNombres => InvNombres')
<1> DEFINE n == local[p].pagina
           dir == local[p].dir
           f == Pagina(p).nroFrame
           Pedida(k) == n * lengthPagina + k \in dir..(dir + local[p].tam - 1)
           escrito == [k \in 0..(lengthPagina - 1) |->
                         IF Pedida(k) THEN Dato(local[p].dato, n * lengthPagina + k - dir)
                         ELSE contenidoFrames[f][k]]
           c == Cardinality({k \in 0..(lengthPagina - 1) : Pedida(k)})
           leido == [i \in 1..c |-> contenidoFrames[f][(dir + Len(local[p].leido) + i - 1) % lengthPagina]]
           todo == IF pc[p] = "copy" THEN local[p].leido ELSE local[p].leido \o leido
           l == [local[p] EXCEPT !.pagina = n + 1, !.fase = "mirar", !.leido = todo]
<1>1. /\ pc[p] \in {"get", "copy", "sync"} /\ local[p].fase = "usar"
      /\ contenidoFrames' = IF pc[p] = "copy" THEN [contenidoFrames EXCEPT ![f] = escrito]
                            ELSE contenidoFrames
      /\ Guardar(p, l) /\ pc' = pc
      /\ UNCHANGED <<mapeos, mapeosAbiertosCompartidos, segmentos, marcos, tablasDePaginas,
                     g_mutexPaginas>>
  BY SMTT(30) DEF UsarPagina, Accediendo, tablas
<1>2. TiposM /\ InvMapeos /\ InvDe(p) /\ local[p] \in Local
  BY DEF InvarianteM, InvDe, TiposM
<1>3. HayPagina(p) /\ Pagina(p).flagPresencia
  BY SMTT(30), <1>1, <1>2 DEF InvDe, InvPagina, Accediendo
<1>4. f \in Frame /\ contenidoFrames \in [Frame -> Contenido]
  BY <1>1, <1>2, <1>3, PaginaPresente DEF TiposM
<1>5. /\ n \in Nat /\ dir \in Nat /\ local[p].tam \in Nat /\ local[p].leido \in Seq(Byte)
      /\ lengthPagina \in Nat \ {0} /\ n * lengthPagina \in Nat
  <2>1. lengthPagina \in Nat \ {0}
    BY Constantes
  <2>2. n \in Nat /\ dir \in Nat /\ local[p].tam \in Nat /\ local[p].leido \in Seq(Byte)
    BY SMTT(30), <1>2 DEF Local
  <2> QED BY <2>1, <2>2
<1>6. contenidoFrames' \in [Frame -> Contenido]
  <2>1. CASE pc[p] = "copy"
    <3>1. local[p].dato \in Valores
      BY <1>2, <2>1 DEF InvDe, InvPagina
    <3>2. ASSUME NEW k \in 0..(lengthPagina - 1), Pedida(k)
          PROVE  Dato(local[p].dato, n * lengthPagina + k - dir) \in Byte
      <4>1. n * lengthPagina + k - dir \in Nat
        <5> DEFINE x == n * lengthPagina
                   t == local[p].tam
        <5>1. x \in Nat /\ k \in Nat /\ dir \in Nat /\ t \in Nat /\ x + k \in dir..(dir + t - 1)
          BY <1>5, <3>2
        <5> HIDE DEF x, dir, t
        <5>2. x + k - dir \in Nat
          BY <5>1
        <5> QED BY <5>2 DEF x
      <4> QED BY <3>1, <4>1 DEF Dato, Byte
    <3>3. \A k \in 0..(lengthPagina - 1) : contenidoFrames[f][k] \in Byte
      BY <1>4 DEF Contenido
    <3> HIDE DEF Pedida, f, n, dir
    <3>4. escrito \in Contenido
      BY <3>2, <3>3 DEF Contenido
    <3> HIDE DEF escrito
    <3> QED BY <1>1, <1>4, <2>1, <3>4
  <2> QED BY <1>1, <1>4, <2>1
<1>7. todo \in Seq(Byte) /\ (pc[p] # "copy" => Len(todo) = Len(local[p].leido) + c)
  <2>1. c \in Nat
    <3>1. {k \in 0..(lengthPagina - 1) : Pedida(k)} \in SUBSET (0..(lengthPagina - 1))
      OBVIOUS
    <3>2. IsFiniteSet(0..(lengthPagina - 1))
      BY <1>5, FS_Interval
    <3> HIDE DEF Pedida
    <3> QED BY <3>1, <3>2, FS_Subset, FS_CardinalityType
  <2> HIDE DEF c
  <2>2. Len(local[p].leido) \in Nat
    BY <1>5, LenProperties
  <2>3. ASSUME NEW i \in 1..c
        PROVE  contenidoFrames[f][(dir + Len(local[p].leido) + i - 1) % lengthPagina] \in Byte
    <3>1. dir + Len(local[p].leido) + i - 1 \in Nat
      BY SMTT(30), <1>5, <2>1, <2>2
    <3>2. (dir + Len(local[p].leido) + i - 1) % lengthPagina \in 0..(lengthPagina - 1)
      BY <3>1, Division
    <3>3. contenidoFrames[f] \in Contenido
      BY <1>4
    <3> QED BY <3>2, <3>3 DEF Contenido
  <2>4. leido \in [1..c -> Byte]
    BY <2>3
  <2> HIDE DEF leido
  <2>5. leido \in Seq(Byte) /\ Len(leido) = c
    BY <2>1, <2>4, EsSecuencia
  <2> QED BY <1>5, <2>5, ConcatProperties
<1> HIDE DEF todo, escrito, leido, f
<1>8. /\ l \in Local /\ l.fase = "mirar" /\ l.pagina = n + 1 /\ l.leido = todo
      /\ l.dir = dir /\ l.tam = local[p].tam /\ l.dato = local[p].dato
  <2>1. n + 1 \in Nat
    BY <1>5
  <2> QED BY <1>2, <1>7, <2>1 DEF Local
<1>9. ASSUME pc[p] = "sync"
      PROVE  Len(todo) = IF n + 1 <= UltimaPagina(p) THEN (n + 1) * lengthPagina ELSE local[p].tam
  <2>1. UltimaPagina(p) = (local[p].tam - 1) \div lengthPagina /\ local[p].tam \in Nat \ {0}
    BY <1>9, PaginaDeSync
  <2>2. dir = 0 /\ n <= UltimaPagina(p) /\ Len(local[p].leido) = n * lengthPagina
    BY <1>1, <1>2, <1>9 DEF InvDe, InvSync
  <2>3. c = Cardinality({k \in 0..(lengthPagina - 1) : n * lengthPagina + k \in 0..(0 + local[p].tam - 1)})
    BY <2>2
  <2> DEFINE t == local[p].tam
             d == Cardinality({k \in 0..(lengthPagina - 1) : n * lengthPagina + k \in 0..(0 + t - 1)})
  <2>4. n * lengthPagina + d = IF n + 1 <= (t - 1) \div lengthPagina THEN (n + 1) * lengthPagina ELSE t
    <3> HIDE DEF n, t
    <3>1. n \in Nat /\ t \in Nat \ {0} /\ n <= (t - 1) \div lengthPagina
      BY <1>5, <2>1, <2>2 DEF t
    <3> QED BY <3>1, BytesDePagina
  <2>5. Len(todo) = n * lengthPagina + d
    BY <1>7, <1>9, <2>2, <2>3
  <2> HIDE DEF d
  <2> QED BY <2>1, <2>4, <2>5
<1> HIDE DEF l, c
<1>10. ASSUME pc'[p] = pc[p], local'[p] = l PROVE InvDe(p)'
  <2>1. InvSegmento(p)'
    BY <1>1, <1>2, <1>10 DEF InvDe, InvSegmento, EnMap, EnUnmap
  <2>2. InvLeido(p)'
    BY <1>1, <1>10 DEF InvLeido, Cerrando
  <2>3. InvPagina(p)'
    BY <1>1, <1>2, <1>8, <1>10 DEF InvDe, InvPagina, Accediendo
  <2>4. UltimaPagina(p)' = UltimaPagina(p)
    BY <1>8, <1>10 DEF UltimaPagina
  <2>5. InvSync(p)'
    BY <1>1, <1>2, <1>8, <1>9, <1>10, <2>4 DEF InvDe, InvSync, YaUsadas
  <2> QED BY <2>1, <2>2, <2>3, <2>5 DEF InvDe
<1>11. pc[p] \in Puntos \ {"unmap_pagina"} /\ pc[p] \notin EnMap \cup EnUnmap
  BY <1>1 DEF Puntos, EnMap, EnUnmap
<1>12. l \in Local
  BY <1>8
<1>13. UNCHANGED <<mapeos, mapeosAbiertosCompartidos, segmentos, marcos, tablasDePaginas>>
       /\ Guardar(p, l) /\ pc' = pc /\ g_mutexPaginas' = g_mutexPaginas
  BY <1>1
<1> QED BY SMTT(30), <1>6, <1>10, <1>11, <1>12, <1>13, PasoCallado

-------------------------------------------------------------------------------
(* Steps of a map or of an unmap *)

(* A mapping that is new, or a record of it that changes. *)
LEMMA MapeoNuevo ==
  ASSUME TiposM, NEW m \in Programas, NEW r \in t_mapAbierto(m), mapeos' = [mapeos EXCEPT ![m] = r]
  PROVE  /\ mapeos'[m] = r /\ r # Nada /\ \A n \in Programas \ {m} : mapeos'[n] = mapeos[n]
         /\ mapeos' \in [Programas -> (UNION {t_mapAbierto(p) : p \in Programas}) \cup {Nada}]
         /\ \A p \in Programas : mapeos'[p] # Nada => mapeos'[p] \in t_mapAbierto(p)
<1> DEFINE T == (UNION {t_mapAbierto(p) : p \in Programas}) \cup {Nada}
<1>1. r # Nada
  BY Constantes
<1>2. mapeos \in [Programas -> T]
  BY DEF TiposM
<1>3. r \in T
  OBVIOUS
<1> HIDE DEF T
<1>4. /\ mapeos'[m] = r /\ \A n \in Programas \ {m} : mapeos'[n] = mapeos[n]
      /\ mapeos' \in [Programas -> T]
  BY <1>2, <1>3
<1>5. \A p \in Programas : mapeos'[p] # Nada => mapeos'[p] \in t_mapAbierto(p)
  BY <1>4 DEF TiposM
<1> QED BY <1>1, <1>4, <1>5 DEF T

(* The users of a mapping when the segment of p becomes s. *)
LEMMA UsuariosCon ==
  ASSUME TiposM, NEW p \in Programas, NEW s, segmentos' = [segmentos EXCEPT ![p] = s]
  PROVE  /\ segmentos'[p] = s /\ \A q \in Programas \ {p} : segmentos'[q] = segmentos[q]
         /\ \A n : Usuarios(n)' = IF s # Nada /\ s.mapeo = n THEN Usuarios(n) \cup {p}
                                  ELSE Usuarios(n) \ {p}
<1>1. segmentos'[p] = s /\ \A q \in Programas \ {p} : segmentos'[q] = segmentos[q]
  BY DEF TiposM
<1> QED BY <1>1 DEF Usuarios

LEMMA PresentesIguales ==
  ASSUME NEW m, mapeos'[m].tablaPaginas = mapeos[m].tablaPaginas,
         \A q \in Programas : /\ pc'[q] = "unmap_pagina" /\ q \in Usuarios(m)' <=>
                                   pc[q] = "unmap_pagina" /\ q \in Usuarios(m)
                              /\ pc[q] = "unmap_pagina" => local'[q] = local[q]
  PROVE  Presentes(m)' = Presentes(m)
<1>1. \A q \in Usuarios(m) \cup Usuarios(m)' : q \in Programas
  BY SMTT(30) DEF Usuarios
<1> QED BY <1>1 DEF Presentes

(* The frames in use, when no page comes or goes. *)
LEMMA MarcosSi ==
  ASSUME InvMarcos, UNCHANGED <<marcos, tablasDePaginas>>,
         \A m \in Vivos' : \/ Presentes(m)' = {}
                           \/ /\ m \in Vivos /\ Presentes(m)' = Presentes(m)
                              /\ mapeos'[m].tablaPaginas = mapeos[m].tablaPaginas,
         \A m \in Vivos : \/ Presentes(m) = {}
                          \/ /\ m \in Vivos' /\ Presentes(m)' = Presentes(m)
                             /\ mapeos'[m].tablaPaginas = mapeos[m].tablaPaginas
  PROVE  InvMarcos'
<1> DEFINE F(m, i) == mapeos[m].tablaPaginas[i].nroFrame
<1>1. \A m \in Vivos' : \A i \in Presentes(m)' :
        m \in Vivos /\ i \in Presentes(m) /\ mapeos'[m].tablaPaginas[i].nroFrame = F(m, i)
  OBVIOUS
<1>2. \A m \in Vivos : \A i \in Presentes(m) :
        m \in Vivos' /\ i \in Presentes(m)' /\ mapeos'[m].tablaPaginas[i].nroFrame = F(m, i)
  BY SMTT(30)
<1>3. \A m \in Vivos' : \A i \in Presentes(m)' :
        LET f == mapeos'[m].tablaPaginas[i].nroFrame IN
        /\ f \in marcos' /\ tablasDePaginas'[f] \in Programas \X Nat
        /\ tablasDePaginas'[f][2] = i - 1 /\ path[tablasDePaginas'[f][1]] = path[m]
  BY SMTT(30), <1>1 DEF InvMarcos
<1>4. ASSUME NEW m \in Vivos', NEW n \in Vivos', NEW i \in Presentes(m)', NEW j \in Presentes(n)',
             mapeos'[m].tablaPaginas[i].nroFrame = mapeos'[n].tablaPaginas[j].nroFrame
      PROVE  m = n /\ i = j
  <2>1. m \in Vivos /\ n \in Vivos /\ i \in Presentes(m) /\ j \in Presentes(n) /\ F(m, i) = F(n, j)
    BY <1>1, <1>4
  <2> QED BY <2>1 DEF InvMarcos
<1>5. ASSUME NEW f \in marcos'
      PROVE  \E m \in Vivos' : \E i \in Presentes(m)' : mapeos'[m].tablaPaginas[i].nroFrame = f
  <2>1. PICK m \in Vivos : \E i \in Presentes(m) : F(m, i) = f
    BY DEF InvMarcos
  <2> QED BY SMTT(30), <1>2, <2>1
<1>6. \A f \in Frame \ marcos' : tablasDePaginas'[f] = Nada
  BY DEF InvMarcos
<1> QED BY <1>3, <1>4, <1>5, <1>6 DEF InvMarcos

(* What the step of p that changes its mapping or its segment leaves to the   *)
(* others.                                                                   *)
LEMMA Ajenos ==
  ASSUME InvarianteM, NEW p \in Programas,
         \A q \in Programas \ {p} : Otro(p, q),
         \A q \in Programas \ {p} : mapeos[q] = Nada => mapeos'[q] = Nada,
         \A m \in Programas : mapeos[m] # Nada => mapeos'[m].tablaPaginas = mapeos[m].tablaPaginas,
         \/ pc[p] \in EnMap \cup EnUnmap
         \/ /\ segmentos' = segmentos /\ mapeosAbiertosCompartidos' = mapeosAbiertosCompartidos
            /\ \A m \in Programas :
                 mapeos[m] # Nada => mapeos'[m].cantProcesosUsando = mapeos[m].cantProcesosUsando
  PROVE  \A q \in Programas \ {p} : InvDe(q)'
<1> TAKE q \in Programas \ {p}
<1>1. pc'[q] = pc[q] /\ local'[q] = local[q] /\ segmentos'[q] = segmentos[q]
  BY DEF Otro
<1>2. TiposM /\ InvMapeos /\ InvDe(q) /\ InvLista
  BY DEF InvarianteM, InvDe
<1>3. InvSegmento(q)'
  BY <1>1, <1>2 DEF InvDe, InvSegmento
<1>4. ASSUME segmentos[q] # Nada
      PROVE  mapeos'[segmentos'[q].mapeo].tablaPaginas = mapeos[segmentos[q].mapeo].tablaPaginas
  BY <1>1, <1>2, <1>4, DeSegmento
<1>5. pc[q] \in {"get", "copy", "sync"} => segmentos[q] # Nada
  BY SMTT(30), ConSegmento
<1>6. InvPagina(q)'
  BY <1>1, <1>2, <1>4, <1>5 DEF InvDe, InvPagina, Accediendo, HayPagina, Pagina, Mapeo
<1>7. InvSync(q)'
  BY <1>1, <1>2, <1>4, <1>5 DEF InvDe, InvSync, YaUsadas, UltimaPagina
<1>8. CASE pc[p] \in EnMap \cup EnUnmap
  <2>1. pc[q] \notin EnMap \cup EnUnmap
    BY <1>8 DEF InvarianteM, Exclusion
  <2>2. InvLeido(q)'
    BY <1>1, <2>1 DEF InvLeido, EnMap, EnUnmap, Cerrando
  <2> QED BY <1>3, <1>6, <1>7, <2>2 DEF InvDe
<1>9. CASE /\ segmentos' = segmentos /\ mapeosAbiertosCompartidos' = mapeosAbiertosCompartidos
           /\ \A m \in Programas :
                mapeos[m] # Nada => mapeos'[m].cantProcesosUsando = mapeos[m].cantProcesosUsando
  <2>1. \A m : Usuarios(m)' = Usuarios(m) /\ (EnLaLista(m)' <=> EnLaLista(m))
    BY <1>9 DEF Usuarios, EnLaLista
  <2>2. pc[q] \in EnUnmap =>
          mapeos'[segmentos'[q].mapeo].cantProcesosUsando = mapeos[segmentos[q].mapeo].cantProcesosUsando
    BY <1>1, <1>2, <1>9, DeSegmento, ConSegmento
  <2>3. pc[q] = "map_guardar" =>
          mapeos'[local'[q].mapeo].cantProcesosUsando = mapeos[local[q].mapeo].cantProcesosUsando
    BY <1>1, <1>2, <1>9 DEF InvDe, InvLeido, InvLista, EnLaLista, Vivos
  <2>4. InvLeido(q)'
    BY <1>1, <1>2, <1>9, <2>1, <2>2, <2>3 DEF InvDe, InvLeido, EnUnmap, Cerrando, Mapeo
  <2> QED BY <1>3, <1>6, <1>7, <2>4 DEF InvDe
<1> QED BY <1>8, <1>9

(* Such a step of p, which is not in a get or in a copy. *)
LEMMA PasoPropio ==
  ASSUME InvarianteM, NEW p \in Programas,
         TiposM', InvMapeos', InvCuentas', InvLista', InvMarcos', InvDe(p)',
         \A q \in Programas \ {p} : Otro(p, q) /\ InvDe(q)',
         pc[p] \in EnMap \cup EnUnmap \/ pc'[p] \notin EnMap \cup EnUnmap,
         g_mutexPaginas' = g_mutexPaginas, pc[p] \in {"get", "copy"} <=> pc'[p] \in {"get", "copy"}
  PROVE  InvarianteM'
<1>1. \A q \in Programas \ {p} : pc'[q] = pc[q] /\ InvDe(q)'
  BY DEF Otro
<1>2. MutexM'
  BY <1>1, MutexSi DEF InvarianteM
<1>3. Exclusion'
  BY <1>1, ExclusionSi DEF InvarianteM
<1> QED BY <1>1, <1>2, <1>3, Queda

LEMMA PasoMapGuardar ==
  ASSUME InvarianteM, NEW p \in Programas, MapGuardar(p)
  PROVE  InvarianteM' /\ (InvNombres => InvNombres')
<1> DEFINE m == local[p].mapeo
           c == local[p].cant
           r == [mapeos[m] EXCEPT !.cantProcesosUsando = c + 1]
           s == Segmento(m, TRUE, Largo(p))
<1>1. /\ pc[p] = "map_guardar" /\ mapeos' = [mapeos EXCEPT ![m] = r]
      /\ segmentos' = [segmentos EXCEPT ![p] = s]
      /\ Guardar(p, LocalInicial) /\ Ir(p, "libre")
      /\ UNCHANGED <<mapeosAbiertosCompartidos, marcos, tablasDePaginas, contenidoFrames, g_mutexPaginas>>
  BY DEF MapGuardar, Mapeado, frames
<1>2. TiposM /\ InvMapeos /\ InvCuentas /\ InvLista /\ InvMarcos /\ InvDe(p)
  BY DEF InvarianteM, InvDe
<1>3. /\ m \in Programas /\ EnLaLista(m) /\ path[m] = path[p] /\ flags[p] = "MAP_SHARED"
      /\ c = mapeos[m].cantProcesosUsando /\ segmentos[p] = Nada
  BY <1>1, <1>2 DEF InvDe, InvLeido, InvSegmento, EnMap
<1>4. m \in Vivos /\ flags[m] = "MAP_SHARED" /\ \A q \in Usuarios(m) : pc[q] # "unmap_pagina"
  BY <1>2, <1>3 DEF InvLista, EnLaLista
<1>5. /\ r \in t_mapAbierto(m) /\ r.cantProcesosUsando = c + 1
      /\ r.tablaPaginas = mapeos[m].tablaPaginas /\ r.liberado = mapeos[m].liberado
  <2>1. mapeos[m] \in t_mapAbierto(m)
    BY <1>2, <1>4 DEF Vivos, TiposM
  <2>2. c \in Nat
    BY <1>3, <2>1 DEF t_mapAbierto
  <2> QED BY <2>1, <2>2 DEF t_mapAbierto
<1>6. s \in t_segmento /\ s # Nada /\ s.mapeo = m /\ s.esCompartido = TRUE
  <2>1. Largo(p) \in Nat /\ Nada \notin t_segmento
    BY Constantes
  <2>2. s \in t_segmento
    BY <1>3, <2>1 DEF Segmento, t_segmento
  <2> QED BY <2>1, <2>2 DEF Segmento
<1> HIDE DEF r, s, m
<1>7. /\ mapeos'[m] = r /\ r # Nada /\ \A n \in Programas \ {m} : mapeos'[n] = mapeos[n]
      /\ mapeos' \in [Programas -> (UNION {t_mapAbierto(q) : q \in Programas}) \cup {Nada}]
      /\ \A q \in Programas : mapeos'[q] # Nada => mapeos'[q] \in t_mapAbierto(q)
  BY <1>1, <1>2, <1>3, <1>5, MapeoNuevo
<1>8. /\ segmentos'[p] = s /\ \A q \in Programas \ {p} : segmentos'[q] = segmentos[q]
      /\ \A n : Usuarios(n)' = IF n = m THEN Usuarios(n) \cup {p} ELSE Usuarios(n) \ {p}
  <2>1. segmentos' = [segmentos EXCEPT ![p] = s]
    BY <1>1
  <2>2. /\ segmentos'[p] = s /\ \A q \in Programas \ {p} : segmentos'[q] = segmentos[q]
        /\ \A n : Usuarios(n)' = IF s # Nada /\ s.mapeo = n THEN Usuarios(n) \cup {p}
                                 ELSE Usuarios(n) \ {p}
    BY <1>2, <2>1, UsuariosCon
  <2> QED BY <1>6, <2>2
<1>9. /\ pc'[p] = "libre" /\ \A q \in Programas \ {p} : pc'[q] = pc[q]
      /\ local'[p] = LocalInicial /\ \A q \in Programas \ {p} : local'[q] = local[q]
      /\ pc' \in [Programas -> Puntos] /\ local' \in [Programas -> Local]
  <2>1. "libre" \in Puntos
    BY DEF Puntos, EnReposo
  <2> QED BY <1>1, <1>2, <2>1, VaDe, Guarda, LocalesIniciales
<1>10. TiposM'
  <2>1. segmentos' \in [Programas -> t_segmento \cup {Nada}]
    BY <1>1, <1>2, <1>6 DEF TiposM
  <2> QED BY <1>1, <1>2, <1>7, <1>9, <2>1 DEF TiposM
<1>11. Vivos' = Vivos /\ \A n \in Programas : mapeos[n] # Nada =>
         mapeos'[n] # Nada /\ mapeos'[n].tablaPaginas = mapeos[n].tablaPaginas
                           /\ mapeos'[n].liberado = mapeos[n].liberado
  BY <1>3, <1>4, <1>5, <1>7 DEF Vivos
<1>12. InvMapeos'
  <2>1. mapeos'[m] # Nada /\ ~ mapeos'[m].liberado
    BY <1>4, <1>5, <1>7 DEF Vivos
  <2>2. ASSUME NEW q \in Programas \ {p}, segmentos[q] # Nada
        PROVE  mapeos'[segmentos[q].mapeo] # Nada /\ ~ mapeos'[segmentos[q].mapeo].liberado
    BY <1>2, <1>11, <2>2, DeSegmento
  <2> QED BY <1>2, <1>3, <1>4, <1>6, <1>8, <2>1, <2>2 DEF InvMapeos
<1>13. p \notin Usuarios(m) /\ \A n : p \notin Usuarios(n)
  BY <1>3 DEF Usuarios
<1>14. InvCuentas'
  <2>1. ASSUME NEW n \in Vivos
        PROVE  mapeos'[n].cantProcesosUsando = Cardinality(Usuarios(n)') /\ Usuarios(n)' # {}
    <3>1. CASE n = m
      <4>1. Usuarios(n)' = Usuarios(m) \cup {p} /\ c = Cardinality(Usuarios(m))
        BY <1>2, <1>3, <1>4, <1>8, <3>1 DEF InvCuentas
      <4>2. Cardinality(Usuarios(m) \cup {p}) = Cardinality(Usuarios(m)) + 1
        BY <1>13, UsuariosFinitos, FS_AddElement
      <4> QED BY <1>5, <1>7, <3>1, <4>1, <4>2
    <3>2. CASE n # m
      <4>1. Usuarios(n)' = Usuarios(n) /\ mapeos'[n] = mapeos[n]
        BY <1>7, <1>8, <1>13, <3>2 DEF Vivos
      <4> QED BY <1>2, <4>1 DEF InvCuentas
    <3> QED BY <3>1, <3>2
  <2> QED BY <1>11, <2>1 DEF InvCuentas
<1>15. InvLista'
  <2>1. \A n : \A q \in Usuarios(n)' : q = p \/ (q \in Usuarios(n) /\ q \in Programas)
    BY <1>8 DEF Usuarios
  <2> QED BY <1>1, <1>2, <1>9, <1>11, <2>1 DEF InvLista, EnLaLista
<1>16. \A n \in Vivos : Presentes(n)' = Presentes(n) /\ mapeos'[n].tablaPaginas = mapeos[n].tablaPaginas
  <2> TAKE n \in Vivos
  <2>1. mapeos'[n].tablaPaginas = mapeos[n].tablaPaginas
    BY <1>11 DEF Vivos
  <2>2. \A q \in Programas \ {p} : q \in Usuarios(n)' <=> q \in Usuarios(n)
    BY <1>8
  <2> QED BY <1>1, <1>9, <2>1, <2>2, PresentesIguales
<1>17. InvMarcos'
  BY <1>1, <1>2, <1>11, <1>16, MarcosSi
<1>18. \A q \in Programas \ {p} : Otro(p, q)
  BY <1>8, <1>9 DEF Otro
<1>19. pc[p] \in EnMap
  BY <1>1 DEF EnMap
<1>20. \A q \in Programas \ {p} : InvDe(q)'
  <2>1. \A q \in Programas : mapeos[q] = Nada => mapeos'[q] = Nada
    BY <1>4, <1>7 DEF Vivos
  <2> QED BY <1>11, <1>18, <1>19, <2>1, Ajenos
<1>21. InvDe(p)'
  BY <1>6, <1>8, <1>9 DEF InvDe, InvSegmento, InvLeido, InvPagina, InvSync, EnMap, EnUnmap, Cerrando,
                          Accediendo, LocalInicial
<1>22. InvNombres => InvNombres'
  <2> HAVE InvNombres
  <2>1. \A q \in Programas : pc[q] # "unmap_pagina"
    BY <1>19 DEF InvarianteM, Exclusion, EnMap, EnUnmap
  <2>2. \A n : EnLaLista(n)' <=> EnLaLista(n)
    BY <1>1 DEF EnLaLista
  <2>3. ASSUME NEW q \in Programas, segmentos[q] # Nada, segmentos[q].esCompartido, path[q] = path[p]
        PROVE  segmentos[q].mapeo = m
    <3>1. EnLaLista(segmentos[q].mapeo) /\ path[segmentos[q].mapeo] = path[m]
      BY <1>2, <1>3, <2>1, <2>3, DeSegmento DEF InvNombres, EnLista
    <3> QED BY <1>2, <1>3, <3>1 DEF InvLista, EnLaLista
  <2>4. MismoMapeo'
    BY <1>6, <1>8, <2>3 DEF InvNombres, MismoMapeo
  <2>5. EnLista'
    BY <1>3, <1>6, <1>8, <2>1, <2>2 DEF InvNombres, EnLista
  <2> QED BY <2>4, <2>5 DEF InvNombres
<1>23. pc[p] \notin {"get", "copy"} /\ pc'[p] \notin {"get", "copy"} /\ g_mutexPaginas' = g_mutexPaginas
  BY <1>1, <1>9
<1>24. InvarianteM'
  BY <1>10, <1>12, <1>14, <1>15, <1>17, <1>18, <1>19, <1>20, <1>21, <1>23, PasoPropio
<1> QED BY <1>22, <1>24

LEMMA MapeoCreado ==
  ASSUME NEW p \in Programas
  PROVE  /\ crearMapeo(p) \in t_mapAbierto(p)
         /\ crearMapeo(p).cantProcesosUsando = 1 /\ crearMapeo(p).liberado = FALSE
         /\ \A i \in DOMAIN crearMapeo(p).tablaPaginas : ~ crearMapeo(p).tablaPaginas[i].flagPresencia
<1> DEFINE t == [i \in 1..paginasDe[path[p]] |-> crearPaginaMap(i - 1)]
           c == [n \in 0..(paginasDe[path[p]] - 1) |-> PaginaEnCero]
<1>1. paginasDe[path[p]] \in Nat /\ PaginaEnCero \in Contenido
  BY Constantes
<1>2. t \in [1..paginasDe[path[p]] -> EnFrame]
  BY <1>1 DEF crearPaginaMap, EnFrame
<1>3. \A i \in DOMAIN t : ~ t[i].flagPresencia
  BY DEF crearPaginaMap
<1>4. c \in [0..(paginasDe[path[p]] - 1) -> Contenido]
  BY <1>1
<1>5. /\ crearMapeo(p) = [tablaPaginas |-> t, contenido |-> c, cantProcesosUsando |-> 1, liberado |-> FALSE]
  BY DEF crearMapeo
<1> HIDE DEF t, c
<1> QED BY <1>2, <1>3, <1>4, <1>5 DEF t_mapAbierto

(* The mapping and the segment of p are new. *)
LEMMA CreaMapeo ==
  ASSUME InvarianteM, NEW p \in Programas, pc[p] \in {"map_agregar", "map_privado"},
         NEW comp \in BOOLEAN, comp <=> flags[p] = "MAP_SHARED",
         mapeos' = [mapeos EXCEPT ![p] = crearMapeo(p)],
         mapeosAbiertosCompartidos' \in Seq(Programas),
         Mapeado(p, Segmento(p, comp, 2 * Largo(p)))
  PROVE  /\ TiposM' /\ InvMapeos' /\ InvCuentas' /\ InvMarcos' /\ InvDe(p)'
         /\ \A q \in Programas \ {p} : Otro(p, q) /\ InvDe(q)'
         /\ g_mutexPaginas' = g_mutexPaginas /\ pc'[p] = "libre"
         /\ Vivos' = Vivos \cup {p} /\ p \notin Vivos
         /\ segmentos'[p].mapeo = p /\ segmentos'[p].esCompartido = comp
         /\ \A n : Usuarios(n)' = IF n = p THEN {p} ELSE Usuarios(n)
<1> DEFINE r == crearMapeo(p)
           s == Segmento(p, comp, 2 * Largo(p))
<1>1. /\ segmentos' = [segmentos EXCEPT ![p] = s]
      /\ Guardar(p, LocalInicial) /\ Ir(p, "libre")
      /\ UNCHANGED <<marcos, tablasDePaginas, contenidoFrames, g_mutexPaginas>>
  BY DEF Mapeado, frames
<1>2. TiposM /\ InvMapeos /\ InvCuentas /\ InvMarcos /\ InvDe(p)
  BY DEF InvarianteM, InvDe
<1>3. segmentos[p] = Nada /\ mapeos[p] = Nada
  BY <1>2 DEF InvDe, InvSegmento, EnMap
<1>4. /\ r \in t_mapAbierto(p) /\ r.cantProcesosUsando = 1 /\ r.liberado = FALSE
      /\ \A i \in DOMAIN r.tablaPaginas : ~ r.tablaPaginas[i].flagPresencia
  BY MapeoCreado
<1>5. s \in t_segmento /\ s # Nada /\ s.mapeo = p /\ s.esCompartido = comp
  <2>1. 2 * Largo(p) \in Nat /\ Nada \notin t_segmento
    BY Constantes
  <2>2. s \in t_segmento
    BY <2>1 DEF Segmento, t_segmento
  <2> QED BY <2>1, <2>2 DEF Segmento
<1> HIDE DEF r, s
<1>6. /\ mapeos'[p] = r /\ r # Nada /\ \A n \in Programas \ {p} : mapeos'[n] = mapeos[n]
      /\ mapeos' \in [Programas -> (UNION {t_mapAbierto(q) : q \in Programas}) \cup {Nada}]
      /\ \A q \in Programas : mapeos'[q] # Nada => mapeos'[q] \in t_mapAbierto(q)
  <2>1. mapeos' = [mapeos EXCEPT ![p] = r]
    BY DEF r
  <2> QED BY <1>2, <1>4, <2>1, MapeoNuevo
<1>7. \A n : Usuarios(n) = {} \/ n # p
  <2>1. ASSUME NEW q \in Usuarios(p) PROVE FALSE
    <3>1. q \in Programas /\ segmentos[q] # Nada /\ segmentos[q].mapeo = p
      BY <2>1 DEF Usuarios
    <3> QED BY <1>2, <1>3, <3>1, DeSegmento
  <2> QED BY <2>1
<1>8. \A n : p \notin Usuarios(n)
  BY <1>3 DEF Usuarios
<1>9. /\ segmentos'[p] = s /\ \A q \in Programas \ {p} : segmentos'[q] = segmentos[q]
      /\ \A n : Usuarios(n)' = IF n = p THEN {p} ELSE Usuarios(n)
  <2>1. segmentos' = [segmentos EXCEPT ![p] = s]
    BY <1>1
  <2>2. /\ segmentos'[p] = s /\ \A q \in Programas \ {p} : segmentos'[q] = segmentos[q]
        /\ \A n : Usuarios(n)' = IF s # Nada /\ s.mapeo = n THEN Usuarios(n) \cup {p}
                                 ELSE Usuarios(n) \ {p}
    BY ZenonT(60), <1>2, <2>1, UsuariosCon
  <2>3. ASSUME NEW n PROVE Usuarios(n)' = IF n = p THEN {p} ELSE Usuarios(n)
    <3>1. CASE n = p
      BY <1>5, <1>7, <2>2, <3>1
    <3>2. CASE n # p
      BY <1>5, <1>8, <2>2, <3>2
    <3> QED BY <3>1, <3>2
  <2> QED BY <2>2, <2>3
<1>10. /\ pc'[p] = "libre" /\ \A q \in Programas \ {p} : pc'[q] = pc[q]
       /\ local'[p] = LocalInicial /\ \A q \in Programas \ {p} : local'[q] = local[q]
       /\ pc' \in [Programas -> Puntos] /\ local' \in [Programas -> Local]
  <2>1. "libre" \in Puntos
    BY DEF Puntos, EnReposo
  <2> QED BY <1>1, <1>2, <2>1, VaDe, Guarda, LocalesIniciales
<1>11. TiposM'
  <2>1. segmentos' \in [Programas -> t_segmento \cup {Nada}]
    BY <1>1, <1>2, <1>5 DEF TiposM
  <2> QED BY <1>1, <1>2, <1>6, <1>10, <2>1 DEF TiposM
<1>12. Vivos' = Vivos \cup {p} /\ p \notin Vivos
  BY <1>3, <1>4, <1>6 DEF Vivos
<1>13. InvMapeos'
  <2>1. ASSUME NEW q \in Programas \ {p}, segmentos[q] # Nada
        PROVE  mapeos'[segmentos[q].mapeo] # Nada /\ ~ mapeos'[segmentos[q].mapeo].liberado
    BY <1>2, <1>3, <1>6, <2>1, DeSegmento
  <2> QED BY <1>2, <1>4, <1>5, <1>6, <1>9, <2>1 DEF InvMapeos
<1>14. InvCuentas'
  <2>1. mapeos'[p].cantProcesosUsando = Cardinality(Usuarios(p)') /\ Usuarios(p)' # {}
    <3>1. Cardinality({p}) = 1
      BY FS_Singleton
    <3> QED BY <1>4, <1>6, <1>9, <3>1
  <2>2. ASSUME NEW n \in Vivos
        PROVE  mapeos'[n].cantProcesosUsando = Cardinality(Usuarios(n)') /\ Usuarios(n)' # {}
    <3>1. n # p /\ n \in Programas
      BY <1>12 DEF Vivos
    <3>2. Usuarios(n)' = Usuarios(n) /\ mapeos'[n] = mapeos[n]
      BY <1>6, <1>9, <3>1
    <3> QED BY <1>2, <3>2 DEF InvCuentas
  <2> QED BY <1>12, <2>1, <2>2 DEF InvCuentas
<1>15. pc[p] \in EnMap /\ pc[p] # "unmap_pagina"
  BY DEF EnMap
<1>16. InvMarcos'
  <2>1. Presentes(p)' = {}
    BY <1>4, <1>6 DEF Presentes
  <2>2. ASSUME NEW n \in Vivos
        PROVE  n \in Vivos' /\ Presentes(n)' = Presentes(n) /\ mapeos'[n].tablaPaginas = mapeos[n].tablaPaginas
    <3>1. n # p /\ n \in Programas
      BY <1>12 DEF Vivos
    <3>2. mapeos'[n].tablaPaginas = mapeos[n].tablaPaginas
      BY <1>6, <3>1
    <3>3. Usuarios(n)' = Usuarios(n)
      BY <1>9, <3>1
    <3>4. Presentes(n)' = Presentes(n)
      BY <1>10, <1>15, <3>2, <3>3, PresentesIguales
    <3> QED BY <1>12, <3>2, <3>4
  <2> QED BY <1>1, <1>2, <1>12, <2>1, <2>2, MarcosSi
<1>17. \A q \in Programas \ {p} : Otro(p, q)
  BY <1>9, <1>10 DEF Otro
<1>18. \A q \in Programas \ {p} : InvDe(q)'
  <2>1. \A q \in Programas \ {p} : mapeos[q] = Nada => mapeos'[q] = Nada
    BY <1>6
  <2>2. \A n \in Programas : mapeos[n] # Nada => mapeos'[n].tablaPaginas = mapeos[n].tablaPaginas
    BY <1>3, <1>6
  <2> QED BY <1>15, <1>17, <2>1, <2>2, Ajenos
<1>19. InvDe(p)'
  BY <1>5, <1>9, <1>10 DEF InvDe, InvSegmento, InvLeido, InvPagina, InvSync, EnMap, EnUnmap, Cerrando,
                          Accediendo, LocalInicial
<1> QED BY <1>1, <1>5, <1>9, <1>10, <1>11, <1>12, <1>13, <1>14, <1>16, <1>17, <1>18, <1>19

LEMMA PasoMapPrivado ==
  ASSUME InvarianteM, NEW p \in Programas, MapPrivado(p)
  PROVE  InvarianteM' /\ (InvNombres => InvNombres')
<1>1. /\ pc[p] = "map_privado" /\ mapeos' = [mapeos EXCEPT ![p] = crearMapeo(p)]
      /\ Mapeado(p, Segmento(p, FALSE, 2 * Largo(p)))
      /\ mapeosAbiertosCompartidos' = mapeosAbiertosCompartidos
  BY DEF MapPrivado
<1>2. TiposM /\ InvLista /\ InvDe(p)
  BY DEF InvarianteM, InvDe
<1>3. flags[p] = "MAP_PRIVATE"
  BY <1>1, <1>2 DEF InvDe, InvLeido
<1>4. /\ TiposM' /\ InvMapeos' /\ InvCuentas' /\ InvMarcos' /\ InvDe(p)'
      /\ \A q \in Programas \ {p} : Otro(p, q) /\ InvDe(q)'
      /\ g_mutexPaginas' = g_mutexPaginas /\ pc'[p] = "libre"
      /\ Vivos' = Vivos \cup {p} /\ p \notin Vivos
      /\ segmentos'[p].mapeo = p /\ segmentos'[p].esCompartido = FALSE
      /\ \A n : Usuarios(n)' = IF n = p THEN {p} ELSE Usuarios(n)
  <2>1. FALSE <=> flags[p] = "MAP_SHARED"
    BY <1>3
  <2>2. mapeosAbiertosCompartidos' \in Seq(Programas)
    BY <1>1, <1>2 DEF TiposM
  <2> QED BY <1>1, <2>1, <2>2, CreaMapeo
<1>5. \A q \in Programas \ {p} : pc'[q] = pc[q] /\ segmentos'[q] = segmentos[q]
  BY <1>4 DEF Otro
<1>6. \A n : \A q \in Usuarios(n) : q \in Programas
  BY DEF Usuarios
<1>7. InvLista'
  BY <1>1, <1>2, <1>4, <1>5, <1>6 DEF InvLista, EnLaLista
<1>8. InvNombres => InvNombres'
  BY <1>1, <1>4, <1>5 DEF InvNombres, MismoMapeo, EnLista, EnLaLista
<1>9. pc[p] \in EnMap /\ pc[p] \notin {"get", "copy"} /\ pc'[p] \notin {"get", "copy"}
  BY <1>1, <1>4 DEF EnMap
<1>10. InvarianteM'
  BY <1>4, <1>7, <1>9, PasoPropio
<1> QED BY <1>8, <1>10

LEMMA PasoMapAgregar ==
  ASSUME InvarianteM, NEW p \in Programas, MapAgregar(p)
  PROVE  InvarianteM' /\ (InvNombres => InvNombres')
<1> DEFINE lista == mapeosAbiertosCompartidos
<1>1. /\ pc[p] = "map_agregar" /\ mapeos' = [mapeos EXCEPT ![p] = crearMapeo(p)]
      /\ Mapeado(p, Segmento(p, TRUE, 2 * Largo(p)))
      /\ lista' = Append(lista, p)
  BY DEF MapAgregar
<1>2. TiposM /\ InvMapeos /\ InvLista /\ InvDe(p)
  BY DEF InvarianteM, InvDe
<1>3. flags[p] = "MAP_SHARED" /\ \A m \in Programas : EnLaLista(m) => path[m] # path[p]
  BY <1>1, <1>2 DEF InvDe, InvLeido
<1>4. /\ lista' \in Seq(Programas) /\ Len(lista) \in Nat
      /\ DOMAIN lista = 1..Len(lista) /\ DOMAIN lista' = 1..(Len(lista) + 1)
      /\ \A i \in DOMAIN lista : lista'[i] = lista[i] /\ i \in DOMAIN lista'
      /\ lista'[Len(lista) + 1] = p
      /\ \A i \in DOMAIN lista' : i \in DOMAIN lista \/ i = Len(lista) + 1
  <2>1. lista \in Seq(Programas)
    BY <1>2 DEF TiposM
  <2> QED BY <1>1, <2>1, AppendProperties, LenProperties
<1>5. /\ TiposM' /\ InvMapeos' /\ InvCuentas' /\ InvMarcos' /\ InvDe(p)'
      /\ \A q \in Programas \ {p} : Otro(p, q) /\ InvDe(q)'
      /\ g_mutexPaginas' = g_mutexPaginas /\ pc'[p] = "libre"
      /\ Vivos' = Vivos \cup {p} /\ p \notin Vivos
      /\ segmentos'[p].mapeo = p /\ segmentos'[p].esCompartido = TRUE
      /\ \A n : Usuarios(n)' = IF n = p THEN {p} ELSE Usuarios(n)
  <2>1. TRUE <=> flags[p] = "MAP_SHARED"
    BY <1>3
  <2> QED BY <1>1, <1>4, <2>1, CreaMapeo
<1>6. \A q \in Programas \ {p} : pc'[q] = pc[q] /\ segmentos'[q] = segmentos[q]
  BY <1>5 DEF Otro
<1>7. \A n : \A q \in Usuarios(n) : q \in Programas
  BY DEF Usuarios
<1>8. \A i \in DOMAIN lista : lista[i] \in Vivos /\ lista[i] \in Programas /\ path[lista[i]] # path[p]
  <2>1. \A i \in DOMAIN lista : lista[i] \in Programas
    BY <1>2, <1>4, ElementOfSeq DEF TiposM
  <2> QED BY <1>2, <1>3, <2>1 DEF InvLista, EnLaLista
<1>9. InvLista'
  <2>1. ASSUME NEW m \in Programas, EnLaLista(m)'
        PROVE  m \in Vivos' /\ flags[m] = "MAP_SHARED"
               /\ \A q \in Usuarios(m)' : pc'[q] # "unmap_pagina"
    <3>1. EnLaLista(m) \/ m = p
      BY <1>4, <2>1 DEF EnLaLista
    <3>2. CASE EnLaLista(m)
      BY <1>2, <1>5, <1>6, <1>7, <3>2 DEF InvLista
    <3>3. CASE m = p
      BY <1>3, <1>5, <3>3
    <3> QED BY <3>1, <3>2, <3>3
  <2>2. ASSUME NEW i \in DOMAIN lista', NEW j \in DOMAIN lista', path[lista'[i]] = path[lista'[j]]
        PROVE  i = j
    BY <1>2, <1>4, <1>8, <2>2 DEF InvLista
  <2> QED BY <2>1, <2>2 DEF InvLista
<1>10. pc[p] \in EnMap /\ pc[p] \notin {"get", "copy"} /\ pc'[p] \notin {"get", "copy"}
  BY <1>1, <1>5 DEF EnMap
<1>11. InvNombres => InvNombres'
  <2> HAVE InvNombres
  <2>1. \A q \in Programas : pc[q] # "unmap_pagina"
    BY <1>10 DEF InvarianteM, Exclusion, EnMap, EnUnmap
  <2>2. ASSUME NEW q \in Programas, segmentos[q] # Nada, segmentos[q].esCompartido
        PROVE  path[q] # path[p] /\ EnLaLista(segmentos[q].mapeo)
    <3> DEFINE m == segmentos[q].mapeo
    <3>1. EnLaLista(m)
      BY <2>1, <2>2 DEF InvNombres, EnLista
    <3>2. m \in Programas /\ path[m] = path[q]
      BY <1>2, <2>2, DeSegmento
    <3> HIDE DEF m
    <3>3. path[q] # path[p] /\ EnLaLista(m)
      BY <1>3, <3>1, <3>2
    <3> QED BY <3>3 DEF m
  <2>3. MismoMapeo'
    BY <1>5, <1>6, <2>2 DEF InvNombres, MismoMapeo
  <2>4. EnLaLista(p)' /\ \A m : EnLaLista(m) => EnLaLista(m)'
    BY <1>4 DEF EnLaLista
  <2>5. EnLista'
    BY <1>5, <1>6, <2>2, <2>4 DEF EnLista
  <2> QED BY <2>3, <2>5 DEF InvNombres
<1>12. InvarianteM'
  BY <1>5, <1>9, <1>10, PasoPropio
<1> QED BY <1>11, <1>12

-------------------------------------------------------------------------------
(* Steps of a request that change a mapping *)

LEMMA CambiaMapeo ==
  ASSUME InvarianteM, NEW p \in Programas,
         \A q \in Programas \ {p} : pc'[q] = pc[q] /\ local'[q] = local[q],
         pc[p] \notin EnMap \cup EnUnmap, pc'[p] \notin EnMap \cup EnUnmap,
         UNCHANGED <<segmentos, mapeosAbiertosCompartidos>>,
         NEW m \in Vivos, NEW r \in t_mapAbierto(m), mapeos' = [mapeos EXCEPT ![m] = r],
         r.cantProcesosUsando = mapeos[m].cantProcesosUsando, r.liberado = mapeos[m].liberado
  PROVE  /\ mapeos'[m] = r /\ r # Nada /\ \A n \in Programas \ {m} : mapeos'[n] = mapeos[n]
         /\ mapeos' \in [Programas -> (UNION {t_mapAbierto(q) : q \in Programas}) \cup {Nada}]
         /\ \A q \in Programas : mapeos'[q] # Nada => mapeos'[q] \in t_mapAbierto(q)
         /\ Vivos' = Vivos /\ \A n : Usuarios(n)' = Usuarios(n)
         /\ InvMapeos' /\ InvCuentas' /\ InvLista'
         /\ \A q \in Programas : pc'[q] = "unmap_pagina" <=> pc[q] = "unmap_pagina"
         /\ \A n \in Programas : mapeos[n] # Nada =>
              mapeos'[n] # Nada /\ mapeos'[n].cantProcesosUsando = mapeos[n].cantProcesosUsando
         /\ InvNombres => InvNombres'
<1>1. TiposM /\ InvMapeos /\ InvCuentas /\ InvLista
  BY DEF InvarianteM
<1>2. m \in Programas /\ mapeos[m] # Nada
  BY DEF Vivos
<1>3. /\ mapeos'[m] = r /\ r # Nada /\ \A n \in Programas \ {m} : mapeos'[n] = mapeos[n]
      /\ mapeos' \in [Programas -> (UNION {t_mapAbierto(q) : q \in Programas}) \cup {Nada}]
      /\ \A q \in Programas : mapeos'[q] # Nada => mapeos'[q] \in t_mapAbierto(q)
  BY <1>1, <1>2, MapeoNuevo
<1>4. \A n : Usuarios(n)' = Usuarios(n) /\ (EnLaLista(n)' <=> EnLaLista(n))
  BY DEF Usuarios, EnLaLista
<1>5. \A n \in Programas : mapeos[n] # Nada =>
        /\ mapeos'[n] # Nada /\ mapeos'[n].cantProcesosUsando = mapeos[n].cantProcesosUsando
        /\ mapeos'[n].liberado = mapeos[n].liberado
  BY <1>3
<1>6. Vivos' = Vivos
  BY <1>2, <1>3, <1>5 DEF Vivos
<1>7. \A q \in Programas : pc'[q] = "unmap_pagina" <=> pc[q] = "unmap_pagina"
  BY DEF EnUnmap
<1>8. InvMapeos'
  <2>1. ASSUME NEW q \in Programas, segmentos[q] # Nada
        PROVE  mapeos'[segmentos[q].mapeo] # Nada /\ ~ mapeos'[segmentos[q].mapeo].liberado
    BY <1>1, <1>5, <2>1, DeSegmento
  <2> QED BY <1>1, <2>1 DEF InvMapeos
<1>9. InvCuentas'
  <2>1. \A n \in Vivos : n \in Programas /\ mapeos[n] # Nada
    BY DEF Vivos
  <2> QED BY <1>1, <1>4, <1>5, <1>6, <2>1 DEF InvCuentas
<1>10. InvLista'
  <2>1. \A n : \A q \in Usuarios(n) : q \in Programas
    BY DEF Usuarios
  <2> QED BY <1>1, <1>4, <1>6, <1>7, <2>1 DEF InvLista
<1>11. InvNombres => InvNombres'
  BY <1>4, <1>7 DEF InvNombres, MismoMapeo, EnLista
<1> QED BY <1>3, <1>4, <1>5, <1>6, <1>7, <1>8, <1>9, <1>10, <1>11

LEMMA PasoMsync ==
  ASSUME InvarianteM, NEW p \in Programas, enviarRespuestaMsync(p)
  PROVE  InvarianteM' /\ (InvNombres => InvNombres')
<1> DEFINE m == segmentos[p].mapeo
           d == mapeos[m].contenido
           e == [n \in DOMAIN d |-> [k \in 0..(lengthPagina - 1) |->
                   LET a == n * lengthPagina + k IN
                   IF a < local[p].tam THEN local[p].leido[a + 1] ELSE d[n][k]]]
           r == [mapeos[m] EXCEPT !.contenido = e]
<1>1. /\ pc[p] = "sync" /\ local[p].pagina > UltimaPagina(p)
      /\ mapeos' = [mapeos EXCEPT ![m] = r]
      /\ Guardar(p, LocalInicial) /\ Ir(p, "libre")
      /\ UNCHANGED <<mapeosAbiertosCompartidos, segmentos, marcos, tablasDePaginas, contenidoFrames,
                     g_mutexPaginas>>
  BY DEF enviarRespuestaMsync, frames
<1>2. TiposM /\ InvMapeos /\ InvMarcos /\ InvDe(p)
  BY DEF InvarianteM, InvDe
<1>3. segmentos[p] # Nada
  BY <1>1, ConSegmento
<1>4. m \in Vivos /\ m \in Programas /\ mapeos[m] \in t_mapAbierto(m)
  BY <1>2, <1>3, DeSegmento
<1>5. \A a \in Nat : a < local[p].tam => local[p].leido[a + 1] \in Byte
  <2>1. local[p].leido \in Seq(Byte) /\ local[p].tam \in Nat /\ local[p].pagina \in Nat
    BY <1>2 DEF TiposM, Local
  <2>2. Len(local[p].leido) = local[p].tam
    <3>1. UltimaPagina(p) \in Nat
      BY <1>1, PaginaDeSync
    <3>2. ~ (local[p].pagina <= UltimaPagina(p))
      BY SMTT(30), <1>1, <2>1, <3>1
    <3> QED BY <1>1, <1>2, <3>2 DEF InvDe, InvSync
  <2> QED BY <2>1, <2>2, ElementOfSeq
<1>6. e \in [0..(paginasDe[path[m]] - 1) -> Contenido]
  <2>1. d \in [0..(paginasDe[path[m]] - 1) -> Contenido] /\ lengthPagina \in Nat /\ paginasDe[path[m]] \in Nat
    BY <1>4, Constantes DEF t_mapAbierto
  <2>2. ASSUME NEW n \in DOMAIN d PROVE e[n] \in Contenido
    <3>1. n \in Nat /\ d[n] \in [0..(lengthPagina - 1) -> Byte]
      BY SMTT(30), <2>1 DEF Contenido
    <3>2. n * lengthPagina \in Nat
      BY <2>1, <3>1
    <3>3. ASSUME NEW k \in 0..(lengthPagina - 1) PROVE e[n][k] \in Byte
      <4> DEFINE a == n * lengthPagina + k
      <4>1. a \in Nat
        BY SMTT(30), <3>2
      <4>2. e[n][k] = IF a < local[p].tam THEN local[p].leido[a + 1] ELSE d[n][k]
        BY SMTT(30)
      <4> HIDE DEF a, e
      <4> QED BY <1>5, <3>1, <4>1, <4>2
    <3>4. e[n] = [k \in 0..(lengthPagina - 1) |-> e[n][k]]
      BY ZenonT(60)
    <3> HIDE DEF e
    <3> QED BY <3>3, <3>4 DEF Contenido
  <2>3. e = [n \in DOMAIN d |-> e[n]]
    OBVIOUS
  <2> HIDE DEF e, d
  <2> QED BY <2>1, <2>2, <2>3
<1> HIDE DEF e
<1>7. /\ r \in t_mapAbierto(m) /\ r.tablaPaginas = mapeos[m].tablaPaginas
      /\ r.cantProcesosUsando = mapeos[m].cantProcesosUsando /\ r.liberado = mapeos[m].liberado
  BY <1>4, <1>6 DEF t_mapAbierto
<1> HIDE DEF r, m
<1>8. /\ pc'[p] = "libre" /\ \A q \in Programas \ {p} : pc'[q] = pc[q]
      /\ local'[p] = LocalInicial /\ \A q \in Programas \ {p} : local'[q] = local[q]
      /\ pc' \in [Programas -> Puntos] /\ local' \in [Programas -> Local]
  <2>1. "libre" \in Puntos
    BY DEF Puntos, EnReposo
  <2> QED BY <1>1, <1>2, <2>1, VaDe, Guarda, LocalesIniciales
<1>9. pc[p] \notin EnMap \cup EnUnmap /\ pc'[p] \notin EnMap \cup EnUnmap
  BY <1>1, <1>8 DEF EnMap, EnUnmap
<1>10. /\ mapeos'[m] = r /\ r # Nada /\ \A n \in Programas \ {m} : mapeos'[n] = mapeos[n]
       /\ mapeos' \in [Programas -> (UNION {t_mapAbierto(q) : q \in Programas}) \cup {Nada}]
       /\ \A q \in Programas : mapeos'[q] # Nada => mapeos'[q] \in t_mapAbierto(q)
       /\ Vivos' = Vivos /\ \A n : Usuarios(n)' = Usuarios(n)
       /\ InvMapeos' /\ InvCuentas' /\ InvLista'
       /\ \A q \in Programas : pc'[q] = "unmap_pagina" <=> pc[q] = "unmap_pagina"
       /\ \A n \in Programas : mapeos[n] # Nada =>
            mapeos'[n] # Nada /\ mapeos'[n].cantProcesosUsando = mapeos[n].cantProcesosUsando
       /\ InvNombres => InvNombres'
  BY <1>1, <1>4, <1>7, <1>8, <1>9, CambiaMapeo
<1>11. TiposM'
  BY <1>1, <1>2, <1>8, <1>10 DEF TiposM
<1>12. \A n \in Programas : mapeos'[n].tablaPaginas = mapeos[n].tablaPaginas
  BY <1>7, <1>10
<1>13. InvMarcos'
  <2>1. ASSUME NEW n \in Vivos
        PROVE  Presentes(n)' = Presentes(n) /\ mapeos'[n].tablaPaginas = mapeos[n].tablaPaginas
    <3>1. mapeos'[n].tablaPaginas = mapeos[n].tablaPaginas
      BY <1>12 DEF Vivos
    <3> QED BY <1>1, <1>8, <1>10, <3>1, PresentesIguales
  <2> QED BY <1>1, <1>2, <1>10, <2>1, MarcosSi
<1>14. \A q \in Programas \ {p} : Otro(p, q)
  BY <1>1, <1>8 DEF Otro
<1>15. \A q \in Programas \ {p} : InvDe(q)'
  <2>1. \A q \in Programas : mapeos[q] = Nada => mapeos'[q] = Nada
    BY <1>4, <1>10 DEF Vivos
  <2> QED BY <1>1, <1>10, <1>12, <1>14, <2>1, Ajenos
<1>16. InvDe(p)'
  BY <1>1, <1>3, <1>8 DEF InvDe, InvSegmento, InvLeido, InvPagina, InvSync, EnMap, EnUnmap, Cerrando,
                          Accediendo, LocalInicial
<1>17. pc[p] \notin {"get", "copy"} /\ pc'[p] \notin {"get", "copy"}
  BY <1>1, <1>8
<1>18. InvarianteM'
  BY <1>1, <1>9, <1>10, <1>11, <1>13, <1>14, <1>15, <1>16, <1>17, PasoPropio
<1> QED BY <1>10, <1>18

(* The pages present of a mapping that nobody closes. *)
LEMMA PresentesDeUso ==
  ASSUME InvarianteM, NEW p \in Programas, pc[p] \in {"get", "copy", "sync"}
  PROVE  LET m == segmentos[p].mapeo IN
         /\ \A q \in Usuarios(m) : pc[q] # "unmap_pagina"
         /\ Presentes(m) = {i \in DOMAIN mapeos[m].tablaPaginas : mapeos[m].tablaPaginas[i].flagPresencia}
<1> DEFINE m == segmentos[p].mapeo
<1>1. TiposM /\ InvMapeos /\ segmentos[p] # Nada
  BY ConSegmento DEF InvarianteM
<1>2. p \in Usuarios(m)
  BY <1>1, DeSegmento
<1>3. ASSUME NEW q \in Usuarios(m) PROVE pc[q] # "unmap_pagina"
  <2>1. q \in Programas /\ segmentos[q].mapeo = m
    BY DEF Usuarios
  <2>2. pc[q] = "unmap_pagina" => Usuarios(m) = {q}
    BY <2>1 DEF InvarianteM, InvLeido, Cerrando
  <2> QED BY <1>2, <2>2
<1> QED BY <1>3 DEF Presentes

LEMMA PasoTraer ==
  ASSUME InvarianteM, NEW p \in Programas, TraerPaginaDeMap(p)
  PROVE  InvarianteM' /\ (InvNombres => InvNombres')
<1>0. PICK f, m, n : f = Min(Frame \ marcos) /\ m = segmentos[p].mapeo /\ n = local[p].pagina
  OBVIOUS
<1> DEFINE i == n + 1
           t == [mapeos[m].tablaPaginas EXCEPT ![i] = [nroFrame |-> f, flagPresencia |-> TRUE]]
           r == [mapeos[m] EXCEPT !.tablaPaginas = t]
           c == traerContenidoMap(Pagina(p).nroFrame, mapeos[m].contenido)
           l == [local[p] EXCEPT !.fase = "usar"]
<1>1. /\ pc[p] \in {"get", "copy", "sync"} /\ local[p].fase = "traer" /\ Frame \ marcos # {}
      /\ contenidoFrames' = [contenidoFrames EXCEPT ![f] = c]
      /\ mapeos' = [mapeos EXCEPT ![m] = r]
      /\ marcos' = marcos \cup {f}
      /\ tablasDePaginas' = [tablasDePaginas EXCEPT ![f] = <<p, n>>]
      /\ Guardar(p, l) /\ pc' = pc
      /\ UNCHANGED <<mapeosAbiertosCompartidos, segmentos, g_mutexPaginas>>
  BY <1>0 DEF TraerPaginaDeMap, Accediendo, Fase
<1>2. TiposM /\ InvMapeos /\ InvMarcos /\ InvDe(p) /\ MutexM
  BY DEF InvarianteM, InvDe
<1>3. segmentos[p] # Nada /\ pc[p] \in {"get", "copy"} /\ HayPagina(p)
  BY <1>1, <1>2, ConSegmento DEF InvDe, InvPagina, Accediendo
<1>4. /\ m \in Vivos /\ m \in Programas /\ mapeos[m] \in t_mapAbierto(m) /\ path[m] = path[p]
      /\ mapeos[m].tablaPaginas \in [1..paginasDe[path[p]] -> EnFrame]
      /\ DOMAIN mapeos[m].tablaPaginas = 1..paginasDe[path[p]]
  BY <1>0, <1>2, <1>3, DeSegmento
<1>5. n \in Nat /\ i \in 1..paginasDe[path[p]]
  BY <1>0, <1>2, <1>3, DePagina
<1>6. f \in Frame \ marcos /\ f \in Nat
  <2>1. Frame \ marcos \in SUBSET Frame
    OBVIOUS
  <2>2. Frame \ marcos \subseteq Nat /\ IsFiniteSet(Frame \ marcos)
    BY <2>1, Constantes, FS_Subset
  <2> QED BY <1>0, <1>1, <2>2, MinimoDe
<1>7. c \in Contenido
  <2>1. mapeos[m].contenido \in [0..(paginasDe[path[m]] - 1) -> Contenido]
    BY <1>4 DEF t_mapAbierto
  <2> QED BY <2>1, Constantes DEF traerContenidoMap
<1> HIDE DEF c
<1>8. /\ t \in [1..paginasDe[path[p]] -> EnFrame] /\ DOMAIN t = 1..paginasDe[path[p]]
      /\ t[i] = [nroFrame |-> f, flagPresencia |-> TRUE]
      /\ \A j \in 1..paginasDe[path[p]] : j # i => t[j] = mapeos[m].tablaPaginas[j]
  <2>1. [nroFrame |-> f, flagPresencia |-> TRUE] \in EnFrame
    BY <1>6 DEF EnFrame
  <2> QED BY <1>4, <1>5, <2>1
<1> HIDE DEF t, i
<1>9. /\ r \in t_mapAbierto(m) /\ r.tablaPaginas = t
      /\ r.cantProcesosUsando = mapeos[m].cantProcesosUsando /\ r.liberado = mapeos[m].liberado
  BY <1>4, <1>8 DEF t_mapAbierto
<1>10. /\ l \in Local /\ l.fase = "usar" /\ l.pagina = n /\ l.dato = local[p].dato
  <2>1. local[p] \in Local
    BY <1>2 DEF TiposM
  <2> QED BY <1>0, <2>1 DEF Local
<1>11. /\ local'[p] = l /\ (\A q \in Programas \ {p} : local'[q] = local[q])
       /\ local' \in [Programas -> Local]
  <2> HIDE DEF l
  <2> QED BY <1>1, <1>2, <1>10, Guarda
<1>12. pc[p] \notin EnMap \cup EnUnmap /\ pc'[p] \notin EnMap \cup EnUnmap
  BY <1>1 DEF EnMap, EnUnmap
<1> HIDE DEF r, l
<1>13. /\ mapeos'[m] = r /\ r # Nada /\ \A x \in Programas \ {m} : mapeos'[x] = mapeos[x]
       /\ mapeos' \in [Programas -> (UNION {t_mapAbierto(q) : q \in Programas}) \cup {Nada}]
       /\ \A q \in Programas : mapeos'[q] # Nada => mapeos'[q] \in t_mapAbierto(q)
       /\ Vivos' = Vivos /\ \A x : Usuarios(x)' = Usuarios(x)
       /\ InvMapeos' /\ InvCuentas' /\ InvLista'
       /\ \A q \in Programas : pc'[q] = "unmap_pagina" <=> pc[q] = "unmap_pagina"
       /\ \A x \in Programas : mapeos[x] # Nada =>
            mapeos'[x] # Nada /\ mapeos'[x].cantProcesosUsando = mapeos[x].cantProcesosUsando
       /\ InvNombres => InvNombres'
  BY <1>1, <1>4, <1>9, <1>11, <1>12, CambiaMapeo
<1>13a. mapeos'[m].tablaPaginas = t /\ mapeos'[m].tablaPaginas[i].nroFrame = f
  <2>1. t[i].nroFrame = f
    BY <1>8
  <2> QED BY <1>9, <1>13, <2>1
<1>14. TiposM'
  <2>1. contenidoFrames' \in [Frame -> Contenido]
    BY <1>1, <1>2, <1>7 DEF TiposM
  <2>2. tablasDePaginas' \in [Frame -> (Programas \X Nat) \cup {Nada}]
    <3>1. <<p, n>> \in Programas \X Nat
      BY <1>5
    <3> QED BY <1>1, <1>2, <3>1 DEF TiposM
  <2>3. marcos' \subseteq Frame
    BY SMTT(30), <1>1, <1>2, <1>6 DEF TiposM
  <2> QED BY <1>1, <1>2, <1>11, <1>13, <2>1, <2>2, <2>3 DEF TiposM
<1>15. /\ ~ mapeos[m].tablaPaginas[i].flagPresencia
  BY <1>0, <1>1, <1>2 DEF InvDe, InvPagina, Accediendo, Pagina, Mapeo, i
<1>16. Presentes(m)' = Presentes(m) \cup {i} /\ i \notin Presentes(m)
  <2>1. /\ \A q \in Usuarios(m) : pc[q] # "unmap_pagina"
        /\ Presentes(m) = {j \in DOMAIN mapeos[m].tablaPaginas : mapeos[m].tablaPaginas[j].flagPresencia}
    BY <1>0, <1>1, PresentesDeUso
  <2>2. Presentes(m)' = {j \in DOMAIN t : t[j].flagPresencia}
    <3>1. \A q \in Usuarios(m)' : pc'[q] # "unmap_pagina"
      BY <1>1, <1>13, <2>1
    <3>2. mapeos'[m].tablaPaginas = t
      BY <1>9, <1>13
    <3> QED BY <3>1, <3>2 DEF Presentes
  <2> QED BY <1>4, <1>5, <1>8, <1>15, <2>1, <2>2
<1>17. \A x \in Vivos \ {m} : Presentes(x)' = Presentes(x) /\ mapeos'[x].tablaPaginas = mapeos[x].tablaPaginas
  <2> TAKE x \in Vivos \ {m}
  <2>1. mapeos'[x].tablaPaginas = mapeos[x].tablaPaginas
    BY <1>13 DEF Vivos
  <2>2. \A q \in Programas : pc[q] = "unmap_pagina" => local'[q] = local[q]
    BY <1>1, <1>11
  <2> QED BY <1>1, <1>13, <2>1, <2>2, PresentesIguales
<1>18. ASSUME NEW x \in Vivos, NEW j \in Presentes(x)'
       PROVE  \/ /\ x = m /\ j = i /\ mapeos'[x].tablaPaginas[j].nroFrame = f
              \/ /\ j \in Presentes(x) /\ ~ (x = m /\ j = i)
                 /\ mapeos'[x].tablaPaginas[j].nroFrame = mapeos[x].tablaPaginas[j].nroFrame
                 /\ mapeos[x].tablaPaginas[j].nroFrame \in marcos
  <2>1. CASE x # m
    <3>1. Presentes(x)' = Presentes(x) /\ mapeos'[x].tablaPaginas = mapeos[x].tablaPaginas
      BY <1>17, <2>1
    <3>2. j \in Presentes(x)
      BY <3>1
    <3> QED BY <1>2, <2>1, <3>1, <3>2 DEF InvMarcos
  <2>2. CASE x = m /\ j = i
    BY SMTT(30), <1>13a, <2>2
  <2>3. CASE x = m /\ j # i
    <3>1. j \in Presentes(m) /\ j \in 1..paginasDe[path[p]]
      BY <1>4, <1>16, <2>3 DEF Presentes
    <3> QED BY <1>2, <1>4, <1>8, <1>9, <1>13, <2>3, <3>1 DEF InvMarcos
  <2> QED BY SMTT(30), <2>1, <2>2, <2>3
<1>19. /\ tablasDePaginas'[f] = <<p, n>>
       /\ \A g \in Frame \ {f} : tablasDePaginas'[g] = tablasDePaginas[g]
  BY SMTT(30), <1>1, <1>2, <1>6 DEF TiposM
<1>20. InvMarcos'
  <2>1. ASSUME NEW x \in Vivos, NEW j \in Presentes(x)'
        PROVE  LET g == mapeos'[x].tablaPaginas[j].nroFrame IN
               /\ g \in marcos' /\ tablasDePaginas'[g] \in Programas \X Nat
               /\ tablasDePaginas'[g][2] = j - 1 /\ path[tablasDePaginas'[g][1]] = path[x]
    <3>1. CASE x = m /\ j = i /\ mapeos'[x].tablaPaginas[j].nroFrame = f
      <4>1. <<p, n>> \in Programas \X Nat /\ n = j - 1
        BY SMTT(30), <1>5, <3>1 DEF i
      <4> QED BY <1>1, <1>4, <1>19, <3>1, <4>1
    <3>2. CASE /\ j \in Presentes(x)
               /\ mapeos'[x].tablaPaginas[j].nroFrame = mapeos[x].tablaPaginas[j].nroFrame
               /\ mapeos[x].tablaPaginas[j].nroFrame \in marcos
      <4>1. mapeos[x].tablaPaginas[j].nroFrame \in Frame \ {f}
        BY <1>2, <1>6, <3>2 DEF TiposM
      <4>2. LET g == mapeos[x].tablaPaginas[j].nroFrame IN
            /\ tablasDePaginas[g] \in Programas \X Nat /\ tablasDePaginas[g][2] = j - 1
            /\ path[tablasDePaginas[g][1]] = path[x]
        BY <1>2, <3>2 DEF InvMarcos
      <4>3. tablasDePaginas'[mapeos[x].tablaPaginas[j].nroFrame]
              = tablasDePaginas[mapeos[x].tablaPaginas[j].nroFrame]
        BY <1>19, <4>1
      <4>4. mapeos[x].tablaPaginas[j].nroFrame \in marcos'
        BY <1>1, <3>2
      <4> QED BY <3>2, <4>2, <4>3, <4>4
    <3> QED BY SMTT(30), <1>18, <3>1, <3>2
  <2>2. ASSUME NEW x \in Vivos, NEW y \in Vivos, NEW j \in Presentes(x)', NEW k \in Presentes(y)',
               mapeos'[x].tablaPaginas[j].nroFrame = mapeos'[y].tablaPaginas[k].nroFrame
        PROVE  x = y /\ j = k
    <3> DEFINE F(z, h) == mapeos[z].tablaPaginas[h].nroFrame
    <3>1. CASE j \in Presentes(x) /\ F(x, j) \in marcos /\ mapeos'[x].tablaPaginas[j].nroFrame = F(x, j)
      <4>1. k \in Presentes(y) /\ mapeos'[y].tablaPaginas[k].nroFrame = F(y, k)
        BY <1>6, <1>18, <2>2, <3>1
      <4>2. F(x, j) = F(y, k)
        BY <2>2, <3>1, <4>1
      <4> QED BY <1>2, <3>1, <4>1, <4>2 DEF InvMarcos
    <3>2. CASE x = m /\ j = i /\ mapeos'[x].tablaPaginas[j].nroFrame = f
      BY <1>6, <1>18, <2>2, <3>2
    <3> HIDE DEF F
    <3> QED BY SMTT(30), <1>18, <3>1, <3>2 DEF F
  <2>3. ASSUME NEW g \in marcos'
        PROVE  \E x \in Vivos : \E j \in Presentes(x)' : mapeos'[x].tablaPaginas[j].nroFrame = g
    <3>1. CASE g = f
      BY <1>4, <1>16, <1>13a, <3>1
    <3>2. CASE g \in marcos
      <4>1. PICK x \in Vivos : \E j \in Presentes(x) : mapeos[x].tablaPaginas[j].nroFrame = g
        BY <1>2, <3>2 DEF InvMarcos
      <4>2. PICK j \in Presentes(x) : mapeos[x].tablaPaginas[j].nroFrame = g
        BY <4>1
      <4>3. j \in Presentes(x)' /\ ~ (x = m /\ j = i)
        BY SMTT(30), <1>16, <1>17
      <4> QED BY <1>18, <4>2, <4>3
    <3> QED BY <1>1, <3>1, <3>2
  <2>4. \A g \in Frame \ marcos' : tablasDePaginas'[g] = Nada
    BY <1>1, <1>2, <1>6, <1>19 DEF InvMarcos
  <2> QED BY SMTT(30), <1>13, <2>1, <2>2, <2>3, <2>4 DEF InvMarcos
<1>21. ASSUME NEW x \in Programas, mapeos[x] # Nada
       PROVE  /\ Len(mapeos'[x].tablaPaginas) = Len(mapeos[x].tablaPaginas)
              /\ \A j \in DOMAIN mapeos[x].tablaPaginas :
                   mapeos[x].tablaPaginas[j].flagPresencia => mapeos'[x].tablaPaginas[j].flagPresencia
  <2>1. CASE x # m
    BY <1>13, <2>1
  <2>2. CASE x = m
    <3>1. paginasDe[path[p]] \in Nat
      BY Constantes
    <3>2. Len(t) = paginasDe[path[p]] /\ Len(mapeos[m].tablaPaginas) = paginasDe[path[p]]
      BY <1>4, <1>8, <3>1, EsSecuencia
    <3>3. t[i].flagPresencia = TRUE
      BY <1>8
    <3>4. \A j \in DOMAIN mapeos[m].tablaPaginas :
            mapeos[m].tablaPaginas[j].flagPresencia => t[j].flagPresencia
      BY <1>4, <1>8, <3>3
    <3> QED BY <1>13a, <2>2, <3>2, <3>4
  <2> QED BY <2>1, <2>2
<1>22. \A q \in Programas \ {p} : InvDe(q)'
  <2> TAKE q \in Programas \ {p}
  <2>1. pc'[q] = pc[q] /\ local'[q] = local[q] /\ segmentos'[q] = segmentos[q] /\ InvDe(q)
    BY <1>1, <1>11 DEF InvarianteM, InvDe
  <2>2. pc[q] \notin {"get", "copy"}
    BY <1>2, <1>3 DEF MutexM
  <2>3. InvSegmento(q)'
    <3>1. mapeos[q] = Nada => mapeos'[q] = Nada
      BY <1>4, <1>13 DEF Vivos
    <3> QED BY <2>1, <3>1 DEF InvDe, InvSegmento
  <2>4. InvLeido(q)'
    <3>1. \A x : EnLaLista(x)' <=> EnLaLista(x)
      BY <1>1 DEF EnLaLista
    <3>2. pc[q] \in EnUnmap =>
            mapeos'[segmentos[q].mapeo].cantProcesosUsando = mapeos[segmentos[q].mapeo].cantProcesosUsando
      BY <1>2, <1>13, DeSegmento, ConSegmento
    <3>3. pc[q] = "map_guardar" =>
            mapeos'[local[q].mapeo].cantProcesosUsando = mapeos[local[q].mapeo].cantProcesosUsando
      BY <1>13, <2>1 DEF InvarianteM, InvDe, InvLeido, InvLista, Vivos
    <3> QED BY <1>13, <2>1, <3>1, <3>2, <3>3 DEF InvDe, InvLeido, EnUnmap, Cerrando, Mapeo
  <2>5. CASE pc[q] = "sync"
    <3> DEFINE x == segmentos[q].mapeo
    <3>1. segmentos[q] # Nada
      BY <2>5, ConSegmento
    <3>2. x \in Programas /\ mapeos[x] # Nada /\ DOMAIN mapeos[x].tablaPaginas = 1..paginasDe[path[q]]
          /\ Len(mapeos[x].tablaPaginas) = paginasDe[path[q]]
      BY <1>2, <3>1, DeSegmento
    <3>3. /\ Len(mapeos'[x].tablaPaginas) = Len(mapeos[x].tablaPaginas)
          /\ \A j \in DOMAIN mapeos[x].tablaPaginas :
               mapeos[x].tablaPaginas[j].flagPresencia => mapeos'[x].tablaPaginas[j].flagPresencia
      BY SMTT(30), <1>21, <3>2
    <3>4. ASSUME HayPagina(q), Pagina(q).flagPresencia PROVE (HayPagina(q) /\ Pagina(q).flagPresencia)'
      <4>1. local[q].pagina + 1 \in DOMAIN mapeos[x].tablaPaginas
        BY <1>2, <3>1, <3>2, <3>4, DePagina
      <4>2. HayPagina(q)'
        BY <2>1, <3>3, <3>4 DEF HayPagina, Mapeo
      <4> QED BY <2>1, <3>3, <3>4, <4>1, <4>2 DEF Pagina, Mapeo
    <3>5. InvPagina(q)'
      BY <2>1, <2>5, <3>4 DEF InvDe, InvPagina, Accediendo
    <3>6. YaUsadas(q, local[q].tam)'
      <4>1. local[q].dir = 0 /\ local[q].tam \in 1..Largo(q) /\ YaUsadas(q, local[q].tam)
        BY <2>1, <2>5 DEF InvDe, InvSync
      <4>2. ASSUME NEW k \in 0..((local[q].tam - 1) \div lengthPagina)
            PROVE  mapeos'[x].tablaPaginas[k + 1].flagPresencia
        <5>1. Largo(q) \in Nat /\ paginasDe[path[q]] \in Nat
          BY Constantes
        <5>2. local[q].tam - 1 \in Nat /\ local[q].tam - 1 < Largo(q)
          BY <4>1, <5>1
        <5>3. (local[q].tam - 1) \div lengthPagina < paginasDe[path[q]]
          BY <5>1, <5>2, DivisionMenor DEF Largo
        <5>4. (local[q].tam - 1) \div lengthPagina \in Nat
          BY <5>2, Division
        <5>5. k + 1 \in 1..paginasDe[path[q]]
          BY <5>1, <5>3, <5>4
        <5>6. mapeos[x].tablaPaginas[k + 1].flagPresencia
          BY <4>1 DEF YaUsadas
        <5> QED BY <3>2, <3>3, <5>5, <5>6
      <4> QED BY <2>1, <4>2 DEF YaUsadas
    <3>7. InvSync(q)'
      BY <2>1, <2>5, <3>6 DEF InvDe, InvSync, UltimaPagina
    <3> QED BY <2>3, <2>4, <3>5, <3>7 DEF InvDe
  <2>6. CASE pc[q] # "sync"
    <3>1. InvPagina(q)' /\ InvSync(q)'
      BY <2>1, <2>2, <2>6 DEF InvPagina, InvSync, Accediendo
    <3> QED BY <2>3, <2>4, <3>1 DEF InvDe
  <2> QED BY <2>5, <2>6
<1>23. InvDe(p)'
  <2>1. InvSegmento(p)' /\ InvLeido(p)' /\ InvSync(p)'
    BY <1>1, <1>3 DEF InvSegmento, InvLeido, InvSync, Cerrando, EnMap, EnUnmap
  <2>2. HayPagina(p)' /\ Pagina(p)'.flagPresencia
    <3>1. Len(mapeos'[m].tablaPaginas) = Len(mapeos[m].tablaPaginas)
      BY <1>4, <1>21 DEF Vivos
    <3>2. HayPagina(p)'
      BY <1>0, <1>1, <1>3, <1>10, <1>11, <3>1 DEF HayPagina, Mapeo
    <3>3. Pagina(p)' = t[i]
      BY <1>0, <1>1, <1>9, <1>10, <1>11, <1>13 DEF Pagina, Mapeo, i
    <3> QED BY <1>8, <3>2, <3>3
  <2>3. InvPagina(p)'
    BY <1>1, <1>2, <1>10, <1>11, <2>2 DEF InvDe, InvPagina, Accediendo
  <2> QED BY <2>1, <2>3 DEF InvDe
<1>24. \A q \in Programas \ {p} : Otro(p, q)
  BY <1>1, <1>11 DEF Otro
<1>25. InvarianteM'
  BY <1>1, <1>12, <1>13, <1>14, <1>20, <1>22, <1>23, <1>24, PasoPropio
<1> QED BY <1>13, <1>25

-------------------------------------------------------------------------------
(* Steps of an unmap *)

LEMMA SueltaSegmento ==
  ASSUME InvarianteM, NEW p \in Programas, SinSegmento(p)
  PROVE  /\ segmentos'[p] = Nada /\ \A q \in Programas \ {p} : segmentos'[q] = segmentos[q]
         /\ segmentos' \in [Programas -> t_segmento \cup {Nada}]
         /\ \A n : Usuarios(n)' = Usuarios(n) \ {p}
         /\ pc'[p] = "fin" /\ \A q \in Programas \ {p} : pc'[q] = pc[q]
         /\ local'[p] = LocalInicial /\ \A q \in Programas \ {p} : local'[q] = local[q]
         /\ pc' \in [Programas -> Puntos] /\ local' \in [Programas -> Local]
         /\ InvDe(p)'
<1>1. TiposM /\ segmentos' = [segmentos EXCEPT ![p] = Nada] /\ Guardar(p, LocalInicial) /\ Ir(p, "fin")
  BY DEF InvarianteM, SinSegmento
<1>2. /\ segmentos'[p] = Nada /\ \A q \in Programas \ {p} : segmentos'[q] = segmentos[q]
      /\ \A n : Usuarios(n)' = IF Nada # Nada /\ Nada.mapeo = n THEN Usuarios(n) \cup {p}
                               ELSE Usuarios(n) \ {p}
  BY <1>1, UsuariosCon
<1>3. /\ pc'[p] = "fin" /\ \A q \in Programas \ {p} : pc'[q] = pc[q]
      /\ local'[p] = LocalInicial /\ \A q \in Programas \ {p} : local'[q] = local[q]
      /\ pc' \in [Programas -> Puntos] /\ local' \in [Programas -> Local]
  <2>1. "fin" \in Puntos
    BY DEF Puntos, EnReposo
  <2> QED BY <1>1, <2>1, VaDe, Guarda, LocalesIniciales
<1>4. segmentos' \in [Programas -> t_segmento \cup {Nada}]
  BY <1>1 DEF TiposM
<1>5. InvDe(p)'
  BY <1>3 DEF InvDe, InvSegmento, InvLeido, InvPagina, InvSync, EnMap, EnUnmap, Cerrando, Accediendo
<1> QED BY <1>2, <1>3, <1>4, <1>5

LEMMA PasoUnmapGuardar ==
  ASSUME InvarianteM, NEW p \in Programas, UnmapGuardar(p)
  PROVE  InvarianteM' /\ (InvNombres => InvNombres')
<1>0. PICK m, c : m = segmentos[p].mapeo /\ c = local[p].cant
  OBVIOUS
<1> DEFINE r == [mapeos[m] EXCEPT !.cantProcesosUsando = c - 1]
<1>1. /\ pc[p] = "unmap_guardar" /\ mapeos' = [mapeos EXCEPT ![m] = r] /\ SinSegmento(p)
      /\ UNCHANGED <<mapeosAbiertosCompartidos, marcos, tablasDePaginas, contenidoFrames, g_mutexPaginas>>
  BY <1>0 DEF UnmapGuardar, frames
<1>2. TiposM /\ InvMapeos /\ InvCuentas /\ InvLista /\ InvMarcos /\ InvDe(p)
  BY DEF InvarianteM, InvDe
<1>3. segmentos[p] # Nada
  BY <1>1, ConSegmento DEF EnUnmap
<1>4. m \in Vivos /\ m \in Programas /\ p \in Usuarios(m) /\ mapeos[m] \in t_mapAbierto(m)
  BY <1>0, <1>2, <1>3, DeSegmento
<1>5. c = mapeos[m].cantProcesosUsando /\ c # 1
  BY <1>0, <1>1, <1>2 DEF InvDe, InvLeido, Mapeo
<1>6. /\ c = Cardinality(Usuarios(m)) /\ c - 1 \in Nat /\ c - 1 # 0
      /\ Cardinality(Usuarios(m) \ {p}) = c - 1 /\ Usuarios(m) \ {p} # {}
  <2>1. c = Cardinality(Usuarios(m))
    BY <1>2, <1>4, <1>5 DEF InvCuentas
  <2>2. IsFiniteSet(Usuarios(m)) /\ Cardinality(Usuarios(m)) \in Nat
    BY UsuariosFinitos
  <2>3. Cardinality(Usuarios(m) \ {p}) = c - 1
    BY <1>4, <2>1, <2>2, FS_RemoveElement
  <2>4. IsFiniteSet(Usuarios(m) \ {p})
    BY <2>2, FS_Difference
  <2>5. Cardinality(Usuarios(m) \ {p}) \in Nat /\ (Cardinality(Usuarios(m) \ {p}) = 0 <=> Usuarios(m) \ {p} = {})
    BY <2>4, FS_CardinalityType, FS_EmptySet
  <2> QED BY <1>5, <2>1, <2>2, <2>3, <2>5
<1>7. /\ r \in t_mapAbierto(m) /\ r.cantProcesosUsando = c - 1
      /\ r.tablaPaginas = mapeos[m].tablaPaginas /\ r.liberado = mapeos[m].liberado
  BY <1>4, <1>6 DEF t_mapAbierto
<1> HIDE DEF r
<1>8. /\ mapeos'[m] = r /\ r # Nada /\ \A n \in Programas \ {m} : mapeos'[n] = mapeos[n]
      /\ mapeos' \in [Programas -> (UNION {t_mapAbierto(q) : q \in Programas}) \cup {Nada}]
      /\ \A q \in Programas : mapeos'[q] # Nada => mapeos'[q] \in t_mapAbierto(q)
  BY <1>1, <1>2, <1>4, <1>7, MapeoNuevo
<1>9. /\ segmentos'[p] = Nada /\ \A q \in Programas \ {p} : segmentos'[q] = segmentos[q]
      /\ segmentos' \in [Programas -> t_segmento \cup {Nada}]
      /\ \A n : Usuarios(n)' = Usuarios(n) \ {p}
      /\ pc'[p] = "fin" /\ \A q \in Programas \ {p} : pc'[q] = pc[q]
      /\ local'[p] = LocalInicial /\ \A q \in Programas \ {p} : local'[q] = local[q]
      /\ pc' \in [Programas -> Puntos] /\ local' \in [Programas -> Local]
      /\ InvDe(p)'
  BY <1>1, SueltaSegmento
<1>10. TiposM'
  BY <1>1, <1>2, <1>8, <1>9 DEF TiposM
<1>11. Vivos' = Vivos /\ \A n \in Programas : mapeos[n] # Nada =>
         mapeos'[n] # Nada /\ mapeos'[n].tablaPaginas = mapeos[n].tablaPaginas
                           /\ mapeos'[n].liberado = mapeos[n].liberado
  BY <1>4, <1>7, <1>8 DEF Vivos
<1>12. InvMapeos'
  <2>1. ASSUME NEW q \in Programas \ {p}, segmentos[q] # Nada
        PROVE  mapeos'[segmentos[q].mapeo] # Nada /\ ~ mapeos'[segmentos[q].mapeo].liberado
    BY <1>2, <1>11, <2>1, DeSegmento
  <2> QED BY <1>2, <1>9, <2>1 DEF InvMapeos
<1>13. InvCuentas'
  <2>1. ASSUME NEW n \in Vivos
        PROVE  mapeos'[n].cantProcesosUsando = Cardinality(Usuarios(n)') /\ Usuarios(n)' # {}
    <3>1. CASE n = m
      BY <1>6, <1>7, <1>8, <1>9, <3>1
    <3>2. CASE n # m
      <4>1. p \notin Usuarios(n)
        BY <1>0, <3>2 DEF Usuarios
      <4>2. Usuarios(n)' = Usuarios(n) /\ mapeos'[n] = mapeos[n]
        BY <1>8, <1>9, <3>2, <4>1 DEF Vivos
      <4> QED BY <1>2, <4>2 DEF InvCuentas
    <3> QED BY <3>1, <3>2
  <2> QED BY <1>11, <2>1 DEF InvCuentas
<1>14. \A n : \A q \in Usuarios(n)' : q \in Usuarios(n) /\ q \in Programas \ {p}
  BY <1>9 DEF Usuarios
<1>15. InvLista'
  BY <1>1, <1>2, <1>9, <1>11, <1>14 DEF InvLista, EnLaLista
<1>16. \A n \in Vivos : Presentes(n)' = Presentes(n) /\ mapeos'[n].tablaPaginas = mapeos[n].tablaPaginas
  <2> TAKE n \in Vivos
  <2>1. mapeos'[n].tablaPaginas = mapeos[n].tablaPaginas
    BY <1>11 DEF Vivos
  <2>2. \A q \in Programas \ {p} : q \in Usuarios(n)' <=> q \in Usuarios(n)
    BY <1>9
  <2> QED BY <1>1, <1>9, <2>1, <2>2, PresentesIguales
<1>17. InvMarcos'
  BY <1>1, <1>2, <1>11, <1>16, MarcosSi
<1>18. \A q \in Programas \ {p} : Otro(p, q)
  BY <1>9 DEF Otro
<1>19. pc[p] \in EnUnmap /\ pc[p] \notin {"get", "copy"} /\ pc'[p] \notin {"get", "copy"}
  BY <1>1, <1>9 DEF EnUnmap
<1>20. \A q \in Programas \ {p} : InvDe(q)'
  <2>1. \A q \in Programas : mapeos[q] = Nada => mapeos'[q] = Nada
    BY <1>4, <1>8 DEF Vivos
  <2> QED BY <1>11, <1>18, <1>19, <2>1, Ajenos
<1>21. InvNombres => InvNombres'
  BY <1>1, <1>9 DEF InvNombres, MismoMapeo, EnLista, EnLaLista
<1>22. InvarianteM'
  BY <1>1, <1>9, <1>10, <1>12, <1>13, <1>15, <1>17, <1>18, <1>19, <1>20, PasoPropio
<1> QED BY <1>21, <1>22

(* The program that closes a mapping is its only user, and its pages past the *)
(* ones that it has given back are the ones present.                         *)
LEMMA DelUltimo ==
  ASSUME InvarianteM, NEW p \in Programas, pc[p] = "unmap_pagina"
  PROVE  LET m == segmentos[p].mapeo IN
         /\ segmentos[p] # Nada /\ m \in Vivos /\ m \in Programas /\ mapeos[m] \in t_mapAbierto(m)
         /\ Usuarios(m) = {p} /\ ~ EnLaLista(m)
         /\ local[p].pagina \in Nat
         /\ Presentes(m) = {i \in 1..paginasDe[path[p]] :
                              mapeos[m].tablaPaginas[i].flagPresencia /\ i > local[p].pagina}
<1> DEFINE m == segmentos[p].mapeo
<1>1. TiposM /\ InvMapeos /\ InvLista /\ InvLeido(p)
  BY DEF InvarianteM
<1>2. segmentos[p] # Nada
  BY ConSegmento DEF EnUnmap
<1>3. /\ m \in Vivos /\ m \in Programas /\ mapeos[m] \in t_mapAbierto(m)
      /\ DOMAIN mapeos[m].tablaPaginas = 1..paginasDe[path[p]]
  BY <1>1, <1>2, DeSegmento
<1>4. Usuarios(m) = {p}
  BY <1>1 DEF InvLeido, Cerrando
<1>5. ~ EnLaLista(m)
  BY <1>1, <1>3, <1>4 DEF InvLista
<1>6. local[p].pagina \in Nat
  BY <1>1 DEF TiposM, Local
<1>7. Presentes(m) = {i \in 1..paginasDe[path[p]] :
                        mapeos[m].tablaPaginas[i].flagPresencia /\ i > local[p].pagina}
  BY <1>3, <1>4 DEF Presentes
<1> QED BY <1>2, <1>3, <1>4, <1>5, <1>6, <1>7

LEMMA PasoDestruirSegmento ==
  ASSUME InvarianteM, NEW p \in Programas, destruirSegmentoMap(p)
  PROVE  InvarianteM' /\ (InvNombres => InvNombres')
<1>0. PICK m : m = segmentos[p].mapeo
  OBVIOUS
<1> DEFINE r == [mapeos[m] EXCEPT !.liberado = TRUE]
<1>1. /\ pc[p] = "unmap_pagina" /\ ~ HayPagina(p)
      /\ mapeos' = [mapeos EXCEPT ![m] = r] /\ SinSegmento(p)
      /\ UNCHANGED <<mapeosAbiertosCompartidos, marcos, tablasDePaginas, contenidoFrames, g_mutexPaginas>>
  BY <1>0 DEF destruirSegmentoMap, frames
<1>2. TiposM /\ InvMapeos /\ InvCuentas /\ InvLista /\ InvMarcos
  BY DEF InvarianteM
<1>3. /\ segmentos[p] # Nada /\ m \in Vivos /\ m \in Programas /\ mapeos[m] \in t_mapAbierto(m)
      /\ Usuarios(m) = {p} /\ ~ EnLaLista(m) /\ local[p].pagina \in Nat
      /\ Presentes(m) = {i \in 1..paginasDe[path[p]] :
                           mapeos[m].tablaPaginas[i].flagPresencia /\ i > local[p].pagina}
  BY SMTT(30), <1>0, <1>1, DelUltimo
<1>4. Presentes(m) = {}
  <2>1. Len(mapeos[m].tablaPaginas) = paginasDe[path[p]]
    BY <1>0, <1>2, <1>3, DeSegmento
  <2>2. ~ (local[p].pagina < paginasDe[path[p]])
    BY <1>0, <1>1, <2>1 DEF HayPagina, Mapeo
  <2>3. paginasDe[path[p]] \in Nat
    BY Constantes
  <2> QED BY <1>3, <2>2, <2>3
<1>5. /\ r \in t_mapAbierto(m) /\ r.cantProcesosUsando = mapeos[m].cantProcesosUsando
      /\ r.tablaPaginas = mapeos[m].tablaPaginas /\ r.liberado = TRUE
  BY <1>3 DEF t_mapAbierto
<1> HIDE DEF r
<1>6. /\ mapeos'[m] = r /\ r # Nada /\ \A n \in Programas \ {m} : mapeos'[n] = mapeos[n]
      /\ mapeos' \in [Programas -> (UNION {t_mapAbierto(q) : q \in Programas}) \cup {Nada}]
      /\ \A q \in Programas : mapeos'[q] # Nada => mapeos'[q] \in t_mapAbierto(q)
  BY <1>1, <1>2, <1>3, <1>5, MapeoNuevo
<1>7. /\ segmentos'[p] = Nada /\ \A q \in Programas \ {p} : segmentos'[q] = segmentos[q]
      /\ segmentos' \in [Programas -> t_segmento \cup {Nada}]
      /\ \A n : Usuarios(n)' = Usuarios(n) \ {p}
      /\ pc'[p] = "fin" /\ \A q \in Programas \ {p} : pc'[q] = pc[q]
      /\ local'[p] = LocalInicial /\ \A q \in Programas \ {p} : local'[q] = local[q]
      /\ pc' \in [Programas -> Puntos] /\ local' \in [Programas -> Local]
      /\ InvDe(p)'
  BY <1>1, SueltaSegmento
<1>8. TiposM'
  BY <1>1, <1>2, <1>6, <1>7 DEF TiposM
<1>9. Vivos' = Vivos \ {m}
  BY <1>3, <1>5, <1>6 DEF Vivos
<1>10. ASSUME NEW n \in Vivos \ {m}
       PROVE  mapeos'[n] = mapeos[n] /\ Usuarios(n)' = Usuarios(n)
  <2>1. p \notin Usuarios(n)
    BY <1>0 DEF Usuarios
  <2> QED BY <1>6, <1>7, <2>1 DEF Vivos
<1>11. ASSUME NEW q \in Programas \ {p}, segmentos[q] # Nada
       PROVE  segmentos[q].mapeo \in Vivos \ {m}
  <2>1. segmentos[q].mapeo \in Vivos /\ q \in Usuarios(segmentos[q].mapeo)
    BY <1>2, <1>11, DeSegmento
  <2> QED BY <1>3, <2>1
<1>12. InvMapeos'
  <2>1. ASSUME NEW q \in Programas \ {p}, segmentos[q] # Nada
        PROVE  mapeos'[segmentos[q].mapeo] # Nada /\ ~ mapeos'[segmentos[q].mapeo].liberado
    <3>1. segmentos[q].mapeo \in Vivos \ {m}
      BY <1>11, <2>1
    <3>2. mapeos'[segmentos[q].mapeo] = mapeos[segmentos[q].mapeo]
      BY <1>10, <3>1
    <3> QED BY <3>1, <3>2 DEF Vivos
  <2> QED BY <1>2, <1>7, <2>1 DEF InvMapeos
<1>13. InvCuentas'
  BY <1>2, <1>9, <1>10 DEF InvCuentas
<1>14. InvLista'
  <2>1. \A n : \A q \in Usuarios(n)' : q \in Usuarios(n) /\ q \in Programas \ {p}
    BY <1>7 DEF Usuarios
  <2> QED BY <1>1, <1>2, <1>3, <1>7, <1>9, <2>1 DEF InvLista, EnLaLista
<1>15. InvMarcos'
  <2>1. ASSUME NEW n \in Vivos \ {m}
        PROVE  Presentes(n)' = Presentes(n) /\ mapeos'[n].tablaPaginas = mapeos[n].tablaPaginas
    <3>1. mapeos'[n].tablaPaginas = mapeos[n].tablaPaginas /\ Usuarios(n)' = Usuarios(n)
      BY <1>10
    <3>2. p \notin Usuarios(n)
      BY <1>0 DEF Usuarios
    <3>3. \A q \in Usuarios(n) : pc'[q] = pc[q] /\ local'[q] = local[q]
      BY <1>7, <3>2 DEF Usuarios
    <3>4. Presentes(n)' = Presentes(n)
      BY <3>1, <3>3 DEF Presentes
    <3> QED BY <3>1, <3>4
  <2>2. \A n \in Vivos' : n \in Vivos /\ Presentes(n)' = Presentes(n)
                            /\ mapeos'[n].tablaPaginas = mapeos[n].tablaPaginas
    BY <1>9, <2>1
  <2>3. ASSUME NEW n \in Vivos, Presentes(n) # {}
        PROVE  n \in Vivos' /\ Presentes(n)' = Presentes(n)
               /\ mapeos'[n].tablaPaginas = mapeos[n].tablaPaginas
    <3>1. n \in Vivos \ {m}
      BY <1>4, <2>3
    <3> QED BY <1>9, <2>1, <3>1
  <2> QED BY <1>1, <1>2, <2>2, <2>3, MarcosSi
<1>16. \A q \in Programas \ {p} : Otro(p, q)
  BY <1>7 DEF Otro
<1>17. pc[p] \in EnUnmap /\ pc[p] \notin {"get", "copy"} /\ pc'[p] \notin {"get", "copy"}
  BY <1>1, <1>7 DEF EnUnmap
<1>18. \A q \in Programas \ {p} : InvDe(q)'
  <2>1. \A q \in Programas : mapeos[q] = Nada => mapeos'[q] = Nada
    BY <1>3, <1>6 DEF Vivos
  <2>2. \A n \in Programas : mapeos[n] # Nada => mapeos'[n].tablaPaginas = mapeos[n].tablaPaginas
    BY <1>5, <1>6
  <2> QED BY <1>16, <1>17, <2>1, <2>2, Ajenos
<1>19. InvNombres => InvNombres'
  BY <1>1, <1>7 DEF InvNombres, MismoMapeo, EnLista, EnLaLista
<1>20. InvarianteM'
  BY <1>1, <1>7, <1>8, <1>12, <1>13, <1>14, <1>15, <1>16, <1>17, <1>18, PasoPropio
<1> QED BY <1>19, <1>20

LEMMA PasoDestruirPagina ==
  ASSUME InvarianteM, NEW p \in Programas, destruirPagina(p)
  PROVE  InvarianteM' /\ (InvNombres => InvNombres')
<1>0. PICK m, n, f : m = segmentos[p].mapeo /\ n = local[p].pagina /\ f = Pagina(p).nroFrame
  BY SMTT(30)
<1> DEFINE i == n + 1
           l == [local[p] EXCEPT !.pagina = i]
           flag == mapeos[m].tablaPaginas[i].flagPresencia
<1>1. /\ pc[p] = "unmap_pagina" /\ HayPagina(p) /\ Guardar(p, l) /\ pc' = pc
      /\ UNCHANGED <<mapeos, mapeosAbiertosCompartidos, segmentos, contenidoFrames, g_mutexPaginas>>
      /\ flag => /\ marcos' = marcos \ {f}
                 /\ tablasDePaginas' = [tablasDePaginas EXCEPT ![f] = Nada]
      /\ ~ flag => marcos' = marcos /\ tablasDePaginas' = tablasDePaginas
  BY ZenonT(60), <1>0 DEF destruirPagina, tablas, Pagina, Mapeo
<1>2. TiposM /\ InvMapeos /\ InvCuentas /\ InvLista /\ InvMarcos /\ local[p] \in Local
  BY SMTT(30) DEF InvarianteM, TiposM
<1>3. /\ segmentos[p] # Nada /\ m \in Vivos /\ Usuarios(m) = {p} /\ n \in Nat
      /\ Presentes(m) = {j \in 1..paginasDe[path[p]] :
                           mapeos[m].tablaPaginas[j].flagPresencia /\ j > n}
  BY SMTT(30), <1>0, <1>1, DelUltimo
<1>4. i \in 1..paginasDe[path[p]] /\ f = mapeos[m].tablaPaginas[i].nroFrame
  BY ZenonT(60), <1>0, <1>1, <1>2, <1>3, DePagina DEF Pagina, Mapeo
<1>5. l \in Local /\ l.pagina = i
  BY SMTT(30), <1>2, <1>3 DEF Local
<1> HIDE DEF l
<1>6. /\ local'[p] = l /\ (\A q \in Programas \ {p} : local'[q] = local[q])
      /\ local' \in [Programas -> Local]
  BY <1>1, <1>2, <1>5, Guarda
<1>7. Vivos' = Vivos /\ \A x : Usuarios(x)' = Usuarios(x)
  BY <1>1 DEF Vivos, Usuarios
<1>8. flag => f \in marcos /\ f \in Frame /\ i \in Presentes(m)
  BY <1>2, <1>3, <1>4 DEF InvMarcos, TiposM
<1>9. TiposM'
  <2>1. tablasDePaginas' \in [Frame -> (Programas \X Nat) \cup {Nada}]
    BY <1>1, <1>2 DEF TiposM
  <2>2. marcos' \subseteq Frame
    BY <1>1, <1>2 DEF TiposM
  <2> QED BY <1>1, <1>2, <1>6, <2>1, <2>2 DEF TiposM
<1>10. InvMapeos' /\ InvCuentas'
  BY <1>1, <1>2, <1>7 DEF InvMapeos, InvCuentas
<1>11. InvLista'
  BY <1>1, <1>2, <1>7 DEF InvLista, EnLaLista
<1>12. Presentes(m)' = Presentes(m) \ {i}
  <2>1. Presentes(m)' = {j \in DOMAIN mapeos[m].tablaPaginas :
                           mapeos[m].tablaPaginas[j].flagPresencia /\ j > i}
    BY <1>1, <1>3, <1>5, <1>6, <1>7 DEF Presentes
  <2>2. DOMAIN mapeos[m].tablaPaginas = 1..paginasDe[path[p]] /\ paginasDe[path[p]] \in Nat
    BY <1>0, <1>2, <1>3, DeSegmento, Constantes
  <2> QED BY <1>3, <2>1, <2>2
<1>13. \A x \in Vivos \ {m} : Presentes(x)' = Presentes(x)
  <2> TAKE x \in Vivos \ {m}
  <2>1. p \notin Usuarios(x)
    BY <1>0 DEF Usuarios
  <2>2. \A q \in Usuarios(x) : local'[q] = local[q]
    BY <1>6, <2>1 DEF Usuarios
  <2> QED BY <1>1, <1>7, <2>2 DEF Presentes
<1>14. \A x \in Vivos : \A j \in Presentes(x)' : j \in Presentes(x) /\ ~ (x = m /\ j = i)
  BY <1>12, <1>13
<1>15. \A x \in Vivos : \A j \in Presentes(x) : j \in Presentes(x)' \/ (x = m /\ j = i)
  BY <1>12, <1>13
<1>16. InvMarcos'
  <2> DEFINE F(x, j) == mapeos[x].tablaPaginas[j].nroFrame
  <2>1. CASE ~ flag
    <3>1. i \notin Presentes(m)
      BY <1>3, <2>1
    <3>2. \A x \in Vivos : Presentes(x)' = Presentes(x)
      BY SMTT(30), <1>12, <1>13, <3>1
    <3> QED BY <1>1, <1>2, <1>7, <2>1, <3>2, MarcosSi
  <2>2. CASE flag
    <3>1. marcos' = marcos \ {f} /\ f \in marcos /\ F(m, i) = f /\ i \in Presentes(m)
          /\ tablasDePaginas'[f] = Nada /\ \A g \in Frame \ {f} : tablasDePaginas'[g] = tablasDePaginas[g]
      BY <1>1, <1>2, <1>4, <1>8, <2>2 DEF TiposM
    <3>2. ASSUME NEW x \in Vivos, NEW j \in Presentes(x)'
          PROVE  F(x, j) \in marcos \ {f} /\ F(x, j) \in Frame \ {f}
      <4>1. j \in Presentes(x) /\ ~ (x = m /\ j = i)
        BY SMTT(30), <1>14
      <4>2. F(x, j) \in marcos
        BY SMTT(30), <1>2, <4>1 DEF InvMarcos
      <4>3. F(x, j) # F(m, i)
        BY SMTT(30), <1>2, <1>3, <3>1, <4>1 DEF InvMarcos
      <4> QED BY <1>2, <3>1, <4>2, <4>3 DEF TiposM
    <3>3. \A x \in Vivos : \A j \in Presentes(x)' :
            /\ F(x, j) \in marcos' /\ tablasDePaginas'[F(x, j)] \in Programas \X Nat
            /\ tablasDePaginas'[F(x, j)][2] = j - 1 /\ path[tablasDePaginas'[F(x, j)][1]] = path[x]
      BY SMTT(30), <1>2, <1>14, <3>1, <3>2 DEF InvMarcos
    <3>4. \A x, y \in Vivos : \A j \in Presentes(x)', k \in Presentes(y)' :
            F(x, j) = F(y, k) => x = y /\ j = k
      BY <1>2, <1>14 DEF InvMarcos
    <3>5. ASSUME NEW g \in marcos' PROVE \E x \in Vivos : \E j \in Presentes(x)' : F(x, j) = g
      <4>1. PICK x \in Vivos : \E j \in Presentes(x) : F(x, j) = g
        BY <1>2, <3>1 DEF InvMarcos
      <4>2. PICK j \in Presentes(x) : F(x, j) = g
        BY <4>1
      <4>3. ~ (x = m /\ j = i)
        BY SMTT(30), <3>1, <4>2
      <4> QED BY <1>15, <4>2, <4>3
    <3>6. \A g \in Frame \ marcos' : tablasDePaginas'[g] = Nada
      BY <1>2, <3>1 DEF InvMarcos
    <3> QED BY <1>1, <1>7, <3>3, <3>4, <3>5, <3>6 DEF InvMarcos
  <2> QED BY <2>1, <2>2
<1>17. \A q \in Programas \ {p} : Otro(p, q)
  BY <1>1, <1>6 DEF Otro
<1>18. pc[p] \in EnUnmap /\ pc[p] \notin {"get", "copy"} /\ pc'[p] \notin {"get", "copy"}
  BY <1>1 DEF EnUnmap
<1>19. \A q \in Programas \ {p} : InvDe(q)'
  BY SMTT(30), <1>1, <1>17, <1>18, Ajenos
<1>20. InvDe(p)'
  BY <1>1, <1>3, <1>7, <1>0 DEF InvDe, InvSegmento, InvLeido, InvPagina, InvSync, EnMap, EnUnmap, Cerrando,
                          Accediendo
<1>21. InvNombres => InvNombres'
  BY <1>1 DEF InvNombres, MismoMapeo, EnLista, EnLaLista
<1>22. InvarianteM'
  BY <1>1, <1>9, <1>10, <1>11, <1>16, <1>17, <1>18, <1>19, <1>20, PasoPropio
<1> QED BY <1>21, <1>22

(* What borrarMapeoAbierto leaves in the list: all but the one of that name. *)
LEMMA SinElDe ==
  ASSUME TiposM, InvLista, NEW p \in Programas, borrarMapeoAbierto(p)
  PROVE  /\ mapeosAbiertosCompartidos' \in Seq(Programas)
         /\ \A m \in Programas : EnLaLista(m)' <=> EnLaLista(m) /\ path[m] # path[p]
         /\ \A i, j \in DOMAIN mapeosAbiertosCompartidos' :
              path[mapeosAbiertosCompartidos'[i]] = path[mapeosAbiertosCompartidos'[j]] => i = j
<1> DEFINE lista == mapeosAbiertosCompartidos
           nueva == mapeosAbiertosCompartidos'
           k == existePath(path[p])
<1>1. /\ lista \in Seq(Programas) /\ Len(lista) \in Nat /\ DOMAIN lista = 1..Len(lista)
      /\ \A i \in 1..Len(lista) : lista[i] \in Programas
      /\ \A i, j \in 1..Len(lista) : path[lista[i]] = path[lista[j]] => i = j
  BY LenProperties, ElementOfSeq DEF TiposM, InvLista
<1>2. nueva = IF k = 0 THEN lista ELSE SubSeq(lista, 1, k - 1) \o SubSeq(lista, k + 1, Len(lista))
  BY DEF borrarMapeoAbierto, RemoveAt
<1>3. \/ k = 0 /\ \A m \in Programas : EnLaLista(m) => path[m] # path[p]
      \/ k \in 1..Len(lista) /\ path[lista[k]] = path[p]
  BY <1>1, PrimeroDe
<1> HIDE DEF k
<1>4. CASE k = 0 /\ \A m \in Programas : EnLaLista(m) => path[m] # path[p]
  BY <1>1, <1>2, <1>4 DEF EnLaLista
<1>5. CASE k \in 1..Len(lista) /\ path[lista[k]] = path[p]
  <2>1. k # 0
    BY SMTT(30), <1>1, <1>5
  <2>2. /\ nueva \in Seq(Programas) /\ Len(nueva) = Len(lista) - 1
        /\ \A i \in 1..(Len(lista) - 1) : nueva[i] = IF i < k THEN lista[i] ELSE lista[i + 1]
    BY ZenonT(60), <1>1, <1>2, <1>5, <2>1, Quitar
  <2>3. DOMAIN nueva = 1..(Len(lista) - 1)
    BY <2>2, LenProperties
  <2>4. \A i \in 1..Len(lista) : path[lista[i]] = path[p] <=> i = k
    BY <1>1, <1>5
  <2>5. ASSUME NEW m \in Programas, EnLaLista(m)' PROVE EnLaLista(m) /\ path[m] # path[p]
    <3>1. PICK i \in 1..(Len(lista) - 1) : nueva[i] = m
      BY <2>3, <2>5 DEF EnLaLista
    <3>2. PICK j \in 1..Len(lista) : j # k /\ lista[j] = m
      <4>1. nueva[i] = IF i < k THEN lista[i] ELSE lista[i + 1]
        BY <2>2
      <4>2. CASE i < k
        <5>1. i \in 1..Len(lista) /\ i # k /\ lista[i] = m
          BY <1>1, <1>5, <3>1, <4>1, <4>2
        <5> QED BY ONLY <5>1
      <4>3. CASE ~ (i < k)
        <5>1. i + 1 \in 1..Len(lista) /\ i + 1 # k /\ lista[i + 1] = m
          BY <1>1, <1>5, <3>1, <4>1, <4>3
        <5> QED BY ONLY <5>1
      <4> QED BY <4>2, <4>3
    <3> QED BY <1>1, <2>4, <3>2 DEF EnLaLista
  <2>6. ASSUME NEW m \in Programas, EnLaLista(m), path[m] # path[p] PROVE EnLaLista(m)'
    <3>1. PICK j \in 1..Len(lista) : lista[j] = m
      BY <1>1, <2>6 DEF EnLaLista
    <3>2. j # k
      BY <1>5, <2>6, <3>1
    <3>3. PICK i \in 1..(Len(lista) - 1) : nueva[i] = m
      <4>1. CASE j < k
        BY <1>1, <1>5, <2>2, <3>1, <4>1
      <4>2. CASE j > k
        <5>1. j - 1 \in 1..(Len(lista) - 1) /\ ~ (j - 1 < k) /\ (j - 1) + 1 = j
          BY <1>1, <1>5, <4>2
        <5> QED BY <2>2, <3>1, <5>1
      <4> QED BY <1>1, <1>5, <3>2, <4>1, <4>2
    <3> QED BY <2>3, <3>3 DEF EnLaLista
  <2>7. ASSUME NEW i \in DOMAIN nueva, NEW j \in DOMAIN nueva, path[nueva[i]] = path[nueva[j]]
        PROVE  i = j
    <3> DEFINE h(x) == IF x < k THEN x ELSE x + 1
    <3>1. h(i) \in 1..Len(lista) /\ h(j) \in 1..Len(lista) /\ nueva[i] = lista[h(i)] /\ nueva[j] = lista[h(j)]
      BY <1>1, <1>5, <2>2, <2>3
    <3>2. h(i) = h(j)
      BY <1>1, <2>7, <3>1
    <3> QED BY <1>1, <1>5, <2>3, <3>2
  <2> QED BY <2>2, <2>5, <2>6, <2>7
<1> QED BY <1>3, <1>4, <1>5

LEMMA PasoBorrar ==
  ASSUME InvarianteM, NEW p \in Programas, borrarMapeoAbierto(p)
  PROVE  InvarianteM' /\ (SinMezcla /\ InvNombres => InvNombres')
<1>0. PICK m : m = segmentos[p].mapeo
  OBVIOUS
<1>1. /\ pc[p] = "unmap_borrar" /\ Ir(p, "unmap_pagina")
      /\ UNCHANGED <<mapeos, segmentos, marcos, tablasDePaginas, contenidoFrames, g_mutexPaginas, local>>
  BY DEF borrarMapeoAbierto, frames
<1>2. TiposM /\ InvMapeos /\ InvCuentas /\ InvLista /\ InvMarcos /\ InvDe(p)
  BY DEF InvarianteM, InvDe
<1>3. segmentos[p] # Nada
  BY <1>1, ConSegmento DEF EnUnmap
<1>4. /\ m \in Vivos /\ m \in Programas /\ path[m] = path[p]
      /\ DOMAIN mapeos[m].tablaPaginas = 1..paginasDe[path[p]]
  BY <1>0, <1>2, <1>3, DeSegmento
<1>5. Usuarios(m) = {p} /\ local[p].pagina = 0
  BY <1>0, <1>1, <1>2 DEF InvDe, InvLeido, InvSegmento, Cerrando
<1>6. /\ mapeosAbiertosCompartidos' \in Seq(Programas)
      /\ \A n \in Programas : EnLaLista(n)' <=> EnLaLista(n) /\ path[n] # path[p]
      /\ \A i, j \in DOMAIN mapeosAbiertosCompartidos' :
           path[mapeosAbiertosCompartidos'[i]] = path[mapeosAbiertosCompartidos'[j]] => i = j
  BY <1>2, SinElDe
<1>7. /\ pc'[p] = "unmap_pagina" /\ \A q \in Programas \ {p} : pc'[q] = pc[q]
      /\ pc' \in [Programas -> Puntos]
  <2>1. "unmap_pagina" \in Puntos
    BY DEF Puntos, EnUnmap
  <2> QED BY <1>1, <1>2, <2>1, VaDe
<1>8. Vivos' = Vivos /\ \A x : Usuarios(x)' = Usuarios(x)
  BY <1>1 DEF Vivos, Usuarios
<1>9. TiposM'
  BY <1>1, <1>2, <1>6, <1>7 DEF TiposM
<1>10. InvMapeos' /\ InvCuentas'
  BY <1>1, <1>2, <1>8 DEF InvMapeos, InvCuentas
<1>11. \A n \in Programas \ {m} : \A q \in Usuarios(n) : q \in Programas \ {p}
  BY <1>0 DEF Usuarios
<1>12. InvLista'
  <2>1. ASSUME NEW n \in Programas, EnLaLista(n)'
        PROVE  n \in Vivos /\ flags[n] = "MAP_SHARED" /\ \A q \in Usuarios(n) : pc'[q] # "unmap_pagina"
    <3>1. EnLaLista(n) /\ n # m
      BY <1>4, <1>6, <2>1
    <3> QED BY <1>2, <1>7, <1>11, <3>1 DEF InvLista
  <2> QED BY <1>6, <1>8, <2>1 DEF InvLista
<1>13. InvMarcos'
  <2>1. ASSUME NEW n \in Vivos PROVE Presentes(n)' = Presentes(n)
    <3>1. CASE n = m
      <4>1. Presentes(m) = {i \in 1..paginasDe[path[p]] : mapeos[m].tablaPaginas[i].flagPresencia}
        BY <1>1, <1>4, <1>5 DEF Presentes
      <4>2. Presentes(m)' = {i \in 1..paginasDe[path[p]] : mapeos[m].tablaPaginas[i].flagPresencia /\ i > 0}
        BY <1>1, <1>4, <1>5, <1>7, <1>8 DEF Presentes
      <4> QED BY <3>1, <4>1, <4>2
    <3>2. CASE n # m
      <4>1. \A q \in Usuarios(n) : pc'[q] = pc[q]
        BY <1>7, <1>11, <3>2 DEF Vivos
      <4> QED BY <1>1, <1>8, <4>1 DEF Presentes
    <3> QED BY <3>1, <3>2
  <2> QED BY <1>1, <1>2, <1>8, <2>1, MarcosSi
<1>14. \A q \in Programas \ {p} : Otro(p, q)
  BY <1>1, <1>7 DEF Otro
<1>15. pc[p] \in EnUnmap /\ pc[p] \notin {"get", "copy"} /\ pc'[p] \notin {"get", "copy"}
  BY <1>1, <1>7 DEF EnUnmap
<1>16. \A q \in Programas \ {p} : InvDe(q)'
  BY <1>1, <1>14, <1>15, Ajenos
<1>17. InvDe(p)'
  BY <1>0, <1>1, <1>3, <1>5, <1>7, <1>8 DEF InvDe, InvSegmento, InvLeido, InvPagina, InvSync, EnMap,
                                             EnUnmap, Cerrando, Accediendo
<1>18. ASSUME SinMezcla, InvNombres PROVE InvNombres'
  <2>1. MismoMapeo'
    BY <1>1, <1>18 DEF InvNombres, MismoMapeo
  <2>2. ASSUME NEW q \in Programas \ {p}, segmentos[q] # Nada, segmentos[q].esCompartido,
               pc[q] # "unmap_pagina"
        PROVE  \E n \in Programas : n = segmentos[q].mapeo /\ EnLaLista(n)'
    <3>1. PICK n : n = segmentos[q].mapeo
      OBVIOUS
    <3>2. /\ n \in Programas /\ path[n] = path[q] /\ EnLaLista(n) /\ q \in Usuarios(n)
          /\ flags[q] = "MAP_SHARED"
      BY <1>2, <1>18, <2>2, <3>1, DeSegmento DEF InvNombres, EnLista, InvMapeos
    <3>3. path[q] # path[p]
      <4>1. ASSUME path[q] = path[p] PROVE FALSE
        <5>1. flags[p] = "MAP_SHARED"
          BY <1>18, <3>2, <4>1 DEF SinMezcla
        <5>2. segmentos[p].esCompartido
          BY <1>2, <1>3, <5>1 DEF InvMapeos
        <5>3. n = m
          BY <1>0, <1>3, <1>18, <2>2, <3>1, <4>1, <5>2 DEF InvNombres, MismoMapeo
        <5> QED BY <1>5, <3>2, <5>3
      <4> QED BY <4>1
    <3> QED BY <1>6, <3>1, <3>2, <3>3
  <2>3. EnLista'
    <3>1. ASSUME NEW q \in Programas, segmentos[q] # Nada, segmentos[q].esCompartido, pc'[q] # "unmap_pagina"
          PROVE  EnLaLista(segmentos[q].mapeo)'
      <4>1. q # p /\ pc[q] # "unmap_pagina"
        BY <1>7, <3>1
      <4>2. PICK n \in Programas : n = segmentos[q].mapeo /\ EnLaLista(n)'
        BY <2>2, <3>1, <4>1
      <4> QED BY <1>1, <4>2 DEF EnLaLista
    <3> QED BY <1>1, <3>1 DEF EnLista
  <2> QED BY <2>1, <2>3 DEF InvNombres
<1>19. InvarianteM'
  BY <1>1, <1>9, <1>10, <1>12, <1>13, <1>14, <1>15, <1>16, <1>17, PasoPropio
<1> QED BY <1>18, <1>19

-------------------------------------------------------------------------------
(* The invariant *)

LEMMA InicioM ==
  ASSUME Init
  PROVE  InvarianteM /\ InvNombres
<1> USE DEF Init
<1>1. TiposM
  <2>1. mapeosAbiertosCompartidos \in Seq(Programas)
    BY EmptySeq
  <2>2. contenidoFrames \in [Frame -> Contenido]
    BY Constantes
  <2>3. local \in [Programas -> Local] /\ pc \in [Programas -> Puntos]
    BY LocalesIniciales DEF Puntos, EnReposo
  <2>4. /\ mapeos \in [Programas -> (UNION {t_mapAbierto(p) : p \in Programas}) \cup {Nada}]
        /\ \A p \in Programas : mapeos[p] = Nada
    <3> DEFINE T == UNION {t_mapAbierto(p) : p \in Programas}
    <3>1. mapeos \in [Programas -> T \cup {Nada}]
      <4> HIDE DEF T
      <4> QED OBVIOUS
    <3> QED BY <3>1
  <2>5. segmentos \in [Programas -> t_segmento \cup {Nada}]
    OBVIOUS
  <2>6. tablasDePaginas \in [Frame -> (Programas \X Nat) \cup {Nada}] /\ marcos \subseteq Frame
    OBVIOUS
  <2> QED BY ONLY <2>1, <2>2, <2>3, <2>4, <2>5, <2>6 DEF TiposM
<1>2. MutexM /\ Exclusion
  BY Constantes DEF MutexM, Exclusion, EnMap, EnUnmap
<1>3. Vivos = {}
  BY DEF Vivos
<1>4. DOMAIN mapeosAbiertosCompartidos = {}
  BY EmptySeq
<1>5. InvMapeos /\ InvCuentas /\ InvLista
  BY <1>3, <1>4 DEF InvMapeos, InvCuentas, InvLista, EnLaLista
<1>6. InvMarcos
  BY <1>3 DEF InvMarcos
<1>7. \A p \in Programas : InvSegmento(p) /\ InvLeido(p) /\ InvPagina(p) /\ InvSync(p)
  BY DEF InvSegmento, InvLeido, InvPagina, InvSync, EnMap, EnUnmap, Cerrando, Accediendo
<1>8. InvNombres
  BY DEF InvNombres, MismoMapeo, EnLista
<1> QED BY <1>1, <1>2, <1>5, <1>6, <1>7, <1>8 DEF InvarianteM

LEMMA PasoServir ==
  ASSUME InvarianteM, NEW p \in Programas, Servir(p)
  PROVE  InvarianteM' /\ (SinMezcla /\ InvNombres => InvNombres')
<1>1. CASE MapSumar(p) \/ MapGuardar(p) \/ MapAgregar(p) \/ MapPrivado(p)
  BY <1>1, PasoMapSumar, PasoMapGuardar, PasoMapAgregar, PasoMapPrivado
<1>2. CASE MirarPresencia(p) \/ PaginaQueNoHay(p) \/ TraerPaginaDeMap(p) \/ UsarPagina(p)
  BY <1>2, PasoMirarPresencia, PasoTermina, PasoTraer, PasoUsarPagina
<1>3. CASE enviarRespuesta(p) \/ enviarRespuestaMsync(p)
  BY <1>3, PasoTermina, PasoMsync
<1>4. CASE UnmapRestar(p) \/ UnmapGuardar(p) \/ borrarMapeoAbierto(p)
  BY <1>4, PasoUnmapRestar, PasoUnmapGuardar, PasoBorrar
<1>5. CASE destruirPagina(p) \/ destruirSegmentoMap(p)
  BY <1>5, PasoDestruirPagina, PasoDestruirSegmento
<1> QED BY <1>1, <1>2, <1>3, <1>4, <1>5 DEF Servir

LEMMA PasoPedir ==
  ASSUME Coordinados, SyncSoloUsadas, InvarianteM, NEW p \in Programas, Pedir(p)
  PROVE  InvarianteM' /\ (InvNombres => InvNombres')
<1>1. CASE procesarMap(p) \/ procesarUnMap(p) \/ Desconectar(p)
  BY <1>1, PasoProcesarMap, PasoProcesarUnMap, PasoDesconectar
<1>2. Accesos[p] \subseteq Nat \X (Nat \ {0})
  BY MapasAssumption
<1>3. ASSUME NEW a \in Accesos[p],
             procesarGet(p, a[1], a[2]) \/ \E v \in Valores : procesarCopy(p, a[1], a[2], v)
      PROVE  InvarianteM' /\ (InvNombres => InvNombres')
  <2>1. a[1] \in Nat /\ a[2] \in Nat \ {0}
    BY <1>2
  <2>2. PICK op \in {"get", "copy"}, v \in Valores \cup {Nada} :
          (op = "copy" => v \in Valores) /\ Acceder(p, op, a[1], a[2], v)
    BY <1>3 DEF procesarGet, procesarCopy
  <2> QED BY <2>1, <2>2, PasoAcceder
<1>4. CASE \E n \in Descargas[p] : procesarSync(p, n)
  BY <1>4, PasoProcesarSync
<1> QED BY <1>1, <1>3, <1>4 DEF Pedir

LEMMA PasoM ==
  ASSUME Coordinados, SyncSoloUsadas, InvarianteM, [Next]_vars
  PROVE  InvarianteM' /\ (SinMezcla /\ InvNombres => InvNombres')
<1>1. CASE Next
  BY <1>1, PasoServir, PasoPedir DEF Next
<1>2. CASE UNCHANGED vars
  <2> USE <1>2 DEF vars, tablas, frames
  <2>1. TiposM' /\ MutexM' /\ Exclusion'
    BY DEF InvarianteM, TiposM, MutexM, Exclusion
  <2>2. Vivos' = Vivos /\ \A m : Usuarios(m)' = Usuarios(m) /\ Presentes(m)' = Presentes(m)
    BY SMTT(30) DEF Vivos, Usuarios, Presentes
  <2>3. InvMapeos' /\ InvCuentas' /\ InvLista' /\ InvMarcos'
    BY SMTT(30), <2>2 DEF InvarianteM, InvMapeos, InvCuentas, InvLista, EnLaLista, InvMarcos
  <2>4. ASSUME NEW p \in Programas
        PROVE  InvSegmento(p)' /\ InvLeido(p)' /\ InvPagina(p)' /\ InvSync(p)'
    <3>1. InvSegmento(p)' /\ InvPagina(p)'
      BY SMTT(30) DEF InvarianteM, InvSegmento, InvPagina, Accediendo, HayPagina, Pagina, Mapeo
    <3>2. InvLeido(p)'
      BY SMTT(30), <2>2 DEF InvarianteM, InvLeido, EnLaLista, Mapeo, Cerrando
    <3>3. InvSync(p)'
      BY SMTT(30) DEF InvarianteM, InvSync, Accediendo, Mapeo, YaUsadas, UltimaPagina, Largo
    <3> QED BY <3>1, <3>2, <3>3
  <2>5. InvNombres => InvNombres'
    BY DEF InvNombres, MismoMapeo, EnLista, EnLaLista
  <2> QED BY <2>1, <2>3, <2>4, <2>5 DEF InvarianteM
<1> QED BY <1>1, <1>2

(* The count of a mapping that is freed is not 0 either. *)
CuentaDeLiberados ==
  \A m \in Programas : mapeos[m] # Nada /\ mapeos[m].liberado => mapeos[m].cantProcesosUsando # 0

LEMMA DeVivo ==
  ASSUME InvarianteM, NEW m \in Vivos
  PROVE  mapeos[m].cantProcesosUsando # 0
<1>1. mapeos[m].cantProcesosUsando = Cardinality(Usuarios(m)) /\ Usuarios(m) # {}
  BY DEF InvarianteM, InvCuentas
<1> QED BY <1>1, UsuariosFinitos, FS_EmptySet

(* Who frees a mapping leaves its count. *)
LEMMA CuentaQueda ==
  ASSUME InvarianteM, [Next]_vars, NEW m \in Programas, mapeos'[m] # Nada, mapeos'[m].liberado
  PROVE  mapeos[m] # Nada /\ mapeos'[m].cantProcesosUsando = mapeos[m].cantProcesosUsando
<1>1. TiposM /\ InvMapeos /\ InvLista
  BY DEF InvarianteM
<1>2. ASSUME NEW x \in Programas, NEW r, mapeos' = [mapeos EXCEPT ![x] = r],
             x = m /\ r.liberado =>
               mapeos[x] # Nada /\ r.cantProcesosUsando = mapeos[x].cantProcesosUsando
      PROVE  mapeos[m] # Nada /\ mapeos'[m].cantProcesosUsando = mapeos[m].cantProcesosUsando
  <2>1. mapeos'[x] = r /\ \A n \in Programas \ {x} : mapeos'[n] = mapeos[n]
    BY <1>1, <1>2 DEF TiposM
  <2> QED BY <1>2, <2>1
<1>3. ASSUME NEW x \in Vivos PROVE x \in Programas /\ mapeos[x] # Nada /\ ~ mapeos[x].liberado
                                   /\ mapeos[x] \in t_mapAbierto(x)
  BY <1>1 DEF Vivos, TiposM
<1>4. ASSUME NEW p \in Programas, MapGuardar(p)
      PROVE  mapeos[m] # Nada /\ mapeos'[m].cantProcesosUsando = mapeos[m].cantProcesosUsando
  <2>1. PICK x, r : /\ x = local[p].mapeo /\ mapeos' = [mapeos EXCEPT ![x] = r]
                    /\ r = [mapeos[x] EXCEPT !.cantProcesosUsando = local[p].cant + 1]
                    /\ pc[p] = "map_guardar"
    BY <1>4 DEF MapGuardar
  <2>2. x \in Vivos
    BY <1>1, <2>1 DEF InvarianteM, InvLeido, InvLista
  <2>3. x \in Programas /\ ~ mapeos[x].liberado /\ mapeos[x] \in t_mapAbierto(x)
    BY <1>3, <2>2
  <2>4. ~ r.liberado
    BY <2>1, <2>3 DEF t_mapAbierto
  <2> QED BY <1>2, <2>1, <2>3, <2>4
<1>5. ASSUME NEW p \in Programas, MapAgregar(p) \/ MapPrivado(p)
      PROVE  mapeos[m] # Nada /\ mapeos'[m].cantProcesosUsando = mapeos[m].cantProcesosUsando
  <2>1. mapeos' = [mapeos EXCEPT ![p] = crearMapeo(p)]
    BY <1>5 DEF MapAgregar, MapPrivado
  <2> QED BY <1>2, <2>1, MapeoCreado
<1>6. ASSUME NEW p \in Programas,
             \/ TraerPaginaDeMap(p) \/ enviarRespuestaMsync(p) \/ UnmapGuardar(p)
             \/ destruirSegmentoMap(p)
      PROVE  mapeos[m] # Nada /\ mapeos'[m].cantProcesosUsando = mapeos[m].cantProcesosUsando
  <2>1. pc[p] \in {"get", "copy", "sync"} \cup EnUnmap
    BY <1>6 DEF TraerPaginaDeMap, enviarRespuestaMsync, UnmapGuardar, destruirSegmentoMap, Accediendo,
                EnUnmap
  <2>2. PICK x : x = segmentos[p].mapeo
    OBVIOUS
  <2>3. x \in Vivos
    BY <1>1, <2>1, <2>2, ConSegmento, DeSegmento
  <2>4. x \in Programas /\ mapeos[x] # Nada /\ ~ mapeos[x].liberado /\ mapeos[x] \in t_mapAbierto(x)
    BY <1>3, <2>3
  <2>5. CASE \E v : mapeos' = [mapeos EXCEPT ![x] = [mapeos[x] EXCEPT !.tablaPaginas = v]]
    BY <1>2, <2>4, <2>5 DEF t_mapAbierto
  <2>6. CASE \E v : mapeos' = [mapeos EXCEPT ![x] = [mapeos[x] EXCEPT !.contenido = v]]
    BY <1>2, <2>4, <2>6 DEF t_mapAbierto
  <2>7. CASE \E v : mapeos' = [mapeos EXCEPT ![x] = [mapeos[x] EXCEPT !.cantProcesosUsando = v]]
    BY <1>2, <2>4, <2>7 DEF t_mapAbierto
  <2>8. CASE mapeos' = [mapeos EXCEPT ![x] = [mapeos[x] EXCEPT !.liberado = TRUE]]
    BY <1>2, <2>4, <2>8 DEF t_mapAbierto
  <2> QED BY ZenonT(30), <1>6, <2>2, <2>5, <2>6, <2>7, <2>8
             DEF TraerPaginaDeMap, enviarRespuestaMsync, UnmapGuardar, destruirSegmentoMap
<1>7. CASE mapeos' = mapeos
  BY SMTT(30), <1>7
<1>8. ASSUME NEW p \in Programas, Servir(p)
      PROVE  \/ mapeos' = mapeos \/ MapGuardar(p) \/ MapAgregar(p) \/ MapPrivado(p)
             \/ TraerPaginaDeMap(p) \/ enviarRespuestaMsync(p) \/ UnmapGuardar(p)
             \/ destruirSegmentoMap(p)
  BY SMTT(30), <1>8 DEF Servir, MapSumar, MirarPresencia, PaginaQueNoHay, UsarPagina, enviarRespuesta, UnmapRestar,
              borrarMapeoAbierto, destruirPagina, tablas
<1>9. ASSUME NEW p \in Programas, Pedir(p) PROVE mapeos' = mapeos
  BY ZenonT(60), <1>9 DEF Pedir, procesarMap, procesarUnMap, Desconectar, procesarGet, procesarCopy, Acceder,
              procesarSync, tablas
<1>10. CASE Next
  BY <1>4, <1>5, <1>6, <1>7, <1>8, <1>9, <1>10 DEF Next
<1>11. CASE UNCHANGED vars
  BY <1>7, <1>11 DEF vars, tablas
<1> QED BY <1>10, <1>11

LEMMA PasoCuenta ==
  ASSUME InvarianteM, CuentaDeLiberados, [Next]_vars
  PROVE  CuentaDeLiberados'
<1> SUFFICES ASSUME NEW m \in Programas, mapeos'[m] # Nada, mapeos'[m].liberado
             PROVE  mapeos'[m].cantProcesosUsando # 0
  BY DEF CuentaDeLiberados
<1>1. mapeos[m] # Nada /\ mapeos'[m].cantProcesosUsando = mapeos[m].cantProcesosUsando
  BY CuentaQueda
<1>2. CASE m \in Vivos
  BY <1>1, <1>2, DeVivo
<1>3. CASE m \notin Vivos
  BY <1>1, <1>3 DEF CuentaDeLiberados, Vivos
<1> QED BY <1>2, <1>3

-------------------------------------------------------------------------------
(* What follows *)

(* Who maps a file shared finds in the list the mapping of the others. *)
LEMMA EncuentraElSuyo ==
  ASSUME InvarianteM, InvNombres, NEW p \in Programas, segmentos[p] # Nada,
         segmentos[p].esCompartido, ~ Cerrando(p)
  PROVE  buscarMapeoAbierto(path[p]) = segmentos[p].mapeo
<1>0. PICK m, i : m = segmentos[p].mapeo /\ i = existePath(path[p])
  OBVIOUS
<1>1. TiposM /\ InvMapeos /\ InvLista
  BY DEF InvarianteM
<1>2. m \in Programas /\ path[m] = path[p]
  BY <1>0, <1>1, DeSegmento
<1>3. EnLaLista(m)
  BY <1>0 DEF InvNombres, EnLista, Cerrando
<1>4. /\ i \in DOMAIN mapeosAbiertosCompartidos /\ path[mapeosAbiertosCompartidos[i]] = path[p]
      /\ buscarMapeoAbierto(path[p]) = mapeosAbiertosCompartidos[i]
  BY <1>0, <1>1, <1>2, <1>3, PrimeroDe DEF TiposM
<1>5. mapeosAbiertosCompartidos[i] = m
  BY <1>1, <1>2, <1>3, <1>4 DEF InvLista, EnLaLista
<1> QED BY <1>0, <1>4, <1>5

(* The pages of MarcosExactos are all the pages there are. *)
LEMMA PaginasDeTodos ==
  ASSUME NEW p \in Programas
  PROVE  paginasDe[path[p]] <= Max({paginasDe[path[q]] : q \in Programas})
         /\ Max({paginasDe[path[q]] : q \in Programas}) \in Nat
<1> DEFINE T == {paginasDe[path[q]] : q \in Programas}
           g == [q \in Programas |-> paginasDe[path[q]]]
<1>1. T \subseteq Nat /\ paginasDe[path[p]] \in T
  BY Constantes
<1>2. g \in Surjection(Programas, T)
  BY DEF Surjection
<1> HIDE DEF T, g
<1>3. IsFiniteSet(T)
  BY <1>2, Constantes, FS_Surjection
<1>4. Max(T) \in T /\ \A n \in T : n <= Max(T)
  BY <1>1, <1>3, MaximoDe
<1> QED BY <1>1, <1>4 DEF T

LEMMA MarcoDePagina ==
  ASSUME InvarianteM, NEW f \in Frame
  PROVE  LET ahi == {e \in Vivos \X (1..Max({paginasDe[path[p]] : p \in Programas})) :
                       e[2] \in Presentes(e[1]) /\ mapeos[e[1]].tablaPaginas[e[2]].nroFrame = f}
         IN IF f \in marcos THEN Cardinality(ahi) = 1
                                 /\ \A e \in ahi : tablasDePaginas[f][2] = e[2] - 1
                                                   /\ path[tablasDePaginas[f][1]] = path[e[1]]
            ELSE ahi = {} /\ tablasDePaginas[f] = Nada
<1> DEFINE todas == 1..Max({paginasDe[path[p]] : p \in Programas})
           F(m, i) == mapeos[m].tablaPaginas[i].nroFrame
           ahi == {e \in Vivos \X todas : e[2] \in Presentes(e[1]) /\ F(e[1], e[2]) = f}
<1>1. TiposM /\ InvMarcos
  BY DEF InvarianteM
<1>2. ASSUME NEW m \in Vivos, NEW i \in Presentes(m) PROVE i \in todas
  <2>1. m \in Programas /\ mapeos[m] \in t_mapAbierto(m)
    BY <1>1 DEF Vivos, TiposM
  <2>2. i \in 1..paginasDe[path[m]]
    BY <2>1 DEF Presentes, t_mapAbierto
  <2>3. paginasDe[path[m]] \in Nat
    BY <2>1, Constantes
  <2> QED BY <2>1, <2>2, <2>3, PaginasDeTodos
<1> HIDE DEF todas
<1>3. ASSUME f \in marcos
      PROVE  Cardinality(ahi) = 1 /\ \A e \in ahi : tablasDePaginas[f][2] = e[2] - 1
                                                   /\ path[tablasDePaginas[f][1]] = path[e[1]]
  <2>1. PICK m \in Vivos : \E i \in Presentes(m) : F(m, i) = f
    BY <1>1, <1>3 DEF InvMarcos
  <2>2. PICK i \in Presentes(m) : F(m, i) = f
    BY <2>1
  <2>3. ahi = {<<m, i>>}
    <3>1. <<m, i>> \in ahi
      BY <1>2, <2>2
    <3>2. ASSUME NEW e \in ahi PROVE e = <<m, i>>
      <4>1. PICK x \in Vivos, j \in todas : e = <<x, j>>
        OBVIOUS
      <4>2. j \in Presentes(x) /\ F(x, j) = f
        BY SMTT(30), <4>1
      <4>3. x = m /\ j = i
        BY SMTT(30), <1>1, <2>2, <4>2 DEF InvMarcos
      <4> QED BY <4>1, <4>3
    <3> HIDE DEF ahi
    <3> QED BY <3>1, <3>2
  <2> HIDE DEF ahi
  <2>4. Cardinality(ahi) = 1
    BY <2>3, FS_Singleton
  <2>5. tablasDePaginas[f][2] = i - 1 /\ path[tablasDePaginas[f][1]] = path[m]
    BY SMTT(30), <1>1, <2>2 DEF InvMarcos
  <2> QED BY SMTT(30), <2>3, <2>4, <2>5
<1>4. ASSUME f \notin marcos PROVE ahi = {} /\ tablasDePaginas[f] = Nada
  <2>1. ASSUME NEW e \in ahi PROVE FALSE
    <3>1. PICK x \in Vivos, j \in todas : e = <<x, j>>
      OBVIOUS
    <3>2. j \in Presentes(x) /\ F(x, j) = f
      BY <3>1
    <3> QED BY <1>1, <1>4, <3>2 DEF InvMarcos
  <2>2. tablasDePaginas[f] = Nada
    BY <1>1, <1>4 DEF InvMarcos
  <2> HIDE DEF ahi
  <2> QED BY <2>1, <2>2
<1> HIDE DEF ahi
<1>5. IF f \in marcos THEN Cardinality(ahi) = 1 /\ \A e \in ahi : tablasDePaginas[f][2] = e[2] - 1
                                                              /\ path[tablasDePaginas[f][1]] = path[e[1]]
      ELSE ahi = {} /\ tablasDePaginas[f] = Nada
  BY <1>3, <1>4
<1> QED BY <1>5 DEF ahi, todas

-------------------------------------------------------------------------------
(* Theorems *)

(* The inductive invariant: of programs that take turns to map and unmap and *)
(* sync only pages that are in, the count of each mapping, the list of       *)
(* shared ones, the frames and what each request in progress has read agree. *)
THEOREM InvarianteMTheorem == Coordinados /\ SyncSoloUsadas => (Spec => []InvarianteM)
<1> SUFFICES ASSUME Coordinados, SyncSoloUsadas PROVE Spec => []InvarianteM
  OBVIOUS
<1>1. Init => InvarianteM
  BY InicioM
<1>2. InvarianteM /\ [Next]_vars => InvarianteM'
  BY PasoM
<1> QED BY <1>1, <1>2, PTL DEF Spec

(* Types, positive counts, and g_mutexPaginas held exactly by the get or the *)
(* copy in progress, for the same programs.                                  *)
THEOREM TypeOKMapasTheorem ==
  Coordinados /\ SyncSoloUsadas => (Spec => []TypeOKMapas)
<1>1. Init => CuentaDeLiberados
  BY DEF Init, CuentaDeLiberados
<1>2. InvarianteM /\ CuentaDeLiberados /\ [Next]_vars => CuentaDeLiberados'
  BY PasoCuenta
<1>3. InvarianteM /\ CuentaDeLiberados => TypeOKMapas
  <2> SUFFICES ASSUME InvarianteM, CuentaDeLiberados PROVE TypeOKMapas
    OBVIOUS
  <2>1. TiposM /\ MutexM
    BY DEF InvarianteM
  <2>2. ASSUME NEW p \in Programas, mapeos[p] # Nada
        PROVE  mapeos[p] \in t_mapAbierto(p) /\ mapeos[p].cantProcesosUsando # 0
    BY <2>1, <2>2, DeVivo DEF TiposM, Vivos, CuentaDeLiberados
  <2>3. \A p \in Programas : segmentos[p] # Nada => segmentos[p] \in t_segmento
    BY <2>1 DEF TiposM
  <2> QED BY <2>1, <2>2, <2>3 DEF TypeOKMapas, TiposM, MutexM, Puntos
<1> QED BY <1>1, <1>2, <1>3, InvarianteMTheorem, PTL DEF Spec

(* Maps and unmaps that take turns count right: muse_unmap closes a mapping  *)
(* only for its last user, whatever gets, copies, syncs and ends of others   *)
(* run between its steps.  It says nothing of two at once (muse_desmapeo).   *)
THEOREM CierraElUltimoTheorem ==
  Coordinados /\ SyncSoloUsadas => (Spec => []CierraElUltimo)
<1>1. InvarianteM => CierraElUltimo
  <2> SUFFICES ASSUME InvarianteM, NEW p \in Programas, segmentos[p] # Nada
               PROVE  /\ ~ mapeos[segmentos[p].mapeo].liberado
                      /\ \A q \in Usuarios(segmentos[p].mapeo) \ {p} : ~ Cerrando(q)
    BY DEF CierraElUltimo
  <2>0. PICK m : m = segmentos[p].mapeo
    OBVIOUS
  <2>1. ~ mapeos[m].liberado /\ p \in Usuarios(m)
    BY <2>0, DeSegmento DEF InvarianteM
  <2>2. ASSUME NEW q \in Usuarios(m) \ {p}, Cerrando(q) PROVE FALSE
    <3>1. q \in Programas /\ segmentos[q].mapeo = m
      BY DEF Usuarios
    <3>2. Usuarios(m) = {q}
      BY <2>2, <3>1 DEF InvarianteM, InvLeido
    <3> QED BY <2>1, <3>2
  <2> QED BY <2>0, <2>1, <2>2
<1> QED BY <1>1, InvarianteMTheorem, PTL

(* Of the same programs, no frame is lost and none is used twice: the bits   *)
(* of g_bitarray_marcos and the entries of the frames are those of the pages *)
(* of the mappings in use.                                                   *)
THEOREM MarcosExactosTheorem ==
  Coordinados /\ SyncSoloUsadas => (Spec => []MarcosExactos)
<1>1. InvarianteM => MarcosExactos
  BY MarcoDePagina DEF MarcosExactos
<1> QED BY <1>1, InvarianteMTheorem, PTL

(* Of those that map a file all shared or all private, too, the count of     *)
(* each mapping is the number of its users, and the list has for each file   *)
(* the one mapping that all of them use.                                     *)
THEOREM MapeosConsistentesTheorem ==
  Coordinados /\ SyncSoloUsadas /\ SinMezcla => (Spec => []MapeosConsistentes)
<1> SUFFICES ASSUME Coordinados, SyncSoloUsadas, SinMezcla PROVE Spec => []MapeosConsistentes
  OBVIOUS
<1>1. Init => InvNombres
  BY InicioM
<1>2. InvarianteM /\ InvNombres /\ [Next]_vars => InvNombres'
  BY PasoM
<1>3. InvarianteM /\ InvNombres => MapeosConsistentes
  <2> SUFFICES ASSUME InvarianteM, InvNombres PROVE MapeosConsistentes
    OBVIOUS
  <2>1. \A m \in Vivos : mapeos[m].cantProcesosUsando = Cardinality(Usuarios(m))
    BY DEF InvarianteM, InvCuentas
  <2>2. MismoMapeo
    BY DEF InvNombres
  <2> QED BY <2>1, <2>2, EncuentraElSuyo DEF MapeosConsistentes
<1>4. Spec => []InvarianteM
  BY InvarianteMTheorem
<1> QED BY <1>1, <1>2, <1>3, <1>4, PTL DEF Spec

-------------------------------------------------------------------------------
(* The images: what the refinement needs of the contents *)

(* Files and programs name images apart. *)
NombresAparte == \A p \in Programas : path[p] # Nada /\ path[p] \notin Programas

(* A page that has not come in has its own number, where its content is.     *)
SinTraer ==
  \A m \in Vivos : \A i \in DOMAIN mapeos[m].tablaPaginas :
    ~ mapeos[m].tablaPaginas[i].flagPresencia => mapeos[m].tablaPaginas[i].nroFrame = i - 1

(* Where a get or a copy is: it has gone over no page, or over pages that    *)
(* there are.                                                                *)
InvAcceso(p) ==
  pc[p] \in {"get", "copy"} =>
    /\ local[p].tam # 0
    /\ local[p].pagina \in (local[p].dir \div lengthPagina)..(UltimaPagina(p) + 1)
    /\ local[p].fase # "mirar" => local[p].pagina <= UltimaPagina(p)
    /\ local[p].pagina # local[p].dir \div lengthPagina => local[p].pagina <= paginasDe[path[p]]

(* The first address that it has still to reach.                             *)
Llegado(p) ==
  IF local[p].pagina = local[p].dir \div lengthPagina THEN local[p].dir
  ELSE IF local[p].pagina <= UltimaPagina(p) THEN local[p].pagina * lengthPagina
  ELSE local[p].dir + local[p].tam

(* What a copy has written is in the mapping, and what a get has read.       *)
InvCopiado(p) ==
  pc[p] = "copy" =>
    \A a \in 0..(Largo(p) - 1) : a >= local[p].dir /\ a < Llegado(p) =>
      ByteEn(segmentos[p].mapeo, a) = Dato(local[p].dato, a - local[p].dir)
InvObtenido(p) ==
  pc[p] = "get" =>
    /\ local[p].dir + Len(local[p].leido) = Llegado(p)
    /\ \A k \in 1..Len(local[p].leido) :
         /\ local[p].dir + k - 1 < Largo(p)
         /\ local[p].leido[k] = ByteEn(segmentos[p].mapeo, local[p].dir + k - 1)

InvImagenes ==
  SinTraer /\ \A p \in Programas : InvAcceso(p) /\ InvCopiado(p) /\ InvObtenido(p)

-------------------------------------------------------------------------------
(* Addresses of an access *)

LEMMA EnPagina ==
  ASSUME NEW n \in Nat, NEW a \in Nat, n * lengthPagina <= a, a < (n + 1) * lengthPagina
  PROVE  a \div lengthPagina = n /\ a % lengthPagina = a - n * lengthPagina
<1> DEFINE d == a \div lengthPagina
<1>1. d \in Nat /\ a = d * lengthPagina + (a % lengthPagina) /\ a % lengthPagina \in 0..(lengthPagina - 1)
  BY Division
<1>2. d < n + 1 /\ ~ (d < n)
  <2>1. n * lengthPagina \in Nat /\ n + 1 \in Nat
    BY Constantes
  <2>2. ~ (a < n * lengthPagina)
    BY <2>1
  <2> QED BY <2>1, <2>2, DivisionMenor
<1>3. lengthPagina \in Nat
  BY Constantes
<1> HIDE DEF d
<1>4. d = n
  BY <1>1, <1>2
<1> DEFINE x == n * lengthPagina
           r == a % lengthPagina
<1>5. x \in Nat /\ r \in Nat /\ a = x + r
  BY <1>1, <1>3, <1>4
<1> HIDE DEF x, r
<1>6. r = a - x
  BY <1>5
<1> QED BY <1>4, <1>6 DEF d, x, r

(* What an access of t bytes from d on finds on page n: from s to e - 1.     *)
Desde(d, n) == IF n = d \div lengthPagina THEN d ELSE n * lengthPagina
Hasta(d, t, n) == IF n + 1 <= (d + t - 1) \div lengthPagina THEN (n + 1) * lengthPagina ELSE d + t

LEMMA TramoDePagina ==
  ASSUME NEW d \in Nat, NEW t \in Nat \ {0}, NEW n \in Nat,
         d \div lengthPagina <= n, n <= (d + t - 1) \div lengthPagina
  PROVE  /\ Desde(d, n) \in Nat /\ Hasta(d, t, n) \in Nat
         /\ n * lengthPagina <= Desde(d, n) /\ Desde(d, n) < Hasta(d, t, n)
         /\ Hasta(d, t, n) <= (n + 1) * lengthPagina
         /\ d <= Desde(d, n) /\ Hasta(d, t, n) <= d + t
         /\ \A k \in 0..(lengthPagina - 1) :
              n * lengthPagina + k \in d..(d + t - 1) <=>
              n * lengthPagina + k \in Desde(d, n)..(Hasta(d, t, n) - 1)
<1> DEFINE x == n * lengthPagina
           y == (n + 1) * lengthPagina
           u == (d + t - 1) \div lengthPagina
           s == Desde(d, n)
           e == Hasta(d, t, n)
<1>1. lengthPagina \in Nat \ {0} /\ x \in Nat /\ y = x + lengthPagina /\ d + t - 1 \in Nat
  BY Constantes
<1>2. d \div lengthPagina \in Nat /\ u \in Nat
  BY <1>1, Division
<1>3. d < y
  <2>1. d \div lengthPagina < n + 1
    BY <1>2
  <2> QED BY <2>1, DivisionMenor
<1>4. d \div lengthPagina = n => x <= d
  <2>1. ~ (d \div lengthPagina < n) => ~ (d < x)
    BY DivisionMenor
  <2> QED BY <1>1, <1>2, <2>1
<1>5. d \div lengthPagina # n => d < x
  <2>1. d \div lengthPagina < n => d < x
    BY DivisionMenor
  <2> QED BY <1>2, <2>1
<1>6. x <= d + t - 1
  <2>1. ~ (u < n) => ~ (d + t - 1 < x)
    BY <1>1, DivisionMenor
  <2> QED BY <1>1, <1>2, <2>1
<1>7. n + 1 <= u <=> y <= d + t - 1
  <2>1. u < n + 1 <=> d + t - 1 < y
    BY <1>1, DivisionMenor
  <2> QED BY <1>1, <1>2, <2>1
<1>8. s = IF n = d \div lengthPagina THEN d ELSE x
  BY DEF Desde
<1>9. e = IF n + 1 <= u THEN y ELSE d + t
  BY DEF Hasta
<1> HIDE DEF x, y, u, s, e
<1>10. /\ s \in Nat /\ e \in Nat /\ x <= s /\ s < e /\ e <= y /\ d <= s /\ e <= d + t
  BY <1>1, <1>3, <1>4, <1>5, <1>6, <1>7, <1>8, <1>9
<1>11. \A k \in 0..(lengthPagina - 1) : x + k \in d..(d + t - 1) <=> x + k \in s..(e - 1)
  BY <1>1, <1>3, <1>4, <1>5, <1>6, <1>7, <1>8, <1>9
<1> QED BY <1>10, <1>11 DEF x, y, s, e

LEMMA CantidadDePagina ==
  ASSUME NEW d \in Nat, NEW t \in Nat \ {0}, NEW n \in Nat,
         d \div lengthPagina <= n, n <= (d + t - 1) \div lengthPagina
  PROVE  Cardinality({k \in 0..(lengthPagina - 1) : n * lengthPagina + k \in d..(d + t - 1)})
           = Hasta(d, t, n) - Desde(d, n)
<1> DEFINE x == n * lengthPagina
           s == Desde(d, n)
           e == Hasta(d, t, n)
           S == {k \in 0..(lengthPagina - 1) : x + k \in d..(d + t - 1)}
<1>1. /\ s \in Nat /\ e \in Nat /\ x <= s /\ s < e /\ e <= (n + 1) * lengthPagina
      /\ \A k \in 0..(lengthPagina - 1) : x + k \in d..(d + t - 1) <=> x + k \in s..(e - 1)
  BY TramoDePagina
<1>2. lengthPagina \in Nat \ {0} /\ x \in Nat /\ (n + 1) * lengthPagina = x + lengthPagina
  BY Constantes
<1> HIDE DEF x, s, e
<1>3. S = (s - x)..(e - 1 - x)
  <2>1. \A k \in 0..(lengthPagina - 1) : k \in S <=> x + k \in s..(e - 1)
    BY <1>1
  <2>2. \A k \in Int : x + k \in s..(e - 1) <=> k \in (s - x)..(e - 1 - x)
    BY <1>1, <1>2
  <2>3. (s - x)..(e - 1 - x) \subseteq 0..(lengthPagina - 1)
    BY <1>1, <1>2
  <2>4. S \subseteq 0..(lengthPagina - 1) /\ 0..(lengthPagina - 1) \subseteq Int
    BY <1>2
  <2> HIDE DEF S
  <2> QED BY <2>1, <2>2, <2>3, <2>4
<1>4. s - x \in Int /\ e - 1 - x \in Int /\ ~ (s - x > e - 1 - x)
  BY <1>1, <1>2
<1>5. Cardinality((s - x)..(e - 1 - x)) = (e - 1 - x) - (s - x) + 1
  BY <1>4, FS_Interval
<1>6. Cardinality(S) = (e - 1 - x) - (s - x) + 1
  BY <1>3, <1>5
<1> HIDE DEF S
<1>7. Cardinality(S) = e - s
  BY <1>1, <1>2, <1>6
<1> QED BY <1>7 DEF S, s, e, x

-------------------------------------------------------------------------------
(* The contents of the mappings that somebody uses *)

EnUso(p) == segmentos[p] # Nada /\ pc[p] \notin EnUnmap
Abiertos == {m \in Programas : \E p \in Programas : EnUso(p) /\ segmentos[p].mapeo = m}

(* A step that leaves alone what those mappings contain.                     *)
ByteIgual == \A m \in Abiertos : \A a \in 0..(Largo(m) - 1) : ByteEn(m, a)' = ByteEn(m, a)

LEMMA DeAbierto ==
  ASSUME InvarianteM, NEW m \in Abiertos
  PROVE  /\ m \in Programas /\ m \in Vivos /\ mapeos[m] \in t_mapAbierto(m)
         /\ mapeos[m].tablaPaginas \in [1..paginasDe[path[m]] -> EnFrame]
         /\ DOMAIN mapeos[m].tablaPaginas = 1..paginasDe[path[m]]
         /\ Len(mapeos[m].tablaPaginas) = paginasDe[path[m]]
         /\ \A i \in 1..paginasDe[path[m]] : mapeos[m].tablaPaginas[i].flagPresencia =>
              /\ i \in Presentes(m) /\ mapeos[m].tablaPaginas[i].nroFrame \in marcos
              /\ mapeos[m].tablaPaginas[i].nroFrame \in Frame
<1>1. TiposM /\ InvMapeos /\ InvMarcos
  BY DEF InvarianteM
<1>2. PICK q \in Programas : EnUso(q) /\ segmentos[q].mapeo = m
  BY DEF Abiertos
<1>3. /\ m \in Programas /\ m \in Vivos /\ mapeos[m] \in t_mapAbierto(m) /\ path[m] = path[q]
      /\ mapeos[m].tablaPaginas \in [1..paginasDe[path[q]] -> EnFrame]
      /\ Len(mapeos[m].tablaPaginas) = paginasDe[path[q]] /\ q \in Usuarios(m)
  BY <1>1, <1>2, DeSegmento DEF EnUso
<1>4. DOMAIN mapeos[m].tablaPaginas = 1..paginasDe[path[m]]
  BY <1>3
<1>5. ASSUME NEW r \in Usuarios(m) PROVE pc[r] # "unmap_pagina"
  <2>1. r \in Programas /\ segmentos[r].mapeo = m
    BY DEF Usuarios
  <2>2. pc[r] = "unmap_pagina" => Usuarios(m) = {r}
    BY <2>1 DEF InvarianteM, InvLeido, Cerrando
  <2> QED BY <1>2, <1>3, <2>2 DEF EnUso, EnUnmap
<1>6. ASSUME NEW i \in 1..paginasDe[path[m]], mapeos[m].tablaPaginas[i].flagPresencia
      PROVE  i \in Presentes(m)
  BY <1>4, <1>5, <1>6 DEF Presentes
<1>7. ASSUME NEW i \in Presentes(m)
      PROVE  mapeos[m].tablaPaginas[i].nroFrame \in marcos /\ mapeos[m].tablaPaginas[i].nroFrame \in Frame
  BY <1>1, <1>3, <1>7 DEF InvMarcos, TiposM
<1> QED BY <1>3, <1>4, <1>6, <1>7

(* Who uses a mapping. *)
LEMMA DeUso ==
  ASSUME InvarianteM, NEW p \in Programas, EnUso(p)
  PROVE  /\ segmentos[p].mapeo \in Abiertos /\ segmentos[p].mapeo \in Programas
         /\ path[segmentos[p].mapeo] = path[p] /\ Largo(segmentos[p].mapeo) = Largo(p)
<1>1. segmentos[p].mapeo \in Programas /\ path[segmentos[p].mapeo] = path[p]
  BY DeSegmento DEF InvarianteM, EnUso
<1> QED BY <1>1 DEF Abiertos, Largo

LEMMA PaginaDeByte ==
  ASSUME NEW m \in Programas, NEW a \in 0..(Largo(m) - 1)
  PROVE  /\ a \in Nat /\ a \div lengthPagina \in 0..(paginasDe[path[m]] - 1)
         /\ a \div lengthPagina + 1 \in 1..paginasDe[path[m]]
         /\ a % lengthPagina \in 0..(lengthPagina - 1)
<1>1. paginasDe[path[m]] \in Nat /\ Largo(m) \in Nat
  BY Constantes
<1>2. a \in Nat /\ a < Largo(m)
  BY <1>1
<1>3. a \div lengthPagina \in Nat /\ a % lengthPagina \in 0..(lengthPagina - 1)
  BY <1>2, Division
<1>4. a \div lengthPagina < paginasDe[path[m]]
  BY <1>1, <1>2, DivisionMenor DEF Largo
<1> QED BY <1>1, <1>2, <1>3, <1>4

LEMMA ByteDe ==
  ASSUME InvarianteM, NEW m \in Abiertos, NEW a \in 0..(Largo(m) - 1)
  PROVE  ByteEn(m, a) \in Byte
<1>1. /\ m \in Programas /\ mapeos[m] \in t_mapAbierto(m)
      /\ \A i \in 1..paginasDe[path[m]] : mapeos[m].tablaPaginas[i].flagPresencia =>
           mapeos[m].tablaPaginas[i].nroFrame \in Frame
  BY DeAbierto
<1>2. PICK n, k : n = a \div lengthPagina /\ k = a % lengthPagina
  OBVIOUS
<1>3. n \in 0..(paginasDe[path[m]] - 1) /\ n + 1 \in 1..paginasDe[path[m]] /\ k \in 0..(lengthPagina - 1)
  BY <1>1, <1>2, PaginaDeByte
<1>4. contenidoFrames \in [Frame -> Contenido]
  BY DEF InvarianteM, TiposM
<1>5. mapeos[m].contenido \in [0..(paginasDe[path[m]] - 1) -> Contenido]
  BY <1>1 DEF t_mapAbierto
<1>6. mapeos[m].contenido[n] \in Contenido
  BY <1>3, <1>5
<1>7. ByteEn(m, a) = IF mapeos[m].tablaPaginas[n + 1].flagPresencia
                     THEN contenidoFrames[mapeos[m].tablaPaginas[n + 1].nroFrame][k]
                     ELSE mapeos[m].contenido[n][k]
  BY <1>2 DEF ByteEn
<1>8. CASE mapeos[m].tablaPaginas[n + 1].flagPresencia
  <2>1. PICK f \in Frame : f = mapeos[m].tablaPaginas[n + 1].nroFrame
    BY <1>1, <1>3, <1>8
  <2>2. contenidoFrames[f] \in Contenido
    BY <1>4
  <2>3. ByteEn(m, a) = contenidoFrames[f][k]
    BY <1>7, <1>8, <2>1
  <2> QED BY <1>3, <2>2, <2>3 DEF Contenido
<1>9. CASE ~ mapeos[m].tablaPaginas[n + 1].flagPresencia
  <2>1. ByteEn(m, a) = mapeos[m].contenido[n][k]
    BY <1>7, <1>9
  <2> QED BY <1>3, <1>6, <2>1 DEF Contenido
<1> QED BY <1>8, <1>9

LEMMA ByteIgualSi ==
  ASSUME contenidoFrames' = contenidoFrames,
         \A m \in Abiertos : /\ mapeos'[m].tablaPaginas = mapeos[m].tablaPaginas
                             /\ mapeos'[m].contenido = mapeos[m].contenido
  PROVE  ByteIgual
BY DEF ByteIgual, ByteEn

InvDeAcceso(p) == InvAcceso(p) /\ InvCopiado(p) /\ InvObtenido(p)

(* The access of q reaches as far as before. *)
MismoAcceso(q) ==
  /\ pc'[q] = pc[q] /\ segmentos'[q] = segmentos[q]
  /\ local'[q].dir = local[q].dir /\ local'[q].tam = local[q].tam /\ local'[q].dato = local[q].dato
  /\ local'[q].pagina = local[q].pagina /\ local'[q].leido = local[q].leido
  /\ local'[q].fase # local[q].fase => local[q].pagina <= UltimaPagina(q)

LEMMA AccesoMismo ==
  ASSUME InvarianteM, InvImagenes, ByteIgual, NEW q \in Programas, MismoAcceso(q)
  PROVE  InvDeAcceso(q)'
<1> USE DEF MismoAcceso
<1>1. InvAcceso(q) /\ InvCopiado(q) /\ InvObtenido(q)
  BY DEF InvImagenes
<1>2. UltimaPagina(q)' = UltimaPagina(q)
  BY DEF UltimaPagina
<1>3. Llegado(q)' = Llegado(q)
  BY <1>2 DEF Llegado
<1>4. InvAcceso(q)'
  BY <1>1, <1>2 DEF InvAcceso
<1>5. CASE pc[q] \notin {"get", "copy"}
  BY <1>4, <1>5 DEF InvDeAcceso, InvCopiado, InvObtenido
<1>6. CASE pc[q] \in {"get", "copy"}
  <2>0. PICK m : m = segmentos[q].mapeo
    OBVIOUS
  <2>1. EnUso(q)
    BY <1>6, ConSegmento DEF InvarianteM, EnUso, EnUnmap
  <2>2. m \in Abiertos /\ Largo(m) = Largo(q)
    BY <2>0, <2>1, DeUso
  <2>3. \A a \in 0..(Largo(q) - 1) : ByteEn(m, a)' = ByteEn(m, a)
    BY <2>2 DEF ByteIgual
  <2>4. segmentos'[q].mapeo = m
    BY <2>0
  <2>5. InvCopiado(q)'
    BY <1>1, <1>3, <2>0, <2>3, <2>4 DEF InvCopiado
  <2>6. InvObtenido(q)'
    <3> SUFFICES ASSUME pc'[q] = "get"
                 PROVE  /\ local'[q].dir + Len(local'[q].leido) = Llegado(q)'
                        /\ \A k \in 1..Len(local'[q].leido) :
                             /\ local'[q].dir + k - 1 < Largo(q)
                             /\ local'[q].leido[k]
                                  = ByteEn(segmentos[q].mapeo, local[q].dir + k - 1)'
      BY DEF InvObtenido
    <3>1. /\ local[q].dir + Len(local[q].leido) = Llegado(q)
          /\ \A k \in 1..Len(local[q].leido) :
               /\ local[q].dir + k - 1 < Largo(q)
               /\ local[q].leido[k] = ByteEn(m, local[q].dir + k - 1)
      BY <1>1, <2>0 DEF InvObtenido
    <3>2. local[q].dir \in Nat /\ Largo(q) \in Nat
      BY Constantes DEF InvarianteM, TiposM, Local
    <3>3. ASSUME NEW k \in 1..Len(local[q].leido)
          PROVE  /\ local[q].dir + k - 1 < Largo(q)
                 /\ local[q].leido[k] = ByteEn(segmentos[q].mapeo, local[q].dir + k - 1)'
      <4>1. k \in Nat /\ k >= 1
        OBVIOUS
      <4>2. local[q].dir + k - 1 < Largo(q) /\ local[q].leido[k] = ByteEn(m, local[q].dir + k - 1)
        BY <3>1
      <4>3. local[q].dir + k - 1 \in 0..(Largo(q) - 1)
        BY SMTT(30), <3>2, <4>1, <4>2
      <4>4. PICK a : a = local[q].dir + k - 1
        OBVIOUS
      <4>5. ByteEn(m, a)' = ByteEn(m, a)
        BY <2>3, <4>3, <4>4
      <4>6. local'[q].dir + k - 1 = a
        BY <4>4
      <4>7. ByteEn(segmentos[q].mapeo, local[q].dir + k - 1)' = ByteEn(m, a)'
        BY Zenon, <2>4, <4>6 DEF ByteEn
      <4> QED BY <4>2, <4>4, <4>5, <4>7
    <3> QED BY <1>3, <3>1, <3>3
  <2> QED BY <1>4, <2>5, <2>6 DEF InvDeAcceso
<1> QED BY <1>5, <1>6

LEMMA SinAcceso ==
  ASSUME NEW p \in Programas, pc'[p] \notin {"get", "copy"}
  PROVE  InvDeAcceso(p)'
BY DEF InvDeAcceso, InvAcceso, InvCopiado, InvObtenido

LEMMA SinTraerSi ==
  ASSUME SinTraer,
         \A m \in Vivos' : m \in Vivos /\ mapeos'[m].tablaPaginas = mapeos[m].tablaPaginas
  PROVE  SinTraer'
BY DEF SinTraer

(* What remains to prove of a step that changes no content. *)
LEMMA ImagenesSi ==
  ASSUME InvarianteM, InvImagenes, ByteIgual, NEW p \in Programas, SinTraer', InvDeAcceso(p)',
         \A q \in Programas \ {p} : Otro(p, q)
  PROVE  InvImagenes'
<1>1. \A q \in Programas : InvDeAcceso(q)'
  BY AccesoMismo DEF Otro, MismoAcceso
<1> QED BY <1>1 DEF InvImagenes, InvDeAcceso

(* Most steps touch neither mappings nor contents.                           *)
SinTocar(p) ==
  /\ UNCHANGED <<mapeos, contenidoFrames>> /\ pc'[p] \notin {"get", "copy"}
  /\ \A q \in Programas \ {p} : Otro(p, q)

LEMMA QueNoTocan ==
  ASSUME TiposM, NEW p \in Programas,
         \/ procesarMap(p) \/ MapSumar(p) \/ PaginaQueNoHay(p) \/ enviarRespuesta(p)
         \/ procesarUnMap(p) \/ UnmapRestar(p) \/ borrarMapeoAbierto(p) \/ destruirPagina(p)
         \/ Desconectar(p) \/ (\E n \in Descargas[p] : procesarSync(p, n))
  PROVE  SinTocar(p)
<1> USE DEF Ir, Guardar, SinTocar, Otro, TiposM, tablas, frames
<1>1. CASE procesarMap(p)
  BY <1>1 DEF procesarMap
<1>2. CASE MapSumar(p)
  BY <1>2 DEF MapSumar
<1>3. CASE PaginaQueNoHay(p)
  BY <1>3 DEF PaginaQueNoHay
<1>4. CASE enviarRespuesta(p)
  BY <1>4 DEF enviarRespuesta
<1>5. CASE procesarUnMap(p)
  BY <1>5 DEF procesarUnMap
<1>6. CASE UnmapRestar(p)
  BY <1>6 DEF UnmapRestar
<1>7. CASE borrarMapeoAbierto(p)
  BY <1>7 DEF borrarMapeoAbierto
<1>8. CASE destruirPagina(p)
  <2>1. pc[p] = "unmap_pagina"
    BY <1>8 DEF destruirPagina
  <2>2. UNCHANGED <<mapeos, segmentos, contenidoFrames, pc>>
    BY <1>8 DEF destruirPagina
  <2>3. local' = [local EXCEPT ![p] = [local[p] EXCEPT !.pagina = @ + 1]]
    BY <1>8 DEF destruirPagina
  <2> QED BY <2>1, <2>2, <2>3
<1>9. CASE Desconectar(p)
  BY <1>9 DEF Desconectar
<1>10. CASE \E n \in Descargas[p] : procesarSync(p, n)
  BY <1>10 DEF procesarSync
<1> QED BY <1>1, <1>2, <1>3, <1>4, <1>5, <1>6, <1>7, <1>8, <1>9, <1>10

LEMMA ImagenesSinTocar ==
  ASSUME InvarianteM, InvImagenes, NEW p \in Programas, SinTocar(p)
  PROVE  InvImagenes' /\ ByteIgual
<1>1. ByteIgual
  BY ByteIgualSi DEF SinTocar
<1>2. SinTraer'
  <2>1. SinTraer
    BY DEF InvImagenes
  <2>2. \A m \in Vivos' : m \in Vivos /\ mapeos'[m].tablaPaginas = mapeos[m].tablaPaginas
    BY DEF SinTocar, Vivos
  <2> QED BY <2>1, <2>2, SinTraerSi
<1>3. InvDeAcceso(p)'
  BY SinAcceso DEF SinTocar
<1> QED BY <1>1, <1>2, <1>3, ImagenesSi DEF SinTocar

(* A step that changes of a mapping its count, or that it is freed.          *)
LEMMA ImagenesCuenta ==
  ASSUME InvarianteM, InvImagenes, NEW p \in Programas,
         MapGuardar(p) \/ UnmapGuardar(p) \/ destruirSegmentoMap(p)
  PROVE  /\ InvImagenes' /\ ByteIgual /\ \A q \in Programas \ {p} : Otro(p, q)
<1> DEFINE Campo(m, r) ==
             /\ mapeos' = [mapeos EXCEPT ![m] = r]
             /\ r.tablaPaginas = mapeos[m].tablaPaginas /\ r.contenido = mapeos[m].contenido
           Demas ==
             /\ pc'[p] \notin {"get", "copy"} /\ contenidoFrames' = contenidoFrames
             /\ \A q \in Programas \ {p} : Otro(p, q)
<1>0. TiposM /\ InvMapeos /\ InvDe(p)
  BY DEF InvarianteM, InvDe
<1>1. Demas
  <2> USE <1>0 DEF Ir, Guardar, Otro, TiposM, frames
  <2>1. CASE MapGuardar(p)
    BY <2>1 DEF MapGuardar, Mapeado
  <2>2. CASE UnmapGuardar(p) \/ destruirSegmentoMap(p)
    BY <2>2 DEF UnmapGuardar, destruirSegmentoMap, SinSegmento
  <2> QED BY <2>1, <2>2
<1>2. \E m \in Vivos : \E r : Campo(m, r)
  <2>1. ASSUME NEW m \in Vivos
        PROVE  mapeos[m] \in t_mapAbierto(m) /\ m \in Programas
    BY <1>0 DEF Vivos, TiposM
  <2>2. CASE MapGuardar(p)
    <3>1. PICK m : m = local[p].mapeo
      OBVIOUS
    <3>2. m \in Vivos
      BY <1>0, <2>2, <3>1 DEF MapGuardar, InvDe, InvLeido, InvarianteM, InvLista
    <3> DEFINE r == [mapeos[m] EXCEPT !.cantProcesosUsando = local[p].cant + 1]
    <3>3. mapeos' = [mapeos EXCEPT ![m] = r]
      BY <2>2, <3>1 DEF MapGuardar
    <3>4. r.tablaPaginas = mapeos[m].tablaPaginas /\ r.contenido = mapeos[m].contenido
      BY <2>1, <3>2 DEF t_mapAbierto
    <3> HIDE DEF r
    <3> QED BY <3>2, <3>3, <3>4
  <2>3. CASE UnmapGuardar(p) \/ destruirSegmentoMap(p)
    <3>1. PICK m : m = segmentos[p].mapeo
      OBVIOUS
    <3>2. segmentos[p] # Nada
      BY <2>3, ConSegmento DEF UnmapGuardar, destruirSegmentoMap, EnUnmap
    <3>3. m \in Vivos
      BY <1>0, <3>1, <3>2, DeSegmento
    <3>4. CASE UnmapGuardar(p)
      <4> DEFINE r == [mapeos[m] EXCEPT !.cantProcesosUsando = local[p].cant - 1]
      <4>1. mapeos' = [mapeos EXCEPT ![m] = r]
        BY <3>1, <3>4 DEF UnmapGuardar
      <4>2. r.tablaPaginas = mapeos[m].tablaPaginas /\ r.contenido = mapeos[m].contenido
        BY <2>1, <3>3 DEF t_mapAbierto
      <4> HIDE DEF r
      <4> QED BY <3>3, <4>1, <4>2
    <3>5. CASE destruirSegmentoMap(p)
      <4> DEFINE r == [mapeos[m] EXCEPT !.liberado = TRUE]
      <4>1. mapeos' = [mapeos EXCEPT ![m] = r]
        BY <3>1, <3>5 DEF destruirSegmentoMap
      <4>2. r.tablaPaginas = mapeos[m].tablaPaginas /\ r.contenido = mapeos[m].contenido
        BY <2>1, <3>3 DEF t_mapAbierto
      <4> HIDE DEF r
      <4> QED BY <3>3, <4>1, <4>2
    <3> QED BY <2>3, <3>4, <3>5
  <2> QED BY <2>2, <2>3
<1>3. PICK m \in Vivos : \E r : Campo(m, r)
  BY <1>2
<1>4. PICK r : Campo(m, r)
  BY <1>3
<1>5. m \in Programas /\ mapeos \in [Programas -> (UNION {t_mapAbierto(q) : q \in Programas}) \cup {Nada}]
  BY <1>0 DEF Vivos, TiposM
<1>6. mapeos'[m] = r /\ \A n \in Programas \ {m} : mapeos'[n] = mapeos[n]
  BY <1>4, <1>5
<1>7. \A n \in Programas : /\ mapeos'[n].tablaPaginas = mapeos[n].tablaPaginas
                           /\ mapeos'[n].contenido = mapeos[n].contenido
  BY <1>4, <1>6
<1>8. ByteIgual
  BY <1>1, <1>7, ByteIgualSi DEF Abiertos
<1>9. SinTraer'
  <2>1. SinTraer
    BY DEF InvImagenes
  <2>2. \A n \in Vivos' : n \in Programas /\ n \in Vivos
    BY <1>6 DEF Vivos
  <2> QED BY <1>7, <2>1, <2>2, SinTraerSi
<1>10. InvDeAcceso(p)'
  BY <1>1, SinAcceso
<1> QED BY <1>1, <1>8, <1>9, <1>10, ImagenesSi

(* A mapping that is new has all its pages out, in zeros.                    *)
LEMMA ImagenesNuevas ==
  ASSUME InvarianteM, InvImagenes, NEW p \in Programas, MapAgregar(p) \/ MapPrivado(p)
  PROVE  /\ InvImagenes' /\ ByteIgual /\ \A q \in Programas \ {p} : Otro(p, q)
         /\ p \notin Vivos /\ mapeos'[p] = crearMapeo(p)
<1>1. TiposM /\ InvDe(p)
  BY DEF InvarianteM, InvDe
<1>2. /\ mapeos' = [mapeos EXCEPT ![p] = crearMapeo(p)] /\ contenidoFrames' = contenidoFrames
      /\ pc'[p] = "libre" /\ \A q \in Programas \ {p} : Otro(p, q)
  BY <1>1 DEF MapAgregar, MapPrivado, Mapeado, Ir, Guardar, Otro, TiposM, frames
<1>3. mapeos[p] = Nada
  BY <1>1 DEF MapAgregar, MapPrivado, InvDe, InvSegmento, EnMap
<1>4. p \notin Vivos /\ p \notin Abiertos
  <2>1. p \notin Vivos
    BY <1>3 DEF Vivos
  <2> QED BY <2>1, DeAbierto
<1>5. mapeos'[p] = crearMapeo(p) /\ \A n \in Programas \ {p} : mapeos'[n] = mapeos[n]
  BY <1>1, <1>2 DEF TiposM
<1>6. ByteIgual
  <2>1. \A n \in Abiertos : n \in Programas \ {p}
    BY <1>4 DEF Abiertos
  <2> QED BY <1>2, <1>5, <2>1, ByteIgualSi
<1>7. SinTraer'
  <2>1. ASSUME NEW i \in DOMAIN crearMapeo(p).tablaPaginas
        PROVE  crearMapeo(p).tablaPaginas[i].nroFrame = i - 1
    BY <2>1 DEF crearMapeo, crearPaginaMap
  <2>2. \A n \in Vivos' : n = p \/ (n \in Vivos /\ n \in Programas \ {p})
    BY <1>5 DEF Vivos
  <2> QED BY <1>5, <2>1, <2>2 DEF SinTraer, InvImagenes
<1>8. InvDeAcceso(p)'
  BY <1>2, SinAcceso
<1> QED BY <1>2, <1>4, <1>5, <1>6, <1>7, <1>8, ImagenesSi

(* A sync changes the content of pages that are in a frame.                  *)
LEMMA ImagenesMsync ==
  ASSUME InvarianteM, InvImagenes, NEW p \in Programas, enviarRespuestaMsync(p)
  PROVE  /\ InvImagenes' /\ ByteIgual /\ pc[p] = "sync" /\ pc'[p] = "libre"
         /\ UNCHANGED <<segmentos, g_mutexPaginas>> /\ \A q \in Programas \ {p} : Otro(p, q)
<1>0. PICK m, d : m = segmentos[p].mapeo /\ d = mapeos[m].contenido
  OBVIOUS
<1> DEFINE e == [n \in DOMAIN d |-> [k \in 0..(lengthPagina - 1) |->
                   LET a == n * lengthPagina + k IN
                   IF a < local[p].tam THEN local[p].leido[a + 1] ELSE d[n][k]]]
           r == [mapeos[m] EXCEPT !.contenido = e]
<1>1. TiposM /\ InvMapeos /\ InvDe(p)
  BY DEF InvarianteM, InvDe
<1>2. /\ pc[p] = "sync" /\ pc'[p] = "libre" /\ contenidoFrames' = contenidoFrames
      /\ UNCHANGED <<segmentos, g_mutexPaginas>> /\ \A q \in Programas \ {p} : Otro(p, q)
  BY <1>1 DEF enviarRespuestaMsync, Ir, Guardar, Otro, TiposM, frames
<1>3. mapeos' = [mapeos EXCEPT ![m] = r]
  BY <1>0 DEF enviarRespuestaMsync
<1>4. m \in Programas /\ mapeos[m] \in t_mapAbierto(m) /\ path[m] = path[p] /\ m \in Vivos
  BY <1>0, <1>1, <1>2, ConSegmento, DeSegmento
<1>5. r.tablaPaginas = mapeos[m].tablaPaginas /\ r.contenido = e
  <2> HIDE DEF e
  <2> QED BY <1>4 DEF t_mapAbierto
<1> HIDE DEF r
<1>6. mapeos'[m] = r /\ \A n \in Programas \ {m} : mapeos'[n] = mapeos[n]
  BY <1>1, <1>3, <1>4 DEF TiposM
<1>7. /\ local[p].dir = 0 /\ local[p].tam \in Nat \ {0}
      /\ \A n \in 0..((local[p].tam - 1) \div lengthPagina) : mapeos[m].tablaPaginas[n + 1].flagPresencia
  <2>1. /\ local[p].dir = 0 /\ local[p].tam \in 1..Largo(p) /\ YaUsadas(p, local[p].tam)
    BY <1>1, <1>2 DEF InvDe, InvSync
  <2> QED BY <1>0, <2>1, Constantes DEF YaUsadas
<1>8. ASSUME NEW a \in 0..(Largo(m) - 1) PROVE ByteEn(m, a)' = ByteEn(m, a)
  <2>1. PICK n, k : n = a \div lengthPagina /\ k = a % lengthPagina
    OBVIOUS
  <2>2. /\ a \in Nat /\ n \in 0..(paginasDe[path[m]] - 1) /\ n + 1 \in 1..paginasDe[path[m]]
        /\ k \in 0..(lengthPagina - 1)
    BY <1>4, <2>1, PaginaDeByte
  <2>3. a = n * lengthPagina + k
    BY <2>1, <2>2, Division
  <2>4. CASE mapeos[m].tablaPaginas[n + 1].flagPresencia
    BY <1>2, <1>5, <1>6, <2>1, <2>4 DEF ByteEn
  <2>5. CASE ~ mapeos[m].tablaPaginas[n + 1].flagPresencia
    <3>1. ~ (a < local[p].tam)
      <4>1. ~ (n \in 0..((local[p].tam - 1) \div lengthPagina))
        BY <1>7, <2>5
      <4>2. local[p].tam - 1 \in Nat
        BY <1>7
      <4>3. (local[p].tam - 1) \div lengthPagina \in Nat
        BY <4>2, Division
      <4>4. (local[p].tam - 1) \div lengthPagina < n
        BY <2>2, <4>1, <4>3
      <4>5. local[p].tam - 1 < n * lengthPagina
        BY <2>2, <4>2, <4>4, DivisionMenor
      <4>6. n * lengthPagina \in Nat /\ k \in Nat
        BY <2>2, Constantes
      <4> QED BY <1>7, <2>3, <4>5, <4>6
    <3>2. n \in DOMAIN d
      <4>1. d \in [0..(paginasDe[path[m]] - 1) -> Contenido]
        BY <1>0, <1>4 DEF t_mapAbierto
      <4> QED BY <2>2, <4>1
    <3>3. e[n][k] = d[n][k]
      <4>1. e[n][k] = LET b == n * lengthPagina + k IN
                      IF b < local[p].tam THEN local[p].leido[b + 1] ELSE d[n][k]
        BY <2>2, <3>2
      <4> HIDE DEF e
      <4> QED BY <2>3, <3>1, <4>1
    <3>4. ByteEn(m, a)' = e[n][k]
      <4> HIDE DEF e
      <4> QED BY <1>5, <1>6, <2>1, <2>5 DEF ByteEn
    <3>5. ByteEn(m, a) = d[n][k]
      BY <1>0, <2>1, <2>5 DEF ByteEn
    <3> QED BY <3>3, <3>4, <3>5
  <2> QED BY <2>4, <2>5
<1> HIDE DEF e
<1>9. ByteIgual
  <2>1. ASSUME NEW n \in Abiertos, n # m, NEW a \in 0..(Largo(n) - 1) PROVE ByteEn(n, a)' = ByteEn(n, a)
    <3>1. mapeos'[n] = mapeos[n]
      BY <1>6, <2>1 DEF Abiertos
    <3> QED BY <1>2, <3>1 DEF ByteEn
  <2> QED BY <1>8, <2>1 DEF ByteIgual
<1>10. SinTraer'
  <2>1. \A n \in Vivos' : n \in Vivos /\ mapeos'[n].tablaPaginas = mapeos[n].tablaPaginas
    BY <1>4, <1>5, <1>6 DEF Vivos
  <2> QED BY <2>1, SinTraerSi DEF InvImagenes
<1>11. InvDeAcceso(p)'
  BY <1>2, SinAcceso
<1> QED BY <1>2, <1>9, <1>10, <1>11, ImagenesSi

(* An access begins, or is refused. *)
LEMMA ImagenesAcceder ==
  ASSUME InvarianteM, InvImagenes, NEW p \in Programas, NEW op \in {"get", "copy"},
         NEW dir \in Nat, NEW tam \in Nat \ {0}, NEW v, Acceder(p, op, dir, tam, v)
  PROVE  /\ InvImagenes' /\ ByteIgual /\ UNCHANGED segmentos /\ \A q \in Programas \ {p} : Otro(p, q)
         /\ pc[p] = "libre" /\ g_mutexPaginas = Nada
         /\ \/ pc'[p] = "fin" /\ g_mutexPaginas' = Nada
            \/ /\ pc'[p] = op /\ g_mutexPaginas' = p
               /\ local'[p].dir = dir /\ local'[p].tam = tam /\ local'[p].dato = v
               /\ local'[p].pagina = dir \div lengthPagina
<1> DEFINE l == [LocalInicial EXCEPT !.dir = dir, !.tam = tam, !.dato = v, !.pagina = dir \div lengthPagina]
<1>1. TiposM
  BY DEF InvarianteM
<1>2. /\ UNCHANGED <<mapeos, segmentos, contenidoFrames>>
      /\ pc[p] = "libre" /\ g_mutexPaginas = Nada /\ local' = [local EXCEPT ![p] = l]
  BY DEF Acceder, Guardar, tablas, frames, LibreElMutex
<1>3. /\ l.dir = dir /\ l.tam = tam /\ l.dato = v /\ l.pagina = dir \div lengthPagina
      /\ l.fase = "mirar" /\ l.leido = <<>>
  BY DEF LocalInicial
<1> HIDE DEF l
<1>4. \/ pc' = [pc EXCEPT ![p] = "fin"] /\ g_mutexPaginas' = Nada
      \/ pc' = [pc EXCEPT ![p] = op] /\ g_mutexPaginas' = p
  BY DEF Acceder, Ir
<1>5. /\ local'[p] = l /\ \A q \in Programas \ {p} : Otro(p, q)
  BY <1>1, <1>2, <1>4 DEF TiposM, Otro
<1>6. \/ pc'[p] = "fin" /\ g_mutexPaginas' = Nada
      \/ pc'[p] = op /\ g_mutexPaginas' = p
  BY <1>1, <1>4 DEF TiposM
<1>7. ByteIgual
  BY <1>2, ByteIgualSi
<1>8. SinTraer'
  BY <1>2 DEF SinTraer, InvImagenes, Vivos
<1>9. dir + tam - 1 \in Nat /\ dir \div lengthPagina \in Nat /\ (dir + tam - 1) \div lengthPagina \in Nat
  <2>1. dir + tam - 1 \in Nat
    OBVIOUS
  <2> QED BY <2>1, Division
<1>10. dir \div lengthPagina <= (dir + tam - 1) \div lengthPagina
  <2>1. PICK u \in Nat : u = (dir + tam - 1) \div lengthPagina
    BY <1>9
  <2>2. dir + tam - 1 < (u + 1) * lengthPagina
    BY <1>9, <2>1, DivisionMenor
  <2>3. (u + 1) * lengthPagina \in Nat
    BY Constantes
  <2>4. dir < (u + 1) * lengthPagina
    BY <2>2, <2>3
  <2>5. dir \div lengthPagina < u + 1
    BY <2>4, DivisionMenor
  <2> QED BY <1>9, <2>1, <2>5
<1>11. InvDeAcceso(p)'
  <2>1. UltimaPagina(p)' = (dir + tam - 1) \div lengthPagina
    BY <1>3, <1>5 DEF UltimaPagina
  <2>2. InvAcceso(p)'
    BY <1>3, <1>5, <1>9, <1>10, <2>1 DEF InvAcceso
  <2>3. Llegado(p)' = dir
    BY <1>3, <1>5 DEF Llegado
  <2>4. InvCopiado(p)'
    BY <1>3, <1>5, <2>3, Constantes DEF InvCopiado
  <2>5. InvObtenido(p)'
    BY <1>3, <1>5, <2>3, EmptySeq DEF InvObtenido
  <2> QED BY <2>2, <2>4, <2>5 DEF InvDeAcceso
<1> QED BY <1>2, <1>3, <1>5, <1>6, <1>7, <1>8, <1>11, ImagenesSi

LEMMA ImagenesMirar ==
  ASSUME InvarianteM, InvImagenes, NEW p \in Programas, MirarPresencia(p)
  PROVE  InvImagenes' /\ ByteIgual /\ MismoAcceso(p) /\ \A q \in Programas \ {p} : Otro(p, q)
<1>1. TiposM /\ local[p] \in Local
  BY DEF InvarianteM, TiposM
<1>2. PICK f : local' = [local EXCEPT ![p] = [local[p] EXCEPT !.fase = f]]
  BY DEF MirarPresencia, Fase, Guardar
<1>3. UNCHANGED <<mapeos, segmentos, contenidoFrames, pc>> /\ local[p].pagina <= UltimaPagina(p)
  BY DEF MirarPresencia, tablas, frames
<1>4. local'[p] = [local[p] EXCEPT !.fase = f] /\ \A q \in Programas \ {p} : Otro(p, q)
  BY <1>1, <1>2, <1>3 DEF TiposM, Otro
<1>5. MismoAcceso(p)
  BY <1>1, <1>3, <1>4 DEF MismoAcceso, Local
<1>6. ByteIgual
  BY <1>3, ByteIgualSi
<1>7. SinTraer'
  BY <1>3 DEF SinTraer, InvImagenes, Vivos
<1>8. InvDeAcceso(p)'
  BY <1>5, <1>6, AccesoMismo
<1> QED BY <1>4, <1>5, <1>6, <1>7, <1>8, ImagenesSi

(* A page that comes in brings the content it had.                           *)
LEMMA ImagenesTraer ==
  ASSUME InvarianteM, InvImagenes, NEW p \in Programas, TraerPaginaDeMap(p)
  PROVE  InvImagenes' /\ ByteIgual /\ MismoAcceso(p) /\ \A q \in Programas \ {p} : Otro(p, q)
<1>0. PICK f, m, n : f = Min(Frame \ marcos) /\ m = segmentos[p].mapeo /\ n = local[p].pagina
  OBVIOUS
<1> DEFINE i == n + 1
           t == [mapeos[m].tablaPaginas EXCEPT ![i] = [nroFrame |-> f, flagPresencia |-> TRUE]]
           r == [mapeos[m] EXCEPT !.tablaPaginas = t]
           c == traerContenidoMap(Pagina(p).nroFrame, mapeos[m].contenido)
           l == [local[p] EXCEPT !.fase = "usar"]
<1>1. /\ Accediendo(p, "traer") /\ Frame \ marcos # {}
      /\ contenidoFrames' = [contenidoFrames EXCEPT ![f] = c]
      /\ mapeos' = [mapeos EXCEPT ![m] = r]
      /\ local' = [local EXCEPT ![p] = l] /\ pc' = pc /\ segmentos' = segmentos
  BY <1>0 DEF TraerPaginaDeMap, Fase, Guardar
<1>2. TiposM /\ InvMapeos /\ InvDe(p) /\ InvAcceso(p) /\ SinTraer
  BY DEF InvarianteM, InvDe, InvImagenes
<1>3. /\ segmentos[p] # Nada /\ pc[p] \in {"get", "copy"} /\ HayPagina(p)
      /\ ~ Pagina(p).flagPresencia /\ local[p].pagina <= UltimaPagina(p)
  BY <1>1, <1>2, ConSegmento DEF InvDe, InvPagina, Accediendo, InvAcceso
<1>4. EnUso(p)
  BY <1>3 DEF EnUso, EnUnmap
<1>5. /\ m \in Vivos /\ m \in Abiertos /\ m \in Programas /\ mapeos[m] \in t_mapAbierto(m)
      /\ path[m] = path[p]
      /\ mapeos[m].tablaPaginas \in [1..paginasDe[path[p]] -> EnFrame]
  BY <1>0, <1>2, <1>3, <1>4, DeSegmento, DeUso
<1>6. n \in Nat /\ i \in 1..paginasDe[path[p]]
  BY <1>0, <1>2, <1>3, DePagina
<1>7. f \in Frame \ marcos
  <2>1. Frame \ marcos \in SUBSET Frame
    OBVIOUS
  <2>2. Frame \ marcos \subseteq Nat /\ IsFiniteSet(Frame \ marcos)
    BY <2>1, Constantes, FS_Subset
  <2> QED BY <1>0, <1>1, <2>2, MinimoDe
<1>8. ~ mapeos[m].tablaPaginas[i].flagPresencia /\ mapeos[m].tablaPaginas[i].nroFrame = n
  <2>1. ~ mapeos[m].tablaPaginas[i].flagPresencia
    BY <1>0, <1>3 DEF Pagina, Mapeo
  <2>2. i \in DOMAIN mapeos[m].tablaPaginas
    BY <1>5, <1>6
  <2>3. mapeos[m].tablaPaginas[i].nroFrame = i - 1
    BY <1>2, <1>5, <2>1, <2>2 DEF SinTraer
  <2> QED BY <1>6, <2>1, <2>3
<1>9. c = mapeos[m].contenido[n]
  <2>1. mapeos[m].contenido \in [0..(paginasDe[path[p]] - 1) -> Contenido]
    BY <1>5 DEF t_mapAbierto
  <2>2. n \in 0..(paginasDe[path[p]] - 1)
    BY <1>6, Constantes
  <2>3. n \in DOMAIN mapeos[m].contenido
    BY <2>1, <2>2
  <2>4. Pagina(p).nroFrame = n
    BY <1>0, <1>8 DEF Pagina, Mapeo
  <2> QED BY <2>3, <2>4 DEF traerContenidoMap
<1> HIDE DEF c
<1>10. /\ t[i] = [nroFrame |-> f, flagPresencia |-> TRUE] /\ DOMAIN t = DOMAIN mapeos[m].tablaPaginas
       /\ \A j \in DOMAIN mapeos[m].tablaPaginas : j # i => t[j] = mapeos[m].tablaPaginas[j]
  BY <1>5, <1>6
<1> HIDE DEF t, i
<1>11. r.tablaPaginas = t /\ r.contenido = mapeos[m].contenido
  BY <1>5 DEF t_mapAbierto
<1>12. local[p] \in Local
  BY <1>2 DEF TiposM
<1>13. /\ local'[p] = l /\ \A q \in Programas \ {p} : Otro(p, q)
  BY <1>1, <1>2 DEF TiposM, Otro
<1>14. MismoAcceso(p)
  <2>1. /\ l.dir = local[p].dir /\ l.tam = local[p].tam /\ l.dato = local[p].dato
        /\ l.pagina = local[p].pagina /\ l.leido = local[p].leido
    BY <1>12 DEF Local
  <2> HIDE DEF l
  <2> QED BY <1>1, <1>3, <1>13, <2>1 DEF MismoAcceso
<1> HIDE DEF r
<1>15. mapeos'[m] = r /\ \A x \in Programas \ {m} : mapeos'[x] = mapeos[x]
  BY <1>1, <1>2, <1>5 DEF TiposM
<1>16. contenidoFrames'[f] = c /\ \A g \in Frame \ {f} : contenidoFrames'[g] = contenidoFrames[g]
  BY <1>1, <1>2, <1>7 DEF TiposM
<1>17. ASSUME NEW x \in Abiertos, NEW a \in 0..(Largo(x) - 1) PROVE ByteEn(x, a)' = ByteEn(x, a)
  <2>1. PICK h, k : h = a \div lengthPagina /\ k = a % lengthPagina
    OBVIOUS
  <2>2. x \in Programas
    BY DEF Abiertos
  <2>3. h + 1 \in 1..paginasDe[path[x]] /\ h \in Nat
    BY <2>1, <2>2, PaginaDeByte
  <2>4. CASE x = m /\ h + 1 = i
    <3>1. ByteEn(x, a)' = contenidoFrames'[f][k]
      BY <1>10, <1>11, <1>15, <2>1, <2>4 DEF ByteEn
    <3>2. h = n
      BY <1>6, <2>3, <2>4 DEF i
    <3>3. ByteEn(x, a) = mapeos[m].contenido[n][k]
      BY <1>8, <2>1, <2>4, <3>2 DEF ByteEn
    <3> QED BY <1>9, <1>16, <3>1, <3>3
  <2>5. CASE ~ (x = m /\ h + 1 = i)
    <3>1. /\ mapeos'[x].tablaPaginas[h + 1] = mapeos[x].tablaPaginas[h + 1]
          /\ mapeos'[x].contenido = mapeos[x].contenido
      <4>1. CASE x # m
        BY <1>15, <2>2, <4>1
      <4>2. CASE x = m
        <5>1. h + 1 \in DOMAIN mapeos[m].tablaPaginas /\ h + 1 # i
          BY <2>3, <2>5, <4>2, <1>5
        <5> QED BY <1>10, <1>11, <1>15, <4>2, <5>1
      <4> QED BY <4>1, <4>2
    <3>2. mapeos[x].tablaPaginas[h + 1].flagPresencia => mapeos[x].tablaPaginas[h + 1].nroFrame \in Frame \ {f}
      <4>1. mapeos[x].tablaPaginas[h + 1].flagPresencia =>
              /\ mapeos[x].tablaPaginas[h + 1].nroFrame \in marcos
              /\ mapeos[x].tablaPaginas[h + 1].nroFrame \in Frame
        BY <2>3, DeAbierto
      <4> QED BY <1>7, <4>1
    <3> QED BY <1>16, <2>1, <3>1, <3>2 DEF ByteEn
  <2> QED BY <2>4, <2>5
<1>18. ByteIgual
  BY <1>17 DEF ByteIgual
<1>19. SinTraer'
  <2>1. ASSUME NEW x \in Vivos', NEW j \in DOMAIN mapeos'[x].tablaPaginas,
               ~ mapeos'[x].tablaPaginas[j].flagPresencia
        PROVE  mapeos'[x].tablaPaginas[j].nroFrame = j - 1
    <3>1. x \in Programas
      BY DEF Vivos
    <3>2. CASE x # m
      <4>1. mapeos'[x] = mapeos[x]
        BY <1>15, <3>1, <3>2
      <4>2. x \in Vivos
        BY <3>1, <4>1 DEF Vivos
      <4> QED BY <1>2, <2>1, <4>1, <4>2 DEF SinTraer
    <3>3. CASE x = m
      <4>1. mapeos'[x].tablaPaginas = t
        BY <1>11, <1>15, <3>3
      <4>2. j # i
        BY <1>10, <2>1, <4>1
      <4>3. j \in DOMAIN mapeos[m].tablaPaginas /\ t[j] = mapeos[m].tablaPaginas[j]
        BY <1>10, <4>1, <4>2
      <4> QED BY <1>2, <1>5, <2>1, <4>1, <4>3 DEF SinTraer
    <3> QED BY <3>2, <3>3
  <2> QED BY <2>1 DEF SinTraer
<1>20. InvDeAcceso(p)'
  BY <1>14, <1>18, AccesoMismo
<1> QED BY <1>13, <1>14, <1>18, <1>19, <1>20, ImagenesSi

(* The page that an access uses, and the addresses it goes over.             *)
LEMMA PaginaEnUso ==
  ASSUME InvarianteM, InvImagenes, NEW p \in Programas, UsarPagina(p), pc[p] \in {"get", "copy"}
  PROVE  LET n == local[p].pagina
             d == local[p].dir
             m == segmentos[p].mapeo
             s == Desde(d, n)
             e == Hasta(d, local[p].tam, n)
         IN /\ n \in Nat /\ d \in Nat /\ local[p].tam \in Nat \ {0}
            /\ d \div lengthPagina <= n /\ n <= UltimaPagina(p)
            /\ n + 1 \in 1..paginasDe[path[p]]
            /\ m \in Abiertos /\ path[m] = path[p] /\ EnUso(p)
            /\ Pagina(p) = mapeos[m].tablaPaginas[n + 1] /\ Pagina(p).flagPresencia
            /\ Pagina(p).nroFrame \in Frame
            /\ Llegado(p) = s
            /\ s \in Nat /\ e \in Nat /\ d <= s /\ s < e /\ e <= Largo(p) /\ e <= (n + 1) * lengthPagina
            /\ n * lengthPagina <= s
<1>0. PICK n, d, t, m : n = local[p].pagina /\ d = local[p].dir /\ t = local[p].tam /\ m = segmentos[p].mapeo
  OBVIOUS
<1>1. TiposM /\ InvMapeos /\ InvDe(p) /\ InvAcceso(p) /\ Accediendo(p, "usar") /\ segmentos[p] # Nada
  BY ConSegmento DEF InvarianteM, InvDe, InvImagenes, UsarPagina
<1>2. HayPagina(p) /\ Pagina(p).flagPresencia
  BY <1>1 DEF InvDe, InvPagina
<1>3. n \in Nat /\ d \in Nat /\ t \in Nat
  BY <1>0, <1>1 DEF TiposM, Local
<1>4. n + 1 \in 1..paginasDe[path[p]]
  BY <1>0, <1>1, <1>2, DePagina
<1>5. EnUso(p)
  BY <1>1 DEF EnUso, EnUnmap
<1>6. m \in Abiertos /\ path[m] = path[p]
  BY <1>0, <1>5, DeUso
<1>7. Pagina(p) = mapeos[m].tablaPaginas[n + 1]
  BY <1>0 DEF Pagina, Mapeo
<1>8. Pagina(p).nroFrame \in Frame
  BY <1>2, <1>4, <1>6, <1>7, DeAbierto
<1>9. t # 0 /\ d \div lengthPagina <= n /\ n <= (d + t - 1) \div lengthPagina
      /\ UltimaPagina(p) = (d + t - 1) \div lengthPagina
  <2>1. t # 0 /\ n \in (d \div lengthPagina)..(UltimaPagina(p) + 1) /\ n <= UltimaPagina(p)
    BY <1>0, <1>1 DEF InvAcceso, Accediendo
  <2> QED BY <1>0, <2>1 DEF UltimaPagina
<1>10. /\ Desde(d, n) \in Nat /\ Hasta(d, t, n) \in Nat
       /\ n * lengthPagina <= Desde(d, n) /\ Desde(d, n) < Hasta(d, t, n)
       /\ Hasta(d, t, n) <= (n + 1) * lengthPagina /\ d <= Desde(d, n)
  BY <1>3, <1>9, TramoDePagina
<1>11. Llegado(p) = Desde(d, n)
  BY <1>0, <1>9 DEF Llegado, Desde
<1>12. Hasta(d, t, n) <= Largo(p)
  <2>0. paginasDe[path[p]] \in Nat
    BY Constantes
  <2>1. PICK h \in Nat : h = paginasDe[path[p]] - (n + 1)
    BY <1>3, <1>4, <2>0
  <2>2. paginasDe[path[p]] = (n + 1) + h
    BY <1>3, <2>0, <2>1
  <2>3. Largo(p) = ((n + 1) + h) * lengthPagina
    BY <2>2 DEF Largo
  <2>4. lengthPagina \in Nat
    BY Constantes
  <2>5. ((n + 1) + h) * lengthPagina = (n + 1) * lengthPagina + h * lengthPagina
    BY <1>3, <2>1, <2>4
  <2>6. h * lengthPagina \in Nat /\ (n + 1) * lengthPagina \in Nat
    BY <1>3, <2>1, <2>4
  <2> QED BY <1>10, <2>3, <2>5, <2>6
<1> QED BY <1>0, <1>2, <1>3, <1>4, <1>5, <1>6, <1>7, <1>8, <1>9, <1>10, <1>11, <1>12

(* A copy writes its bytes of the page, and nothing else.                    *)
LEMMA CopiaPagina ==
  ASSUME InvarianteM, InvImagenes, NEW p \in Programas, UsarPagina(p), pc[p] = "copy",
         NEW x \in Abiertos, NEW a \in 0..(Largo(x) - 1)
  PROVE  LET n == local[p].pagina
             d == local[p].dir
         IN ByteEn(x, a)' = IF /\ x = segmentos[p].mapeo
                               /\ a \in Desde(d, n)..(Hasta(d, local[p].tam, n) - 1)
                            THEN Dato(local[p].dato, a - d) ELSE ByteEn(x, a)
<1>0. PICK n, d, tt, m, f, v : n = local[p].pagina /\ d = local[p].dir /\ tt = local[p].tam
                              /\ m = segmentos[p].mapeo /\ f = Pagina(p).nroFrame /\ v = local[p].dato
  OBVIOUS
<1> DEFINE s == Desde(d, n)
           e == Hasta(d, tt, n)
           Escrito(b, k) == IF b \in d..(d + tt - 1) THEN Dato(v, b - d) ELSE contenidoFrames[f][k]
           escrito == [k \in 0..(lengthPagina - 1) |-> Escrito(n * lengthPagina + k, k)]
<1>1. /\ mapeos' = mapeos /\ contenidoFrames' = [contenidoFrames EXCEPT ![f] = escrito]
  <2> DEFINE frame == [k \in 0..(lengthPagina - 1) |->
                         IF n * lengthPagina + k \in d..(d + tt - 1)
                         THEN Dato(v, n * lengthPagina + k - d) ELSE contenidoFrames[f][k]]
  <2>1. mapeos' = mapeos /\ contenidoFrames' = [contenidoFrames EXCEPT ![f] = frame]
    BY <1>0 DEF UsarPagina, tablas
  <2>2. frame = escrito
    <3>1. \A k \in 0..(lengthPagina - 1) : n * lengthPagina + k - d = (n * lengthPagina + k) - d
      <4>1. PICK b \in Nat : b = n * lengthPagina
        BY <1>0, PaginaEnUso, Constantes
      <4>2. d \in Nat /\ lengthPagina \in Nat
        BY <1>0, PaginaEnUso, Constantes
      <4>3. \A k \in 0..(lengthPagina - 1) : b + k - d = (b + k) - d
        BY <4>1, <4>2
      <4> QED BY <4>1, <4>3
    <3> QED BY <3>1
  <2> HIDE DEF frame, escrito
  <2> QED BY <2>1, <2>2
<1>2. TiposM /\ InvMarcos
  BY DEF InvarianteM
<1>3. /\ n \in Nat /\ d \in Nat /\ tt \in Nat \ {0}
      /\ d \div lengthPagina <= n /\ n <= (d + tt - 1) \div lengthPagina
      /\ n + 1 \in 1..paginasDe[path[p]] /\ m \in Abiertos /\ path[m] = path[p]
      /\ mapeos[m].tablaPaginas[n + 1].flagPresencia
      /\ f = mapeos[m].tablaPaginas[n + 1].nroFrame /\ f \in Frame
      /\ s \in Nat /\ e \in Nat /\ n * lengthPagina <= s /\ e <= (n + 1) * lengthPagina
  BY <1>0, PaginaEnUso DEF UltimaPagina
<1>4. PICK h, k : h = a \div lengthPagina /\ k = a % lengthPagina
  OBVIOUS
<1>5. x \in Programas /\ x \in Vivos
  BY DeAbierto
<1>6. h + 1 \in 1..paginasDe[path[x]] /\ h \in Nat /\ k \in 0..(lengthPagina - 1) /\ a \in Nat
  BY <1>4, <1>5, PaginaDeByte
<1>7. a = h * lengthPagina + k
  BY <1>4, <1>6, Division
<1> HIDE DEF s, e
<1>8. contenidoFrames'[f] = escrito /\ \A g \in Frame \ {f} : contenidoFrames'[g] = contenidoFrames[g]
  BY <1>1, <1>2, <1>3 DEF TiposM
<1>9. CASE x = m /\ h = n
  <2>1. ByteEn(x, a)' = escrito[k] /\ ByteEn(x, a) = contenidoFrames[f][k]
    BY ZenonT(30), <1>1, <1>3, <1>4, <1>8, <1>9 DEF ByteEn
  <2>2. escrito[k] = IF a \in d..(d + tt - 1) THEN Dato(v, a - d) ELSE contenidoFrames[f][k]
    <3>1. n * lengthPagina + k = a
      BY <1>7, <1>9
    <3> HIDE DEF Escrito
    <3>2. escrito[k] = Escrito(n * lengthPagina + k, k)
      BY <1>6
    <3> HIDE DEF escrito
    <3>3. escrito[k] = Escrito(a, k)
      BY Zenon, <3>1, <3>2
    <3> QED BY <3>3 DEF Escrito
  <2>3. a \in d..(d + tt - 1) <=> a \in s..(e - 1)
    BY <1>3, <1>6, <1>7, <1>9, TramoDePagina DEF s, e
  <2> HIDE DEF escrito
  <2>4. ByteEn(x, a)' = IF a \in s..(e - 1) THEN Dato(v, a - d) ELSE ByteEn(x, a)
    BY <2>1, <2>2, <2>3
  <2> QED BY <1>0, <1>9, <2>4 DEF s, e
<1> HIDE DEF escrito
<1>10. CASE ~ (x = m /\ h = n)
  <2>1. ByteEn(x, a)' = ByteEn(x, a)
    <3>1. CASE mapeos[x].tablaPaginas[h + 1].flagPresencia
      <4>1. PICK g : g = mapeos[x].tablaPaginas[h + 1].nroFrame
        OBVIOUS
      <4>2. g \in Frame /\ h + 1 \in Presentes(x)
        BY <1>6, <3>1, <4>1, DeAbierto
      <4>3. n + 1 \in Presentes(m) /\ m \in Vivos
        BY <1>3, DeAbierto
      <4>4. g # f
        <5>1. PICK i, j : i = h + 1 /\ j = n + 1
          OBVIOUS
        <5>2. mapeos[x].tablaPaginas[i].nroFrame = mapeos[m].tablaPaginas[j].nroFrame => x = m /\ i = j
          BY <1>2, <1>5, <4>2, <4>3, <5>1 DEF InvMarcos
        <5> QED BY <1>3, <1>6, <1>10, <4>1, <5>1, <5>2
      <4>5. contenidoFrames'[g] = contenidoFrames[g]
        BY <1>8, <4>2, <4>4
      <4> QED BY <1>1, <1>4, <3>1, <4>1, <4>5 DEF ByteEn
    <3>2. CASE ~ mapeos[x].tablaPaginas[h + 1].flagPresencia
      BY <1>1, <1>4, <3>2 DEF ByteEn
    <3> QED BY <3>1, <3>2
  <2>2. ~ (x = m /\ a \in s..(e - 1))
    <3> SUFFICES ASSUME x = m, a \in s..(e - 1) PROVE FALSE
      OBVIOUS
    <3>1. n * lengthPagina <= a /\ a < (n + 1) * lengthPagina
      <4>1. n * lengthPagina \in Nat /\ (n + 1) * lengthPagina \in Nat
        BY <1>3, Constantes
      <4> QED BY <1>3, <1>6, <4>1
    <3>2. h = n
      BY <1>3, <1>4, <1>6, <3>1, EnPagina
    <3> QED BY <1>10, <3>2
  <2> QED BY <1>0, <2>1, <2>2 DEF s, e
<1> QED BY <1>9, <1>10

(* The program that uses a page, before and after. *)
LEMMA AvanzaPagina ==
  ASSUME InvarianteM, InvImagenes, NEW p \in Programas, UsarPagina(p)
  PROVE  /\ UNCHANGED <<mapeos, segmentos, pc, g_mutexPaginas>> /\ \A q \in Programas \ {p} : Otro(p, q)
         /\ pc[p] \in {"get", "copy", "sync"}
         /\ pc[p] # "copy" => contenidoFrames' = contenidoFrames
         /\ local'[p].dir = local[p].dir /\ local'[p].tam = local[p].tam /\ local'[p].dato = local[p].dato
         /\ local'[p].pagina = local[p].pagina + 1 /\ local'[p].fase = "mirar"
         /\ UltimaPagina(p)' = UltimaPagina(p)
         /\ SinTraer' /\ Abiertos' = Abiertos
<1>1. PICK todo : local' = [local EXCEPT ![p] = [local[p] EXCEPT !.pagina = local[p].pagina + 1,
                                                                 !.fase = "mirar", !.leido = todo]]
  BY ZenonT(30) DEF UsarPagina, Guardar
<1>2. /\ UNCHANGED <<mapeos, segmentos, pc, g_mutexPaginas>> /\ pc[p] \in {"get", "copy", "sync"}
      /\ pc[p] # "copy" => contenidoFrames' = contenidoFrames
  BY DEF UsarPagina, tablas, Accediendo
<1>3. local \in [Programas -> Local] /\ local[p] \in Local
  BY DEF InvarianteM, TiposM
<1>4. local'[p] = [local[p] EXCEPT !.pagina = local[p].pagina + 1, !.fase = "mirar", !.leido = todo]
      /\ \A q \in Programas \ {p} : Otro(p, q)
  BY <1>1, <1>2, <1>3 DEF Otro
<1>5. /\ local'[p].dir = local[p].dir /\ local'[p].tam = local[p].tam /\ local'[p].dato = local[p].dato
      /\ local'[p].pagina = local[p].pagina + 1 /\ local'[p].fase = "mirar"
  BY <1>3, <1>4 DEF Local
<1>6. UltimaPagina(p)' = UltimaPagina(p)
  BY <1>5 DEF UltimaPagina
<1>7. SinTraer'
  BY <1>2 DEF SinTraer, InvImagenes, Vivos
<1>8. Abiertos' = Abiertos
  BY <1>2 DEF Abiertos, EnUso
<1> QED BY SMTT(30), <1>2, <1>4, <1>5, <1>6, <1>7, <1>8

(* Where the access is after that page. *)
LEMMA AccesoAvanza ==
  ASSUME InvarianteM, InvImagenes, NEW p \in Programas, UsarPagina(p), pc[p] \in {"get", "copy"}
  PROVE  InvAcceso(p)' /\ Llegado(p)' = Hasta(local[p].dir, local[p].tam, local[p].pagina)
<1>0. PICK n, d, t : n = local[p].pagina /\ d = local[p].dir /\ t = local[p].tam
  OBVIOUS
<1>1. /\ n \in Nat /\ d \in Nat /\ t \in Nat \ {0}
      /\ d \div lengthPagina <= n /\ n <= UltimaPagina(p) /\ n + 1 \in 1..paginasDe[path[p]]
  BY <1>0, PaginaEnUso
<1>2. /\ local'[p].dir = d /\ local'[p].tam = t /\ local'[p].pagina = n + 1 /\ local'[p].fase = "mirar"
      /\ UltimaPagina(p)' = UltimaPagina(p)
  BY <1>0, AvanzaPagina
<1>3. UltimaPagina(p) = (d + t - 1) \div lengthPagina
  BY <1>0 DEF UltimaPagina
<1>4. (d + t - 1) \div lengthPagina \in Nat /\ d \div lengthPagina \in Nat /\ paginasDe[path[p]] \in Nat
  <2>1. d + t - 1 \in Nat
    BY <1>1
  <2> QED BY <1>1, <2>1, Division, Constantes
<1>5. n + 1 # d \div lengthPagina
  BY <1>1, <1>4
<1>6. Llegado(p)' = Hasta(d, t, n)
  BY <1>2, <1>3, <1>5 DEF Llegado, Hasta
<1>7. InvAcceso(p)'
  BY <1>1, <1>2, <1>3, <1>4 DEF InvAcceso
<1> QED BY <1>0, <1>6, <1>7

LEMMA ImagenesCopiar ==
  ASSUME InvarianteM, InvImagenes, NEW p \in Programas, UsarPagina(p), pc[p] = "copy"
  PROVE  InvImagenes'
<1>0. PICK n, d, t, m, s, e : /\ n = local[p].pagina /\ d = local[p].dir /\ t = local[p].tam
                              /\ m = segmentos[p].mapeo /\ s = Desde(d, n) /\ e = Hasta(d, t, n)
  OBVIOUS
<1>1. /\ UNCHANGED <<mapeos, segmentos, pc>> /\ \A q \in Programas \ {p} : Otro(p, q)
      /\ local'[p].dir = d /\ local'[p].dato = local[p].dato /\ SinTraer'
  BY <1>0, AvanzaPagina
<1>2. InvAcceso(p)' /\ Llegado(p)' = e
  BY <1>0, AccesoAvanza
<1>3. /\ m \in Abiertos /\ path[m] = path[p] /\ Llegado(p) = s /\ s \in Nat /\ e \in Nat /\ d \in Nat
  BY <1>0, PaginaEnUso
<1>4. InvCopiado(p)'
  <2>1. ASSUME NEW a \in 0..(Largo(p) - 1), a >= d, a < e
        PROVE  ByteEn(m, a)' = Dato(local[p].dato, a - d)
    <3>1. a \in 0..(Largo(m) - 1) /\ a \in Nat
      BY <1>3, Constantes DEF Largo
    <3>2. ByteEn(m, a)' = IF a \in s..(e - 1) THEN Dato(local[p].dato, a - d) ELSE ByteEn(m, a)
      BY <1>0, <1>3, <3>1, CopiaPagina
    <3>3. CASE a < s
      <4>1. ByteEn(m, a) = Dato(local[p].dato, a - d)
        BY <1>0, <1>3, <2>1, <3>3 DEF InvImagenes, InvCopiado
      <4> QED BY <3>2, <4>1
    <3>4. CASE ~ (a < s)
      BY <1>3, <2>1, <3>1, <3>2, <3>4
    <3> QED BY <3>3, <3>4
  <2>2. segmentos'[p].mapeo = m
    BY <1>0, <1>1
  <2> QED BY <1>1, <1>2, <2>1, <2>2 DEF InvCopiado
<1>5. InvDeAcceso(p)'
  BY <1>1, <1>2, <1>4 DEF InvDeAcceso, InvObtenido
<1>6. ASSUME NEW q \in Programas \ {p} PROVE InvDeAcceso(q)'
  <2>1. pc'[q] \notin {"get", "copy"}
    BY <1>1 DEF InvarianteM, MutexM
  <2> QED BY <2>1, SinAcceso
<1> QED BY <1>1, <1>5, <1>6 DEF InvImagenes, InvDeAcceso

LEMMA ImagenesObtener ==
  ASSUME InvarianteM, InvImagenes, NEW p \in Programas, UsarPagina(p), pc[p] # "copy"
  PROVE  InvImagenes' /\ ByteIgual
<1>0. PICK n, d, t, m, s, e, f : /\ n = local[p].pagina /\ d = local[p].dir /\ t = local[p].tam
                                 /\ m = segmentos[p].mapeo /\ s = Desde(d, n) /\ e = Hasta(d, t, n)
                                 /\ f = Pagina(p).nroFrame
  OBVIOUS
<1>1. /\ UNCHANGED <<mapeos, segmentos, pc, contenidoFrames>> /\ \A q \in Programas \ {p} : Otro(p, q)
      /\ local'[p].dir = d /\ SinTraer' /\ pc[p] \in {"get", "copy", "sync"}
  BY <1>0, AvanzaPagina
<1>2. ByteIgual
  BY <1>1, ByteIgualSi
<1>3. CASE pc[p] = "sync"
  <2>1. InvDeAcceso(p)'
    BY <1>1, <1>3, SinAcceso
  <2> QED BY <1>1, <1>2, <2>1, ImagenesSi
<1>4. CASE pc[p] = "get"
  <2>1. InvAcceso(p)' /\ Llegado(p)' = e
    BY <1>0, <1>4, AccesoAvanza
  <2>2. /\ m \in Abiertos /\ path[m] = path[p] /\ Llegado(p) = s /\ s \in Nat /\ e \in Nat /\ d \in Nat
        /\ n \in Nat /\ t \in Nat \ {0} /\ d \div lengthPagina <= n
        /\ n <= (d + t - 1) \div lengthPagina /\ d <= s /\ s < e /\ e <= Largo(p)
        /\ e <= (n + 1) * lengthPagina /\ n * lengthPagina <= s
        /\ mapeos[m].tablaPaginas[n + 1].flagPresencia /\ f = mapeos[m].tablaPaginas[n + 1].nroFrame
    BY <1>0, <1>4, PaginaEnUso DEF UltimaPagina
  <2>3. PICK viejo \in Seq(Byte) : viejo = local[p].leido
    BY DEF InvarianteM, TiposM, Local
  <2> DEFINE c == Cardinality({k \in 0..(lengthPagina - 1) : n * lengthPagina + k \in d..(d + t - 1)})
             leido == [i \in 1..c |-> contenidoFrames[f][(d + Len(viejo) + i - 1) % lengthPagina]]
  <2>4. local'[p].leido = viejo \o leido
    <3>1. local' = [local EXCEPT ![p] = [local[p] EXCEPT !.pagina = n + 1, !.fase = "mirar",
                                                         !.leido = viejo \o leido]]
      BY <1>0, <1>4, <2>3 DEF UsarPagina, Guardar
    <3> HIDE DEF leido
    <3>2. local \in [Programas -> Local] /\ local[p] \in Local
      BY DEF InvarianteM, TiposM
    <3>3. local'[p] = [local[p] EXCEPT !.pagina = n + 1, !.fase = "mirar", !.leido = viejo \o leido]
      BY <3>1, <3>2
    <3> QED BY <3>2, <3>3 DEF Local
  <2>5. c = e - s
    <3>1. c = Hasta(d, t, n) - Desde(d, n)
      BY <2>2, CantidadDePagina
    <3> HIDE DEF c
    <3> QED BY <1>0, <3>1
  <2> HIDE DEF c
  <2>6. /\ d + Len(viejo) = s
        /\ \A k \in 1..Len(viejo) : d + k - 1 < Largo(p) /\ viejo[k] = ByteEn(m, d + k - 1)
    BY <1>0, <1>4, <2>2, <2>3 DEF InvImagenes, InvObtenido
  <2>7. Len(viejo) \in Nat /\ c \in Nat /\ Largo(p) \in Nat /\ Largo(m) = Largo(p)
    BY SMTT(30), <2>2, <2>3, <2>5, LenProperties, Constantes DEF Largo
  <2>8. ASSUME NEW i \in 1..c
        PROVE  d + (Len(viejo) + i) - 1 < Largo(p) /\ leido[i] = ByteEn(m, d + (Len(viejo) + i) - 1)
    <3>1. PICK a : a = d + (Len(viejo) + i) - 1
      OBVIOUS
    <3>2. a \in Nat /\ a >= s /\ a < e /\ a < Largo(p) /\ a = d + Len(viejo) + i - 1
      <4>1. PICK z : z = Len(viejo)
        OBVIOUS
      <4>2. z \in Nat /\ d + z = s /\ a = d + (z + i) - 1
        BY <2>6, <2>7, <3>1, <4>1
      <4>3. c = e - s /\ i \in 1..c /\ d \in Nat /\ s \in Nat /\ e \in Nat /\ e <= Largo(p) /\ Largo(p) \in Nat
        BY <2>2, <2>5, <2>7
      <4>4. a = s + i - 1 /\ a = d + z + i - 1
        BY <4>2, <4>3
      <4>5. a \in Nat /\ a >= s /\ a < e /\ a < Largo(p)
        BY <4>3, <4>4
      <4> QED BY <4>1, <4>4, <4>5
    <3>3. n * lengthPagina <= a /\ a < (n + 1) * lengthPagina
      <4>1. n * lengthPagina \in Nat /\ (n + 1) * lengthPagina \in Nat
        BY <2>2, Constantes
      <4> QED BY SMTT(30), <2>2, <3>2, <4>1
    <3>4. a \div lengthPagina = n
      BY <2>2, <3>2, <3>3, EnPagina
    <3>5. ByteEn(m, a) = contenidoFrames[f][a % lengthPagina]
      BY <2>2, <3>4 DEF ByteEn
    <3>6. leido[i] = contenidoFrames[f][a % lengthPagina]
      BY <3>2
    <3> QED BY <3>1, <3>2, <3>5, <3>6
  <2>9. leido \in Seq(Byte) /\ Len(leido) = c
    <3>1. ASSUME NEW i \in 1..c PROVE leido[i] \in Byte
      <4>1. PICK a : a = d + (Len(viejo) + i) - 1
        OBVIOUS
      <4>2. a < Largo(p) /\ leido[i] = ByteEn(m, a)
        BY <2>8, <4>1
      <4>3. a \in 0..(Largo(m) - 1)
        BY <2>2, <2>7, <4>1, <4>2
      <4> QED BY <2>2, <4>2, <4>3, ByteDe
    <3>2. leido = [i \in 1..c |-> leido[i]]
      OBVIOUS
    <3> HIDE DEF leido
    <3>3. leido \in [1..c -> Byte]
      BY <3>1, <3>2
    <3> QED BY <2>7, <3>3, EsSecuencia
  <2> HIDE DEF leido
  <2>10. /\ Len(viejo \o leido) = Len(viejo) + c
         /\ \A k \in 1..(Len(viejo) + c) :
              (viejo \o leido)[k] = IF k <= Len(viejo) THEN viejo[k] ELSE leido[k - Len(viejo)]
    BY ZenonT(60), <2>3, <2>9, ConcatProperties
  <2>11. ASSUME NEW k \in 1..(Len(viejo) + c)
         PROVE  d + k - 1 < Largo(p) /\ (viejo \o leido)[k] = ByteEn(m, d + k - 1)
    <3>1. CASE k <= Len(viejo)
      <4>1. k \in 1..Len(viejo)
        BY <2>7, <3>1
      <4> QED BY <2>6, <2>10, <3>1, <4>1
    <3>2. CASE ~ (k <= Len(viejo))
      <4>1. PICK i \in 1..c : i = k - Len(viejo)
        BY <2>7, <3>2
      <4>2. k = Len(viejo) + i
        BY <2>7, <4>1
      <4>3. (viejo \o leido)[k] = leido[i]
        BY <2>10, <3>2, <4>1
      <4> QED BY <2>8, <4>2, <4>3
    <3> QED BY <3>1, <3>2
  <2>12. InvObtenido(p)'
    <3>1. d + Len(viejo \o leido) = e
      <4>1. PICK b \in Nat : b = Len(viejo)
        BY <2>7
      <4>2. d + (b + c) = e
        BY SMTT(30), <2>2, <2>5, <2>6, <2>7, <4>1
      <4> QED BY <2>10, <4>1, <4>2
    <3>2. segmentos'[p].mapeo = m
      BY <1>0, <1>1
    <3>3. ASSUME NEW k \in 1..(Len(viejo) + c)
          PROVE  ByteEn(segmentos[p].mapeo, local[p].dir + k - 1)' = ByteEn(m, d + k - 1)
      BY <1>1, <3>2 DEF ByteEn
    <3> QED BY <1>1, <2>1, <2>4, <2>10, <2>11, <3>1, <3>3 DEF InvObtenido
  <2>13. InvDeAcceso(p)'
    BY <1>1, <1>4, <2>1, <2>12 DEF InvDeAcceso, InvCopiado
  <2> QED BY <1>1, <1>2, <2>13, ImagenesSi
<1> QED BY <1>1, <1>3, <1>4

LEMMA InicioImagenes == Init => InvImagenes
BY DEF Init, InvImagenes, SinTraer, Vivos, InvAcceso, InvCopiado, InvObtenido

LEMMA PasoImagenes ==
  ASSUME InvarianteM, InvImagenes, [Next]_vars
  PROVE  InvImagenes'
<1>1. CASE UNCHANGED vars
  <2> USE <1>1 DEF vars, tablas, frames
  <2>1. ByteIgual
    BY DEF ByteIgual, ByteEn
  <2>2. SinTraer'
    BY DEF InvImagenes, SinTraer, Vivos
  <2>3. \A q \in Programas : InvDeAcceso(q)'
    BY <2>1, AccesoMismo DEF MismoAcceso
  <2> QED BY <2>2, <2>3 DEF InvImagenes, InvDeAcceso
<1>2. ASSUME NEW p \in Programas, Servir(p) \/ Pedir(p) PROVE InvImagenes'
  <2>1. CASE \/ procesarMap(p) \/ MapSumar(p) \/ PaginaQueNoHay(p) \/ enviarRespuesta(p)
             \/ procesarUnMap(p) \/ UnmapRestar(p) \/ borrarMapeoAbierto(p) \/ destruirPagina(p)
             \/ Desconectar(p) \/ (\E n \in Descargas[p] : procesarSync(p, n))
    BY <2>1, QueNoTocan, ImagenesSinTocar DEF InvarianteM
  <2>2. CASE MapGuardar(p) \/ UnmapGuardar(p) \/ destruirSegmentoMap(p)
    BY <2>2, ImagenesCuenta
  <2>3. CASE MapAgregar(p) \/ MapPrivado(p)
    BY <2>3, ImagenesNuevas
  <2>4. CASE MirarPresencia(p) \/ TraerPaginaDeMap(p) \/ enviarRespuestaMsync(p)
    BY <2>4, ImagenesMirar, ImagenesTraer, ImagenesMsync
  <2>5. CASE UsarPagina(p)
    BY <2>5, ImagenesCopiar, ImagenesObtener
  <2>6. Accesos[p] \subseteq Nat \X (Nat \ {0})
    BY MapasAssumption
  <2>7. ASSUME NEW a \in Accesos[p],
               procesarGet(p, a[1], a[2]) \/ \E v \in Valores : procesarCopy(p, a[1], a[2], v)
        PROVE  InvImagenes'
    <3>1. a[1] \in Nat /\ a[2] \in Nat \ {0}
      BY <2>6
    <3>2. PICK op \in {"get", "copy"}, v \in Valores \cup {Nada} : Acceder(p, op, a[1], a[2], v)
      BY <2>7 DEF procesarGet, procesarCopy
    <3> QED BY <3>1, <3>2, ImagenesAcceder
  <2> QED BY <1>2, <2>1, <2>2, <2>3, <2>4, <2>5, <2>7 DEF Servir, Pedir
<1> QED BY <1>1, <1>2 DEF Next

-------------------------------------------------------------------------------
(* What the programs see of the images *)

(* The byte at a of a mapping, with what a copy in progress writes.          *)
VistoEn(m, a) ==
  LET c == g_mutexPaginas IN
  IF /\ c \in Programas /\ pc[c] = "copy" /\ segmentos[c].mapeo = m
     /\ a \in local[c].dir..(local[c].dir + local[c].tam - 1)
  THEN Dato(local[c].dato, a - local[c].dir) ELSE ByteEn(m, a)

LEMMA ImagenDe ==
  ASSUME InvarianteM, InvNombres, NombresAparte, NEW p \in Programas
  PROVE  /\ Imagen(p) # Nada <=> EnUso(p)
         /\ EnUso(p) => /\ Imagen(p) \in Imagenes
                        /\ lengthPagina * paginasDe[IF Imagen(p) \in Programas THEN path[Imagen(p)]
                                                    ELSE Imagen(p)] = Largo(p)
         /\ \A q \in Programas : EnUso(p) /\ EnUso(q) =>
              (Imagen(p) = Imagen(q) <=> segmentos[p].mapeo = segmentos[q].mapeo)
<1>1. TiposM /\ InvMapeos /\ MismoMapeo
  BY DEF InvarianteM, InvNombres
<1>2. \A q \in Programas : q # Nada /\ path[q] # Nada /\ path[q] \notin Programas
  BY Constantes DEF NombresAparte
<1>3. Imagen(p) # Nada <=> EnUso(p)
  BY <1>2 DEF Imagen, EnUso
<1>4. ASSUME EnUso(p) PROVE Imagen(p) \in Imagenes
  BY <1>4 DEF Imagen, EnUso, Imagenes
<1>5. ASSUME EnUso(p)
      PROVE  lengthPagina * paginasDe[IF Imagen(p) \in Programas THEN path[Imagen(p)] ELSE Imagen(p)] = Largo(p)
  <2>1. (IF Imagen(p) \in Programas THEN path[Imagen(p)] ELSE Imagen(p)) = path[p]
    BY <1>2, <1>5 DEF Imagen, EnUso
  <2>2. \A a, b \in Nat : a * b = b * a
    OBVIOUS
  <2>3. lengthPagina \in Nat /\ paginasDe[path[p]] \in Nat
    BY Constantes
  <2> QED BY <2>1, <2>2, <2>3 DEF Largo
<1>6. ASSUME NEW q \in Programas, EnUso(p), EnUso(q)
      PROVE  Imagen(p) = Imagen(q) <=> segmentos[p].mapeo = segmentos[q].mapeo
  <2>1. /\ Imagen(p) = IF segmentos[p].esCompartido THEN path[p] ELSE p
        /\ Imagen(q) = IF segmentos[q].esCompartido THEN path[q] ELSE q
        /\ segmentos[p] # Nada /\ segmentos[q] # Nada
    BY <1>6 DEF Imagen, EnUso
  <2>2. ASSUME NEW r \in Programas, segmentos[r] # Nada
        PROVE  LET m == segmentos[r].mapeo IN
               /\ m \in Programas /\ path[m] = path[r] /\ flags[m] = flags[r]
               /\ segmentos[r].esCompartido \in BOOLEAN
               /\ segmentos[r].esCompartido <=> flags[r] = "MAP_SHARED"
               /\ ~ segmentos[r].esCompartido => m = r
    BY <1>1, <2>2, DeSegmento DEF InvMapeos
  <2>3. ASSUME Imagen(p) = Imagen(q) PROVE segmentos[p].mapeo = segmentos[q].mapeo
    <3>1. CASE segmentos[p].esCompartido /\ segmentos[q].esCompartido
      BY <1>1, <2>1, <2>3, <3>1 DEF MismoMapeo
    <3>2. CASE ~ (segmentos[p].esCompartido /\ segmentos[q].esCompartido)
      BY <1>2, <2>1, <2>3, <3>2
    <3> QED BY <3>1, <3>2
  <2>4. ASSUME segmentos[p].mapeo = segmentos[q].mapeo PROVE Imagen(p) = Imagen(q)
    <3>1. PICK m : m = segmentos[p].mapeo
      OBVIOUS
    <3>2. /\ path[m] = path[p] /\ flags[m] = flags[p]
          /\ segmentos[p].esCompartido <=> flags[p] = "MAP_SHARED"
          /\ ~ segmentos[p].esCompartido => m = p
      BY <2>1, <2>2, <3>1
    <3>3. /\ path[m] = path[q] /\ flags[m] = flags[q]
          /\ segmentos[q].esCompartido <=> flags[q] = "MAP_SHARED"
          /\ ~ segmentos[q].esCompartido => m = q
      BY <2>1, <2>2, <2>4, <3>1
    <3> QED BY <2>1, <3>2, <3>3
  <2> QED BY <2>3, <2>4
<1> QED BY <1>3, <1>4, <1>5, <1>6

(* The bytes of an image are those of the mapping of its users. *)
DeBytes ==
  \A p, m \in Programas : \A i \in Imagenes :
    EnUso(p) /\ segmentos[p].mapeo = m /\ Imagen(p) = i =>
      Bytes(i) = [a \in 0..(Largo(m) - 1) |-> VistoEn(m, a)]
SinBytes == \A i \in Imagenes : (\A p \in Programas : Imagen(p) # i) => Bytes(i) = Nada

LEMMA BytesDe ==
  ASSUME NombresAparte
  PROVE  InvarianteM /\ InvNombres => DeBytes /\ SinBytes
<1> SUFFICES ASSUME InvarianteM, InvNombres PROVE DeBytes /\ SinBytes
  OBVIOUS
<1>1. SinBytes
  BY DEF SinBytes, Bytes
<1>2. ASSUME NEW p \in Programas, NEW m \in Programas, NEW i \in Imagenes,
             EnUso(p), segmentos[p].mapeo = m, Imagen(p) = i
      PROVE  Bytes(i) = [a \in 0..(Largo(m) - 1) |-> VistoEn(m, a)]
  <2> DEFINE de == {q \in Programas : Imagen(q) = i}
             copiando == {q \in de : pc[q] = "copy"}
             r == CHOOSE q \in de : TRUE
             c == CHOOSE q \in copiando : TRUE
  <2>1. i # Nada
    BY <1>2, ImagenDe
  <2>2. ASSUME NEW q \in de PROVE q \in Programas /\ EnUso(q) /\ segmentos[q].mapeo = m
    BY <1>2, <2>1, ImagenDe
  <2>3. ASSUME NEW q \in Programas, EnUso(q), segmentos[q].mapeo = m PROVE q \in de
    BY <1>2, <2>3, ImagenDe
  <2>4. p \in de /\ r \in de
    BY <1>2
  <2>5. copiando # {} => c \in copiando
    OBVIOUS
  <2>6. ASSUME NEW q \in copiando PROVE g_mutexPaginas = q /\ pc[q] = "copy" /\ q \in de
    BY <2>6 DEF InvarianteM, MutexM
  <2>7. \A q \in Programas : pc[q] = "copy" => EnUso(q)
    BY ConSegmento DEF EnUso, EnUnmap
  <2>8. g_mutexPaginas \in Programas /\ pc[g_mutexPaginas] = "copy" /\ segmentos[g_mutexPaginas].mapeo = m
          <=> copiando # {}
    <3>1. ASSUME NEW g \in Programas, g = g_mutexPaginas, pc[g] = "copy", segmentos[g].mapeo = m
          PROVE  g \in copiando
      BY <2>3, <2>7, <3>1
    <3> HIDE DEF copiando, de
    <3> QED BY <2>2, <2>6, <3>1
  <2>9. copiando # {} => c = g_mutexPaginas
    <3> HIDE DEF copiando, c
    <3> QED BY <2>5, <2>6
  <2>10. Len(mapeos[segmentos[r].mapeo].tablaPaginas) * lengthPagina = Largo(m)
    <3>1. segmentos[r].mapeo = m
      BY <2>2, <2>4
    <3>2. m \in Abiertos
      BY <1>2, DeUso
    <3> HIDE DEF r
    <3> QED BY <3>1, <3>2, DeAbierto DEF Largo
  <2>11. segmentos[r].mapeo = m
    BY <2>2, <2>4
  <2>12. Bytes(i) = [a \in 0..(Len(mapeos[segmentos[r].mapeo].tablaPaginas) * lengthPagina - 1) |->
                      IF copiando # {} /\ a \in local[c].dir..(local[c].dir + local[c].tam - 1)
                      THEN Dato(local[c].dato, a - local[c].dir) ELSE ByteEn(segmentos[r].mapeo, a)]
    BY <2>4 DEF Bytes
  <2> HIDE DEF r, c, copiando
  <2>13. Bytes(i) = [a \in 0..(Largo(m) - 1) |->
                      IF copiando # {} /\ a \in local[c].dir..(local[c].dir + local[c].tam - 1)
                      THEN Dato(local[c].dato, a - local[c].dir) ELSE ByteEn(m, a)]
    BY <2>10, <2>11, <2>12
  <2>14. ASSUME NEW a
         PROVE  VistoEn(m, a) = IF copiando # {} /\ a \in local[c].dir..(local[c].dir + local[c].tam - 1)
                                THEN Dato(local[c].dato, a - local[c].dir) ELSE ByteEn(m, a)
    BY <2>8, <2>9 DEF VistoEn
  <2> QED BY <2>13, <2>14
<1> QED BY <1>1, <1>2 DEF DeBytes

LEMMA BytesDespues ==
  ASSUME NombresAparte
  PROVE  InvarianteM' /\ InvNombres' => DeBytes' /\ SinBytes'
BY BytesDe, PTL

(* The same of the images, after a step. *)
DeImagen ==
  \A p \in Programas :
    /\ Imagen(p) # Nada <=> EnUso(p)
    /\ EnUso(p) => Imagen(p) \in Imagenes /\ segmentos[p].mapeo \in Programas
    /\ \A q \in Programas : EnUso(p) /\ EnUso(q) =>
         (Imagen(p) = Imagen(q) <=> segmentos[p].mapeo = segmentos[q].mapeo)

LEMMA DeImagenSi ==
  ASSUME NombresAparte
  PROVE  /\ InvarianteM /\ InvNombres => DeImagen
         /\ InvarianteM' /\ InvNombres' => DeImagen'
<1>1. InvarianteM /\ InvNombres => DeImagen
  BY ImagenDe, DeUso DEF DeImagen
<1> QED BY <1>1, PTL

-------------------------------------------------------------------------------
(* The steps of ImagenesCompartidas *)

(* What p maps, and what it is handed over, stays so.                        *)
MismaVista(p) == Imagen(p)' = Imagen(p) /\ Devuelto(p)' = Devuelto(p)

(* The variables of ImagenesCompartidas. *)
imagenDe == [p \in Programas |-> Imagen(p)]
bytesDe == [i \in Imagenes |-> Bytes(i)]
devueltoDe == [p \in Programas |-> Devuelto(p)]
tamanioDe ==
  [i \in Imagenes |-> lengthPagina * paginasDe[IF i \in Programas THEN path[i] ELSE i]]

LEMMA Variables ==
  /\ DOMAIN imagenDe = Programas /\ DOMAIN imagenDe' = Programas
  /\ DOMAIN bytesDe = Imagenes /\ DOMAIN bytesDe' = Imagenes
  /\ DOMAIN devueltoDe = Programas /\ DOMAIN devueltoDe' = Programas
  /\ imagenDe = [p \in Programas |-> imagenDe[p]] /\ imagenDe' = [p \in Programas |-> imagenDe'[p]]
  /\ bytesDe = [i \in Imagenes |-> bytesDe[i]] /\ bytesDe' = [i \in Imagenes |-> bytesDe'[i]]
  /\ devueltoDe = [p \in Programas |-> devueltoDe[p]]
  /\ devueltoDe' = [p \in Programas |-> devueltoDe'[p]]
  /\ \A p \in Programas : imagenDe[p] = Imagen(p) /\ imagenDe'[p] = Imagen(p)'
  /\ \A p \in Programas : devueltoDe[p] = Devuelto(p) /\ devueltoDe'[p] = Devuelto(p)'
  /\ \A i \in Imagenes : bytesDe[i] = Bytes(i) /\ bytesDe'[i] = Bytes(i)'
BY DEF imagenDe, bytesDe, devueltoDe

LEMMA VeNada ==
  ASSUME \A p \in Programas : MismaVista(p), \A i \in Imagenes : Bytes(i)' = Bytes(i)
  PROVE  UNCHANGED Mapas!visto
<1>1. imagenDe' = imagenDe /\ bytesDe' = bytesDe /\ devueltoDe' = devueltoDe
  BY Variables DEF MismaVista
<1> QED BY <1>1 DEF Mapas!visto, imagenDe, bytesDe, devueltoDe

LEMMA VeEntregar ==
  ASSUME NEW p \in Programas, \A q \in Programas \ {p} : MismaVista(q), Imagen(p)' = Imagen(p),
         Devuelto(p) # Nada, Devuelto(p)' = Nada,
         \A j \in Imagenes : Bytes(j)' = Bytes(j)
  PROVE  Mapas!Next
<1>1. imagenDe' = imagenDe /\ bytesDe' = bytesDe
  BY Variables DEF MismaVista
<1>2. devueltoDe' = [devueltoDe EXCEPT ![p] = Nada] /\ devueltoDe[p] # Nada
  BY Variables DEF MismaVista
<1>3. Mapas!Entregar(p)
  BY <1>1, <1>2 DEF Mapas!Entregar, imagenDe, bytesDe, devueltoDe
<1> QED BY <1>3 DEF Mapas!Next

LEMMA VeMapear ==
  ASSUME NEW p \in Programas, NEW i \in Imagenes, Imagen(p) = Nada, Imagen(p)' = i,
         Devuelto(p)' = Devuelto(p), \A q \in Programas \ {p} : MismaVista(q),
         \A j \in Imagenes : j # i \/ Bytes(i) # Nada => Bytes(j)' = Bytes(j),
         Bytes(i) = Nada => Bytes(i)' = [a \in 0..(tamanioDe[i] - 1) |-> Dato(Nada, 0)]
  PROVE  Mapas!Next
<1> DEFINE cero == [a \in 0..(tamanioDe[i] - 1) |-> Dato(Nada, 0)]
<1>1. imagenDe[p] = Nada /\ imagenDe' = [imagenDe EXCEPT ![p] = i] /\ devueltoDe' = devueltoDe
  BY Variables DEF MismaVista
<1>2. bytesDe' = IF bytesDe[i] # Nada THEN bytesDe ELSE [bytesDe EXCEPT ![i] = cero]
  <2> HIDE DEF cero
  <2>1. Bytes(i) = Nada => Bytes(i)' = cero
    BY DEF cero
  <2> QED BY <2>1, Variables
<1>3. Mapas!Mapear(p)
  BY <1>1, <1>2 DEF Mapas!Mapear, Mapas!Cero, Mapas!Dato, Dato, imagenDe, bytesDe, devueltoDe, tamanioDe
<1> QED BY <1>3 DEF Mapas!Next

LEMMA VeEscribir ==
  ASSUME NEW p \in Programas, NEW i \in Imagenes, Imagen(p) = i, i # Nada,
         NEW v \in Valores, NEW dir \in 0..tamanioDe[i], NEW n \in 0..tamanioDe[i],
         \A q \in Programas : MismaVista(q),
         \A j \in Imagenes : j # i => Bytes(j)' = Bytes(j),
         Bytes(i)' = [a \in DOMAIN Bytes(i) |->
                        IF a \in dir..(dir + n - 1) THEN Dato(v, a - dir) ELSE Bytes(i)[a]]
  PROVE  Mapas!Next
<1> DEFINE escrito(b) == [a \in DOMAIN b |->
                            IF a \in dir..(dir + n - 1) THEN Dato(v, a - dir) ELSE b[a]]
<1>1. imagenDe[p] = i /\ imagenDe' = imagenDe /\ devueltoDe' = devueltoDe
  BY Variables DEF MismaVista
<1>2. bytesDe' = [bytesDe EXCEPT ![i] = escrito(bytesDe[i])]
  <2>1. Bytes(i)' = escrito(Bytes(i))
    OBVIOUS
  <2> HIDE DEF escrito
  <2> QED BY <2>1, Variables
<1>3. Mapas!Escribir(p)
  <2>1. imagenDe[p] # Nada /\ UNCHANGED <<imagenDe, devueltoDe>>
    BY <1>1
  <2>2. \E w \in Valores, d, c \in 0..tamanioDe[imagenDe[p]] :
          bytesDe' = [bytesDe EXCEPT ![imagenDe[p]] =
                        [a \in DOMAIN @ |->
                           IF a \in d..(d + c - 1) THEN Dato(w, a - d) ELSE @[a]]]
    <3>1. bytesDe' = [bytesDe EXCEPT ![imagenDe[p]] =
                        [a \in DOMAIN @ |->
                           IF a \in dir..(dir + n - 1) THEN Dato(v, a - dir) ELSE @[a]]]
      BY <1>1, <1>2
    <3>2. dir \in 0..tamanioDe[imagenDe[p]] /\ n \in 0..tamanioDe[imagenDe[p]]
      BY <1>1
    <3> QED BY ONLY <3>1, <3>2, v \in Valores
  <2> QED BY <2>1, <2>2 DEF Mapas!Escribir, Mapas!Dato, Dato, imagenDe, bytesDe, devueltoDe, tamanioDe
<1> QED BY <1>3 DEF Mapas!Next

LEMMA VeLeer ==
  ASSUME NEW p \in Programas, NEW i \in Imagenes, Imagen(p) = i, i # Nada,
         NEW dir \in 0..tamanioDe[i], NEW n \in 0..tamanioDe[i], dir + n <= tamanioDe[i],
         \A q \in Programas \ {p} : MismaVista(q), Imagen(p)' = i, Devuelto(p) = Nada,
         \A j \in Imagenes : Bytes(j)' = Bytes(j),
         Devuelto(p)' = [k \in 1..n |-> Bytes(i)[dir + k - 1]]
  PROVE  Mapas!Next
<1>1. imagenDe[p] = i /\ imagenDe' = imagenDe /\ bytesDe' = bytesDe /\ devueltoDe[p] = Nada
  BY Variables DEF MismaVista
<1>2. devueltoDe' = [devueltoDe EXCEPT ![p] = [k \in 1..n |-> bytesDe[i][dir + k - 1]]]
  <2>1. bytesDe[i] = Bytes(i)
    BY Variables
  <2>2. PICK l : l = Devuelto(p)'
    OBVIOUS
  <2>3. devueltoDe' = [devueltoDe EXCEPT ![p] = l]
    BY <2>2, Variables DEF MismaVista
  <2>4. l = [k \in 1..n |-> bytesDe[i][dir + k - 1]]
    BY <2>1, <2>2
  <2> QED BY <2>3, <2>4
<1>3. Mapas!Leer(p)
  <2>1. imagenDe[p] # Nada /\ devueltoDe[p] = Nada /\ UNCHANGED <<imagenDe, bytesDe>>
    BY <1>1
  <2>2. \E d, c \in 0..tamanioDe[imagenDe[p]] :
          /\ d + c <= tamanioDe[imagenDe[p]]
          /\ devueltoDe' = [devueltoDe EXCEPT ![p] = [k \in 1..c |-> bytesDe[imagenDe[p]][d + k - 1]]]
    BY <1>1, <1>2
  <2> QED BY <2>1, <2>2 DEF Mapas!Leer, imagenDe, bytesDe, devueltoDe, tamanioDe
<1> QED BY <1>3 DEF Mapas!Next

LEMMA VeDesmapear ==
  ASSUME NEW p \in Programas, NEW i \in Imagenes, Imagen(p) = i, i # Nada, Imagen(p)' = Nada,
         Devuelto(p)' = Devuelto(p), \A q \in Programas \ {p} : MismaVista(q),
         \A j \in Imagenes : j # i \/ (\E q \in Programas \ {p} : Imagen(q) = i) => Bytes(j)' = Bytes(j),
         ~ (\E q \in Programas \ {p} : Imagen(q) = i) => Bytes(i)' = Nada
  PROVE  Mapas!Next
<1>1. imagenDe[p] = i /\ imagenDe' = [imagenDe EXCEPT ![p] = Nada] /\ devueltoDe' = devueltoDe
  BY Variables DEF MismaVista
<1>2. bytesDe' = IF \E q \in Programas \ {p} : imagenDe[q] = imagenDe[p] THEN bytesDe
                 ELSE [bytesDe EXCEPT ![imagenDe[p]] = Nada]
  <2>1. (\E q \in Programas \ {p} : imagenDe[q] = i) <=> (\E q \in Programas \ {p} : Imagen(q) = i)
    BY Variables
  <2>2. CASE \E q \in Programas \ {p} : Imagen(q) = i
    <3>1. bytesDe' = bytesDe
      BY <2>2, Variables
    <3> QED BY <1>1, <2>1, <2>2, <3>1
  <2>3. CASE ~ (\E q \in Programas \ {p} : Imagen(q) = i)
    <3>1. bytesDe' = [bytesDe EXCEPT ![i] = Nada]
      BY <2>3, Variables
    <3> QED BY <1>1, <2>1, <2>3, <3>1
  <2> QED BY <2>2, <2>3
<1>3. Mapas!Desmapear(p)
  <2>1. imagenDe[p] # Nada
    BY <1>1
  <2> QED BY <1>1, <1>2, <2>1 DEF Mapas!Desmapear, imagenDe, bytesDe, devueltoDe
<1> QED BY <1>3 DEF Mapas!Next

-------------------------------------------------------------------------------
(* Bytes that stay as they are *)

Enlace == DeBytes /\ SinBytes /\ DeImagen

LEMMA EnlaceSi ==
  ASSUME NombresAparte
  PROVE  /\ InvarianteM /\ InvNombres => Enlace
         /\ InvarianteM' /\ InvNombres' => Enlace'
BY BytesDe, BytesDespues, DeImagenSi DEF Enlace

VistoIgual == \A m \in Abiertos : \A a \in 0..(Largo(m) - 1) : VistoEn(m, a)' = VistoEn(m, a)

(* An image that p uses before and after. *)
LEMMA BytesIguales ==
  ASSUME Enlace, Enlace', NEW p \in Programas, NEW i, i # Nada, Imagen(p) = i, Imagen(p)' = i,
         NEW m, segmentos[p].mapeo = m, segmentos'[p].mapeo = m,
         \A a \in 0..(Largo(m) - 1) : VistoEn(m, a)' = VistoEn(m, a)
  PROVE  i \in Imagenes /\ Bytes(i)' = Bytes(i)
<1>1. EnUso(p) /\ EnUso(p)' /\ i \in Imagenes /\ m \in Programas
  BY DEF Enlace, DeImagen
<1>2. Bytes(i) = [a \in 0..(Largo(m) - 1) |-> VistoEn(m, a)]
  BY <1>1 DEF Enlace, DeBytes
<1>3. Bytes(i)' = [a \in 0..(Largo(m) - 1) |-> VistoEn(m, a)']
  BY <1>1 DEF Enlace, DeBytes
<1> QED BY <1>1, <1>2, <1>3

LEMMA BytesDeNadie ==
  ASSUME Enlace, Enlace', NEW i \in Imagenes,
         \A p \in Programas : Imagen(p) # i /\ Imagen(p)' # i
  PROVE  Bytes(i)' = Bytes(i) /\ Bytes(i) = Nada
BY DEF Enlace, SinBytes

(* Of a step in which p does not come to an image or leave one.              *)
LEMMA BytesDeTodos ==
  ASSUME InvarianteM, Enlace, Enlace', VistoIgual, NEW i \in Imagenes, i # Nada,
         \A q \in Programas : Imagen(q) = i <=> Imagen(q)' = i,
         \A q \in Programas : Imagen(q) = i => segmentos'[q].mapeo = segmentos[q].mapeo
  PROVE  Bytes(i)' = Bytes(i)
<1>1. CASE \A q \in Programas : Imagen(q) # i
  BY <1>1, BytesDeNadie
<1>2. ASSUME NEW q \in Programas, Imagen(q) = i PROVE Bytes(i)' = Bytes(i)
  <2>1. PICK m : m = segmentos[q].mapeo
    OBVIOUS
  <2>2. Imagen(q)' = i /\ segmentos'[q].mapeo = m
    BY <1>2, <2>1
  <2>3. EnUso(q)
    BY <1>2 DEF Enlace, DeImagen
  <2>4. m \in Abiertos
    BY <2>1, <2>3, DeUso
  <2>5. \A a \in 0..(Largo(m) - 1) : VistoEn(m, a)' = VistoEn(m, a)
    BY <2>4 DEF VistoIgual
  <2> QED BY <1>2, <2>1, <2>2, <2>5, BytesIguales
<1> QED BY <1>1, <1>2

LEMMA NoSeVe ==
  ASSUME InvarianteM, Enlace, Enlace', VistoIgual, NombresAparte, \A q \in Programas : MismaVista(q),
         \A q \in Programas : Imagen(q) # Nada => segmentos'[q].mapeo = segmentos[q].mapeo
  PROVE  UNCHANGED Mapas!visto
<1>1. \A i \in Imagenes : i # Nada
  BY Constantes DEF Imagenes, NombresAparte
<1>2. \A i \in Imagenes : Bytes(i)' = Bytes(i)
  BY <1>1, BytesDeTodos DEF MismaVista
<1> QED BY <1>2, VeNada

-------------------------------------------------------------------------------
(* Copies in progress *)

SinCopia == g_mutexPaginas \in Programas => pc[g_mutexPaginas] # "copy"

LEMMA SinCopiaIgual ==
  ASSUME ByteIgual, SinCopia, SinCopia'
  PROVE  VistoIgual
<1>1. \A m, a : VistoEn(m, a) = ByteEn(m, a)
  BY DEF VistoEn, SinCopia
<1>2. \A m, a : VistoEn(m, a)' = ByteEn(m, a)'
  BY DEF VistoEn, SinCopia
<1> QED BY <1>1, <1>2 DEF ByteIgual, VistoIgual

(* Who copies is not p, or goes on with the same copy. *)
LEMMA CopiaAjena ==
  ASSUME ByteIgual, NEW p \in Programas, \A q \in Programas \ {p} : Otro(p, q),
         g_mutexPaginas' = g_mutexPaginas,
         (pc[p] # "copy" /\ pc'[p] # "copy") \/ MismoAcceso(p)
  PROVE  VistoIgual
<1>1. CASE SinCopia
  <2>1. SinCopia'
    BY <1>1 DEF SinCopia, Otro, MismoAcceso
  <2> QED BY <1>1, <2>1, SinCopiaIgual
<1>2. CASE ~ SinCopia
  <2>1. PICK g \in Programas : g = g_mutexPaginas /\ pc[g] = "copy"
    BY <1>2 DEF SinCopia
  <2>2. /\ pc'[g] = "copy" /\ segmentos'[g].mapeo = segmentos[g].mapeo /\ local'[g].dir = local[g].dir
        /\ local'[g].tam = local[g].tam /\ local'[g].dato = local[g].dato
    BY <2>1 DEF Otro, MismoAcceso
  <2>3. ASSUME NEW m \in Abiertos, NEW a \in 0..(Largo(m) - 1) PROVE VistoEn(m, a)' = VistoEn(m, a)
    <3>1. ByteEn(m, a)' = ByteEn(m, a)
      BY DEF ByteIgual
    <3> QED BY <2>1, <2>2, <3>1 DEF VistoEn
  <2> QED BY <2>3 DEF VistoIgual
<1> QED BY <1>1, <1>2

(* A copy writes what was seen already. *)
LEMMA CopiaVista ==
  ASSUME InvarianteM, InvImagenes, NEW p \in Programas, UsarPagina(p), pc[p] = "copy"
  PROVE  VistoIgual
<1>0. PICK n, d, t, m, s, e, v : /\ n = local[p].pagina /\ d = local[p].dir /\ t = local[p].tam
                                 /\ m = segmentos[p].mapeo /\ s = Desde(d, n) /\ e = Hasta(d, t, n)
                                 /\ v = local[p].dato
  OBVIOUS
<1>1. g_mutexPaginas = p
  BY DEF InvarianteM, MutexM
<1>2. /\ UNCHANGED <<segmentos, pc, g_mutexPaginas>> /\ local'[p].dir = d /\ local'[p].tam = t
      /\ local'[p].dato = v
  BY <1>0, AvanzaPagina
<1>3. /\ n \in Nat /\ d \in Nat /\ t \in Nat \ {0} /\ d \div lengthPagina <= n
      /\ n <= (d + t - 1) \div lengthPagina /\ s \in Nat /\ e \in Nat
  BY <1>0, PaginaEnUso DEF UltimaPagina
<1>4. d <= s /\ e <= d + t
  BY <1>0, <1>3, TramoDePagina
<1>5. ASSUME NEW x \in Abiertos, NEW a \in 0..(Largo(x) - 1) PROVE VistoEn(x, a)' = VistoEn(x, a)
  <2>1. ByteEn(x, a)' = IF x = m /\ a \in s..(e - 1) THEN Dato(v, a - d) ELSE ByteEn(x, a)
    BY <1>0, CopiaPagina
  <2>2. VistoEn(x, a) = IF m = x /\ a \in d..(d + t - 1) THEN Dato(v, a - d) ELSE ByteEn(x, a)
    BY <1>0, <1>1 DEF VistoEn
  <2>3. VistoEn(x, a)' = IF m = x /\ a \in d..(d + t - 1) THEN Dato(v, a - d) ELSE ByteEn(x, a)'
    BY <1>0, <1>1, <1>2 DEF VistoEn
  <2>4. a \in s..(e - 1) => a \in d..(d + t - 1)
    BY <1>3, <1>4
  <2> QED BY <2>1, <2>2, <2>3, <2>4
<1> QED BY <1>5 DEF VistoIgual

(* A copy that ends has written all that there is of its addresses. *)
LEMMA CopiaAcabada ==
  ASSUME InvarianteM, InvImagenes, NEW p \in Programas, pc[p] = "copy",
         enviarRespuesta(p) \/ PaginaQueNoHay(p), NEW m \in Abiertos, NEW a \in 0..(Largo(m) - 1)
  PROVE  VistoEn(m, a) = ByteEn(m, a)
<1>0. PICK n, d, t, x : /\ n = local[p].pagina /\ d = local[p].dir /\ t = local[p].tam
                        /\ x = segmentos[p].mapeo
  OBVIOUS
<1>1. TiposM /\ InvMapeos /\ segmentos[p] # Nada /\ g_mutexPaginas = p
  BY ConSegmento DEF InvarianteM, MutexM
<1>2. n \in Nat /\ d \in Nat /\ t \in Nat
  BY <1>0, <1>1 DEF TiposM, Local
<1>3. /\ t # 0 /\ n \in (d \div lengthPagina)..(UltimaPagina(p) + 1)
      /\ UltimaPagina(p) = (d + t - 1) \div lengthPagina
      /\ \A b \in 0..(Largo(p) - 1) : b >= d /\ b < Llegado(p) => ByteEn(x, b) = Dato(local[p].dato, b - d)
  BY <1>0 DEF InvImagenes, InvAcceso, InvCopiado, UltimaPagina
<1>4. d + t - 1 \in Nat /\ d \div lengthPagina \in Nat /\ (d + t - 1) \div lengthPagina \in Nat
  <2>1. d + t - 1 \in Nat
    BY <1>2, <1>3
  <2> QED BY <1>2, <2>1, Division
<1>5. VistoEn(m, a) = IF x = m /\ a \in d..(d + t - 1) THEN Dato(local[p].dato, a - d) ELSE ByteEn(m, a)
  BY <1>0, <1>1 DEF VistoEn
<1>6. ASSUME x = m, a \in d..(d + t - 1) PROVE ByteEn(m, a) = Dato(local[p].dato, a - d)
  <2>0. path[x] = path[p] /\ Len(mapeos[x].tablaPaginas) = paginasDe[path[p]]
    BY <1>0, <1>1, DeSegmento
  <2>1. Largo(m) = Largo(p) /\ path[x] = path[p] /\ Largo(p) \in Nat
        /\ Len(mapeos[x].tablaPaginas) = paginasDe[path[p]] /\ paginasDe[path[p]] \in Nat
    BY <1>6, <2>0, Constantes DEF Largo
  <2>2. a < Llegado(p)
    <3>1. CASE enviarRespuesta(p)
      <4>1. ~ (n <= UltimaPagina(p))
        BY <1>0, <1>2, <1>3, <1>4, <3>1 DEF enviarRespuesta
      <4>2. n # d \div lengthPagina
        <5>1. d \div lengthPagina <= (d + t - 1) \div lengthPagina
          <6>1. PICK u \in Nat : u = (d + t - 1) \div lengthPagina
            BY <1>4
          <6>2. d + t - 1 < (u + 1) * lengthPagina
            BY <1>4, <6>1, DivisionMenor
          <6>3. (u + 1) * lengthPagina \in Nat
            BY Constantes
          <6>4. d < (u + 1) * lengthPagina
            BY <1>2, <1>3, <6>2, <6>3
          <6>5. d \div lengthPagina < u + 1
            BY <1>2, <6>4, DivisionMenor
          <6> QED BY <1>4, <6>1, <6>5
        <5> QED BY <1>2, <1>3, <1>4, <4>1, <5>1
      <4>3. Llegado(p) = d + t
        BY <1>0, <4>1, <4>2 DEF Llegado
      <4> QED BY <1>2, <1>6, <4>3
    <3>2. CASE PaginaQueNoHay(p)
      <4>1. n <= UltimaPagina(p) /\ ~ (n < paginasDe[path[p]])
        BY <1>0, <2>1, <3>2 DEF PaginaQueNoHay, HayPagina, Mapeo
      <4>2. a < n * lengthPagina
        <5>1. a < paginasDe[path[p]] * lengthPagina
          BY <2>1 DEF Largo
        <5>2. a \in Nat
          BY <2>1
        <5>3. a \div lengthPagina < paginasDe[path[p]] /\ a \div lengthPagina \in Nat
          BY <2>1, <5>1, <5>2, Division, DivisionMenor
        <5>4. a \div lengthPagina < n
          BY <1>2, <2>1, <4>1, <5>3
        <5> QED BY <1>2, <5>2, <5>4, DivisionMenor
      <4>3. n # d \div lengthPagina
        <5>1. d < n * lengthPagina
          <6>1. n * lengthPagina \in Nat
            BY <1>2, Constantes
          <6>2. d <= a /\ a \in Nat
            BY <1>2, <1>6, <2>1
          <6> QED BY <1>2, <4>2, <6>1, <6>2
        <5>2. d \div lengthPagina < n
          BY <1>2, <5>1, DivisionMenor
        <5> QED BY <1>2, <1>4, <5>2
      <4>4. Llegado(p) = n * lengthPagina
        BY <1>0, <4>1, <4>3 DEF Llegado
      <4> QED BY <4>2, <4>4
    <3> QED BY <3>1, <3>2
  <2> QED BY <1>2, <1>3, <1>6, <2>1, <2>2
<1> QED BY <1>5, <1>6

-------------------------------------------------------------------------------
(* Steps that the programs do not see *)

LEMMA VistaAjena ==
  ASSUME NEW p \in Programas, NEW q \in Programas, Otro(p, q)
  PROVE  MismaVista(q) /\ segmentos'[q] = segmentos[q]
BY DEF Otro, MismaVista, Imagen, Devuelto, UltimaPagina

LEMMA NoSeVeDe ==
  ASSUME NombresAparte, InvarianteM, Enlace, Enlace', VistoIgual, NEW p \in Programas,
         \A q \in Programas \ {p} : Otro(p, q), MismaVista(p),
         Imagen(p) = Nada \/ segmentos'[p] = segmentos[p]
  PROVE  UNCHANGED Mapas!visto
<1>1. \A q \in Programas : MismaVista(q)
  BY VistaAjena
<1>2. \A q \in Programas : Imagen(q) # Nada => segmentos'[q].mapeo = segmentos[q].mapeo
  BY VistaAjena
<1> QED BY <1>1, <1>2, NoSeVe

LEMMA MismaVistaSi ==
  ASSUME NEW p \in Programas, segmentos'[p] = segmentos[p], pc[p] \in EnUnmap <=> pc'[p] \in EnUnmap,
         pc[p] # "get", pc'[p] # "get"
  PROVE  MismaVista(p)
BY DEF MismaVista, Imagen, Devuelto

LEMMA VeCallado ==
  ASSUME NombresAparte, InvarianteM, InvImagenes, Enlace, Enlace', NEW p \in Programas,
         \/ procesarMap(p) \/ MapSumar(p) \/ UnmapRestar(p) \/ borrarMapeoAbierto(p)
         \/ destruirPagina(p) \/ Desconectar(p) \/ (\E n \in Descargas[p] : procesarSync(p, n))
  PROVE  UNCHANGED Mapas!visto
<1>1. SinTocar(p) /\ TiposM
  BY QueNoTocan DEF InvarianteM
<1>2. ByteIgual /\ \A q \in Programas \ {p} : Otro(p, q)
  BY <1>1, ImagenesSinTocar DEF SinTocar
<1>3. /\ segmentos' = segmentos /\ g_mutexPaginas' = g_mutexPaginas
      /\ pc[p] \notin {"get", "copy"} /\ (pc[p] \in EnUnmap <=> pc'[p] \in EnUnmap)
  <2> USE <1>1 DEF Ir, TiposM, tablas, frames, EnUnmap
  <2>1. CASE procesarMap(p)
    BY <2>1 DEF procesarMap
  <2>2. CASE MapSumar(p)
    BY <2>2 DEF MapSumar
  <2>3. CASE UnmapRestar(p)
    BY <2>3 DEF UnmapRestar
  <2>4. CASE borrarMapeoAbierto(p)
    BY <2>4 DEF borrarMapeoAbierto
  <2>5. CASE destruirPagina(p)
    BY <2>5 DEF destruirPagina
  <2>6. CASE Desconectar(p)
    BY <2>6 DEF Desconectar
  <2>7. CASE \E n \in Descargas[p] : procesarSync(p, n)
    BY <2>7 DEF procesarSync
  <2> QED BY <2>1, <2>2, <2>3, <2>4, <2>5, <2>6, <2>7
<1>4. pc'[p] \notin {"get", "copy"}
  BY <1>1 DEF SinTocar
<1>5. VistoIgual
  BY <1>2, <1>3, <1>4, CopiaAjena
<1>6. MismaVista(p)
  BY <1>3, <1>4, MismaVistaSi
<1> QED BY <1>2, <1>3, <1>5, <1>6, NoSeVeDe

(* The segment that goes was not seen any more. *)
LEMMA VeCerrar ==
  ASSUME NombresAparte, InvarianteM, InvImagenes, Enlace, Enlace', NEW p \in Programas,
         UnmapGuardar(p) \/ destruirSegmentoMap(p)
  PROVE  UNCHANGED Mapas!visto
<1>1. ByteIgual /\ \A q \in Programas \ {p} : Otro(p, q)
  BY ImagenesCuenta
<1>2. /\ pc[p] \in EnUnmap /\ pc'[p] = "fin" /\ segmentos'[p] = Nada
      /\ g_mutexPaginas' = g_mutexPaginas
  BY DEF InvarianteM, TiposM, UnmapGuardar, destruirSegmentoMap, SinSegmento, Ir, EnUnmap
<1>3. pc[p] # "copy" /\ pc[p] # "get"
  BY <1>2 DEF EnUnmap
<1>4. VistoIgual
  BY <1>1, <1>2, <1>3, CopiaAjena
<1>5. Imagen(p) = Nada /\ Imagen(p)' = Nada
  BY <1>2 DEF Imagen
<1>6. MismaVista(p)
  BY <1>2, <1>3, <1>5 DEF MismaVista, Devuelto
<1> QED BY <1>1, <1>4, <1>5, <1>6, NoSeVeDe

LEMMA VeMsync ==
  ASSUME NombresAparte, InvarianteM, InvImagenes, Enlace, Enlace', NEW p \in Programas,
         enviarRespuestaMsync(p)
  PROVE  UNCHANGED Mapas!visto
<1>1. /\ ByteIgual /\ pc[p] = "sync" /\ pc'[p] = "libre"
      /\ UNCHANGED <<segmentos, g_mutexPaginas>> /\ \A q \in Programas \ {p} : Otro(p, q)
  BY ImagenesMsync
<1>2. VistoIgual
  BY <1>1, CopiaAjena
<1>3. MismaVista(p)
  BY <1>1, MismaVistaSi DEF EnUnmap
<1> QED BY <1>1, <1>2, <1>3, NoSeVeDe

LEMMA VeMirar ==
  ASSUME NombresAparte, InvarianteM, InvImagenes, Enlace, Enlace', NEW p \in Programas,
         MirarPresencia(p) \/ TraerPaginaDeMap(p)
  PROVE  UNCHANGED Mapas!visto
<1>1. ByteIgual /\ MismoAcceso(p) /\ \A q \in Programas \ {p} : Otro(p, q)
  BY ImagenesMirar, ImagenesTraer
<1>2. g_mutexPaginas' = g_mutexPaginas
  BY DEF MirarPresencia, TraerPaginaDeMap
<1>3. VistoIgual
  BY <1>1, <1>2, CopiaAjena
<1>4. MismaVista(p) /\ segmentos'[p] = segmentos[p]
  BY <1>1 DEF MismaVista, MismoAcceso, Imagen, Devuelto, UltimaPagina
<1> QED BY <1>1, <1>3, <1>4, NoSeVeDe

LEMMA DeAcceso ==
  ASSUME InvarianteM, InvImagenes, NEW p \in Programas, pc[p] \in {"get", "copy"}
  PROVE  /\ g_mutexPaginas = p /\ segmentos[p] # Nada
         /\ local[p].dir \in Nat /\ local[p].tam \in Nat \ {0} /\ local[p].pagina \in Nat
         /\ local[p].dir \div lengthPagina \in Nat /\ UltimaPagina(p) \in Nat
<1>1. g_mutexPaginas = p /\ segmentos[p] # Nada
  BY ConSegmento DEF InvarianteM, MutexM
<1>2. local[p].dir \in Nat /\ local[p].tam \in Nat /\ local[p].pagina \in Nat
  BY DEF InvarianteM, TiposM, Local
<1>3. local[p].tam # 0
  BY DEF InvImagenes, InvAcceso
<1>4. local[p].dir + local[p].tam - 1 \in Nat
  BY <1>2, <1>3
<1> QED BY <1>1, <1>2, <1>3, <1>4, Division DEF UltimaPagina

(* An access that ends. *)
LEMMA VistoAlSoltar ==
  ASSUME InvarianteM, InvImagenes, NEW p \in Programas, enviarRespuesta(p) \/ PaginaQueNoHay(p)
  PROVE  /\ VistoIgual /\ UNCHANGED segmentos /\ \A q \in Programas \ {p} : Otro(p, q)
         /\ pc[p] \in {"get", "copy"} /\ pc'[p] \in {"libre", "fin"}
         /\ Imagen(p)' = Imagen(p)
<1>1. SinTocar(p)
  BY QueNoTocan DEF InvarianteM
<1>2. ByteIgual /\ \A q \in Programas \ {p} : Otro(p, q)
  BY <1>1, ImagenesSinTocar DEF SinTocar
<1>3. UNCHANGED segmentos /\ g_mutexPaginas' = Nada /\ pc'[p] \in {"libre", "fin"}
  BY DEF enviarRespuesta, PaginaQueNoHay, tablas, Ir, InvarianteM, TiposM
<1>4. pc[p] \in {"get", "copy"}
  <2>1. PaginaQueNoHay(p) => pc[p] # "sync"
    BY PaginaDeSync DEF PaginaQueNoHay
  <2> QED BY <2>1 DEF PaginaQueNoHay, enviarRespuesta, Accediendo
<1>5. SinCopia'
  <2>1. Nada \notin Programas
    BY Constantes
  <2> QED BY <1>3, <2>1 DEF SinCopia
<1>6. CASE pc[p] = "get"
  <2>1. SinCopia
    BY <1>6, DeAcceso DEF SinCopia
  <2> QED BY <1>2, <1>3, <1>4, <1>5, <2>1, SinCopiaIgual DEF Imagen, EnUnmap
<1>7. CASE pc[p] = "copy"
  <2>1. ASSUME NEW m \in Abiertos, NEW a \in 0..(Largo(m) - 1) PROVE VistoEn(m, a)' = VistoEn(m, a)
    <3>1. VistoEn(m, a) = ByteEn(m, a)
      BY <1>7, CopiaAcabada
    <3>2. VistoEn(m, a)' = ByteEn(m, a)'
      BY <1>5 DEF VistoEn, SinCopia
    <3> QED BY <1>2, <3>1, <3>2 DEF ByteIgual
  <2> QED BY <1>2, <1>3, <1>4, <2>1 DEF VistoIgual, Imagen, EnUnmap
<1> QED BY <1>4, <1>6, <1>7

LEMMA BytesQuietos ==
  ASSUME NombresAparte, InvarianteM, Enlace, Enlace', VistoIgual, NEW p \in Programas,
         \A q \in Programas \ {p} : Otro(p, q), Imagen(p)' = Imagen(p), segmentos'[p] = segmentos[p]
  PROVE  /\ \A i \in Imagenes : Bytes(i)' = Bytes(i)
         /\ \A q \in Programas \ {p} : MismaVista(q)
<1>1. \A i \in Imagenes : i # Nada
  BY Constantes DEF Imagenes, NombresAparte
<1>2. \A q \in Programas : Imagen(q)' = Imagen(q) /\ segmentos'[q] = segmentos[q]
  BY VistaAjena DEF MismaVista
<1> QED BY <1>1, <1>2, BytesDeTodos, VistaAjena

LEMMA VeSoltar ==
  ASSUME NombresAparte, InvarianteM, InvImagenes, Enlace, Enlace', NEW p \in Programas,
         enviarRespuesta(p) \/ PaginaQueNoHay(p)
  PROVE  UNCHANGED Mapas!visto \/ Mapas!Next
<1>1. /\ VistoIgual /\ UNCHANGED segmentos /\ \A q \in Programas \ {p} : Otro(p, q)
      /\ pc[p] \in {"get", "copy"} /\ pc'[p] \in {"libre", "fin"} /\ Imagen(p)' = Imagen(p)
  BY VistoAlSoltar
<1>2. Devuelto(p)' = Nada
  BY <1>1 DEF Devuelto
<1>3. CASE Devuelto(p) = Nada
  <2>1. MismaVista(p)
    BY <1>1, <1>2, <1>3 DEF MismaVista
  <2> QED BY <1>1, <2>1, NoSeVeDe
<1>4. CASE Devuelto(p) # Nada
  <2>1. /\ \A i \in Imagenes : Bytes(i)' = Bytes(i)
        /\ \A q \in Programas \ {p} : MismaVista(q)
    BY <1>1, BytesQuietos
  <2> QED BY <1>1, <1>2, <1>4, <2>1, VeEntregar
<1> QED BY <1>3, <1>4

LEMMA VeUsar ==
  ASSUME NombresAparte, InvarianteM, InvNombres, InvImagenes, InvarianteM', InvImagenes', Enlace, Enlace',
         NEW p \in Programas, UsarPagina(p)
  PROVE  UNCHANGED Mapas!visto \/ Mapas!Next
<1>0. PICK n, d, m : n = local[p].pagina /\ d = local[p].dir /\ m = segmentos[p].mapeo
  OBVIOUS
<1>1. /\ UNCHANGED <<segmentos, pc, g_mutexPaginas>> /\ \A q \in Programas \ {p} : Otro(p, q)
      /\ pc[p] \in {"get", "copy", "sync"} /\ local'[p].dir = d /\ local'[p].pagina = n + 1
      /\ UltimaPagina(p)' = UltimaPagina(p)
  BY <1>0, AvanzaPagina
<1>2. pc[p] # "copy" => ByteIgual
  BY ImagenesObtener
<1>3. VistoIgual
  <2>1. CASE pc[p] = "copy"
    BY <2>1, CopiaVista
  <2>2. CASE pc[p] # "copy"
    BY <1>1, <1>2, <2>2, CopiaAjena
  <2> QED BY <2>1, <2>2
<1>4. Imagen(p)' = Imagen(p)
  BY <1>1 DEF Imagen
<1>5. ASSUME Devuelto(p)' = Devuelto(p) PROVE UNCHANGED Mapas!visto
  <2>1. MismaVista(p)
    BY <1>4, <1>5 DEF MismaVista
  <2> QED BY <1>1, <1>3, <2>1, NoSeVeDe
<1>6. CASE pc[p] # "get"
  BY <1>1, <1>5, <1>6 DEF Devuelto
<1>7. CASE pc[p] = "get"
  <2>1. /\ g_mutexPaginas = p /\ segmentos[p] # Nada
        /\ d \in Nat /\ n \in Nat /\ d \div lengthPagina \in Nat /\ UltimaPagina(p) \in Nat
    BY <1>0, <1>7, DeAcceso
  <2>2. n <= UltimaPagina(p) /\ d \div lengthPagina <= n
    BY <1>0, <1>7, <2>1 DEF InvImagenes, InvAcceso, UsarPagina, Accediendo
  <2>3. Devuelto(p) = Nada
    BY <1>0, <2>1, <2>2 DEF Devuelto
  <2>4. CASE ~ (n + 1 > UltimaPagina(p))
    <3>1. Devuelto(p)' = Nada
      BY <1>1, <2>4 DEF Devuelto
    <3> QED BY <1>5, <2>3, <3>1
  <2>5. CASE n + 1 > UltimaPagina(p)
    <3>1. PICK l, t, i : l = local'[p].leido /\ t = local'[p].tam /\ i = Imagen(p)
      OBVIOUS
    <3>2. Devuelto(p)' = l
      BY <1>1, <1>7, <2>5, <3>1 DEF Devuelto
    <3>3. l \in Seq(Byte) /\ t \in Nat /\ t # 0
      BY <1>1, <1>7, <3>1 DEF InvarianteM, TiposM, Local, InvImagenes, InvAcceso
    <3>4. Llegado(p)' = d + t
      <4>1. n + 1 # d \div lengthPagina /\ ~ (n + 1 <= UltimaPagina(p))
        BY <2>1, <2>2, <2>5
      <4> QED BY <1>1, <3>1, <4>1 DEF Llegado
    <3>5. /\ d + Len(l) = d + t
          /\ \A k \in 1..Len(l) : d + k - 1 < Largo(p) /\ l[k] = ByteEn(m, d + k - 1)'
      <4>1. InvObtenido(p)'
        BY DEF InvImagenes
      <4>2. /\ local'[p].dir + Len(local'[p].leido) = Llegado(p)'
            /\ \A k \in 1..Len(local'[p].leido) :
                 /\ local'[p].dir + k - 1 < Largo(p)
                 /\ local'[p].leido[k] = ByteEn(segmentos[p].mapeo, local[p].dir + k - 1)'
        BY <1>1, <1>7, <4>1 DEF InvObtenido
      <4>3. \A k : ByteEn(segmentos[p].mapeo, local[p].dir + k - 1)' = ByteEn(m, d + k - 1)'
        BY <1>0, <1>1 DEF ByteEn
      <4> QED BY <1>1, <3>1, <3>4, <4>2, <4>3
    <3>6. Len(l) \in Nat /\ Len(l) = t /\ l = [k \in 1..t |-> l[k]]
      <4>1. Len(l) \in Nat /\ Len(l) = t
        BY <2>1, <3>3, <3>5
      <4> QED BY <3>3, <4>1
    <3>7. /\ EnUso(p) /\ i \in Imagenes /\ i # Nada /\ m \in Abiertos /\ m \in Programas
          /\ tamanioDe[i] = Largo(p) /\ Largo(m) = Largo(p) /\ Largo(p) \in Nat
      <4>1. EnUso(p)
        BY <1>7, <2>1 DEF EnUso, EnUnmap
      <4>2. Largo(p) \in Nat
        BY Constantes
      <4> QED BY <1>0, <3>1, <4>1, <4>2, ImagenDe, DeUso DEF tamanioDe
    <3>8. d \in 0..tamanioDe[i] /\ t \in 0..tamanioDe[i] /\ d + t <= tamanioDe[i]
      <4>1. d + t - 1 < Largo(p)
        BY <2>1, <3>3, <3>5, <3>6
      <4> QED BY <2>1, <3>3, <3>7, <4>1
    <3>9. SinCopia
      BY <1>7, <2>1 DEF SinCopia
    <3>10. ASSUME NEW k \in 1..t PROVE l[k] = Bytes(i)[d + k - 1]
      <4>1. PICK a : a = d + k - 1
        OBVIOUS
      <4>2. a \in 0..(Largo(m) - 1)
        BY <2>1, <3>3, <3>5, <3>6, <3>7, <4>1
      <4>3. Bytes(i)[a] = VistoEn(m, a)
        BY <1>0, <3>1, <3>7, <4>2 DEF Enlace, DeBytes
      <4>4. VistoEn(m, a) = ByteEn(m, a)
        BY <3>9 DEF VistoEn, SinCopia
      <4>5. ByteEn(m, a)' = ByteEn(m, a)
        BY <1>2, <1>7, <3>7, <4>2 DEF ByteIgual
      <4>6. l[k] = ByteEn(m, d + k - 1)'
        BY <3>5, <3>6
      <4>7. ByteEn(m, d + k - 1)' = ByteEn(m, a)'
        BY <4>1
      <4> QED BY <4>1, <4>3, <4>4, <4>5, <4>6, <4>7
    <3>11. Devuelto(p)' = [k \in 1..t |-> Bytes(i)[d + k - 1]]
      BY <3>2, <3>6, <3>10
    <3>12. /\ \A j \in Imagenes : Bytes(j)' = Bytes(j)
           /\ \A q \in Programas \ {p} : MismaVista(q)
      BY <1>1, <1>3, <1>4, BytesQuietos
    <3>13. Imagen(p) = i /\ Imagen(p)' = i
      BY <1>4, <3>1
    <3> QED BY <2>3, <3>7, <3>8, <3>11, <3>12, <3>13, VeLeer
  <2> QED BY <2>4, <2>5
<1> QED BY <1>6, <1>7

-------------------------------------------------------------------------------
(* Steps that the programs see *)

LEMMA DivisionCrece ==
  ASSUME NEW a \in Nat, NEW b \in Nat, a <= b
  PROVE  a \div lengthPagina <= b \div lengthPagina
<1>1. PICK u \in Nat : u = b \div lengthPagina
  BY Division
<1>2. a \div lengthPagina \in Nat
  BY Division
<1>3. b < (u + 1) * lengthPagina
  BY <1>1, DivisionMenor
<1>4. (u + 1) * lengthPagina \in Nat
  BY Constantes
<1>5. a < (u + 1) * lengthPagina
  BY <1>3, <1>4
<1>6. a \div lengthPagina < u + 1
  BY <1>5, DivisionMenor
<1> QED BY <1>1, <1>2, <1>6

LEMMA TamanioDe ==
  ASSUME NombresAparte, NEW p \in Programas, NEW i, i = p \/ i = path[p]
  PROVE  i \in Imagenes /\ i # Nada /\ tamanioDe[i] = Largo(p)
<1>1. i \in Imagenes /\ i # Nada
  BY Constantes DEF Imagenes, NombresAparte
<1>2. (IF i \in Programas THEN path[i] ELSE i) = path[p]
  BY DEF NombresAparte
<1>3. tamanioDe[i] = lengthPagina * paginasDe[path[p]]
  BY <1>1, <1>2 DEF tamanioDe
<1>4. \A a, b \in Nat : a * b = b * a
  OBVIOUS
<1>5. lengthPagina \in Nat /\ paginasDe[path[p]] \in Nat
  BY Constantes
<1> QED BY <1>1, <1>3, <1>4, <1>5 DEF Largo

(* An image that another program has. *)
LEMMA BytesDeOtro ==
  ASSUME InvarianteM, Enlace, Enlace', NEW p \in Programas, NEW q \in Programas, Otro(p, q),
         NEW i, i # Nada, Imagen(q) = i, NEW m, segmentos[q].mapeo = m,
         \A a \in 0..(Largo(m) - 1) : VistoEn(m, a)' = VistoEn(m, a)
  PROVE  i \in Imagenes /\ Bytes(i)' = Bytes(i)
<1>1. Imagen(q)' = i /\ segmentos'[q].mapeo = m
  BY VistaAjena DEF MismaVista
<1> QED BY <1>1, BytesIguales

LEMMA BytesSiOtro ==
  ASSUME InvarianteM, Enlace, Enlace', VistoIgual, NEW p \in Programas, NEW q \in Programas, Otro(p, q),
         NEW i, i # Nada, Imagen(q) = i
  PROVE  i \in Imagenes /\ Bytes(i)' = Bytes(i)
<1>1. PICK m : m = segmentos[q].mapeo
  OBVIOUS
<1>2. EnUso(q)
  BY DEF Enlace, DeImagen
<1>3. m \in Abiertos
  BY <1>1, <1>2, DeUso
<1>4. \A a \in 0..(Largo(m) - 1) : VistoEn(m, a)' = VistoEn(m, a)
  BY <1>3 DEF VistoIgual
<1> QED BY <1>1, <1>4, BytesDeOtro

LEMMA VeDeUnMap ==
  ASSUME NombresAparte, InvarianteM, InvImagenes, Enlace, Enlace', NEW p \in Programas,
         procesarUnMap(p)
  PROVE  Mapas!Next
<1>1. SinTocar(p)
  BY QueNoTocan DEF InvarianteM
<1>2. ByteIgual /\ \A q \in Programas \ {p} : Otro(p, q)
  BY <1>1, ImagenesSinTocar DEF SinTocar
<1>3. /\ segmentos' = segmentos /\ g_mutexPaginas' = g_mutexPaginas
      /\ pc[p] = "libre" /\ pc'[p] \in EnUnmap
  BY DEF procesarUnMap, Ir, InvarianteM, TiposM, tablas, EnUnmap
<1>4. pc'[p] # "copy" /\ pc'[p] # "get"
  BY <1>3 DEF EnUnmap
<1>5. VistoIgual
  BY <1>2, <1>3, <1>4, CopiaAjena
<1>6. PICK i : i = Imagen(p)
  OBVIOUS
<1>7. EnUso(p)
  BY <1>3, ConSegmento DEF EnUso, EnUnmap
<1>8. i # Nada /\ i \in Imagenes
  BY <1>6, <1>7 DEF Enlace, DeImagen
<1>9. Imagen(p)' = Nada /\ Devuelto(p) = Nada /\ Devuelto(p)' = Nada
  BY <1>3, <1>4 DEF Imagen, Devuelto
<1>10. \A q \in Programas \ {p} : MismaVista(q)
  BY <1>2, VistaAjena
<1>11. ASSUME NEW j \in Imagenes, j # i \/ \E q \in Programas \ {p} : Imagen(q) = i
       PROVE  Bytes(j)' = Bytes(j)
  <2>1. j # Nada
    BY Constantes DEF Imagenes, NombresAparte
  <2>2. CASE \E q \in Programas \ {p} : Imagen(q) = j
    BY <1>2, <1>5, <2>1, <2>2, BytesSiOtro
  <2>3. CASE \A q \in Programas \ {p} : Imagen(q) # j
    <3>1. j # i
      BY <1>11, <2>3
    <3>2. \A q \in Programas : Imagen(q) # j /\ Imagen(q)' # j
      BY <1>6, <1>9, <1>10, <2>1, <2>3, <3>1 DEF MismaVista
    <3> QED BY <3>2, BytesDeNadie
  <2> QED BY <2>2, <2>3
<1>12. ASSUME ~ (\E q \in Programas \ {p} : Imagen(q) = i) PROVE Bytes(i)' = Nada
  <2>1. \A q \in Programas : Imagen(q)' # i
    BY <1>8, <1>9, <1>10, <1>12 DEF MismaVista
  <2> QED BY <1>8, <2>1 DEF Enlace, SinBytes
<1> QED BY <1>6, <1>8, <1>9, <1>10, <1>11, <1>12, VeDesmapear

(* A map that ends: the images that there were stay as they were. *)
LEMMA VeDeMap ==
  ASSUME NombresAparte, InvarianteM, InvarianteM', Enlace, Enlace', ByteIgual, NEW p \in Programas,
         \A q \in Programas \ {p} : Otro(p, q), g_mutexPaginas' = g_mutexPaginas,
         pc[p] \in EnMap, pc'[p] = "libre",
         NEW i, i = IF segmentos'[p].esCompartido THEN path[p] ELSE p,
         Bytes(i) = Nada => Bytes(i)' = [a \in 0..(Largo(p) - 1) |-> Dato(Nada, 0)]
  PROVE  Mapas!Next
<1>1. pc[p] # "copy" /\ pc[p] # "get"
  BY DEF EnMap
<1>2. VistoIgual
  BY <1>1, CopiaAjena
<1>3. segmentos[p] = Nada /\ segmentos'[p] # Nada
  BY DEF InvarianteM, InvSegmento
<1>4. Imagen(p) = Nada /\ Imagen(p)' = i
  BY <1>3 DEF Imagen, EnUnmap
<1>5. Devuelto(p)' = Devuelto(p)
  BY <1>1 DEF Devuelto
<1>6. \A q \in Programas \ {p} : MismaVista(q)
  BY VistaAjena
<1>7. i \in Imagenes /\ i # Nada /\ tamanioDe[i] = Largo(p)
  BY TamanioDe
<1>8. ASSUME NEW j \in Imagenes, j # i \/ Bytes(i) # Nada PROVE Bytes(j)' = Bytes(j)
  <2>1. j # Nada
    BY Constantes DEF Imagenes, NombresAparte
  <2>2. CASE \E q \in Programas \ {p} : Imagen(q) = j
    BY <1>2, <2>1, <2>2, BytesSiOtro
  <2>3. CASE \A q \in Programas \ {p} : Imagen(q) # j
    <3>1. \A q \in Programas : Imagen(q) # j
      BY <1>4, <2>1, <2>3
    <3>2. j # i
      BY <1>7, <1>8, <3>1 DEF Enlace, SinBytes
    <3>3. \A q \in Programas : Imagen(q)' # j
      BY <1>4, <1>6, <2>3, <3>2 DEF MismaVista
    <3> QED BY <3>1, <3>3, BytesDeNadie
  <2> QED BY <2>2, <2>3
<1> QED BY <1>4, <1>5, <1>6, <1>7, <1>8, VeMapear

LEMMA VeMapGuardar ==
  ASSUME NombresAparte, InvarianteM, InvarianteM', InvImagenes, Enlace, Enlace', NEW p \in Programas,
         MapGuardar(p)
  PROVE  Mapas!Next
<1>1. ByteIgual /\ \A q \in Programas \ {p} : Otro(p, q)
  BY ImagenesCuenta
<1>2. PICK m : m = local[p].mapeo
  OBVIOUS
<1>3. /\ pc[p] = "map_guardar" /\ pc'[p] = "libre" /\ g_mutexPaginas' = g_mutexPaginas
      /\ segmentos'[p].esCompartido /\ pc[p] \in EnMap
  BY DEF MapGuardar, Mapeado, Segmento, Ir, InvarianteM, TiposM, EnMap
<1>4. m \in Programas /\ EnLaLista(m) /\ path[m] = path[p] /\ flags[p] = "MAP_SHARED"
  BY <1>2, <1>3 DEF InvarianteM, InvLeido
<1>5. m \in Vivos /\ flags[m] = "MAP_SHARED" /\ segmentos[p] = Nada
  BY <1>3, <1>4 DEF InvarianteM, InvLista, InvSegmento
<1>6. PICK q \in Programas : segmentos[q] # Nada /\ segmentos[q].mapeo = m
  BY <1>5 DEF InvarianteM, InvCuentas, Usuarios
<1>7. pc[q] \notin EnUnmap
  BY <1>3, <1>5, <1>6 DEF InvarianteM, Exclusion
<1>8. segmentos[q].esCompartido /\ path[q] = path[p]
  BY <1>4, <1>5, <1>6 DEF InvarianteM, InvMapeos
<1>9. Imagen(q) = path[p] /\ EnUso(q) /\ m \in Abiertos
  BY <1>4, <1>6, <1>7, <1>8 DEF Imagen, EnUso, Abiertos
<1>10. path[p] \in Imagenes
  BY DEF Imagenes
<1>11. Bytes(path[p]) = [a \in 0..(Largo(m) - 1) |-> VistoEn(m, a)]
  BY ZenonT(30), <1>4, <1>6, <1>9, <1>10 DEF Enlace, DeBytes
<1>12. ASSUME NEW a \in 0..(Largo(m) - 1) PROVE VistoEn(m, a) \in Byte
  <2>1. ByteEn(m, a) \in Byte
    BY <1>9, ByteDe
  <2>2. PICK c : c = g_mutexPaginas
    OBVIOUS
  <2>3. ASSUME c \in Programas, pc[c] = "copy", a \in local[c].dir..(local[c].dir + local[c].tam - 1)
        PROVE  Dato(local[c].dato, a - local[c].dir) \in Byte
    <3>1. local[c].dato \in Valores
      BY <2>3 DEF InvarianteM, InvPagina
    <3>2. local[c].dir \in Nat /\ local[c].tam \in Nat
      BY <2>3 DEF InvarianteM, TiposM, Local
    <3>3. a - local[c].dir \in Nat
      BY <2>3, <3>2
    <3> QED BY <3>1, <3>3 DEF Byte, Dato
  <2> QED BY <2>1, <2>2, <2>3 DEF VistoEn
<1>13. Bytes(path[p]) # Nada
  <2>1. Bytes(path[p]) \in [0..(paginasDe[path[m]] * lengthPagina - 1) -> Byte]
    BY <1>11, <1>12 DEF Largo
  <2> QED BY <1>4, <2>1, NadaAssumption
<1> QED BY <1>1, <1>3, <1>13, VeDeMap

LEMMA VeMapNuevo ==
  ASSUME NombresAparte, InvarianteM, InvarianteM', InvImagenes, Enlace, Enlace', NEW p \in Programas,
         MapAgregar(p) \/ MapPrivado(p)
  PROVE  Mapas!Next
<1>1. /\ ByteIgual /\ \A q \in Programas \ {p} : Otro(p, q)
      /\ p \notin Vivos /\ mapeos'[p] = crearMapeo(p)
  BY ImagenesNuevas
<1>2. PICK i : i = IF segmentos'[p].esCompartido THEN path[p] ELSE p
  OBVIOUS
<1>3. /\ pc[p] \in EnMap /\ pc'[p] = "libre" /\ g_mutexPaginas' = g_mutexPaginas
      /\ segmentos'[p].mapeo = p
  BY DEF MapAgregar, MapPrivado, Mapeado, Segmento, Ir, InvarianteM, TiposM, EnMap
<1>4. segmentos'[p] # Nada
  BY <1>3 DEF InvarianteM, InvSegmento
<1>5. EnUso(p)' /\ Imagen(p)' = i /\ i \in Imagenes
  <2>1. i \in Imagenes
    BY <1>2, TamanioDe
  <2> QED BY <1>2, <1>3, <1>4, <2>1 DEF EnUso, Imagen, EnUnmap
<1>6. Bytes(i)' = [a \in 0..(Largo(p) - 1) |-> VistoEn(p, a)']
  BY <1>3, <1>5 DEF Enlace, DeBytes
<1>7. ASSUME NEW a \in 0..(Largo(p) - 1) PROVE VistoEn(p, a)' = Dato(Nada, 0)
  <2>1. ASSUME NEW c \in Programas, pc'[c] = "copy" PROVE segmentos'[c].mapeo # p
    <3>1. c # p
      BY <1>3, <2>1
    <3>2. pc[c] = "copy" /\ segmentos'[c] = segmentos[c]
      BY <1>1, <2>1, <3>1 DEF Otro
    <3>3. segmentos[c].mapeo \in Vivos
      BY <3>2, ConSegmento, DeSegmento DEF InvarianteM
    <3> QED BY <1>1, <3>2, <3>3
  <2>2. VistoEn(p, a)' = ByteEn(p, a)'
    BY <2>1 DEF VistoEn
  <2>3. PICK n, k : n = a \div lengthPagina /\ k = a % lengthPagina
    OBVIOUS
  <2>4. n \in 0..(paginasDe[path[p]] - 1) /\ n + 1 \in 1..paginasDe[path[p]] /\ k \in 0..(lengthPagina - 1)
    BY <2>3, PaginaDeByte
  <2>5. /\ ~ crearMapeo(p).tablaPaginas[n + 1].flagPresencia
        /\ crearMapeo(p).contenido[n][k] = Dato(Nada, 0)
    BY <2>4 DEF crearMapeo, crearPaginaMap, PaginaEnCero
  <2>6. ByteEn(p, a)' = IF mapeos'[p].tablaPaginas[n + 1].flagPresencia
                        THEN contenidoFrames'[mapeos'[p].tablaPaginas[n + 1].nroFrame][k]
                        ELSE mapeos'[p].contenido[n][k]
    BY <2>3 DEF ByteEn
  <2> QED BY <1>1, <2>2, <2>5, <2>6
<1>8. Bytes(i)' = [a \in 0..(Largo(p) - 1) |-> Dato(Nada, 0)]
  BY <1>6, <1>7
<1> QED BY <1>1, <1>2, <1>3, <1>8, VeDeMap

LEMMA VeAcceder ==
  ASSUME NombresAparte, InvarianteM, InvNombres, InvImagenes, Enlace, Enlace', NEW p \in Programas,
         NEW op \in {"get", "copy"}, NEW dir \in Nat, NEW tam \in Nat \ {0}, NEW v,
         op = "copy" => v \in Valores, Acceder(p, op, dir, tam, v)
  PROVE  UNCHANGED Mapas!visto \/ Mapas!Next
<1>1. /\ ByteIgual /\ UNCHANGED segmentos /\ \A q \in Programas \ {p} : Otro(p, q)
      /\ pc[p] = "libre" /\ g_mutexPaginas = Nada
      /\ \/ pc'[p] = "fin" /\ g_mutexPaginas' = Nada
         \/ /\ pc'[p] = op /\ g_mutexPaginas' = p
            /\ local'[p].dir = dir /\ local'[p].tam = tam /\ local'[p].dato = v
            /\ local'[p].pagina = dir \div lengthPagina
  BY ImagenesAcceder
<1>2. Nada \notin Programas
  BY Constantes
<1>3. SinCopia
  BY <1>1, <1>2 DEF SinCopia
<1>4. Imagen(p)' = Imagen(p) /\ Devuelto(p) = Nada
  BY <1>1 DEF Imagen, Devuelto, EnUnmap
<1>5. Devuelto(p)' = Nada
  <2>1. ASSUME pc'[p] = "get" PROVE ~ (local'[p].pagina > UltimaPagina(p)')
    <3>1. UltimaPagina(p)' = (dir + tam - 1) \div lengthPagina /\ local'[p].pagina = dir \div lengthPagina
      BY <1>1, <2>1 DEF UltimaPagina
    <3>2. dir + tam - 1 \in Nat /\ dir <= dir + tam - 1
      OBVIOUS
    <3>3. dir \div lengthPagina \in Nat /\ (dir + tam - 1) \div lengthPagina \in Nat
      BY <3>2, Division
    <3>4. dir \div lengthPagina <= (dir + tam - 1) \div lengthPagina
      BY <3>2, DivisionCrece
    <3> QED BY <3>1, <3>3, <3>4
  <2> QED BY <2>1 DEF Devuelto
<1>6. MismaVista(p) /\ \A q \in Programas : MismaVista(q)
  <2>1. MismaVista(p)
    BY <1>4, <1>5 DEF MismaVista
  <2> QED BY <1>1, <2>1, VistaAjena
<1>7. ASSUME VistoIgual PROVE UNCHANGED Mapas!visto
  BY <1>1, <1>6, <1>7, NoSeVeDe
<1>8. CASE (pc'[p] = "fin" /\ g_mutexPaginas' = Nada) \/ op = "get"
  <2>1. SinCopia'
    BY <1>1, <1>2, <1>8 DEF SinCopia
  <2> QED BY <1>1, <1>3, <1>7, <2>1, SinCopiaIgual
<1>9. CASE pc'[p] = "copy" /\ op = "copy"
  <2>1. PICK m, i : m = segmentos[p].mapeo /\ i = Imagen(p)
    OBVIOUS
  <2>2. EnUso(p)
    BY <1>1, ConSegmento DEF EnUso, EnUnmap
  <2>3. Largo(p) \in Nat
    BY Constantes
  <2>4. /\ i \in Imagenes /\ i # Nada /\ m \in Abiertos /\ m \in Programas
        /\ tamanioDe[i] = Largo(p) /\ Largo(m) = Largo(p)
    BY <2>1, <2>2, ImagenDe, DeUso DEF tamanioDe
  <2>5. \A x, a : VistoEn(x, a) = ByteEn(x, a)
    BY <1>3 DEF VistoEn, SinCopia
  <2>6. g_mutexPaginas' = p /\ local'[p].dir = dir /\ local'[p].tam = tam /\ local'[p].dato = v
    BY <1>1, <1>9
  <2>7. ASSUME NEW x, NEW a
        PROVE  VistoEn(x, a)' = IF m = x /\ a \in dir..(dir + tam - 1) THEN Dato(v, a - dir)
                                ELSE ByteEn(x, a)'
    BY <1>1, <1>9, <2>1, <2>6 DEF VistoEn
  <2>8. CASE dir > Largo(p)
    <3>1. ASSUME NEW x \in Abiertos, NEW a \in 0..(Largo(x) - 1) PROVE VistoEn(x, a)' = VistoEn(x, a)
      <4>1. ~ (m = x /\ a \in dir..(dir + tam - 1))
        BY <2>3, <2>4, <2>8
      <4> QED BY <1>1, <2>5, <2>7, <4>1 DEF ByteIgual
    <3> QED BY <1>7, <3>1 DEF VistoIgual
  <2>9. CASE ~ (dir > Largo(p))
    <3>1. PICK n : n = IF tam <= Largo(p) THEN tam ELSE Largo(p)
      OBVIOUS
    <3>2. dir \in 0..tamanioDe[i] /\ n \in 0..tamanioDe[i] /\ v \in Valores
      BY <1>9, <2>3, <2>4, <2>9, <3>1
    <3>3. \A a \in 0..(Largo(m) - 1) : a \in dir..(dir + n - 1) <=> a \in dir..(dir + tam - 1)
      BY <2>3, <2>4, <3>1
    <3>4. Bytes(i) = [a \in 0..(Largo(m) - 1) |-> VistoEn(m, a)]
      BY <2>1, <2>2, <2>4 DEF Enlace, DeBytes
    <3>5. Bytes(i)' = [a \in 0..(Largo(m) - 1) |-> VistoEn(m, a)']
      <4>1. EnUso(p)' /\ Imagen(p)' = i /\ segmentos'[p].mapeo = m
        BY <1>1, <1>4, <1>9, <2>1, <2>2 DEF EnUso, EnUnmap
      <4> QED BY <2>4, <4>1 DEF Enlace, DeBytes
    <3>6. ASSUME NEW a \in 0..(Largo(m) - 1)
          PROVE  VistoEn(m, a)' = IF a \in dir..(dir + n - 1) THEN Dato(v, a - dir) ELSE VistoEn(m, a)
      <4>1. ByteEn(m, a)' = VistoEn(m, a)
        BY <1>1, <2>4, <2>5 DEF ByteIgual
      <4> QED BY <2>7, <3>3, <4>1
    <3>7. Bytes(i)' = [a \in DOMAIN Bytes(i) |->
                         IF a \in dir..(dir + n - 1) THEN Dato(v, a - dir) ELSE Bytes(i)[a]]
      <4>1. DOMAIN Bytes(i) = 0..(Largo(m) - 1)
            /\ \A a \in 0..(Largo(m) - 1) : Bytes(i)[a] = VistoEn(m, a)
        BY <3>4
      <4> QED BY <3>5, <3>6, <4>1
    <3>8. ASSUME NEW j \in Imagenes, j # i PROVE Bytes(j)' = Bytes(j)
      <4>1. j # Nada
        BY Constantes DEF Imagenes, NombresAparte
      <4>2. ASSUME NEW q \in Programas, Imagen(q) = j PROVE Bytes(j)' = Bytes(j)
        <5>1. PICK x : x = segmentos[q].mapeo
          OBVIOUS
        <5>2. EnUso(q)
          BY <4>1, <4>2 DEF Enlace, DeImagen
        <5>3. x \in Abiertos /\ x # m
          BY <2>1, <2>2, <3>8, <4>2, <5>1, <5>2, DeUso DEF Enlace, DeImagen
        <5>4. ASSUME NEW a \in 0..(Largo(x) - 1) PROVE VistoEn(x, a)' = VistoEn(x, a)
          BY <1>1, <2>5, <2>7, <5>3 DEF ByteIgual
        <5>5. Otro(p, q)
          BY <1>1, <2>1, <3>8, <4>2
        <5> QED BY <4>1, <4>2, <5>1, <5>4, <5>5, BytesDeOtro
      <4>3. CASE \A q \in Programas : Imagen(q) # j
        BY <1>6, <4>3, BytesDeNadie DEF MismaVista
      <4> QED BY <4>2, <4>3
    <3> QED BY <1>6, <2>1, <2>4, <3>2, <3>7, <3>8, VeEscribir
  <2> QED BY <2>8, <2>9
<1> QED BY <1>1, <1>8, <1>9

-------------------------------------------------------------------------------
(* The refinement *)

LEMMA VePaso ==
  ASSUME NombresAparte, InvarianteM, InvNombres, InvImagenes, InvarianteM', InvImagenes',
         Enlace, Enlace', [Next]_vars
  PROVE  UNCHANGED Mapas!visto \/ Mapas!Next
<1>1. CASE UNCHANGED vars
  <2> USE <1>1 DEF vars, tablas, frames
  <2>1. \A p \in Programas : Imagen(p)' = Imagen(p) /\ Devuelto(p)' = Devuelto(p)
    BY DEF Imagen, Devuelto, UltimaPagina
  <2>2. \A m, a : VistoEn(m, a)' = VistoEn(m, a)
    BY DEF VistoEn, ByteEn
  <2>3. \A p \in Programas : MismaVista(p)
    BY <2>1 DEF MismaVista
  <2>4. VistoIgual
    BY <2>2 DEF VistoIgual
  <2> QED BY <2>3, <2>4, NoSeVe
<1>2. ASSUME NEW p \in Programas, Servir(p) \/ Pedir(p) PROVE UNCHANGED Mapas!visto \/ Mapas!Next
  <2>1. CASE \/ procesarMap(p) \/ MapSumar(p) \/ UnmapRestar(p) \/ borrarMapeoAbierto(p)
             \/ destruirPagina(p) \/ Desconectar(p) \/ (\E n \in Descargas[p] : procesarSync(p, n))
    BY <2>1, VeCallado
  <2>2. CASE \/ UnmapGuardar(p) \/ destruirSegmentoMap(p) \/ enviarRespuestaMsync(p)
             \/ MirarPresencia(p) \/ TraerPaginaDeMap(p)
    BY <2>2, VeCerrar, VeMsync, VeMirar
  <2>3. CASE enviarRespuesta(p) \/ PaginaQueNoHay(p) \/ UsarPagina(p)
    BY <2>3, VeSoltar, VeUsar
  <2>4. CASE MapGuardar(p) \/ MapAgregar(p) \/ MapPrivado(p) \/ procesarUnMap(p)
    BY <2>4, VeMapGuardar, VeMapNuevo, VeDeUnMap
  <2>5. Accesos[p] \subseteq Nat \X (Nat \ {0})
    BY MapasAssumption
  <2>6. ASSUME NEW a \in Accesos[p],
               procesarGet(p, a[1], a[2]) \/ \E v \in Valores : procesarCopy(p, a[1], a[2], v)
        PROVE  UNCHANGED Mapas!visto \/ Mapas!Next
    <3>1. a[1] \in Nat /\ a[2] \in Nat \ {0}
      BY <2>5
    <3>2. PICK op \in {"get", "copy"}, v \in Valores \cup {Nada} :
            (op = "copy" => v \in Valores) /\ Acceder(p, op, a[1], a[2], v)
      BY <2>6 DEF procesarGet, procesarCopy
    <3> QED BY <3>1, <3>2, VeAcceder
  <2> QED BY <1>2, <2>1, <2>2, <2>3, <2>4, <2>6 DEF Servir, Pedir
<1> QED BY <1>1, <1>2 DEF Next

LEMMA VeInicio ==
  ASSUME NombresAparte
  PROVE  Init => Mapas!Init
<1> SUFFICES ASSUME Init PROVE Mapas!Init
  OBVIOUS
<1>1. InvarianteM /\ InvNombres
  BY InicioM
<1>2. \A p \in Programas : Imagen(p) = Nada /\ Devuelto(p) = Nada
  BY DEF Init, Imagen, Devuelto
<1>3. \A i \in Imagenes : i # Nada
  BY Constantes DEF Imagenes, NombresAparte
<1>4. \A i \in Imagenes : Bytes(i) = Nada
  BY <1>1, <1>2, <1>3, BytesDe DEF SinBytes
<1> QED BY <1>2, <1>4 DEF Mapas!Init

(* Programs that take turns, sync only pages that are in and map a file all  *)
(* in one way see common images: memory in zeros at first, whatever the file *)
(* has, in which each reads what any of them copied.                         *)
THEOREM ImplementaImagenesTheorem ==
  Coordinados /\ SyncSoloUsadas /\ SinMezcla /\ NombresAparte => (Spec => ImplementaImagenes)
<1> SUFFICES ASSUME Coordinados, SyncSoloUsadas, SinMezcla, NombresAparte PROVE Spec => ImplementaImagenes
  OBVIOUS
<1> DEFINE Inv == InvarianteM /\ InvNombres /\ InvImagenes
<1>1. Init => Inv /\ Mapas!Init
  BY InicioM, InicioImagenes, VeInicio
<1>2. Inv /\ [Next]_vars => Inv'
  BY PasoM, PasoImagenes
<1>3. Inv /\ Inv' /\ [Next]_vars => [Mapas!Next]_(Mapas!visto)
  <2> SUFFICES ASSUME Inv, Inv', [Next]_vars PROVE [Mapas!Next]_(Mapas!visto)
    OBVIOUS
  <2>1. Enlace /\ Enlace'
    BY EnlaceSi
  <2> QED BY <2>1, VePaso
<1> HIDE DEF Inv
<1> QED BY <1>1, <1>2, <1>3, PTL DEF Spec, ImplementaImagenes, Mapas!Spec
===============================================================================
