-------------------------------- MODULE MuseMapas -------------------------------
(***************************************************************************)
(* The mapped files of MUSE: muse_map, muse_sync and muse_unmap, and the    *)
(* muse_get and muse_cpy that reach them.  A program p stands for a client  *)
(* of libMUSE, its connection and the thread that attends it.  It maps one  *)
(* file, before anything else, so that its segment has base 0; it unmaps it *)
(* as its last request, because the code leaves the freed segment in the    *)
(* list of the program; and there are frames for every page, so that the    *)
(* clock never runs (Muse models it, for the pages of the heap).            *)
(*                                                                         *)
(* get and copy hold g_mutexPaginas; map, sync and unmap hold nothing, and  *)
(* they are split where they read or write what another thread may change.  *)
(* A call on a list, one load or store of the count, and the section under  *)
(* semaforoPaginas are one step each, and so is what destruirPagina does to *)
(* one page.  A mapping has the name of the program that created it; it is  *)
(* a record that stays, marked, after its free.                             *)
(***************************************************************************)
EXTENDS Integers, Sequences, FiniteSets, FiniteSetsExt, SequencesExt

CONSTANTS
  Programas,
  Nada,                \* no content, no segment, nobody
  Valores,             \* what a program may copy
  path, flags,         \* what p asks muse_map for: path[p], flags[p]
  paginasDe,           \* paginasDe[a]: the pages that its length takes
  Accesos,             \* Accesos[p]: the <<dir, n>> of its gets and copies
  Descargas,           \* Descargas[p]: the lengths it syncs, from the beginning
  Coordinados,         \* the programs take turns: see Turno and Quietos
  SyncSoloUsadas,      \* they sync only what they have used: see YaUsadas
  g_cantidadFrames,
  lengthPagina

ASSUME MapasAssumption ==
  /\ IsFiniteSet(Programas) /\ Nada \notin Programas
  /\ Coordinados \in BOOLEAN /\ SyncSoloUsadas \in BOOLEAN
  /\ flags \in [Programas -> {"MAP_SHARED", "MAP_PRIVATE"}]
  /\ lengthPagina \in Nat \ {0} /\ g_cantidadFrames \in Nat
  /\ \A p \in Programas : paginasDe[path[p]] \in Nat \ {0}
  /\ Accesos \in [Programas -> SUBSET (Nat \X (Nat \ {0}))]
  /\ \A p \in Programas : Descargas[p] \subseteq 1..(paginasDe[path[p]] * lengthPagina)

(* What keeps the clock out: a frame for each page that programs may map. *)
ASSUME FramesAlcanzan ==
  MapThenSumSet(LAMBDA p : paginasDe[path[p]], Programas) <= g_cantidadFrames

Frame == 0..(g_cantidadFrames - 1)
Dato(v, k) == <<v, k>>
Byte == (Valores \X Nat) \cup {Dato(Nada, 0)}
Contenido == [0..(lengthPagina - 1) -> Byte]
EnFrame == [nroFrame : Nat, flagPresencia : BOOLEAN]
t_mapAbierto(p) ==
  [tablaPaginas : [1..paginasDe[path[p]] -> EnFrame],
   contenido : [0..(paginasDe[path[p]] - 1) -> Contenido],
   cantProcesosUsando : Nat,
   liberado : BOOLEAN]
t_segmento == [mapeo : Programas, esCompartido : BOOLEAN, limiteLogico : Nat]

(* NULL is the address of no structure, and no file's content. *)
ASSUME NadaAssumption ==
  /\ Nada \notin t_segmento
  /\ \A p \in Programas : Nada \notin t_mapAbierto(p)
                          /\ Nada \notin [0..(paginasDe[path[p]] * lengthPagina - 1) -> Byte]

PaginaEnCero == [k \in 0..(lengthPagina - 1) |-> Dato(Nada, 0)]
Largo(p) == paginasDe[path[p]] * lengthPagina

VARIABLES
  mapeos,              \* mapeos[p]: the t_mapAbierto that p created, or Nada
  mapeosAbiertosCompartidos,  \* the shared ones that a map can find, in order
  segmentos,           \* segmentos[p]: the segment of p, or Nada
  marcos,              \* the bits at 1 of g_bitarray_marcos
  tablasDePaginas,     \* tablasDePaginas[f]: the entry of frame f, or Nada
  contenidoFrames,
  g_mutexPaginas,      \* the program whose thread holds it, or Nada
  pc,                  \* where the thread of p is
  local                \* its request and its locals

frames == <<marcos, tablasDePaginas, contenidoFrames>>
tablas == <<mapeos, mapeosAbiertosCompartidos, segmentos>>
vars == <<tablas, frames, g_mutexPaginas, pc, local>>

LocalInicial ==
  [dir |-> 0, tam |-> 0, dato |-> Nada, pagina |-> 0, fase |-> "mirar",
   leido |-> <<>>, mapeo |-> Nada, cant |-> 0]

Init ==
  /\ mapeos = [p \in Programas |-> Nada]
  /\ mapeosAbiertosCompartidos = <<>>
  /\ segmentos = [p \in Programas |-> Nada]
  /\ marcos = {}
  /\ tablasDePaginas = [f \in Frame |-> Nada]
  /\ contenidoFrames = [f \in Frame |-> PaginaEnCero]
  /\ g_mutexPaginas = Nada
  /\ pc = [p \in Programas |-> "nuevo"]
  /\ local = [p \in Programas |-> LocalInicial]

-------------------------------------------------------------------------------
(* Turns *)

EnMap == {"map_sumar", "map_guardar", "map_agregar", "map_privado"}
EnUnmap == {"unmap_restar", "unmap_guardar", "unmap_borrar", "unmap_pagina"}
EnReposo == {"nuevo", "libre", "fin"}

(* Programs that take turns start no map and no unmap while another one has  *)
(* one in progress.                                                          *)
Turno(p) == \A q \in Programas : pc[q] \notin EnMap \cup EnUnmap

(* And frames are not given back while a program of another file uses its    *)
(* own: destruirPagina and buscarFrameLibre share the bitmap and the table.  *)
Quietos(p) == \A q \in Programas : path[q] # path[p] => pc[q] \in EnReposo
NadieDevuelve(p) == \A q \in Programas : path[q] # path[p] => pc[q] \notin EnUnmap

(* The pages of a sync are in: some copy or get has used them.  A sync takes *)
(* no g_mutexPaginas, so that a page it brings in itself may be brought in   *)
(* by another program at the same time.                                      *)
YaUsadas(p, n) ==
  \A i \in 0..((n - 1) \div lengthPagina) :
    mapeos[segmentos[p].mapeo].tablaPaginas[i + 1].flagPresencia

Ir(p, donde) == pc' = [pc EXCEPT ![p] = donde]
Guardar(p, cambios) == local' = [local EXCEPT ![p] = cambios]

-------------------------------------------------------------------------------
(* muse_map *)

(* The first of that name in the list, or 0. *)
existePath(a) == SelectInSeq(mapeosAbiertosCompartidos, LAMBDA m : path[m] = a)

buscarMapeoAbierto(a) ==
  IF existePath(a) = 0 THEN Nada ELSE mapeosAbiertosCompartidos[existePath(a)]

(* mapearArchivoMUSE maps memory that is no file's (MAP_ANON): zeros. *)
procesarMap(p) ==
  LET m == buscarMapeoAbierto(path[p]) IN
  /\ pc[p] = "nuevo"
  /\ Coordinados => Turno(p)
  /\ Guardar(p, [LocalInicial EXCEPT !.mapeo = m])
  /\ Ir(p, IF flags[p] = "MAP_PRIVATE" THEN "map_privado"
           ELSE IF m = Nada THEN "map_agregar" ELSE "map_sumar")
  /\ UNCHANGED <<tablas, frames, g_mutexPaginas>>

(* The limit of a segment that gets its pages from paginasDeMapAPrincipal    *)
(* counts them twice: crearSegmentoMmap and allocarEnPaginasNuevasMap.       *)
Segmento(m, compartido, limite) ==
  [mapeo |-> m, esCompartido |-> compartido, limiteLogico |-> limite]

crearPaginaMap(n) == [nroFrame |-> n, flagPresencia |-> FALSE]

crearMapeo(p) ==
  [tablaPaginas |-> [i \in 1..paginasDe[path[p]] |-> crearPaginaMap(i - 1)],
   contenido |-> [n \in 0..(paginasDe[path[p]] - 1) |-> PaginaEnCero],
   cantProcesosUsando |-> 1,
   liberado |-> FALSE]

Mapeado(p, segmento) ==
  /\ segmentos' = [segmentos EXCEPT ![p] = segmento]
  /\ Guardar(p, LocalInicial)
  /\ Ir(p, "libre")
  /\ UNCHANGED <<frames, g_mutexPaginas>>

(* A mapping that others have: the count is loaded, and stored plus one. *)
MapSumar(p) ==
  /\ pc[p] = "map_sumar"
  /\ Guardar(p, [local[p] EXCEPT !.cant = mapeos[local[p].mapeo].cantProcesosUsando])
  /\ Ir(p, "map_guardar")
  /\ UNCHANGED <<tablas, frames, g_mutexPaginas>>

(* Mutant of MapGuardar: the new user is not counted. *)
MapSinContar(p) ==
  /\ pc[p] = "map_guardar"
  /\ Mapeado(p, Segmento(local[p].mapeo, TRUE, Largo(p)))
  /\ UNCHANGED <<mapeos, mapeosAbiertosCompartidos>>

MapGuardar(p) ==
  /\ pc[p] = "map_guardar"
  /\ mapeos' = [mapeos EXCEPT ![local[p].mapeo].cantProcesosUsando = local[p].cant + 1]
  /\ Mapeado(p, Segmento(local[p].mapeo, TRUE, Largo(p)))
  /\ UNCHANGED mapeosAbiertosCompartidos

(* A mapping that is new: only a shared one can be found by others. *)
MapAgregar(p) ==
  /\ pc[p] = "map_agregar"
  /\ mapeos' = [mapeos EXCEPT ![p] = crearMapeo(p)]
  /\ mapeosAbiertosCompartidos' = Append(mapeosAbiertosCompartidos, p)
  /\ Mapeado(p, Segmento(p, TRUE, 2 * Largo(p)))

MapPrivado(p) ==
  /\ pc[p] = "map_privado"
  /\ mapeos' = [mapeos EXCEPT ![p] = crearMapeo(p)]
  /\ Mapeado(p, Segmento(p, FALSE, 2 * Largo(p)))
  /\ UNCHANGED mapeosAbiertosCompartidos

-------------------------------------------------------------------------------
(* muse_get, muse_cpy and muse_sync: a fault at most for each of their pages *)

(* Mutant of LibreElMutex: the handlers do not wait for the semaphore. *)
SinEsperar == TRUE

LibreElMutex == g_mutexPaginas = Nada

(* A program that gets -1 raises SIGSEGV: VerificoOperacion. *)
Acceder(p, op, dir, tam, v) ==
  LET limite == segmentos[p].limiteLogico
      valida == dir < limite /\ dir + tam <= limite
  IN /\ pc[p] = "libre" /\ LibreElMutex
     /\ Coordinados => NadieDevuelve(p)
     /\ g_mutexPaginas' = IF valida THEN p ELSE Nada
     /\ Guardar(p, [LocalInicial EXCEPT !.dir = dir, !.tam = tam, !.dato = v,
                                        !.pagina = dir \div lengthPagina])
     /\ Ir(p, IF valida THEN op ELSE "fin")
     /\ UNCHANGED <<tablas, frames>>

procesarGet(p, dir, tam) == Acceder(p, "get", dir, tam, Nada)
procesarCopy(p, dir, tam, v) == Acceder(p, "copy", dir, tam, v)

procesarSync(p, tam) ==
  /\ pc[p] = "libre"
  /\ Coordinados => NadieDevuelve(p)
  /\ SyncSoloUsadas => YaUsadas(p, tam)
  /\ Guardar(p, [LocalInicial EXCEPT !.tam = tam])
  /\ Ir(p, "sync")
  /\ UNCHANGED <<tablas, frames, g_mutexPaginas>>

Accediendo(p, fase) == pc[p] \in {"get", "copy", "sync"} /\ local[p].fase = fase
UltimaPagina(p) == (local[p].dir + local[p].tam - 1) \div lengthPagina
Mapeo(p) == mapeos[segmentos[p].mapeo]
Pagina(p) == Mapeo(p).tablaPaginas[local[p].pagina + 1]
HayPagina(p) == local[p].pagina < Len(Mapeo(p).tablaPaginas)
Fase(p, fase) == Guardar(p, [local[p] EXCEPT !.fase = fase])

(* pageFault looks at flagPresencia before it takes semaforoPaginas. *)
MirarPresencia(p) ==
  /\ Accediendo(p, "mirar") /\ local[p].pagina <= UltimaPagina(p) /\ HayPagina(p)
  /\ Fase(p, IF Pagina(p).flagPresencia THEN "usar" ELSE "traer")
  /\ UNCHANGED <<tablas, frames, g_mutexPaginas, pc>>

(* Past the pages of the segment, which its limit counts twice. *)
PaginaQueNoHay(p) ==
  /\ Accediendo(p, "mirar") /\ local[p].pagina <= UltimaPagina(p) /\ ~ HayPagina(p)
  /\ g_mutexPaginas' = Nada
  /\ Guardar(p, LocalInicial)
  /\ Ir(p, "fin")
  /\ UNCHANGED <<tablas, frames>>

(* traerContenidoMap: past the mapping the kernel has zeros up to the end of *)
(* a page of its own.                                                        *)
traerContenidoMap(i, contenido) ==
  IF i \in DOMAIN contenido THEN contenido[i] ELSE PaginaEnCero

(* Mutant of TraerPaginaDeMap: the page is not marked as present. *)
TraerSinPresencia(p) ==
  LET f == Min(Frame \ marcos)
      m == segmentos[p].mapeo
      n == local[p].pagina
  IN /\ Accediendo(p, "traer") /\ Frame \ marcos # {}
     /\ contenidoFrames' = [contenidoFrames EXCEPT ![f] =
                              traerContenidoMap(Pagina(p).nroFrame, mapeos[m].contenido)]
     /\ mapeos' = [mapeos EXCEPT ![m].tablaPaginas[n + 1].nroFrame = f]
     /\ marcos' = marcos \cup {f}
     /\ tablasDePaginas' = [tablasDePaginas EXCEPT ![f] = <<p, n>>]
     /\ Fase(p, "usar")
     /\ UNCHANGED <<mapeosAbiertosCompartidos, segmentos, g_mutexPaginas, pc>>

(* The page is looked for in the content at the number of its last frame,    *)
(* which is its own number the first time.                                   *)
TraerPaginaDeMap(p) ==
  LET f == Min(Frame \ marcos)
      m == segmentos[p].mapeo
      n == local[p].pagina
  IN /\ Accediendo(p, "traer") /\ Frame \ marcos # {}
     /\ contenidoFrames' = [contenidoFrames EXCEPT ![f] =
                              traerContenidoMap(Pagina(p).nroFrame, mapeos[m].contenido)]
     /\ mapeos' = [mapeos EXCEPT ![m].tablaPaginas[n + 1] =
                     [nroFrame |-> f, flagPresencia |-> TRUE]]
     /\ marcos' = marcos \cup {f}
     /\ tablasDePaginas' = [tablasDePaginas EXCEPT ![f] = <<p, n>>]
     /\ Fase(p, "usar")
     /\ UNCHANGED <<mapeosAbiertosCompartidos, segmentos, g_mutexPaginas, pc>>

(* The bytes of the page that the request asks for, to or from its frame.    *)
UsarPagina(p) ==
  LET n == local[p].pagina
      dir == local[p].dir
      f == Pagina(p).nroFrame
      Pedida(k) == n * lengthPagina + k \in dir..(dir + local[p].tam - 1)
      escrito == [k \in 0..(lengthPagina - 1) |->
                    IF Pedida(k) THEN Dato(local[p].dato, n * lengthPagina + k - dir)
                    ELSE contenidoFrames[f][k]]
      leido == [i \in 1..Cardinality({k \in 0..(lengthPagina - 1) : Pedida(k)}) |->
                  contenidoFrames[f][(dir + Len(local[p].leido) + i - 1) % lengthPagina]]
  IN /\ Accediendo(p, "usar")
     /\ contenidoFrames' = IF pc[p] = "copy" THEN [contenidoFrames EXCEPT ![f] = escrito]
                           ELSE contenidoFrames
     /\ Guardar(p, [local[p] EXCEPT !.pagina = n + 1, !.fase = "mirar",
                                    !.leido = IF pc[p] = "copy" THEN @ ELSE @ \o leido])
     /\ UNCHANGED <<tablas, marcos, tablasDePaginas, g_mutexPaginas, pc>>

enviarRespuesta(p) ==
  /\ pc[p] \in {"get", "copy"} /\ local[p].pagina > UltimaPagina(p)
  /\ g_mutexPaginas' = Nada
  /\ Guardar(p, LocalInicial)
  /\ Ir(p, "libre")
  /\ UNCHANGED <<tablas, frames>>

(* What a sync read goes to the beginning of the content, wherever it was    *)
(* read; nothing goes to the file, which the content is no mapping of.       *)
enviarRespuestaMsync(p) ==
  /\ pc[p] = "sync" /\ local[p].pagina > UltimaPagina(p)
  /\ mapeos' = [mapeos EXCEPT ![segmentos[p].mapeo].contenido =
                  [n \in DOMAIN @ |-> [k \in 0..(lengthPagina - 1) |->
                     LET a == n * lengthPagina + k IN
                     IF a < local[p].tam THEN local[p].leido[a + 1] ELSE @[n][k]]]]
  /\ Guardar(p, LocalInicial)
  /\ Ir(p, "libre")
  /\ UNCHANGED <<mapeosAbiertosCompartidos, segmentos, frames, g_mutexPaginas>>

-------------------------------------------------------------------------------
(* muse_unmap *)

(* Mutant of EsElUltimo: the mapping ends with two users. *)
EsElUltimoODos(m) == mapeos[m].cantProcesosUsando <= 2

EsElUltimo(m) == mapeos[m].cantProcesosUsando = 1

procesarUnMap(p) ==
  /\ pc[p] = "libre"
  /\ Coordinados => Turno(p) /\ Quietos(p)
  /\ Ir(p, IF EsElUltimo(segmentos[p].mapeo) THEN "unmap_borrar" ELSE "unmap_restar")
  /\ UNCHANGED <<tablas, frames, g_mutexPaginas, local>>

(* The segment is freed, and its program asks for nothing more. *)
SinSegmento(p) ==
  /\ segmentos' = [segmentos EXCEPT ![p] = Nada]
  /\ Guardar(p, LocalInicial)
  /\ Ir(p, "fin")

UnmapRestar(p) ==
  /\ pc[p] = "unmap_restar"
  /\ Guardar(p, [local[p] EXCEPT !.cant = Mapeo(p).cantProcesosUsando])
  /\ Ir(p, "unmap_guardar")
  /\ UNCHANGED <<tablas, frames, g_mutexPaginas>>

UnmapGuardar(p) ==
  /\ pc[p] = "unmap_guardar"
  /\ mapeos' = [mapeos EXCEPT ![segmentos[p].mapeo].cantProcesosUsando = local[p].cant - 1]
  /\ SinSegmento(p)
  /\ UNCHANGED <<mapeosAbiertosCompartidos, frames, g_mutexPaginas>>

(* The first of that name goes, be it this mapping or not. *)
borrarMapeoAbierto(p) ==
  /\ pc[p] = "unmap_borrar"
  /\ mapeosAbiertosCompartidos' =
       IF existePath(path[p]) = 0 THEN mapeosAbiertosCompartidos
       ELSE RemoveAt(mapeosAbiertosCompartidos, existePath(path[p]))
  /\ Ir(p, "unmap_pagina")
  /\ UNCHANGED <<mapeos, segmentos, frames, g_mutexPaginas, local>>

(* Mutant of destruirPagina: it does not look at flagPresencia. *)
destruirPaginaAusente(p) ==
  /\ pc[p] = "unmap_pagina" /\ HayPagina(p)
  /\ marcos' = marcos \ {Pagina(p).nroFrame}
  /\ tablasDePaginas' = [tablasDePaginas EXCEPT ![Pagina(p).nroFrame] = Nada]
  /\ Guardar(p, [local[p] EXCEPT !.pagina = @ + 1])
  /\ UNCHANGED <<tablas, contenidoFrames, g_mutexPaginas, pc>>

(* A page that never came in erases from the lists of the swap, which are    *)
(* empty here.                                                               *)
destruirPagina(p) ==
  /\ pc[p] = "unmap_pagina" /\ HayPagina(p)
  /\ IF Pagina(p).flagPresencia
     THEN /\ marcos' = marcos \ {Pagina(p).nroFrame}
          /\ tablasDePaginas' = [tablasDePaginas EXCEPT ![Pagina(p).nroFrame] = Nada]
     ELSE UNCHANGED <<marcos, tablasDePaginas>>
  /\ Guardar(p, [local[p] EXCEPT !.pagina = @ + 1])
  /\ UNCHANGED <<tablas, contenidoFrames, g_mutexPaginas, pc>>

(* munmap reads the address through the two records freed just before. *)
destruirSegmentoMap(p) ==
  /\ pc[p] = "unmap_pagina" /\ ~ HayPagina(p)
  /\ mapeos' = [mapeos EXCEPT ![segmentos[p].mapeo].liberado = TRUE]
  /\ SinSegmento(p)
  /\ UNCHANGED <<mapeosAbiertosCompartidos, frames, g_mutexPaginas>>

(* A client that goes without muse_unmap: nothing notices. *)
Desconectar(p) ==
  /\ pc[p] = "libre"
  /\ Ir(p, "fin")
  /\ UNCHANGED <<tablas, frames, g_mutexPaginas, local>>

-------------------------------------------------------------------------------

Servir(p) ==
  \/ MapSumar(p) \/ MapGuardar(p) \/ MapAgregar(p) \/ MapPrivado(p)
  \/ MirarPresencia(p) \/ PaginaQueNoHay(p) \/ TraerPaginaDeMap(p) \/ UsarPagina(p)
  \/ enviarRespuesta(p) \/ enviarRespuestaMsync(p)
  \/ UnmapRestar(p) \/ UnmapGuardar(p) \/ borrarMapeoAbierto(p) \/ destruirPagina(p)
  \/ destruirSegmentoMap(p)

Pedir(p) ==
  \/ procesarMap(p) \/ procesarUnMap(p) \/ Desconectar(p)
  \/ \E a \in Accesos[p] :
       \/ procesarGet(p, a[1], a[2])
       \/ \E v \in Valores : procesarCopy(p, a[1], a[2], v)
  \/ \E n \in Descargas[p] : procesarSync(p, n)

Next == \E p \in Programas : Servir(p) \/ Pedir(p)

Spec == Init /\ [][Next]_vars
===============================================================================
