--------------------------------- MODULE Muse ----------------------------------
(***************************************************************************)
(* The MUSE server, without the mapped files: a segment of chunks and pages *)
(* per program, frames of main memory, a swap file and the modified clock.  *)
(* A program p of Programas stands for a client of libMUSE, its connection  *)
(* and the thread that attends it; without mapped files it has at most one  *)
(* segment, of base 0.                                                      *)
(*                                                                         *)
(* alloc, free, get and copy hold g_mutexPaginas from their first access to *)
(* the last.  A loop over pages takes one step per page, and a request that *)
(* waits for the semaphore has done nothing yet, so it is not a state.      *)
(* init and close take no semaphore.                                        *)
(*                                                                         *)
(* A list that the code searches by frame or by slot is a function from     *)
(* frames or slots, a bitmap is the set of its bits at 1, and a byte is the *)
(* value of a buffer with the position it had there.                        *)
(***************************************************************************)
EXTENDS Integers, Sequences, FiniteSets, FiniteSetsExt, SequencesExt

CONSTANTS
  Programas,
  Nada,                \* no page, no content, nobody
  Valores,             \* what a program may copy into a portion
  Tamanios,            \* Tamanios[p]: the sizes p asks for
  MaxPorciones,        \* bound of the portions of a program
  Prudentes,           \* the programs keep the order that pruebaMuse keeps
  g_cantidadFrames,
  maxPaginasEnSwap,
  lengthPagina,
  tamanio_heap         \* bytes of a chunk's header

ASSUME MuseAssumption ==
  /\ MaxPorciones \in Nat /\ Prudentes \in BOOLEAN
  /\ g_cantidadFrames \in Nat \ {0} /\ maxPaginasEnSwap \in Nat
  /\ lengthPagina \in Nat \ {0} /\ tamanio_heap \in Nat \ {0}
  /\ Tamanios \in [Programas -> SUBSET (Nat \ {0})]
  /\ Nada \notin Programas

Frame == 0..(g_cantidadFrames - 1)
Slot == 0..(maxPaginasEnSwap - 1)
Dato(v, k) == <<v, k>>
PaginaEnCero == [k \in 0..(lengthPagina - 1) |-> Dato(Nada, 0)]

VARIABLES
  heaps,               \* heaps[p]: chunks [t_size, isFree] of the segment of p
  limiteLogico,        \* limiteLogico[p]: of the segment of p
  mem,                 \* frames, swap and tables of pages
  g_mutexPaginas,      \* the program whose thread holds it, or Nada
  pc,                  \* where the thread of p is
  local,               \* its request and its locals
  vivas                \* vivas[p]: the portions p has, the newest last

vars == <<heaps, limiteLogico, mem, g_mutexPaginas, pc, local, vivas>>

LocalInicial ==
  [dir |-> 0, tam |-> 0, dato |-> Nada, pagina |-> 0, faltan |-> 0, leido |-> <<>>]

(* caida tells whether MUSE has met its first undefined access, and which:   *)
(* "swap" for slot -1, "nulo" for a pointer that is NULL or no pointer.      *)
Init ==
  /\ heaps = [p \in Programas |-> <<>>]
  /\ limiteLogico = [p \in Programas |-> 0]
  /\ mem = [programas |-> {},
            tablaPaginas |-> [p \in Programas |-> <<>>],
            marcos |-> {},
            tablasDePaginas |-> [f \in Frame |-> Nada],
            contenidoFrames |-> [f \in Frame |-> Nada],
            swap |-> {},
            paginasEnSwap |-> [s \in Slot |-> Nada],
            archivoSwap |-> [s \in Slot |-> PaginaEnCero],
            punteroClock |-> 0,
            caida |-> "no"]
  /\ g_mutexPaginas = Nada
  /\ pc = [p \in Programas |-> "fuera"]
  /\ local = [p \in Programas |-> LocalInicial]
  /\ vivas = [p \in Programas |-> <<>>]

-------------------------------------------------------------------------------
(* Frames and swap *)

Caer(m, que) == [m EXCEPT !.caida = que]

(* buscarFrameLibre and buscarFrameLibreSwap: the first bit at 0. *)
Libre(todos, ocupados) == Min(todos \ ocupados)
HayLibre(todos, ocupados) == todos \ ocupados # {}

(* Mutant of cargarFrameASwap: the slot keeps its bit at 0. *)
cargarFrameSinMarcarSlot(m, f, e) ==
  LET s == Libre(Slot, m.swap) IN
  [m EXCEPT !.marcos = @ \ {f},
            !.archivoSwap[s] = m.contenidoFrames[f],
            !.tablasDePaginas[f] = Nada,
            !.paginasEnSwap[s] = e]

(* e is the page <<program, nroPagina>> that frame f holds. *)
cargarFrameASwap(m, f, e) ==
  LET s == Libre(Slot, m.swap) IN
  IF ~ HayLibre(Slot, m.swap) THEN Caer(m, "swap")
  ELSE [m EXCEPT !.swap = @ \cup {s},
                 !.marcos = @ \ {f},
                 !.archivoSwap[s] = m.contenidoFrames[f],
                 !.tablasDePaginas[f] = Nada,
                 !.paginasEnSwap[s] = e]

buscarFrameEnTablasDePaginas(m, e) == m.tablaPaginas[e[1]][e[2] + 1]

(* The frame whose page goes out.  The hand clears flagUso up to the first  *)
(* page that has it at 0; if it reaches the last frame it starts again from *)
(* the first, and then it stops at the latest where it began.  An entry that *)
(* is not there, or whose program is no longer listed, is dereferenced.     *)
ClockModificado(m) ==
  LET inicio == IF m.punteroClock = g_cantidadFrames - 1 THEN 0 ELSE m.punteroClock
      e(j) == m.tablasDePaginas[j]
      Conocida(j) == e(j) # Nada /\ e(j)[1] \in m.programas
      Para(j) == ~ Conocida(j) \/ ~ buscarFrameEnTablasDePaginas(m, e(j)).flagUso
      vuelta1 == {j \in inicio..(g_cantidadFrames - 1) : Para(j)}
      vuelta2 == {j \in Frame : j >= inicio \/ Para(j)}
      j == IF vuelta1 # {} THEN Min(vuelta1) ELSE Min(vuelta2)
      vistos == IF vuelta1 # {} THEN inicio..(j - 1)
                ELSE inicio..(g_cantidadFrames - 1) \cup 0..(j - 1)
      usadas == {e(k) : k \in vistos}
      tablas == [p \in Programas |-> [i \in 1..Len(m.tablaPaginas[p]) |->
                   [m.tablaPaginas[p][i] EXCEPT
                      !.flagUso = @ /\ <<p, i - 1>> \notin usadas,
                      !.flagPresencia = @ /\ <<p, i - 1>> # e(j)]]]
  IN IF ~ Conocida(j) THEN [mem |-> Caer(m, "nulo"), frame |-> j]
     ELSE [mem |-> cargarFrameASwap([m EXCEPT !.tablaPaginas = tablas, !.punteroClock = j],
                                    j, e(j)),
           frame |-> j]

TomarFrame(m) ==
  LET f == Libre(Frame, m.marcos) IN
  IF HayLibre(Frame, m.marcos)
  THEN [mem |-> [m EXCEPT !.marcos = @ \cup {f}], frame |-> f]
  ELSE ClockModificado(m)

(* The page that is new in its frame: the first content that a frame got    *)
(* stays, because buscarContenidoFrameMemoria finds it first.               *)
agregarPaginaEnSegmento(m, p) ==
  LET o == TomarFrame(m)
      f == o.frame
  IN [o.mem EXCEPT
        !.marcos = @ \cup {f},
        !.tablaPaginas[p] =
           Append(@, [nroFrame |-> f, flagPresencia |-> TRUE, flagUso |-> TRUE]),
        !.contenidoFrames[f] = IF @ = Nada THEN PaginaEnCero ELSE @,
        !.tablasDePaginas[f] = <<p, Len(m.tablaPaginas[p])>>]

(* Mutant of TraerPaginaDeSwap: the page stays in paginasEnSwap. *)
TraerPaginaSinBorrar(m, p, n) ==
  LET slots == {s \in Slot : m.paginasEnSwap[s] = <<p, n>>}
      o == TomarFrame([m EXCEPT !.tablaPaginas[p][n + 1].flagUso = TRUE,
                                      !.tablaPaginas[p][n + 1].flagPresencia = TRUE])
      f == o.frame
  IN IF n = 0 \/ slots = {} THEN Caer(m, "nulo")
     ELSE [o.mem EXCEPT !.contenidoFrames[f] = m.archivoSwap[Min(slots)],
                        !.tablaPaginas[p][n + 1].nroFrame = f,
                        !.marcos = @ \cup {f},
                        !.tablasDePaginas[f] = <<p, n>>]

(* Mutant of TraerPaginaDeSwap: the page does not enter tablasDePaginas. *)
TraerPaginaSinAgregar(m, p, n) ==
  LET slots == {s \in Slot : m.paginasEnSwap[s] = <<p, n>>}
      o == TomarFrame([m EXCEPT !.tablaPaginas[p][n + 1].flagUso = TRUE,
                                      !.tablaPaginas[p][n + 1].flagPresencia = TRUE])
      f == o.frame
  IN IF n = 0 \/ slots = {} THEN Caer(m, "nulo")
     ELSE [o.mem EXCEPT !.contenidoFrames[f] = m.archivoSwap[Min(slots)],
                        !.tablaPaginas[p][n + 1].nroFrame = f,
                        !.marcos = @ \cup {f},
                        !.paginasEnSwap[Min(slots)] = Nada]

(* For page 0 the closure of buscarPaginaAdministrativaPorPagina ends       *)
(* without a value.  The bit of the slot is not cleared.                    *)
TraerPaginaDeSwap(m, p, n) ==
  LET slots == {s \in Slot : m.paginasEnSwap[s] = <<p, n>>}
      s == Min(slots)
      o == TomarFrame([m EXCEPT !.tablaPaginas[p][n + 1].flagUso = TRUE,
                                      !.tablaPaginas[p][n + 1].flagPresencia = TRUE])
      f == o.frame
  IN IF n = 0 \/ slots = {} THEN Caer(m, "nulo")
     ELSE [o.mem EXCEPT
             !.contenidoFrames[f] = m.archivoSwap[s],
             !.tablaPaginas[p][n + 1].nroFrame = f,
             !.marcos = @ \cup {f},
             !.paginasEnSwap[s] = Nada,
             !.tablasDePaginas[f] = <<p, n>>]

(* Nothing that follows an undefined access counts. *)
Efecto(m) == mem' = IF m.caida = "no" THEN m ELSE Caer(mem, m.caida)

-------------------------------------------------------------------------------
(* Chunks *)

Chunk(tam, libre) == [t_size |-> tam, isFree |-> libre]
Ocupa(c) == c.t_size + tamanio_heap
(* What the chunks of h with their index in S occupy. *)
Suma(h, S) ==
  LET hasta[i \in 0..Len(h)] ==
        IF i = 0 THEN 0 ELSE hasta[i - 1] + (IF i \in S THEN Ocupa(h[i]) ELSE 0)
  IN hasta[Len(h)]
Direccion(h, i) == tamanio_heap + Suma(h, 1..(i - 1))

(* Mutant of framesNecesariosPorCantidadMemoria: it drops the rest. *)
framesSinResto(n) == n \div lengthPagina

(* Division of C, which truncates, and a page more if there is a rest. *)
framesNecesariosPorCantidadMemoria(n) ==
  (n \div lengthPagina)
    + (IF n % lengthPagina = 0 THEN 0 ELSE IF n > 0 THEN 1 ELSE 2)

huecoUltimaPagina(h, paginas) ==
  paginas * lengthPagina - Suma(h, {i \in 1..Len(h) : ~ h[i].isFree})

(* The first chunk that is free and large enough, cut; what is left of it    *)
(* becomes a chunk at the end of the list.                                   *)
Elegibles(h, tam) == {i \in 1..Len(h) : h[i].isFree /\ h[i].t_size >= tam}
allocarEnHeapLibre(h, tam) ==
  LET i == Min(Elegibles(h, tam))
      hueco == h[i].t_size - tam
      cortado == [h EXCEPT ![i] = Chunk(tam, FALSE)]
  IN [heaps |-> IF hueco > 5 THEN Append(cortado, Chunk(hueco - tamanio_heap, TRUE))
                ELSE cortado,
      dir |-> Direccion(h, i),
      paginas |-> 0]

(* New pages: a last chunk that is free is taken too, and cut to the part    *)
(* that did not fit in it.                                                   *)
allocarHeapNuevo(h, cantPaginas, tam) ==
  LET hueco == huecoUltimaPagina(h, cantPaginas)
      crece == h # <<>> /\ h[Len(h)].isFree
      cant == IF crece THEN tam - h[Len(h)].t_size ELSE tam
      nuevo == Append(IF crece THEN Front(h) ELSE h, Chunk(cant, FALSE))
      bytesNecesarios == cant + tamanio_heap - hueco
      paginas == framesNecesariosPorCantidadMemoria(bytesNecesarios)
      huecoLibre == paginas * lengthPagina - bytesNecesarios
  IN [heaps |-> IF huecoLibre > 5 THEN Append(nuevo, Chunk(huecoLibre - tamanio_heap, TRUE))
                ELSE nuevo,
      dir |-> cantPaginas * lengthPagina + tamanio_heap - hueco,
      paginas |-> paginas]

(* modificarPresencia on the whole pages inside a chunk that is taken again: *)
(* they count as present, and their frames lose their entry.                 *)
cambiarFramesPorHeap(m, p, dir, tam) ==
  LET offset == dir % lengthPagina
      resto == IF offset = 0 THEN tam ELSE tam - (lengthPagina - offset)
      primera == (dir \div lengthPagina) + (IF offset = 0 THEN 0 ELSE 1)
      hasta == framesNecesariosPorCantidadMemoria(resto)
                 - (IF offset # 0 /\ resto % lengthPagina # 0 THEN 1 ELSE 0)
      tabla == m.tablaPaginas[p]
      frames == {tabla[n + 1].nroFrame : n \in primera..(hasta - 1)}
  IN [m EXCEPT
        !.tablaPaginas[p] = [i \in 1..Len(tabla) |->
           [tabla[i] EXCEPT !.flagPresencia = @ \/ i - 1 \in primera..(hasta - 1)]],
        !.marcos = @ \cup frames,
        !.tablasDePaginas = [f \in Frame |-> IF f \in frames THEN Nada ELSE @[f]]]

(* A free chunk next to the one that is freed is merged with it.  The one    *)
(* after is removed at its index of before the removal of the one before: if *)
(* it was the last the list is left by its end.                              *)
verificarCompactacionFree(h, i) ==
  LET anterior == i > 1 /\ h[i - 1].isFree
      posterior == i < Len(h) /\ h[i + 1].isFree
      tam == h[i].t_size + (IF anterior THEN Ocupa(h[i - 1]) ELSE 0)
                         + (IF posterior THEN Ocupa(h[i + 1]) ELSE 0)
      unido == [h EXCEPT ![i] = Chunk(tam, TRUE)]
      sinAnterior == IF anterior THEN RemoveAt(unido, i - 1) ELSE unido
  IN [fuera |-> posterior /\ i + 1 > Len(sinAnterior),
      heaps |-> IF posterior /\ i + 1 <= Len(sinAnterior) THEN RemoveAt(sinAnterior, i + 1)
                ELSE sinAnterior]

-------------------------------------------------------------------------------
(* Requests *)

(* Prudent programs do as pruebaMuse does: each asks always for one size     *)
(* (see Tamanios), frees the newest portion first and closes with nothing    *)
(* reserved.  Moreover they close when nobody has anything reserved, and     *)
(* none asks for anything once one has closed: see destruirPagina.           *)
Terminando == \E q \in Programas : pc[q] \in {"cerrando", "cerrado"}
SinPorciones == \A q \in Programas : vivas[q] = <<>> \/ pc[q] = "muerto"

(* Mutant of Pide: the handlers do not wait for the semaphore. *)
PideSinSemaforo(p) ==
  /\ mem.caida = "no" /\ pc[p] = "libre"
  /\ Prudentes => ~ Terminando

Pide(p) ==
  /\ mem.caida = "no" /\ pc[p] = "libre"
  /\ g_mutexPaginas = Nada
  /\ Prudentes => ~ Terminando

Sigue(p, donde) == mem.caida = "no" /\ pc[p] = donde
Ir(p, donde) == pc' = [pc EXCEPT ![p] = donde]

InicializarNuevoPrograma(p) ==
  /\ mem.caida = "no" /\ pc[p] = "fuera"
  /\ Prudentes => ~ Terminando
  /\ mem' = [mem EXCEPT !.programas = @ \cup {p}]
  /\ Ir(p, "libre")
  /\ UNCHANGED <<heaps, limiteLogico, g_mutexPaginas, local, vivas>>

(* The answer and the pages to add, which come first. *)
procesarAlloc(p, tam) ==
  LET reusa == Elegibles(heaps[p], tam) # {}
      r == IF reusa THEN allocarEnHeapLibre(heaps[p], tam)
           ELSE allocarHeapNuevo(heaps[p], Len(mem.tablaPaginas[p]), tam)
  IN /\ Pide(p) /\ Len(vivas[p]) < MaxPorciones
     /\ heaps' = [heaps EXCEPT ![p] = r.heaps]
     /\ Efecto(IF ~ reusa THEN mem
               ELSE IF r.dir >= limiteLogico[p] THEN Caer(mem, "nulo")
               ELSE cambiarFramesPorHeap(mem, p, r.dir, tam))
     /\ g_mutexPaginas' = p
     /\ local' = [local EXCEPT ![p] = [LocalInicial EXCEPT
                    !.dir = r.dir, !.tam = tam, !.pagina = r.paginas, !.faltan = r.paginas]]
     /\ Ir(p, "alloc")
     /\ UNCHANGED <<limiteLogico, vivas>>

allocarEnPaginasNuevas(p) ==
  /\ Sigue(p, "alloc") /\ local[p].faltan > 0
  /\ Efecto(agregarPaginaEnSegmento(mem, p))
  /\ local' = [local EXCEPT ![p].faltan = @ - 1]
  /\ UNCHANGED <<heaps, limiteLogico, g_mutexPaginas, pc, vivas>>

enviarRespuestaAlloc(p) ==
  /\ Sigue(p, "alloc") /\ local[p].faltan <= 0
  /\ limiteLogico' = [limiteLogico EXCEPT ![p] = @ + local[p].pagina * lengthPagina]
  /\ vivas' = [vivas EXCEPT ![p] = Append(@, [dir |-> local[p].dir, tam |-> local[p].tam])]
  /\ g_mutexPaginas' = Nada
  /\ local' = [local EXCEPT ![p] = LocalInicial]
  /\ Ir(p, "libre")
  /\ UNCHANGED <<heaps, mem>>

(* The call of cambiarFramesPorHeap of a free covers no page. *)
procesarFree(p, k) ==
  LET dir == vivas[p][k].dir
      h == heaps[p]
      indices == {i \in 1..Len(h) : Direccion(h, i) = dir}
      i == Min(indices)
      r == verificarCompactacionFree(h, i)
      invalida == dir >= limiteLogico[p] \/ indices = {}
      ocupado == ~ invalida /\ ~ h[i].isFree
  IN /\ Pide(p)
     /\ Prudentes => k = Len(vivas[p])
     /\ Efecto(IF invalida \/ (ocupado /\ r.fuera) THEN Caer(mem, "nulo") ELSE mem)
     /\ heaps' = IF ocupado THEN [heaps EXCEPT ![p] = r.heaps] ELSE heaps
     /\ vivas' = [vivas EXCEPT ![p] = RemoveAt(@, k)]
     /\ UNCHANGED <<limiteLogico, g_mutexPaginas, pc, local>>

(* A program that gets -1 raises SIGSEGV: VerificoOperacion. *)
Acceder(p, k, op, v) ==
  LET q == vivas[p][k]
      valida == q.dir + q.tam <= limiteLogico[p]
  IN /\ Pide(p)
     /\ g_mutexPaginas' = IF valida THEN p ELSE Nada
     /\ local' = [local EXCEPT ![p] = [LocalInicial EXCEPT
                    !.dir = q.dir, !.tam = q.tam, !.dato = v,
                    !.pagina = q.dir \div lengthPagina]]
     /\ Ir(p, IF valida THEN op ELSE "muerto")
     /\ UNCHANGED <<heaps, limiteLogico, mem, vivas>>

procesarGet(p, k) == Acceder(p, k, "get", Nada)
procesarCopy(p, k, v) == Acceder(p, k, "copy", v)

UltimaPagina(p) == (local[p].dir + local[p].tam - 1) \div lengthPagina

(* Page n of the loops of copiarContenidoAFrames and copiarContenidoDeFrames. *)
pageFault(p) ==
  LET n == local[p].pagina
      dir == local[p].dir
      m == IF mem.tablaPaginas[p][n + 1].flagPresencia THEN mem
           ELSE TraerPaginaDeSwap(mem, p, n)
      f == m.tablaPaginas[p][n + 1].nroFrame
      Pedida(a) == a \in dir..(dir + local[p].tam - 1)
      escrito == [k \in 0..(lengthPagina - 1) |->
                    LET a == n * lengthPagina + k IN
                    IF Pedida(a) THEN Dato(local[p].dato, a - dir)
                    ELSE m.contenidoFrames[f][k]]
      leido == [k \in 1..Cardinality({a \in n * lengthPagina..((n + 1) * lengthPagina - 1)
                                        : Pedida(a)}) |->
                  m.contenidoFrames[f][(dir + Len(local[p].leido) + k - 1) % lengthPagina]]
  IN /\ mem.caida = "no" /\ pc[p] \in {"get", "copy"}
     /\ n <= UltimaPagina(p)
     /\ Efecto(IF pc[p] = "copy" THEN [m EXCEPT !.contenidoFrames[f] = escrito] ELSE m)
     /\ local' = [local EXCEPT ![p].pagina = n + 1,
                               ![p].leido = IF pc[p] = "get" THEN @ \o leido ELSE @]
     /\ UNCHANGED <<heaps, limiteLogico, g_mutexPaginas, pc, vivas>>

enviarRespuesta(p) ==
  /\ mem.caida = "no" /\ pc[p] \in {"get", "copy"}
  /\ local[p].pagina > UltimaPagina(p)
  /\ g_mutexPaginas' = Nada
  /\ local' = [local EXCEPT ![p] = LocalInicial]
  /\ Ir(p, "libre")
  /\ UNCHANGED <<heaps, limiteLogico, mem, vivas>>

FinalizarPrograma(p) ==
  /\ Sigue(p, "libre")
  /\ Prudentes => SinPorciones /\ g_mutexPaginas = Nada
  /\ mem' = [mem EXCEPT !.programas = @ \ {p}]
  /\ vivas' = [vivas EXCEPT ![p] = <<>>]
  /\ Ir(p, "cerrando")
  /\ UNCHANGED <<heaps, limiteLogico, g_mutexPaginas, local>>

(* Mutant of destruirPagina: the entry of the frame stays. *)
destruirPaginaSinEntrada(p) ==
  LET t == mem.tablaPaginas[p]
      n == local[p].pagina
  IN /\ Sigue(p, "cerrando") /\ n < Len(t)
     /\ mem' = [mem EXCEPT !.marcos = @ \ {t[n + 1].nroFrame}]
     /\ local' = [local EXCEPT ![p].pagina = n + 1]
     /\ UNCHANGED <<heaps, limiteLogico, g_mutexPaginas, pc, vivas>>

(* A page that is out gives back the slot that has the number of the frame   *)
(* it once had.                                                              *)
destruirPagina(p) ==
  LET t == mem.tablaPaginas[p]
      n == local[p].pagina
      f == t[n + 1].nroFrame
  IN /\ Sigue(p, "cerrando") /\ n < Len(t)
     /\ mem' = IF t[n + 1].flagPresencia
               THEN [mem EXCEPT !.marcos = @ \ {f}, !.tablasDePaginas[f] = Nada]
               ELSE [mem EXCEPT !.swap = @ \ {f},
                                !.paginasEnSwap = [s \in Slot |-> IF s = f THEN Nada ELSE @[s]]]
     /\ local' = [local EXCEPT ![p].pagina = n + 1]
     /\ UNCHANGED <<heaps, limiteLogico, g_mutexPaginas, pc, vivas>>

destruirSegmento(p) ==
  /\ Sigue(p, "cerrando") /\ local[p].pagina = Len(mem.tablaPaginas[p])
  /\ mem' = [mem EXCEPT !.tablaPaginas[p] = <<>>]
  /\ heaps' = [heaps EXCEPT ![p] = <<>>]
  /\ limiteLogico' = [limiteLogico EXCEPT ![p] = 0]
  /\ local' = [local EXCEPT ![p] = LocalInicial]
  /\ Ir(p, "cerrado")
  /\ UNCHANGED <<g_mutexPaginas, vivas>>

(* The connection of a client that goes without muse_close: its thread ends  *)
(* and its memory stays as it is.                                            *)
Desconectar(p) ==
  /\ Sigue(p, "libre")
  /\ Prudentes => ~ Terminando
  /\ Ir(p, "muerto")
  /\ UNCHANGED <<heaps, limiteLogico, mem, g_mutexPaginas, local, vivas>>

(* attendConnection and procesarPaqueteLibMuse, of one connection. *)
Servir(p) ==
  \/ allocarEnPaginasNuevas(p) \/ enviarRespuestaAlloc(p)
  \/ pageFault(p) \/ enviarRespuesta(p)
  \/ destruirPagina(p) \/ destruirSegmento(p)

Pedir(p) ==
  \/ InicializarNuevoPrograma(p) \/ FinalizarPrograma(p) \/ Desconectar(p)
  \/ \E tam \in Tamanios[p] : procesarAlloc(p, tam)
  \/ \E k \in DOMAIN vivas[p] :
       \/ procesarFree(p, k) \/ procesarGet(p, k)
       \/ \E v \in Valores : procesarCopy(p, k, v)

Next == \E p \in Programas : Servir(p) \/ Pedir(p)

Spec == Init /\ [][Next]_vars
===============================================================================
