------------------------------- MODULE MuseVista -------------------------------
(***************************************************************************)
(* What MUSE must guarantee: its tables agree, and its programs see the     *)
(* memory that MemoriaMuse describes.                                       *)
(***************************************************************************)
EXTENDS Muse, Functions

Direcciones(q) == q.dir..(q.dir + q.tam - 1)
Byte == (Valores \X Nat) \cup {Dato(Nada, 0)}
Contenido == [0..(lengthPagina - 1) -> Byte]
Entrada == Programas \X Nat

(* A slot of a table that holds nothing holds no page and no content, and    *)
(* what a muse_get hands over is not nothing.                                *)
ASSUME NadaAssumption ==
  /\ Nada \notin Entrada /\ Nada \notin Contenido
  /\ \A n \in 1..lengthPagina : Nada \notin [0..(n - 1) -> Byte]

(* Every variable keeps its type, and the semaphore is held exactly while a  *)
(* handler that takes it is at work.                                         *)
TypeOKMuse ==
  /\ \A p \in Programas :
       /\ \A i \in DOMAIN heaps[p] : heaps[p][i] \in [t_size : Nat, isFree : BOOLEAN]
       /\ \A i \in DOMAIN mem.tablaPaginas[p] :
            mem.tablaPaginas[p][i]
              \in [nroFrame : Frame, flagPresencia : BOOLEAN, flagUso : BOOLEAN]
       /\ \A i \in DOMAIN vivas[p] : vivas[p][i] \in [dir : Nat, tam : Nat]
       /\ local[p] \in [dir : Nat, tam : Nat, dato : Valores \cup {Nada},
                        pagina : Int, faltan : Int, leido : Seq(Byte)]
  /\ limiteLogico \in [Programas -> Nat]
  /\ mem.programas \subseteq Programas
  /\ mem.marcos \subseteq Frame /\ mem.swap \subseteq Slot
  /\ mem.tablasDePaginas \in [Frame -> Entrada \cup {Nada}]
  /\ \A f \in Frame : mem.contenidoFrames[f] = Nada \/ mem.contenidoFrames[f] \in Contenido
  /\ mem.paginasEnSwap \in [Slot -> Entrada \cup {Nada}]
  /\ \A s \in Slot : mem.archivoSwap[s] \in Contenido
  /\ mem.punteroClock \in Frame
  /\ mem.caida \in {"no", "swap", "nulo"}
  /\ pc \in [Programas -> {"fuera", "libre", "alloc", "get", "copy",
                           "cerrando", "cerrado", "muerto"}]
  /\ \A p \in Programas : pc[p] \in {"alloc", "get", "copy"} <=> g_mutexPaginas = p

-------------------------------------------------------------------------------
(* Pages *)

Paginas == UNION {{<<p, i - 1>> : i \in DOMAIN mem.tablaPaginas[p]} : p \in Programas}
Pag(e) == buscarFrameEnTablasDePaginas(mem, e)
Presentes == {e \in Paginas : Pag(e).flagPresencia}
Ausentes == Paginas \ Presentes

(* Until a program closes: the frames in use are the ones of the present     *)
(* pages, one each, the global table has exactly these pages in their        *)
(* frames, and each page that is out is in one slot of the swap.             *)
TablasConsistentes ==
  (\A p \in Programas : pc[p] \notin {"cerrando", "cerrado"}) =>
    /\ \A f \in Frame :
         LET ahi == {e \in Presentes : Pag(e).nroFrame = f} IN
         IF f \in mem.marcos THEN ahi = {mem.tablasDePaginas[f]}
         ELSE ahi = {} /\ mem.tablasDePaginas[f] = Nada
    /\ \A s \in Slot : mem.paginasEnSwap[s] # Nada => s \in mem.swap
    /\ \A e \in Paginas :
         Cardinality({s \in Slot : mem.paginasEnSwap[s] = e})
           = IF e \in Ausentes THEN 1 ELSE 0

(* With pages no larger than a header (PAGE_SIZE=4 of configs/muse.cfg) the   *)
(* only undefined access that prudent programs can lead MUSE to is the one   *)
(* to slot -1, when the swap has run out.                                    *)
CaidaSoloPorSwap ==
  mem.caida # "no" => mem.caida = "swap" /\ mem.swap = Slot

(* A page that is out comes back: no alloc, get or copy of a portion leads   *)
(* MUSE to a NULL in place of it.  libMUSE.h:45, 49 promise the bytes or -1. *)
(* It fails with pages larger than a header: page 0 is then asked for, and   *)
(* buscarPaginaAdministrativaPorPagina takes its number for NULL.            *)
PaginaVuelve == mem.caida # "nulo"

(* A program that closed has no frame left, even if its pages had been out.  *)
FramesDevueltos ==
  \A p \in Programas : pc[p] = "cerrado" =>
    \A f \in Frame : mem.tablasDePaginas[f] # Nada => mem.tablasDePaginas[f][1] # p

-------------------------------------------------------------------------------
(* Portions *)

(* The portions of a program do not overlap. *)
PorcionesDisjuntas ==
  \A p \in Programas : \A i, j \in DOMAIN vivas[p] :
    i # j => Direcciones(vivas[p][i]) \cap Direcciones(vivas[p][j]) = {}

(* What was reserved lies within the segment and in its pages: no copy and   *)
(* no get of it is refused.                                                  *)
PorcionesAccesibles ==
  \A p \in Programas : \A i \in DOMAIN vivas[p] :
    /\ vivas[p][i].dir + vivas[p][i].tam <= limiteLogico[p]
    /\ limiteLogico[p] <= Len(mem.tablaPaginas[p]) * lengthPagina

(* The byte at address a of p, in its frame or in its slot. *)
ByteEn(p, a) ==
  LET n == a \div lengthPagina
      pag == mem.tablaPaginas[p][n + 1]
      slots == {s \in Slot : mem.paginasEnSwap[s] = <<p, n>>}
  IN IF pag.flagPresencia THEN mem.contenidoFrames[pag.nroFrame][a % lengthPagina]
     ELSE IF slots # {} THEN mem.archivoSwap[Min(slots)][a % lengthPagina]
     ELSE Dato(Nada, -1)

Porciones(p) == IF pc[p] = "muerto" THEN {} ELSE Range(vivas[p])

(* A copy takes effect when it takes the semaphore, which nobody else gets   *)
(* before it has passed its last page.                                       *)
BytesVistos(p) ==
  [a \in UNION {Direcciones(q) : q \in Porciones(p)} |->
     IF pc[p] = "copy" /\ a \in Direcciones(local[p])
     THEN Dato(local[p].dato, a - local[p].dir) ELSE ByteEn(p, a)]

Devuelto(p) ==
  IF pc[p] = "get" /\ local[p].pagina > UltimaPagina(p)
  THEN [k \in 0..(local[p].tam - 1) |-> local[p].leido[k + 1]]
  ELSE Nada

Memoria == INSTANCE MemoriaMuse
  WITH porciones <- [p \in Programas |-> Porciones(p)],
       bytes <- [p \in Programas |-> BytesVistos(p)],
       devuelto <- [p \in Programas |-> Devuelto(p)]

(* Prudent programs see disjoint portions that keep what was copied into     *)
(* them, while the clock moves their pages and those of the others between   *)
(* frames and swap.                                                          *)
ImplementaMemoria == Memoria!Spec
===============================================================================
