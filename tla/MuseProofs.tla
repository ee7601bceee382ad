------------------------------- MODULE MuseProofs -------------------------------
(***************************************************************************)
(* Proofs of what MuseVista states of the tables and the portions of MUSE,  *)
(* and that the paged memory implements MemoriaMuse, for any programs,      *)
(* frames and slots of swap.  Each theorem names what it assumes:           *)
(*   Hipotesis       the programs are prudent (the newest portion is freed  *)
(*                   first, and they close when nobody has anything) and    *)
(*                   ask for no more than a page;                           *)
(*   HipotesisHeap   each asks for one size, which leaves no usable rest;   *)
(*   HipotesisCaida  pages are no larger than a header: 4 bytes in          *)
(*                   configs/muse.cfg, but not the 16 of                    *)
(*                   configs/SUSE/suseServer-stress.cfg.                    *)
(*                                                                         *)
(* Four invariants, each on top of the one before: InvTablas (pages, frames *)
(* and swap), InvPorciones (chunks and portions), InvCaida (the undefined   *)
(* access MUSE may meet) and InvBytes (what a copy has written and a get    *)
(* has read).                                                               *)
(***************************************************************************)
EXTENDS MuseVista, LemasComunes

-------------------------------------------------------------------------------
(* What is assumed of the constants *)

(* A chunk of more than a page that is taken again has whole pages inside,   *)
(* which cambiarFramesPorHeap marks as present wherever they are.            *)
Pequenias == \A p \in Programas : \A t \in Tamanios[p] : t <= lengthPagina
(* The server cuts a chunk when more than 5 bytes are left, the size of its  *)
(* header: with a header of at most 6 no chunk gets a negative size.         *)
Hipotesis == Prudentes /\ Pequenias /\ tamanio_heap <= 6

(* A program asks always for the same size, as the loop of pruebaMuse does.  *)
UnTamanio ==
  \A p \in Programas : \E t \in 1..lengthPagina : Tamanios[p] \subseteq {t}
Tam(p) == CHOOSE t \in 1..lengthPagina : Tamanios[p] \subseteq {t}
(* A portion with its header. *)
Unidad(p) == Tam(p) + tamanio_heap
(* What is left of a page when no other unit fits is too little for a chunk. *)
(* Otherwise it becomes a free chunk smaller than a portion, and the next    *)
(* allocarHeapNuevo takes it but gives its own chunk only the size that the  *)
(* free one lacked, so that a later portion lies inside this one: pages of   *)
(* 16 bytes and portions of 13 are enough.                                   *)
SinResto(u) ==
  \A n, k \in Nat :
    LET resto == n * lengthPagina - k * u IN
    0 <= resto /\ resto < lengthPagina /\ resto < u => resto <= 5
SinRestos == \A p \in Programas : SinResto(Unidad(p))
HipotesisHeap == Hipotesis /\ UnTamanio /\ 5 <= tamanio_heap /\ SinRestos

(* A page within the first header: no portion has a byte in page 0, which    *)
(* buscarPaginaAdministrativaPorPagina does not find in the swap.            *)
HipotesisCaida == HipotesisHeap /\ lengthPagina <= tamanio_heap

-------------------------------------------------------------------------------
(* The inductive invariants: the tables of pages, frames and slots *)

Registro == [nroFrame : Frame, flagPresencia : BOOLEAN, flagUso : BOOLEAN]
Campos == {"programas", "tablaPaginas", "marcos", "tablasDePaginas", "contenidoFrames", "swap",
           "paginasEnSwap", "archivoSwap", "punteroClock", "caida"}
EsMem(m) ==
  /\ DOMAIN m = Campos
  /\ m.programas \subseteq Programas /\ m.tablaPaginas \in [Programas -> Seq(Registro)]
  /\ m.marcos \subseteq Frame /\ m.tablasDePaginas \in [Frame -> Entrada \cup {Nada}]
  /\ m.contenidoFrames \in [Frame -> Contenido \cup {Nada}]
  /\ m.swap \subseteq Slot /\ m.paginasEnSwap \in [Slot -> Entrada \cup {Nada}]
  /\ m.archivoSwap \in [Slot -> Contenido] /\ m.punteroClock \in Frame
  /\ m.caida \in {"no", "swap", "nulo"}

(* The page e = <<program, number>> in the memory m, and its row.            *)
EsPagina(m, e) == e \in Entrada /\ e[2] < Len(m.tablaPaginas[e[1]])
Fila(m, e) == m.tablaPaginas[e[1]][e[2] + 1]

(* What frame f is said to hold is a present page that is in f.              *)
EntradaBien(m, f) ==
  LET e == m.tablasDePaginas[f] IN
  EsPagina(m, e) /\ Fila(m, e).flagPresencia /\ Fila(m, e).nroFrame = f

(* x is the page that TraerPaginaDeSwap is bringing, already marked as       *)
(* present, or Nada.                                                         *)
EntradasBien(m, x) ==
  \A f \in Frame : m.tablasDePaginas[f] # Nada =>
    EntradaBien(m, f) /\ m.tablasDePaginas[f] # x
(* A present page is the one of its frame.                                   *)
PresentesBien(m, x) ==
  \A e \in Entrada : EsPagina(m, e) /\ Fila(m, e).flagPresencia /\ e # x =>
    m.tablasDePaginas[Fila(m, e).nroFrame] = e
(* The bits of the frames, and the content of a frame in use.                *)
MarcosBien(m) == \A f \in Frame : f \in m.marcos <=> m.tablasDePaginas[f] # Nada
ConContenido(m) == \A f \in m.marcos : m.contenidoFrames[f] # Nada
(* A slot in use has its bit at 1 and a page that is out.                    *)
SlotsBien(m, x) ==
  \A s \in Slot : m.paginasEnSwap[s] # Nada =>
    LET e == m.paginasEnSwap[s] IN
    s \in m.swap /\ EsPagina(m, e) /\ (Fila(m, e).flagPresencia => e = x)
(* A page that is out is in a slot, and in one only.                         *)
AusentesBien(m) ==
  \A e \in Entrada : EsPagina(m, e) /\ ~ Fila(m, e).flagPresencia =>
    \E s \in Slot : m.paginasEnSwap[s] = e
SlotsUnicos(m) ==
  \A s, t \in Slot :
    m.paginasEnSwap[s] # Nada /\ m.paginasEnSwap[s] = m.paginasEnSwap[t] => s = t
(* Only programs that muse_init has listed have pages.                       *)
Listados(m) == \A e \in Entrada : EsPagina(m, e) => e[1] \in m.programas

Coherente(m, x) ==
  /\ EntradasBien(m, x) /\ PresentesBien(m, x) /\ MarcosBien(m) /\ ConContenido(m)
  /\ SlotsBien(m, x) /\ AusentesBien(m) /\ SlotsUnicos(m) /\ Listados(m)

(* A frame in use is of a program that has not closed; of one that closes,   *)
(* of a page that destruirPagina has not reached.                            *)
Vigentes ==
  \A f \in Frame : mem.tablasDePaginas[f] # Nada =>
    LET e == mem.tablasDePaginas[f] IN
    /\ EntradaBien(mem, f)
    /\ pc[e[1]] # "cerrado"
    /\ pc[e[1]] = "cerrando" => e[2] >= local[e[1]].pagina

(* Types of the variables.                                                   *)
TChunk == [t_size : Nat, isFree : BOOLEAN]
Porcion == [dir : Nat, tam : Nat]
Trabajo == {"alloc", "get", "copy"}
Donde == {"fuera", "libre", "alloc", "get", "copy", "cerrando", "cerrado", "muerto"}
EsLocal(l) ==
  /\ DOMAIN l = {"dir", "tam", "dato", "pagina", "faltan", "leido"}
  /\ l.dir \in Nat /\ l.tam \in Nat /\ l.dato \in Valores \cup {Nada}
  /\ l.pagina \in Int /\ l.faltan \in Int

TiposMuse ==
  /\ EsMem(mem)
  /\ heaps \in [Programas -> Seq(TChunk)]
  /\ limiteLogico \in [Programas -> Int]
  /\ g_mutexPaginas \in Programas \cup {Nada}
  /\ pc \in [Programas -> Donde]
  /\ DOMAIN local = Programas /\ \A p \in Programas : EsLocal(local[p])
  /\ vivas \in [Programas -> Seq(Porcion)]

(* A handler that takes the semaphore has it while it works, and none works  *)
(* once a program closes.                                                    *)
Semaforo ==
  /\ \A p \in Programas : pc[p] \in Trabajo <=> g_mutexPaginas = p
  /\ Terminando => g_mutexPaginas = Nada

(* What the point where the thread of p is says of its locals and its pages. *)
DePrograma(p) ==
  LET paginas == Len(mem.tablaPaginas[p]) IN
  /\ pc[p] \in {"fuera", "libre", "cerrado"} => local[p] = LocalInicial
  /\ pc[p] \notin {"fuera", "cerrando", "cerrado"} => p \in mem.programas
  /\ pc[p] = "cerrando" => local[p].pagina \in 0..paginas
  /\ pc[p] = "copy" => local[p].dato \in Valores
  /\ limiteLogico[p] <= paginas * lengthPagina

(* A request under way: the pages still to be added, or to be copied.        *)
EnCurso(p) ==
  LET paginas == Len(mem.tablaPaginas[p])
      l == local[p]
  IN /\ pc[p] = "alloc" =>
          /\ limiteLogico[p] + (l.pagina - l.faltan) * lengthPagina <= paginas * lengthPagina
          /\ l.faltan >= 0 \/ l.faltan = l.pagina
     /\ pc[p] \in {"get", "copy"} => l.dir + l.tam <= limiteLogico[p] /\ l.pagina >= 0

(* The invariant of the tables.  While a program closes the memory goes in   *)
(* parts, and only what Vigentes says holds.                                 *)
InvTablas ==
  /\ TiposMuse /\ Semaforo
  /\ Terminando \/ Coherente(mem, Nada)
  /\ Vigentes
  /\ \A p \in Programas : DePrograma(p)
  /\ mem.caida = "no" => \A p \in Programas : EnCurso(p)

-------------------------------------------------------------------------------
(* The heap: chunks and portions *)

(* The portions of p and its pages, with the one its alloc will answer and   *)
(* those it still has to add.                                                *)
Tomados(p) == Len(vivas[p]) + (IF pc[p] = "alloc" THEN 1 ELSE 0)
Porvenir(p) == Len(mem.tablaPaginas[p]) + (IF pc[p] = "alloc" THEN local[p].faltan ELSE 0)

(* The heap h of a program that asks for t: k chunks of t that are taken and *)
(* at most one that is free, the last, of the m units that fit in it and a   *)
(* rest of r bytes.                                                          *)
FormaDe(h, t, u, k, m, r) ==
  /\ Len(h) = k + (IF m = 0 THEN 0 ELSE 1)
  /\ \A i \in 1..k : h[i] = Chunk(t, FALSE)
  /\ m # 0 => h[k + 1] = Chunk(m * u + r - tamanio_heap, TRUE)

(* After k units of u in c pages there are at most 5 bytes, r of them in the *)
(* free chunk.                                                               *)
Cabe(c, k, u, r) == c * lengthPagina - k * u \in r..5

(* The heap of p has that form; its segment ends with its pages, or where it *)
(* ended before the alloc under way.                                         *)
InvHeap(p) ==
  /\ \E m \in Nat, r \in 0..5 :
       /\ FormaDe(heaps[p], Tam(p), Unidad(p), Tomados(p), m, r)
       /\ Cabe(Porvenir(p), Tomados(p) + m, Unidad(p), r)
  /\ limiteLogico[p] =
       (Porvenir(p) - (IF pc[p] = "alloc" THEN local[p].pagina ELSE 0)) * lengthPagina
  /\ pc[p] = "alloc" =>
       /\ local[p].dir = tamanio_heap + Len(vivas[p]) * Unidad(p) /\ local[p].tam = Tam(p)
       /\ local[p].faltan \in 0..local[p].pagina

(* The portions of p, one after the other from the first byte on.            *)
LasVivas(p) ==
  /\ limiteLogico[p] >= 0
  /\ \A i \in 1..Len(vivas[p]) :
       /\ vivas[p][i] = [dir |-> tamanio_heap + (i - 1) * Unidad(p), tam |-> Tam(p)]
       /\ i * Unidad(p) <= limiteLogico[p]

(* The invariant of the portions.                                            *)
InvPorciones ==
  /\ \A p \in Programas : LasVivas(p)
  /\ \A p \in Programas : pc[p] \in {"cerrando", "cerrado"} => vivas[p] = <<>>
  /\ mem.caida = "no" => \A p \in Programas : InvHeap(p)

(* The locals of a thread with their types.                                  *)
Completo(l) ==
  l \in [dir : Nat, tam : Nat, dato : Valores \cup {Nada}, pagina : Int, faltan : Int,
        leido : Seq(Byte)]

(* The invariant of the falls: no copy or get asks for page 0.               *)
InvCaida ==
  /\ CaidaSoloPorSwap
  /\ \A p \in Programas : Completo(local[p])
  /\ mem.caida = "no" => \A p \in Programas : pc[p] \in {"get", "copy"} => local[p].pagina >= 1

-------------------------------------------------------------------------------
(* The constants and the sets made of them.                                  *)
LEMMA Constantes ==
  /\ lengthPagina \in Nat \ {0} /\ tamanio_heap \in Nat \ {0}
  /\ g_cantidadFrames \in Nat \ {0} /\ maxPaginasEnSwap \in Nat
  /\ Nada \notin Programas /\ Nada \notin Entrada /\ Nada \notin Contenido
  /\ PaginaEnCero \in Contenido
  /\ Frame \subseteq Int /\ Slot \subseteq Int /\ IsFiniteSet(Frame) /\ IsFiniteSet(Slot)
  /\ \A e \in Entrada : e[1] \in Programas /\ e[2] \in Nat /\ e = <<e[1], e[2]>>
<1>1. IsFiniteSet(Frame)
  BY MuseAssumption, FS_Interval DEF Frame
<1>2. IsFiniteSet(Slot)
  BY MuseAssumption, FS_Interval DEF Slot
<1>3. PaginaEnCero \in Contenido
  BY DEF PaginaEnCero, Contenido, Byte
<1>4. Frame \subseteq Int /\ Slot \subseteq Int
  BY MuseAssumption DEF Frame, Slot
<1>5. \A e \in Entrada : e[1] \in Programas /\ e[2] \in Nat /\ e = <<e[1], e[2]>>
  BY DEF Entrada
<1> QED BY <1>1, <1>2, <1>3, <1>4, <1>5, MuseAssumption, NadaAssumption

LEMMA MinimoDe ==
  ASSUME NEW T, T \subseteq Int, IsFiniteSet(T), T # {}
  PROVE  Min(T) \in T /\ \A n \in T : Min(T) <= n
<1>1. \E n \in T : \A m \in T : n <= m
  BY Minimo
<1> QED BY <1>1 DEF Min

LEMMA LibreDe ==
  ASSUME NEW T, T \subseteq Int, IsFiniteSet(T), NEW S, HayLibre(T, S)
  PROVE  Libre(T, S) \in T \ S
<1>1. T \ S \subseteq Int /\ T \ S # {} /\ IsFiniteSet(T \ S)
  BY FS_Subset DEF HayLibre
<1> QED BY <1>1, MinimoDe DEF Libre

(* What a memory keeps of its type. *)
LEMMA Partes ==
  ASSUME NEW m, EsMem(m)
  PROVE  /\ m.programas \subseteq Programas /\ m.tablaPaginas \in [Programas -> Seq(Registro)]
         /\ m.marcos \subseteq Frame /\ m.tablasDePaginas \in [Frame -> Entrada \cup {Nada}]
         /\ m.contenidoFrames \in [Frame -> Contenido \cup {Nada}] /\ m.swap \subseteq Slot
         /\ m.paginasEnSwap \in [Slot -> Entrada \cup {Nada}]
         /\ m.archivoSwap \in [Slot -> Contenido] /\ m.punteroClock \in Frame
         /\ m.caida \in {"no", "swap", "nulo"}
         /\ \A p \in Programas : Len(m.tablaPaginas[p]) \in Nat
         /\ \A e \in Entrada : EsPagina(m, e) => /\ Fila(m, e) \in Registro
                                                 /\ e[2] + 1 \in 1..Len(m.tablaPaginas[e[1]])
<1>1. \A p \in Programas : m.tablaPaginas[p] \in Seq(Registro)
  BY DEF EsMem
<1>2. \A p \in Programas : /\ Len(m.tablaPaginas[p]) \in Nat
                           /\ \A i \in 1..Len(m.tablaPaginas[p]) : m.tablaPaginas[p][i] \in Registro
  BY <1>1, LenProperties, ElementOfSeq
<1>3. ASSUME NEW e \in Entrada, EsPagina(m, e)
      PROVE  e[2] + 1 \in 1..Len(m.tablaPaginas[e[1]])
  BY <1>2, <1>3, Constantes DEF EsPagina
<1> QED BY <1>2, <1>3, Constantes DEF EsMem, Fila

(* cargarFrameASwap with the slot s it finds.                                *)
EnSlot(m, f, e, s) ==
  [m EXCEPT !.swap = @ \cup {s},
            !.marcos = @ \ {f},
            !.archivoSwap[s] = m.contenidoFrames[f],
            !.tablasDePaginas[f] = Nada,
            !.paginasEnSwap[s] = e]

(* cargarFrameASwap: the first free slot, or the fall. *)
LEMMA ASwap ==
  ASSUME NEW m, EsMem(m), NEW f \in Frame, NEW e \in Entrada, m.contenidoFrames[f] # Nada
  PROVE  LET r == cargarFrameASwap(m, f, e) IN
         \/ m.swap = Slot /\ r = Caer(m, "swap")
         \/ \E s \in Slot \ m.swap : r = EnSlot(m, f, e, s)
<1> DEFINE s == Libre(Slot, m.swap)
<1>1. CASE HayLibre(Slot, m.swap)
  <2>1. s \in Slot \ m.swap
    BY <1>1, Constantes, LibreDe
  <2> QED BY <1>1, <2>1 DEF cargarFrameASwap, EnSlot
<1>2. CASE ~ HayLibre(Slot, m.swap)
  BY <1>2, Partes DEF cargarFrameASwap, HayLibre
<1> QED BY <1>1, <1>2

-------------------------------------------------------------------------------
(* One page goes out of a frame, one page comes into it *)

(* The memory whose frame f has been taken for the page x, and has no page.  *)
Afuera(m, f, x) ==
  /\ EntradasBien(m, x) /\ PresentesBien(m, x)
  /\ m.tablasDePaginas[f] = Nada
  /\ \A g \in Frame \ {f} : g \in m.marcos <=> m.tablasDePaginas[g] # Nada
  /\ \A g \in m.marcos \ {f} : m.contenidoFrames[g] # Nada
  /\ SlotsBien(m, x) /\ AusentesBien(m) /\ SlotsUnicos(m) /\ Listados(m)

(* The same pages, and the same rows but for v, which goes out, and flagUso. *)
MismasFilas(m, r, v) ==
  /\ \A p \in Programas : Len(r.tablaPaginas[p]) = Len(m.tablaPaginas[p])
  /\ \A e \in Entrada : EsPagina(m, e) =>
       /\ Fila(r, e).nroFrame = Fila(m, e).nroFrame
       /\ Fila(r, e).flagPresencia <=> Fila(m, e).flagPresencia /\ e # v

(* The content of page e, in its frame or in its slot.                       *)
ContenidoDe(m, e) ==
  IF Fila(m, e).flagPresencia THEN m.contenidoFrames[Fila(m, e).nroFrame]
  ELSE m.archivoSwap[Min({s \in Slot : m.paginasEnSwap[s] = e})]
(* The pages of m but x keep their contents in r.                            *)
MismosBytes(m, r, x) ==
  \A e \in Entrada : EsPagina(m, e) /\ e # x => ContenidoDe(r, e) = ContenidoDe(m, e)

LEMMA SlotDe ==
  ASSUME NEW m, SlotsUnicos(m), NEW e \in Entrada, NEW s \in Slot, m.paginasEnSwap[s] = e
  PROVE  Min({t \in Slot : m.paginasEnSwap[t] = e}) = s
<1> DEFINE S == {t \in Slot : m.paginasEnSwap[t] = e}
<1>1. s \in S /\ S \subseteq Int /\ IsFiniteSet(S)
  BY Constantes, FS_Subset
<1>2. \A t \in S : t = s
  BY Constantes DEF SlotsUnicos
<1>3. Min(S) \in S
  <2> HIDE DEF S
  <2> QED BY <1>1, MinimoDe
<1> QED BY <1>2, <1>3

(* cargarFrameASwap: the page of frame f goes out to slot s.                 *)
LEMMA Sacar ==
  ASSUME NEW m, NEW r, EsMem(m), EsMem(r), NEW x, Coherente(m, x),
         NEW j \in Frame, NEW v \in Entrada, v = m.tablasDePaginas[j],
         NEW s \in Slot, s \notin m.swap, MismasFilas(m, r, v),
         r.programas = m.programas, r.marcos = m.marcos \ {j}, r.swap = m.swap \cup {s},
         r.tablasDePaginas = [m.tablasDePaginas EXCEPT ![j] = Nada],
         r.paginasEnSwap = [m.paginasEnSwap EXCEPT ![s] = v],
         r.archivoSwap = [m.archivoSwap EXCEPT ![s] = m.contenidoFrames[j]],
         r.contenidoFrames = m.contenidoFrames
  PROVE  /\ Afuera(r, j, x) /\ MismosBytes(m, r, x)
         /\ \A t \in Slot : m.paginasEnSwap[t] # Nada => r.paginasEnSwap[t] = m.paginasEnSwap[t]
<1>1. \A e \in Entrada : EsPagina(r, e) <=> EsPagina(m, e)
  BY Constantes DEF EsPagina, MismasFilas
<1>2. /\ v # Nada /\ EsPagina(m, v) /\ Fila(m, v).flagPresencia /\ Fila(m, v).nroFrame = j /\ v # x
  BY Constantes DEF Coherente, EntradasBien, EntradaBien
<1>3. /\ \A g \in Frame : r.tablasDePaginas[g] = IF g = j THEN Nada ELSE m.tablasDePaginas[g]
      /\ \A t \in Slot : r.paginasEnSwap[t] = IF t = s THEN v ELSE m.paginasEnSwap[t]
  BY Partes
<1>4. m.paginasEnSwap[s] = Nada
  BY DEF Coherente, SlotsBien
<1>5. /\ \A g \in Frame : m.tablasDePaginas[g] # Nada => m.tablasDePaginas[g] \in Entrada
      /\ \A t \in Slot : m.paginasEnSwap[t] # Nada => m.paginasEnSwap[t] \in Entrada
  BY Partes
<1>6. \A e \in Entrada : EsPagina(m, e) => Fila(m, e).nroFrame \in Frame
  BY Partes DEF Registro
<1>7. EntradasBien(r, x)
  <2> SUFFICES ASSUME NEW g \in Frame, r.tablasDePaginas[g] # Nada
               PROVE  EntradaBien(r, g) /\ r.tablasDePaginas[g] # x
    BY DEF EntradasBien
  <2> DEFINE e == m.tablasDePaginas[g]
  <2>1. g # j /\ r.tablasDePaginas[g] = e /\ e \in Entrada
    BY <1>3, <1>5
  <2>2. /\ EsPagina(m, e) /\ Fila(m, e).flagPresencia /\ Fila(m, e).nroFrame = g /\ e # x
    BY <1>3, <2>1 DEF Coherente, EntradasBien, EntradaBien
  <2>3. e # v
    BY <1>2, <2>1, <2>2
  <2>4. Fila(r, e).flagPresencia /\ Fila(r, e).nroFrame = g
    BY <2>1, <2>2, <2>3 DEF MismasFilas
  <2> QED BY <1>1, <2>1, <2>2, <2>4 DEF EntradaBien
<1>8. PresentesBien(r, x)
  <2> SUFFICES ASSUME NEW e \in Entrada, EsPagina(r, e), Fila(r, e).flagPresencia, e # x
               PROVE  r.tablasDePaginas[Fila(r, e).nroFrame] = e
    BY DEF PresentesBien
  <2>1. /\ EsPagina(m, e) /\ Fila(m, e).flagPresencia /\ e # v
        /\ Fila(r, e).nroFrame = Fila(m, e).nroFrame
    BY <1>1 DEF MismasFilas
  <2>2. m.tablasDePaginas[Fila(m, e).nroFrame] = e
    BY <2>1 DEF Coherente, PresentesBien
  <2>3. Fila(m, e).nroFrame # j
    BY <2>1, <2>2
  <2> QED BY <1>3, <1>6, <2>1, <2>2, <2>3
<1>9. \A g \in Frame \ {j} : g \in r.marcos <=> r.tablasDePaginas[g] # Nada
  BY <1>3 DEF Coherente, MarcosBien
<1>10. \A g \in r.marcos \ {j} : r.contenidoFrames[g] # Nada
  BY DEF Coherente, ConContenido
<1>11. SlotsBien(r, x)
  <2> SUFFICES ASSUME NEW t \in Slot, r.paginasEnSwap[t] # Nada
               PROVE  /\ t \in r.swap /\ EsPagina(r, r.paginasEnSwap[t])
                      /\ Fila(r, r.paginasEnSwap[t]).flagPresencia => r.paginasEnSwap[t] = x
    BY DEF SlotsBien
  <2>1. CASE t = s
    BY <1>1, <1>2, <1>3, <2>1 DEF MismasFilas
  <2>2. CASE t # s
    <3>1. r.paginasEnSwap[t] = m.paginasEnSwap[t] /\ m.paginasEnSwap[t] \in Entrada
      BY <1>3, <1>5, <2>2
    <3>2. /\ t \in m.swap /\ EsPagina(m, m.paginasEnSwap[t])
          /\ Fila(m, m.paginasEnSwap[t]).flagPresencia => m.paginasEnSwap[t] = x
      BY <3>1 DEF Coherente, SlotsBien
    <3> QED BY <1>1, <3>1, <3>2 DEF MismasFilas
  <2> QED BY <2>1, <2>2
<1>12. AusentesBien(r)
  <2> SUFFICES ASSUME NEW e \in Entrada, EsPagina(r, e), ~ Fila(r, e).flagPresencia
               PROVE  \E t \in Slot : r.paginasEnSwap[t] = e
    BY DEF AusentesBien
  <2>1. CASE e = v
    BY <1>3, <2>1
  <2>2. CASE e # v
    <3>1. EsPagina(m, e) /\ ~ Fila(m, e).flagPresencia
      BY <1>1, <2>2 DEF MismasFilas
    <3>2. PICK t \in Slot : m.paginasEnSwap[t] = e
      BY <3>1 DEF Coherente, AusentesBien
    <3> QED BY <1>3, <1>4, <3>2, Constantes
  <2> QED BY <2>1, <2>2
<1>13. SlotsUnicos(r)
  <2>1. ASSUME NEW t \in Slot PROVE m.paginasEnSwap[t] # v
    BY <1>2 DEF Coherente, SlotsBien
  <2>2. SlotsUnicos(m)
    BY DEF Coherente
  <2> QED BY <1>3, <2>1, <2>2 DEF SlotsUnicos
<1>14. Listados(r)
  BY <1>1 DEF Coherente, Listados
<1>15. \A t \in Slot : m.paginasEnSwap[t] # Nada => r.paginasEnSwap[t] = m.paginasEnSwap[t]
  BY <1>3, <1>4
<1>16. MismosBytes(m, r, x)
  <2> SUFFICES ASSUME NEW e \in Entrada, EsPagina(m, e), e # x
               PROVE  ContenidoDe(r, e) = ContenidoDe(m, e)
    BY DEF MismosBytes
  <2>1. \A t \in Slot : r.archivoSwap[t] = IF t = s THEN m.contenidoFrames[j] ELSE m.archivoSwap[t]
    BY Partes
  <2>2. /\ Fila(r, e).nroFrame = Fila(m, e).nroFrame
        /\ Fila(r, e).flagPresencia <=> Fila(m, e).flagPresencia /\ e # v
    BY DEF MismasFilas
  <2>3. CASE e = v
    <3>0. r.paginasEnSwap[s] = e
      BY <1>3, <2>3
    <3>1. Min({t \in Slot : r.paginasEnSwap[t] = e}) = s
      BY ONLY <1>13, <3>0, e \in Entrada, s \in Slot, SlotDe
    <3> QED BY <1>2, <2>1, <2>2, <2>3, <3>1 DEF ContenidoDe
  <2>4. CASE e # v /\ Fila(m, e).flagPresencia
    BY <2>2, <2>4 DEF ContenidoDe
  <2>5. CASE e # v /\ ~ Fila(m, e).flagPresencia
    <3>1. PICK t \in Slot : m.paginasEnSwap[t] = e
      BY <2>5 DEF Coherente, AusentesBien
    <3>2. t # s /\ r.paginasEnSwap[t] = e
      BY <1>3, <1>4, <3>1, Constantes
    <3>3. SlotsUnicos(m)
      BY DEF Coherente
    <3>4. /\ Min({u \in Slot : m.paginasEnSwap[u] = e}) = t
          /\ Min({u \in Slot : r.paginasEnSwap[u] = e}) = t
      BY ONLY <1>13, <3>1, <3>2, <3>3, e \in Entrada, t \in Slot, SlotDe
    <3> QED BY <2>1, <2>2, <2>5, <3>2, <3>4 DEF ContenidoDe
  <2> QED BY <2>3, <2>4, <2>5
<1> QED BY <1>3, <1>7, <1>8, <1>9, <1>10, <1>11, <1>12, <1>13, <1>14, <1>15, <1>16 DEF Afuera

(* Page x, of which only its row knew, enters frame f.                       *)
LEMMA Entrar ==
  ASSUME NEW m, NEW r, EsMem(m), EsMem(r), NEW x \in Entrada, NEW f \in Frame, Afuera(m, f, x),
         r.programas = m.programas, x[1] \in m.programas,
         \A e \in Entrada : EsPagina(r, e) <=> EsPagina(m, e) \/ e = x,
         \A e \in Entrada : EsPagina(m, e) /\ e # x => Fila(r, e) = Fila(m, e),
         Fila(r, x).nroFrame = f, Fila(r, x).flagPresencia,
         r.marcos = m.marcos \cup {f}, r.swap = m.swap, r.archivoSwap = m.archivoSwap,
         r.tablasDePaginas = [m.tablasDePaginas EXCEPT ![f] = x],
         \A g \in Frame \ {f} : r.contenidoFrames[g] = m.contenidoFrames[g],
         r.contenidoFrames[f] # Nada,
         \A t \in Slot : r.paginasEnSwap[t] =
           IF m.paginasEnSwap[t] = x THEN Nada ELSE m.paginasEnSwap[t]
  PROVE  Coherente(r, Nada) /\ MismosBytes(m, r, x)
<1>1. \A g \in Frame : r.tablasDePaginas[g] = IF g = f THEN x ELSE m.tablasDePaginas[g]
  BY Partes
<1>2. /\ \A g \in Frame : m.tablasDePaginas[g] # Nada => m.tablasDePaginas[g] \in Entrada
      /\ \A t \in Slot : m.paginasEnSwap[t] # Nada => m.paginasEnSwap[t] \in Entrada
      /\ x # Nada
  BY Partes, Constantes
<1>3. \A e \in Entrada : EsPagina(m, e) => Fila(m, e).nroFrame \in Frame
  BY Partes DEF Registro
<1>4. EntradasBien(r, Nada)
  <2> SUFFICES ASSUME NEW g \in Frame, r.tablasDePaginas[g] # Nada
               PROVE  EntradaBien(r, g)
    BY DEF EntradasBien
  <2>1. CASE g = f
    BY <1>1, <2>1 DEF EntradaBien
  <2>2. CASE g # f
    <3> DEFINE e == m.tablasDePaginas[g]
    <3>1. e = r.tablasDePaginas[g] /\ e \in Entrada
      BY <1>1, <1>2, <2>2
    <3>2. EsPagina(m, e) /\ Fila(m, e).flagPresencia /\ Fila(m, e).nroFrame = g /\ e # x
      BY <3>1 DEF Afuera, EntradasBien, EntradaBien
    <3>3. Fila(r, e) = Fila(m, e) /\ EsPagina(r, e)
      BY <3>1, <3>2
    <3> QED BY <3>1, <3>2, <3>3 DEF EntradaBien
  <2> QED BY <2>1, <2>2
<1>5. PresentesBien(r, Nada)
  <2> SUFFICES ASSUME NEW e \in Entrada, EsPagina(r, e), Fila(r, e).flagPresencia
               PROVE  r.tablasDePaginas[Fila(r, e).nroFrame] = e
    BY DEF PresentesBien
  <2>1. CASE e = x
    BY <1>1, <2>1
  <2>2. CASE e # x
    <3>1. EsPagina(m, e) /\ Fila(r, e) = Fila(m, e)
      BY <2>2
    <3>2. m.tablasDePaginas[Fila(m, e).nroFrame] = e
      BY <2>2, <3>1 DEF Afuera, PresentesBien
    <3>3. Fila(m, e).nroFrame # f
      BY <3>2, Constantes DEF Afuera
    <3> QED BY <1>1, <1>3, <3>1, <3>2, <3>3
  <2> QED BY <2>1, <2>2
<1>6. MarcosBien(r)
  BY <1>1, <1>2 DEF Afuera, MarcosBien
<1>7. ConContenido(r)
  <2>1. r.marcos \subseteq Frame
    BY Partes
  <2> QED BY <2>1 DEF Afuera, ConContenido
<1>8. SlotsBien(r, Nada)
  <2> SUFFICES ASSUME NEW t \in Slot, r.paginasEnSwap[t] # Nada
               PROVE  /\ t \in r.swap /\ EsPagina(r, r.paginasEnSwap[t])
                      /\ ~ Fila(r, r.paginasEnSwap[t]).flagPresencia
    BY DEF SlotsBien
  <2> DEFINE e == m.paginasEnSwap[t]
  <2>1. r.paginasEnSwap[t] = e /\ e # x /\ e \in Entrada
    BY <1>2
  <2>2. t \in m.swap /\ EsPagina(m, e) /\ ~ Fila(m, e).flagPresencia
    BY <2>1, Constantes DEF Afuera, SlotsBien
  <2> QED BY <2>1, <2>2
<1>9. AusentesBien(r)
  <2> SUFFICES ASSUME NEW e \in Entrada, EsPagina(r, e), ~ Fila(r, e).flagPresencia
               PROVE  \E t \in Slot : r.paginasEnSwap[t] = e
    BY DEF AusentesBien
  <2>1. e # x
    OBVIOUS
  <2>2. EsPagina(m, e) /\ ~ Fila(m, e).flagPresencia
    BY <2>1
  <2>3. PICK t \in Slot : m.paginasEnSwap[t] = e
    BY <2>2 DEF Afuera, AusentesBien
  <2> QED BY <2>1, <2>3
<1>10. SlotsUnicos(r)
  BY DEF Afuera, SlotsUnicos
<1>11. Listados(r)
  BY DEF Afuera, Listados
<1>12. MismosBytes(m, r, x)
  <2> SUFFICES ASSUME NEW e \in Entrada, EsPagina(m, e), e # x
               PROVE  ContenidoDe(r, e) = ContenidoDe(m, e)
    BY DEF MismosBytes
  <2>1. Fila(r, e) = Fila(m, e)
    OBVIOUS
  <2>2. CASE Fila(m, e).flagPresencia
    <3>1. m.tablasDePaginas[Fila(m, e).nroFrame] = e
      BY <2>2 DEF Afuera, PresentesBien
    <3>2. Fila(m, e).nroFrame \in Frame \ {f}
      BY <1>3, <3>1, Constantes DEF Afuera
    <3> QED BY <2>1, <2>2, <3>2 DEF ContenidoDe
  <2>3. CASE ~ Fila(m, e).flagPresencia
    <3>1. PICK t \in Slot : m.paginasEnSwap[t] = e
      BY <2>3 DEF Afuera, AusentesBien
    <3>2. r.paginasEnSwap[t] = e
      BY <3>1
    <3>3. /\ Min({u \in Slot : m.paginasEnSwap[u] = e}) = t
          /\ Min({u \in Slot : r.paginasEnSwap[u] = e}) = t
      BY <1>10, <3>1, <3>2, SlotDe DEF Afuera
    <3> QED BY <2>1, <2>3, <3>3 DEF ContenidoDe
  <2> QED BY <2>2, <2>3
<1> QED BY <1>4, <1>5, <1>6, <1>7, <1>8, <1>9, <1>10, <1>11, <1>12 DEF Coherente

(* A frame with its page is one of a program that is listed. *)
LEMMA EntradaConocida ==
  ASSUME NEW m, EsMem(m), NEW x, Coherente(m, x), NEW k \in m.marcos
  PROVE  /\ m.tablasDePaginas[k] \in Entrada /\ m.tablasDePaginas[k][1] \in m.programas
         /\ m.tablasDePaginas[k] # x /\ EsPagina(m, m.tablasDePaginas[k])
         /\ m.contenidoFrames[k] # Nada
<1>1. k \in Frame
  BY Partes
<1>2. m.tablasDePaginas[k] # Nada
  BY <1>1 DEF Coherente, MarcosBien
<1>3. m.tablasDePaginas[k] \in Entrada
  BY <1>1, <1>2, Partes
<1>4. EntradaBien(m, k) /\ m.tablasDePaginas[k] # x
  BY <1>1, <1>2 DEF Coherente, EntradasBien
<1>5. m.tablasDePaginas[k][1] \in m.programas
  BY <1>3, <1>4 DEF EntradaBien, Coherente, Listados
<1> QED BY <1>3, <1>4, <1>5 DEF EntradaBien, Coherente, ConContenido

(* The rows that the clock leaves, when it stops at the page v and has       *)
(* cleared flagUso of the pages in U.                                        *)
Recorrida(m, U, v) ==
  [p \in Programas |-> [i \in 1..Len(m.tablaPaginas[p]) |->
     [m.tablaPaginas[p][i] EXCEPT !.flagUso = @ /\ <<p, i - 1>> \notin U,
                                  !.flagPresencia = @ /\ <<p, i - 1>> # v]]]

LEMMA FilasRecorridas ==
  ASSUME NEW m, EsMem(m), NEW U, NEW v, NEW j \in Frame
  PROVE  LET r == [m EXCEPT !.tablaPaginas = Recorrida(m, U, v), !.punteroClock = j]
         IN  EsMem(r) /\ MismasFilas(m, r, v)
<1> DEFINE t == Recorrida(m, U, v)
<1>1. ASSUME NEW p \in Programas
      PROVE  /\ t[p] \in Seq(Registro) /\ Len(t[p]) = Len(m.tablaPaginas[p])
             /\ \A i \in 1..Len(m.tablaPaginas[p]) :
                  /\ t[p][i].nroFrame = m.tablaPaginas[p][i].nroFrame
                  /\ t[p][i].flagPresencia <=> m.tablaPaginas[p][i].flagPresencia /\ <<p, i - 1>> # v
  <2>1. /\ Len(m.tablaPaginas[p]) \in Nat
        /\ \A i \in 1..Len(m.tablaPaginas[p]) : m.tablaPaginas[p][i] \in Registro
    BY Partes, LenProperties, ElementOfSeq
  <2>2. t[p] = [i \in 1..Len(m.tablaPaginas[p]) |->
                  [m.tablaPaginas[p][i] EXCEPT !.flagUso = @ /\ <<p, i - 1>> \notin U,
                                               !.flagPresencia = @ /\ <<p, i - 1>> # v]]
    BY DEF Recorrida
  <2>3. ASSUME NEW i \in 1..Len(m.tablaPaginas[p])
        PROVE  /\ t[p][i] \in Registro
               /\ t[p][i].nroFrame = m.tablaPaginas[p][i].nroFrame
               /\ t[p][i].flagPresencia <=> m.tablaPaginas[p][i].flagPresencia /\ <<p, i - 1>> # v
    <3>1. t[p][i] = [m.tablaPaginas[p][i] EXCEPT !.flagUso = @ /\ <<p, i - 1>> \notin U,
                                                 !.flagPresencia = @ /\ <<p, i - 1>> # v]
      BY <2>2
    <3>2. m.tablaPaginas[p][i] \in Registro
      BY <2>1
    <3> QED BY <3>1, <3>2 DEF Registro
  <2>4. t[p] \in [1..Len(m.tablaPaginas[p]) -> Registro]
    <3> HIDE DEF t
    <3> QED BY <2>2, <2>3
  <2>5. t[p] \in Seq(Registro) /\ Len(t[p]) = Len(m.tablaPaginas[p])
    <3> HIDE DEF t
    <3> QED BY SMTT(30), <2>1, <2>4, IsASeq, LenProperties
  <2> QED BY <2>3, <2>5
<1>2. t \in [Programas -> Seq(Registro)]
  BY <1>1 DEF Recorrida
<1> HIDE DEF t
<1> DEFINE r == [m EXCEPT !.tablaPaginas = t, !.punteroClock = j]
<1>3. EsMem(r) /\ r.tablaPaginas = t
  BY <1>2 DEF EsMem
<1> HIDE DEF r
<1>4. MismasFilas(m, r, v)
  <2>1. ASSUME NEW e \in Entrada, EsPagina(m, e)
        PROVE  /\ Fila(r, e).nroFrame = Fila(m, e).nroFrame
               /\ Fila(r, e).flagPresencia <=> Fila(m, e).flagPresencia /\ e # v
    <3>1. /\ e[1] \in Programas /\ e[2] \in Nat /\ e = <<e[1], e[2]>>
          /\ e[2] + 1 \in 1..Len(m.tablaPaginas[e[1]])
      BY <2>1, Constantes, Partes
    <3>2. (e[2] + 1) - 1 = e[2]
      BY <3>1
    <3> QED BY ZenonT(60), <1>1, <1>3, <3>1, <3>2 DEF Fila
  <2>2. \A p \in Programas : Len(r.tablaPaginas[p]) = Len(m.tablaPaginas[p])
    BY <1>1, <1>3
  <2> QED BY ONLY <2>1, <2>2, ZenonT(30) DEF MismasFilas
<1>5. r = [m EXCEPT !.tablaPaginas = Recorrida(m, U, v), !.punteroClock = j]
  BY ZenonT(30) DEF r, t
<1> QED BY ONLY <1>3, <1>4, <1>5, ZenonT(30)

(* What a frame that was taken leaves, of the page x. *)
Tomado(m, r, f, x) ==
  /\ EsMem(r) /\ f \in Frame /\ r.caida = m.caida /\ Afuera(r, f, x)
  /\ r.programas = m.programas /\ r.contenidoFrames = m.contenidoFrames
  /\ \E v : (v = Nada \/ v # x) /\ MismasFilas(m, r, v)
  /\ MismosBytes(m, r, x)
  /\ \A t \in Slot : m.paginasEnSwap[t] # Nada => r.paginasEnSwap[t] = m.paginasEnSwap[t]

(* What the fall for the lack of a slot leaves. *)
Caido(m, r, f) ==
  /\ m.swap = Slot /\ EsMem(r) /\ f \in Frame /\ r.caida = "swap"
  /\ \A p \in Programas : Len(r.tablaPaginas[p]) = Len(m.tablaPaginas[p])

(* ClockModificado leaves the tables coherent, with the frame it answers out *)
(* of use, or the swap is full.                                              *)
LEMMA Clock ==
  ASSUME NEW m, EsMem(m), NEW x, Coherente(m, x), m.marcos = Frame
  PROVE  LET o == ClockModificado(m) IN
         \/ Caido(m, o.mem, o.frame)
         \/ Tomado(m, o.mem, o.frame, x)
<1> DEFINE inicio == IF m.punteroClock = g_cantidadFrames - 1 THEN 0 ELSE m.punteroClock
           e(k) == m.tablasDePaginas[k]
           Conocida(k) == e(k) # Nada /\ e(k)[1] \in m.programas
           Para(k) == ~ Conocida(k) \/ ~ buscarFrameEnTablasDePaginas(m, e(k)).flagUso
           vuelta1 == {k \in inicio..(g_cantidadFrames - 1) : Para(k)}
           vuelta2 == {k \in Frame : k >= inicio \/ Para(k)}
           j == IF vuelta1 # {} THEN Min(vuelta1) ELSE Min(vuelta2)
           vistos == IF vuelta1 # {} THEN inicio..(j - 1)
                     ELSE inicio..(g_cantidadFrames - 1) \cup 0..(j - 1)
           usadas == {e(k) : k \in vistos}
           m1 == [m EXCEPT !.tablaPaginas = Recorrida(m, usadas, e(j)), !.punteroClock = j]
<1>1. inicio \in Frame /\ inicio..(g_cantidadFrames - 1) \subseteq Frame
  BY Partes, Constantes DEF Frame
<1>2. j \in Frame
  <2>1. CASE vuelta1 # {}
    <3>1. vuelta1 \subseteq Frame
      BY <1>1
    <3>2. vuelta1 \subseteq Int /\ IsFiniteSet(vuelta1)
      BY <3>1, Constantes, FS_Subset
    <3>3. Min(vuelta1) \in vuelta1
      <4> HIDE DEF vuelta1
      <4> QED BY <2>1, <3>2, MinimoDe
    <3> HIDE DEF vuelta1
    <3> QED BY <2>1, <3>1, <3>3
  <2>2. CASE vuelta1 = {}
    <3>1. vuelta2 \subseteq Frame
      OBVIOUS
    <3>2. vuelta2 \subseteq Int /\ IsFiniteSet(vuelta2)
      BY <3>1, Constantes, FS_Subset
    <3>3. inicio \in vuelta2
      <4>1. inicio >= inicio
        BY <1>1, Constantes
      <4> HIDE DEF inicio, Para
      <4> QED BY <1>1, <4>1
    <3>4. Min(vuelta2) \in vuelta2
      <4> HIDE DEF vuelta2, inicio
      <4> QED BY <3>2, <3>3, MinimoDe
    <3> HIDE DEF vuelta2, vuelta1
    <3> QED BY <2>2, <3>1, <3>4
  <2> QED BY <2>1, <2>2
<1>3. ClockModificado(m) =
        IF ~ Conocida(j) THEN [mem |-> Caer(m, "nulo"), frame |-> j]
        ELSE [mem |-> cargarFrameASwap(m1, j, e(j)), frame |-> j]
  BY DEF ClockModificado, Recorrida
<1> HIDE DEF j, usadas
<1>4. Conocida(j) /\ e(j) \in Entrada /\ e(j) # x /\ m.contenidoFrames[j] # Nada
  BY <1>2, EntradaConocida, Constantes
<1>5. EsMem(m1) /\ MismasFilas(m, m1, e(j))
  BY <1>2, FilasRecorridas
<1>6. /\ m1.programas = m.programas /\ m1.marcos = m.marcos /\ m1.swap = m.swap
      /\ m1.tablasDePaginas = m.tablasDePaginas /\ m1.paginasEnSwap = m.paginasEnSwap
      /\ m1.contenidoFrames = m.contenidoFrames /\ m1.archivoSwap = m.archivoSwap
      /\ m1.caida = m.caida
  BY DEF EsMem
<1> HIDE DEF m1
<1> DEFINE r == cargarFrameASwap(m1, j, e(j))
<1>7. ClockModificado(m).mem = r /\ ClockModificado(m).frame = j
  BY <1>3, <1>4
<1>8. \/ m1.swap = Slot /\ r = Caer(m1, "swap")
      \/ \E s \in Slot \ m1.swap : r = EnSlot(m1, j, e(j), s)
  BY <1>2, <1>4, <1>5, <1>6, ASwap
<1> HIDE DEF r
<1>9. CASE m1.swap = Slot /\ r = Caer(m1, "swap")
  <2>1. r.caida = "swap" /\ EsMem(r) /\ r.tablaPaginas = m1.tablaPaginas
    BY <1>5, <1>9 DEF Caer, EsMem, Campos
  <2>2. Caido(m, r, j)
    BY <1>2, <1>5, <1>6, <1>9, <2>1 DEF Caido, MismasFilas
  <2> QED BY <1>7, <2>2
<1>10. ASSUME NEW s \in Slot \ m1.swap, r = EnSlot(m1, j, e(j), s)
       PROVE  Tomado(m, r, j, x)
  <2>1. /\ r.swap = m.swap \cup {s} /\ r.marcos = m.marcos \ {j}
        /\ r.archivoSwap = [m.archivoSwap EXCEPT ![s] = m.contenidoFrames[j]]
        /\ r.tablasDePaginas = [m.tablasDePaginas EXCEPT ![j] = Nada]
        /\ r.paginasEnSwap = [m.paginasEnSwap EXCEPT ![s] = e(j)]
        /\ r.programas = m.programas /\ r.contenidoFrames = m.contenidoFrames
        /\ r.tablaPaginas = m1.tablaPaginas /\ r.caida = m.caida
    <3>1. DOMAIN m1 = Campos
      BY <1>5 DEF EsMem
    <3> QED BY <1>6, <1>10, <3>1 DEF Campos, EnSlot
  <2>2. EsMem(r)
    <3>1. m.contenidoFrames[j] \in Contenido
      BY <1>2, <1>4, Partes
    <3>2. /\ r.swap \subseteq Slot /\ r.marcos \subseteq Frame
          /\ r.archivoSwap \in [Slot -> Contenido]
          /\ r.tablasDePaginas \in [Frame -> Entrada \cup {Nada}]
          /\ r.paginasEnSwap \in [Slot -> Entrada \cup {Nada}]
      BY <1>2, <1>4, <1>6, <2>1, <3>1, Partes
    <3>3. /\ r.programas = m1.programas /\ r.tablaPaginas = m1.tablaPaginas
          /\ r.contenidoFrames = m1.contenidoFrames /\ r.caida = m1.caida
          /\ r.punteroClock = m1.punteroClock
      BY <1>5, <1>10 DEF EsMem, Campos, EnSlot
    <3>4. DOMAIN r = Campos
      BY ONLY <1>5, <1>10 DEF EsMem, EnSlot
    <3> QED BY <1>5, <3>2, <3>3, <3>4 DEF EsMem
  <2>3. MismasFilas(m, r, e(j))
    BY <1>5, <2>1 DEF MismasFilas, Fila
  <2>4. /\ Afuera(r, j, x) /\ MismosBytes(m, r, x)
        /\ \A t \in Slot : m.paginasEnSwap[t] # Nada => r.paginasEnSwap[t] = m.paginasEnSwap[t]
    BY <1>2, <1>4, <1>6, <2>1, <2>2, <2>3, Sacar
  <2> QED BY <1>2, <1>4, <2>1, <2>2, <2>3, <2>4 DEF Tomado
<1> QED BY <1>6, <1>7, <1>8, <1>9, <1>10

(* So does TomarFrame, with a frame nobody uses.                             *)
LEMMA TomarFrameBien ==
  ASSUME NEW m, EsMem(m), NEW x, Coherente(m, x)
  PROVE  LET o == TomarFrame(m) IN
         \/ Caido(m, o.mem, o.frame)
         \/ Tomado(m, o.mem, o.frame, x)
<1>1. CASE HayLibre(Frame, m.marcos)
  <2> DEFINE f == Libre(Frame, m.marcos)
             r == [m EXCEPT !.marcos = @ \cup {f}]
  <2>1. f \in Frame /\ f \notin m.marcos
    BY <1>1, Constantes, LibreDe
  <2>2. TomarFrame(m).mem = r /\ TomarFrame(m).frame = f
    BY <1>1 DEF TomarFrame
  <2> HIDE DEF f
  <2>3. /\ r.marcos = m.marcos \cup {f} /\ r.programas = m.programas /\ r.swap = m.swap
        /\ r.tablasDePaginas = m.tablasDePaginas /\ r.paginasEnSwap = m.paginasEnSwap
        /\ r.contenidoFrames = m.contenidoFrames /\ r.tablaPaginas = m.tablaPaginas
        /\ r.archivoSwap = m.archivoSwap /\ r.caida = m.caida /\ EsMem(r)
    BY <2>1 DEF EsMem, Campos
  <2> HIDE DEF r
  <2>4. m.tablasDePaginas[f] = Nada
    BY <2>1 DEF Coherente, MarcosBien
  <2>5. /\ \A e \in Entrada : EsPagina(r, e) <=> EsPagina(m, e)
        /\ \A e : Fila(r, e) = Fila(m, e)
        /\ \A g : EntradaBien(r, g) <=> EntradaBien(m, g)
    BY <2>3 DEF EsPagina, Fila, EntradaBien
  <2>6. EntradasBien(r, x) /\ PresentesBien(r, x)
    BY <2>3, <2>5 DEF Coherente, EntradasBien, PresentesBien
  <2>7. /\ \A g \in Frame \ {f} : g \in r.marcos <=> r.tablasDePaginas[g] # Nada
        /\ \A g \in r.marcos \ {f} : r.contenidoFrames[g] # Nada
    BY <2>3 DEF Coherente, MarcosBien, ConContenido
  <2>8. SlotsBien(r, x) /\ AusentesBien(r) /\ SlotsUnicos(r) /\ Listados(r)
    <3>1. \A e : EsPagina(r, e) <=> EsPagina(m, e)
      BY <2>3 DEF EsPagina
    <3> QED BY <2>3, <2>5, <3>1 DEF Coherente, SlotsBien, AusentesBien, SlotsUnicos, Listados
  <2>9. MismasFilas(m, r, Nada)
    BY <2>3, <2>5, Constantes DEF MismasFilas
  <2>10. MismosBytes(m, r, x)
    BY <2>3 DEF MismosBytes, ContenidoDe, Fila
  <2> QED BY <2>1, <2>2, <2>3, <2>4, <2>6, <2>7, <2>8, <2>9, <2>10 DEF Tomado, Afuera
<1>2. CASE ~ HayLibre(Frame, m.marcos)
  <2>1. m.marcos = Frame
    BY <1>2, Partes DEF HayLibre
  <2>2. TomarFrame(m) = ClockModificado(m)
    BY <1>2 DEF TomarFrame
  <2> QED BY <2>1, <2>2, Clock
<1> QED BY <1>1, <1>2

(* A page that is not there yet may be taken for the one that comes in.      *)
LEMMA PorVenir ==
  ASSUME NEW m, EsMem(m), Coherente(m, Nada), NEW x \in Entrada, ~ EsPagina(m, x)
  PROVE  Coherente(m, x)
<1>1. EntradasBien(m, x)
  BY DEF Coherente, EntradasBien, EntradaBien
<1>2. PresentesBien(m, x)
  BY Constantes DEF Coherente, PresentesBien
<1>3. SlotsBien(m, x)
  BY DEF Coherente, SlotsBien
<1> QED BY <1>1, <1>2, <1>3 DEF Coherente

(* agregarPaginaEnSegmento adds a page to p and keeps the tables coherent.   *)
LEMMA AlAgregar ==
  ASSUME NEW m, EsMem(m), Coherente(m, Nada), NEW p \in m.programas
  PROVE  LET r == agregarPaginaEnSegmento(m, p) IN
         \/ m.swap = Slot /\ r.caida = "swap"
         \/ /\ EsMem(r) /\ r.caida = m.caida /\ Coherente(r, Nada) /\ r.programas = m.programas
            /\ MismosBytes(m, r, Nada)
            /\ \A q \in Programas :
                 Len(r.tablaPaginas[q]) = Len(m.tablaPaginas[q]) + (IF q = p THEN 1 ELSE 0)
<1> DEFINE o == TomarFrame(m)
           f == o.frame
           n == Len(m.tablaPaginas[p])
           x == <<p, n>>
           fila == [nroFrame |-> f, flagPresencia |-> TRUE, flagUso |-> TRUE]
           r == agregarPaginaEnSegmento(m, p)
<1>1. p \in Programas /\ n \in Nat /\ x \in Entrada
  BY Partes DEF Entrada
<1>2. ~ EsPagina(m, x)
  BY <1>1 DEF EsPagina
<1>3. Coherente(m, x)
  BY <1>1, <1>2, PorVenir
<1>4. r = [o.mem EXCEPT !.marcos = @ \cup {f}, !.tablaPaginas[p] = Append(@, fila),
                        !.contenidoFrames[f] = IF @ = Nada THEN PaginaEnCero ELSE @,
                        !.tablasDePaginas[f] = x]
  BY DEF agregarPaginaEnSegmento
<1> HIDE DEF r, o, f
<1>5. CASE Caido(m, o.mem, f)
  BY <1>4, <1>5 DEF Caido, EsMem, Campos, r
<1>6. CASE Tomado(m, o.mem, f, x)
  <2> DEFINE a == o.mem
  <2>1. PICK b : b = o.mem
    OBVIOUS
  <2>2. /\ EsMem(b) /\ f \in Frame /\ b.caida = m.caida /\ Afuera(b, f, x)
        /\ b.programas = m.programas /\ DOMAIN b = Campos
    BY <1>6, <2>1 DEF Tomado, EsMem
  <2>3. /\ r.marcos = b.marcos \cup {f}
        /\ r.tablaPaginas = [b.tablaPaginas EXCEPT ![p] = Append(@, fila)]
        /\ r.contenidoFrames = [b.contenidoFrames EXCEPT ![f] = IF @ = Nada THEN PaginaEnCero ELSE @]
        /\ r.tablasDePaginas = [b.tablasDePaginas EXCEPT ![f] = x]
        /\ r.programas = b.programas /\ r.swap = b.swap /\ r.paginasEnSwap = b.paginasEnSwap
        /\ r.archivoSwap = b.archivoSwap /\ r.punteroClock = b.punteroClock
        /\ r.caida = b.caida
    <3> HIDE DEF fila, x
    <3> QED BY <1>4, <2>1, <2>2 DEF Campos
  <2>4. DOMAIN r = Campos
    BY <1>4, <2>1, <2>2
  <2>5. \A q \in Programas : b.tablaPaginas[q] \in Seq(Registro) /\ Len(b.tablaPaginas[q]) = Len(m.tablaPaginas[q])
    BY <1>6, <2>1, <2>2, Partes DEF Tomado, MismasFilas
  <2>6. fila \in Registro
    BY <2>2 DEF Registro
  <2> HIDE DEF fila
  <2>7. /\ Append(b.tablaPaginas[p], fila) \in Seq(Registro)
        /\ Len(Append(b.tablaPaginas[p], fila)) = n + 1
        /\ \A i \in 1..n : Append(b.tablaPaginas[p], fila)[i] = b.tablaPaginas[p][i]
        /\ Append(b.tablaPaginas[p], fila)[n + 1] = fila
    <3>1. b.tablaPaginas[p] \in Seq(Registro) /\ Len(b.tablaPaginas[p]) = n
      BY <1>1, <2>5
    <3> HIDE DEF n
    <3> QED BY <2>6, <3>1, AppendProperties
  <2>8. /\ \A q \in Programas : r.tablaPaginas[q] = IF q = p THEN Append(b.tablaPaginas[p], fila)
                                                    ELSE b.tablaPaginas[q]
        /\ r.tablaPaginas \in [Programas -> Seq(Registro)]
    <3>1. r.tablaPaginas = [b.tablaPaginas EXCEPT ![p] = Append(b.tablaPaginas[p], fila)]
      BY <2>2, <2>3
    <3>2. b.tablaPaginas \in [Programas -> Seq(Registro)]
      BY <2>2, Partes
    <3> QED BY ONLY <1>1, <2>7, <3>1, <3>2
  <2>9. \A q \in Programas : Len(r.tablaPaginas[q]) = Len(m.tablaPaginas[q]) + (IF q = p THEN 1 ELSE 0)
    <3>1. \A q \in Programas : Len(m.tablaPaginas[q]) \in Nat
      BY Partes
    <3>2. ASSUME NEW q \in Programas
          PROVE  Len(r.tablaPaginas[q]) = Len(m.tablaPaginas[q]) + (IF q = p THEN 1 ELSE 0)
      <4>1. CASE q = p
        BY <2>7, <2>8, <4>1
      <4>2. CASE q # p
        BY <2>5, <2>8, <3>1, <4>2
      <4> QED BY <4>1, <4>2
    <3> QED BY <3>2
  <2>10. EsMem(r)
    <3>1. /\ r.contenidoFrames \in [Frame -> Contenido \cup {Nada}]
          /\ r.tablasDePaginas \in [Frame -> Entrada \cup {Nada}] /\ r.marcos \subseteq Frame
      <4> HIDE DEF x
      <4> QED BY SMTT(30), <1>1, <2>2, <2>3, Partes, Constantes
    <3> QED BY <2>2, <2>3, <2>4, <2>8, <3>1 DEF EsMem
  <2>11. \A e \in Entrada : EsPagina(r, e) <=> EsPagina(b, e) \/ e = x
    <3> SUFFICES ASSUME NEW e \in Entrada PROVE EsPagina(r, e) <=> EsPagina(b, e) \/ e = x
      OBVIOUS
    <3>1. e[1] \in Programas /\ e[2] \in Nat /\ e = <<e[1], e[2]>>
      BY Constantes
    <3>2. Len(b.tablaPaginas[e[1]]) \in Nat
      BY <2>2, <3>1, Partes
    <3>3. CASE e[1] = p
      <4>1. Len(r.tablaPaginas[p]) = n + 1 /\ Len(b.tablaPaginas[p]) = n
        BY <1>1, <2>5, <2>7, <2>8
      <4>2. e = x <=> e[2] = n
        BY <3>1, <3>3
      <4>3. e[2] < n + 1 <=> e[2] < n \/ e[2] = n
        BY <1>1, <3>1
      <4> HIDE DEF x, n
      <4> QED BY <3>3, <4>1, <4>2, <4>3 DEF EsPagina
    <3>4. CASE e[1] # p
      BY <2>8, <3>1, <3>4 DEF EsPagina
    <3> QED BY <3>3, <3>4
  <2>12. \A e \in Entrada : EsPagina(b, e) /\ e # x => Fila(r, e) = Fila(b, e)
    <3> SUFFICES ASSUME NEW e \in Entrada, EsPagina(b, e) PROVE Fila(r, e) = Fila(b, e)
      OBVIOUS
    <3>1. e[1] \in Programas /\ e[2] + 1 \in 1..Len(b.tablaPaginas[e[1]])
      BY <2>2, Constantes, Partes
    <3>2. CASE e[1] = p
      <4>1. e[2] + 1 \in 1..n
        BY <1>1, <2>5, <3>1, <3>2
      <4> HIDE DEF n, x
      <4> QED BY <2>7, <2>8, <3>1, <3>2, <4>1 DEF Fila
    <3>3. CASE e[1] # p
      BY <2>8, <3>1, <3>3 DEF Fila
    <3> QED BY <3>2, <3>3
  <2>13. Fila(r, x).nroFrame = f /\ Fila(r, x).flagPresencia
    <3>1. Fila(r, x) = r.tablaPaginas[p][n + 1]
      BY DEF Fila
    <3>2. r.tablaPaginas[p][n + 1] = fila
      <4> HIDE DEF n
      <4> QED BY <1>1, <2>7, <2>8
    <3> QED BY <3>1, <3>2 DEF fila
  <2>14. /\ \A g \in Frame \ {f} : r.contenidoFrames[g] = b.contenidoFrames[g]
         /\ r.contenidoFrames[f] # Nada
    BY <2>2, <2>3, Partes, Constantes
  <2>15. \A t \in Slot : r.paginasEnSwap[t] = IF b.paginasEnSwap[t] = x THEN Nada ELSE b.paginasEnSwap[t]
    <3>1. ~ EsPagina(b, x)
      BY <1>1, <2>5 DEF EsPagina
    <3>2. \A t \in Slot : b.paginasEnSwap[t] # x
      <4> HIDE DEF x
      <4> QED BY <1>1, <2>2, <3>1, Constantes DEF Afuera, SlotsBien
    <3> QED BY <2>3, <3>2
  <2>16. x[1] \in b.programas
    BY <2>2
  <2> HIDE DEF x
  <2>17. Coherente(r, Nada) /\ MismosBytes(b, r, x)
    BY <1>1, <2>2, <2>3, <2>10, <2>11, <2>12, <2>13, <2>14, <2>15, <2>16, Entrar
  <2>18. MismosBytes(m, r, Nada)
    <3>1. MismosBytes(m, b, x)
      BY <1>6, <2>1 DEF Tomado
    <3>2. \A e \in Entrada : EsPagina(m, e) => EsPagina(b, e) /\ e # x
      BY <1>2, <2>5, Constantes DEF EsPagina
    <3> QED BY <2>17, <3>1, <3>2 DEF MismosBytes
  <2> QED BY <2>2, <2>3, <2>9, <2>10, <2>17, <2>18 DEF r
<1>7. \/ Caido(m, o.mem, f)
      \/ Tomado(m, o.mem, f, x)
  BY <1>3, TomarFrameBien DEF o, f
<1> QED BY <1>5, <1>6, <1>7

LEMMA UnaFila ==
  ASSUME NEW t \in [Programas -> Seq(Registro)], NEW p \in Programas, NEW i \in 1..Len(t[p]),
         NEW fila \in Registro, NEW u, u = [t EXCEPT ![p] = [@ EXCEPT ![i] = fila]]
  PROVE  /\ u \in [Programas -> Seq(Registro)]
         /\ \A q \in Programas :
              /\ Len(u[q]) = Len(t[q])
              /\ \A k \in 1..Len(t[q]) : u[q][k] = IF q = p /\ k = i THEN fila ELSE t[q][k]
<1> DEFINE s == [t[p] EXCEPT ![i] = fila]
<1>1. t[p] \in Seq(Registro) /\ i \in 1..Len(t[p]) /\ Len(t[p]) \in Nat
  BY LenProperties
<1>2. s \in Seq(Registro) /\ Len(s) = Len(t[p])
      /\ \A k \in 1..Len(t[p]) : s[k] = IF k = i THEN fila ELSE t[p][k]
  <2>1. t[p] \in [1..Len(t[p]) -> Registro]
    BY <1>1, LenProperties
  <2>2. s \in [1..Len(t[p]) -> Registro]
    BY <2>1
  <2>3. s \in Seq(Registro)
    <3> HIDE DEF s
    <3> QED BY <1>1, <2>2, IsASeq
  <2>4. Len(s) = Len(t[p])
    <3> HIDE DEF s
    <3> QED BY <1>1, <2>2, <2>3, LenProperties
  <2> QED BY <2>1, <2>3, <2>4
<1>3. \A q \in Programas : u[q] = IF q = p THEN s ELSE t[q]
  OBVIOUS
<1>4. u \in [Programas -> Seq(Registro)]
  BY <1>2, <1>3
<1> HIDE DEF s
<1>5. ASSUME NEW q \in Programas
      PROVE  /\ Len(u[q]) = Len(t[q])
             /\ \A k \in 1..Len(t[q]) : u[q][k] = IF q = p /\ k = i THEN fila ELSE t[q][k]
  BY <1>2, <1>3
<1> QED BY <1>4, <1>5

(* The page n of p with its flags at 1, before it has a frame. *)
Llamada(m, p, n) ==
  [m EXCEPT !.tablaPaginas[p][n + 1].flagUso = TRUE,
            !.tablaPaginas[p][n + 1].flagPresencia = TRUE]

LEMMA AlLlamar ==
  ASSUME NEW m, EsMem(m), Coherente(m, Nada), NEW p \in Programas, NEW n \in Nat,
         EsPagina(m, <<p, n>>), ~ Fila(m, <<p, n>>).flagPresencia
  PROVE  LET r == Llamada(m, p, n) IN
         /\ EsMem(r) /\ Coherente(r, <<p, n>>) /\ Fila(r, <<p, n>>).flagPresencia
         /\ MismosBytes(m, r, <<p, n>>)
         /\ \A q \in Programas : Len(r.tablaPaginas[q]) = Len(m.tablaPaginas[q])
         /\ r.programas = m.programas /\ r.marcos = m.marcos /\ r.swap = m.swap
         /\ r.contenidoFrames = m.contenidoFrames /\ r.paginasEnSwap = m.paginasEnSwap
         /\ r.archivoSwap = m.archivoSwap /\ r.caida = m.caida
<1> DEFINE x == <<p, n>>
           i == n + 1
           t == m.tablaPaginas
           f1 == [t[p][i] EXCEPT !.flagUso = TRUE]
           f2 == [f1 EXCEPT !.flagPresencia = TRUE]
           t1 == [t EXCEPT ![p] = [@ EXCEPT ![i] = f1]]
           t2 == [t1 EXCEPT ![p] = [@ EXCEPT ![i] = f2]]
           r == Llamada(m, p, n)
<1>1. x \in Entrada /\ t \in [Programas -> Seq(Registro)] /\ i \in 1..Len(t[p]) /\ t[p][i] \in Registro
      /\ t[p][i] = Fila(m, x) /\ \A q \in Programas : Len(t[q]) \in Nat
  BY Partes DEF Entrada, Fila
<1>2. f1 \in Registro /\ f2 \in Registro /\ f2.nroFrame = t[p][i].nroFrame /\ f2.flagPresencia
  BY <1>1 DEF Registro
<1>3. /\ t1 \in [Programas -> Seq(Registro)]
      /\ \A q \in Programas :
              /\ Len(t1[q]) = Len(t[q])
              /\ \A k \in 1..Len(t[q]) : t1[q][k] = IF q = p /\ k = i THEN f1 ELSE t[q][k]
  <2> HIDE DEF f1, i, t
  <2> QED BY <1>1, <1>2, UnaFila
<1>4. /\ t2 \in [Programas -> Seq(Registro)]
      /\ \A q \in Programas :
              /\ Len(t2[q]) = Len(t[q])
              /\ \A k \in 1..Len(t[q]) : t2[q][k] = IF q = p /\ k = i THEN f2 ELSE t[q][k]
  <2> HIDE DEF f1, f2, i, t, t1
  <2>1. i \in 1..Len(t1[p])
    BY <1>1, <1>3
  <2>2. /\ t2 \in [Programas -> Seq(Registro)]
        /\ \A q \in Programas :
              /\ Len(t2[q]) = Len(t1[q])
              /\ \A k \in 1..Len(t1[q]) : t2[q][k] = IF q = p /\ k = i THEN f2 ELSE t1[q][k]
    BY <1>2, <1>3, <2>1, UnaFila
  <2> QED BY <1>3, <2>2
<1>5. r.tablaPaginas = t2
  <2>1. t1[p][i] = f1
    <3> HIDE DEF f1, i, t, t1
    <3> QED BY <1>1, <1>3
  <2>2. t1 = [t EXCEPT ![p][i].flagUso = TRUE]
    OBVIOUS
  <2>3. t2 = [t1 EXCEPT ![p][i].flagPresencia = TRUE]
    <3> HIDE DEF t1, f1, i
    <3> QED BY <2>1
  <2>4. r.tablaPaginas = [[t EXCEPT ![p][i].flagUso = TRUE] EXCEPT ![p][i].flagPresencia = TRUE]
    BY DEF Llamada, EsMem, Campos
  <2> HIDE DEF t1, t2, r
  <2> QED BY <2>2, <2>3, <2>4
<1>6. /\ EsMem(r) /\ r.tablaPaginas = t2 /\ r.marcos = m.marcos /\ r.programas = m.programas
      /\ r.swap = m.swap /\ r.tablasDePaginas = m.tablasDePaginas
      /\ r.paginasEnSwap = m.paginasEnSwap /\ r.contenidoFrames = m.contenidoFrames
      /\ r.archivoSwap = m.archivoSwap /\ r.caida = m.caida
  <2>1. /\ r.marcos = m.marcos /\ r.programas = m.programas
        /\ r.swap = m.swap /\ r.tablasDePaginas = m.tablasDePaginas
        /\ r.paginasEnSwap = m.paginasEnSwap /\ r.contenidoFrames = m.contenidoFrames
        /\ r.archivoSwap = m.archivoSwap /\ r.caida = m.caida
        /\ r.punteroClock = m.punteroClock /\ DOMAIN r = Campos
    <3> HIDE DEF t1, t2, f1, f2
    <3> QED BY DEF Llamada, EsMem, Campos
  <2> HIDE DEF t1, t2, f1, f2, r
  <2> QED BY <1>4, <1>5, <2>1 DEF EsMem
<1> HIDE DEF t1, t2, f1, f2, r
<1>7. /\ \A e \in Entrada : EsPagina(r, e) <=> EsPagina(m, e)
      /\ Fila(r, x).flagPresencia
      /\ \A e \in Entrada : EsPagina(m, e) =>
           /\ Fila(r, e).nroFrame = Fila(m, e).nroFrame
           /\ e # x => Fila(r, e) = Fila(m, e)
  <2>1. ASSUME NEW e \in Entrada
        PROVE  EsPagina(r, e) <=> EsPagina(m, e)
    BY <1>4, <1>6, Constantes DEF EsPagina
  <2>2. ASSUME NEW e \in Entrada, EsPagina(m, e)
        PROVE  Fila(r, e) = IF e = x THEN f2 ELSE Fila(m, e)
    <3>1. /\ e[1] \in Programas /\ e[2] \in Nat /\ e = <<e[1], e[2]>>
          /\ e[2] + 1 \in 1..Len(t[e[1]])
      BY <2>2, Constantes, Partes
    <3>2. e = x <=> e[1] = p /\ e[2] + 1 = i
      BY <3>1
    <3> HIDE DEF i, x, t
    <3>3. Fila(r, e) = t2[e[1]][e[2] + 1] /\ Fila(m, e) = t[e[1]][e[2] + 1]
      BY <1>6 DEF Fila, t
    <3> QED BY <1>4, <3>1, <3>2, <3>3
  <2>3. EsPagina(m, x)
    OBVIOUS
  <2>4. f2.nroFrame = Fila(m, x).nroFrame
    BY <1>1, <1>2
  <2> HIDE DEF x, t
  <2> QED BY <1>1, <1>2, <2>1, <2>2, <2>3, <2>4
<1>8. \A g \in Frame : m.tablasDePaginas[g] # Nada =>
        m.tablasDePaginas[g] \in Entrada /\ EntradaBien(m, g)
  BY Partes DEF Coherente, EntradasBien
<1>9. EntradasBien(r, x)
  <2> SUFFICES ASSUME NEW g \in Frame, r.tablasDePaginas[g] # Nada
               PROVE  EntradaBien(r, g) /\ r.tablasDePaginas[g] # x
    BY DEF EntradasBien
  <2>1. /\ EntradaBien(m, g) /\ m.tablasDePaginas[g] = r.tablasDePaginas[g]
        /\ m.tablasDePaginas[g] \in Entrada
    BY <1>6, <1>8
  <2>2. m.tablasDePaginas[g] # x
    <3> HIDE DEF x
    <3> QED BY <2>1 DEF EntradaBien, x
  <2> HIDE DEF x
  <2> QED BY <1>7, <2>1, <2>2 DEF EntradaBien
<1> HIDE DEF x
<1>10. PresentesBien(r, x)
  <2> SUFFICES ASSUME NEW e \in Entrada, EsPagina(r, e), Fila(r, e).flagPresencia, e # x
               PROVE  r.tablasDePaginas[Fila(r, e).nroFrame] = e
    BY DEF PresentesBien
  <2> QED BY <1>6, <1>7, Constantes DEF Coherente, PresentesBien
<1>11. MarcosBien(r) /\ ConContenido(r)
  BY <1>6 DEF Coherente, MarcosBien, ConContenido
<1>12. SlotsBien(r, x)
  <2> SUFFICES ASSUME NEW s \in Slot, r.paginasEnSwap[s] # Nada
               PROVE  /\ s \in r.swap /\ EsPagina(r, r.paginasEnSwap[s])
                      /\ Fila(r, r.paginasEnSwap[s]).flagPresencia => r.paginasEnSwap[s] = x
    BY DEF SlotsBien
  <2>1. m.paginasEnSwap[s] \in Entrada /\ m.paginasEnSwap[s] = r.paginasEnSwap[s]
    BY <1>6, Partes
  <2>2. /\ s \in m.swap /\ EsPagina(m, m.paginasEnSwap[s])
        /\ ~ Fila(m, m.paginasEnSwap[s]).flagPresencia
    BY <2>1, Constantes DEF Coherente, SlotsBien
  <2> QED BY <1>6, <1>7, <2>1, <2>2
<1>13. AusentesBien(r)
  <2> SUFFICES ASSUME NEW e \in Entrada, EsPagina(r, e), ~ Fila(r, e).flagPresencia
               PROVE  \E s \in Slot : r.paginasEnSwap[s] = e
    BY DEF AusentesBien
  <2>1. EsPagina(m, e) /\ ~ Fila(m, e).flagPresencia
    BY <1>7
  <2> QED BY <1>6, <2>1 DEF Coherente, AusentesBien
<1>14. SlotsUnicos(r) /\ Listados(r)
  BY <1>6, <1>7 DEF Coherente, SlotsUnicos, Listados
<1>15. Coherente(r, x)
  BY <1>9, <1>10, <1>11, <1>12, <1>13, <1>14 DEF Coherente
<1>16. MismosBytes(m, r, x)
  BY <1>6, <1>7 DEF MismosBytes, ContenidoDe
<1> QED BY <1>4, <1>6, <1>7, <1>15, <1>16 DEF r, x

(* TraerPaginaDeSwap brings page n of p, unless it is page 0.                *)
LEMMA AlTraer ==
  ASSUME NEW m, EsMem(m), Coherente(m, Nada), NEW p \in Programas, NEW n \in Nat,
         EsPagina(m, <<p, n>>), ~ Fila(m, <<p, n>>).flagPresencia
  PROVE  LET r == TraerPaginaDeSwap(m, p, n) IN
         \/ n = 0 /\ r = Caer(m, "nulo")
         \/ /\ n # 0 /\ EsMem(r)
            /\ \A q \in Programas : Len(r.tablaPaginas[q]) = Len(m.tablaPaginas[q])
            /\ Fila(r, <<p, n>>).nroFrame \in Frame
            /\ r.contenidoFrames[Fila(r, <<p, n>>).nroFrame] \in Contenido
            /\ r.contenidoFrames[Fila(r, <<p, n>>).nroFrame] = ContenidoDe(m, <<p, n>>)
            /\ \/ m.swap = Slot /\ r.caida = "swap"
               \/ /\ r.caida = m.caida /\ Coherente(r, Nada) /\ r.programas = m.programas
                  /\ Fila(r, <<p, n>>).flagPresencia /\ MismosBytes(m, r, Nada)
<1> DEFINE x == <<p, n>>
           slots == {s \in Slot : m.paginasEnSwap[s] = <<p, n>>}
           s == Min(slots)
           m1 == Llamada(m, p, n)
           o == TomarFrame(m1)
           b == o.mem
           f == o.frame
           r == TraerPaginaDeSwap(m, p, n)
<1>1. x \in Entrada /\ x[1] = p /\ x[2] = n
  BY DEF Entrada
<1>2. s \in Slot /\ m.paginasEnSwap[s] = x /\ slots # {}
  <2>1. slots # {}
    BY <1>1 DEF Coherente, AusentesBien
  <2>2. slots \subseteq Int /\ IsFiniteSet(slots)
    BY Constantes, FS_Subset
  <2>3. s \in slots
    <3> HIDE DEF slots
    <3> QED BY <2>1, <2>2, MinimoDe
  <2> QED BY <2>1, <2>3
<1>3. CASE n = 0
  BY ZenonT(60), <1>3 DEF TraerPaginaDeSwap
<1>4. CASE n # 0
  <2>1. r = [b EXCEPT !.contenidoFrames[f] = m.archivoSwap[s],
                      !.tablaPaginas[p][n + 1].nroFrame = f,
                      !.marcos = @ \cup {f},
                      !.paginasEnSwap[s] = Nada,
                      !.tablasDePaginas[f] = x]
    <3> HIDE DEF slots
    <3> QED BY ZenonT(60), <1>2, <1>4 DEF TraerPaginaDeSwap, Llamada, slots
  <2> HIDE DEF r, s, slots, o
  <2>2. /\ EsMem(m1) /\ Coherente(m1, x) /\ Fila(m1, x).flagPresencia
        /\ \A q \in Programas : Len(m1.tablaPaginas[q]) = Len(m.tablaPaginas[q])
        /\ m1.programas = m.programas /\ m1.marcos = m.marcos /\ m1.swap = m.swap
        /\ m1.contenidoFrames = m.contenidoFrames /\ m1.paginasEnSwap = m.paginasEnSwap
        /\ m1.archivoSwap = m.archivoSwap /\ m1.caida = m.caida /\ MismosBytes(m, m1, x)
    BY AlLlamar
  <2> HIDE DEF m1
  <2>3. Caido(m1, b, f) \/ Tomado(m1, b, f, x)
    <3> HIDE DEF x
    <3> QED BY <2>2, TomarFrameBien DEF o
  <2>4. PICK c : c = b
    OBVIOUS
  <2>5. PICK g : g = f
    OBVIOUS
  <2> HIDE DEF f
  <2>6. /\ EsMem(c) /\ g \in Frame /\ DOMAIN c = Campos
        /\ \A q \in Programas : Len(c.tablaPaginas[q]) = Len(m.tablaPaginas[q])
    BY <2>2, <2>3, <2>4, <2>5 DEF Caido, Tomado, EsMem, MismasFilas
  <2>7. /\ r.contenidoFrames = [c.contenidoFrames EXCEPT ![g] = m.archivoSwap[s]]
        /\ r.tablaPaginas = [c.tablaPaginas EXCEPT ![p][n + 1].nroFrame = g]
        /\ r.marcos = c.marcos \cup {g} /\ r.paginasEnSwap = [c.paginasEnSwap EXCEPT ![s] = Nada]
        /\ r.tablasDePaginas = [c.tablasDePaginas EXCEPT ![g] = x]
        /\ r.programas = c.programas /\ r.swap = c.swap /\ r.archivoSwap = c.archivoSwap
        /\ r.punteroClock = c.punteroClock /\ r.caida = c.caida
    <3> HIDE DEF x
    <3> QED BY <2>1, <2>4, <2>5, <2>6 DEF Campos
  <2>8. DOMAIN r = Campos
    BY <2>1, <2>4, <2>6
  <2> DEFINE fila == [c.tablaPaginas[p][n + 1] EXCEPT !.nroFrame = g]
  <2>9. /\ n + 1 \in 1..Len(c.tablaPaginas[p]) /\ c.tablaPaginas[p][n + 1] = Fila(c, x)
        /\ fila \in Registro /\ fila.nroFrame = g /\ (fila.flagPresencia <=> Fila(c, x).flagPresencia)
    <3>1. EsPagina(c, x)
      BY <2>6 DEF EsPagina
    <3>2. n + 1 \in 1..Len(c.tablaPaginas[p]) /\ Fila(c, x) \in Registro
      BY <1>1, <2>6, <3>1, Partes
    <3>3. c.tablaPaginas[p][n + 1] = Fila(c, x)
      BY DEF Fila
    <3> HIDE DEF x
    <3> QED BY <2>6, <3>2, <3>3 DEF Registro
  <2>10. /\ r.tablaPaginas \in [Programas -> Seq(Registro)]
         /\ \A q \in Programas :
              /\ Len(r.tablaPaginas[q]) = Len(c.tablaPaginas[q])
              /\ \A k \in 1..Len(c.tablaPaginas[q]) :
                   r.tablaPaginas[q][k] = IF q = p /\ k = n + 1 THEN fila ELSE c.tablaPaginas[q][k]
    <3>1. r.tablaPaginas = [c.tablaPaginas EXCEPT ![p] = [@ EXCEPT ![n + 1] = fila]]
      BY <2>7
    <3>2. c.tablaPaginas \in [Programas -> Seq(Registro)]
      BY <2>6, Partes
    <3> HIDE DEF fila
    <3> QED BY ONLY <2>9, <3>1, <3>2, p \in Programas, UnaFila
  <2> HIDE DEF fila
  <2>11. /\ \A e \in Entrada : EsPagina(r, e) <=> EsPagina(c, e)
         /\ \A e \in Entrada : EsPagina(c, e) => Fila(r, e) = IF e = x THEN fila ELSE Fila(c, e)
         /\ EsPagina(c, x)
    <3>1. ASSUME NEW e \in Entrada PROVE EsPagina(r, e) <=> EsPagina(c, e)
      BY <2>10, Constantes DEF EsPagina
    <3>2. ASSUME NEW e \in Entrada, EsPagina(c, e)
          PROVE  Fila(r, e) = IF e = x THEN fila ELSE Fila(c, e)
      <4>1. /\ e[1] \in Programas /\ e[2] \in Nat /\ e = <<e[1], e[2]>>
            /\ e[2] + 1 \in 1..Len(c.tablaPaginas[e[1]])
        BY <2>6, <3>2, Constantes, Partes
      <4>2. e = x <=> e[1] = p /\ e[2] + 1 = n + 1
        BY <4>1
      <4> HIDE DEF x
      <4> QED BY <2>10, <4>1, <4>2 DEF Fila
    <3>3. EsPagina(c, x)
      BY <2>6 DEF EsPagina
    <3> HIDE DEF x
    <3> QED BY <3>1, <3>2, <3>3
  <2>12. m.archivoSwap[s] \in Contenido
    BY <1>2, Partes
  <2>13. /\ r.contenidoFrames \in [Frame -> Contenido \cup {Nada}]
         /\ r.contenidoFrames[g] = m.archivoSwap[s]
         /\ \A h \in Frame \ {g} : r.contenidoFrames[h] = c.contenidoFrames[h]
         /\ r.tablasDePaginas \in [Frame -> Entrada \cup {Nada}] /\ r.marcos \subseteq Frame
         /\ r.paginasEnSwap \in [Slot -> Entrada \cup {Nada}]
    <3> HIDE DEF x
    <3>1. /\ c.contenidoFrames \in [Frame -> Contenido \cup {Nada}] /\ c.marcos \subseteq Frame
          /\ c.tablasDePaginas \in [Frame -> Entrada \cup {Nada}]
          /\ c.paginasEnSwap \in [Slot -> Entrada \cup {Nada}]
      BY <2>6, Partes
    <3>2. /\ r.contenidoFrames \in [Frame -> Contenido \cup {Nada}]
          /\ r.contenidoFrames[g] = m.archivoSwap[s]
          /\ \A h \in Frame \ {g} : r.contenidoFrames[h] = c.contenidoFrames[h]
      BY <2>6, <2>7, <2>12, <3>1
    <3>3. r.tablasDePaginas \in [Frame -> Entrada \cup {Nada}] /\ r.marcos \subseteq Frame
      BY <1>1, <2>6, <2>7, <3>1
    <3>4. r.paginasEnSwap \in [Slot -> Entrada \cup {Nada}]
      BY <2>7, <3>1
    <3> QED BY <3>2, <3>3, <3>4
  <2>14. EsMem(r)
    BY <2>6, <2>7, <2>8, <2>10, <2>13 DEF EsMem
  <2> HIDE DEF x
  <2>15. Fila(r, x) = fila /\ Fila(r, x).nroFrame = g /\ r.contenidoFrames[g] \in Contenido
    BY SMTT(30), <1>1, <2>9, <2>11, <2>12, <2>13
  <2>18. r.contenidoFrames[g] = ContenidoDe(m, x)
    <3>1. ContenidoDe(m, x) = m.archivoSwap[s]
      BY ZenonT(60) DEF ContenidoDe, x, s, slots
    <3> QED BY <2>13, <3>1
  <2>16. CASE Caido(m1, b, f)
    BY SMTT(30), <1>4, <2>2, <2>4, <2>5, <2>6, <2>7, <2>10, <2>14, <2>15, <2>16, <2>18
       DEF Caido, r, x
  <2>17. CASE Tomado(m1, b, f, x)
    <3>1. /\ Afuera(c, g, x) /\ c.caida = m.caida /\ c.programas = m.programas
          /\ \A t \in Slot : m.paginasEnSwap[t] # Nada => c.paginasEnSwap[t] = m.paginasEnSwap[t]
      BY <2>2, <2>4, <2>5, <2>17 DEF Tomado
    <3>2. Fila(c, x).flagPresencia
      <4>1. PICK v : (v = Nada \/ v # x) /\ MismasFilas(m1, c, v)
        BY <2>4, <2>17 DEF Tomado
      <4>2. EsPagina(m1, x)
        BY <1>1, <2>2, <2>6, <2>11 DEF EsPagina
      <4> QED BY <1>1, <2>2, <4>1, <4>2, Constantes DEF MismasFilas
    <3>3. c.paginasEnSwap[s] = x
      BY <1>1, <1>2, <3>1, Constantes
    <3>4. \A t \in Slot : r.paginasEnSwap[t] = IF c.paginasEnSwap[t] = x THEN Nada ELSE c.paginasEnSwap[t]
      <4>1. \A t \in Slot : c.paginasEnSwap[t] = x => t = s
        BY <1>1, <1>2, <3>1, <3>3, Constantes DEF Afuera, SlotsUnicos
      <4>2. \A t \in Slot : r.paginasEnSwap[t] = IF t = s THEN Nada ELSE c.paginasEnSwap[t]
        BY <2>6, <2>7, Partes
      <4> QED BY <3>3, <4>1, <4>2
    <3>5. x[1] \in c.programas
      BY <1>1, <2>11, <3>1 DEF Afuera, Listados
    <3>6. /\ \A e \in Entrada : EsPagina(r, e) <=> EsPagina(c, e) \/ e = x
          /\ \A e \in Entrada : EsPagina(c, e) /\ e # x => Fila(r, e) = Fila(c, e)
          /\ Fila(r, x).flagPresencia
      BY <2>9, <2>11, <2>15, <3>2
    <3>7. r.contenidoFrames[g] # Nada
      BY <2>15, Constantes
    <3>8. /\ r.programas = c.programas /\ r.marcos = c.marcos \cup {g} /\ r.swap = c.swap
          /\ r.tablasDePaginas = [c.tablasDePaginas EXCEPT ![g] = x]
          /\ r.archivoSwap = c.archivoSwap
      BY <2>7
    <3>9. Coherente(r, Nada) /\ MismosBytes(c, r, x)
      BY <1>1, <2>6, <2>13, <2>14, <2>15, <3>1, <3>4, <3>5, <3>6, <3>7, <3>8, Entrar
    <3>10. /\ r.caida = m.caida /\ r.programas = m.programas /\ Fila(r, x).flagPresencia
           /\ \A q \in Programas : Len(r.tablaPaginas[q]) = Len(m.tablaPaginas[q])
           /\ Fila(r, x).nroFrame \in Frame /\ r.contenidoFrames[Fila(r, x).nroFrame] \in Contenido
      BY <2>6, <2>7, <2>10, <2>15, <3>1, <3>6
    <3>11. MismosBytes(m, r, Nada)
      <4>1. MismosBytes(m1, c, x)
        BY <2>4, <2>17 DEF Tomado
      <4>2. \A e \in Entrada : EsPagina(m, e) => EsPagina(m1, e) /\ EsPagina(c, e)
        BY <2>2, <2>6, Constantes DEF EsPagina
      <4>3. ContenidoDe(r, x) = ContenidoDe(m, x)
        BY <2>15, <2>18, <3>6 DEF ContenidoDe
      <4> QED BY <2>2, <3>9, <4>1, <4>2, <4>3 DEF MismosBytes
    <3> QED BY <1>4, <2>14, <2>15, <2>18, <3>9, <3>10, <3>11 DEF r, x
  <2> QED BY SMTT(30), <2>3, <2>16, <2>17
<1> QED BY <1>3, <1>4

-------------------------------------------------------------------------------
(* Arithmetic of the pages *)

LEMMA Productos ==
  ASSUME NEW i \in Int, NEW j \in Int
  PROVE  /\ i * lengthPagina \in Int
         /\ i < j => i * lengthPagina + lengthPagina <= j * lengthPagina
         /\ i <= j => i * lengthPagina <= j * lengthPagina
         /\ (i + j) * lengthPagina = i * lengthPagina + j * lengthPagina
         /\ (i - j) * lengthPagina = i * lengthPagina - j * lengthPagina
<1>1. lengthPagina \in Nat /\ lengthPagina > 0
  BY Constantes
<1>2. ASSUME i < j PROVE i * lengthPagina + lengthPagina <= j * lengthPagina
  <2>1. (j - i - 1) * lengthPagina >= 0
    BY <1>1, <1>2
  <2>2. j * lengthPagina = i * lengthPagina + lengthPagina + (j - i - 1) * lengthPagina
    BY <1>1
  <2>3. i * lengthPagina \in Int /\ j * lengthPagina \in Int /\ (j - i - 1) * lengthPagina \in Int
    BY <1>1
  <2> QED BY <1>1, <2>1, <2>2, <2>3
<1>3. i * lengthPagina \in Int /\ j * lengthPagina \in Int
  BY <1>1
<1>4. i <= j => i * lengthPagina <= j * lengthPagina
  BY <1>1, <1>2, <1>3
<1>5. /\ (i + j) * lengthPagina = i * lengthPagina + j * lengthPagina
      /\ (i - j) * lengthPagina = i * lengthPagina - j * lengthPagina
  BY <1>1
<1> QED BY <1>2, <1>3, <1>4, <1>5

(* A page and a position within it. *)
LEMMA Division ==
  ASSUME NEW a \in Int
  PROVE  /\ a \div lengthPagina \in Int /\ a % lengthPagina \in 0..(lengthPagina - 1)
         /\ a = (a \div lengthPagina) * lengthPagina + (a % lengthPagina)
<1>1. lengthPagina \in Nat \ {0}
  BY Constantes
<1>2. a \div lengthPagina \in Int /\ a % lengthPagina \in 0..(lengthPagina - 1)
  BY <1>1
<1>3. a = (a \div lengthPagina) * lengthPagina + (a % lengthPagina)
  BY <1>1
<1> QED BY <1>2, <1>3

LEMMA Cociente ==
  ASSUME NEW q \in Int, NEW r \in 0..(lengthPagina - 1)
  PROVE  /\ (q * lengthPagina + r) \div lengthPagina = q
         /\ (q * lengthPagina + r) % lengthPagina = r
<1>1. lengthPagina \in Nat /\ lengthPagina > 0
  BY Constantes
<1>2. q * lengthPagina \in Int
  BY <1>1
<1> DEFINE a == q * lengthPagina + r
           c == a \div lengthPagina
           s == a % lengthPagina
<1>3. a \in Int
  BY <1>1, <1>2
<1>4. c \in Int /\ s \in 0..(lengthPagina - 1) /\ a = c * lengthPagina + s
  BY <1>3, Division
<1> HIDE DEF c, s
<1>5. c * lengthPagina \in Int
  BY <1>4, Productos
<1>6. ~ (c < q)
  <2> SUFFICES ASSUME c < q PROVE FALSE
    OBVIOUS
  <2>1. c * lengthPagina + lengthPagina <= q * lengthPagina
    BY <1>4, Productos
  <2> QED BY <1>1, <1>2, <1>4, <1>5, <2>1
<1>7. ~ (q < c)
  <2> SUFFICES ASSUME q < c PROVE FALSE
    OBVIOUS
  <2>1. q * lengthPagina + lengthPagina <= c * lengthPagina
    BY <1>4, Productos
  <2> QED BY <1>1, <1>2, <1>4, <1>5, <2>1
<1>8. c = q
  BY <1>4, <1>6, <1>7
<1>9. s = r
  BY <1>1, <1>2, <1>4, <1>5, <1>8
<1> QED BY <1>8, <1>9 DEF c, s

(* A position before the end of the page n is in one of the pages up to n.   *)
LEMMA Pagina ==
  ASSUME NEW a \in Int, NEW n \in Int
  PROVE  /\ a < n * lengthPagina => a \div lengthPagina < n
         /\ a >= n * lengthPagina => a \div lengthPagina >= n
<1> DEFINE q == a \div lengthPagina
           r == a % lengthPagina
<1>1. q \in Int /\ r \in 0..(lengthPagina - 1) /\ a = q * lengthPagina + r
  BY Division
<1> HIDE DEF q, r
<1>2. lengthPagina \in Nat /\ q * lengthPagina \in Int /\ n * lengthPagina \in Int
  BY <1>1, Constantes, Productos
<1>3. q >= n => q * lengthPagina >= n * lengthPagina
  BY <1>1, Productos
<1>4. q < n => q * lengthPagina + lengthPagina <= n * lengthPagina
  BY <1>1, Productos
<1> QED BY <1>1, <1>2, <1>3, <1>4 DEF q

LEMMA FramesNecesarios ==
  ASSUME NEW n \in Int
  PROVE  /\ framesNecesariosPorCantidadMemoria(n) \in Int
         /\ n = 0 => framesNecesariosPorCantidadMemoria(n) = 0
         /\ n # 0 /\ 0 - lengthPagina < n /\ n <= lengthPagina =>
              framesNecesariosPorCantidadMemoria(n) = 1
         /\ n > 0 => /\ framesNecesariosPorCantidadMemoria(n) * lengthPagina - n \in 0..(lengthPagina - 1)
                     /\ framesNecesariosPorCantidadMemoria(n) \in Nat
<1> DEFINE q == n \div lengthPagina
           r == n % lengthPagina
<1>1. q \in Int /\ r \in 0..(lengthPagina - 1) /\ n = q * lengthPagina + r
  BY Division
<1>2. framesNecesariosPorCantidadMemoria(n) = q + (IF r = 0 THEN 0 ELSE IF n > 0 THEN 1 ELSE 2)
  BY DEF framesNecesariosPorCantidadMemoria
<1> HIDE DEF q, r
<1>3. lengthPagina \in Nat /\ lengthPagina > 0 /\ q * lengthPagina \in Int
  BY <1>1, Constantes, Productos
<1>4. framesNecesariosPorCantidadMemoria(n) \in Int
  BY <1>1, <1>2
<1>5. /\ q < 0 => q * lengthPagina + lengthPagina <= 0
      /\ q < -1 => q * lengthPagina + lengthPagina <= 0 - lengthPagina
      /\ 0 < q => lengthPagina <= q * lengthPagina
      /\ 1 < q => lengthPagina + lengthPagina <= q * lengthPagina
      /\ (q + 1) * lengthPagina = q * lengthPagina + lengthPagina
  <2>1. 0 * lengthPagina = 0 /\ 1 * lengthPagina = lengthPagina /\ (-1) * lengthPagina = 0 - lengthPagina
    BY <1>3
  <2>2. q < 0 => q * lengthPagina + lengthPagina <= 0 * lengthPagina
    BY <1>1, Productos
  <2>3. q < -1 => q * lengthPagina + lengthPagina <= (-1) * lengthPagina
    BY <1>1, Productos
  <2>4. 0 < q => 0 * lengthPagina + lengthPagina <= q * lengthPagina
    BY <1>1, Productos
  <2>5. 1 < q => 1 * lengthPagina + lengthPagina <= q * lengthPagina
    BY <1>1, Productos
  <2>6. (q + 1) * lengthPagina = q * lengthPagina + lengthPagina
    BY <1>1, <1>3
  <2> QED BY <1>3, <2>1, <2>2, <2>3, <2>4, <2>5, <2>6
<1>6. n = 0 => framesNecesariosPorCantidadMemoria(n) = 0
  <2> SUFFICES ASSUME n = 0 PROVE q = 0 /\ r = 0
    BY <1>2
  <2>1. ~ (q < 0) /\ ~ (0 < q)
    BY <1>1, <1>3, <1>5
  <2>2. q = 0
    BY <1>1, <2>1
  <2>3. 0 * lengthPagina = 0
    BY <1>3
  <2> QED BY <1>1, <2>2, <2>3
<1>7. ASSUME n # 0, 0 - lengthPagina < n, n <= lengthPagina
      PROVE  framesNecesariosPorCantidadMemoria(n) = 1
  <2>1. ~ (q < -1) /\ ~ (1 < q)
    BY <1>1, <1>3, <1>5, <1>7
  <2>2. q \in {-1, 0, 1}
    BY <1>1, <2>1
  <2>3. 0 * lengthPagina = 0 /\ 1 * lengthPagina = lengthPagina /\ (-1) * lengthPagina = 0 - lengthPagina
    BY <1>3
  <2>4. CASE q = -1
    BY <1>1, <1>2, <1>3, <1>7, <2>3, <2>4
  <2>5. CASE q = 0
    BY <1>1, <1>2, <1>3, <1>7, <2>3, <2>5
  <2>6. CASE q = 1
    BY <1>1, <1>2, <1>3, <1>7, <2>3, <2>6
  <2> QED BY <2>2, <2>4, <2>5, <2>6
<1>8. ASSUME n > 0
      PROVE  /\ framesNecesariosPorCantidadMemoria(n) * lengthPagina - n \in 0..(lengthPagina - 1)
             /\ framesNecesariosPorCantidadMemoria(n) \in Nat
  <2>1. ~ (q < 0)
    BY <1>1, <1>3, <1>5, <1>8
  <2>2. q \in Nat
    BY <1>1, <2>1
  <2>3. CASE r = 0
    <3>1. framesNecesariosPorCantidadMemoria(n) = q
      BY <1>1, <1>2, <2>3
    <3> QED BY <1>1, <1>3, <2>2, <2>3, <3>1
  <2>4. CASE r # 0
    <3>1. framesNecesariosPorCantidadMemoria(n) = q + 1
      BY <1>1, <1>2, <1>8, <2>4
    <3> QED BY <1>1, <1>3, <1>5, <2>2, <2>4, <3>1
  <2> QED BY <2>3, <2>4
<1> QED BY <1>4, <1>6, <1>7, <1>8

(* modificarPresencia finds no whole page inside a chunk that is not longer  *)
(* than a page.                                                              *)
LEMMA SinPaginasDentro ==
  ASSUME NEW m, EsMem(m), NEW p \in Programas, NEW dir \in Nat \ {0}, NEW tam \in 1..lengthPagina
  PROVE  LET r == cambiarFramesPorHeap(m, p, dir, tam) IN
         /\ EsMem(r) /\ r.programas = m.programas /\ r.tablaPaginas = m.tablaPaginas
         /\ r.marcos = m.marcos /\ r.tablasDePaginas = m.tablasDePaginas
         /\ r.contenidoFrames = m.contenidoFrames /\ r.swap = m.swap
         /\ r.paginasEnSwap = m.paginasEnSwap /\ r.archivoSwap = m.archivoSwap
         /\ r.caida = m.caida
<1> DEFINE offset == dir % lengthPagina
           resto == IF offset = 0 THEN tam ELSE tam - (lengthPagina - offset)
           primera == (dir \div lengthPagina) + (IF offset = 0 THEN 0 ELSE 1)
           hasta == framesNecesariosPorCantidadMemoria(resto)
                 - (IF offset # 0 /\ resto % lengthPagina # 0 THEN 1 ELSE 0)
           tabla == m.tablaPaginas[p]
           frames == {tabla[n + 1].nroFrame : n \in primera..(hasta - 1)}
           r == cambiarFramesPorHeap(m, p, dir, tam)
<1>1. lengthPagina \in Nat /\ lengthPagina > 0
  BY Constantes
<1>2. /\ dir \div lengthPagina \in Int /\ offset \in 0..(lengthPagina - 1)
      /\ dir = (dir \div lengthPagina) * lengthPagina + offset
  BY Division
<1>3. primera \in Int /\ primera >= 1
  <2>1. dir >= 0 * lengthPagina
    BY <1>1
  <2>2. dir \div lengthPagina >= 0
    BY <2>1, Pagina
  <2>3. CASE offset = 0
    <3>1. dir \div lengthPagina # 0
      BY <1>1, <1>2, <2>3
    <3> QED BY <1>2, <2>2, <2>3, <3>1
  <2>4. CASE offset # 0
    BY <1>2, <2>2, <2>4
  <2> QED BY <2>3, <2>4
<1>4. hasta \in Int /\ hasta <= 1
  <2>1. resto \in Int /\ 0 - lengthPagina < resto /\ resto <= lengthPagina
    BY <1>1, <1>2
  <2>2. /\ framesNecesariosPorCantidadMemoria(resto) \in Int
        /\ framesNecesariosPorCantidadMemoria(resto) <= 1
    <3> HIDE DEF resto
    <3> QED BY <2>1, FramesNecesarios
  <2> HIDE DEF resto, offset
  <2> QED BY <2>2
<1> HIDE DEF primera, hasta
<1>5. primera..(hasta - 1) = {}
  BY <1>3, <1>4
<1>6. frames = {}
  BY <1>5
<1>7. r = [m EXCEPT
        !.tablaPaginas[p] = [i \in 1..Len(tabla) |->
           [tabla[i] EXCEPT !.flagPresencia = @ \/ i - 1 \in primera..(hasta - 1)]],
        !.marcos = @ \cup frames,
        !.tablasDePaginas = [f \in Frame |-> IF f \in frames THEN Nada ELSE @[f]]]
  BY DEF cambiarFramesPorHeap, primera, hasta
<1> HIDE DEF r, frames
<1>8. [i \in 1..Len(tabla) |->
           [tabla[i] EXCEPT !.flagPresencia = @ \/ i - 1 \in primera..(hasta - 1)]] = tabla
  <2>1. tabla \in Seq(Registro)
    BY Partes
  <2> HIDE DEF tabla
  <2>2. tabla = [i \in 1..Len(tabla) |-> tabla[i]] /\ \A i \in 1..Len(tabla) : tabla[i] \in Registro
    BY <2>1, LenProperties
  <2>3. ASSUME NEW i \in 1..Len(tabla)
        PROVE  [tabla[i] EXCEPT !.flagPresencia = @ \/ i - 1 \in primera..(hasta - 1)] = tabla[i]
    <3>1. tabla[i] \in Registro /\ i - 1 \notin primera..(hasta - 1)
      BY <1>5, <2>2
    <3> QED BY <3>1 DEF Registro
  <2> QED BY <2>2, <2>3
<1>9. /\ r.tablaPaginas = [m.tablaPaginas EXCEPT ![p] = tabla] /\ r.marcos = m.marcos
      /\ r.tablasDePaginas = [f \in Frame |-> m.tablasDePaginas[f]]
  BY <1>6, <1>7, <1>8 DEF EsMem, Campos
<1>10. /\ r.programas = m.programas /\ r.contenidoFrames = m.contenidoFrames /\ r.swap = m.swap
       /\ r.paginasEnSwap = m.paginasEnSwap /\ r.archivoSwap = m.archivoSwap
       /\ r.punteroClock = m.punteroClock /\ r.caida = m.caida /\ DOMAIN r = Campos
  BY <1>7 DEF EsMem, Campos
<1>11. r.tablaPaginas = m.tablaPaginas /\ r.tablasDePaginas = m.tablasDePaginas
  BY <1>9, Partes
<1>12. EsMem(r)
  BY <1>9, <1>10, <1>11 DEF EsMem
<1> QED BY <1>9, <1>10, <1>11, <1>12 DEF r

-------------------------------------------------------------------------------
(* Chunks *)

(* Suma adds one chunk after another. *)
LEMMA Sumas ==
  ASSUME NEW h \in Seq(TChunk), NEW S
  PROVE  \E c : /\ c[0] = 0 /\ Suma(h, S) = c[Len(h)]
                /\ \A k \in 0..Len(h) : c[k] \in Nat
                /\ \A k \in 1..Len(h) : c[k] = c[k - 1] + (IF k \in S THEN Ocupa(h[k]) ELSE 0)
<1> DEFINE n == Len(h)
           Mas(k) == IF k \in S THEN Ocupa(h[k]) ELSE 0
           Acumula(f) == f = [i \in 0..n |-> IF i = 0 THEN 0 ELSE f[i - 1] + Mas(i)]
           F == [x \in (1..n) \X Nat |-> x[2] + Mas(x[1])]
<1>1. n \in Nat /\ \A k \in 1..n : h[k] \in TChunk
  BY LenProperties, ElementOfSeq
<1>2. \A k \in 1..n : Mas(k) \in Nat
  BY <1>1, Constantes DEF Ocupa, TChunk
<1>3. Suma(h, S) = (CHOOSE g : Acumula(g))[n]
  BY DEF Suma
<1> HIDE DEF Mas, n
<1>4. F \in [(1..n) \X Nat -> Nat]
  BY <1>2
<1>5. \E f : Recorre(f, n, Nat, 0, F)
  <2>1. 0 \in Nat /\ EsPaso(F, n, Nat)
    BY <1>4 DEF EsPaso
  <2> HIDE DEF F
  <2> QED BY <1>1, <2>1, Recursion
<1>6. PICK f : f \in [0..n -> Nat] /\ f[0] = 0 /\ \A k \in 1..n : f[k] = F[<<k, f[k - 1]>>]
  <2> HIDE DEF F
  <2> QED BY <1>5 DEF Recorre
<1>7. Acumula(f)
  <2>1. ASSUME NEW k \in 0..n PROVE f[k] = IF k = 0 THEN 0 ELSE f[k - 1] + Mas(k)
    <3>1. CASE k = 0
      BY <1>6, <3>1
    <3>2. CASE k # 0
      <4>1. k \in 1..n /\ k - 1 \in 0..n
        BY <1>1, <3>2
      <4>2. f[k - 1] \in Nat /\ f[k] = F[<<k, f[k - 1]>>]
        BY <1>6, <4>1
      <4> QED BY <3>2, <4>1, <4>2
    <3> QED BY <3>1, <3>2
  <2>2. f = [k \in 0..n |-> f[k]]
    BY <1>6
  <2> QED BY <2>1, <2>2
<1>8. PICK c : c = (CHOOSE g : Acumula(g))
  OBVIOUS
<1>9. Acumula(c)
  BY <1>7, <1>8
<1>10. c[0] = 0 /\ \A k \in 1..n : c[k] = c[k - 1] + Mas(k)
  <2>1. \A k \in 0..n : c[k] = IF k = 0 THEN 0 ELSE c[k - 1] + Mas(k)
    BY <1>9
  <2> QED BY <1>1, <2>1
<1>11. \A k \in 0..n : c[k] \in Nat
  <2> DEFINE P == {k \in 0..n : c[k] \in Nat}
  <2>1. 0 \in P
    BY <1>1, <1>10
  <2>2. \A k \in 1..n : k - 1 \in P => k \in P
    BY <1>1, <1>2, <1>10
  <2> HIDE DEF P
  <2>3. 0..n \subseteq P
    BY <1>1, <2>1, <2>2, Induccion
  <2> QED BY <2>3 DEF P
<1>12. Suma(h, S) = c[n]
  <2> HIDE DEF Acumula
  <2> QED BY <1>3, <1>8
<1> QED BY <1>10, <1>11, <1>12 DEF n, Mas

LEMMA SumaTipo ==
  ASSUME NEW h \in Seq(TChunk)
  PROVE  /\ \A S : Suma(h, S) \in Nat
         /\ \A i : Direccion(h, i) \in Nat \ {0}
<1>1. ASSUME NEW S PROVE Suma(h, S) \in Nat
  <2>1. PICK c : Suma(h, S) = c[Len(h)] /\ \A k \in 0..Len(h) : c[k] \in Nat
    BY Sumas
  <2>2. Len(h) \in 0..Len(h)
    BY LenProperties
  <2> QED BY <2>1, <2>2
<1>2. ASSUME NEW i PROVE Direccion(h, i) \in Nat \ {0}
  <2>1. Suma(h, 1..(i - 1)) \in Nat
    BY <1>1
  <2> QED BY <2>1, Constantes DEF Direccion
<1> QED BY <1>1, <1>2

(* A sequence with one element changed, and one more at its end.             *)
LEMMA Cambiado ==
  ASSUME NEW h \in Seq(TChunk), NEW i \in 1..Len(h), NEW c \in TChunk
  PROVE  /\ [h EXCEPT ![i] = c] \in Seq(TChunk) /\ Len([h EXCEPT ![i] = c]) = Len(h)
         /\ \A j \in 1..Len(h) : [h EXCEPT ![i] = c][j] = IF j = i THEN c ELSE h[j]
<1> DEFINE s == [h EXCEPT ![i] = c]
<1>1. h \in [1..Len(h) -> TChunk] /\ Len(h) \in Nat
  BY LenProperties
<1>2. s \in [1..Len(h) -> TChunk]
  BY <1>1
<1>3. s \in Seq(TChunk)
  <2> HIDE DEF s
  <2> QED BY <1>1, <1>2, IsASeq
<1>4. Len(s) = Len(h)
  <2> HIDE DEF s
  <2> QED BY <1>1, <1>2, <1>3, LenProperties
<1> QED BY <1>1, <1>3, <1>4

LEMMA ChunkTipo ==
  ASSUME NEW n \in Nat, NEW b \in BOOLEAN
  PROVE  Chunk(n, b) \in TChunk /\ Chunk(n, b).t_size = n /\ Chunk(n, b).isFree = b
BY DEF Chunk, TChunk

LEMMA CambiadoEn ==
  ASSUME NEW h \in Seq(TChunk), NEW i \in 1..Len(h), NEW c \in TChunk,
         NEW v, v = [h EXCEPT ![i] = c]
  PROVE  /\ v \in Seq(TChunk) /\ Len(v) = Len(h) /\ v[i] = c
         /\ \A j \in 1..Len(h) : j # i => v[j] = h[j]
BY Cambiado

(* v is s without its element k. *)
SinUno(v, s, k) ==
  /\ Len(v) = Len(s) - 1
  /\ \A i \in 1..(Len(s) - 1) : v[i] = IF i < k THEN s[i] ELSE s[i + 1]

LEMMA Quitado ==
  ASSUME NEW S, NEW s \in Seq(S), NEW k \in 1..Len(s)
  PROVE  SinUno(RemoveAt(s, k), s, k)
BY Quitar DEF RemoveAt, SinUno

LEMMA Ocupado ==
  ASSUME NEW n \in Nat
  PROVE  /\ \E c \in TChunk : c = Chunk(n, FALSE)
         /\ \E c \in TChunk : c = Chunk(n, TRUE)
BY ChunkTipo

(* The types of what the operators on chunks return.                         *)
LEMMA EnHeapLibre ==
  ASSUME NEW h \in Seq(TChunk), NEW tam \in Nat \ {0}, Elegibles(h, tam) # {}, tamanio_heap <= 6
  PROVE  LET r == allocarEnHeapLibre(h, tam) IN
         /\ r.heaps \in Seq(TChunk) /\ r.dir \in Nat \ {0} /\ r.paginas = 0
         /\ \E i \in Elegibles(h, tam) :
              /\ r.dir = Direccion(h, i)
              /\ r.heaps = LET cortado == [h EXCEPT ![i] = Chunk(tam, FALSE)]
                               hueco == h[i].t_size - tam
                           IN IF hueco > 5
                              THEN Append(cortado, Chunk(hueco - tamanio_heap, TRUE))
                              ELSE cortado
<1> DEFINE i == Min(Elegibles(h, tam))
           hueco == h[i].t_size - tam
           cortado == [h EXCEPT ![i] = Chunk(tam, FALSE)]
<1>1. Len(h) \in Nat /\ \A k \in 1..Len(h) : h[k] \in TChunk
  BY LenProperties, ElementOfSeq
<1>2. i \in Elegibles(h, tam)
  <2>1. IsFiniteSet(1..Len(h)) /\ 1..Len(h) \subseteq Int /\ Elegibles(h, tam) \subseteq 1..Len(h)
    BY <1>1, FS_Interval DEF Elegibles
  <2>2. IsFiniteSet(Elegibles(h, tam)) /\ Elegibles(h, tam) \subseteq Int
    BY <2>1, FS_Subset
  <2> QED BY <2>2, MinimoDe
<1> HIDE DEF i
<1>3. i \in 1..Len(h) /\ h[i].t_size \in Nat /\ h[i].t_size >= tam
  BY <1>1, <1>2 DEF Elegibles, TChunk
<1>4. cortado \in Seq(TChunk)
  BY <1>3, ChunkTipo, Cambiado
<1>5. /\ allocarEnHeapLibre(h, tam).heaps = IF hueco > 5 THEN Append(cortado, Chunk(hueco - tamanio_heap, TRUE))
                                            ELSE cortado
      /\ allocarEnHeapLibre(h, tam).dir = Direccion(h, i)
      /\ allocarEnHeapLibre(h, tam).paginas = 0
  BY DEF allocarEnHeapLibre, i
<1>6. CASE hueco > 5
  <2>1. Chunk(hueco - tamanio_heap, TRUE) \in TChunk
    <3>1. hueco - tamanio_heap \in Nat
      BY <1>3, <1>6, Constantes
    <3> QED BY <3>1, ChunkTipo
  <2> HIDE DEF cortado, hueco
  <2>2. Append(cortado, Chunk(hueco - tamanio_heap, TRUE)) \in Seq(TChunk)
    BY <1>4, <2>1, AppendProperties
  <2> QED BY <1>2, <1>5, <1>6, <2>2, SumaTipo DEF cortado, hueco
<1>7. CASE ~ (hueco > 5)
  BY <1>2, <1>4, <1>5, <1>7, SumaTipo
<1> QED BY <1>6, <1>7

LEMMA HeapNuevo ==
  ASSUME NEW h \in Seq(TChunk), NEW cant \in Nat, NEW tam \in Nat \ {0},
         Elegibles(h, tam) = {}, tamanio_heap <= 6
  PROVE  LET r == allocarHeapNuevo(h, cant, tam) IN
         /\ r.heaps \in Seq(TChunk) /\ r.dir \in Nat \ {0} /\ r.paginas \in Int
<1> DEFINE hueco == huecoUltimaPagina(h, cant)
           crece == h # <<>> /\ h[Len(h)].isFree
           n == IF crece THEN tam - h[Len(h)].t_size ELSE tam
           base == IF crece THEN Front(h) ELSE h
           nuevo == Append(base, Chunk(n, FALSE))
           bytesNecesarios == n + tamanio_heap - hueco
           paginas == framesNecesariosPorCantidadMemoria(bytesNecesarios)
           huecoLibre == paginas * lengthPagina - bytesNecesarios
           s == Suma(h, {i \in 1..Len(h) : ~ h[i].isFree})
<1>1. Len(h) \in Nat /\ \A k \in 1..Len(h) : h[k] \in TChunk
  BY LenProperties, ElementOfSeq
<1>2. n \in Nat
  <2>1. CASE crece
    <3>1. Len(h) \in 1..Len(h)
      BY <1>1, <2>1, EmptySeq
    <3>2. Len(h) \notin Elegibles(h, tam) /\ h[Len(h)].t_size \in Nat
      BY <1>1, <3>1 DEF TChunk
    <3>3. ~ (h[Len(h)].t_size >= tam)
      BY <2>1, <3>1, <3>2 DEF Elegibles
    <3> QED BY <2>1, <3>2, <3>3
  <2>2. CASE ~ crece
    BY <2>2
  <2> QED BY <2>1, <2>2
<1>3. base \in Seq(TChunk)
  <2>1. CASE crece
    <3>1. \A k \in 1..(Len(h) - 1) : h[k] \in TChunk
      BY <1>1
    <3>2. SubSeq(h, 1, Len(h) - 1) \in Seq(TChunk)
      BY <1>1, <3>1, SubSeqProperties
    <3> QED BY <2>1, <3>2 DEF Front
  <2>2. CASE ~ crece
    BY <2>2
  <2> QED BY <2>1, <2>2
<1>4. s \in Nat
  BY SumaTipo
<1>5. hueco = cant * lengthPagina - s
  BY DEF huecoUltimaPagina
<1>6. cant * lengthPagina \in Int
  BY Productos
<1>7. /\ allocarHeapNuevo(h, cant, tam).heaps =
           IF huecoLibre > 5 THEN Append(nuevo, Chunk(huecoLibre - tamanio_heap, TRUE)) ELSE nuevo
      /\ allocarHeapNuevo(h, cant, tam).dir = cant * lengthPagina + tamanio_heap - hueco
      /\ allocarHeapNuevo(h, cant, tam).paginas = paginas
  BY DEF allocarHeapNuevo
<1> HIDE DEF hueco, n, base, s
<1>8. nuevo \in Seq(TChunk)
  BY <1>2, <1>3, ChunkTipo, AppendProperties
<1>9. hueco \in Int /\ bytesNecesarios \in Int
  BY SMTT(30), <1>2, <1>4, <1>5, <1>6, Constantes
<1> HIDE DEF nuevo, bytesNecesarios
<1>10. paginas \in Int /\ huecoLibre \in Int
  BY <1>9, FramesNecesarios, Constantes
<1>11. cant * lengthPagina + tamanio_heap - hueco \in Nat \ {0}
  <2>1. PICK x \in Int : x = cant * lengthPagina
    BY <1>6
  <2>2. x + tamanio_heap - hueco = tamanio_heap + s
    BY <1>4, <1>5, <2>1, Constantes
  <2>3. tamanio_heap + s \in Nat \ {0}
    BY <1>4, Constantes
  <2> QED BY <2>1, <2>2, <2>3
<1> HIDE DEF paginas, huecoLibre
<1>12. CASE huecoLibre > 5
  <2>1. huecoLibre - tamanio_heap \in Nat
    BY <1>10, <1>12, Constantes
  <2>2. Append(nuevo, Chunk(huecoLibre - tamanio_heap, TRUE)) \in Seq(TChunk)
    BY <1>8, <2>1, ChunkTipo, AppendProperties
  <2> QED BY <1>7, <1>10, <1>11, <1>12, <2>2
<1>13. CASE ~ (huecoLibre > 5)
  <2>1. allocarHeapNuevo(h, cant, tam).heaps = nuevo
    BY <1>7, <1>13
  <2> QED BY <1>7, <1>8, <1>10, <1>11, <2>1
<1> QED BY <1>12, <1>13

LEMMA Compactado ==
  ASSUME NEW h \in Seq(TChunk), NEW i \in 1..Len(h)
  PROVE  verificarCompactacionFree(h, i).heaps \in Seq(TChunk)
<1> DEFINE anterior == i > 1 /\ h[i - 1].isFree
           posterior == i < Len(h) /\ h[i + 1].isFree
           tam == h[i].t_size + (IF anterior THEN Ocupa(h[i - 1]) ELSE 0)
                         + (IF posterior THEN Ocupa(h[i + 1]) ELSE 0)
           unido == [h EXCEPT ![i] = Chunk(tam, TRUE)]
           sinAnterior == IF anterior THEN RemoveAt(unido, i - 1) ELSE unido
<1>1. Len(h) \in Nat /\ \A k \in 1..Len(h) : h[k] \in TChunk
  BY LenProperties, ElementOfSeq
<1>2. tam \in Nat
  <2>1. \A k \in 1..Len(h) : Ocupa(h[k]) \in Nat /\ h[k].t_size \in Nat
    BY SMTT(30), <1>1, Constantes DEF Ocupa, TChunk
  <2>2. anterior => i - 1 \in 1..Len(h)
    BY <1>1
  <2>3. posterior => i + 1 \in 1..Len(h)
    BY <1>1
  <2> QED BY SMTT(30), <2>1, <2>2, <2>3
<1> HIDE DEF tam
<1>3. unido \in Seq(TChunk) /\ Len(unido) = Len(h)
  <2>1. Chunk(tam, TRUE) \in TChunk
    BY <1>2, ChunkTipo
  <2> QED BY <2>1, Cambiado
<1>4. ASSUME NEW s \in Seq(TChunk), NEW k \in 1..Len(s) PROVE RemoveAt(s, k) \in Seq(TChunk)
  BY Quitar DEF RemoveAt
<1> HIDE DEF unido
<1>5. sinAnterior \in Seq(TChunk)
  BY <1>1, <1>3, <1>4
<1>6. verificarCompactacionFree(h, i).heaps =
        IF posterior /\ i + 1 <= Len(sinAnterior) THEN RemoveAt(sinAnterior, i + 1) ELSE sinAnterior
  BY DEF verificarCompactacionFree, unido, tam, Chunk
<1> HIDE DEF sinAnterior
<1>7. posterior /\ i + 1 <= Len(sinAnterior) => i + 1 \in 1..Len(sinAnterior)
  <2>1. Len(sinAnterior) \in Nat
    BY <1>5, LenProperties
  <2> QED BY <1>1, <2>1
<1> HIDE DEF posterior
<1> QED BY <1>4, <1>5, <1>6, <1>7

-------------------------------------------------------------------------------
(* Steps *)

(* The same memory, but for caida and the programs it lists. *)
MismaMemoria(m, r) ==
  /\ m.programas \subseteq r.programas /\ r.tablaPaginas = m.tablaPaginas
  /\ r.marcos = m.marcos /\ r.tablasDePaginas = m.tablasDePaginas
  /\ r.contenidoFrames = m.contenidoFrames /\ r.swap = m.swap
  /\ r.paginasEnSwap = m.paginasEnSwap /\ r.archivoSwap = m.archivoSwap

LEMMA Parecidas ==
  ASSUME NEW m, NEW r, NEW x, Coherente(m, x),
         m.programas \subseteq r.programas, r.tablaPaginas = m.tablaPaginas,
         r.marcos = m.marcos, r.tablasDePaginas = m.tablasDePaginas, r.swap = m.swap,
         r.paginasEnSwap = m.paginasEnSwap,
         \A f \in m.marcos : m.contenidoFrames[f] # Nada => r.contenidoFrames[f] # Nada
  PROVE  Coherente(r, x)
<1>1. /\ \A e : EsPagina(r, e) <=> EsPagina(m, e)
      /\ \A e : Fila(r, e) = Fila(m, e)
      /\ \A g : EntradaBien(r, g) <=> EntradaBien(m, g)
  BY DEF EsPagina, Fila, EntradaBien
<1>2. EntradasBien(r, x) /\ PresentesBien(r, x)
  BY <1>1 DEF Coherente, EntradasBien, PresentesBien
<1>3. MarcosBien(r) /\ ConContenido(r)
  BY DEF Coherente, MarcosBien, ConContenido
<1>4. SlotsBien(r, x) /\ AusentesBien(r) /\ SlotsUnicos(r) /\ Listados(r)
  BY <1>1 DEF Coherente, SlotsBien, AusentesBien, SlotsUnicos, Listados
<1> QED BY <1>2, <1>3, <1>4 DEF Coherente

(* Efecto: the memory that comes out, or the one there was and how it fell.  *)
LEMMA Efectos ==
  ASSUME NEW m, EsMem(mem), mem.caida = "no", Efecto(m), m.caida \in {"no", "swap", "nulo"},
         m.caida = "no" => EsMem(m)
  PROVE  /\ EsMem(mem') /\ mem'.caida = m.caida
         /\ m.caida = "no" => mem' = m
         /\ m.caida # "no" => /\ MismaMemoria(mem, mem') /\ mem'.programas = mem.programas
                              /\ mem'.archivoSwap = mem.archivoSwap
                              /\ mem'.punteroClock = mem.punteroClock
<1>1. CASE m.caida = "no"
  BY <1>1 DEF Efecto
<1>2. CASE m.caida # "no"
  <2>1. mem' = [mem EXCEPT !.caida = m.caida]
    BY <1>2 DEF Efecto, Caer
  <2>2. /\ mem'.programas = mem.programas /\ mem'.tablaPaginas = mem.tablaPaginas
        /\ mem'.marcos = mem.marcos /\ mem'.tablasDePaginas = mem.tablasDePaginas
        /\ mem'.contenidoFrames = mem.contenidoFrames /\ mem'.swap = mem.swap
        /\ mem'.paginasEnSwap = mem.paginasEnSwap /\ mem'.archivoSwap = mem.archivoSwap
        /\ mem'.punteroClock = mem.punteroClock /\ mem'.caida = m.caida /\ DOMAIN mem' = Campos
    BY <2>1 DEF EsMem, Campos
  <2> QED BY <1>2, <2>2 DEF EsMem, MismaMemoria
<1> QED BY <1>1, <1>2

(* A step of one program leaves what the invariant says of the others.       *)
LEMMA Conserva ==
  ASSUME InvTablas, NEW p \in Programas, TiposMuse', Semaforo', mem.caida = "no",
         \A q \in Programas \ {p} :
           /\ pc'[q] = pc[q] /\ local'[q] = local[q] /\ limiteLogico'[q] = limiteLogico[q]
           /\ Len(mem'.tablaPaginas[q]) = Len(mem.tablaPaginas[q]),
         mem.programas \ {p} \subseteq mem'.programas,
         DePrograma(p)', mem'.caida = "no" => EnCurso(p)',
         Terminando' \/ Coherente(mem', Nada), Vigentes'
  PROVE  InvTablas'
<1>1. \A q \in Programas \ {p} : DePrograma(q)'
  BY DEF InvTablas, DePrograma
<1>2. \A q \in Programas \ {p} : EnCurso(q)'
  BY DEF InvTablas, EnCurso
<1>3. \A q \in Programas : DePrograma(q)'
  BY <1>1
<1>4. mem'.caida = "no" => \A q \in Programas : EnCurso(q)'
  BY <1>2
<1>5. (Terminando \/ Coherente(mem, Nada))'
  OBVIOUS
<1> QED BY <1>3, <1>4, <1>5 DEF InvTablas

(* While nobody closes, the entries of the frames are of programs that have  *)
(* not closed.                                                               *)
LEMMA SonVigentes ==
  ASSUME EsMem(mem'), Coherente(mem', Nada), ~ Terminando'
  PROVE  Vigentes'
<1> SUFFICES ASSUME NEW f \in Frame, mem'.tablasDePaginas[f] # Nada
             PROVE  LET e == mem'.tablasDePaginas[f] IN
                    /\ EntradaBien(mem', f)
                    /\ pc'[e[1]] # "cerrado"
                    /\ pc'[e[1]] = "cerrando" => e[2] >= local'[e[1]].pagina
  BY DEF Vigentes
<1>1. EntradaBien(mem', f)
  BY DEF Coherente, EntradasBien
<1>2. mem'.tablasDePaginas[f][1] \in Programas
  BY <1>1, Constantes DEF EntradaBien, EsPagina
<1> QED BY <1>1, <1>2 DEF Terminando

(* Each action keeps InvTablas.  The lemmas Efecto... say what the longer    *)
(* actions change.                                                           *)
LEMMA PasoInicializar ==
  ASSUME Hipotesis, InvTablas, NEW p \in Programas, InicializarNuevoPrograma(p)
  PROVE  InvTablas'
<1>1. /\ mem.caida = "no" /\ pc[p] = "fuera" /\ ~ Terminando
      /\ mem' = [mem EXCEPT !.programas = @ \cup {p}]
      /\ pc' = [pc EXCEPT ![p] = "libre"]
      /\ UNCHANGED <<heaps, limiteLogico, g_mutexPaginas, local, vivas>>
  BY DEF InicializarNuevoPrograma, Hipotesis, Ir
<1>2. TiposMuse /\ Semaforo /\ Coherente(mem, Nada) /\ DePrograma(p)
  BY <1>1 DEF InvTablas
<1>3. /\ mem'.programas = mem.programas \cup {p} /\ mem'.tablaPaginas = mem.tablaPaginas
      /\ mem'.marcos = mem.marcos /\ mem'.tablasDePaginas = mem.tablasDePaginas
      /\ mem'.contenidoFrames = mem.contenidoFrames /\ mem'.swap = mem.swap
      /\ mem'.paginasEnSwap = mem.paginasEnSwap /\ EsMem(mem')
  BY <1>1, <1>2 DEF TiposMuse, EsMem, Campos
<1>4. \A q \in Programas : pc'[q] = IF q = p THEN "libre" ELSE pc[q]
  BY <1>1, <1>2 DEF TiposMuse
<1>5. TiposMuse'
  BY <1>1, <1>2, <1>3 DEF TiposMuse, Donde
<1>6. ~ Terminando' /\ Semaforo'
  BY <1>1, <1>2, <1>4 DEF Terminando, Semaforo, Trabajo
<1>7. Coherente(mem', Nada)
  BY <1>2, <1>3, Parecidas
<1>8. Vigentes'
  BY <1>3, <1>6, <1>7, SonVigentes
<1>9. DePrograma(p)' /\ EnCurso(p)'
  BY <1>1, <1>2, <1>3, <1>4 DEF DePrograma, EnCurso
<1> QED BY <1>1, <1>3, <1>4, <1>5, <1>6, <1>7, <1>8, <1>9, Conserva

LEMMA Inicial ==
  EsLocal(LocalInicial) /\ LocalInicial.pagina = 0 /\ LocalInicial.faltan = 0
BY DEF EsLocal, LocalInicial

(* A handler that takes the semaphore, or that ends without it, while nobody *)
(* closes.                                                                   *)
LEMMA Toma ==
  ASSUME Semaforo, TiposMuse, NEW p \in Programas, NEW donde, ~ Terminando, pc[p] \notin Trabajo,
         g_mutexPaginas = Nada, pc' = [pc EXCEPT ![p] = donde], donde \notin {"cerrando", "cerrado"},
         g_mutexPaginas' = IF donde \in Trabajo THEN p ELSE Nada
  PROVE  Semaforo' /\ ~ Terminando'
<1>1. \A q \in Programas : pc'[q] = IF q = p THEN donde ELSE pc[q]
  BY DEF TiposMuse
<1>2. \A q \in Programas : pc[q] \notin Trabajo
  BY Constantes DEF Semaforo
<1>3. ~ Terminando'
  BY <1>1 DEF Terminando
<1>4. \A q \in Programas : pc'[q] \in Trabajo <=> g_mutexPaginas' = q
  BY <1>1, <1>2, Constantes
<1> QED BY <1>3, <1>4 DEF Semaforo

LEMMA Suelta ==
  ASSUME Semaforo, TiposMuse, NEW p \in Programas, NEW donde, pc[p] \in Trabajo,
         pc' = [pc EXCEPT ![p] = donde], donde \notin {"cerrando", "cerrado"} \cup Trabajo,
         g_mutexPaginas' = Nada
  PROVE  Semaforo' /\ ~ Terminando /\ ~ Terminando'
<1>1. \A q \in Programas : pc'[q] = IF q = p THEN donde ELSE pc[q]
  BY DEF TiposMuse
<1>2. g_mutexPaginas = p
  BY DEF Semaforo
<1>3. ~ Terminando
  BY <1>2, Constantes DEF Semaforo
<1>4. ~ Terminando'
  BY <1>1, <1>3 DEF Terminando
<1>5. \A q \in Programas : pc'[q] \in Trabajo <=> g_mutexPaginas' = q
  BY <1>1, <1>2, Constantes DEF Semaforo
<1> QED BY <1>3, <1>4, <1>5 DEF Semaforo

LEMMA Trabaja ==
  ASSUME Semaforo, NEW p \in Programas, pc[p] \in Trabajo,
         UNCHANGED <<pc, g_mutexPaginas>>
  PROVE  Semaforo' /\ ~ Terminando /\ ~ Terminando'
<1>1. ~ Terminando
  BY Constantes DEF Semaforo
<1>2. ~ Terminando'
  BY <1>1 DEF Terminando
<1> QED BY <1>1, <1>2 DEF Semaforo

(* What procesarAlloc reserves.                                              *)
Reservado(p, tam) ==
  IF Elegibles(heaps[p], tam) # {} THEN allocarEnHeapLibre(heaps[p], tam)
  ELSE allocarHeapNuevo(heaps[p], Len(mem.tablaPaginas[p]), tam)

LEMMA EfectoAlloc ==
  ASSUME Hipotesis, InvTablas, NEW p \in Programas, NEW tam \in Tamanios[p], procesarAlloc(p, tam)
  PROVE  LET r == Reservado(p, tam)
             l == [LocalInicial EXCEPT !.dir = r.dir, !.tam = tam, !.pagina = r.paginas,
                                       !.faltan = r.paginas]
         IN /\ mem.caida = "no" /\ pc[p] = "libre" /\ g_mutexPaginas = Nada /\ ~ Terminando
            /\ heaps' = [heaps EXCEPT ![p] = r.heaps]
            /\ g_mutexPaginas' = p
            /\ local' = [local EXCEPT ![p] = l]
            /\ pc' = [pc EXCEPT ![p] = "alloc"]
            /\ UNCHANGED <<limiteLogico, vivas>>
            /\ r.heaps \in Seq(TChunk) /\ r.dir \in Nat \ {0} /\ r.paginas \in Int
            /\ EsMem(mem') /\ MismaMemoria(mem, mem') /\ mem'.programas = mem.programas
            /\ r.dir < limiteLogico[p] \/ Elegibles(heaps[p], tam) = {} => mem'.caida = "no"
<1> DEFINE reusa == Elegibles(heaps[p], tam) # {}
           r == Reservado(p, tam)
           m == IF ~ reusa THEN mem
                ELSE IF r.dir >= limiteLogico[p] THEN Caer(mem, "nulo")
                ELSE cambiarFramesPorHeap(mem, p, r.dir, tam)
           l == [LocalInicial EXCEPT !.dir = r.dir, !.tam = tam, !.pagina = r.paginas,
                                     !.faltan = r.paginas]
<1>1. /\ mem.caida = "no" /\ pc[p] = "libre" /\ g_mutexPaginas = Nada /\ ~ Terminando
      /\ heaps' = [heaps EXCEPT ![p] = r.heaps]
      /\ Efecto(m)
      /\ g_mutexPaginas' = p
      /\ local' = [local EXCEPT ![p] = l]
      /\ pc' = [pc EXCEPT ![p] = "alloc"]
      /\ UNCHANGED <<limiteLogico, vivas>>
  BY DEF procesarAlloc, Hipotesis, Pide, Ir, Reservado
<1>2. TiposMuse
  BY <1>1 DEF InvTablas
<1>3. /\ heaps[p] \in Seq(TChunk) /\ Len(mem.tablaPaginas[p]) \in Nat /\ EsMem(mem)
      /\ limiteLogico[p] \in Int
  BY <1>2, Partes DEF TiposMuse
<1>4. tam \in Nat \ {0} /\ tam \in 1..lengthPagina
  BY MuseAssumption DEF Hipotesis, Pequenias
<1>5. r.heaps \in Seq(TChunk) /\ r.dir \in Nat \ {0} /\ r.paginas \in Int
  <2>1. CASE reusa
    <3>1. r = allocarEnHeapLibre(heaps[p], tam)
      BY <2>1 DEF Reservado
    <3> HIDE DEF r
    <3>2. PICK h \in Seq(TChunk) : h = heaps[p]
      BY <1>3
    <3>3. Elegibles(h, tam) # {} /\ tamanio_heap <= 6
      BY <2>1, <3>2 DEF Hipotesis
    <3>4. /\ allocarEnHeapLibre(h, tam).heaps \in Seq(TChunk)
          /\ allocarEnHeapLibre(h, tam).dir \in Nat \ {0} /\ allocarEnHeapLibre(h, tam).paginas = 0
      BY <1>4, <3>3, EnHeapLibre
    <3> QED BY <3>1, <3>2, <3>4
  <2>2. CASE ~ reusa
    BY <1>3, <1>4, <2>2, HeapNuevo DEF Hipotesis, Reservado
  <2> QED BY <2>1, <2>2
<1> HIDE DEF r
<1>6. /\ m.caida \in {"no", "nulo"}
      /\ m.caida = "no" => EsMem(m)
      /\ m.caida = "no" => MismaMemoria(mem, m) /\ m.programas = mem.programas
      /\ r.dir < limiteLogico[p] \/ ~ reusa => m.caida = "no"
  <2>1. CASE ~ reusa
    BY <1>1, <1>3, <2>1 DEF MismaMemoria
  <2>2. CASE reusa /\ r.dir >= limiteLogico[p]
    <3>1. m = Caer(mem, "nulo")
      BY <2>2
    <3>2. m.caida = "nulo"
      BY <1>3, <3>1 DEF Caer, EsMem, Campos
    <3>3. ~ (r.dir < limiteLogico[p])
      BY <1>3, <1>5, <2>2
    <3> QED BY <2>2, <3>2, <3>3
  <2>3. CASE reusa /\ ~ (r.dir >= limiteLogico[p])
    <3>1. m = cambiarFramesPorHeap(mem, p, r.dir, tam)
      BY <2>3
    <3> HIDE DEF m
    <3> QED BY <1>1, <1>3, <1>4, <1>5, <3>1, SinPaginasDentro DEF MismaMemoria
  <2> QED BY <2>1, <2>2, <2>3
<1> HIDE DEF m
<1>7. /\ EsMem(mem') /\ MismaMemoria(mem, mem') /\ mem'.programas = mem.programas
      /\ mem'.caida = m.caida
  BY <1>1, <1>3, <1>6, Efectos
<1> HIDE DEF l, reusa
<1> QED BY <1>1, <1>5, <1>6, <1>7 DEF l, r, reusa

LEMMA PasoAlloc ==
  ASSUME Hipotesis, InvTablas, NEW p \in Programas, NEW tam \in Tamanios[p], procesarAlloc(p, tam)
  PROVE  InvTablas'
<1> DEFINE r == Reservado(p, tam)
           l == [LocalInicial EXCEPT !.dir = r.dir, !.tam = tam, !.pagina = r.paginas,
                                     !.faltan = r.paginas]
<1>1. /\ mem.caida = "no" /\ pc[p] = "libre" /\ g_mutexPaginas = Nada /\ ~ Terminando
      /\ heaps' = [heaps EXCEPT ![p] = r.heaps]
      /\ g_mutexPaginas' = p
      /\ local' = [local EXCEPT ![p] = l]
      /\ pc' = [pc EXCEPT ![p] = "alloc"]
      /\ UNCHANGED <<limiteLogico, vivas>>
  BY EfectoAlloc
<1>2. TiposMuse /\ Semaforo /\ Coherente(mem, Nada) /\ DePrograma(p)
  BY <1>1 DEF InvTablas
<1>3. EsMem(mem) /\ limiteLogico[p] \in Int
  BY <1>2 DEF TiposMuse
<1>4. tam \in Nat
  BY MuseAssumption
<1>5. r.heaps \in Seq(TChunk) /\ r.dir \in Nat \ {0} /\ r.paginas \in Int
  BY EfectoAlloc
<1>7. EsMem(mem') /\ MismaMemoria(mem, mem') /\ mem'.programas = mem.programas
  BY EfectoAlloc
<1> HIDE DEF r
<1>8. EsLocal(l) /\ l.pagina = r.paginas /\ l.faltan = r.paginas
  BY <1>4, <1>5, Inicial DEF EsLocal
<1> HIDE DEF l
<1>9. \A q \in Programas : /\ pc'[q] = IF q = p THEN "alloc" ELSE pc[q]
                           /\ local'[q] = IF q = p THEN l ELSE local[q]
  BY <1>1, <1>2 DEF TiposMuse
<1>10. TiposMuse'
  <2>1. heaps' \in [Programas -> Seq(TChunk)] /\ pc' \in [Programas -> Donde]
    BY <1>1, <1>2, <1>5 DEF TiposMuse, Donde
  <2>2. DOMAIN local' = Programas /\ \A q \in Programas : EsLocal(local'[q])
    BY <1>1, <1>2, <1>8, <1>9 DEF TiposMuse
  <2> QED BY <1>1, <1>2, <1>7, <2>1, <2>2 DEF TiposMuse
<1>11. ~ Terminando' /\ Semaforo'
  BY ZenonT(60), <1>1, <1>2, Toma DEF Trabajo
<1>12. Coherente(mem', Nada)
  BY <1>2, <1>7, Parecidas DEF MismaMemoria
<1>13. Vigentes'
  BY <1>7, <1>11, <1>12, SonVigentes
<1>14. DePrograma(p)'
  BY <1>1, <1>2, <1>7, <1>9 DEF DePrograma, MismaMemoria
<1>15. EnCurso(p)'
  <2>1. limiteLogico[p] <= Len(mem.tablaPaginas[p]) * lengthPagina
    BY <1>2 DEF DePrograma
  <2>2. local'[p].pagina = r.paginas /\ local'[p].faltan = r.paginas /\ pc'[p] = "alloc"
    BY <1>8, <1>9
  <2>3. (r.paginas - r.paginas) * lengthPagina = 0
    BY <1>5, Constantes
  <2>4. limiteLogico[p] + 0 = limiteLogico[p]
    BY <1>3
  <2> QED BY <1>1, <1>7, <2>1, <2>2, <2>3, <2>4 DEF EnCurso, MismaMemoria
<1> QED BY <1>1, <1>7, <1>9, <1>10, <1>11, <1>12, <1>13, <1>14, <1>15, Conserva DEF MismaMemoria

LEMMA EfectoAgregar ==
  ASSUME Hipotesis, InvTablas, NEW p \in Programas, allocarEnPaginasNuevas(p)
  PROVE  LET l == [local[p] EXCEPT !.faltan = @ - 1] IN
         /\ mem.caida = "no" /\ pc[p] = "alloc" /\ local[p].faltan > 0
         /\ local' = [local EXCEPT ![p] = l]
         /\ UNCHANGED <<heaps, limiteLogico, g_mutexPaginas, pc, vivas>>
         /\ EsLocal(l) /\ l.faltan = local[p].faltan - 1 /\ l.pagina = local[p].pagina
         /\ l.dir = local[p].dir /\ l.tam = local[p].tam /\ l.dato = local[p].dato
         /\ l.leido = local[p].leido
         /\ EsMem(mem') /\ Coherente(mem', Nada) /\ mem'.programas = mem.programas
         /\ \/ mem'.caida = "swap" /\ mem.swap = Slot /\ MismaMemoria(mem, mem')
            \/ /\ mem'.caida = "no" /\ MismosBytes(mem, mem', Nada)
               /\ Len(mem'.tablaPaginas[p]) = Len(mem.tablaPaginas[p]) + 1
         /\ \A q \in Programas \ {p} : Len(mem'.tablaPaginas[q]) = Len(mem.tablaPaginas[q])
<1> DEFINE m == agregarPaginaEnSegmento(mem, p)
           l == [local[p] EXCEPT !.faltan = @ - 1]
<1>1. /\ mem.caida = "no" /\ pc[p] = "alloc" /\ local[p].faltan > 0
      /\ Efecto(m)
      /\ local' = [local EXCEPT ![p] = l]
      /\ UNCHANGED <<heaps, limiteLogico, g_mutexPaginas, pc, vivas>>
  <2>1. local' = [local EXCEPT ![p].faltan = @ - 1]
    BY DEF allocarEnPaginasNuevas
  <2> QED BY <2>1 DEF allocarEnPaginasNuevas, Sigue
<1>2. TiposMuse /\ Semaforo /\ DePrograma(p) /\ EnCurso(p) /\ EsMem(mem) /\ EsLocal(local[p])
  BY <1>1 DEF InvTablas, TiposMuse
<1>3. ~ Terminando /\ ~ Terminando' /\ Semaforo'
  BY <1>1, <1>2, Trabaja DEF Trabajo
<1>4. Coherente(mem, Nada)
  BY <1>3 DEF InvTablas
<1>5. p \in mem.programas
  BY <1>1, <1>2 DEF DePrograma
<1>6. \/ mem.swap = Slot /\ m.caida = "swap"
      \/ /\ EsMem(m) /\ m.caida = "no" /\ Coherente(m, Nada) /\ m.programas = mem.programas
         /\ MismosBytes(mem, m, Nada)
         /\ \A q \in Programas :
              Len(m.tablaPaginas[q]) = Len(mem.tablaPaginas[q]) + (IF q = p THEN 1 ELSE 0)
  BY <1>1, <1>2, <1>4, <1>5, AlAgregar
<1> HIDE DEF m
<1>7. /\ EsMem(mem') /\ mem'.caida = m.caida
      /\ m.caida = "no" => mem' = m
      /\ m.caida # "no" => MismaMemoria(mem, mem') /\ mem'.programas = mem.programas
  BY <1>1, <1>2, <1>6, Efectos
<1>8. /\ EsLocal(l) /\ l.faltan = local[p].faltan - 1 /\ l.pagina = local[p].pagina
      /\ l.dato = local[p].dato /\ l.dir = local[p].dir /\ l.tam = local[p].tam
      /\ l.leido = local[p].leido
  BY <1>2 DEF EsLocal
<1> HIDE DEF l
<1>9. Coherente(mem', Nada) /\ mem'.programas = mem.programas
  BY <1>4, <1>6, <1>7, Parecidas DEF MismaMemoria
<1>10. \A q \in Programas \ {p} : Len(mem'.tablaPaginas[q]) = Len(mem.tablaPaginas[q])
  <2>1. \A q \in Programas : Len(mem.tablaPaginas[q]) \in Nat
    BY <1>2, Partes
  <2>2. CASE m.caida = "no"
    <3> SUFFICES ASSUME NEW q \in Programas \ {p}
                 PROVE  Len(mem'.tablaPaginas[q]) = Len(mem.tablaPaginas[q])
      OBVIOUS
    <3>1. mem' = m
      BY <1>7, <2>2
    <3>2. Len(m.tablaPaginas[q]) = Len(mem.tablaPaginas[q]) + 0
      BY <1>6, <2>2
    <3> QED BY <2>1, <3>1, <3>2
  <2>3. CASE m.caida # "no"
    BY <1>7, <2>3 DEF MismaMemoria
  <2> QED BY <2>2, <2>3
<1>11. \/ mem'.caida = "swap" /\ mem.swap = Slot /\ MismaMemoria(mem, mem')
       \/ /\ mem'.caida = "no" /\ Len(mem'.tablaPaginas[p]) = Len(mem.tablaPaginas[p]) + 1
          /\ MismosBytes(mem, mem', Nada)
  <2>1. CASE m.caida = "no"
    BY <1>6, <1>7, <2>1
  <2>2. CASE m.caida # "no"
    BY <1>6, <1>7, <2>2
  <2> QED BY <2>1, <2>2
<1> QED BY <1>1, <1>7, <1>8, <1>9, <1>10, <1>11 DEF l

LEMMA PasoAgregar ==
  ASSUME Hipotesis, InvTablas, NEW p \in Programas, allocarEnPaginasNuevas(p)
  PROVE  InvTablas'
<1> DEFINE l == [local[p] EXCEPT !.faltan = @ - 1]
<1>1. /\ mem.caida = "no" /\ pc[p] = "alloc" /\ local[p].faltan > 0
      /\ local' = [local EXCEPT ![p] = l]
      /\ UNCHANGED <<heaps, limiteLogico, g_mutexPaginas, pc, vivas>>
  BY EfectoAgregar
<1>2. TiposMuse /\ Semaforo /\ DePrograma(p) /\ EnCurso(p) /\ EsMem(mem) /\ EsLocal(local[p])
  BY <1>1 DEF InvTablas, TiposMuse
<1>3. ~ Terminando /\ ~ Terminando' /\ Semaforo'
  BY <1>1, <1>2, Trabaja DEF Trabajo
<1>5. p \in mem.programas
  BY <1>1, <1>2 DEF DePrograma
<1>7. /\ EsMem(mem')
      /\ \/ mem'.caida = "swap" /\ mem.swap = Slot /\ MismaMemoria(mem, mem')
         \/ mem'.caida = "no" /\ Len(mem'.tablaPaginas[p]) = Len(mem.tablaPaginas[p]) + 1
  BY EfectoAgregar
<1>8. /\ EsLocal(l) /\ l.faltan = local[p].faltan - 1 /\ l.pagina = local[p].pagina
      /\ l.dato = local[p].dato
  BY EfectoAgregar
<1> HIDE DEF l
<1>9. \A q \in Programas : local'[q] = IF q = p THEN l ELSE local[q]
  BY <1>1, <1>2 DEF TiposMuse
<1>10. TiposMuse'
  <2>1. DOMAIN local' = Programas /\ \A q \in Programas : EsLocal(local'[q])
    BY <1>1, <1>2, <1>8, <1>9 DEF TiposMuse
  <2> QED BY <1>1, <1>2, <1>7, <2>1 DEF TiposMuse
<1>11. Coherente(mem', Nada) /\ mem'.programas = mem.programas
  BY EfectoAgregar
<1>12. Vigentes'
  BY <1>3, <1>7, <1>11, SonVigentes
<1>13. PICK n \in Nat : n = Len(mem.tablaPaginas[p])
  BY <1>2, Partes
<1>14. \/ mem'.caida # "no" /\ Len(mem'.tablaPaginas[p]) = n
       \/ mem'.caida = "no" /\ Len(mem'.tablaPaginas[p]) = n + 1
  BY <1>7, <1>13 DEF MismaMemoria
<1>15. \A q \in Programas \ {p} : Len(mem'.tablaPaginas[q]) = Len(mem.tablaPaginas[q])
  BY EfectoAgregar
<1>16. n * lengthPagina <= (n + 1) * lengthPagina /\ (n + 1) * lengthPagina = n * lengthPagina + lengthPagina
  <2>1. 1 * lengthPagina = lengthPagina
    BY Constantes
  <2>2. (n + 1) * lengthPagina = n * lengthPagina + 1 * lengthPagina
    BY Productos
  <2> QED BY <2>1, <2>2, Productos
<1>17. DePrograma(p)'
  <2>1. limiteLogico[p] \in Int /\ n * lengthPagina \in Int /\ (n + 1) * lengthPagina \in Int
    <3>1. limiteLogico[p] \in Int
      BY <1>2 DEF TiposMuse
    <3> QED BY <3>1, Constantes
  <2>2. limiteLogico[p] <= n * lengthPagina
    BY <1>2, <1>13 DEF DePrograma
  <2>3. limiteLogico'[p] <= Len(mem'.tablaPaginas[p]) * lengthPagina
    BY <1>1, <1>14, <1>16, <2>1, <2>2
  <2> QED BY <1>1, <1>2, <1>5, <1>11, <2>3 DEF DePrograma
<1>18. ASSUME mem'.caida = "no" PROVE EnCurso(p)'
  <2>1. PICK a \in Int : a = local[p].pagina
    BY <1>2 DEF EsLocal
  <2>2. PICK f \in Int : f = local[p].faltan
    BY <1>2 DEF EsLocal
  <2>3. /\ limiteLogico[p] + (a - f) * lengthPagina <= n * lengthPagina
        /\ f >= 0 \/ f = a
    BY <1>1, <1>2, <1>13, <2>1, <2>2 DEF EnCurso
  <2>4. local'[p].pagina = a /\ local'[p].faltan = f - 1 /\ f - 1 >= 0
    BY <1>1, <1>8, <1>9, <2>1, <2>2
  <2>5. (a - (f - 1)) * lengthPagina = (a - f) * lengthPagina + lengthPagina
    <3>1. a - (f - 1) = (a - f) + 1
      OBVIOUS
    <3>2. ((a - f) + 1) * lengthPagina = (a - f) * lengthPagina + lengthPagina
      BY Constantes
    <3> QED BY <3>1, <3>2
  <2>6. limiteLogico[p] + (a - (f - 1)) * lengthPagina <= (n + 1) * lengthPagina
    <3>1. limiteLogico[p] \in Int /\ n * lengthPagina \in Int /\ (a - f) * lengthPagina \in Int
      <4>1. limiteLogico[p] \in Int
        BY <1>2 DEF TiposMuse
      <4> QED BY <4>1, Constantes
    <3> QED BY <1>16, <2>3, <2>5, <3>1, Constantes
  <2>7. Len(mem'.tablaPaginas[p]) = n + 1
    BY <1>14, <1>18
  <2> QED BY <1>1, <2>4, <2>6, <2>7 DEF EnCurso
<1> QED BY <1>1, <1>3, <1>9, <1>10, <1>11, <1>12, <1>15, <1>17, <1>18, Conserva

LEMMA PasoRespuestaAlloc ==
  ASSUME Hipotesis, InvTablas, NEW p \in Programas, enviarRespuestaAlloc(p)
  PROVE  InvTablas'
<1> DEFINE q == [dir |-> local[p].dir, tam |-> local[p].tam]
<1>1. /\ mem.caida = "no" /\ pc[p] = "alloc" /\ local[p].faltan <= 0
      /\ limiteLogico' = [limiteLogico EXCEPT ![p] = @ + local[p].pagina * lengthPagina]
      /\ vivas' = [vivas EXCEPT ![p] = Append(@, q)]
      /\ g_mutexPaginas' = Nada
      /\ local' = [local EXCEPT ![p] = LocalInicial]
      /\ pc' = [pc EXCEPT ![p] = "libre"]
      /\ UNCHANGED <<heaps, mem>>
  BY DEF enviarRespuestaAlloc, Sigue, Ir
<1>2. TiposMuse /\ Semaforo /\ DePrograma(p) /\ EnCurso(p) /\ EsMem(mem) /\ EsLocal(local[p])
  BY <1>1 DEF InvTablas, TiposMuse
<1>3. Semaforo' /\ ~ Terminando /\ ~ Terminando'
  <2>1. pc[p] \in Trabajo /\ "libre" \notin {"cerrando", "cerrado"} \cup Trabajo
    BY <1>1 DEF Trabajo
  <2> QED BY <1>1, <1>2, <2>1, Suelta
<1>4. Coherente(mem, Nada)
  BY <1>3 DEF InvTablas
<1>5. PICK a \in Int : a = local[p].pagina
  BY <1>2 DEF EsLocal
<1>6. PICK b \in Int : b = local[p].faltan
  BY <1>2 DEF EsLocal
<1>7. PICK x \in Int : x = limiteLogico[p]
  BY <1>2 DEF TiposMuse
<1>8. PICK y \in Int : y = Len(mem.tablaPaginas[p]) * lengthPagina
  <2>1. Len(mem.tablaPaginas[p]) \in Nat
    BY <1>2, Partes
  <2> QED BY <2>1, Constantes
<1>9. a * lengthPagina \in Int
  BY Productos
<1>10. x + a * lengthPagina <= y
  <2>1. x <= y /\ x + (a - b) * lengthPagina <= y
    BY <1>1, <1>2, <1>5, <1>6, <1>7, <1>8 DEF DePrograma, EnCurso
  <2>2. b <= 0 /\ (b >= 0 \/ b = a)
    BY <1>1, <1>2, <1>5, <1>6 DEF EnCurso
  <2>3. CASE b = 0
    <3>1. a - b = a
      BY <2>3
    <3> QED BY <2>1, <3>1
  <2>4. CASE b # 0
    <3>1. a <= 0
      BY <2>2, <2>4
    <3>2. a * lengthPagina <= 0 * lengthPagina /\ 0 * lengthPagina = 0
      BY <3>1, Productos, Constantes
    <3> QED BY <1>9, <2>1, <3>2
  <2> QED BY <2>3, <2>4
<1>11. /\ \A r \in Programas : pc'[r] = IF r = p THEN "libre" ELSE pc[r]
       /\ \A r \in Programas : local'[r] = IF r = p THEN LocalInicial ELSE local[r]
       /\ limiteLogico'[p] = x + a * lengthPagina
  BY <1>1, <1>2, <1>5, <1>7 DEF TiposMuse
<1>12. TiposMuse'
  <2>1. q \in Porcion
    BY <1>2 DEF EsLocal, Porcion
  <2> HIDE DEF q
  <2>2. Append(vivas[p], q) \in Seq(Porcion)
    BY <1>2, <2>1, AppendProperties DEF TiposMuse
  <2>3. vivas' \in [Programas -> Seq(Porcion)]
    BY <1>1, <1>2, <2>2 DEF TiposMuse
  <2>4. limiteLogico' \in [Programas -> Int]
    BY <1>1, <1>2, <1>5, <1>7, <1>9 DEF TiposMuse
  <2>5. DOMAIN local' = Programas /\ \A r \in Programas : EsLocal(local'[r])
    BY <1>1, <1>2, <1>11, Inicial DEF TiposMuse
  <2>6. pc' \in [Programas -> Donde]
    BY <1>1, <1>2 DEF TiposMuse, Donde
  <2> QED BY <1>1, <1>2, <2>3, <2>4, <2>5, <2>6 DEF TiposMuse
<1>13. Vigentes'
  <2>1. EsMem(mem') /\ Coherente(mem', Nada)
    BY <1>1, <1>2, <1>4
  <2> QED BY <1>3, <2>1, SonVigentes
<1>14. DePrograma(p)' /\ EnCurso(p)'
  BY <1>1, <1>2, <1>8, <1>10, <1>11 DEF DePrograma, EnCurso
<1> QED BY <1>1, <1>3, <1>4, <1>11, <1>12, <1>13, <1>14, Conserva

LEMMA EfectoFree ==
  ASSUME Hipotesis, InvTablas, NEW p \in Programas, NEW k \in DOMAIN vivas[p], procesarFree(p, k)
  PROVE  LET dir == vivas[p][k].dir
             h == heaps[p]
             indices == {i \in 1..Len(h) : Direccion(h, i) = dir}
             i == Min(indices)
             r == verificarCompactacionFree(h, i)
             invalida == dir >= limiteLogico[p] \/ indices = {}
             ocupado == ~ invalida /\ ~ h[i].isFree
         IN /\ mem.caida = "no" /\ pc[p] = "libre" /\ g_mutexPaginas = Nada /\ ~ Terminando
            /\ heaps' = IF ocupado THEN [heaps EXCEPT ![p] = r.heaps] ELSE heaps
            /\ ocupado => r.heaps \in Seq(TChunk)
            /\ vivas' = [vivas EXCEPT ![p] = RemoveAt(@, k)]
            /\ UNCHANGED <<limiteLogico, g_mutexPaginas, pc, local>>
            /\ EsMem(mem') /\ MismaMemoria(mem, mem') /\ mem'.programas = mem.programas
            /\ ocupado /\ ~ r.fuera => mem'.caida = "no"
<1> DEFINE dir == vivas[p][k].dir
           h == heaps[p]
           indices == {i \in 1..Len(h) : Direccion(h, i) = dir}
           i == Min(indices)
           r == verificarCompactacionFree(h, i)
           invalida == dir >= limiteLogico[p] \/ indices = {}
           ocupado == ~ invalida /\ ~ h[i].isFree
           m == IF invalida \/ (ocupado /\ r.fuera) THEN Caer(mem, "nulo") ELSE mem
<1>1. /\ mem.caida = "no" /\ pc[p] = "libre" /\ g_mutexPaginas = Nada /\ ~ Terminando
      /\ Efecto(m)
      /\ heaps' = IF ocupado THEN [heaps EXCEPT ![p] = r.heaps] ELSE heaps
      /\ vivas' = [vivas EXCEPT ![p] = RemoveAt(@, k)]
      /\ UNCHANGED <<limiteLogico, g_mutexPaginas, pc, local>>
  BY ZenonT(60) DEF procesarFree, Hipotesis, Pide
<1>2. TiposMuse /\ Semaforo /\ Coherente(mem, Nada) /\ DePrograma(p) /\ EsMem(mem)
  BY SMTT(30), <1>1 DEF InvTablas, TiposMuse
<1>3. ~ Terminando' /\ Semaforo'
  BY <1>1, <1>2 DEF Terminando, Semaforo
<1>4. ocupado => r.heaps \in Seq(TChunk)
  <2> SUFFICES ASSUME ocupado PROVE r.heaps \in Seq(TChunk)
    OBVIOUS
  <2>1. h \in Seq(TChunk) /\ Len(h) \in Nat
    BY <1>2, LenProperties DEF TiposMuse
  <2>2. indices # {}
    OBVIOUS
  <2> HIDE DEF h
  <2>3. indices \subseteq Int /\ IsFiniteSet(indices) /\ indices \subseteq 1..Len(h)
    <3>1. IsFiniteSet(1..Len(h)) /\ indices \subseteq 1..Len(h)
      BY <2>1, FS_Interval
    <3> HIDE DEF indices
    <3>2. IsFiniteSet(indices)
      BY <3>1, FS_Subset
    <3> QED BY <3>1, <3>2
  <2> HIDE DEF indices
  <2>4. i \in 1..Len(h)
    BY <2>2, <2>3, MinimoDe
  <2> HIDE DEF i
  <2> QED BY <2>1, <2>4, Compactado
<1>5. /\ m.caida \in {"no", "nulo"}
      /\ m.caida = "no" => m = mem
      /\ ocupado /\ ~ r.fuera => m = mem
  <2>1. Caer(mem, "nulo").caida = "nulo"
    BY <1>2 DEF Caer, EsMem, Campos
  <2>2. m = mem \/ m = Caer(mem, "nulo")
    OBVIOUS
  <2>3. ocupado /\ ~ r.fuera => m = mem
    OBVIOUS
  <2> HIDE DEF m, ocupado, r
  <2> QED BY <1>1, <2>1, <2>2, <2>3
<1> HIDE DEF m, ocupado, r
<1>6. /\ EsMem(mem') /\ MismaMemoria(mem, mem') /\ mem'.programas = mem.programas
      /\ mem'.caida = m.caida
  <2>1. m.caida = "no" => EsMem(m)
    BY <1>2, <1>5
  <2>2. /\ EsMem(mem') /\ mem'.caida = m.caida
        /\ m.caida = "no" => mem' = m
        /\ m.caida # "no" => MismaMemoria(mem, mem') /\ mem'.programas = mem.programas
    BY <1>1, <1>2, <1>5, <2>1, Efectos
  <2> QED BY <1>5, <2>2 DEF MismaMemoria
<1> QED BY SMTT(30), <1>1, <1>4, <1>5, <1>6 DEF ocupado, r

LEMMA PasoFree ==
  ASSUME Hipotesis, InvTablas, NEW p \in Programas, NEW k \in DOMAIN vivas[p], procesarFree(p, k)
  PROVE  InvTablas'
<1> DEFINE dir == vivas[p][k].dir
           h == heaps[p]
           indices == {i \in 1..Len(h) : Direccion(h, i) = dir}
           i == Min(indices)
           r == verificarCompactacionFree(h, i)
           invalida == dir >= limiteLogico[p] \/ indices = {}
           ocupado == ~ invalida /\ ~ h[i].isFree
<1>1. /\ mem.caida = "no" /\ pc[p] = "libre" /\ g_mutexPaginas = Nada /\ ~ Terminando
      /\ heaps' = IF ocupado THEN [heaps EXCEPT ![p] = r.heaps] ELSE heaps
      /\ vivas' = [vivas EXCEPT ![p] = RemoveAt(@, k)]
      /\ UNCHANGED <<limiteLogico, g_mutexPaginas, pc, local>>
      /\ ocupado => r.heaps \in Seq(TChunk)
  BY EfectoFree
<1>2. TiposMuse /\ Semaforo /\ Coherente(mem, Nada) /\ DePrograma(p) /\ EsMem(mem)
  BY <1>1 DEF InvTablas, TiposMuse
<1>3. ~ Terminando' /\ Semaforo'
  BY <1>1, <1>2 DEF Terminando, Semaforo
<1> HIDE DEF ocupado, r
<1>6. EsMem(mem') /\ MismaMemoria(mem, mem') /\ mem'.programas = mem.programas
  BY EfectoFree
<1>7. TiposMuse'
  <2>1. heaps' \in [Programas -> Seq(TChunk)]
    BY <1>1, <1>2 DEF TiposMuse
  <2>2. vivas[p] \in Seq(Porcion) /\ k \in 1..Len(vivas[p])
    BY <1>2, LenProperties DEF TiposMuse
  <2>3. RemoveAt(vivas[p], k) \in Seq(Porcion)
    BY <2>2, Quitar DEF RemoveAt
  <2>4. vivas' \in [Programas -> Seq(Porcion)]
    BY <1>1, <1>2, <2>3 DEF TiposMuse
  <2> QED BY <1>1, <1>2, <1>6, <2>1, <2>4 DEF TiposMuse
<1>8. Coherente(mem', Nada)
  BY <1>2, <1>6, Parecidas DEF MismaMemoria
<1>9. Vigentes'
  BY <1>3, <1>6, <1>8, SonVigentes
<1>10. DePrograma(p)' /\ EnCurso(p)'
  BY <1>1, <1>2, <1>6 DEF DePrograma, EnCurso, MismaMemoria
<1> QED BY <1>1, <1>3, <1>6, <1>7, <1>8, <1>9, <1>10, Conserva DEF MismaMemoria

LEMMA PasoAcceder ==
  ASSUME Hipotesis, InvTablas, NEW p \in Programas, NEW k \in DOMAIN vivas[p],
         NEW op \in {"get", "copy"}, NEW v \in Valores \cup {Nada}, op = "copy" => v \in Valores,
         Acceder(p, k, op, v)
  PROVE  InvTablas'
<1> DEFINE q == vivas[p][k]
           valida == q.dir + q.tam <= limiteLogico[p]
           donde == IF valida THEN op ELSE "muerto"
           l == [LocalInicial EXCEPT !.dir = q.dir, !.tam = q.tam, !.dato = v,
                                     !.pagina = q.dir \div lengthPagina]
<1>1. /\ mem.caida = "no" /\ pc[p] = "libre" /\ g_mutexPaginas = Nada /\ ~ Terminando
      /\ g_mutexPaginas' = IF valida THEN p ELSE Nada
      /\ local' = [local EXCEPT ![p] = l]
      /\ pc' = [pc EXCEPT ![p] = donde]
      /\ UNCHANGED <<heaps, limiteLogico, mem, vivas>>
  BY DEF Acceder, Hipotesis, Pide, Ir
<1>2. TiposMuse /\ Semaforo /\ Coherente(mem, Nada) /\ DePrograma(p) /\ EsMem(mem)
  BY <1>1 DEF InvTablas, TiposMuse
<1>3. q.dir \in Nat /\ q.tam \in Nat
  <2>1. vivas[p] \in Seq(Porcion) /\ k \in 1..Len(vivas[p])
    BY <1>2, LenProperties DEF TiposMuse
  <2>2. q \in Porcion
    BY <2>1, ElementOfSeq
  <2> HIDE DEF q
  <2> QED BY <2>2 DEF Porcion
<1> HIDE DEF q
<1>4. q.dir \div lengthPagina \in Int /\ q.dir \div lengthPagina >= 0
  <2>1. q.dir >= 0 * lengthPagina
    BY <1>3, Constantes
  <2> QED BY <1>3, <2>1, Division, Pagina
<1>5. /\ EsLocal(l) /\ l.dir = q.dir /\ l.tam = q.tam /\ l.dato = v
      /\ l.pagina = q.dir \div lengthPagina
  BY <1>3, <1>4 DEF EsLocal, LocalInicial
<1>6. /\ donde \notin {"fuera", "libre", "alloc", "cerrando", "cerrado"} /\ donde \in Donde
      /\ donde \in {"get", "copy"} => valida /\ donde = op
      /\ g_mutexPaginas' = IF donde \in Trabajo THEN p ELSE Nada
  BY <1>1 DEF Donde, Trabajo
<1> HIDE DEF l, donde
<1>7. \A r \in Programas : /\ pc'[r] = IF r = p THEN donde ELSE pc[r]
                           /\ local'[r] = IF r = p THEN l ELSE local[r]
  BY <1>1, <1>2 DEF TiposMuse
<1>8. ~ Terminando' /\ Semaforo'
  BY <1>1, <1>2, <1>6, Toma DEF Trabajo
<1>9. TiposMuse'
  <2>1. pc' \in [Programas -> Donde] /\ g_mutexPaginas' \in Programas \cup {Nada}
    BY <1>1, <1>2, <1>6 DEF TiposMuse
  <2>2. DOMAIN local' = Programas /\ \A r \in Programas : EsLocal(local'[r])
    BY <1>1, <1>2, <1>5, <1>7 DEF TiposMuse
  <2> QED BY <1>1, <1>2, <2>1, <2>2 DEF TiposMuse
<1>10. EsMem(mem') /\ Coherente(mem', Nada)
  BY <1>1, <1>2
<1>11. Vigentes'
  BY <1>8, <1>10, SonVigentes
<1>12. DePrograma(p)'
  BY <1>1, <1>2, <1>5, <1>6, <1>7 DEF DePrograma
<1>13. EnCurso(p)'
  BY <1>1, <1>4, <1>5, <1>6, <1>7 DEF EnCurso
<1> QED BY <1>1, <1>7, <1>8, <1>9, <1>10, <1>11, <1>12, <1>13, Conserva

(* The page that a loop of a copy or of a get is at, and the frame where the *)
(* page fault leaves it.                                                     *)
LEMMA PaginaPedida ==
  ASSUME TiposMuse, NEW p \in Programas, DePrograma(p), EnCurso(p), pc[p] \in {"get", "copy"},
         local[p].pagina <= UltimaPagina(p)
  PROVE  local[p].pagina \in Nat /\ EsPagina(mem, <<p, local[p].pagina>>)
<1>1. PICK a \in Int : a = local[p].dir + local[p].tam - 1
  BY DEF TiposMuse, EsLocal
<1>2. PICK n \in Nat : n = local[p].pagina
  BY DEF TiposMuse, EsLocal, EnCurso
<1>3. PICK largo \in Nat : largo = Len(mem.tablaPaginas[p])
  BY Partes DEF TiposMuse
<1>4. limiteLogico[p] <= largo * lengthPagina
  BY <1>3 DEF DePrograma
<1>5. local[p].dir + local[p].tam <= limiteLogico[p]
  BY DEF EnCurso
<1>6. a < largo * lengthPagina
  <2>1. /\ limiteLogico[p] \in Int /\ largo * lengthPagina \in Int
        /\ local[p].dir \in Nat /\ local[p].tam \in Nat
    BY Constantes DEF TiposMuse, EsLocal
  <2> QED BY <1>1, <1>4, <1>5, <2>1
<1>7. a \div lengthPagina < largo /\ a \div lengthPagina \in Int
  BY <1>6, Pagina, Division
<1>8. n <= a \div lengthPagina
  BY <1>1, <1>2 DEF UltimaPagina
<1>9. n < largo
  BY <1>7, <1>8
<1> QED BY <1>2, <1>3, <1>9 DEF EsPagina, Entrada

LEMMA Traida ==
  ASSUME EsMem(mem), Coherente(mem, Nada), mem.caida = "no", NEW p \in Programas, NEW n \in Nat,
         EsPagina(mem, <<p, n>>), NEW m,
         m = IF mem.tablaPaginas[p][n + 1].flagPresencia THEN mem ELSE TraerPaginaDeSwap(mem, p, n)
  PROVE  LET f == m.tablaPaginas[p][n + 1].nroFrame IN
         \/ n = 0 /\ m = Caer(mem, "nulo")
         \/ /\ EsMem(m) /\ f \in Frame /\ m.contenidoFrames[f] \in Contenido
            /\ \A q \in Programas : Len(m.tablaPaginas[q]) = Len(mem.tablaPaginas[q])
            /\ m.contenidoFrames[f] = ContenidoDe(mem, <<p, n>>)
            /\ \/ mem.swap = Slot /\ m.caida = "swap"
               \/ /\ m.caida = "no" /\ Coherente(m, Nada) /\ m.programas = mem.programas
                  /\ Fila(m, <<p, n>>).flagPresencia /\ MismosBytes(mem, m, Nada)
<1> DEFINE x == <<p, n>>
<1>1. /\ \A r : Fila(r, x) = r.tablaPaginas[p][n + 1]
      /\ x \in Entrada
  BY DEF Fila, Entrada
<1>2. CASE Fila(mem, x).flagPresencia
  <2>1. m = mem /\ EsPagina(mem, x)
    BY <1>1, <1>2
  <2> HIDE DEF x
  <2> DEFINE f == Fila(mem, x).nroFrame
  <2>2. f \in Frame
    BY <1>1, <2>1, Partes DEF Registro
  <2>3. mem.tablasDePaginas[f] = x
    BY <1>1, <1>2, <2>1, Constantes DEF Coherente, PresentesBien
  <2>4. f \in mem.marcos
    BY <1>1, <2>2, <2>3, Constantes DEF Coherente, MarcosBien
  <2>5. mem.contenidoFrames[f] \in Contenido
    BY <2>2, <2>4, Partes DEF Coherente, ConContenido
  <2>6. mem.contenidoFrames[f] = ContenidoDe(mem, x) /\ MismosBytes(mem, m, Nada)
    BY <1>2, <2>1 DEF ContenidoDe, MismosBytes
  <2> QED BY <1>1, <1>2, <2>1, <2>2, <2>5, <2>6 DEF x
<1>3. CASE ~ Fila(mem, x).flagPresencia
  <2>1. m = TraerPaginaDeSwap(mem, p, n)
    BY <1>1, <1>3
  <2>2. ~ Fila(mem, <<p, n>>).flagPresencia
    BY <1>3
  <2> HIDE DEF x
  <2>3. \/ n = 0 /\ m = Caer(mem, "nulo")
        \/ /\ EsMem(m) /\ \A q \in Programas : Len(m.tablaPaginas[q]) = Len(mem.tablaPaginas[q])
           /\ Fila(m, <<p, n>>).nroFrame \in Frame
           /\ m.contenidoFrames[Fila(m, <<p, n>>).nroFrame] \in Contenido
           /\ m.contenidoFrames[Fila(m, <<p, n>>).nroFrame] = ContenidoDe(mem, <<p, n>>)
           /\ \/ mem.swap = Slot /\ m.caida = "swap"
              \/ /\ m.caida = "no" /\ Coherente(m, Nada) /\ m.programas = mem.programas
                 /\ Fila(m, <<p, n>>).flagPresencia /\ MismosBytes(mem, m, Nada)
    BY ONLY EsMem(mem), Coherente(mem, Nada), mem.caida = "no", p \in Programas, n \in Nat,
       EsPagina(mem, <<p, n>>), <2>1, <2>2, AlTraer
  <2>4. Fila(m, <<p, n>>) = m.tablaPaginas[p][n + 1]
    BY <1>1 DEF x
  <2> QED BY <2>3, <2>4
<1> QED BY ZenonT(60), <1>2, <1>3

LEMMA EfectoPageFault ==
  ASSUME Hipotesis, InvTablas, NEW p \in Programas, pageFault(p)
  PROVE  /\ mem.caida = "no" /\ pc[p] \in {"get", "copy"} /\ local[p].pagina \in Nat
         /\ UNCHANGED <<heaps, limiteLogico, g_mutexPaginas, pc, vivas>>
         /\ EsMem(mem') /\ Coherente(mem', Nada) /\ mem'.programas = mem.programas
         /\ \A q \in Programas : Len(mem'.tablaPaginas[q]) = Len(mem.tablaPaginas[q])
         /\ DOMAIN local' = Programas
         /\ \A q \in Programas \ {p} : local'[q] = local[q]
         /\ DOMAIN local'[p] = DOMAIN local[p] /\ local'[p].pagina = local[p].pagina + 1
         /\ local'[p].dir = local[p].dir /\ local'[p].tam = local[p].tam
         /\ local'[p].dato = local[p].dato /\ local'[p].faltan = local[p].faltan
         /\ mem'.caida = "nulo" => local[p].pagina = 0
         /\ mem'.caida = "swap" => mem.swap = Slot /\ mem'.swap = mem.swap
         /\ local[p].pagina # 0 /\ local[p].leido \in Seq(Byte) => local'[p].leido \in Seq(Byte)
<1> DEFINE n == local[p].pagina
           dir == local[p].dir
           m == IF mem.tablaPaginas[p][n + 1].flagPresencia THEN mem
                ELSE TraerPaginaDeSwap(mem, p, n)
           f == m.tablaPaginas[p][n + 1].nroFrame
           Pedida(a) == a \in dir..(dir + local[p].tam - 1)
           Queda(k) == LET a == n * lengthPagina + k IN
                       IF Pedida(a) THEN Dato(local[p].dato, a - dir)
                       ELSE m.contenidoFrames[f][k]
           escrito == [k \in 0..(lengthPagina - 1) |-> Queda(k)]
           leido == [k \in 1..Cardinality({a \in n * lengthPagina..((n + 1) * lengthPagina - 1)
                                             : Pedida(a)}) |->
                       m.contenidoFrames[f][(dir + Len(local[p].leido) + k - 1) % lengthPagina]]
           w == IF pc[p] = "copy" THEN [m EXCEPT !.contenidoFrames[f] = escrito] ELSE m
<1>1. /\ mem.caida = "no" /\ pc[p] \in {"get", "copy"} /\ n <= UltimaPagina(p)
      /\ Efecto(w)
      /\ local' = [local EXCEPT ![p].pagina = n + 1,
                                ![p].leido = IF pc[p] = "get" THEN @ \o leido ELSE @]
      /\ UNCHANGED <<heaps, limiteLogico, g_mutexPaginas, pc, vivas>>
  BY ZenonT(60) DEF pageFault
<1>2. TiposMuse /\ Semaforo /\ DePrograma(p) /\ EnCurso(p) /\ EsMem(mem) /\ EsLocal(local[p])
  BY ZenonT(60), <1>1 DEF InvTablas, TiposMuse
<1>3. ~ Terminando /\ ~ Terminando' /\ Semaforo'
  BY ZenonT(60), <1>1, <1>2, Trabaja DEF Trabajo
<1>4. Coherente(mem, Nada)
  BY SMTT(30), <1>3 DEF InvTablas
<1>5. n \in Nat /\ EsPagina(mem, <<p, n>>)
  BY ZenonT(60), <1>1, <1>2, PaginaPedida
<1>6. \/ n = 0 /\ m = Caer(mem, "nulo")
      \/ /\ EsMem(m) /\ f \in Frame /\ m.contenidoFrames[f] \in Contenido
         /\ \A q \in Programas : Len(m.tablaPaginas[q]) = Len(mem.tablaPaginas[q])
         /\ \/ mem.swap = Slot /\ m.caida = "swap"
            \/ m.caida = "no" /\ Coherente(m, Nada) /\ m.programas = mem.programas
  <2> HIDE DEF n
  <2> QED BY ZenonT(60), <1>1, <1>2, <1>4, <1>5, Traida
<1> HIDE DEF m, f
<1>7. /\ DOMAIN m = Campos
      /\ m.caida \in {"no", "swap", "nulo"}
      /\ m.caida = "no" => /\ EsMem(m) /\ f \in Frame /\ m.contenidoFrames[f] \in Contenido
                           /\ \A q \in Programas : Len(m.tablaPaginas[q]) = Len(mem.tablaPaginas[q])
                           /\ Coherente(m, Nada) /\ m.programas = mem.programas
  <2>1. CASE n = 0 /\ m = Caer(mem, "nulo")
    <3>1. m.caida = "nulo" /\ DOMAIN m = Campos
      BY <1>2, <2>1 DEF Caer, EsMem, Campos
    <3> QED BY <3>1
  <2>2. CASE ~ (n = 0 /\ m = Caer(mem, "nulo"))
    BY <1>6, <2>2 DEF EsMem
  <2> QED BY <2>1, <2>2
<1>8. ASSUME m.caida = "no", pc[p] = "copy" PROVE escrito \in Contenido
  <2>1. local[p].dato \in Valores /\ dir \in Nat /\ lengthPagina \in Nat
    BY <1>2, <1>8, Constantes DEF DePrograma, EsLocal
  <2> HIDE DEF dir, n
  <2>2. ASSUME NEW k \in 0..(lengthPagina - 1)
        PROVE  Queda(k) \in Byte
    <3>1. n * lengthPagina \in Int
      BY <1>5, Productos
    <3>2. CASE Pedida(n * lengthPagina + k)
      <4>1. n * lengthPagina + k - dir \in Nat
        BY <2>1, <3>1, <3>2
      <4> QED BY <2>1, <3>2, <4>1 DEF Dato, Byte
    <3>3. CASE ~ Pedida(n * lengthPagina + k)
      BY <1>7, <1>8, <3>3 DEF Contenido
    <3> QED BY <3>2, <3>3
  <2> HIDE DEF Queda
  <2> QED BY <2>2 DEF Contenido
<1> HIDE DEF escrito, n, dir
<1>9. w.caida = m.caida
  BY <1>7 DEF Campos
<1>10. ASSUME m.caida = "no"
       PROVE  /\ EsMem(w) /\ Coherente(w, Nada) /\ w.programas = mem.programas
              /\ \A q \in Programas : Len(w.tablaPaginas[q]) = Len(mem.tablaPaginas[q])
  <2>1. CASE pc[p] # "copy"
    BY <1>7, <1>10, <2>1
  <2>2. CASE pc[p] = "copy"
    <3>1. /\ w.programas = m.programas /\ w.tablaPaginas = m.tablaPaginas
          /\ w.marcos = m.marcos /\ w.tablasDePaginas = m.tablasDePaginas
          /\ w.contenidoFrames = [m.contenidoFrames EXCEPT ![f] = escrito] /\ w.swap = m.swap
          /\ w.paginasEnSwap = m.paginasEnSwap /\ w.archivoSwap = m.archivoSwap
          /\ w.punteroClock = m.punteroClock /\ w.caida = m.caida /\ DOMAIN w = Campos
      BY <1>7, <2>2 DEF Campos
    <3>2. /\ w.contenidoFrames \in [Frame -> Contenido \cup {Nada}]
          /\ \A g \in Frame : m.contenidoFrames[g] # Nada => w.contenidoFrames[g] # Nada
      BY <1>7, <1>8, <1>10, <2>2, <3>1, Partes, Constantes
    <3>3. EsMem(w)
      BY <1>7, <1>10, <3>1, <3>2 DEF EsMem
    <3>4. m.marcos \subseteq Frame
      BY <1>7, <1>10, Partes
    <3> HIDE DEF w
    <3>5. Coherente(w, Nada)
      BY SMTT(30), <1>7, <1>10, <3>1, <3>2, <3>4, Parecidas
    <3> QED BY <1>7, <1>10, <3>1, <3>3, <3>5
  <2> QED BY <2>1, <2>2
<1> HIDE DEF w
<1>11. /\ EsMem(mem') /\ mem'.caida = w.caida
       /\ w.caida = "no" => mem' = w
       /\ w.caida # "no" => MismaMemoria(mem, mem') /\ mem'.programas = mem.programas
  <2>1. w.caida \in {"no", "swap", "nulo"} /\ (w.caida = "no" => EsMem(w))
    BY <1>7, <1>9, <1>10
  <2> QED BY <1>1, <1>2, <2>1, Efectos
<1>12. /\ Coherente(mem', Nada) /\ mem'.programas = mem.programas
       /\ \A q \in Programas : Len(mem'.tablaPaginas[q]) = Len(mem.tablaPaginas[q])
  <2>1. CASE w.caida = "no"
    BY <1>9, <1>10, <1>11, <2>1
  <2>2. CASE w.caida # "no"
    BY <1>4, <1>11, <2>2, Parecidas DEF MismaMemoria
  <2> QED BY <2>1, <2>2
<1>13. /\ DOMAIN local' = Programas
       /\ \A q \in Programas \ {p} : local'[q] = local[q]
       /\ DOMAIN local'[p] = DOMAIN local[p] /\ local'[p].pagina = n + 1
       /\ local'[p].dir = local[p].dir /\ local'[p].tam = local[p].tam
       /\ local'[p].dato = local[p].dato /\ local'[p].faltan = local[p].faltan
  <2> HIDE DEF leido
  <2> QED BY <1>1, <1>2 DEF TiposMuse, EsLocal
<1>14. local'[p].leido = IF pc[p] = "get" THEN local[p].leido \o leido ELSE local[p].leido
  <2> HIDE DEF leido
  <2> QED BY <1>1, <1>2 DEF TiposMuse, EsLocal
<1>15. ASSUME local[p].pagina # 0, local[p].leido \in Seq(Byte) PROVE local'[p].leido \in Seq(Byte)
  <2>1. f \in Frame /\ m.contenidoFrames[f] \in [0..(lengthPagina - 1) -> Byte]
    BY <1>6, <1>15 DEF n, Contenido
  <2>2. Len(local[p].leido) \in Nat /\ local[p].dir \in Nat
    BY <1>2, <1>15, LenProperties DEF EsLocal
  <2> DEFINE cant == Cardinality({a \in n * lengthPagina..((n + 1) * lengthPagina - 1) : Pedida(a)})
  <2>3. cant \in Nat
    <3> DEFINE T == n * lengthPagina..((n + 1) * lengthPagina - 1)
    <3>1. n * lengthPagina \in Int /\ (n + 1) * lengthPagina - 1 \in Int
      BY <1>5, Constantes
    <3>2. IsFiniteSet(T)
      BY <3>1, FS_Interval
    <3>3. {a \in T : Pedida(a)} \subseteq T
      OBVIOUS
    <3>4. IsFiniteSet({a \in T : Pedida(a)})
      <4> HIDE DEF T, Pedida
      <4> QED BY <3>2, <3>3, FS_Subset
    <3> QED BY <3>4, FS_CardinalityType
  <2>4. leido = [k \in 1..cant |->
                   m.contenidoFrames[f][(dir + Len(local[p].leido) + k - 1) % lengthPagina]]
    OBVIOUS
  <2> HIDE DEF cant, leido, Pedida
  <2>5. \A k \in 1..cant : leido[k] \in Byte
    <3> SUFFICES ASSUME NEW k \in 1..cant PROVE leido[k] \in Byte
      OBVIOUS
    <3>1. PICK c \in Int : c = dir + Len(local[p].leido) + k - 1
      BY <2>2, <2>3 DEF dir
    <3>2. c % lengthPagina \in 0..(lengthPagina - 1)
      BY Division
    <3>3. leido[k] = m.contenidoFrames[f][c % lengthPagina]
      BY <2>4, <3>1
    <3> QED BY <2>1, <3>2, <3>3
  <2>6. leido \in Seq(Byte)
    <3>1. leido \in [1..cant -> Byte]
      BY <2>4, <2>5
    <3> QED BY <2>3, <3>1, IsASeq
  <2> QED BY <1>14, <1>15, <2>6, ConcatProperties
<1>16. /\ mem'.caida = "nulo" => local[p].pagina = 0
       /\ mem'.caida = "swap" => mem.swap = Slot /\ mem'.swap = mem.swap
  <2>1. CASE n = 0
    <3>1. m = Caer(mem, "nulo") => m.caida # "swap"
      BY <1>2 DEF Caer, EsMem, Campos
    <3>2. m.caida = "swap" => mem.swap = Slot
      BY <1>6, <3>1
    <3> QED BY <1>9, <1>11, <2>1, <3>2 DEF n, MismaMemoria
  <2>2. CASE n # 0
    <3>1. m.caida # "nulo" /\ (m.caida = "swap" => mem.swap = Slot)
      BY <1>6, <2>2
    <3> QED BY <1>9, <1>11, <3>1 DEF n, MismaMemoria
  <2> QED BY <2>1, <2>2
<1> QED BY ZenonT(60), <1>1, <1>5, <1>11, <1>12, <1>13, <1>15, <1>16 DEF n

(* A copy writes in the frame of one page, which no other page has.          *)
LEMMA Escrita ==
  ASSUME NEW m, EsMem(m), Coherente(m, Nada), NEW x \in Entrada, EsPagina(m, x),
         Fila(m, x).flagPresencia, NEW c, NEW w,
         w.tablaPaginas = m.tablaPaginas, w.paginasEnSwap = m.paginasEnSwap,
         w.archivoSwap = m.archivoSwap,
         w.contenidoFrames = [m.contenidoFrames EXCEPT ![Fila(m, x).nroFrame] = c]
  PROVE  MismosBytes(m, w, x) /\ ContenidoDe(w, x) = c
<1> DEFINE f == Fila(m, x).nroFrame
<1>1. f \in Frame /\ m.tablasDePaginas[f] = x
  BY Partes, Constantes DEF Registro, Coherente, PresentesBien
<1>3. w.contenidoFrames[f] = c /\ \A g \in Frame \ {f} : w.contenidoFrames[g] = m.contenidoFrames[g]
  BY <1>1, Partes
<1>4. \A e : Fila(w, e) = Fila(m, e)
  BY DEF Fila
<1>5. ContenidoDe(w, x) = c
  BY <1>3, <1>4 DEF ContenidoDe
<1>6. ASSUME NEW e \in Entrada, EsPagina(m, e), e # x
      PROVE  ContenidoDe(w, e) = ContenidoDe(m, e)
  <2>1. CASE Fila(m, e).flagPresencia
    <3>1. Fila(m, e).nroFrame \in Frame /\ m.tablasDePaginas[Fila(m, e).nroFrame] = e
      BY <1>6, <2>1, Partes, Constantes DEF Registro, Coherente, PresentesBien
    <3>2. Fila(m, e).nroFrame # f
      BY <1>1, <1>6, <3>1
    <3> HIDE DEF f
    <3> QED BY <1>3, <1>4, <2>1, <3>1, <3>2 DEF ContenidoDe
  <2>2. CASE ~ Fila(m, e).flagPresencia
    BY <1>4, <2>2 DEF ContenidoDe
  <2> QED BY <2>1, <2>2
<1> QED BY <1>5, <1>6 DEF MismosBytes

(* A memory that did not change keeps all its contents.                      *)
LEMMA MismosContenidos ==
  ASSUME NEW m, NEW r, MismaMemoria(m, r)
  PROVE  MismosBytes(m, r, Nada) /\ \A e : ContenidoDe(r, e) = ContenidoDe(m, e)
BY DEF MismaMemoria, MismosBytes, ContenidoDe, Fila

(* What a page fault of a copy writes, and what one of a get reads.          *)
LEMMA BytesPageFault ==
  ASSUME Hipotesis, InvTablas, NEW p \in Programas, pageFault(p), local[p].pagina # 0
  PROVE  LET n == local[p].pagina
             c == ContenidoDe(mem, <<p, n>>)
             pedidas == {a \in n * lengthPagina..((n + 1) * lengthPagina - 1) :
                           a \in Direcciones(local[p])}
         IN /\ n <= UltimaPagina(p) /\ EsPagina(mem, <<p, n>>)
            /\ MismosBytes(mem, mem', <<p, n>>)
            /\ pc[p] = "get" \/ mem'.caida # "no" => ContenidoDe(mem', <<p, n>>) = c
            /\ pc[p] = "copy" /\ mem'.caida = "no" =>
                 \A k \in 0..(lengthPagina - 1) :
                   ContenidoDe(mem', <<p, n>>)[k] =
                     IF n * lengthPagina + k \in Direcciones(local[p])
                     THEN Dato(local[p].dato, (n * lengthPagina + k) - local[p].dir) ELSE c[k]
            /\ pc[p] = "get" =>
                 local'[p].leido = local[p].leido
                   \o [k \in 1..Cardinality(pedidas) |->
                         c[(local[p].dir + Len(local[p].leido) + k - 1) % lengthPagina]]
<1> DEFINE n == local[p].pagina
           x == <<p, n>>
           c == ContenidoDe(mem, x)
           dir == local[p].dir
           m == IF mem.tablaPaginas[p][n + 1].flagPresencia THEN mem
                ELSE TraerPaginaDeSwap(mem, p, n)
           f == m.tablaPaginas[p][n + 1].nroFrame
           Pedida(a) == a \in dir..(dir + local[p].tam - 1)
           Queda(k) == LET a == n * lengthPagina + k IN
                       IF Pedida(a) THEN Dato(local[p].dato, a - dir)
                       ELSE m.contenidoFrames[f][k]
           escrito == [k \in 0..(lengthPagina - 1) |-> Queda(k)]
           cant == Cardinality({a \in n * lengthPagina..((n + 1) * lengthPagina - 1) : Pedida(a)})
           leido == [k \in 1..cant |->
                       m.contenidoFrames[f][(dir + Len(local[p].leido) + k - 1) % lengthPagina]]
           w == IF pc[p] = "copy" THEN [m EXCEPT !.contenidoFrames[f] = escrito] ELSE m
<1>1. /\ mem.caida = "no" /\ pc[p] \in {"get", "copy"} /\ n <= UltimaPagina(p)
      /\ Efecto(w)
      /\ local' = [local EXCEPT ![p].pagina = n + 1,
                                ![p].leido = IF pc[p] = "get" THEN @ \o leido ELSE @]
      /\ UNCHANGED pc
  BY ZenonT(60) DEF pageFault
<1>2. TiposMuse /\ Semaforo /\ DePrograma(p) /\ EnCurso(p) /\ EsMem(mem) /\ EsLocal(local[p])
  BY ZenonT(60), <1>1 DEF InvTablas, TiposMuse
<1>3. ~ Terminando
  BY ZenonT(60), <1>1, <1>2, Constantes DEF Trabajo, Semaforo
<1>4. Coherente(mem, Nada)
  BY SMTT(30), <1>3 DEF InvTablas
<1>5. n \in Nat /\ EsPagina(mem, <<p, n>>)
  BY ZenonT(60), <1>1, <1>2, PaginaPedida
<1>6. /\ EsMem(m) /\ f \in Frame /\ f = Fila(m, x).nroFrame /\ m.contenidoFrames[f] = c
      /\ \/ m.caida = "swap"
         \/ /\ m.caida = "no" /\ Coherente(m, Nada) /\ EsPagina(m, x)
            /\ \A e \in Entrada : EsPagina(mem, e) => EsPagina(m, e)
            /\ Fila(m, x).flagPresencia /\ MismosBytes(mem, m, Nada)
  <2>1. /\ EsMem(m) /\ f \in Frame /\ m.contenidoFrames[f] = ContenidoDe(mem, <<p, n>>)
        /\ \A q \in Programas : Len(m.tablaPaginas[q]) = Len(mem.tablaPaginas[q])
        /\ \/ m.caida = "swap"
           \/ /\ m.caida = "no" /\ Coherente(m, Nada)
              /\ Fila(m, <<p, n>>).flagPresencia /\ MismosBytes(mem, m, Nada)
    <3>1. n # 0
      OBVIOUS
    <3> HIDE DEF n
    <3> QED BY ZenonT(60), <1>1, <1>2, <1>4, <1>5, <3>1, Traida
  <2> HIDE DEF m
  <2>2. f = Fila(m, <<p, n>>).nroFrame
    BY DEF Fila
  <2>3. EsPagina(m, <<p, n>>) /\ \A e \in Entrada : EsPagina(mem, e) => EsPagina(m, e)
    BY <1>5, <2>1, Constantes DEF EsPagina
  <2> HIDE DEF f, n
  <2> QED BY <2>1, <2>2, <2>3
<1> HIDE DEF m, f
<1>7. local'[p].leido = IF pc[p] = "get" THEN local[p].leido \o leido ELSE local[p].leido
  <2> HIDE DEF leido
  <2> QED BY <1>1, <1>2 DEF TiposMuse, EsLocal
<1>8. leido = [k \in 1..cant |-> c[(dir + Len(local[p].leido) + k - 1) % lengthPagina]]
  <2> HIDE DEF c, cant, dir
  <2> QED BY <1>6
<1>9. Direcciones(local[p]) = dir..(dir + local[p].tam - 1)
  BY DEF Direcciones
<1>10. \A k \in 0..(lengthPagina - 1) :
         escrito[k] = IF n * lengthPagina + k \in Direcciones(local[p])
                      THEN Dato(local[p].dato, (n * lengthPagina + k) - dir) ELSE c[k]
  <2> SUFFICES ASSUME NEW k \in 0..(lengthPagina - 1)
               PROVE  escrito[k] = IF n * lengthPagina + k \in Direcciones(local[p])
                                   THEN Dato(local[p].dato, (n * lengthPagina + k) - dir) ELSE c[k]
    OBVIOUS
  <2>1. escrito[k] = Queda(k)
    <3> HIDE DEF Queda
    <3> QED OBVIOUS
  <2>2. Pedida(n * lengthPagina + k) <=> n * lengthPagina + k \in Direcciones(local[p])
    BY <1>9
  <2>3. Queda(k) = IF Pedida(n * lengthPagina + k) THEN Dato(local[p].dato, (n * lengthPagina + k) - dir)
                   ELSE m.contenidoFrames[f][k]
    BY DEF Queda
  <2> HIDE DEF escrito, Queda, Pedida, c, dir, n
  <2> QED BY <1>6, <2>1, <2>2, <2>3
<1>11. x \in Entrada
  BY <1>5 DEF Entrada
<1> HIDE DEF escrito, c
<1>12. CASE m.caida = "swap"
  <2>1. w.caida = "swap"
    <3>1. DOMAIN m = Campos
      BY <1>6 DEF EsMem
    <3> QED BY <1>12, <3>1 DEF Campos
  <2> HIDE DEF w
  <2>2. mem'.caida = "swap" /\ MismaMemoria(mem, mem')
    BY <1>1, <1>2, <2>1, Efectos
  <2>3. MismosBytes(mem, mem', x) /\ ContenidoDe(mem', x) = c
    <3>1. \A e : ContenidoDe(mem', e) = ContenidoDe(mem, e)
      BY <2>2, MismosContenidos
    <3> QED BY <3>1 DEF MismosBytes, c
  <2> HIDE DEF n
  <2> QED BY <1>1, <1>5, <1>7, <1>8, <1>9, <2>2, <2>3 DEF c, x, n
<1>13. CASE m.caida = "no" /\ pc[p] = "get"
  <2>1. mem' = m
    BY <1>1, <1>13 DEF Efecto
  <2>2. MismosBytes(mem, m, x) /\ ContenidoDe(m, x) = c
    BY <1>5, <1>6, <1>11, <1>13, Constantes DEF MismosBytes, c
  <2> QED BY <1>1, <1>5, <1>7, <1>8, <1>9, <1>13, <2>1, <2>2 DEF c
<1>14. CASE m.caida = "no" /\ pc[p] = "copy"
  <2>1. /\ w.tablaPaginas = m.tablaPaginas /\ w.paginasEnSwap = m.paginasEnSwap
        /\ w.archivoSwap = m.archivoSwap
        /\ w.contenidoFrames = [m.contenidoFrames EXCEPT ![Fila(m, x).nroFrame] = escrito]
    BY <1>6, <1>14 DEF EsMem, Campos
  <2>2. w.caida = "no"
    BY <1>6, <1>14 DEF EsMem, Campos
  <2> HIDE DEF w
  <2>3. mem' = w
    BY <1>1, <2>2 DEF Efecto
  <2>4. MismosBytes(m, w, x) /\ ContenidoDe(w, x) = escrito
    <3>1. /\ EsMem(m) /\ Coherente(m, Nada) /\ EsPagina(m, x) /\ Fila(m, x).flagPresencia
      BY <1>6, <1>14
    <3> HIDE DEF x
    <3>2. PICK M : M = m
      OBVIOUS
    <3>3. PICK W : W = w
      OBVIOUS
    <3>4. PICK E : E = escrito
      OBVIOUS
    <3>5. /\ W.tablaPaginas = M.tablaPaginas /\ W.paginasEnSwap = M.paginasEnSwap
          /\ W.archivoSwap = M.archivoSwap
          /\ W.contenidoFrames = [M.contenidoFrames EXCEPT ![Fila(M, x).nroFrame] = E]
      BY ONLY <2>1, <3>2, <3>3, <3>4
    <3>6. EsMem(M) /\ Coherente(M, Nada) /\ EsPagina(M, x) /\ Fila(M, x).flagPresencia
      BY ONLY <3>1, <3>2
    <3>7. MismosBytes(M, W, x) /\ ContenidoDe(W, x) = E
      BY ONLY <1>11, <3>5, <3>6, Escrita
    <3> QED BY ONLY <3>2, <3>3, <3>4, <3>7
  <2>5. MismosBytes(mem, w, x)
    <3>1. \A e \in Entrada : EsPagina(mem, e) => EsPagina(m, e)
      BY <1>6, <1>14
    <3> QED BY <1>6, <1>14, <2>4, <3>1, Constantes DEF MismosBytes
  <2> QED BY <1>1, <1>5, <1>10, <1>14, <2>2, <2>3, <2>4, <2>5 DEF c
<1> QED BY <1>1, <1>6, <1>12, <1>13, <1>14

LEMMA PasoPageFault ==
  ASSUME Hipotesis, InvTablas, NEW p \in Programas, pageFault(p)
  PROVE  InvTablas'
<1>1. /\ mem.caida = "no" /\ pc[p] \in {"get", "copy"} /\ local[p].pagina \in Nat
      /\ UNCHANGED <<heaps, limiteLogico, g_mutexPaginas, pc, vivas>>
      /\ EsMem(mem') /\ Coherente(mem', Nada) /\ mem'.programas = mem.programas
      /\ \A q \in Programas : Len(mem'.tablaPaginas[q]) = Len(mem.tablaPaginas[q])
      /\ DOMAIN local' = Programas
      /\ \A q \in Programas \ {p} : local'[q] = local[q]
      /\ DOMAIN local'[p] = DOMAIN local[p] /\ local'[p].pagina = local[p].pagina + 1
      /\ local'[p].dir = local[p].dir /\ local'[p].tam = local[p].tam
      /\ local'[p].dato = local[p].dato /\ local'[p].faltan = local[p].faltan
  BY EfectoPageFault
<1>2. TiposMuse /\ Semaforo /\ DePrograma(p) /\ EnCurso(p) /\ EsLocal(local[p])
  BY <1>1 DEF InvTablas, TiposMuse
<1>3. ~ Terminando /\ ~ Terminando' /\ Semaforo'
  BY <1>1, <1>2, Trabaja DEF Trabajo
<1>4. TiposMuse'
  <2>1. EsLocal(local'[p])
    BY <1>1, <1>2 DEF EsLocal
  <2>2. \A q \in Programas : EsLocal(local'[q])
    BY <1>1, <1>2, <2>1 DEF TiposMuse
  <2> QED BY <1>1, <1>2, <2>2 DEF TiposMuse
<1>5. Vigentes'
  BY <1>1, <1>3, SonVigentes
<1>6. DePrograma(p)'
  BY <1>1, <1>2 DEF DePrograma
<1>7. EnCurso(p)'
  <2>1. /\ pc'[p] # "alloc" /\ limiteLogico'[p] = limiteLogico[p]
        /\ local[p].dir + local[p].tam <= limiteLogico[p]
    BY <1>1, <1>2 DEF EnCurso
  <2>2. local[p].pagina + 1 >= 0
    BY <1>1
  <2> QED BY <1>1, <2>1, <2>2 DEF EnCurso
<1> QED BY <1>1, <1>3, <1>4, <1>5, <1>6, <1>7, Conserva

LEMMA PasoRespuesta ==
  ASSUME Hipotesis, InvTablas, NEW p \in Programas, enviarRespuesta(p)
  PROVE  InvTablas'
<1>1. /\ mem.caida = "no" /\ pc[p] \in {"get", "copy"}
      /\ g_mutexPaginas' = Nada
      /\ local' = [local EXCEPT ![p] = LocalInicial]
      /\ pc' = [pc EXCEPT ![p] = "libre"]
      /\ UNCHANGED <<heaps, limiteLogico, mem, vivas>>
  BY DEF enviarRespuesta, Ir
<1>2. TiposMuse /\ Semaforo /\ DePrograma(p) /\ EsMem(mem)
  BY <1>1 DEF InvTablas, TiposMuse
<1>3. Semaforo' /\ ~ Terminando /\ ~ Terminando'
  <2>1. pc[p] \in Trabajo /\ "libre" \notin {"cerrando", "cerrado"} \cup Trabajo
    BY <1>1 DEF Trabajo
  <2> QED BY <1>1, <1>2, <2>1, Suelta
<1>4. EsMem(mem') /\ Coherente(mem', Nada)
  BY <1>1, <1>2, <1>3 DEF InvTablas
<1>5. \A r \in Programas : /\ pc'[r] = IF r = p THEN "libre" ELSE pc[r]
                           /\ local'[r] = IF r = p THEN LocalInicial ELSE local[r]
  BY <1>1, <1>2 DEF TiposMuse
<1>6. TiposMuse'
  <2>1. pc' \in [Programas -> Donde]
    BY <1>1, <1>2 DEF TiposMuse, Donde
  <2>2. DOMAIN local' = Programas /\ \A r \in Programas : EsLocal(local'[r])
    BY <1>1, <1>2, <1>5, Inicial DEF TiposMuse
  <2> QED BY <1>1, <1>2, <2>1, <2>2 DEF TiposMuse
<1>7. Vigentes'
  BY <1>3, <1>4, SonVigentes
<1>8. DePrograma(p)' /\ EnCurso(p)'
  BY <1>1, <1>2, <1>5 DEF DePrograma, EnCurso
<1> QED BY <1>1, <1>3, <1>4, <1>5, <1>6, <1>7, <1>8, Conserva

LEMMA PasoDesconectar ==
  ASSUME Hipotesis, InvTablas, NEW p \in Programas, Desconectar(p)
  PROVE  InvTablas'
<1>1. /\ mem.caida = "no" /\ pc[p] = "libre" /\ ~ Terminando
      /\ pc' = [pc EXCEPT ![p] = "muerto"]
      /\ UNCHANGED <<heaps, limiteLogico, mem, g_mutexPaginas, local, vivas>>
  BY DEF Desconectar, Sigue, Hipotesis, Ir
<1>2. TiposMuse /\ Semaforo /\ Coherente(mem, Nada) /\ DePrograma(p) /\ EsMem(mem)
  BY <1>1 DEF InvTablas, TiposMuse
<1>3. \A q \in Programas : pc'[q] = IF q = p THEN "muerto" ELSE pc[q]
  BY <1>1, <1>2 DEF TiposMuse
<1>4. TiposMuse'
  BY <1>1, <1>2 DEF TiposMuse, Donde
<1>5. ~ Terminando' /\ Semaforo'
  BY <1>1, <1>2, <1>3 DEF Terminando, Semaforo, Trabajo
<1>6. Vigentes'
  BY <1>1, <1>2, <1>5, SonVigentes
<1>7. DePrograma(p)' /\ EnCurso(p)'
  BY <1>1, <1>2, <1>3 DEF DePrograma, EnCurso
<1> QED BY <1>1, <1>2, <1>3, <1>4, <1>5, <1>6, <1>7, Conserva

(* Closing: FinalizarPrograma, and one page after another. *)
LEMMA PasoFinalizar ==
  ASSUME Hipotesis, InvTablas, NEW p \in Programas, FinalizarPrograma(p)
  PROVE  InvTablas'
<1>1. /\ mem.caida = "no" /\ pc[p] = "libre" /\ g_mutexPaginas = Nada
      /\ mem' = [mem EXCEPT !.programas = @ \ {p}]
      /\ vivas' = [vivas EXCEPT ![p] = <<>>]
      /\ pc' = [pc EXCEPT ![p] = "cerrando"]
      /\ UNCHANGED <<heaps, limiteLogico, g_mutexPaginas, local>>
  BY DEF FinalizarPrograma, Sigue, Hipotesis, Ir
<1>2. TiposMuse /\ Semaforo /\ DePrograma(p) /\ EsMem(mem) /\ Vigentes
  BY <1>1 DEF InvTablas, TiposMuse
<1>3. /\ mem'.programas = mem.programas \ {p} /\ mem'.tablaPaginas = mem.tablaPaginas
      /\ mem'.tablasDePaginas = mem.tablasDePaginas /\ EsMem(mem') /\ mem'.caida = mem.caida
  BY <1>1, <1>2 DEF EsMem, Campos
<1>4. \A q \in Programas : pc'[q] = IF q = p THEN "cerrando" ELSE pc[q]
  BY <1>1, <1>2 DEF TiposMuse
<1>5. TiposMuse'
  <2>1. pc' \in [Programas -> Donde]
    BY <1>1, <1>2 DEF TiposMuse, Donde
  <2>2. vivas' \in [Programas -> Seq(Porcion)]
    <3>1. <<>> \in Seq(Porcion)
      BY EmptySeq
    <3> QED BY <1>1, <1>2, <3>1 DEF TiposMuse
  <2> QED BY <1>1, <1>2, <1>3, <2>1, <2>2 DEF TiposMuse
<1>6. Semaforo' /\ Terminando'
  BY <1>1, <1>2, <1>4 DEF Semaforo, Trabajo, Terminando
<1>7. local[p] = LocalInicial /\ local[p].pagina = 0
  BY <1>1, <1>2, Inicial DEF DePrograma
<1>8. Vigentes'
  <2> SUFFICES ASSUME NEW f \in Frame, mem'.tablasDePaginas[f] # Nada
               PROVE  LET e == mem'.tablasDePaginas[f] IN
                      /\ EntradaBien(mem', f)
                      /\ pc'[e[1]] # "cerrado"
                      /\ pc'[e[1]] = "cerrando" => e[2] >= local'[e[1]].pagina
    BY DEF Vigentes
  <2>1. /\ EntradaBien(mem, f) /\ pc[mem.tablasDePaginas[f][1]] # "cerrado"
        /\ pc[mem.tablasDePaginas[f][1]] = "cerrando" =>
             mem.tablasDePaginas[f][2] >= local[mem.tablasDePaginas[f][1]].pagina
    BY <1>2, <1>3 DEF Vigentes
  <2>2. EntradaBien(mem', f)
    BY <1>3, <2>1 DEF EntradaBien, EsPagina, Fila
  <2>3. mem.tablasDePaginas[f][1] \in Programas /\ mem.tablasDePaginas[f][2] \in Nat
    BY <2>1, Constantes DEF EntradaBien, EsPagina
  <2> QED BY <1>1, <1>3, <1>4, <1>7, <2>1, <2>2, <2>3
<1>9. DePrograma(p)'
  <2>1. Len(mem.tablaPaginas[p]) \in Nat
    BY <1>2, Partes
  <2> QED BY <1>1, <1>2, <1>3, <1>4, <1>7, <2>1 DEF DePrograma
<1>10. EnCurso(p)'
  BY <1>4 DEF EnCurso
<1> QED BY <1>1, <1>3, <1>4, <1>5, <1>6, <1>8, <1>9, <1>10, Conserva

LEMMA PasoDestruirPagina ==
  ASSUME Hipotesis, InvTablas, NEW p \in Programas, destruirPagina(p)
  PROVE  InvTablas'
<1> DEFINE t == mem.tablaPaginas[p]
           n == local[p].pagina
           f == t[n + 1].nroFrame
           presente == t[n + 1].flagPresencia
<1>1. /\ mem.caida = "no" /\ pc[p] = "cerrando" /\ n < Len(t)
      /\ mem' = IF presente
                THEN [mem EXCEPT !.marcos = @ \ {f}, !.tablasDePaginas[f] = Nada]
                ELSE [mem EXCEPT !.swap = @ \ {f},
                                 !.paginasEnSwap = [s \in Slot |-> IF s = f THEN Nada ELSE @[s]]]
      /\ local' = [local EXCEPT ![p].pagina = n + 1]
      /\ UNCHANGED <<heaps, limiteLogico, g_mutexPaginas, pc, vivas>>
  BY DEF destruirPagina, Sigue
<1>2. /\ TiposMuse /\ Semaforo /\ DePrograma(p) /\ EsMem(mem) /\ EsLocal(local[p]) /\ Vigentes
      /\ Len(t) \in Nat
  BY <1>1, Partes DEF InvTablas, TiposMuse
<1>3. n \in Nat /\ n + 1 \in 1..Len(t) /\ Fila(mem, <<p, n>>) = t[n + 1]
  BY <1>1, <1>2 DEF DePrograma, Fila
<1>4. f \in Frame
  <2>1. t[n + 1] \in Registro
    <3>1. t \in Seq(Registro)
      BY <1>2, Partes
    <3> HIDE DEF t, n
    <3> QED BY <1>3, <3>1, ElementOfSeq
  <2> QED BY <2>1 DEF Registro
<1> HIDE DEF f
<1>5. /\ EsMem(mem') /\ mem'.programas = mem.programas /\ mem'.tablaPaginas = mem.tablaPaginas
      /\ mem'.caida = mem.caida
      /\ mem'.tablasDePaginas = IF presente THEN [mem.tablasDePaginas EXCEPT ![f] = Nada]
                                ELSE mem.tablasDePaginas
  <2>1. CASE presente
    <3>1. mem' = [mem EXCEPT !.marcos = @ \ {f}, !.tablasDePaginas[f] = Nada]
      BY <1>1, <2>1
    <3>2. /\ mem'.programas = mem.programas /\ mem'.tablaPaginas = mem.tablaPaginas
          /\ mem'.marcos = mem.marcos \ {f}
          /\ mem'.tablasDePaginas = [mem.tablasDePaginas EXCEPT ![f] = Nada]
          /\ mem'.contenidoFrames = mem.contenidoFrames /\ mem'.swap = mem.swap
          /\ mem'.paginasEnSwap = mem.paginasEnSwap /\ mem'.archivoSwap = mem.archivoSwap
          /\ mem'.punteroClock = mem.punteroClock /\ mem'.caida = mem.caida /\ DOMAIN mem' = Campos
      BY <1>2, <3>1 DEF EsMem, Campos
    <3>3. mem'.tablasDePaginas \in [Frame -> Entrada \cup {Nada}]
      BY <1>2, <1>4, <3>2, Partes
    <3>4. EsMem(mem')
      BY <1>2, <3>2, <3>3 DEF EsMem
    <3> QED BY <2>1, <3>2, <3>4
  <2>2. CASE ~ presente
    <3>1. mem' = [mem EXCEPT !.swap = @ \ {f},
                             !.paginasEnSwap = [s \in Slot |-> IF s = f THEN Nada ELSE @[s]]]
      BY <1>1, <2>2
    <3>2. /\ mem'.programas = mem.programas /\ mem'.tablaPaginas = mem.tablaPaginas
          /\ mem'.marcos = mem.marcos /\ mem'.tablasDePaginas = mem.tablasDePaginas
          /\ mem'.contenidoFrames = mem.contenidoFrames /\ mem'.swap = mem.swap \ {f}
          /\ mem'.paginasEnSwap = [s \in Slot |-> IF s = f THEN Nada ELSE mem.paginasEnSwap[s]]
          /\ mem'.archivoSwap = mem.archivoSwap
          /\ mem'.punteroClock = mem.punteroClock /\ mem'.caida = mem.caida /\ DOMAIN mem' = Campos
      BY <1>2, <3>1 DEF EsMem, Campos
    <3>3. mem'.paginasEnSwap \in [Slot -> Entrada \cup {Nada}]
      BY <1>2, <3>2, Partes
    <3>4. EsMem(mem')
      BY <1>2, <3>2, <3>3 DEF EsMem
    <3> QED BY <2>2, <3>2, <3>4
  <2> QED BY <2>1, <2>2
<1>6. /\ DOMAIN local' = Programas
      /\ \A q \in Programas \ {p} : local'[q] = local[q]
      /\ DOMAIN local'[p] = DOMAIN local[p] /\ local'[p].pagina = n + 1
      /\ local'[p].dir = local[p].dir /\ local'[p].tam = local[p].tam
      /\ local'[p].dato = local[p].dato /\ local'[p].faltan = local[p].faltan
  BY <1>1, <1>2 DEF TiposMuse, EsLocal
<1> HIDE DEF n, presente
<1>7. TiposMuse'
  <2>1. EsLocal(local'[p])
    BY <1>2, <1>3, <1>6 DEF EsLocal
  <2>2. \A q \in Programas : EsLocal(local'[q])
    BY <1>2, <1>6, <2>1 DEF TiposMuse
  <2> QED BY <1>1, <1>2, <1>5, <1>6, <2>2 DEF TiposMuse
<1>8. Semaforo' /\ Terminando'
  BY <1>1, <1>2 DEF Semaforo, Terminando
<1>9. Vigentes'
  <2> SUFFICES ASSUME NEW g \in Frame, mem'.tablasDePaginas[g] # Nada
               PROVE  LET e == mem'.tablasDePaginas[g] IN
                      /\ EntradaBien(mem', g)
                      /\ pc'[e[1]] # "cerrado"
                      /\ pc'[e[1]] = "cerrando" => e[2] >= local'[e[1]].pagina
    BY DEF Vigentes
  <2>1. mem'.tablasDePaginas[g] = mem.tablasDePaginas[g] /\ (presente => g # f)
    BY <1>2, <1>4, <1>5, Partes
  <2>2. PICK e : e = mem.tablasDePaginas[g]
    OBVIOUS
  <2>3. /\ EntradaBien(mem, g) /\ pc[e[1]] # "cerrado"
        /\ pc[e[1]] = "cerrando" => e[2] >= local[e[1]].pagina
    BY SMTT(30), <1>2, <2>1, <2>2 DEF Vigentes
  <2>4. EntradaBien(mem', g)
    BY ZenonT(60), <1>5, <2>1, <2>3 DEF EntradaBien, EsPagina, Fila
  <2>5. /\ e[1] \in Programas /\ e[2] \in Nat /\ e = <<e[1], e[2]>>
        /\ Fila(mem, e).flagPresencia /\ Fila(mem, e).nroFrame = g
    BY <2>2, <2>3, Constantes DEF EntradaBien, EsPagina
  <2>6. CASE e[1] = p
    <3>1. e[2] >= n
      BY <1>1, <2>3, <2>6 DEF n
    <3>2. e[2] # n
      <4> SUFFICES ASSUME e[2] = n PROVE FALSE
        OBVIOUS
      <4>1. e = <<p, n>>
        BY <2>5, <2>6
      <4>2. presente /\ g = f
        BY <1>3, <2>5, <4>1 DEF presente, f, n
      <4> QED BY <2>1, <4>2
    <3> QED BY <1>1, <1>3, <1>6, <2>1, <2>2, <2>3, <2>4, <2>5, <2>6, <3>1, <3>2
  <2>7. CASE e[1] # p
    BY <1>1, <1>6, <2>1, <2>2, <2>3, <2>4, <2>5, <2>7
  <2> QED BY <2>6, <2>7
<1>10. DePrograma(p)'
  BY <1>1, <1>2, <1>3, <1>5, <1>6 DEF DePrograma
<1>11. EnCurso(p)'
  BY <1>1 DEF EnCurso
<1> QED BY <1>1, <1>5, <1>6, <1>7, <1>8, <1>9, <1>10, <1>11, Conserva

LEMMA PasoDestruirSegmento ==
  ASSUME Hipotesis, InvTablas, NEW p \in Programas, destruirSegmento(p)
  PROVE  InvTablas'
<1>1. /\ mem.caida = "no" /\ pc[p] = "cerrando" /\ local[p].pagina = Len(mem.tablaPaginas[p])
      /\ mem' = [mem EXCEPT !.tablaPaginas[p] = <<>>]
      /\ heaps' = [heaps EXCEPT ![p] = <<>>]
      /\ limiteLogico' = [limiteLogico EXCEPT ![p] = 0]
      /\ local' = [local EXCEPT ![p] = LocalInicial]
      /\ pc' = [pc EXCEPT ![p] = "cerrado"]
      /\ UNCHANGED <<g_mutexPaginas, vivas>>
  BY DEF destruirSegmento, Sigue, Ir
<1>2. TiposMuse /\ Semaforo /\ DePrograma(p) /\ EsMem(mem) /\ Vigentes
  BY <1>1 DEF InvTablas, TiposMuse
<1>3. /\ mem'.programas = mem.programas /\ mem'.tablasDePaginas = mem.tablasDePaginas
      /\ mem'.tablaPaginas = [mem.tablaPaginas EXCEPT ![p] = <<>>]
      /\ mem'.caida = mem.caida /\ EsMem(mem')
  <2>1. /\ mem'.programas = mem.programas
        /\ mem'.tablaPaginas = [mem.tablaPaginas EXCEPT ![p] = <<>>]
        /\ mem'.marcos = mem.marcos /\ mem'.tablasDePaginas = mem.tablasDePaginas
        /\ mem'.contenidoFrames = mem.contenidoFrames /\ mem'.swap = mem.swap
        /\ mem'.paginasEnSwap = mem.paginasEnSwap /\ mem'.archivoSwap = mem.archivoSwap
        /\ mem'.punteroClock = mem.punteroClock /\ mem'.caida = mem.caida /\ DOMAIN mem' = Campos
    BY <1>1, <1>2 DEF EsMem, Campos
  <2>2. <<>> \in Seq(Registro)
    BY EmptySeq
  <2>3. mem'.tablaPaginas \in [Programas -> Seq(Registro)]
    BY <1>2, <2>1, <2>2, Partes
  <2> QED BY <1>2, <2>1, <2>3 DEF EsMem
<1>4. \A q \in Programas : /\ pc'[q] = IF q = p THEN "cerrado" ELSE pc[q]
                           /\ local'[q] = IF q = p THEN LocalInicial ELSE local[q]
                           /\ mem'.tablaPaginas[q] = IF q = p THEN <<>> ELSE mem.tablaPaginas[q]
                           /\ limiteLogico'[q] = IF q = p THEN 0 ELSE limiteLogico[q]
  BY <1>1, <1>2, <1>3, Partes DEF TiposMuse
<1>5. TiposMuse'
  <2>1. pc' \in [Programas -> Donde] /\ limiteLogico' \in [Programas -> Int]
    BY <1>1, <1>2 DEF TiposMuse, Donde
  <2>2. <<>> \in Seq(TChunk)
    BY EmptySeq
  <2>3. heaps' \in [Programas -> Seq(TChunk)]
    BY <1>1, <1>2, <2>2 DEF TiposMuse
  <2>4. DOMAIN local' = Programas /\ \A q \in Programas : EsLocal(local'[q])
    BY <1>1, <1>2, <1>4, Inicial DEF TiposMuse
  <2> QED BY <1>1, <1>2, <1>3, <2>1, <2>3, <2>4 DEF TiposMuse
<1>6. Semaforo' /\ Terminando'
  BY <1>1, <1>2, <1>4 DEF Semaforo, Trabajo, Terminando
<1>7. Vigentes'
  <2> SUFFICES ASSUME NEW f \in Frame, mem'.tablasDePaginas[f] # Nada
               PROVE  LET e == mem'.tablasDePaginas[f] IN
                      /\ EntradaBien(mem', f)
                      /\ pc'[e[1]] # "cerrado"
                      /\ pc'[e[1]] = "cerrando" => e[2] >= local'[e[1]].pagina
    BY DEF Vigentes
  <2>1. PICK e : e = mem.tablasDePaginas[f]
    OBVIOUS
  <2>2. /\ EntradaBien(mem, f) /\ pc[e[1]] # "cerrado"
        /\ pc[e[1]] = "cerrando" => e[2] >= local[e[1]].pagina
    BY <1>2, <1>3, <2>1 DEF Vigentes
  <2>3. e[1] \in Programas /\ e[2] \in Nat /\ e[2] < Len(mem.tablaPaginas[e[1]])
    BY <2>1, <2>2, Constantes DEF EntradaBien, EsPagina
  <2>4. e[1] # p
    <3> SUFFICES ASSUME e[1] = p PROVE FALSE
      OBVIOUS
    <3>1. Len(mem.tablaPaginas[p]) \in Nat
      BY SMTT(30), <1>2, Partes
    <3> QED BY <1>1, <2>2, <2>3, <3>1
  <2>5. EntradaBien(mem', f)
    BY SMTT(60), <1>3, <1>4, <2>1, <2>2, <2>3, <2>4 DEF EntradaBien, EsPagina, Fila
  <2> QED BY <1>3, <1>4, <2>1, <2>2, <2>3, <2>4, <2>5
<1>8. DePrograma(p)' /\ EnCurso(p)'
  <2>1. Len(<<>>) = 0 /\ 0 * lengthPagina = 0
    BY EmptySeq, Constantes
  <2> QED BY <1>1, <1>4, <2>1 DEF DePrograma, EnCurso
<1> QED BY <1>1, <1>3, <1>4, <1>5, <1>6, <1>7, <1>8, Conserva

(* The initial state and the steps.                                          *)
LEMMA Inicio ==
  ASSUME Init
  PROVE  InvTablas
<1>1. EsMem(mem)
  <2>1. /\ mem.programas = {} /\ mem.tablaPaginas = [p \in Programas |-> <<>>]
        /\ mem.marcos = {} /\ mem.tablasDePaginas = [f \in Frame |-> Nada]
        /\ mem.contenidoFrames = [f \in Frame |-> Nada] /\ mem.swap = {}
        /\ mem.paginasEnSwap = [s \in Slot |-> Nada]
        /\ mem.archivoSwap = [s \in Slot |-> PaginaEnCero]
        /\ mem.punteroClock = 0 /\ mem.caida = "no" /\ DOMAIN mem = Campos
    BY DEF Init, Campos
  <2>2. <<>> \in Seq(Registro) /\ 0 \in Frame
    BY EmptySeq, Constantes DEF Frame
  <2> QED BY <2>1, <2>2, Constantes DEF EsMem
<1>2. TiposMuse
  <2>1. <<>> \in Seq(TChunk) /\ <<>> \in Seq(Porcion)
    BY EmptySeq
  <2> QED BY <1>1, <2>1, Inicial DEF Init, TiposMuse, Donde
<1>3. Semaforo
  BY Constantes DEF Init, Semaforo, Trabajo, Terminando
<1>4. /\ \A e \in Entrada : ~ EsPagina(mem, e)
      /\ \A f \in Frame : mem.tablasDePaginas[f] = Nada
      /\ \A s \in Slot : mem.paginasEnSwap[s] = Nada
  <2>1. Len(<<>>) = 0
    BY EmptySeq
  <2> QED BY <2>1, Constantes DEF Init, EsPagina
<1>5. Coherente(mem, Nada)
  BY <1>4 DEF Init, Coherente, EntradasBien, PresentesBien, MarcosBien, ConContenido, SlotsBien,
              AusentesBien, SlotsUnicos, Listados
<1>6. Vigentes
  BY <1>4 DEF Vigentes
<1>7. \A p \in Programas : DePrograma(p) /\ EnCurso(p)
  <2>1. Len(<<>>) = 0 /\ 0 * lengthPagina = 0
    BY EmptySeq, Constantes
  <2> QED BY <2>1, Inicial DEF Init, DePrograma, EnCurso
<1> QED BY <1>2, <1>3, <1>5, <1>6, <1>7 DEF InvTablas

LEMMA Paso ==
  ASSUME Hipotesis, InvTablas, [Next]_vars
  PROVE  InvTablas'
<1>1. ASSUME NEW p \in Programas, Servir(p) PROVE InvTablas'
  BY <1>1, PasoAgregar, PasoRespuestaAlloc, PasoPageFault, PasoRespuesta, PasoDestruirPagina,
     PasoDestruirSegmento DEF Servir
<1>2. ASSUME NEW p \in Programas, Pedir(p) PROVE InvTablas'
  <2>1. CASE InicializarNuevoPrograma(p) \/ FinalizarPrograma(p) \/ Desconectar(p)
    BY <2>1, PasoInicializar, PasoFinalizar, PasoDesconectar
  <2>2. CASE \E tam \in Tamanios[p] : procesarAlloc(p, tam)
    BY <2>2, PasoAlloc
  <2>3. ASSUME NEW k \in DOMAIN vivas[p], procesarFree(p, k) PROVE InvTablas'
    BY <2>3, PasoFree
  <2>4. ASSUME NEW k \in DOMAIN vivas[p], procesarGet(p, k) PROVE InvTablas'
    BY <2>4, PasoAcceder DEF procesarGet
  <2>5. ASSUME NEW k \in DOMAIN vivas[p], NEW v \in Valores, procesarCopy(p, k, v) PROVE InvTablas'
    BY <2>5, PasoAcceder DEF procesarCopy
  <2> QED BY <1>2, <2>1, <2>2, <2>3, <2>4, <2>5 DEF Pedir
<1>3. CASE UNCHANGED vars
  BY <1>3 DEF vars, InvTablas, TiposMuse, Semaforo, Terminando, Vigentes, DePrograma, EnCurso
<1> QED BY <1>1, <1>2, <1>3 DEF Next

(* Under Hipotesis, at every step of every handler, also between two pages   *)
(* of a copy, the tables of pages, the frames and the swap agree while no    *)
(* program has closed.                                                       *)
THEOREM InvTablasTheorem == Hipotesis => (Spec => []InvTablas)
<1> SUFFICES ASSUME Hipotesis PROVE Spec => []InvTablas
  OBVIOUS
<1>1. Init => InvTablas
  BY Inicio
<1>2. InvTablas /\ [Next]_vars => InvTablas'
  BY Paso
<1> QED BY <1>1, <1>2, PTL DEF Spec

(* The sets of MuseVista in the terms of Coherente.                          *)
LEMMA LasPaginas ==
  ASSUME EsMem(mem)
  PROVE  /\ \A e : e \in Paginas <=> EsPagina(mem, e)
         /\ \A e : Pag(e) = Fila(mem, e)
<1>1. \A p \in Programas : /\ Len(mem.tablaPaginas[p]) \in Nat
                           /\ DOMAIN mem.tablaPaginas[p] = 1..Len(mem.tablaPaginas[p])
  <2> SUFFICES ASSUME NEW p \in Programas
               PROVE  /\ Len(mem.tablaPaginas[p]) \in Nat
                      /\ DOMAIN mem.tablaPaginas[p] = 1..Len(mem.tablaPaginas[p])
    OBVIOUS
  <2>1. mem.tablaPaginas[p] \in Seq(Registro)
    BY Partes
  <2> QED BY <2>1, LenProperties
<1>2. ASSUME NEW e, e \in Paginas PROVE EsPagina(mem, e)
  <2>1. PICK p \in Programas : e \in {<<p, i - 1>> : i \in DOMAIN mem.tablaPaginas[p]}
    BY <1>2 DEF Paginas
  <2>2. PICK i \in 1..Len(mem.tablaPaginas[p]) : e = <<p, i - 1>>
    BY <1>1, <2>1
  <2>3. i - 1 \in Nat /\ i - 1 < Len(mem.tablaPaginas[p])
    BY <1>1
  <2> QED BY <2>2, <2>3 DEF EsPagina, Entrada
<1>3. ASSUME NEW e, EsPagina(mem, e) PROVE e \in Paginas
  <2>1. /\ e[1] \in Programas /\ e[2] \in Nat /\ e = <<e[1], e[2]>>
        /\ e[2] + 1 \in 1..Len(mem.tablaPaginas[e[1]])
    BY <1>3, Constantes, Partes DEF EsPagina
  <2>2. PICK i \in DOMAIN mem.tablaPaginas[e[1]] : i = e[2] + 1
    BY <1>1, <2>1
  <2>3. e = <<e[1], i - 1>>
    BY <2>1, <2>2
  <2> QED BY <2>1, <2>3 DEF Paginas
<1>4. \A e : Pag(e) = Fila(mem, e)
  BY DEF Pag, Fila, buscarFrameEnTablasDePaginas
<1> QED BY <1>2, <1>3, <1>4

LEMMA TablasDeInv ==
  ASSUME InvTablas
  PROVE  TablasConsistentes
<1> SUFFICES ASSUME \A p \in Programas : pc[p] \notin {"cerrando", "cerrado"}
             PROVE  /\ \A f \in Frame :
                         LET ahi == {e \in Presentes : Pag(e).nroFrame = f} IN
                         IF f \in mem.marcos THEN ahi = {mem.tablasDePaginas[f]}
                         ELSE ahi = {} /\ mem.tablasDePaginas[f] = Nada
                    /\ \A s \in Slot : mem.paginasEnSwap[s] # Nada => s \in mem.swap
                    /\ \A e \in Paginas :
                         Cardinality({s \in Slot : mem.paginasEnSwap[s] = e})
                           = IF e \in Ausentes THEN 1 ELSE 0
  BY DEF TablasConsistentes
<1>1. EsMem(mem) /\ Coherente(mem, Nada)
  BY DEF InvTablas, TiposMuse, Terminando
<1>2. \A e : e \in Presentes <=> EsPagina(mem, e) /\ Fila(mem, e).flagPresencia
  BY <1>1, LasPaginas DEF Presentes
<1>3. \A e : EsPagina(mem, e) => e \in Entrada /\ e # Nada
  BY Constantes DEF EsPagina
<1>4. ASSUME NEW f \in Frame
      PROVE  LET ahi == {e \in Presentes : Pag(e).nroFrame = f} IN
             IF f \in mem.marcos THEN ahi = {mem.tablasDePaginas[f]}
             ELSE ahi = {} /\ mem.tablasDePaginas[f] = Nada
  <2> DEFINE ahi == {e \in Presentes : Pag(e).nroFrame = f}
  <2>1. \A e : e \in ahi <=> /\ EsPagina(mem, e) /\ Fila(mem, e).flagPresencia
                             /\ Fila(mem, e).nroFrame = f
    BY <1>1, <1>2, LasPaginas
  <2> HIDE DEF ahi
  <2>2. \A e \in ahi : e = mem.tablasDePaginas[f] /\ e # Nada
    BY <1>1, <1>3, <2>1 DEF Coherente, PresentesBien
  <2>3. mem.tablasDePaginas[f] # Nada => mem.tablasDePaginas[f] \in ahi
    BY <1>1, <2>1 DEF Coherente, EntradasBien, EntradaBien
  <2>4. f \in mem.marcos <=> mem.tablasDePaginas[f] # Nada
    BY <1>1 DEF Coherente, MarcosBien
  <2> QED BY <2>2, <2>3, <2>4 DEF ahi
<1>5. \A s \in Slot : mem.paginasEnSwap[s] # Nada => s \in mem.swap
  BY <1>1 DEF Coherente, SlotsBien
<1>6. ASSUME NEW e \in Paginas
      PROVE  Cardinality({s \in Slot : mem.paginasEnSwap[s] = e})
               = IF e \in Ausentes THEN 1 ELSE 0
  <2> DEFINE slots == {s \in Slot : mem.paginasEnSwap[s] = e}
  <2>1. EsPagina(mem, e) /\ e \in Entrada /\ e # Nada
    BY <1>1, <1>3, LasPaginas
  <2>2. CASE e \in Ausentes
    <3>1. ~ Fila(mem, e).flagPresencia
      BY <1>2, <2>1, <2>2 DEF Ausentes
    <3>2. PICK s \in Slot : mem.paginasEnSwap[s] = e
      BY <1>1, <2>1, <3>1 DEF Coherente, AusentesBien
    <3>3. slots = {s}
      BY <1>1, <2>1, <3>2 DEF Coherente, SlotsUnicos
    <3> QED BY <2>2, <3>3, FS_Singleton
  <2>3. CASE e \notin Ausentes
    <3>1. Fila(mem, e).flagPresencia
      BY <1>2, <2>3 DEF Ausentes
    <3>2. slots = {}
      BY <1>1, <2>1, <3>1 DEF Coherente, SlotsBien
    <3> QED BY <2>3, <3>2, FS_EmptySet
  <2> QED BY <2>2, <2>3
<1> QED BY <1>4, <1>5, <1>6

(* Until a program closes, the frames in use are the ones of the present     *)
(* pages, one each, and each page that is out is in one slot:                *)
(* ClockModificado, agregarPaginaEnSegmento, TraerPaginaDeSwap and           *)
(* cambiarFramesPorHeap keep the three tables together.                      *)
THEOREM TablasConsistentesTheorem == Hipotesis => (Spec => []TablasConsistentes)
<1>1. InvTablas => TablasConsistentes
  BY TablasDeInv
<1> QED BY <1>1, InvTablasTheorem, PTL

(* destruirPagina leaves no frame to a program that has closed.              *)
THEOREM FramesDevueltosTheorem == Hipotesis => (Spec => []FramesDevueltos)
<1>1. InvTablas => FramesDevueltos
  BY DEF InvTablas, Vigentes, FramesDevueltos
<1> QED BY <1>1, InvTablasTheorem, PTL

-------------------------------------------------------------------------------
(* Heaps of chunks of one size *)

(* Multiples of a size.                                                      *)
LEMMA Multiplos ==
  ASSUME NEW u \in Nat, NEW i \in Int, NEW j \in Int
  PROVE  /\ i * u \in Int /\ j * u \in Int
         /\ (i + j) * u = i * u + j * u /\ (i - j) * u = i * u - j * u
         /\ (i + 1) * u = i * u + u /\ (i - 1) * u = i * u - u
         /\ i <= j => i * u <= j * u
         /\ 0 * u = 0 /\ 1 * u = u
<1>1. i * u \in Int /\ j * u \in Int /\ 0 * u = 0 /\ 1 * u = u
  OBVIOUS
<1>2. /\ (i + j) * u = i * u + j * u /\ (i - j) * u = i * u - j * u
      /\ (i + 1) * u = i * u + u /\ (i - 1) * u = i * u - u
  OBVIOUS
<1>3. ASSUME i <= j PROVE i * u <= j * u
  <2>1. PICK d \in Nat : j = i + d
    <3>1. j - i \in Nat /\ j = i + (j - i)
      BY <1>3
    <3> QED BY <3>1
  <2>2. d * u \in Nat
    OBVIOUS
  <2>3. j * u = i * u + d * u
    BY <2>1
  <2> QED BY <1>1, <2>2, <2>3
<1> QED BY <1>1, <1>2, <1>3

LEMMA Iguala ==
  ASSUME NEW u \in Nat \ {0}, NEW a \in Int, NEW b \in Int, a * u = b * u
  PROVE  a = b
<1>1. ASSUME NEW x \in Int, NEW y \in Int, x < y PROVE x * u + u <= y * u
  <2>1. u \in Nat /\ x + 1 \in Int /\ x + 1 <= y
    BY <1>1
  <2>2. (x + 1) * u <= y * u /\ (x + 1) * u = x * u + u
    BY <2>1, Multiplos
  <2>3. x * u \in Int /\ y * u \in Int
    BY <2>1, Multiplos
  <2> QED BY <2>1, <2>2, <2>3
<1>2. a * u \in Int /\ b * u \in Int
  OBVIOUS
<1>3. ~ (a < b) /\ ~ (b < a)
  <2>1. a < b => a * u + u <= b * u
    BY <1>1
  <2>2. b < a => b * u + u <= a * u
    BY <1>1
  <2>3. PICK z \in Int : z = a * u
    BY <1>2
  <2> QED BY <2>1, <2>2, <2>3
<1> QED BY <1>3

LEMMA Unidades ==
  ASSUME HipotesisHeap, NEW p \in Programas
  PROVE  /\ Tam(p) \in 1..lengthPagina /\ Tamanios[p] \subseteq {Tam(p)}
         /\ Tam(p) \in Nat \ {0} /\ tamanio_heap \in 5..6
         /\ Unidad(p) = Tam(p) + tamanio_heap /\ Unidad(p) \in Nat /\ Unidad(p) >= 6
<1>1. \E t \in 1..lengthPagina : Tamanios[p] \subseteq {t}
  BY DEF HipotesisHeap, UnTamanio
<1>2. Tam(p) \in 1..lengthPagina /\ Tamanios[p] \subseteq {Tam(p)}
  BY <1>1 DEF Tam
<1>3. tamanio_heap \in 5..6 /\ lengthPagina \in Nat
  BY Constantes DEF HipotesisHeap, Hipotesis
<1> QED BY <1>2, <1>3 DEF Unidad

(* In S are the first k chunks, which occupy u bytes each.                   *)
Iguales(h, S, k, u) ==
  /\ k \in 0..Len(h) /\ u \in Nat
  /\ \A j \in 1..k : j \in S /\ Ocupa(h[j]) = u
  /\ \A j \in (k + 1)..Len(h) : j \notin S

(* The bytes of n equal chunks.                                              *)
LEMMA SumaUniforme ==
  ASSUME NEW h \in Seq(TChunk), NEW S, NEW k, NEW u, Iguales(h, S, k, u)
  PROVE  Suma(h, S) = k * u
<1> USE DEF Iguales
<1>1. Len(h) \in Nat
  BY LenProperties
<1>2. PICK c : /\ c[0] = 0 /\ Suma(h, S) = c[Len(h)]
               /\ \A j \in 0..Len(h) : c[j] \in Nat
               /\ \A j \in 1..Len(h) : c[j] = c[j - 1] + (IF j \in S THEN Ocupa(h[j]) ELSE 0)
  BY Sumas
<1> DEFINE V(j) == IF j <= k THEN j * u ELSE k * u
           P == {j \in 0..Len(h) : c[j] = V(j)}
<1>3. 0 \in P
  BY <1>1, <1>2
<1>4. ASSUME NEW j \in 1..Len(h), j - 1 \in P PROVE j \in P
  <2>1. c[j - 1] = V(j - 1)
    BY <1>4
  <2>2. CASE j <= k
    <3>1. c[j] = c[j - 1] + u
      BY <1>1, <1>2, <2>2
    <3>2. V(j - 1) = (j - 1) * u
      BY <1>1, <2>2
    <3>3. (j - 1) * u = j * u - u /\ j * u \in Int
      BY <1>1, Multiplos
    <3>4. c[j] = j * u
      BY <2>1, <3>1, <3>2, <3>3
    <3> QED BY <1>1, <2>2, <3>4
  <2>3. CASE ~ (j <= k)
    <3>1. c[j] = c[j - 1]
      BY <1>1, <1>2, <2>3
    <3>2. V(j - 1) = k * u
      <4>1. j - 1 = k \/ ~ (j - 1 <= k)
        BY <1>1, <2>3
      <4> QED BY <4>1
    <3> QED BY <1>1, <2>1, <2>3, <3>1, <3>2
  <2> QED BY <2>2, <2>3
<1> HIDE DEF P
<1>5. 0..Len(h) \subseteq P
  BY <1>1, <1>3, <1>4, Induccion
<1>6. Len(h) \in P
  BY <1>1, <1>5
<1>7. c[Len(h)] = V(Len(h))
  BY <1>6 DEF P
<1>8. V(Len(h)) = k * u
  <2>1. Len(h) = k \/ ~ (Len(h) <= k)
    BY <1>1
  <2> QED BY <2>1
<1> QED BY <1>2, <1>7, <1>8

(* What the operators on chunks see of a heap of that form.                  *)
Forma(h, t, u, k, m, r) ==
  /\ Len(h) \in Nat /\ Len(h) = k + (IF m = 0 THEN 0 ELSE 1)
  /\ \A i \in 1..Len(h) : Direccion(h, i) = tamanio_heap + (i - 1) * u
  /\ Suma(h, {i \in 1..Len(h) : ~ h[i].isFree}) = k * u
  /\ Elegibles(h, t) = IF m = 0 THEN {} ELSE {k + 1}
  /\ \A i \in 1..k : h[i] = Chunk(t, FALSE) /\ h[i].t_size = t /\ ~ h[i].isFree
  /\ m # 0 => h[k + 1].t_size = m * u + r - tamanio_heap /\ h[k + 1].isFree

LEMMA Formado ==
  ASSUME NEW h \in Seq(TChunk), NEW t \in Nat \ {0}, NEW u \in Nat, u = t + tamanio_heap,
         NEW k \in Nat, NEW m \in Nat, NEW r \in 0..5, FormaDe(h, t, u, k, m, r)
  PROVE  Forma(h, t, u, k, m, r)
<1>1. u \in Nat /\ tamanio_heap \in Nat
  BY Constantes
<1>2. /\ Len(h) \in Nat /\ k <= Len(h) /\ Len(h) <= k + 1
      /\ m = 0 => Len(h) = k
      /\ m # 0 => Len(h) = k + 1
  BY LenProperties DEF FormaDe
<1>3. \A i \in 1..k : h[i].t_size = t /\ ~ h[i].isFree /\ Ocupa(h[i]) = u
  BY DEF FormaDe, Chunk, Ocupa
<1>4. m # 0 => /\ h[k + 1].t_size = m * u + r - tamanio_heap
               /\ h[k + 1].isFree
  BY DEF FormaDe, Chunk
<1>5. \A i \in 1..Len(h) : Direccion(h, i) = tamanio_heap + (i - 1) * u
  <2> SUFFICES ASSUME NEW i \in 1..Len(h)
               PROVE  Suma(h, 1..(i - 1)) = (i - 1) * u
    BY DEF Direccion
  <2> DEFINE S == 1..(i - 1)
  <2>1. PICK n \in 0..Len(h) : n = i - 1 /\ n <= k
    BY <1>2
  <2>2. \A j \in 1..n : j \in S /\ Ocupa(h[j]) = u
    BY <1>3, <2>1
  <2>3. \A j \in (n + 1)..Len(h) : j \notin S
    BY <1>2, <2>1
  <2> HIDE DEF S
  <2>4. Iguales(h, S, n, u)
    BY <1>1, <2>1, <2>2, <2>3 DEF Iguales
  <2>5. Suma(h, S) = n * u
    BY <2>4, SumaUniforme
  <2> QED BY <2>1, <2>5 DEF S
<1>6. Suma(h, {i \in 1..Len(h) : ~ h[i].isFree}) = k * u
  <2> DEFINE S == {i \in 1..Len(h) : ~ h[i].isFree}
  <2>1. k \in 0..Len(h)
    BY <1>2
  <2>2. \A j \in 1..k : j \in S /\ Ocupa(h[j]) = u
    BY <1>2, <1>3
  <2>3. \A j \in (k + 1)..Len(h) : j \notin S
    <3> SUFFICES ASSUME NEW j \in (k + 1)..Len(h) PROVE h[j].isFree
      OBVIOUS
    <3>1. m # 0 /\ j = k + 1
      BY <1>2
    <3> QED BY <1>4, <3>1
  <2> HIDE DEF S
  <2>4. Iguales(h, S, k, u)
    BY <1>1, <2>1, <2>2, <2>3 DEF Iguales
  <2>5. Suma(h, S) = k * u
    BY <2>4, SumaUniforme
  <2> QED BY <2>5 DEF S
<1>7. Elegibles(h, t) = IF m = 0 THEN {} ELSE {k + 1}
  <2>1. \A i \in 1..k : i \notin Elegibles(h, t)
    BY <1>3 DEF Elegibles
  <2>2. m # 0 => k + 1 \in Elegibles(h, t)
    <3> SUFFICES ASSUME m # 0 PROVE h[k + 1].t_size >= t /\ k + 1 \in 1..Len(h)
      BY <1>4 DEF Elegibles
    <3>1. 1 * u <= m * u /\ m * u \in Int /\ 1 * u = u
      BY <1>1, Multiplos
    <3>2. PICK z \in Int : z = m * u
      BY <3>1
    <3> QED BY <1>1, <1>2, <1>4, <3>1, <3>2
  <2>3. Elegibles(h, t) \subseteq 1..Len(h)
    BY DEF Elegibles
  <2>4. CASE m = 0
    BY <1>2, <2>1, <2>3, <2>4
  <2>5. CASE m # 0
    <3>1. \A i \in 1..Len(h) : i \in 1..k \/ i = k + 1
      BY <1>2, <2>5
    <3> QED BY <2>1, <2>2, <2>3, <2>5, <3>1
  <2> QED BY <2>4, <2>5
<1>8. Len(h) = k + (IF m = 0 THEN 0 ELSE 1)
  BY DEF FormaDe
<1>9. \A i \in 1..k : h[i] = Chunk(t, FALSE) /\ h[i].t_size = t /\ ~ h[i].isFree
  BY <1>3 DEF FormaDe
<1>10. Len(h) \in Nat
  BY <1>2
<1> QED BY <1>4, <1>5, <1>6, <1>7, <1>8, <1>9, <1>10 DEF Forma

(* What allocarEnHeapLibre must make of it, and allocarHeapNuevo.            *)
ReservaLibre(h, t, u, k, m, r) ==
  LET o == allocarEnHeapLibre(h, t) IN
  /\ FormaDe(o.heaps, t, u, k + 1, m - 1, r) /\ o.dir = tamanio_heap + k * u /\ o.paginas = 0

(* allocarEnHeapLibre keeps the form: the chunk it takes follows the ones    *)
(* taken.                                                                    *)
LEMMA AlReservarLibre ==
  ASSUME NEW h \in Seq(TChunk), NEW t \in Nat \ {0}, NEW u \in Nat, u = t + tamanio_heap,
         NEW k \in Nat, NEW m \in Nat \ {0}, NEW r \in 0..5, FormaDe(h, t, u, k, m, r),
         u >= 6, tamanio_heap <= 6
  PROVE  ReservaLibre(h, t, u, k, m, r)
<1> USE DEF ReservaLibre
<1> DEFINE o == allocarEnHeapLibre(h, t)
           cortado == [h EXCEPT ![k + 1] = Chunk(t, FALSE)]
           hueco == h[k + 1].t_size - t
<1>1. u \in Nat /\ tamanio_heap \in Nat /\ u >= 6 /\ m \in Nat
  BY Constantes
<1>9. Forma(h, t, u, k, m, r)
  BY <1>1, Formado
<1>2. /\ \A i \in 1..Len(h) : Direccion(h, i) = tamanio_heap + (i - 1) * u
      /\ Elegibles(h, t) = IF m = 0 THEN {} ELSE {k + 1}
      /\ Len(h) = k + (IF m = 0 THEN 0 ELSE 1) /\ Len(h) \in Nat
      /\ \A i \in 1..k : h[i] = Chunk(t, FALSE)
      /\ m # 0 => h[k + 1].t_size = m * u + r - tamanio_heap
  BY <1>9 DEF Forma
<1>0. Elegibles(h, t) = {k + 1} /\ Len(h) = k + 1 /\ h[k + 1].t_size = m * u + r - tamanio_heap
  BY <1>2
<1>3. /\ o.heaps \in Seq(TChunk) /\ o.paginas = 0 /\ o.dir = Direccion(h, k + 1)
      /\ o.heaps = IF hueco > 5 THEN Append(cortado, Chunk(hueco - tamanio_heap, TRUE)) ELSE cortado
  <2>1. Elegibles(h, t) # {}
    BY <1>0
  <2>2. LET a == allocarEnHeapLibre(h, t) IN
         /\ a.heaps \in Seq(TChunk) /\ a.paginas = 0
         /\ \E i \in Elegibles(h, t) :
              /\ a.dir = Direccion(h, i)
              /\ a.heaps = LET corte == [h EXCEPT ![i] = Chunk(t, FALSE)]
                               resto == h[i].t_size - t
                           IN IF resto > 5
                              THEN Append(corte, Chunk(resto - tamanio_heap, TRUE))
                              ELSE corte
    BY <2>1, EnHeapLibre
  <2> QED BY <1>0, <2>2
<1>4. /\ cortado \in Seq(TChunk) /\ Len(cortado) = k + 1
      /\ \A i \in 1..(k + 1) : cortado[i] = Chunk(t, FALSE)
  <2>1. PICK c \in TChunk : c = Chunk(t, FALSE)
    BY Ocupado
  <2>4. PICK n \in 1..Len(h) : n = k + 1
    BY <1>0
  <2>5. cortado = [h EXCEPT ![n] = c]
    BY <2>1, <2>4
  <2> HIDE DEF cortado
  <2>2. /\ cortado \in Seq(TChunk) /\ Len(cortado) = Len(h) /\ cortado[n] = c
        /\ \A j \in 1..Len(h) : j # n => cortado[j] = h[j]
    BY <2>5, CambiadoEn
  <2>3. ASSUME NEW i \in 1..(k + 1) PROVE cortado[i] = Chunk(t, FALSE)
    <3>1. i = k + 1 \/ i \in 1..k
      OBVIOUS
    <3> QED BY <1>0, <1>2, <2>1, <2>2, <2>4, <3>1
  <2> QED BY <1>0, <2>2, <2>3
<1>5. hueco = (m - 1) * u + r /\ m * u \in Int /\ (m - 1) * u \in Int
  <2>1. (m - 1) * u = m * u - u /\ m * u \in Int /\ (m - 1) * u \in Int
    BY <1>1, Multiplos
  <2>2. PICK z \in Int : z = m * u
    BY <2>1
  <2> QED BY <1>0, <1>1, <2>1, <2>2
<1> HIDE DEF o, cortado, hueco
<1>6. o.dir = tamanio_heap + k * u
  <2>1. k + 1 \in 1..Len(h) /\ (k + 1) - 1 = k
    BY <1>0
  <2> QED BY <1>2, <1>3, <2>1
<1>7. CASE m = 1
  <2>1. m - 1 = 0 /\ 0 * u = 0 /\ (k + 1) + 0 = k + 1
    BY <1>1, <1>7
  <2>2. ~ (hueco > 5)
    <3>1. hueco = 0 * u + r
      BY <1>5, <2>1
    <3> QED BY <2>1, <3>1
  <2>3. o.heaps = cortado
    BY <1>3, <2>2
  <2>4. FormaDe(o.heaps, t, u, k + 1, m - 1, r)
    BY <1>4, <2>1, <2>3 DEF FormaDe
  <2> QED BY <1>3, <1>6, <2>4 DEF o
<1>8. CASE m # 1
  <2>1. u <= (m - 1) * u
    <3>1. 1 <= m - 1 /\ m - 1 \in Int
      BY <1>8
    <3> QED BY <1>1, <3>1, Multiplos
  <2>2. hueco > 5 /\ hueco - tamanio_heap \in Nat /\ hueco - tamanio_heap = (m - 1) * u + r - tamanio_heap
    <3>1. PICK z \in Int : z = (m - 1) * u
      BY <1>5
    <3> QED BY <1>1, <1>5, <2>1, <3>1
  <2>3. PICK c \in TChunk : c = Chunk((m - 1) * u + r - tamanio_heap, TRUE)
    BY <2>2, Ocupado
  <2>4. o.heaps = Append(cortado, c)
    BY <1>3, <2>2, <2>3
  <2>5. /\ Len(o.heaps) = k + 2 /\ \A i \in 1..(k + 1) : o.heaps[i] = cortado[i]
        /\ o.heaps[k + 2] = c
    BY <1>4, <2>4, AppendProperties
  <2>6. FormaDe(o.heaps, t, u, k + 1, m - 1, r)
    <3>1. m - 1 # 0 /\ (k + 1) + 1 = k + 2
      BY <1>8
    <3> QED BY <1>4, <2>3, <2>5, <3>1 DEF FormaDe
  <2> QED BY <1>3, <1>6, <2>6 DEF o
<1> QED BY <1>7, <1>8

ReservaNueva(h, t, u, k, cant) ==
  LET o == allocarHeapNuevo(h, cant, t) IN
  /\ o.paginas \in Nat /\ o.dir = tamanio_heap + k * u
  /\ \E m \in Nat, r \in 0..5 :
       /\ FormaDe(o.heaps, t, u, k + 1, m, r)
       /\ Cabe(cant + o.paginas, k + 1 + m, u, r)

LEMMA Resto ==
  ASSUME NEW u \in Nat \ {0}, NEW y \in Nat
  PROVE  \E q \in Nat, s \in 0..(u - 1) : y = q * u + s
<1>1. y \div u \in Nat /\ y % u \in 0..(u - 1) /\ y = (y \div u) * u + (y % u)
  OBVIOUS
<1> QED BY <1>1

(* allocarHeapNuevo keeps the form: where no portion fits there is no free   *)
(* chunk at all.                                                             *)
LEMMA AlReservarNuevo ==
  ASSUME NEW h \in Seq(TChunk), NEW t \in Nat \ {0}, NEW u \in Nat, u = t + tamanio_heap,
         NEW k \in Nat, NEW r0 \in 0..5, FormaDe(h, t, u, k, 0, r0),
         u >= 6, tamanio_heap \in 5..6, NEW cant \in Nat, Cabe(cant, k, u, 0), SinResto(u)
  PROVE  ReservaNueva(h, t, u, k, cant)
<1> USE DEF ReservaNueva, Cabe
<1> DEFINE o == allocarHeapNuevo(h, cant, t)
           x == huecoUltimaPagina(h, cant)
           bytes == t + tamanio_heap - x
           paginas == framesNecesariosPorCantidadMemoria(bytes)
           y == paginas * lengthPagina - bytes
           nuevo == Append(h, Chunk(t, FALSE))
<1>1. u \in Nat /\ u \in Nat \ {0} /\ tamanio_heap \in Nat /\ u >= 6 /\ lengthPagina \in Nat
  BY Constantes
<1>2. /\ Len(h) = k + (IF 0 = 0 THEN 0 ELSE 1)
      /\ \A i \in 1..k : h[i] = Chunk(t, FALSE) /\ ~ h[i].isFree
      /\ Suma(h, {i \in 1..Len(h) : ~ h[i].isFree}) = k * u
  <2>1. PICK m \in Nat : m = 0
    OBVIOUS
  <2>2. FormaDe(h, t, u, k, m, r0)
    BY <2>1
  <2>3. Forma(h, t, u, k, m, r0)
    BY <2>2, Formado
  <2> QED BY <2>1, <2>3 DEF Forma
<1>0. Len(h) = k
  BY <1>2
<1>3. x = cant * lengthPagina - k * u
  BY <1>2 DEF huecoUltimaPagina
<1>4. ~ (h # <<>> /\ h[Len(h)].isFree)
  <2> SUFFICES ASSUME h # <<>> PROVE ~ h[Len(h)].isFree
    OBVIOUS
  <2>1. Len(h) # 0
    BY EmptySeq
  <2>2. Len(h) \in 1..k
    BY <1>0, <2>1
  <2> QED BY <1>2, <2>2
<1>5. /\ o.heaps = IF y > 5 THEN Append(nuevo, Chunk(y - tamanio_heap, TRUE)) ELSE nuevo
      /\ o.dir = cant * lengthPagina + tamanio_heap - x
      /\ o.paginas = paginas
  BY <1>4 DEF allocarHeapNuevo
<1> HIDE DEF o, x
<1>6. x \in 0..5 /\ bytes = u - x /\ bytes \in Nat /\ bytes > 0
  BY <1>1, <1>3
<1> HIDE DEF bytes
<1>7. paginas \in Nat /\ y \in 0..(lengthPagina - 1)
  <2>1. PICK n \in Int : n = bytes /\ n > 0
    BY <1>6
  <2>2. /\ framesNecesariosPorCantidadMemoria(n) * lengthPagina - n \in 0..(lengthPagina - 1)
        /\ framesNecesariosPorCantidadMemoria(n) \in Nat
    BY <2>1, FramesNecesarios
  <2> QED BY <2>1, <2>2
<1> HIDE DEF paginas
<1>8. /\ paginas * lengthPagina \in Int /\ cant * lengthPagina \in Int /\ k * u \in Int
      /\ paginas * lengthPagina = y + bytes
      /\ (cant + paginas) * lengthPagina = cant * lengthPagina + paginas * lengthPagina
      /\ (k + 1) * u = k * u + u
  <2>1. paginas * lengthPagina \in Int /\ cant * lengthPagina \in Int
    BY <1>7, Productos
  <2>2. (cant + paginas) * lengthPagina = cant * lengthPagina + paginas * lengthPagina
    BY <1>7, Productos
  <2>3. k * u \in Int /\ (k + 1) * u = k * u + u
    BY <1>1, Multiplos
  <2> QED BY <1>6, <2>1, <2>2, <2>3
<1> HIDE DEF y
<1>9. PICK q \in Nat, s \in 0..(u - 1) : y = q * u + s
  <2>1. PICK n \in Nat : n = y
    BY <1>7
  <2>2. u \in Nat \ {0}
    BY <1>1
  <2>3. \E q \in Nat, s \in 0..(u - 1) : n = q * u + s
    BY ONLY <2>2, n \in Nat, Resto
  <2> QED BY <2>1, <2>3
<1>10. (k + 1 + q) * u = (k + 1) * u + q * u /\ q * u \in Int /\ (k + 1) * u \in Int
  <2>1. k + 1 \in Int /\ q \in Int
    OBVIOUS
  <2> QED BY <1>1, <2>1, Multiplos
<1>11. (cant + paginas) * lengthPagina - (k + 1 + q) * u = s
  <2>1. PICK a \in Int : a = cant * lengthPagina
    BY <1>8
  <2>2. PICK b \in Int : b = k * u
    BY <1>8
  <2>3. PICK c \in Int : c = q * u
    BY <1>10
  <2>4. x = a - b
    BY <1>3, <2>1, <2>2
  <2>5. (cant + paginas) * lengthPagina = a + (y + (u - x))
    BY <1>6, <1>8, <2>1
  <2>6. (k + 1 + q) * u = b + u + c
    BY <1>8, <1>10, <2>2, <2>3
  <2>7. y = c + s
    BY <1>9, <2>3
  <2> QED BY <1>1, <1>6, <2>4, <2>5, <2>6, <2>7
<1>12. s <= 5
  <2>1. s <= y
    <3>1. 0 * u <= q * u /\ 0 * u = 0
      BY <1>1, Multiplos
    <3> QED BY <1>1, <1>7, <1>9, <1>10, <3>1
  <2>2. s < lengthPagina /\ s < u /\ 0 <= s
    BY <1>1, <1>7, <1>9, <2>1
  <2>3. cant + paginas \in Nat /\ k + 1 + q \in Nat
    BY <1>7
  <2> QED BY <1>11, <2>2, <2>3 DEF SinResto
<1>13. y > 5 <=> q # 0
  <2>1. q = 0 => y = s
    BY <1>1, <1>9, Multiplos
  <2>2. q # 0 => u <= q * u
    <3>1. q # 0 => 1 <= q
      OBVIOUS
    <3> QED BY <1>1, <3>1, Multiplos
  <2> QED BY <1>1, <1>9, <1>10, <1>12, <2>1, <2>2
<1>14. /\ nuevo \in Seq(TChunk) /\ Len(nuevo) = k + 1
       /\ \A i \in 1..(k + 1) : nuevo[i] = Chunk(t, FALSE)
  <2>1. PICK c \in TChunk : c = Chunk(t, FALSE)
    BY Ocupado
  <2>2. /\ nuevo \in Seq(TChunk) /\ Len(nuevo) = k + 1 /\ nuevo[k + 1] = Chunk(t, FALSE)
        /\ \A i \in 1..k : nuevo[i] = h[i]
    <3>1. nuevo = Append(h, c)
      BY <2>1
    <3> HIDE DEF nuevo
    <3>2. /\ Append(h, c) \in Seq(TChunk) /\ Len(Append(h, c)) = Len(h) + 1
          /\ \A i \in 1..Len(h) : Append(h, c)[i] = h[i]
          /\ Append(h, c)[Len(h) + 1] = c
      BY AppendProperties
    <3> QED BY <1>0, <2>1, <3>1, <3>2
  <2> HIDE DEF nuevo
  <2>3. ASSUME NEW i \in 1..(k + 1) PROVE nuevo[i] = Chunk(t, FALSE)
    <3>1. i = k + 1 \/ i \in 1..k
      OBVIOUS
    <3> QED BY <1>2, <2>2, <3>1
  <2> QED BY <2>2, <2>3
<1> HIDE DEF nuevo
<1>15. FormaDe(o.heaps, t, u, k + 1, q, s)
  <2>1. CASE q = 0
    <3>1. o.heaps = nuevo
      BY <1>5, <1>13, <2>1
    <3>2. (k + 1) + 0 = k + 1
      OBVIOUS
    <3> QED BY <1>14, <2>1, <3>1, <3>2 DEF FormaDe
  <2>2. CASE q # 0
    <3>1. y - tamanio_heap \in Nat /\ y - tamanio_heap = q * u + s - tamanio_heap
      BY <1>1, <1>7, <1>9, <1>13, <2>2
    <3>2. PICK c \in TChunk : c = Chunk(q * u + s - tamanio_heap, TRUE)
      BY <3>1, Ocupado
    <3>3. o.heaps = Append(nuevo, c)
      BY <1>5, <1>13, <2>2, <3>1, <3>2
    <3>4. /\ Len(o.heaps) = k + 2 /\ \A i \in 1..(k + 1) : o.heaps[i] = nuevo[i]
          /\ o.heaps[k + 2] = c
      BY SMTT(30), <1>14, <3>3, AppendProperties
    <3>5. (k + 1) + 1 = k + 2
      OBVIOUS
    <3> QED BY <1>14, <2>2, <3>2, <3>4, <3>5 DEF FormaDe
  <2> QED BY <2>1, <2>2
<1>16. o.dir = tamanio_heap + k * u
  <2>1. PICK a \in Int : a = cant * lengthPagina
    BY <1>8
  <2>2. PICK b \in Int : b = k * u
    BY <1>8
  <2> QED BY <1>1, <1>3, <1>5, <2>1, <2>2
<1>17. s \in 0..5 /\ (cant + o.paginas) * lengthPagina - (k + 1 + q) * u \in s..5
  BY <1>5, <1>9, <1>11, <1>12
<1> QED BY <1>5, <1>7, <1>15, <1>16, <1>17 DEF o

(* What verificarCompactacionFree must make of it.                           *)
LiberaBien(h, t, u, k, m, r) ==
  LET o == verificarCompactacionFree(h, k) IN
  /\ ~ o.fuera
  /\ \E s \in 0..r : FormaDe(o.heaps, t, u, k - 1, m + 1, s)

(* verificarCompactacionFree keeps the form when the newest portion is       *)
(* freed.                                                                    *)
LEMMA AlLiberar ==
  ASSUME NEW h \in Seq(TChunk), NEW t \in Nat \ {0}, NEW u \in Nat, u = t + tamanio_heap,
         NEW k \in Nat \ {0}, NEW m \in Nat, NEW r \in 0..5, FormaDe(h, t, u, k, m, r)
  PROVE  LiberaBien(h, t, u, k, m, r)
<1> USE DEF LiberaBien
<1> DEFINE o == verificarCompactacionFree(h, k)
           anterior == k > 1 /\ h[k - 1].isFree
           posterior == k < Len(h) /\ h[k + 1].isFree
           antes == IF anterior THEN Ocupa(h[k - 1]) ELSE 0
           luego == IF posterior THEN Ocupa(h[k + 1]) ELSE 0
           tam == h[k].t_size + antes + luego
           unido == [h EXCEPT ![k] = Chunk(tam, TRUE)]
           s == IF m = 0 THEN 0 ELSE r
<1>1. /\ u \in Nat /\ tamanio_heap \in Nat /\ m * u \in Int /\ (m + 1) * u = m * u + u /\ 0 * u = 0
      /\ 0 <= m * u
  <2>1. u \in Nat /\ tamanio_heap \in Nat
    BY Constantes
  <2>2. 0 * u <= m * u /\ 0 * u = 0
    BY <2>1, Multiplos
  <2> QED BY <2>1, <2>2, Multiplos
<1>2. /\ \A i \in 1..k : h[i] = Chunk(t, FALSE) /\ h[i].t_size = t /\ ~ h[i].isFree
      /\ m # 0 => /\ h[k + 1].t_size = m * u + r - tamanio_heap
                  /\ h[k + 1].isFree
      /\ Len(h) \in Nat /\ Len(h) = k + (IF m = 0 THEN 0 ELSE 1)
  <2>1. k \in Nat
    OBVIOUS
  <2>2. Forma(h, t, u, k, m, r)
    BY <2>1, Formado
  <2> QED BY <2>2 DEF Forma
<1>0. k \in 1..Len(h) /\ k \in 1..k
  BY <1>2
<1>3. ~ anterior
  <2>1. k > 1 => k - 1 \in 1..k
    OBVIOUS
  <2> QED BY <1>2, <2>1
<1>4. posterior <=> m # 0
  BY <1>2
<1> HIDE DEF anterior, posterior
<1>5. tam = (m + 1) * u + s - tamanio_heap /\ tam \in Nat
  <2>1. CASE m = 0
    <3>1. tam = t
      <4>1. antes = 0 /\ luego = 0 /\ h[k].t_size = t
        BY <1>0, <1>2, <1>3, <1>4, <2>1
      <4> HIDE DEF antes, luego
      <4> QED BY <4>1
    <3> HIDE DEF tam
    <3> QED BY <1>1, <2>1, <3>1
  <2>2. CASE m # 0
    <3>0. antes = 0 /\ luego = Ocupa(h[k + 1]) /\ h[k].t_size = t
      BY <1>0, <1>2, <1>3, <1>4, <2>2
    <3>2. Ocupa(h[k + 1]) = m * u + r - tamanio_heap + tamanio_heap
      BY <1>2, <2>2 DEF Ocupa
    <3>1. tam = t + (m * u + r)
      <4> HIDE DEF antes, luego
      <4>1. PICK z \in Int : z = m * u
        BY <1>1
      <4>2. PICK w \in Int : w = Ocupa(h[k + 1]) /\ w = z + r
        BY <1>1, <3>2, <4>1
      <4>3. tam = t + 0 + w
        BY <3>0, <4>2
      <4> HIDE DEF tam
      <4> QED BY <4>1, <4>2, <4>3
    <3> HIDE DEF tam
    <3>3. PICK z \in Int : z = m * u
      BY <1>1
    <3> QED BY <1>1, <2>2, <3>1, <3>3
  <2> QED BY <2>1, <2>2
<1>6. /\ o.fuera => posterior /\ k + 1 > Len(unido)
      /\ o.heaps = IF posterior /\ k + 1 <= Len(unido) THEN RemoveAt(unido, k + 1) ELSE unido
  BY <1>3 DEF verificarCompactacionFree, anterior, posterior
<1> HIDE DEF tam
<1>7. PICK c \in TChunk : c = Chunk(tam, TRUE)
  BY <1>5, Ocupado
<1>8. /\ unido \in Seq(TChunk) /\ Len(unido) = Len(h) /\ unido[k] = c
      /\ \A j \in 1..Len(h) : j # k => unido[j] = h[j]
  <2>1. PICK n \in 1..Len(h) : n = k
    BY <1>0
  <2>2. unido = [h EXCEPT ![n] = c]
    BY <1>7, <2>1
  <2> HIDE DEF unido
  <2>3. /\ unido \in Seq(TChunk) /\ Len(unido) = Len(h) /\ unido[n] = c
        /\ \A j \in 1..Len(h) : j # n => unido[j] = h[j]
    BY <2>2, CambiadoEn
  <2> QED BY <2>1, <2>3
<1> HIDE DEF unido, o
<1>9. ~ o.fuera
  <2>1. m # 0 => Len(unido) = k + 1
    BY <1>2, <1>8
  <2> QED BY <1>4, <1>6, <2>1
<1>11. ASSUME Len(o.heaps) = k, o.heaps[k] = c,
               \A i \in 1..(k - 1) : o.heaps[i] = h[i]
        PROVE  FormaDe(o.heaps, t, u, k - 1, m + 1, s)
  <2>1. (k - 1) + 1 = k /\ m + 1 # 0 /\ \A i \in 1..(k - 1) : i \in 1..k
    OBVIOUS
  <2>2. c = Chunk((m + 1) * u + s - tamanio_heap, TRUE)
    BY <1>5, <1>7
  <2>3. \A i \in 1..(k - 1) : o.heaps[i] = Chunk(t, FALSE)
    BY <1>2, <1>11, <2>1
  <2> HIDE DEF s
  <2> QED BY <1>11, <2>1, <2>2, <2>3 DEF FormaDe
<1>10. FormaDe(o.heaps, t, u, k - 1, m + 1, s)
  <2>1. CASE m = 0
    <3>1. o.heaps = unido
      BY <1>4, <1>6, <2>1
    <3>2. /\ Len(o.heaps) = k /\ o.heaps[k] = c
          /\ \A i \in 1..(k - 1) : o.heaps[i] = h[i]
      BY <1>0, <1>2, <1>8, <2>1, <3>1
    <3> QED BY <1>11, <3>2
  <2>2. CASE m # 0
    <3>1. o.heaps = RemoveAt(unido, k + 1) /\ k + 1 \in 1..Len(unido)
      BY <1>2, <1>4, <1>6, <1>8, <2>2
    <3>2. /\ Len(o.heaps) = k
          /\ \A i \in 1..k : o.heaps[i] = unido[i]
      <4>1. Len(unido) = k + 1
        BY <1>2, <1>8, <2>2
      <4>2. PICK n \in 1..Len(unido) : n = k + 1
        BY <3>1
      <4>3. o.heaps = RemoveAt(unido, n)
        BY <3>1, <4>2
      <4>5. SinUno(RemoveAt(unido, n), unido, n)
        BY <1>8, Quitado
      <4>4. /\ Len(o.heaps) = Len(unido) - 1
            /\ \A i \in 1..(Len(unido) - 1) :
                 o.heaps[i] = IF i < n THEN unido[i] ELSE unido[i + 1]
        BY <4>3, <4>5 DEF SinUno
      <4> QED BY <4>1, <4>2, <4>4
    <3>3. o.heaps[k] = c /\ \A i \in 1..(k - 1) : o.heaps[i] = h[i]
      BY <1>0, <1>2, <1>8, <3>2
    <3> QED BY <1>11, <3>2, <3>3
  <2> QED BY <2>1, <2>2
<1>12. s \in 0..r
  OBVIOUS
<1> QED BY <1>9, <1>10, <1>12 DEF o

-------------------------------------------------------------------------------
(* Steps on the heaps *)

(* The step leaves alone what the invariant says of the heap of q.           *)
Quieto(q) ==
  /\ heaps'[q] = heaps[q] /\ limiteLogico'[q] = limiteLogico[q] /\ vivas'[q] = vivas[q]
  /\ Len(mem'.tablaPaginas[q]) = Len(mem.tablaPaginas[q])
  /\ pc'[q] = "alloc" <=> pc[q] = "alloc"
  /\ pc[q] = "alloc" => /\ local'[q].dir = local[q].dir /\ local'[q].tam = local[q].tam
                        /\ local'[q].pagina = local[q].pagina /\ local'[q].faltan = local[q].faltan

LEMMA HeapQuieto ==
  ASSUME NEW q \in Programas, Quieto(q)
  PROVE  (LasVivas(q) => LasVivas(q)') /\ (InvHeap(q) => InvHeap(q)')
<1>1. Tomados(q)' = Tomados(q) /\ Porvenir(q)' = Porvenir(q)
  BY DEF Quieto, Tomados, Porvenir
<1>2. LasVivas(q) => LasVivas(q)'
  BY DEF Quieto, LasVivas
<1>3. InvHeap(q) => InvHeap(q)'
  <2> SUFFICES ASSUME InvHeap(q) PROVE InvHeap(q)'
    OBVIOUS
  <2>1. \E m \in Nat, r \in 0..5 :
          /\ FormaDe(heaps'[q], Tam(q), Unidad(q), Tomados(q)', m, r)
          /\ Cabe(Porvenir(q)', Tomados(q)' + m, Unidad(q), r)
    BY <1>1 DEF Quieto, InvHeap
  <2>2. limiteLogico'[q] =
          (Porvenir(q)' - (IF pc'[q] = "alloc" THEN local'[q].pagina ELSE 0)) * lengthPagina
    BY <1>1 DEF Quieto, InvHeap
  <2>3. pc'[q] = "alloc" =>
          /\ local'[q].dir = tamanio_heap + Len(vivas'[q]) * Unidad(q) /\ local'[q].tam = Tam(q)
          /\ local'[q].faltan \in 0..local'[q].pagina
    BY DEF Quieto, InvHeap
  <2> QED BY <2>1, <2>2, <2>3 DEF InvHeap
<1> QED BY <1>2, <1>3

LEMMA ConservaPorciones ==
  ASSUME InvPorciones, mem.caida = "no", NEW p \in Programas,
         \A q \in Programas \ {p} : Quieto(q) /\ pc'[q] = pc[q],
         LasVivas(p)', pc'[p] \in {"cerrando", "cerrado"} => vivas'[p] = <<>>,
         mem'.caida = "no" => InvHeap(p)'
  PROVE  InvPorciones'
<1>1. ASSUME NEW q \in Programas PROVE LasVivas(q)'
  <2>1. LasVivas(q)
    BY DEF InvPorciones
  <2>2. CASE q # p
    <3>1. Quieto(q)
      BY <2>2
    <3> QED BY <2>1, <3>1, HeapQuieto
  <2> QED BY <2>2
<1>2. ASSUME NEW q \in Programas, mem'.caida = "no" PROVE InvHeap(q)'
  <2>1. InvHeap(q)
    BY DEF InvPorciones
  <2>2. CASE q # p
    <3>1. Quieto(q)
      BY <2>2
    <3> QED BY <2>1, <3>1, HeapQuieto
  <2> QED BY <1>2, <2>2
<1>3. ASSUME NEW q \in Programas, pc'[q] \in {"cerrando", "cerrado"} PROVE vivas'[q] = <<>>
  BY <1>3 DEF InvPorciones, Quieto
<1> QED BY <1>1, <1>2, <1>3 DEF InvPorciones

LEMMA SinCambios ==
  ASSUME InvPorciones, mem.caida = "no", NEW p \in Programas,
         \A q \in Programas : Quieto(q), \A q \in Programas \ {p} : pc'[q] = pc[q],
         pc'[p] \in {"cerrando", "cerrado"} => vivas[p] = <<>>
  PROVE  InvPorciones'
<1>1. LasVivas(p)' /\ InvHeap(p)'
  BY HeapQuieto DEF InvPorciones
<1>2. pc'[p] \in {"cerrando", "cerrado"} => vivas'[p] = <<>>
  BY DEF Quieto
<1> QED BY <1>1, <1>2, ConservaPorciones

(* The numbers of the heap of p. *)
Numeros(p, t, u, k, c, m, r) ==
  /\ t = Tam(p) /\ u = Unidad(p) /\ u = t + tamanio_heap /\ k = Tomados(p) /\ c = Porvenir(p)
  /\ FormaDe(heaps[p], t, u, k, m, r)
  /\ Cabe(c, k + m, u, r)

LEMMA HeapDe ==
  ASSUME HipotesisHeap, InvTablas, NEW p \in Programas, InvHeap(p)
  PROVE  \E t \in Nat \ {0}, u \in Nat, k \in Nat, c \in Nat, m \in Nat, r \in 0..5 :
           Numeros(p, t, u, k, c, m, r)
<1>1. Tomados(p) \in Nat
  <2>1. Len(vivas[p]) \in Nat
    BY LenProperties DEF InvTablas, TiposMuse
  <2>2. CASE pc[p] = "alloc"
    BY <2>1, <2>2 DEF Tomados
  <2>3. CASE pc[p] # "alloc"
    BY <2>1, <2>3 DEF Tomados
  <2> QED BY <2>2, <2>3
<1>2. Porvenir(p) \in Nat
  <2>1. Len(mem.tablaPaginas[p]) \in Nat
    BY Partes DEF InvTablas, TiposMuse
  <2>2. pc[p] = "alloc" => local[p].faltan \in Nat
    BY DEF InvHeap, InvTablas, TiposMuse, EsLocal
  <2> QED BY <2>1, <2>2 DEF Porvenir
<1>3. Tam(p) \in Nat \ {0} /\ Unidad(p) \in Nat /\ Unidad(p) = Tam(p) + tamanio_heap
  BY Unidades
<1> QED BY <1>1, <1>2, <1>3 DEF InvHeap, Numeros

LEMMA LargosMuse ==
  ASSUME TiposMuse, NEW p \in Programas
  PROVE  /\ Len(vivas[p]) \in Nat /\ Len(mem.tablaPaginas[p]) \in Nat
         /\ heaps[p] \in Seq(TChunk) /\ vivas[p] \in Seq(Porcion)
         /\ limiteLogico[p] \in Int /\ EsLocal(local[p])
<1>1. vivas[p] \in Seq(Porcion)
  BY DEF TiposMuse
<1>2. Len(vivas[p]) \in Nat
  BY <1>1, LenProperties
<1>3. Len(mem.tablaPaginas[p]) \in Nat
  BY Partes DEF TiposMuse
<1> QED BY <1>1, <1>2, <1>3 DEF TiposMuse

(* Each action keeps InvPorciones.                                           *)
LEMMA PorcionesInicializar ==
  ASSUME HipotesisHeap, InvTablas, InvPorciones, NEW p \in Programas, InicializarNuevoPrograma(p)
  PROVE  InvPorciones'
<1>1. /\ mem.caida = "no" /\ pc[p] = "fuera" /\ pc' = [pc EXCEPT ![p] = "libre"]
      /\ mem' = [mem EXCEPT !.programas = @ \cup {p}]
      /\ UNCHANGED <<heaps, limiteLogico, g_mutexPaginas, local, vivas>>
  BY DEF InicializarNuevoPrograma, Ir
<1>2. pc'[p] = "libre" /\ \A q \in Programas \ {p} : pc'[q] = pc[q]
  BY <1>1 DEF InvTablas, TiposMuse
<1>3. mem'.tablaPaginas = mem.tablaPaginas
  BY <1>1 DEF InvTablas, TiposMuse, EsMem, Campos
<1>4. ASSUME NEW q \in Programas PROVE Quieto(q)
  BY <1>1, <1>2, <1>3 DEF Quieto
<1> QED BY <1>1, <1>2, <1>4, SinCambios

LEMMA PorcionesAcceder ==
  ASSUME HipotesisHeap, InvTablas, InvPorciones, NEW p \in Programas, NEW k \in DOMAIN vivas[p],
         NEW op \in {"get", "copy"}, NEW v \in Valores \cup {Nada}, Acceder(p, k, op, v)
  PROVE  InvPorciones'
<1>1. /\ mem.caida = "no" /\ pc[p] = "libre"
      /\ \E d \in {"get", "copy", "muerto"} : pc' = [pc EXCEPT ![p] = d]
      /\ \E l : local' = [local EXCEPT ![p] = l]
      /\ UNCHANGED <<heaps, limiteLogico, mem, vivas>>
  BY DEF Acceder, Pide, Ir
<1>2. /\ pc'[p] \in {"get", "copy", "muerto"} /\ \A q \in Programas \ {p} : pc'[q] = pc[q]
      /\ \A q \in Programas \ {p} : local'[q] = local[q]
  BY <1>1 DEF InvTablas, TiposMuse
<1>3. ASSUME NEW q \in Programas PROVE Quieto(q)
  BY <1>1, <1>2 DEF Quieto
<1> QED BY <1>1, <1>2, <1>3, SinCambios

LEMMA PorcionesPageFault ==
  ASSUME HipotesisHeap, InvTablas, InvPorciones, NEW p \in Programas, pageFault(p)
  PROVE  InvPorciones'
<1>1. /\ mem.caida = "no" /\ pc[p] \in {"get", "copy"}
      /\ UNCHANGED <<heaps, limiteLogico, g_mutexPaginas, pc, vivas>>
      /\ \A q \in Programas : Len(mem'.tablaPaginas[q]) = Len(mem.tablaPaginas[q])
      /\ \A q \in Programas \ {p} : local'[q] = local[q]
  BY EfectoPageFault DEF HipotesisHeap
<1>2. ASSUME NEW q \in Programas PROVE Quieto(q)
  BY <1>1 DEF Quieto
<1> QED BY <1>1, <1>2, SinCambios

LEMMA PorcionesRespuesta ==
  ASSUME HipotesisHeap, InvTablas, InvPorciones, NEW p \in Programas, enviarRespuesta(p)
  PROVE  InvPorciones'
<1>1. /\ mem.caida = "no" /\ pc[p] \in {"get", "copy"}
      /\ pc' = [pc EXCEPT ![p] = "libre"] /\ local' = [local EXCEPT ![p] = LocalInicial]
      /\ UNCHANGED <<heaps, limiteLogico, mem, vivas>>
  BY DEF enviarRespuesta, Ir
<1>2. /\ pc'[p] = "libre" /\ \A q \in Programas \ {p} : pc'[q] = pc[q]
      /\ \A q \in Programas \ {p} : local'[q] = local[q]
  BY <1>1 DEF InvTablas, TiposMuse
<1>3. ASSUME NEW q \in Programas PROVE Quieto(q)
  BY <1>1, <1>2 DEF Quieto
<1> QED BY <1>1, <1>2, <1>3, SinCambios

LEMMA PorcionesDesconectar ==
  ASSUME HipotesisHeap, InvTablas, InvPorciones, NEW p \in Programas, Desconectar(p)
  PROVE  InvPorciones'
<1>1. /\ mem.caida = "no" /\ pc[p] = "libre" /\ pc' = [pc EXCEPT ![p] = "muerto"]
      /\ UNCHANGED <<heaps, limiteLogico, mem, g_mutexPaginas, local, vivas>>
  BY DEF Desconectar, Sigue, Ir
<1>2. pc'[p] = "muerto" /\ \A q \in Programas \ {p} : pc'[q] = pc[q]
  BY <1>1 DEF InvTablas, TiposMuse
<1>3. ASSUME NEW q \in Programas PROVE Quieto(q)
  BY <1>1, <1>2 DEF Quieto
<1> QED BY <1>1, <1>2, <1>3, SinCambios

LEMMA PorcionesFinalizar ==
  ASSUME HipotesisHeap, InvTablas, InvPorciones, NEW p \in Programas, FinalizarPrograma(p)
  PROVE  InvPorciones'
<1>1. /\ mem.caida = "no" /\ pc[p] = "libre" /\ pc' = [pc EXCEPT ![p] = "cerrando"]
      /\ mem' = [mem EXCEPT !.programas = @ \ {p}] /\ vivas' = [vivas EXCEPT ![p] = <<>>]
      /\ SinPorciones /\ UNCHANGED <<heaps, limiteLogico, g_mutexPaginas, local>>
  BY DEF FinalizarPrograma, Sigue, Ir, HipotesisHeap, Hipotesis
<1>2. vivas[p] = <<>>
  BY <1>1 DEF SinPorciones
<1>3. /\ pc'[p] = "cerrando" /\ \A q \in Programas \ {p} : pc'[q] = pc[q]
      /\ \A q \in Programas : vivas'[q] = vivas[q]
  BY <1>1, <1>2 DEF InvTablas, TiposMuse
<1>4. mem'.tablaPaginas = mem.tablaPaginas
  BY <1>1 DEF InvTablas, TiposMuse, EsMem, Campos
<1>5. ASSUME NEW q \in Programas PROVE Quieto(q)
  BY <1>1, <1>3, <1>4 DEF Quieto
<1> QED BY <1>1, <1>2, <1>3, <1>5, SinCambios

LEMMA PorcionesDestruirPagina ==
  ASSUME HipotesisHeap, InvTablas, InvPorciones, NEW p \in Programas, destruirPagina(p)
  PROVE  InvPorciones'
<1>1. /\ mem.caida = "no" /\ pc[p] = "cerrando"
      /\ \E l : local' = [local EXCEPT ![p] = l]
      /\ UNCHANGED <<heaps, limiteLogico, g_mutexPaginas, pc, vivas>>
  BY DEF destruirPagina, Sigue
<1>2. mem'.tablaPaginas = mem.tablaPaginas
  BY DEF destruirPagina, InvTablas, TiposMuse, EsMem, Campos
<1>3. \A q \in Programas \ {p} : local'[q] = local[q]
  BY <1>1 DEF InvTablas, TiposMuse
<1>4. vivas[p] = <<>>
  BY <1>1 DEF InvPorciones
<1>5. ASSUME NEW q \in Programas PROVE Quieto(q)
  BY <1>1, <1>2, <1>3 DEF Quieto
<1> QED BY <1>1, <1>4, <1>5, SinCambios

(* A program without a heap. *)
Vacio(p) ==
  /\ heaps[p] = <<>> /\ vivas[p] = <<>> /\ limiteLogico[p] = 0
  /\ mem.tablaPaginas[p] = <<>> /\ pc[p] # "alloc"

LEMMA HeapSinNada ==
  ASSUME HipotesisHeap, NEW p \in Programas, Vacio(p)
  PROVE  LasVivas(p) /\ InvHeap(p)
<1> USE DEF Vacio
<1>1. Len(vivas[p]) = 0 /\ Len(mem.tablaPaginas[p]) = 0 /\ Len(heaps[p]) = 0
  OBVIOUS
<1>2. Tomados(p) = 0 /\ Porvenir(p) = 0
  BY <1>1 DEF Tomados, Porvenir
<1>3. LasVivas(p)
  BY <1>1 DEF LasVivas
<1>4. FormaDe(heaps[p], Tam(p), Unidad(p), 0, 0, 0)
  BY <1>1 DEF FormaDe
<1>5. 0 * lengthPagina = 0 /\ (0 + 0) * Unidad(p) = 0
  <2>1. 0 * lengthPagina = 0
    BY Constantes
  <2>2. Unidad(p) \in Nat
    BY Unidades
  <2> QED BY <2>1, <2>2
<1>6. Cabe(Porvenir(p), Tomados(p) + 0, Unidad(p), 0)
  BY <1>2, <1>5 DEF Cabe
<1>7. limiteLogico[p] = (Porvenir(p) - 0) * lengthPagina
  BY <1>2, <1>5
<1>8. 0 \in Nat /\ 0 \in 0..5
  OBVIOUS
<1> QED BY <1>2, <1>3, <1>4, <1>6, <1>7, <1>8 DEF InvHeap

LEMMA HeapVacio ==
  ASSUME HipotesisHeap, NEW p \in Programas
  PROVE  /\ Vacio(p) => LasVivas(p) /\ InvHeap(p)
         /\ Vacio(p)' => LasVivas(p)' /\ InvHeap(p)'
<1>1. Vacio(p) => LasVivas(p) /\ InvHeap(p)
  BY HeapSinNada
<1>2. (Vacio(p) => LasVivas(p) /\ InvHeap(p))'
  BY <1>1, PTL
<1> QED BY <1>1, <1>2

LEMMA PorcionesDestruirSegmento ==
  ASSUME HipotesisHeap, InvTablas, InvPorciones, NEW p \in Programas, destruirSegmento(p)
  PROVE  InvPorciones'
<1>1. /\ mem.caida = "no" /\ pc[p] = "cerrando" /\ pc' = [pc EXCEPT ![p] = "cerrado"]
      /\ mem' = [mem EXCEPT !.tablaPaginas[p] = <<>>] /\ heaps' = [heaps EXCEPT ![p] = <<>>]
      /\ limiteLogico' = [limiteLogico EXCEPT ![p] = 0]
      /\ local' = [local EXCEPT ![p] = LocalInicial] /\ UNCHANGED <<g_mutexPaginas, vivas>>
  BY DEF destruirSegmento, Sigue, Ir
<1>2. mem'.tablaPaginas = [mem.tablaPaginas EXCEPT ![p] = <<>>]
  BY <1>1 DEF InvTablas, TiposMuse, EsMem, Campos
<1>3. /\ pc'[p] = "cerrado" /\ heaps'[p] = <<>> /\ limiteLogico'[p] = 0
      /\ mem'.tablaPaginas[p] = <<>>
      /\ \A q \in Programas \ {p} :
           /\ pc'[q] = pc[q] /\ heaps'[q] = heaps[q] /\ limiteLogico'[q] = limiteLogico[q]
           /\ mem'.tablaPaginas[q] = mem.tablaPaginas[q] /\ local'[q] = local[q]
  BY <1>1, <1>2, Partes DEF InvTablas, TiposMuse
<1>4. vivas'[p] = <<>>
  BY <1>1 DEF InvPorciones
<1>5. LasVivas(p)' /\ InvHeap(p)'
  <2>1. Vacio(p)'
    BY <1>3, <1>4 DEF Vacio
  <2> QED BY <2>1, HeapVacio
<1>6. \A q \in Programas \ {p} : Quieto(q) /\ pc'[q] = pc[q]
  BY <1>1, <1>3 DEF Quieto
<1> QED BY <1>1, <1>4, <1>5, <1>6, ConservaPorciones

(* The heap of p once it has reserved tam more bytes. *)
LEMMA AlReservar ==
  ASSUME HipotesisHeap, InvTablas, NEW p \in Programas, InvHeap(p), pc[p] = "libre",
         NEW tam \in Tamanios[p]
  PROVE  LET o == Reservado(p, tam)
             n == Len(vivas[p])
         IN /\ tam = Tam(p) /\ o.paginas \in Nat /\ o.dir = tamanio_heap + n * Unidad(p)
            /\ \E m \in Nat, r \in 0..5 :
                 /\ FormaDe(o.heaps, Tam(p), Unidad(p), n + 1, m, r)
                 /\ Cabe(Len(mem.tablaPaginas[p]) + o.paginas, n + 1 + m, Unidad(p), r)
            /\ Elegibles(heaps[p], tam) # {} => o.dir < limiteLogico[p]
<1>1. PICK t \in Nat \ {0}, u \in Nat, k \in Nat, c \in Nat, m \in Nat, r \in 0..5 :
        Numeros(p, t, u, k, c, m, r)
  BY HeapDe
<1>2. /\ t = Tam(p) /\ u = Unidad(p) /\ u = t + tamanio_heap /\ k = Len(vivas[p])
      /\ c = Len(mem.tablaPaginas[p]) /\ FormaDe(heaps[p], t, u, k, m, r)
      /\ Cabe(c, k + m, u, r) /\ u >= 6 /\ tamanio_heap \in 5..6
      /\ limiteLogico[p] = c * lengthPagina
  <2>1. Len(vivas[p]) \in Nat /\ Len(mem.tablaPaginas[p]) \in Nat
    BY LargosMuse DEF InvTablas
  <2>2. Tomados(p) = Len(vivas[p]) /\ Porvenir(p) = Len(mem.tablaPaginas[p])
    BY <2>1 DEF Tomados, Porvenir
  <2>3. limiteLogico[p] = (Porvenir(p) - 0) * lengthPagina
    BY DEF InvHeap
  <2> QED BY <1>1, <2>1, <2>2, <2>3, Unidades DEF Numeros
<1>3. PICK h \in Seq(TChunk) : h = heaps[p]
  BY LargosMuse DEF InvTablas
<1>4. tam = t
  BY <1>2, Unidades
<1>5. Forma(h, t, u, k, m, r)
  BY <1>2, <1>3, Formado
<1>6. Elegibles(h, t) = IF m = 0 THEN {} ELSE {k + 1}
  BY <1>5 DEF Forma
<1>7. CASE m # 0
  <2> DEFINE o == allocarEnHeapLibre(h, t)
  <2>1. PICK m1 \in Nat \ {0}, m2 \in Nat : m1 = m /\ m2 = m1 - 1 /\ k + 1 + m2 = k + m
    <3>1. m \in Nat \ {0} /\ m - 1 \in Nat /\ k + 1 + (m - 1) = k + m
      BY <1>7
    <3> QED BY <3>1
  <2>2. /\ FormaDe(o.heaps, t, u, k + 1, m2, r)
        /\ o.dir = tamanio_heap + k * u /\ o.paginas = 0
    <3>1. FormaDe(h, t, u, k, m1, r)
      BY <1>2, <1>3, <2>1
    <3>2. tamanio_heap <= 6
      BY <1>2
    <3>3. ReservaLibre(h, t, u, k, m1, r)
      BY <1>2, <3>1, <3>2, AlReservarLibre
    <3> QED BY <2>1, <3>3 DEF ReservaLibre
  <2>3. Reservado(p, tam) = o /\ Elegibles(heaps[p], tam) # {}
    BY <1>3, <1>4, <1>6, <1>7 DEF Reservado
  <2> HIDE DEF o
  <2>4. Cabe(c + 0, k + 1 + m2, u, r)
    BY <1>2, <2>1
  <2>5. o.dir < limiteLogico[p]
    <3>1. k + 1 <= k + m /\ k + 1 \in Int /\ k + m \in Int
      BY <1>7
    <3>2. (k + 1) * u <= (k + m) * u /\ (k + 1) * u \in Int /\ (k + m) * u \in Int
      BY <3>1, Multiplos
    <3>3. (k + 1) * u = k * u + u /\ k * u \in Int /\ c * lengthPagina \in Int
      <4>1. c * lengthPagina \in Int
        BY Productos
      <4>2. k * u \in Int /\ (k + 1) * u = k * u + u
        BY Multiplos
      <4> QED BY <4>1, <4>2
    <3>4. PICK z \in Int : z = c * lengthPagina
      BY <3>3
    <3>5. PICK y \in Int : y = (k + m) * u
      BY <3>2
    <3>6. PICK x \in Int : x = k * u
      BY <3>3
    <3>7. x + u <= y
      BY <3>2, <3>3, <3>5, <3>6
    <3>8. z - y \in r..5
      BY <1>2, <3>4, <3>5 DEF Cabe
    <3>9. o.dir = tamanio_heap + x /\ limiteLogico[p] = z
      BY <1>2, <2>2, <3>4, <3>6
    <3>10. tamanio_heap \in Nat /\ u = t + tamanio_heap
      BY <1>2
    <3> QED BY <3>7, <3>8, <3>9, <3>10
  <2>6. /\ Cabe(c + o.paginas, k + 1 + m2, u, r) /\ o.paginas \in Nat
    BY <2>2, <2>4
  <2>7. \E n \in Nat, s \in 0..5 :
          /\ FormaDe(o.heaps, t, u, k + 1, n, s)
          /\ Cabe(c + o.paginas, k + 1 + n, u, s)
    BY <2>2, <2>6
  <2>8. o.paginas \in Nat /\ o.dir = tamanio_heap + k * u
    BY <2>2
  <2> QED BY <1>2, <1>4, <2>3, <2>5, <2>7, <2>8
<1>8. CASE m = 0
  <2> DEFINE o == allocarHeapNuevo(h, c, t)
  <2>1. Cabe(c, k, u, 0)
    <3>1. k + m = k /\ r..5 \subseteq 0..5
      BY <1>8
    <3> QED BY <1>2, <3>1 DEF Cabe
  <2>2. SinResto(u)
    BY <1>2 DEF HipotesisHeap, SinRestos
  <2>3. FormaDe(h, t, u, k, 0, r)
    BY <1>2, <1>3, <1>8
  <2>4. ReservaNueva(h, t, u, k, c)
    BY <1>2, <2>1, <2>2, <2>3, AlReservarNuevo
  <2>5. Reservado(p, tam) = o /\ Elegibles(heaps[p], tam) = {}
    BY <1>2, <1>3, <1>4, <1>6, <1>8 DEF Reservado
  <2>6. /\ o.paginas \in Nat /\ o.dir = tamanio_heap + k * u
        /\ \E n \in Nat, s \in 0..5 :
             /\ FormaDe(o.heaps, t, u, k + 1, n, s)
             /\ Cabe(c + o.paginas, k + 1 + n, u, s)
    BY <2>4 DEF ReservaNueva
  <2> HIDE DEF o
  <2> QED BY <1>2, <1>4, <2>5, <2>6
<1> QED BY <1>7, <1>8

LEMMA PorcionesAlloc ==
  ASSUME HipotesisHeap, InvTablas, InvPorciones, NEW p \in Programas, NEW tam \in Tamanios[p],
         procesarAlloc(p, tam)
  PROVE  InvPorciones' /\ mem'.caida = "no"
<1> DEFINE o == Reservado(p, tam)
           l == [LocalInicial EXCEPT !.dir = o.dir, !.tam = tam, !.pagina = o.paginas,
                                     !.faltan = o.paginas]
<1>1. /\ mem.caida = "no" /\ pc[p] = "libre" /\ heaps' = [heaps EXCEPT ![p] = o.heaps]
      /\ local' = [local EXCEPT ![p] = l] /\ pc' = [pc EXCEPT ![p] = "alloc"]
      /\ UNCHANGED <<limiteLogico, vivas>> /\ MismaMemoria(mem, mem')
      /\ o.dir < limiteLogico[p] \/ Elegibles(heaps[p], tam) = {} => mem'.caida = "no"
  BY EfectoAlloc DEF HipotesisHeap
<1>2. /\ l.dir = o.dir /\ l.tam = tam /\ l.pagina = o.paginas /\ l.faltan = o.paginas
  BY DEF LocalInicial
<1> HIDE DEF l
<1>3. PICK n \in Nat : n = Len(vivas[p])
  BY LargosMuse DEF InvTablas
<1>4. PICK c \in Nat : c = Len(mem.tablaPaginas[p])
  BY LargosMuse DEF InvTablas
<1>5. InvHeap(p)
  BY <1>1 DEF InvPorciones
<1>6. /\ tam = Tam(p) /\ o.paginas \in Nat /\ o.dir = tamanio_heap + n * Unidad(p)
      /\ \E m \in Nat, r \in 0..5 :
           /\ FormaDe(o.heaps, Tam(p), Unidad(p), n + 1, m, r)
           /\ Cabe(c + o.paginas, n + 1 + m, Unidad(p), r)
      /\ Elegibles(heaps[p], tam) # {} => o.dir < limiteLogico[p]
  BY <1>1, <1>3, <1>4, <1>5, AlReservar
<1> HIDE DEF o
<1>7. mem'.caida = "no"
  BY <1>1, <1>6
<1>8. mem'.tablaPaginas = mem.tablaPaginas
  BY <1>1 DEF MismaMemoria
<1>9. /\ pc'[p] = "alloc" /\ local'[p] = l /\ heaps'[p] = o.heaps
      /\ \A q \in Programas \ {p} : pc'[q] = pc[q] /\ local'[q] = local[q] /\ heaps'[q] = heaps[q]
  BY <1>1 DEF InvTablas, TiposMuse
<1>10. Tomados(p)' = n + 1 /\ Porvenir(p)' = c + o.paginas
  BY <1>1, <1>2, <1>3, <1>4, <1>8, <1>9 DEF Tomados, Porvenir
<1>11. limiteLogico'[p] = (Porvenir(p)' - local'[p].pagina) * lengthPagina
  <2>1. Porvenir(p) = c /\ limiteLogico[p] = (Porvenir(p) - 0) * lengthPagina
    BY <1>1, <1>4, <1>5 DEF InvHeap, Porvenir
  <2> DEFINE X == Porvenir(p)' - local'[p].pagina
  <2>2. X = c
    BY <1>2, <1>6, <1>9, <1>10
  <2>3. limiteLogico[p] = c * lengthPagina
    <3>1. c - 0 = c
      OBVIOUS
    <3> QED BY <2>1, <3>1
  <2> HIDE DEF X
  <2>4. limiteLogico'[p] = X * lengthPagina
    BY <1>1, <2>2, <2>3
  <2> QED BY <2>4 DEF X
<1>12. /\ local'[p].dir = tamanio_heap + Len(vivas'[p]) * Unidad(p) /\ local'[p].tam = Tam(p)
       /\ local'[p].faltan \in 0..local'[p].pagina
  BY <1>1, <1>2, <1>3, <1>6, <1>9
<1>13. InvHeap(p)'
  <2>1. \E m \in Nat, r \in 0..5 :
          /\ FormaDe(heaps'[p], Tam(p), Unidad(p), Tomados(p)', m, r)
          /\ Cabe(Porvenir(p)', Tomados(p)' + m, Unidad(p), r)
    BY <1>6, <1>9, <1>10
  <2> QED BY <1>9, <1>11, <1>12, <2>1 DEF InvHeap
<1>14. LasVivas(p)'
  <2>1. LasVivas(p)
    BY DEF InvPorciones
  <2> QED BY <1>1, <2>1 DEF LasVivas
<1>15. \A q \in Programas \ {p} : Quieto(q) /\ pc'[q] = pc[q]
  BY <1>1, <1>8, <1>9 DEF Quieto
<1> QED BY <1>1, <1>7, <1>9, <1>13, <1>14, <1>15, ConservaPorciones

LEMMA PorcionesAgregar ==
  ASSUME HipotesisHeap, InvTablas, InvPorciones, NEW p \in Programas, allocarEnPaginasNuevas(p)
  PROVE  InvPorciones'
<1> DEFINE l == [local[p] EXCEPT !.faltan = @ - 1]
<1>1. /\ mem.caida = "no" /\ pc[p] = "alloc" /\ local[p].faltan > 0
      /\ local' = [local EXCEPT ![p] = l] /\ l.faltan = local[p].faltan - 1
      /\ l.pagina = local[p].pagina /\ l.dir = local[p].dir /\ l.tam = local[p].tam
      /\ UNCHANGED <<heaps, limiteLogico, g_mutexPaginas, pc, vivas>>
      /\ mem'.caida = "no" => Len(mem'.tablaPaginas[p]) = Len(mem.tablaPaginas[p]) + 1
      /\ \A q \in Programas \ {p} : Len(mem'.tablaPaginas[q]) = Len(mem.tablaPaginas[q])
  BY EfectoAgregar DEF HipotesisHeap
<1> HIDE DEF l
<1>2. local'[p] = l /\ \A q \in Programas \ {p} : local'[q] = local[q]
  BY <1>1 DEF InvTablas, TiposMuse
<1>3. LasVivas(p)'
  <2>1. LasVivas(p)
    BY DEF InvPorciones
  <2> QED BY <1>1, <2>1 DEF LasVivas
<1>4. ASSUME mem'.caida = "no" PROVE InvHeap(p)'
  <2>1. InvHeap(p)
    BY <1>1 DEF InvPorciones
  <2>2. Len(mem.tablaPaginas[p]) \in Nat /\ local[p].faltan \in Int
    BY LargosMuse DEF InvTablas, EsLocal
  <2>3. Tomados(p)' = Tomados(p) /\ Porvenir(p)' = Porvenir(p)
    BY <1>1, <1>2, <1>4, <2>2 DEF Tomados, Porvenir
  <2>4. \E m \in Nat, r \in 0..5 :
          /\ FormaDe(heaps'[p], Tam(p), Unidad(p), Tomados(p)', m, r)
          /\ Cabe(Porvenir(p)', Tomados(p)' + m, Unidad(p), r)
    BY <1>1, <2>1, <2>3 DEF InvHeap
  <2>5. limiteLogico'[p] =
          (Porvenir(p)' - (IF pc'[p] = "alloc" THEN local'[p].pagina ELSE 0)) * lengthPagina
    BY <1>1, <1>2, <2>1, <2>3 DEF InvHeap
  <2>6. /\ local[p].dir = tamanio_heap + Len(vivas[p]) * Unidad(p) /\ local[p].tam = Tam(p)
        /\ local[p].faltan \in 0..local[p].pagina
    BY <1>1, <2>1 DEF InvHeap
  <2>7. /\ local'[p].dir = tamanio_heap + Len(vivas'[p]) * Unidad(p) /\ local'[p].tam = Tam(p)
        /\ local'[p].faltan \in 0..local'[p].pagina
    <3>1. local'[p].dir = local[p].dir /\ local'[p].tam = local[p].tam /\ vivas' = vivas
      BY <1>1, <1>2
    <3>2. local[p].pagina \in Int
      BY LargosMuse DEF InvTablas, EsLocal
    <3>3. local'[p].faltan = local[p].faltan - 1 /\ local'[p].pagina = local[p].pagina
      BY <1>1, <1>2
    <3>4. local'[p].faltan \in 0..local'[p].pagina
      BY <1>1, <2>2, <2>6, <3>2, <3>3
    <3> QED BY <2>6, <3>1, <3>4
  <2> QED BY <2>4, <2>5, <2>7 DEF InvHeap
<1>5. \A q \in Programas \ {p} : Quieto(q) /\ pc'[q] = pc[q]
  BY <1>1, <1>2 DEF Quieto
<1> QED BY <1>1, <1>3, <1>4, <1>5, ConservaPorciones

LEMMA PorcionesRespuestaAlloc ==
  ASSUME HipotesisHeap, InvTablas, InvPorciones, NEW p \in Programas, enviarRespuestaAlloc(p)
  PROVE  InvPorciones'
<1> DEFINE q0 == [dir |-> local[p].dir, tam |-> local[p].tam]
<1>1. /\ mem.caida = "no" /\ pc[p] = "alloc" /\ local[p].faltan <= 0
      /\ limiteLogico' = [limiteLogico EXCEPT ![p] = @ + local[p].pagina * lengthPagina]
      /\ vivas' = [vivas EXCEPT ![p] = Append(@, q0)]
      /\ local' = [local EXCEPT ![p] = LocalInicial] /\ pc' = [pc EXCEPT ![p] = "libre"]
      /\ UNCHANGED <<heaps, mem>>
  BY DEF enviarRespuestaAlloc, Sigue, Ir
<1>2. /\ pc'[p] = "libre" /\ vivas'[p] = Append(vivas[p], q0)
      /\ limiteLogico'[p] = limiteLogico[p] + local[p].pagina * lengthPagina
      /\ \A q \in Programas \ {p} :
           /\ pc'[q] = pc[q] /\ vivas'[q] = vivas[q] /\ limiteLogico'[q] = limiteLogico[q]
           /\ local'[q] = local[q]
  BY <1>1 DEF InvTablas, TiposMuse
<1>3. InvHeap(p) /\ LasVivas(p)
  BY <1>1 DEF InvPorciones
<1>4. PICK t \in Nat \ {0}, u \in Nat, k \in Nat, c \in Nat, m \in Nat, r \in 0..5 :
        Numeros(p, t, u, k, c, m, r)
  BY <1>3, HeapDe
<1>5. PICK n \in Nat : n = Len(vivas[p])
  BY LargosMuse DEF InvTablas
<1>6. PICK g \in Nat : g = local[p].pagina /\ local[p].faltan = 0
  <2>1. local[p].faltan \in Int /\ local[p].pagina \in Int
    BY LargosMuse DEF InvTablas, EsLocal
  <2> QED BY <1>1, <1>3, <2>1 DEF InvHeap
<1>7. /\ t = Tam(p) /\ u = Unidad(p) /\ k = n + 1 /\ c = Len(mem.tablaPaginas[p])
      /\ FormaDe(heaps[p], t, u, k, m, r) /\ Cabe(c, k + m, u, r)
      /\ limiteLogico[p] = (c - g) * lengthPagina
      /\ q0 = [dir |-> tamanio_heap + n * u, tam |-> t]
  <2>1. Len(mem.tablaPaginas[p]) \in Nat
    BY LargosMuse DEF InvTablas
  <2>2. Tomados(p) = n + 1 /\ Porvenir(p) = Len(mem.tablaPaginas[p])
    BY <1>1, <1>5, <1>6, <2>1 DEF Tomados, Porvenir
  <2> QED BY <1>1, <1>3, <1>4, <1>5, <1>6, <2>2 DEF Numeros, InvHeap
<1>8. /\ limiteLogico'[p] = c * lengthPagina /\ limiteLogico[p] <= limiteLogico'[p]
      /\ limiteLogico[p] \in Int /\ limiteLogico'[p] \in Int
  <2>1. /\ (c - g) * lengthPagina = c * lengthPagina - g * lengthPagina
        /\ c * lengthPagina \in Int
    BY Productos
  <2>2. 0 * lengthPagina <= g * lengthPagina /\ 0 * lengthPagina = 0 /\ g * lengthPagina \in Int
    BY Productos, Constantes
  <2>3. PICK a \in Int : a = c * lengthPagina
    BY <2>1
  <2>4. PICK b \in Nat : b = g * lengthPagina
    BY <2>2
  <2>5. limiteLogico[p] = a - b
    BY <1>7, <2>1, <2>3, <2>4
  <2>6. limiteLogico'[p] = limiteLogico[p] + b
    BY <1>2, <1>6, <2>4
  <2> QED BY <2>3, <2>5, <2>6
<1>9. /\ Len(vivas'[p]) = n + 1 /\ vivas'[p][n + 1] = q0
      /\ \A i \in 1..n : vivas'[p][i] = vivas[p][i]
  <2>1. vivas[p] \in Seq(Porcion) /\ q0 \in Porcion
    BY LargosMuse DEF InvTablas, EsLocal, Porcion
  <2> HIDE DEF q0
  <2>2. /\ Len(Append(vivas[p], q0)) = Len(vivas[p]) + 1
        /\ \A i \in 1..Len(vivas[p]) : Append(vivas[p], q0)[i] = vivas[p][i]
        /\ Append(vivas[p], q0)[Len(vivas[p]) + 1] = q0
    BY <2>1, AppendProperties
  <2> QED BY <1>2, <1>5, <2>2
<1>10. InvHeap(p)'
  <2>1. Tomados(p)' = k /\ Porvenir(p)' = c
    <3>1. Len(vivas'[p]) = k /\ Len(mem'.tablaPaginas[p]) = c /\ pc'[p] # "alloc"
      BY <1>1, <1>2, <1>7, <1>9
    <3> QED BY <3>1 DEF Tomados, Porvenir
  <2>2. limiteLogico'[p] = (Porvenir(p)' - 0) * lengthPagina
    <3>1. c - 0 = c
      OBVIOUS
    <3> QED BY <1>8, <2>1, <3>1
  <2>3. FormaDe(heaps'[p], Tam(p), Unidad(p), Tomados(p)', m, r) /\ Cabe(Porvenir(p)', Tomados(p)' + m, Unidad(p), r)
    BY <1>1, <1>7, <2>1
  <2> QED BY <1>2, <2>2, <2>3 DEF InvHeap
<1> HIDE DEF q0
<1>11. LasVivas(p)'
  <2>1. k * u <= limiteLogico'[p]
    <3>1. k * u <= (k + m) * u /\ k * u \in Int /\ (k + m) * u \in Int /\ c * lengthPagina \in Int
      BY Multiplos, Productos
    <3>2. PICK z \in Int : z = c * lengthPagina
      BY <3>1
    <3>3. PICK y \in Int : y = (k + m) * u
      BY <3>1
    <3>4. z - y \in r..5
      BY <1>7, <3>2, <3>3 DEF Cabe
    <3> QED BY <1>8, <3>1, <3>2, <3>3, <3>4
  <2>2. ASSUME NEW i \in 1..(n + 1)
        PROVE  /\ vivas'[p][i] = [dir |-> tamanio_heap + (i - 1) * Unidad(p), tam |-> Tam(p)]
               /\ i * Unidad(p) <= limiteLogico'[p]
    <3>1. CASE i = n + 1
      <4>1. i - 1 = n
        BY <3>1
      <4> QED BY <1>7, <1>9, <2>1, <3>1, <4>1
    <3>2. CASE i # n + 1
      <4>1. PICK j \in 1..n : j = i
        BY <3>2
      <4>2. /\ vivas[p][j] = [dir |-> tamanio_heap + (j - 1) * Unidad(p), tam |-> Tam(p)]
            /\ j * Unidad(p) <= limiteLogico[p]
        BY <1>3, <1>5 DEF LasVivas
      <4>3. j * u \in Int
        BY Multiplos
      <4>4. PICK z \in Int : z = j * u
        BY <4>3
      <4>5. z <= limiteLogico'[p]
        <5>1. z <= limiteLogico[p]
          BY <1>7, <4>2, <4>4
        <5> QED BY <1>8, <5>1
      <4>6. vivas'[p][j] = vivas[p][j]
        BY <1>9
      <4> QED BY <1>7, <4>1, <4>2, <4>4, <4>5, <4>6
    <3> QED BY <3>1, <3>2
  <2>3. limiteLogico'[p] >= 0
    BY <1>3, <1>8 DEF LasVivas
  <2> QED BY <1>9, <2>2, <2>3 DEF LasVivas
<1>12. \A q \in Programas \ {p} : Quieto(q) /\ pc'[q] = pc[q]
  BY <1>1, <1>2 DEF Quieto
<1> QED BY <1>1, <1>2, <1>10, <1>11, <1>12, ConservaPorciones

(* Only the last chunk in use is at the address of the newest portion.       *)
LEMMA ElUltimo ==
  ASSUME NEW h \in Seq(TChunk), NEW t, NEW u \in Nat \ {0}, NEW k \in Nat \ {0}, NEW m \in Nat,
         NEW r \in 0..5, Forma(h, t, u, k, m, r)
  PROVE  {i \in 1..Len(h) : Direccion(h, i) = tamanio_heap + (k - 1) * u} = {k}
<1>1. Len(h) \in Nat /\ k \in 1..Len(h) /\ tamanio_heap \in Nat
  BY Constantes DEF Forma
<1>2. ASSUME NEW i \in 1..Len(h), Direccion(h, i) = tamanio_heap + (k - 1) * u
      PROVE  i = k
  <2>1. Direccion(h, i) = tamanio_heap + (i - 1) * u
    BY DEF Forma
  <2>2. i \in Int /\ i - 1 \in Int /\ k - 1 \in Int /\ u \in Nat
    BY <1>1
  <2>3. (i - 1) * u \in Int /\ (k - 1) * u \in Int
    BY <2>2, Multiplos
  <2>4. (i - 1) * u = (k - 1) * u
    <3>1. PICK a \in Int : a = (i - 1) * u
      BY <2>3
    <3>2. PICK b \in Int : b = (k - 1) * u
      BY <2>3
    <3>3. tamanio_heap + a = tamanio_heap + b
      BY <1>2, <2>1, <3>1, <3>2
    <3>4. a = b
      BY <1>1, <3>3
    <3> QED BY <3>1, <3>2, <3>4
  <2>5. PICK a \in Int : a = i - 1
    BY <2>2
  <2>6. PICK b \in Int : b = k - 1
    BY <2>2
  <2>7. a * u = b * u
    BY <2>4, <2>5, <2>6
  <2>8. a = b
    BY ONLY u \in Nat \ {0}, a \in Int, b \in Int, <2>7, Iguala
  <2> QED BY <2>2, <2>5, <2>6, <2>8
<1>3. Direccion(h, k) = tamanio_heap + (k - 1) * u
  BY <1>1 DEF Forma
<1> QED BY <1>1, <1>2, <1>3

LEMMA PorcionesFree ==
  ASSUME HipotesisHeap, InvTablas, InvPorciones, NEW p \in Programas, NEW k \in DOMAIN vivas[p],
         procesarFree(p, k)
  PROVE  InvPorciones' /\ mem'.caida = "no"
<1> DEFINE dir == vivas[p][k].dir
           indices == {i \in 1..Len(heaps[p]) : Direccion(heaps[p], i) = dir}
           i == Min(indices)
           o == verificarCompactacionFree(heaps[p], i)
           invalida == dir >= limiteLogico[p] \/ indices = {}
           ocupado == ~ invalida /\ ~ heaps[p][i].isFree
<1>1. /\ mem.caida = "no" /\ pc[p] = "libre"
      /\ heaps' = IF ocupado THEN [heaps EXCEPT ![p] = o.heaps] ELSE heaps
      /\ vivas' = [vivas EXCEPT ![p] = RemoveAt(@, k)]
      /\ UNCHANGED <<limiteLogico, g_mutexPaginas, pc, local>> /\ MismaMemoria(mem, mem')
      /\ ocupado /\ ~ o.fuera => mem'.caida = "no"
  BY EfectoFree DEF HipotesisHeap
<1>2. k = Len(vivas[p])
  BY DEF procesarFree, HipotesisHeap, Hipotesis
<1>3. InvHeap(p) /\ LasVivas(p)
  BY <1>1 DEF InvPorciones
<1>4. PICK t \in Nat \ {0}, u \in Nat, n \in Nat, c \in Nat, m \in Nat, r \in 0..5 :
        Numeros(p, t, u, n, c, m, r)
  BY <1>3, HeapDe
<1>5. PICK h \in Seq(TChunk) : h = heaps[p]
  BY LargosMuse DEF InvTablas
<1>6. /\ t = Tam(p) /\ u = Unidad(p) /\ u = t + tamanio_heap /\ n = k /\ k \in Nat \ {0}
      /\ c = Len(mem.tablaPaginas[p]) /\ FormaDe(h, t, u, n, m, r) /\ Cabe(c, n + m, u, r)
      /\ u >= 6 /\ n \in 1..Len(vivas[p]) /\ tamanio_heap \in Nat
  <2>1. Len(vivas[p]) \in Nat /\ Len(mem.tablaPaginas[p]) \in Nat /\ vivas[p] \in Seq(Porcion)
    BY LargosMuse DEF InvTablas
  <2>2. Tomados(p) = Len(vivas[p]) /\ Porvenir(p) = Len(mem.tablaPaginas[p])
    BY <1>1, <2>1 DEF Tomados, Porvenir
  <2>3. k \in 1..Len(vivas[p])
    BY <2>1, LenProperties
  <2>4. Unidad(p) >= 6 /\ tamanio_heap \in Nat
    BY Unidades, Constantes
  <2> QED BY <1>2, <1>4, <1>5, <2>1, <2>2, <2>3, <2>4 DEF Numeros
<1>7. dir = tamanio_heap + (n - 1) * u /\ n * u <= limiteLogico[p]
  <2>1. PICK a \in 1..Len(vivas[p]) : a = n
    BY <1>6
  <2>2. /\ vivas[p][a] = [dir |-> tamanio_heap + (a - 1) * Unidad(p), tam |-> Tam(p)]
        /\ a * Unidad(p) <= limiteLogico[p]
    BY <1>3 DEF LasVivas
  <2>3. a = k
    BY <1>6, <2>1
  <2>4. dir = tamanio_heap + (a - 1) * u /\ a * u <= limiteLogico[p]
    <3>1. u = Unidad(p)
      BY <1>6
    <3>2. vivas[p][k].dir = tamanio_heap + (a - 1) * Unidad(p)
      BY <2>2, <2>3
    <3>3. a * u <= limiteLogico[p]
      BY <2>2, <3>1, Zenon
    <3>4. dir = tamanio_heap + (a - 1) * u
      BY <3>1, <3>2, Zenon
    <3> QED BY <3>3, <3>4
  <2> QED BY <2>1, <2>4
<1>8. Forma(h, t, u, n, m, r)
  BY <1>6, Formado
<1> HIDE DEF dir
<1>9. indices = {n}
  <2>1. n \in Nat \ {0} /\ u \in Nat \ {0}
    BY <1>6
  <2>2. {j \in 1..Len(h) : Direccion(h, j) = tamanio_heap + (n - 1) * u} = {n}
    BY <1>8, <2>1, ElUltimo
  <2> QED BY <1>5, <1>7, <2>2
<1> HIDE DEF indices
<1>10. i = n
  <2>1. {n} \subseteq Int /\ IsFiniteSet({n}) /\ {n} # {}
    <3>1. IsFiniteSet({n})
      BY FS_Singleton
    <3> QED BY <3>1
  <2>2. Min({n}) \in {n}
    BY <2>1, MinimoDe
  <2> QED BY <1>9, <2>2
<1> HIDE DEF i
<1>11. ocupado
  <2>1. dir < limiteLogico[p]
    <3>1. n \in Int
      OBVIOUS
    <3>2. (n - 1) * u = n * u - u /\ n * u \in Int
      BY <3>1, Multiplos
    <3>3. PICK z \in Int : z = n * u
      BY <3>2
    <3>6. PICK w \in Int : w = (n - 1) * u
      BY <3>2
    <3>7. w = z - u
      BY <3>2, <3>3, <3>6
    <3>4. dir = tamanio_heap + (z - u) /\ z <= limiteLogico[p]
      BY <1>7, <3>3, <3>6, <3>7
    <3>5. limiteLogico[p] \in Int
      BY LargosMuse DEF InvTablas
    <3>8. u = t + tamanio_heap
      BY <1>6
    <3>9. tamanio_heap \in Nat
      BY <1>6
    <3> QED BY <3>4, <3>5, <3>8, <3>9
  <2>2. ~ h[n].isFree
    <3>1. n \in 1..n
      BY <1>6
    <3>2. \A j \in 1..n : ~ h[j].isFree
      BY <1>8 DEF Forma
    <3> QED BY <3>1, <3>2
  <2>3. limiteLogico[p] \in Int /\ dir \in Int
    <3>1. (n - 1) * u \in Int
      BY <1>6
    <3>2. limiteLogico[p] \in Int
      BY LargosMuse DEF InvTablas
    <3> QED BY SMTT(30), <1>6, <1>7, <3>1, <3>2
  <2> QED BY <1>5, <1>9, <1>10, <2>1, <2>2, <2>3
<1>12. /\ ~ o.fuera
       /\ \E s \in 0..r : FormaDe(o.heaps, t, u, n - 1, m + 1, s)
  <2>1. LET a == verificarCompactacionFree(h, n) IN
        /\ ~ a.fuera
        /\ \E s \in 0..r : FormaDe(a.heaps, t, u, n - 1, m + 1, s)
    <3>1. PICK n1 \in Nat \ {0} : n1 = n
      BY <1>6
    <3>2. FormaDe(h, t, u, n1, m, r)
      BY <1>6, <3>1
    <3>3. LiberaBien(h, t, u, n1, m, r)
      BY <1>6, <3>2, AlLiberar
    <3> QED BY <3>1, <3>3 DEF LiberaBien
  <2> QED BY <1>5, <1>10, <2>1
<1>13. mem'.caida = "no" /\ heaps' = [heaps EXCEPT ![p] = o.heaps]
  BY <1>1, <1>11, <1>12
<1> HIDE DEF o, ocupado
<1>14. /\ heaps'[p] = o.heaps /\ vivas'[p] = RemoveAt(vivas[p], k)
       /\ \A q \in Programas \ {p} : heaps'[q] = heaps[q] /\ vivas'[q] = vivas[q]
  BY <1>1, <1>13 DEF InvTablas, TiposMuse
<1>15. /\ Len(vivas'[p]) = n - 1
       /\ \A j \in 1..(n - 1) : vivas'[p][j] = vivas[p][j]
  <2>1. vivas[p] \in Seq(Porcion)
    BY LargosMuse DEF InvTablas
  <2>2. PICK a \in 1..Len(vivas[p]) : a = k
    BY <1>6
  <2>3. vivas'[p] = RemoveAt(vivas[p], a)
    BY <1>14, <2>2
  <2>4. /\ Len(vivas'[p]) = Len(vivas[p]) - 1
        /\ \A j \in 1..(Len(vivas[p]) - 1) :
             vivas'[p][j] = IF j < a THEN vivas[p][j] ELSE vivas[p][j + 1]
    <3>1. SinUno(RemoveAt(vivas[p], a), vivas[p], a)
      BY <2>1, Quitado
    <3> QED BY <2>3, <3>1 DEF SinUno
  <2> QED BY <1>2, <1>6, <2>2, <2>4
<1>16. mem'.tablaPaginas = mem.tablaPaginas
  BY <1>1 DEF MismaMemoria
<1>17. InvHeap(p)'
  <2>1. Tomados(p)' = n - 1 /\ Porvenir(p)' = c
    <3>1. Len(vivas'[p]) = n - 1 /\ Len(mem'.tablaPaginas[p]) = c /\ pc'[p] # "alloc"
      BY <1>1, <1>6, <1>15, <1>16
    <3> QED BY <1>6, <3>1 DEF Tomados, Porvenir
  <2>2. PICK s \in 0..r : FormaDe(o.heaps, t, u, n - 1, m + 1, s)
    BY <1>12
  <2>3. s \in 0..5 /\ m + 1 \in Nat /\ n - 1 + (m + 1) = n + m /\ Cabe(c, n + m, u, s)
    <3>1. PICK x : x = c * lengthPagina - (n + m) * u
      OBVIOUS
    <3>2. x \in r..5
      BY <1>6, <3>1 DEF Cabe
    <3>3. x \in s..5
      BY <3>2
    <3>4. Cabe(c, n + m, u, s)
      BY <3>1, <3>3 DEF Cabe
    <3> QED BY <3>4
  <2>4. limiteLogico'[p] = (Porvenir(p)' - 0) * lengthPagina
    <3>1. Porvenir(p) = c /\ limiteLogico[p] = (Porvenir(p) - 0) * lengthPagina
      BY <1>1, <1>3, <1>4 DEF InvHeap, Numeros
    <3> QED BY <1>1, <2>1, <3>1
  <2>5. /\ FormaDe(heaps'[p], Tam(p), Unidad(p), Tomados(p)', m + 1, s)
        /\ Cabe(Porvenir(p)', Tomados(p)' + (m + 1), Unidad(p), s)
    BY <1>6, <1>14, <2>1, <2>2, <2>3
  <2>6. pc'[p] # "alloc"
    BY <1>1
  <2> QED BY <2>3, <2>4, <2>5, <2>6 DEF InvHeap
<1>18. LasVivas(p)'
  <2>1. ASSUME NEW j \in 1..(n - 1)
        PROVE  /\ vivas'[p][j] = [dir |-> tamanio_heap + (j - 1) * Unidad(p), tam |-> Tam(p)]
               /\ j * Unidad(p) <= limiteLogico'[p]
    <3>1. j \in 1..Len(vivas[p])
      BY <1>6
    <3> QED BY <1>1, <1>3, <1>15, <3>1 DEF LasVivas
  <2> QED BY <1>1, <1>3, <1>15, <2>1 DEF LasVivas
<1>19. \A q \in Programas \ {p} : Quieto(q) /\ pc'[q] = pc[q]
  BY <1>1, <1>14, <1>16 DEF Quieto
<1> QED BY <1>1, <1>13, <1>17, <1>18, <1>19, ConservaPorciones

LEMMA PorcionesInicio ==
  ASSUME HipotesisHeap, Init
  PROVE  InvPorciones
<1>1. ASSUME NEW p \in Programas PROVE Vacio(p) /\ pc[p] = "fuera"
  BY DEF Init, Vacio
<1>2. ASSUME NEW p \in Programas PROVE LasVivas(p) /\ InvHeap(p)
  BY <1>1, HeapVacio
<1> QED BY <1>1, <1>2 DEF InvPorciones

LEMMA PorcionesPaso ==
  ASSUME HipotesisHeap, InvTablas, InvPorciones, [Next]_vars
  PROVE  InvPorciones'
<1>1. ASSUME NEW p \in Programas, Servir(p) PROVE InvPorciones'
  BY <1>1, PorcionesAgregar, PorcionesRespuestaAlloc, PorcionesPageFault, PorcionesRespuesta,
     PorcionesDestruirPagina, PorcionesDestruirSegmento DEF Servir
<1>2. ASSUME NEW p \in Programas, NEW k \in DOMAIN vivas[p], procesarGet(p, k) PROVE InvPorciones'
  <2>1. Acceder(p, k, "get", Nada) /\ "get" \in {"get", "copy"} /\ Nada \in Valores \cup {Nada}
    BY <1>2 DEF procesarGet
  <2> QED BY <2>1, PorcionesAcceder
<1>3. ASSUME NEW p \in Programas, NEW k \in DOMAIN vivas[p], NEW v \in Valores,
             procesarCopy(p, k, v)
      PROVE  InvPorciones'
  <2>1. Acceder(p, k, "copy", v) /\ "copy" \in {"get", "copy"} /\ v \in Valores \cup {Nada}
    BY <1>3 DEF procesarCopy
  <2> QED BY <2>1, PorcionesAcceder
<1>4. ASSUME NEW p \in Programas, Pedir(p) PROVE InvPorciones'
  BY <1>2, <1>3, <1>4, PorcionesInicializar, PorcionesFinalizar, PorcionesDesconectar,
     PorcionesAlloc, PorcionesFree DEF Pedir
<1>5. CASE UNCHANGED vars
  <2>1. \A p \in Programas : Quieto(p)
    BY <1>5 DEF vars, Quieto
  <2>2. \A p \in Programas : LasVivas(p) => LasVivas(p)'
    BY <2>1, HeapQuieto
  <2>3. \A p \in Programas : InvHeap(p) => InvHeap(p)'
    BY <2>1, HeapQuieto
  <2> QED BY <1>5, <2>2, <2>3 DEF vars, InvPorciones
<1> QED BY <1>1, <1>4, <1>5 DEF Next

(* Under HipotesisHeap, in whatever order the programs take turns, the heap  *)
(* of each is a row of equal chunks that are taken and one free chunk at its *)
(* end, and fills its pages up to 5 bytes.                                   *)
THEOREM InvPorcionesTheorem == HipotesisHeap => (Spec => [](InvTablas /\ InvPorciones))
<1> SUFFICES ASSUME HipotesisHeap PROVE Spec => [](InvTablas /\ InvPorciones)
  OBVIOUS
<1>1. Init => InvTablas /\ InvPorciones
  BY Inicio, PorcionesInicio
<1>2. InvTablas /\ InvPorciones /\ [Next]_vars => (InvTablas /\ InvPorciones)'
  BY Paso, PorcionesPaso DEF HipotesisHeap
<1> QED BY <1>1, <1>2, PTL DEF Spec

(* Where the portions of p are.                                              *)
LEMMA Vivas ==
  ASSUME HipotesisHeap, InvTablas, InvPorciones, NEW p \in Programas
  PROVE  /\ DOMAIN vivas[p] = 1..Len(vivas[p]) /\ Unidad(p) \in Nat /\ Tam(p) \in Nat
         /\ Unidad(p) = Tam(p) + tamanio_heap /\ tamanio_heap \in Nat /\ limiteLogico[p] \in Nat
         /\ \A i \in 1..Len(vivas[p]) :
              /\ vivas[p][i] = [dir |-> tamanio_heap + (i - 1) * Unidad(p), tam |-> Tam(p)]
              /\ vivas[p][i].dir + vivas[p][i].tam = i * Unidad(p)
              /\ i * Unidad(p) <= limiteLogico[p]
<1>1. /\ Unidad(p) \in Nat /\ Tam(p) \in Nat /\ tamanio_heap \in Nat
      /\ Unidad(p) = Tam(p) + tamanio_heap
  BY Unidades, Constantes
<1>2. DOMAIN vivas[p] = 1..Len(vivas[p]) /\ Len(vivas[p]) \in Nat /\ limiteLogico[p] \in Int
  BY LargosMuse, LenProperties DEF InvTablas
<1>3. LasVivas(p)
  BY DEF InvPorciones
<1>4. ASSUME NEW i \in 1..Len(vivas[p])
      PROVE  vivas[p][i].dir + vivas[p][i].tam = i * Unidad(p)
  <2>0. vivas[p][i] = [dir |-> tamanio_heap + (i - 1) * Unidad(p), tam |-> Tam(p)]
    BY <1>3 DEF LasVivas
  <2>1. /\ vivas[p][i].dir = tamanio_heap + (i - 1) * Unidad(p) /\ vivas[p][i].tam = Tam(p)
    BY <2>0
  <2>2. i \in Int
    BY <1>2
  <2>3. (i - 1) * Unidad(p) = i * Unidad(p) - Unidad(p) /\ i * Unidad(p) \in Int
        /\ (i - 1) * Unidad(p) \in Int
    BY <1>1, <2>2, Multiplos
  <2>4. PICK x \in Int : x = (i - 1) * Unidad(p)
    BY <2>3
  <2>5. PICK y \in Int : y = i * Unidad(p)
    BY <2>3
  <2>6. x = y - Unidad(p)
    BY <2>3, <2>4, <2>5
  <2>7. vivas[p][i].dir + vivas[p][i].tam = (tamanio_heap + x) + Tam(p)
    BY <2>1, <2>4
  <2>8. PICK u \in Nat : u = Unidad(p)
    BY <1>1
  <2>9. PICK t \in Nat : t = Tam(p)
    BY <1>1
  <2>10. u = t + tamanio_heap /\ x = y - u
    BY <1>1, <2>6, <2>8, <2>9
  <2>11. (tamanio_heap + x) + t = y
    BY <1>1, <2>10
  <2> QED BY <2>5, <2>7, <2>9, <2>11
<1>5. ASSUME NEW i \in 1..Len(vivas[p])
      PROVE  /\ vivas[p][i] = [dir |-> tamanio_heap + (i - 1) * Unidad(p), tam |-> Tam(p)]
             /\ i * Unidad(p) <= limiteLogico[p]
  BY <1>3 DEF LasVivas
<1>6. limiteLogico[p] \in Nat
  BY <1>2, <1>3 DEF LasVivas
<1> QED BY <1>1, <1>2, <1>4, <1>5, <1>6

LEMMA AccesiblesDeInv ==
  ASSUME HipotesisHeap, InvTablas, InvPorciones
  PROVE  PorcionesAccesibles
<1>1. ASSUME NEW p \in Programas PROVE limiteLogico[p] <= Len(mem.tablaPaginas[p]) * lengthPagina
  BY DEF InvTablas, DePrograma
<1>2. ASSUME NEW p \in Programas, NEW i \in DOMAIN vivas[p]
      PROVE  vivas[p][i].dir + vivas[p][i].tam <= limiteLogico[p]
  <2>1. /\ vivas[p][i].dir + vivas[p][i].tam = i * Unidad(p)
        /\ i * Unidad(p) <= limiteLogico[p]
    BY Vivas
  <2> QED BY <2>1
<1> QED BY <1>1, <1>2 DEF PorcionesAccesibles

(* For programs of one size each that free the newest portion first          *)
(* (HipotesisHeap) every portion lies within the segment and the segment     *)
(* within its pages: procesarGet and procesarCopy refuse none, and no loop   *)
(* of copiarContenidoAFrames leaves the table of pages.                      *)
THEOREM PorcionesAccesiblesTheorem == HipotesisHeap => (Spec => []PorcionesAccesibles)
<1> SUFFICES ASSUME HipotesisHeap PROVE Spec => []PorcionesAccesibles
  OBVIOUS
<1>1. InvTablas /\ InvPorciones => PorcionesAccesibles
  BY AccesiblesDeInv
<1>2. Spec => [](InvTablas /\ InvPorciones)
  BY InvPorcionesTheorem
<1> QED BY <1>1, <1>2, PTL

LEMMA Separadas ==
  ASSUME HipotesisHeap, InvTablas, InvPorciones, NEW p \in Programas, NEW i \in DOMAIN vivas[p],
         NEW j \in DOMAIN vivas[p], i < j, NEW a \in Int, NEW b \in Int,
         a \in Direcciones(vivas[p][i]), b \in Direcciones(vivas[p][j])
  PROVE  a < b
<1>1. /\ i \in 1..Len(vivas[p]) /\ j \in 1..Len(vivas[p]) /\ Unidad(p) \in Nat /\ Tam(p) \in Nat
      /\ tamanio_heap \in Nat /\ Unidad(p) = Tam(p) + tamanio_heap
  BY Vivas
<1>2. /\ vivas[p][i].dir + vivas[p][i].tam = i * Unidad(p)
      /\ vivas[p][j].dir = tamanio_heap + (j - 1) * Unidad(p)
  <2>1. vivas[p][j] = [dir |-> tamanio_heap + (j - 1) * Unidad(p), tam |-> Tam(p)]
    BY <1>1, Vivas
  <2>2. vivas[p][j].dir = tamanio_heap + (j - 1) * Unidad(p)
    BY <2>1
  <2> QED BY <1>1, <2>2, Vivas
<1>3. i \in Int /\ j \in Int /\ j - 1 \in Int /\ i <= j - 1
  <2>1. Len(vivas[p]) \in Nat
    BY LargosMuse DEF InvTablas
  <2> QED BY <1>1, <2>1
<1>4. i * Unidad(p) <= (j - 1) * Unidad(p) /\ i * Unidad(p) \in Int /\ (j - 1) * Unidad(p) \in Int
  BY <1>1, <1>3, Multiplos
<1>5. PICK x \in Int : x = i * Unidad(p)
  BY <1>4
<1>6. PICK y \in Int : y = (j - 1) * Unidad(p)
  BY <1>4
<1>7. x <= y /\ vivas[p][i].dir + vivas[p][i].tam = x /\ vivas[p][j].dir = tamanio_heap + y
  <2>1. vivas[p][i].dir + vivas[p][i].tam = x
    BY <1>2, <1>5
  <2>2. vivas[p][j].dir = tamanio_heap + y
    BY <1>2, <1>6
  <2>3. x <= y
    BY <1>4, <1>5, <1>6
  <2> QED BY <2>1, <2>2, <2>3
<1>8. a <= x - 1
  <2>1. vivas[p] \in Seq(Porcion)
    BY DEF InvTablas, TiposMuse
  <2>2. vivas[p][i] \in Porcion
    BY <2>1
  <2>3. vivas[p][i].dir \in Int /\ vivas[p][i].tam \in Int
    BY <2>2 DEF Porcion
  <2>4. PICK d \in Int : d = vivas[p][i].dir
    BY <2>3
  <2>5. PICK t \in Int : t = vivas[p][i].tam
    BY <2>3
  <2>6. a \in d..(d + t - 1)
    BY <2>4, <2>5 DEF Direcciones
  <2>7. d + t = x
    BY <1>7, <2>4, <2>5
  <2> QED BY <2>6, <2>7
<1>9. b >= tamanio_heap + y
  BY <1>7 DEF Direcciones
<1> QED BY <1>1, <1>7, <1>8, <1>9

LEMMA DisjuntasDeInv ==
  ASSUME HipotesisHeap, InvTablas, InvPorciones
  PROVE  PorcionesDisjuntas
<1> SUFFICES ASSUME NEW p \in Programas, NEW i \in DOMAIN vivas[p], NEW j \in DOMAIN vivas[p],
                    i # j, NEW a, a \in Direcciones(vivas[p][i]), a \in Direcciones(vivas[p][j])
             PROVE  FALSE
  BY DEF PorcionesDisjuntas
<1>1. a \in Int
  BY DEF Direcciones
<1>2. i \in Int /\ j \in Int
  <2>1. Len(vivas[p]) \in Nat /\ DOMAIN vivas[p] = 1..Len(vivas[p])
    BY LargosMuse, Vivas DEF InvTablas
  <2> QED BY <2>1
<1>3. ~ (i < j)
  <2>1. i < j => a < a
    BY <1>1, Separadas
  <2> QED BY <1>1, <2>1
<1>4. ~ (j < i)
  <2>1. j < i => a < a
    BY <1>1, Separadas
  <2> QED BY <1>1, <2>1
<1> QED BY <1>2, <1>3, <1>4

(* The addresses that allocarEnHeapLibre and allocarHeapNuevo answer overlap *)
(* no portion the program has. Programs that are not prudent, or sizes that  *)
(* leave a rest, break it: see the run muse_heap and SinRestos.              *)
THEOREM PorcionesDisjuntasTheorem == HipotesisHeap => (Spec => []PorcionesDisjuntas)
<1> SUFFICES ASSUME HipotesisHeap PROVE Spec => []PorcionesDisjuntas
  OBVIOUS
<1>1. InvTablas /\ InvPorciones => PorcionesDisjuntas
  BY DisjuntasDeInv
<1>2. Spec => [](InvTablas /\ InvPorciones)
  BY InvPorcionesTheorem
<1> QED BY <1>1, <1>2, PTL

-------------------------------------------------------------------------------
(* Falls *)

(* Each action keeps InvCaida.                                               *)
LEMMA InicialCompleto == Completo(LocalInicial)
<1>1. PICK z : z = <<>> /\ z \in Seq(Byte)
  BY EmptySeq
<1>2. LocalInicial = [dir |-> 0, tam |-> 0, dato |-> Nada, pagina |-> 0, faltan |-> 0, leido |-> z]
  BY <1>1 DEF LocalInicial
<1> QED BY <1>1, <1>2 DEF Completo

LEMMA LocalNuevo ==
  ASSUME NEW d \in Nat, NEW t \in Nat, NEW v \in Valores \cup {Nada}, NEW n \in Int, NEW m \in Int
  PROVE  /\ Completo([LocalInicial EXCEPT !.dir = d, !.tam = t, !.dato = v, !.pagina = n])
         /\ Completo([LocalInicial EXCEPT !.dir = d, !.tam = t, !.pagina = n, !.faltan = m])
BY InicialCompleto DEF Completo

LEMMA LocalCambiado ==
  ASSUME NEW l, Completo(l), NEW n \in Int, NEW x \in Seq(Byte)
  PROVE  /\ Completo([l EXCEPT !.pagina = n]) /\ Completo([l EXCEPT !.faltan = n])
         /\ Completo([l EXCEPT !.pagina = n, !.leido = x])
BY DEF Completo

LEMMA ConservaCaida ==
  ASSUME InvCaida, mem.caida = "no", NEW p \in Programas,
         \A q \in Programas \ {p} : local'[q] = local[q] /\ pc'[q] = pc[q],
         Completo(local'[p]),
         mem'.caida = "no" /\ pc'[p] \in {"get", "copy"} => local'[p].pagina >= 1,
         mem'.caida # "no" => mem'.caida = "swap" /\ mem'.swap = Slot
  PROVE  InvCaida'
<1>1. CaidaSoloPorSwap'
  BY DEF CaidaSoloPorSwap
<1>2. \A q \in Programas : Completo(local'[q])
  BY DEF InvCaida
<1>3. mem'.caida = "no" => \A q \in Programas : pc'[q] \in {"get", "copy"} => local'[q].pagina >= 1
  BY DEF InvCaida
<1> QED BY <1>1, <1>2, <1>3 DEF InvCaida

LEMMA CaidaInicializar ==
  ASSUME HipotesisCaida, InvTablas, InvCaida, NEW p \in Programas, InicializarNuevoPrograma(p)
  PROVE  InvCaida'
<1>1. /\ mem.caida = "no" /\ pc[p] = "fuera" /\ pc' = [pc EXCEPT ![p] = "libre"]
      /\ mem' = [mem EXCEPT !.programas = @ \cup {p}] /\ UNCHANGED local
  BY DEF InicializarNuevoPrograma, Ir
<1>2. pc'[p] = "libre" /\ \A q \in Programas \ {p} : pc'[q] = pc[q]
  BY <1>1 DEF InvTablas, TiposMuse
<1>3. mem'.caida = "no"
  BY <1>1 DEF InvTablas, TiposMuse, EsMem, Campos
<1>4. Completo(local'[p])
  BY <1>1 DEF InvCaida
<1> QED BY <1>1, <1>2, <1>3, <1>4, ConservaCaida

LEMMA CaidaAlloc ==
  ASSUME HipotesisCaida, InvTablas, InvPorciones, InvCaida, NEW p \in Programas,
         NEW tam \in Tamanios[p], procesarAlloc(p, tam)
  PROVE  InvCaida'
<1> DEFINE o == Reservado(p, tam)
           l == [LocalInicial EXCEPT !.dir = o.dir, !.tam = tam, !.pagina = o.paginas,
                                     !.faltan = o.paginas]
<1>1. mem.caida = "no" /\ local' = [local EXCEPT ![p] = l] /\ pc' = [pc EXCEPT ![p] = "alloc"]
  BY EfectoAlloc DEF HipotesisCaida, HipotesisHeap
<1>2. mem'.caida = "no"
  BY PorcionesAlloc DEF HipotesisCaida
<1>3. Completo(l)
  <2>1. o.dir \in Nat /\ o.paginas \in Int
    BY EfectoAlloc DEF HipotesisCaida, HipotesisHeap
  <2>2. tam \in Nat /\ Nada \in Valores \cup {Nada}
    BY MuseAssumption
  <2> HIDE DEF o
  <2> QED BY <2>1, <2>2, LocalNuevo
<1> HIDE DEF l
<1>4. /\ pc'[p] = "alloc" /\ local'[p] = l
      /\ \A q \in Programas \ {p} : local'[q] = local[q] /\ pc'[q] = pc[q]
  BY <1>1 DEF InvTablas, TiposMuse
<1> QED BY <1>1, <1>2, <1>3, <1>4, ConservaCaida

LEMMA CaidaAgregar ==
  ASSUME HipotesisCaida, InvTablas, InvCaida, NEW p \in Programas, allocarEnPaginasNuevas(p)
  PROVE  InvCaida'
<1> DEFINE l == [local[p] EXCEPT !.faltan = @ - 1]
<1>1. /\ mem.caida = "no" /\ pc[p] = "alloc" /\ local' = [local EXCEPT ![p] = l] /\ UNCHANGED pc
      /\ \/ mem'.caida = "swap" /\ mem.swap = Slot /\ MismaMemoria(mem, mem')
         \/ mem'.caida = "no"
  BY EfectoAgregar DEF HipotesisCaida, HipotesisHeap
<1>5. Completo(l)
  <2>1. Completo(local[p])
    BY DEF InvCaida
  <2>2. local[p].faltan - 1 \in Int /\ <<>> \in Seq(Byte)
    BY EmptySeq DEF InvTablas, TiposMuse, EsLocal
  <2>3. PICK n \in Int : n = local[p].faltan - 1
    BY <2>2
  <2>4. l = [local[p] EXCEPT !.faltan = n]
    BY <2>3
  <2> HIDE DEF l
  <2> QED BY <2>1, <2>2, <2>4, LocalCambiado
<1> HIDE DEF l
<1>2. local'[p] = l /\ \A q \in Programas \ {p} : local'[q] = local[q]
  BY <1>1 DEF InvTablas, TiposMuse
<1>3. mem'.caida # "no" => mem'.caida = "swap" /\ mem'.swap = Slot
  BY <1>1 DEF MismaMemoria
<1> QED BY <1>1, <1>2, <1>3, <1>5, ConservaCaida

(* The program ends its request and its locals go back to the initial ones.  *)
LEMMA CaidaAlTerminar ==
  ASSUME InvTablas, InvCaida, NEW p \in Programas, mem.caida = "no", mem'.caida = "no",
         NEW d \in Donde \ {"get", "copy"}, pc' = [pc EXCEPT ![p] = d],
         local' = [local EXCEPT ![p] = LocalInicial]
  PROVE  InvCaida'
<1>1. /\ pc'[p] = d /\ local'[p] = LocalInicial
      /\ \A q \in Programas \ {p} : local'[q] = local[q] /\ pc'[q] = pc[q]
  BY DEF InvTablas, TiposMuse
<1> QED BY <1>1, InicialCompleto, ConservaCaida

LEMMA CaidaRespuestas ==
  ASSUME InvTablas, InvCaida, NEW p \in Programas, enviarRespuestaAlloc(p) \/ enviarRespuesta(p)
  PROVE  InvCaida'
<1>1. /\ mem.caida = "no" /\ UNCHANGED mem
      /\ local' = [local EXCEPT ![p] = LocalInicial] /\ pc' = [pc EXCEPT ![p] = "libre"]
  BY DEF enviarRespuestaAlloc, enviarRespuesta, Sigue, Ir
<1>2. "libre" \in Donde \ {"get", "copy"}
  BY DEF Donde
<1> QED BY <1>1, <1>2, CaidaAlTerminar

LEMMA CaidaFree ==
  ASSUME HipotesisCaida, InvTablas, InvPorciones, InvCaida, NEW p \in Programas,
         NEW k \in DOMAIN vivas[p], procesarFree(p, k)
  PROVE  InvCaida'
<1>1. mem.caida = "no" /\ pc[p] = "libre" /\ UNCHANGED <<pc, local>>
  BY DEF procesarFree, Pide
<1>2. mem'.caida = "no"
  BY PorcionesFree DEF HipotesisCaida
<1>3. Completo(local'[p])
  BY <1>1 DEF InvCaida
<1> QED BY SMTT(30), <1>1, <1>2, <1>3, ConservaCaida

(* The first header of a segment covers its page 0, which has no byte of a   *)
(* portion.                                                                  *)
LEMMA PaginasDePorciones ==
  ASSUME HipotesisCaida, InvTablas, InvPorciones, NEW p \in Programas, NEW k \in DOMAIN vivas[p]
  PROVE  vivas[p][k].dir \div lengthPagina >= 1
<1>1. /\ k \in 1..Len(vivas[p]) /\ Unidad(p) \in Nat /\ tamanio_heap \in Nat
      /\ Len(vivas[p]) \in Nat
  BY Vivas, LargosMuse DEF HipotesisCaida, InvTablas
<1>2. vivas[p][k] = [dir |-> tamanio_heap + (k - 1) * Unidad(p), tam |-> Tam(p)]
  BY <1>1, Vivas DEF HipotesisCaida
<1>3. PICK z \in Nat : z = (k - 1) * Unidad(p)
  BY <1>1
<1>4. vivas[p][k].dir = tamanio_heap + z
  BY <1>2, <1>3
<1>5. PICK a \in Nat : a = vivas[p][k].dir
  BY <1>1, <1>4
<1>6. 1 * lengthPagina = lengthPagina /\ lengthPagina \in Nat
  BY Constantes
<1>7. a >= 1 * lengthPagina
  BY <1>1, <1>4, <1>5, <1>6 DEF HipotesisCaida
<1>8. a \div lengthPagina >= 1
  BY <1>7, Pagina
<1> QED BY <1>5, <1>8

LEMMA CaidaAcceder ==
  ASSUME HipotesisCaida, InvTablas, InvPorciones, InvCaida, NEW p \in Programas,
         NEW k \in DOMAIN vivas[p], NEW op \in {"get", "copy"}, NEW v \in Valores \cup {Nada},
         Acceder(p, k, op, v)
  PROVE  InvCaida'
<1> DEFINE q == vivas[p][k]
           l == [LocalInicial EXCEPT !.dir = q.dir, !.tam = q.tam, !.dato = v,
                                     !.pagina = q.dir \div lengthPagina]
<1>1. /\ mem.caida = "no" /\ UNCHANGED mem /\ local' = [local EXCEPT ![p] = l]
      /\ \E d : pc' = [pc EXCEPT ![p] = d]
  BY DEF Acceder, Pide, Ir
<1>2. Completo(l) /\ l.pagina = q.dir \div lengthPagina
  <2>1. q \in Porcion
    <3>1. vivas[p] \in Seq(Porcion) /\ DOMAIN vivas[p] = 1..Len(vivas[p])
      BY LenProperties DEF InvTablas, TiposMuse
    <3> QED BY <3>1, ElementOfSeq
  <2>2. q.dir \in Nat /\ q.tam \in Nat
    BY <2>1 DEF Porcion
  <2>3. q.dir \div lengthPagina \in Int
    BY <2>2, Division
  <2>4. l.pagina = q.dir \div lengthPagina
    BY DEF LocalInicial
  <2> HIDE DEF q
  <2> QED BY <2>2, <2>3, <2>4, LocalNuevo
<1>3. l.pagina >= 1
  BY <1>2, PaginasDePorciones
<1> HIDE DEF l
<1>4. local'[p] = l /\ \A x \in Programas \ {p} : local'[x] = local[x] /\ pc'[x] = pc[x]
  BY <1>1 DEF InvTablas, TiposMuse
<1> QED BY <1>1, <1>2, <1>3, <1>4, ConservaCaida

LEMMA CaidaPageFault ==
  ASSUME HipotesisCaida, InvTablas, InvCaida, NEW p \in Programas, pageFault(p)
  PROVE  InvCaida'
<1>1. /\ mem.caida = "no" /\ pc[p] \in {"get", "copy"} /\ local[p].pagina \in Nat /\ UNCHANGED pc
      /\ \A q \in Programas \ {p} : local'[q] = local[q]
      /\ local'[p].pagina = local[p].pagina + 1
      /\ mem'.caida = "nulo" => local[p].pagina = 0
      /\ mem'.caida = "swap" => mem.swap = Slot /\ mem'.swap = mem.swap
      /\ local[p].pagina # 0 /\ local[p].leido \in Seq(Byte) => local'[p].leido \in Seq(Byte)
      /\ EsMem(mem')
  BY EfectoPageFault DEF HipotesisCaida, HipotesisHeap
<1>2. local[p].pagina >= 1 /\ Completo(local[p])
  BY <1>1 DEF InvCaida
<1>3. local'[p].leido \in Seq(Byte) /\ local'[p].pagina >= 1
  BY <1>1, <1>2 DEF Completo
<1>5. Completo(local'[p])
  <2>1. PICK n, x : local' = [local EXCEPT ![p].pagina = n, ![p].leido = x]
    BY ZenonT(60) DEF pageFault
  <2>2. local'[p] = [local[p] EXCEPT !.pagina = n, !.leido = x]
    BY <2>1 DEF InvTablas, TiposMuse
  <2>3. local'[p].leido = x
    BY <1>2, <2>2 DEF Completo
  <2>4. n = local[p].pagina + 1
    BY <1>1, <1>2, <2>2 DEF Completo
  <2>5. n \in Int /\ x \in Seq(Byte)
    BY <1>1, <1>3, <2>3, <2>4
  <2>6. PICK l : l = local[p]
    OBVIOUS
  <2>7. Completo(l)
    BY <1>2, <2>6
  <2>8. Completo([l EXCEPT !.pagina = n, !.leido = x])
    BY <2>5, <2>7, LocalCambiado
  <2> QED BY SMTT(30), <2>2, <2>6, <2>8
<1>4. mem'.caida # "no" => mem'.caida = "swap" /\ mem'.swap = Slot
  BY <1>1, <1>2 DEF EsMem
<1> QED BY <1>1, <1>3, <1>4, <1>5, ConservaCaida

LEMMA CaidaDesconectar ==
  ASSUME InvTablas, InvCaida, NEW p \in Programas, Desconectar(p)
  PROVE  InvCaida'
<1>1. mem.caida = "no" /\ pc' = [pc EXCEPT ![p] = "muerto"] /\ UNCHANGED <<mem, local>>
  BY DEF Desconectar, Sigue, Ir
<1>2. pc'[p] = "muerto" /\ \A q \in Programas \ {p} : pc'[q] = pc[q]
  BY <1>1 DEF InvTablas, TiposMuse
<1>3. Completo(local'[p])
  BY <1>1 DEF InvCaida
<1> QED BY <1>1, <1>2, <1>3, ConservaCaida

LEMMA CaidaFinalizar ==
  ASSUME InvTablas, InvCaida, NEW p \in Programas, FinalizarPrograma(p)
  PROVE  InvCaida'
<1>1. /\ mem.caida = "no" /\ pc' = [pc EXCEPT ![p] = "cerrando"] /\ UNCHANGED local
      /\ mem' = [mem EXCEPT !.programas = @ \ {p}]
  BY DEF FinalizarPrograma, Sigue, Ir
<1>2. pc'[p] = "cerrando" /\ \A q \in Programas \ {p} : pc'[q] = pc[q]
  BY <1>1 DEF InvTablas, TiposMuse
<1>3. mem'.caida = "no"
  BY <1>1 DEF InvTablas, TiposMuse, EsMem, Campos
<1>4. Completo(local'[p])
  BY <1>1 DEF InvCaida
<1> QED BY <1>1, <1>2, <1>3, <1>4, ConservaCaida

LEMMA CaidaDestruirPagina ==
  ASSUME InvTablas, InvCaida, NEW p \in Programas, destruirPagina(p)
  PROVE  InvCaida'
<1>1. /\ mem.caida = "no" /\ pc[p] = "cerrando" /\ UNCHANGED pc
      /\ local' = [local EXCEPT ![p] = [local[p] EXCEPT !.pagina = @ + 1]]
  BY DEF destruirPagina, Sigue
<1>2. mem'.caida = "no"
  <2>1. mem.caida = "no" /\ DOMAIN mem = Campos
    BY <1>1 DEF InvTablas, TiposMuse, EsMem
  <2> QED BY <2>1 DEF destruirPagina, Campos
<1>3. local'[p] = [local[p] EXCEPT !.pagina = @ + 1] /\ \A q \in Programas \ {p} : local'[q] = local[q]
  BY <1>1 DEF InvTablas, TiposMuse
<1>4. Completo(local[p])
  BY DEF InvCaida
<1>5. Completo(local'[p])
  <2>1. PICK n \in Int : n = local[p].pagina + 1
    BY DEF InvTablas, TiposMuse, EsLocal
  <2>2. local'[p] = [local[p] EXCEPT !.pagina = n] /\ <<>> \in Seq(Byte)
    BY <1>3, <2>1, EmptySeq
  <2>3. PICK l : l = local[p]
    OBVIOUS
  <2>4. Completo(l)
    BY <1>4, <2>3
  <2>5. Completo([l EXCEPT !.pagina = n])
    BY <2>2, <2>4, LocalCambiado
  <2> QED BY <2>2, <2>3, <2>5
<1> QED BY <1>1, <1>2, <1>3, <1>5, ConservaCaida

LEMMA CaidaDestruirSegmento ==
  ASSUME InvTablas, InvCaida, NEW p \in Programas, destruirSegmento(p)
  PROVE  InvCaida'
<1>1. /\ mem.caida = "no" /\ mem' = [mem EXCEPT !.tablaPaginas[p] = <<>>]
      /\ local' = [local EXCEPT ![p] = LocalInicial] /\ pc' = [pc EXCEPT ![p] = "cerrado"]
  BY DEF destruirSegmento, Sigue, Ir
<1>2. mem'.caida = "no"
  BY <1>1 DEF InvTablas, TiposMuse, EsMem, Campos
<1>3. "cerrado" \in Donde \ {"get", "copy"}
  BY DEF Donde
<1> QED BY <1>1, <1>2, <1>3, CaidaAlTerminar

LEMMA CaidaInicio ==
  ASSUME Init
  PROVE  InvCaida
BY InicialCompleto DEF Init, InvCaida, CaidaSoloPorSwap

LEMMA CaidaPaso ==
  ASSUME HipotesisCaida, InvTablas, InvPorciones, InvCaida, [Next]_vars
  PROVE  InvCaida'
<1>1. ASSUME NEW p \in Programas, Servir(p) PROVE InvCaida'
  BY <1>1, CaidaAgregar, CaidaRespuestas, CaidaPageFault, CaidaDestruirPagina,
     CaidaDestruirSegmento DEF Servir
<1>2. ASSUME NEW p \in Programas, NEW k \in DOMAIN vivas[p], procesarGet(p, k) PROVE InvCaida'
  BY <1>2, CaidaAcceder DEF procesarGet
<1>3. ASSUME NEW p \in Programas, NEW k \in DOMAIN vivas[p], NEW v \in Valores,
             procesarCopy(p, k, v)
      PROVE  InvCaida'
  BY <1>3, CaidaAcceder DEF procesarCopy
<1>4. ASSUME NEW p \in Programas, Pedir(p) PROVE InvCaida'
  BY <1>2, <1>3, <1>4, CaidaInicializar, CaidaFinalizar, CaidaDesconectar,
     CaidaAlloc, CaidaFree DEF Pedir
<1>5. CASE UNCHANGED vars
  BY <1>5 DEF vars, InvCaida, CaidaSoloPorSwap
<1> QED BY <1>1, <1>4, <1>5 DEF Next

(* The three invariants together, when pages are no larger than a header.    *)
THEOREM InvCaidaTheorem == HipotesisCaida => (Spec => [](InvTablas /\ InvPorciones /\ InvCaida))
<1> SUFFICES ASSUME HipotesisCaida PROVE Spec => [](InvTablas /\ InvPorciones /\ InvCaida)
  OBVIOUS
<1>1. Init => InvTablas /\ InvPorciones /\ InvCaida
  BY Inicio, PorcionesInicio, CaidaInicio DEF HipotesisCaida
<1>2. InvTablas /\ InvPorciones /\ InvCaida /\ [Next]_vars => (InvTablas /\ InvPorciones /\ InvCaida)'
  BY Paso, PorcionesPaso, CaidaPaso DEF HipotesisCaida, HipotesisHeap
<1> QED BY <1>1, <1>2, PTL DEF Spec

(* With pages no larger than a header, prudent programs of one size each     *)
(* lead no handler to a pointer that is NULL or that is none: the only       *)
(* undefined access left is slot -1 when the swap has run out.  With larger  *)
(* pages it fails: see PaginaVuelve and MusePaginaCero.cfg.                  *)
THEOREM CaidaSoloPorSwapTheorem == HipotesisCaida => (Spec => []CaidaSoloPorSwap)
<1> SUFFICES ASSUME HipotesisCaida PROVE Spec => []CaidaSoloPorSwap
  OBVIOUS
<1>1. InvCaida => CaidaSoloPorSwap
  BY DEF InvCaida
<1> QED BY <1>1, InvCaidaTheorem, PTL

LEMMA TiposDeInv ==
  ASSUME InvTablas, InvPorciones, InvCaida
  PROVE  TypeOKMuse
<1> USE DEF InvTablas, TiposMuse
<1>1. ASSUME NEW p \in Programas
      PROVE  /\ \A i \in DOMAIN heaps[p] : heaps[p][i] \in [t_size : Nat, isFree : BOOLEAN]
             /\ \A i \in DOMAIN vivas[p] : vivas[p][i] \in [dir : Nat, tam : Nat]
  <2>1. heaps[p] \in Seq(TChunk) /\ vivas[p] \in Seq(Porcion)
    OBVIOUS
  <2>2. DOMAIN heaps[p] = 1..Len(heaps[p]) /\ DOMAIN vivas[p] = 1..Len(vivas[p])
    BY <2>1, LenProperties
  <2>3. ASSUME NEW i \in DOMAIN heaps[p] PROVE heaps[p][i] \in TChunk
    BY <2>1, <2>2, ElementOfSeq
  <2>4. ASSUME NEW i \in DOMAIN vivas[p] PROVE vivas[p][i] \in Porcion
    BY <2>1, <2>2, ElementOfSeq
  <2> QED BY <2>3, <2>4 DEF TChunk, Porcion
<1>2. ASSUME NEW p \in Programas
      PROVE  \A i \in DOMAIN mem.tablaPaginas[p] :
               mem.tablaPaginas[p][i]
                 \in [nroFrame : Frame, flagPresencia : BOOLEAN, flagUso : BOOLEAN]
  <2>1. mem.tablaPaginas[p] \in Seq(Registro)
    BY Partes
  <2>2. PICK t \in Seq(Registro) : t = mem.tablaPaginas[p]
    BY <2>1
  <2>3. DOMAIN t = 1..Len(t)
    BY LenProperties
  <2>4. ASSUME NEW i \in DOMAIN t PROVE t[i] \in Registro
    BY <2>3, ElementOfSeq
  <2> QED BY <2>2, <2>4 DEF Registro
<1>3. ASSUME NEW p \in Programas
      PROVE  local[p] \in [dir : Nat, tam : Nat, dato : Valores \cup {Nada},
                           pagina : Int, faltan : Int, leido : Seq(Byte)]
  <2>1. EsLocal(local[p]) /\ Completo(local[p])
    BY DEF InvCaida
  <2> QED BY <2>1 DEF EsLocal, Completo
<1>4. limiteLogico \in [Programas -> Nat]
  <2>1. limiteLogico \in [Programas -> Int] /\ \A p \in Programas : limiteLogico[p] >= 0
    BY DEF InvPorciones, LasVivas
  <2> QED BY <2>1
<1>5. /\ mem.programas \subseteq Programas
      /\ mem.marcos \subseteq Frame /\ mem.swap \subseteq Slot
      /\ mem.tablasDePaginas \in [Frame -> Entrada \cup {Nada}]
      /\ \A f \in Frame : mem.contenidoFrames[f] = Nada \/ mem.contenidoFrames[f] \in Contenido
      /\ mem.paginasEnSwap \in [Slot -> Entrada \cup {Nada}]
      /\ \A s \in Slot : mem.archivoSwap[s] \in Contenido
      /\ mem.punteroClock \in Frame
      /\ mem.caida \in {"no", "swap", "nulo"}
  BY DEF EsMem
<1>6. pc \in [Programas -> {"fuera", "libre", "alloc", "get", "copy",
                            "cerrando", "cerrado", "muerto"}]
  BY DEF Donde
<1>7. \A p \in Programas : pc[p] \in {"alloc", "get", "copy"} <=> g_mutexPaginas = p
  BY DEF Semaforo, Trabajo
<1> QED BY <1>1, <1>2, <1>3, <1>4, <1>5, <1>6, <1>7 DEF TypeOKMuse

(* Under the same hypotheses every variable keeps its type, and the          *)
(* semaphore is held exactly while a handler that takes it is at work.       *)
THEOREM TypeOKMuseTheorem == HipotesisCaida => (Spec => []TypeOKMuse)
<1> SUFFICES ASSUME HipotesisCaida PROVE Spec => []TypeOKMuse
  OBVIOUS
<1>1. InvTablas /\ InvPorciones /\ InvCaida => TypeOKMuse
  BY TiposDeInv
<1> QED BY <1>1, InvCaidaTheorem, PTL

-------------------------------------------------------------------------------
(* The bytes that the programs see *)

(* ByteEn in the memory m.                                                   *)
ByteM(m, p, a) ==
  LET n == a \div lengthPagina
      pag == m.tablaPaginas[p][n + 1]
      slots == {s \in Slot : m.paginasEnSwap[s] = <<p, n>>}
  IN IF pag.flagPresencia THEN m.contenidoFrames[pag.nroFrame][a % lengthPagina]
     ELSE IF slots # {} THEN m.archivoSwap[Min(slots)][a % lengthPagina]
     ELSE Dato(Nada, -1)

(* The first byte that the loop of copiarContenidoAFrames, or of             *)
(* copiarContenidoDeFrames, has not reached.                                 *)
Hasta(l) ==
  LET fin == l.dir + l.tam IN
  IF l.pagina * lengthPagina <= l.dir THEN l.dir
  ELSE IF l.pagina * lengthPagina < fin THEN l.pagina * lengthPagina ELSE fin

(* A copy or a get is of a portion, at one of its pages or past the last.    *)
EnPorcion(p) ==
  /\ \E i \in DOMAIN vivas[p] :
       local[p].dir = vivas[p][i].dir /\ local[p].tam = vivas[p][i].tam
  /\ local[p].pagina \in (local[p].dir \div lengthPagina)..(UltimaPagina(p) + 1)
(* What a get has read are the bytes of the pages behind it.                 *)
Leidos(p) ==
  LET l == local[p] IN
  /\ Len(l.leido) = Hasta(l) - l.dir
  /\ \A k \in 1..Len(l.leido) : l.leido[k] = ByteM(mem, p, l.dir + (k - 1))
(* The pages behind a copy have what it copies.                              *)
Copiados(p) ==
  LET l == local[p] IN
  \A a \in Direcciones(l) :
    a < l.pagina * lengthPagina => ByteM(mem, p, a) = Dato(l.dato, a - l.dir)
DeBytes(p) ==
  /\ pc[p] \in {"get", "copy"} => EnPorcion(p)
  /\ pc[p] = "get" => Leidos(p)
  /\ pc[p] = "copy" /\ mem.caida = "no" => Copiados(p)

(* The invariant of the bytes.                                               *)
InvBytes ==
  /\ Terminando => SinPorciones
  /\ \A p \in Programas : DeBytes(p)

LEMMA ByteDe ==
  ASSUME NEW m, EsMem(m), Coherente(m, Nada), NEW p, NEW a,
         EsPagina(m, <<p, a \div lengthPagina>>)
  PROVE  ByteM(m, p, a) = ContenidoDe(m, <<p, a \div lengthPagina>>)[a % lengthPagina]
<1> DEFINE n == a \div lengthPagina
           e == <<p, n>>
           slots == {s \in Slot : m.paginasEnSwap[s] = e}
<1>1. Fila(m, e) = m.tablaPaginas[p][n + 1]
  BY DEF Fila
<1>2. ~ Fila(m, e).flagPresencia => slots # {}
  BY DEF Coherente, AusentesBien, EsPagina
<1> QED BY <1>1, <1>2 DEF ByteM, ContenidoDe

(* The byte of a page that keeps its content, wherever it is.                *)
LEMMA MismoByte ==
  ASSUME NEW m, EsMem(m), Coherente(m, Nada), NEW r, EsMem(r), Coherente(r, Nada),
         NEW x, MismosBytes(m, r, x), NEW p, NEW a, <<p, a \div lengthPagina>> # x,
         EsPagina(m, <<p, a \div lengthPagina>>), EsPagina(r, <<p, a \div lengthPagina>>)
  PROVE  ByteM(r, p, a) = ByteM(m, p, a)
<1>1. ContenidoDe(r, <<p, a \div lengthPagina>>) = ContenidoDe(m, <<p, a \div lengthPagina>>)
  BY DEF MismosBytes, EsPagina
<1>2. ByteM(m, p, a) = ContenidoDe(m, <<p, a \div lengthPagina>>)[a % lengthPagina]
  BY ByteDe
<1>3. ByteM(r, p, a) = ContenidoDe(r, <<p, a \div lengthPagina>>)[a % lengthPagina]
  BY ByteDe
<1> QED BY <1>1, <1>2, <1>3

LEMMA BytesDeMisma ==
  ASSUME NEW m, NEW r, MismaMemoria(m, r)
  PROVE  \A p, a : ByteM(r, p, a) = ByteM(m, p, a)
BY DEF MismaMemoria, ByteM

(* The addresses of a portion are in pages of its program.                   *)
LEMMA EnPaginas ==
  ASSUME HipotesisHeap, InvTablas, InvPorciones, NEW p \in Programas, NEW i \in DOMAIN vivas[p],
         NEW a \in Direcciones(vivas[p][i])
  PROVE  /\ a \in Nat /\ a \div lengthPagina \in Nat /\ a % lengthPagina \in 0..(lengthPagina - 1)
         /\ a = (a \div lengthPagina) * lengthPagina + (a % lengthPagina)
         /\ vivas[p][i].dir \in Nat /\ vivas[p][i].tam \in 1..lengthPagina
         /\ EsPagina(mem, <<p, a \div lengthPagina>>)
<1>1. /\ i \in 1..Len(vivas[p]) /\ Unidad(p) \in Nat /\ tamanio_heap \in Nat
      /\ Len(vivas[p]) \in Nat /\ limiteLogico[p] \in Nat
  BY Vivas, LargosMuse DEF InvTablas
<1>2. vivas[p][i] = [dir |-> tamanio_heap + (i - 1) * Unidad(p), tam |-> Tam(p)]
  BY <1>1, Vivas
<1>3. PICK z \in Nat : z = (i - 1) * Unidad(p)
  BY <1>1
<1>4. PICK d \in Nat : d = vivas[p][i].dir
  BY <1>1, <1>2, <1>3
<1>5. PICK t \in 1..lengthPagina : t = vivas[p][i].tam
  BY <1>2, Unidades
<1>6. d + t <= limiteLogico[p] /\ limiteLogico[p] <= Len(mem.tablaPaginas[p]) * lengthPagina
  BY <1>4, <1>5, AccesiblesDeInv DEF PorcionesAccesibles
<1>7. lengthPagina \in Nat \ {0}
  BY Constantes
<1>8. a \in d..(d + t - 1) /\ a \in Nat
  BY <1>4, <1>5, <1>7 DEF Direcciones
<1>9. PICK largo \in Nat : largo = Len(mem.tablaPaginas[p])
  BY Partes DEF InvTablas, TiposMuse
<1>10. PICK c \in Nat : c = largo * lengthPagina
  BY <1>7, <1>9
<1>11. a < largo * lengthPagina
  <2>1. PICK lim \in Nat : lim = limiteLogico[p]
    BY <1>1
  <2>2. d + t <= lim /\ lim <= c
    BY <1>6, <1>9, <1>10, <2>1
  <2>3. t \in Nat /\ a <= d + t - 1
    BY <1>7, <1>8
  <2>4. a < c
    BY <1>8, <2>2, <2>3
  <2> QED BY <1>10, <2>4
<1>12. a >= 0 * lengthPagina
  BY <1>7, <1>8
<1>13. a \div lengthPagina < largo /\ a \div lengthPagina >= 0 /\ a \div lengthPagina \in Int
  BY <1>8, <1>11, <1>12, Pagina, Division
<1>14. a \div lengthPagina \in Nat /\ <<p, a \div lengthPagina>> \in Entrada
  BY <1>13 DEF Entrada
<1>15. EsPagina(mem, <<p, a \div lengthPagina>>)
  <2>1. PICK n \in Nat : n = a \div lengthPagina
    BY <1>14
  <2>2. n < Len(mem.tablaPaginas[p]) /\ <<p, n>> \in Entrada
    BY <1>9, <1>13, <1>14, <2>1
  <2>3. EsPagina(mem, <<p, n>>)
    BY <2>2 DEF EsPagina
  <2> QED BY <2>1, <2>3
<1>16. /\ a % lengthPagina \in 0..(lengthPagina - 1)
       /\ a = (a \div lengthPagina) * lengthPagina + (a % lengthPagina)
  BY <1>8, Division
<1> QED BY <1>4, <1>5, <1>8, <1>14, <1>15, <1>16

(* A step of another program leaves q as it was, and the bytes of its        *)
(* portions, if q is still there.                                            *)
Igual(q) ==
  /\ pc'[q] = pc[q] /\ local'[q] = local[q] /\ vivas'[q] = vivas[q]
  /\ pc[q] # "muerto" =>
       \A i \in DOMAIN vivas[q] : \A a \in Direcciones(vivas[q][i]) :
         ByteM(mem', q, a) = ByteM(mem, q, a)

(* The addresses of a request are those of its portion.                      *)
LEMMA DeSuPorcion ==
  ASSUME NEW p \in Programas, EnPorcion(p)
  PROVE  \E i \in DOMAIN vivas[p] :
           /\ local[p].dir = vivas[p][i].dir /\ local[p].tam = vivas[p][i].tam
           /\ Direcciones(local[p]) = Direcciones(vivas[p][i])
BY DEF EnPorcion, Direcciones

(* What a get has read so far is of its portion.                             *)
LEMMA LeidosEnPorcion ==
  ASSUME NEW p \in Programas, EsLocal(local[p]), Completo(local[p]),
         local[p].leido \in Seq(Byte), Len(local[p].leido) = Hasta(local[p]) - local[p].dir
  PROVE  /\ Len(local[p].leido) \in Nat /\ Hasta(local[p]) \in Int
         /\ \A k \in 1..Len(local[p].leido) : local[p].dir + (k - 1) \in Direcciones(local[p])
<1>1. PICK d \in Nat, t \in Nat, n \in Int : d = local[p].dir /\ t = local[p].tam /\ n = local[p].pagina
  BY DEF EsLocal
<1>2. PICK z \in Int : z = n * lengthPagina
  BY Productos
<1>3. Len(local[p].leido) \in Nat
  BY LenProperties
<1>4. /\ Hasta(local[p]) = IF z <= d THEN d ELSE IF z < d + t THEN z ELSE d + t
  BY <1>1, <1>2 DEF Hasta
<1>5. PICK h \in Int : h = Hasta(local[p]) /\ h <= d + t
  BY <1>1, <1>2, <1>4
<1>6. ASSUME NEW k \in 1..Len(local[p].leido)
      PROVE  local[p].dir + (k - 1) \in Direcciones(local[p])
  <2>1. PICK l \in Nat : l = Len(local[p].leido)
    BY <1>3
  <2>2. k \in 1..l /\ l = h - d
    BY <1>1, <1>5, <2>1
  <2>3. d + (k - 1) \in d..(d + t - 1)
    BY <1>5, <2>2
  <2> QED BY <1>1, <2>3 DEF Direcciones
<1> QED BY <1>3, <1>5, <1>6

LEMMA DeOtro ==
  ASSUME InvTablas, InvCaida, NEW q \in Programas, Igual(q), DeBytes(q), mem.caida = "no"
  PROVE  DeBytes(q)'
<1>1. pc'[q] = pc[q] /\ local'[q] = local[q] /\ vivas'[q] = vivas[q]
  BY DEF Igual
<1>2. EnPorcion(q) => EnPorcion(q)'
  BY <1>1 DEF EnPorcion, UltimaPagina
<1>3. ASSUME EnPorcion(q), pc[q] # "muerto", NEW a \in Direcciones(local[q])
      PROVE  ByteM(mem', q, a) = ByteM(mem, q, a)
  BY <1>3, DeSuPorcion DEF Igual
<1>4. ASSUME EnPorcion(q), pc[q] # "muerto", Leidos(q) PROVE Leidos(q)'
  <2>1. EsLocal(local[q]) /\ Completo(local[q]) /\ local[q].leido \in Seq(Byte)
    BY DEF InvTablas, TiposMuse, InvCaida, Completo
  <2>2. PICK l : l = local[q]
    OBVIOUS
  <2>3. Len(l.leido) = Hasta(l) - l.dir
    BY <1>4, <2>2 DEF Leidos
  <2>4. \A k \in 1..Len(l.leido) : l.leido[k] = ByteM(mem, q, l.dir + (k - 1))
    BY <1>4, <2>2 DEF Leidos
  <2>5. \A k \in 1..Len(l.leido) : l.dir + (k - 1) \in Direcciones(l)
    BY <2>1, <2>2, <2>3, LeidosEnPorcion
  <2>6. \A k \in 1..Len(l.leido) : l.leido[k] = ByteM(mem', q, l.dir + (k - 1))
    BY <1>3, <1>4, <2>2, <2>4, <2>5
  <2>7. l = local'[q]
    BY <1>1, <2>2
  <2> QED BY <2>3, <2>6, <2>7 DEF Leidos
<1>5. ASSUME EnPorcion(q), pc[q] # "muerto", Copiados(q) PROVE Copiados(q)'
  <2>1. PICK l : l = local[q]
    OBVIOUS
  <2>2. \A a \in Direcciones(l) : a < l.pagina * lengthPagina => ByteM(mem, q, a) = Dato(l.dato, a - l.dir)
    BY <1>5, <2>1 DEF Copiados
  <2>3. \A a \in Direcciones(l) : a < l.pagina * lengthPagina => ByteM(mem', q, a) = Dato(l.dato, a - l.dir)
    BY <1>3, <1>5, <2>1, <2>2
  <2>4. l = local'[q]
    BY <1>1, <2>1
  <2> QED BY <2>3, <2>4 DEF Copiados
<1>6. (pc[q] \in {"get", "copy"} => EnPorcion(q)) /\ (pc[q] = "get" => Leidos(q))
      /\ (pc[q] = "copy" => Copiados(q))
  BY DEF DeBytes
<1>7. (pc[q] \in {"get", "copy"} => EnPorcion(q)') /\ (pc[q] = "get" => Leidos(q)')
      /\ (pc[q] = "copy" => Copiados(q)')
  BY <1>2, <1>4, <1>5, <1>6
<1> QED BY <1>1, <1>7 DEF DeBytes

(* The bytes of the portions of q when the pages but x keep their contents.  *)
LEMMA Quietas ==
  ASSUME HipotesisHeap, InvTablas, InvPorciones, ~ Terminando, EsMem(mem'), Coherente(mem', Nada),
         \A q \in Programas : Len(mem'.tablaPaginas[q]) >= Len(mem.tablaPaginas[q]),
         NEW x, MismosBytes(mem, mem', x), NEW q \in Programas, NEW i \in DOMAIN vivas[q],
         NEW a \in Direcciones(vivas[q][i]), <<q, a \div lengthPagina>> # x
  PROVE  ByteM(mem', q, a) = ByteM(mem, q, a)
<1>1. EsMem(mem) /\ Coherente(mem, Nada)
  BY DEF InvTablas, TiposMuse
<1>2. EsPagina(mem, <<q, a \div lengthPagina>>)
  BY EnPaginas
<1>3. PICK n : n = a \div lengthPagina
  OBVIOUS
<1>4. n \in Nat /\ Len(mem.tablaPaginas[q]) \in Nat /\ n < Len(mem.tablaPaginas[q])
  BY <1>1, <1>2, <1>3, Partes DEF EsPagina, Entrada
<1>5. Len(mem'.tablaPaginas[q]) >= Len(mem.tablaPaginas[q]) /\ Len(mem'.tablaPaginas[q]) \in Nat
  BY Partes
<1>6. n < Len(mem'.tablaPaginas[q])
  BY <1>4, <1>5
<1>7. EsPagina(mem', <<q, n>>)
  BY <1>4, <1>6 DEF EsPagina, Entrada
<1>8. PICK m : m = mem
  OBVIOUS
<1>9. PICK r : r = mem'
  OBVIOUS
<1>10. /\ EsMem(m) /\ Coherente(m, Nada) /\ EsPagina(m, <<q, n>>)
       /\ EsMem(r) /\ Coherente(r, Nada) /\ EsPagina(r, <<q, n>>) /\ MismosBytes(m, r, x)
  BY <1>1, <1>2, <1>3, <1>7, <1>8, <1>9
<1>11. ByteM(r, q, a) = ByteM(m, q, a)
  BY ONLY <1>3, <1>10, <<q, a \div lengthPagina>> # x, MismoByte
<1> QED BY <1>8, <1>9, <1>11

LEMMA IgualSiMisma ==
  ASSUME MismaMemoria(mem, mem'), NEW q \in Programas,
         pc'[q] = pc[q], local'[q] = local[q], vivas'[q] = vivas[q]
  PROVE  Igual(q)
<1>1. \A a : ByteM(mem', q, a) = ByteM(mem, q, a)
  BY BytesDeMisma
<1> QED BY <1>1 DEF Igual

(* What each step does to the other programs. *)
LEMMA Ajenos ==
  ASSUME InvTablas, NEW p \in Programas, Servir(p) \/ Pedir(p)
  PROVE  /\ mem.caida = "no"
         /\ \A q \in Programas \ {p} :
              pc'[q] = pc[q] /\ local'[q] = local[q] /\ vivas'[q] = vivas[q]
<1> USE DEF InvTablas, TiposMuse, Ir, Sigue
<1>1. CASE allocarEnPaginasNuevas(p) \/ enviarRespuestaAlloc(p)
  BY <1>1 DEF allocarEnPaginasNuevas, enviarRespuestaAlloc
<1>2. CASE pageFault(p)
  <2>1. mem.caida = "no" /\ UNCHANGED <<pc, vivas>>
    BY <1>2 DEF pageFault
  <2>2. PICK n, x : local' = [local EXCEPT ![p].pagina = n, ![p].leido = x]
    BY <1>2, ZenonT(60) DEF pageFault
  <2> QED BY <2>1, <2>2
<1>3. CASE enviarRespuesta(p) \/ destruirPagina(p) \/ destruirSegmento(p)
  BY <1>3 DEF enviarRespuesta, destruirPagina, destruirSegmento
<1>4. CASE InicializarNuevoPrograma(p) \/ FinalizarPrograma(p) \/ Desconectar(p)
  BY <1>4 DEF InicializarNuevoPrograma, FinalizarPrograma, Desconectar
<1>5. ASSUME NEW tam \in Tamanios[p], procesarAlloc(p, tam)
      PROVE  /\ mem.caida = "no"
             /\ \A q \in Programas \ {p} :
                  pc'[q] = pc[q] /\ local'[q] = local[q] /\ vivas'[q] = vivas[q]
  <2>1. PICK l : /\ mem.caida = "no" /\ local' = [local EXCEPT ![p] = l]
                 /\ pc' = [pc EXCEPT ![p] = "alloc"] /\ UNCHANGED vivas
    BY <1>5, ZenonT(60) DEF procesarAlloc, Pide
  <2> QED BY <2>1
<1>6. ASSUME NEW k \in DOMAIN vivas[p], procesarFree(p, k)
      PROVE  /\ mem.caida = "no"
             /\ \A q \in Programas \ {p} :
                  pc'[q] = pc[q] /\ local'[q] = local[q] /\ vivas'[q] = vivas[q]
  <2>1. /\ mem.caida = "no" /\ UNCHANGED <<pc, local>>
        /\ vivas' = [vivas EXCEPT ![p] = RemoveAt(@, k)]
    BY <1>6, ZenonT(60) DEF procesarFree, Pide
  <2> QED BY <2>1
<1>7. ASSUME NEW k, NEW op, NEW v, Acceder(p, k, op, v)
      PROVE  /\ mem.caida = "no"
             /\ \A q \in Programas \ {p} :
                  pc'[q] = pc[q] /\ local'[q] = local[q] /\ vivas'[q] = vivas[q]
  <2>1. PICK l, d : /\ mem.caida = "no" /\ local' = [local EXCEPT ![p] = l]
                    /\ pc' = [pc EXCEPT ![p] = d] /\ UNCHANGED vivas
    BY <1>7, ZenonT(60) DEF Acceder, Pide
  <2> QED BY <2>1
<1>8. ASSUME NEW k \in DOMAIN vivas[p],
             procesarGet(p, k) \/ \E v \in Valores : procesarCopy(p, k, v)
      PROVE  /\ mem.caida = "no"
             /\ \A q \in Programas \ {p} :
                  pc'[q] = pc[q] /\ local'[q] = local[q] /\ vivas'[q] = vivas[q]
  BY <1>7, <1>8, ZenonT(60) DEF procesarGet, procesarCopy
<1> QED BY ONLY <1>1, <1>2, <1>3, <1>4, <1>5, <1>6, <1>8, Servir(p) \/ Pedir(p) DEF Servir, Pedir

(* The steps that leave frames and swap as they are.                         *)
Callado(p) ==
  \/ InicializarNuevoPrograma(p) \/ enviarRespuestaAlloc(p) \/ enviarRespuesta(p) \/ Desconectar(p)
  \/ \E tam \in Tamanios[p] : procesarAlloc(p, tam)
  \/ \E k \in DOMAIN vivas[p] :
       \/ procesarFree(p, k) \/ procesarGet(p, k)
       \/ \E v \in Valores : procesarCopy(p, k, v)

LEMMA Misma ==
  ASSUME Hipotesis, InvTablas, NEW p \in Programas, Callado(p)
  PROVE  MismaMemoria(mem, mem') /\ ~ Terminando /\ ~ Terminando'
<1>0. TiposMuse /\ Semaforo /\ EsMem(mem)
  BY DEF InvTablas, TiposMuse
<1>1. CASE InicializarNuevoPrograma(p)
  <2>1. /\ ~ Terminando /\ pc' = [pc EXCEPT ![p] = "libre"]
        /\ mem' = [mem EXCEPT !.programas = @ \cup {p}]
    BY <1>1 DEF InicializarNuevoPrograma, Hipotesis, Ir
  <2>2. ~ Terminando'
    BY <1>0, <2>1 DEF Terminando, TiposMuse
  <2> QED BY <1>0, <2>1, <2>2 DEF MismaMemoria, EsMem, Campos
<1>2. CASE enviarRespuestaAlloc(p) \/ enviarRespuesta(p)
  <2>1. /\ pc' = [pc EXCEPT ![p] = "libre"] /\ g_mutexPaginas' = Nada /\ UNCHANGED mem
        /\ pc[p] \in Trabajo
    BY <1>2 DEF enviarRespuestaAlloc, enviarRespuesta, Ir, Sigue, Trabajo
  <2>2. ~ Terminando /\ ~ Terminando'
    <3>1. "libre" \notin {"cerrando", "cerrado"} \cup Trabajo
      BY DEF Trabajo
    <3> QED BY <1>0, <2>1, <3>1, Suelta
  <2> QED BY <2>1, <2>2 DEF MismaMemoria
<1>3. CASE Desconectar(p)
  <2>1. ~ Terminando /\ pc' = [pc EXCEPT ![p] = "muerto"] /\ UNCHANGED mem
    BY <1>3 DEF Desconectar, Hipotesis, Ir
  <2>2. ~ Terminando'
    BY <1>0, <2>1 DEF Terminando, TiposMuse
  <2> QED BY <2>1, <2>2 DEF MismaMemoria
<1>4. ASSUME NEW tam \in Tamanios[p], procesarAlloc(p, tam)
      PROVE  MismaMemoria(mem, mem') /\ ~ Terminando /\ ~ Terminando'
  <2>1. /\ ~ Terminando /\ pc' = [pc EXCEPT ![p] = "alloc"] /\ MismaMemoria(mem, mem')
    BY <1>4, EfectoAlloc
  <2>2. ~ Terminando'
    BY <1>0, <2>1 DEF Terminando, TiposMuse
  <2> QED BY <2>1, <2>2
<1>5. ASSUME NEW k \in DOMAIN vivas[p], procesarFree(p, k)
      PROVE  MismaMemoria(mem, mem') /\ ~ Terminando /\ ~ Terminando'
  <2>1. /\ ~ Terminando /\ UNCHANGED pc /\ MismaMemoria(mem, mem')
    BY <1>5, EfectoFree
  <2>2. ~ Terminando'
    BY <2>1 DEF Terminando
  <2> QED BY <2>1, <2>2
<1>6. ASSUME NEW k \in DOMAIN vivas[p], NEW op \in {"get", "copy"}, NEW v, Acceder(p, k, op, v)
      PROVE  MismaMemoria(mem, mem') /\ ~ Terminando /\ ~ Terminando'
  <2>1. /\ ~ Terminando /\ UNCHANGED mem
        /\ \E d \in {"get", "copy", "muerto"} : pc' = [pc EXCEPT ![p] = d]
    BY <1>6, ZenonT(60) DEF Acceder, Pide, Ir, Hipotesis
  <2>2. ~ Terminando'
    BY <1>0, <2>1 DEF Terminando, TiposMuse
  <2> QED BY <2>1, <2>2 DEF MismaMemoria
<1>7. ASSUME NEW k \in DOMAIN vivas[p],
             procesarGet(p, k) \/ \E v \in Valores : procesarCopy(p, k, v)
      PROVE  MismaMemoria(mem, mem') /\ ~ Terminando /\ ~ Terminando'
  BY <1>6, <1>7 DEF procesarGet, procesarCopy
<1> QED BY <1>1, <1>2, <1>3, <1>4, <1>5, <1>7 DEF Callado

(* A step keeps the bytes of the portions of the programs that do not take   *)
(* it.                                                                       *)
LEMMA LosOtros ==
  ASSUME HipotesisCaida, InvTablas, InvPorciones, InvCaida, Terminando => SinPorciones,
         NEW p \in Programas, Servir(p) \/ Pedir(p), NEW q \in Programas \ {p}
  PROVE  Igual(q)
<1>0. Hipotesis /\ HipotesisHeap
  BY DEF HipotesisCaida, HipotesisHeap
<1>1. pc'[q] = pc[q] /\ local'[q] = local[q] /\ vivas'[q] = vivas[q]
  BY Ajenos
<1>2. CASE Callado(p)
  <2>1. MismaMemoria(mem, mem')
    BY <1>0, <1>2, Misma
  <2> QED BY <1>1, <2>1, IgualSiMisma
<1>3. CASE FinalizarPrograma(p) \/ destruirPagina(p) \/ destruirSegmento(p)
  <2>1. SinPorciones
    BY <1>0, <1>3 DEF FinalizarPrograma, destruirPagina, destruirSegmento, Sigue, Terminando, Hipotesis
  <2>2. pc[q] # "muerto" => DOMAIN vivas[q] = {}
    BY <2>1 DEF SinPorciones
  <2> QED BY <1>1, <2>2 DEF Igual
<1>4. CASE allocarEnPaginasNuevas(p)
  <2>1. /\ EsMem(mem') /\ Coherente(mem', Nada)
        /\ MismaMemoria(mem, mem') \/ /\ MismosBytes(mem, mem', Nada)
                                      /\ Len(mem'.tablaPaginas[p]) = Len(mem.tablaPaginas[p]) + 1
        /\ \A r \in Programas \ {p} : Len(mem'.tablaPaginas[r]) = Len(mem.tablaPaginas[r])
        /\ pc[p] = "alloc"
    BY <1>0, <1>4, EfectoAgregar
  <2>2. CASE MismaMemoria(mem, mem')
    BY <1>1, <2>2, IgualSiMisma
  <2>3. CASE /\ MismosBytes(mem, mem', Nada)
             /\ Len(mem'.tablaPaginas[p]) = Len(mem.tablaPaginas[p]) + 1
    <3>1. \A r \in Programas : Len(mem'.tablaPaginas[r]) >= Len(mem.tablaPaginas[r])
      <4>1. \A r \in Programas : Len(mem.tablaPaginas[r]) \in Nat
        BY Partes DEF InvTablas, TiposMuse
      <4> QED BY <2>1, <2>3, <4>1
    <3>2. ~ Terminando
      BY <2>1, Constantes DEF InvTablas, Semaforo, Trabajo
    <3>3. \A e \in Entrada : e # Nada
      BY Constantes
    <3>4. \A i \in DOMAIN vivas[q] : \A a \in Direcciones(vivas[q][i]) :
            ByteM(mem', q, a) = ByteM(mem, q, a)
      <4> SUFFICES ASSUME NEW i \in DOMAIN vivas[q], NEW a \in Direcciones(vivas[q][i])
                   PROVE  ByteM(mem', q, a) = ByteM(mem, q, a)
        OBVIOUS
      <4>1. <<q, a \div lengthPagina>> # Nada
        BY <1>0, <3>3, EnPaginas DEF Entrada
      <4> QED BY <1>0, <2>1, <2>3, <3>1, <3>2, <4>1, Quietas
    <3> QED BY <1>1, <3>4 DEF Igual
  <2> QED BY <2>1, <2>2, <2>3
<1>5. CASE pageFault(p)
  <2>1. /\ EsMem(mem') /\ Coherente(mem', Nada) /\ pc[p] \in {"get", "copy"} /\ mem.caida = "no"
        /\ \A r \in Programas : Len(mem'.tablaPaginas[r]) = Len(mem.tablaPaginas[r])
    BY <1>0, <1>5, EfectoPageFault
  <2>2. local[p].pagina # 0
    <3>1. local[p].pagina >= 1
      BY <2>1 DEF InvCaida
    <3> QED BY <3>1
  <2>3. MismosBytes(mem, mem', <<p, local[p].pagina>>)
    BY <1>0, <1>5, <2>2, BytesPageFault
  <2>4. ~ Terminando
    BY <2>1, Constantes DEF InvTablas, Semaforo, Trabajo
  <2>5. PICK x : x = <<p, local[p].pagina>>
    OBVIOUS
  <2>6. \A r \in Programas : Len(mem'.tablaPaginas[r]) >= Len(mem.tablaPaginas[r])
    <3>1. \A r \in Programas : Len(mem.tablaPaginas[r]) \in Nat
      BY Partes DEF InvTablas, TiposMuse
    <3> QED BY <2>1, <3>1
  <2>7. \A i \in DOMAIN vivas[q] : \A a \in Direcciones(vivas[q][i]) :
          ByteM(mem', q, a) = ByteM(mem, q, a)
    BY <1>0, <2>1, <2>3, <2>4, <2>5, <2>6, Quietas
  <2> QED BY <1>1, <2>7 DEF Igual
<1> QED BY <1>2, <1>3, <1>4, <1>5 DEF Callado, Servir, Pedir

(* A page fault of a get keeps every byte of the program; one of a copy      *)
(* changes those of the page that it copies.                                 *)
LEMMA BytesDelPageFault ==
  ASSUME HipotesisCaida, InvTablas, InvPorciones, InvCaida, NEW p \in Programas, pageFault(p),
         NEW i \in DOMAIN vivas[p], NEW a \in Direcciones(vivas[p][i])
  PROVE  /\ pc[p] = "get" \/ mem'.caida # "no" => ByteM(mem', p, a) = ByteM(mem, p, a)
         /\ pc[p] = "copy" /\ mem'.caida = "no" =>
              ByteM(mem', p, a) =
                IF a \div lengthPagina = local[p].pagina /\ a \in Direcciones(local[p])
                THEN Dato(local[p].dato, a - local[p].dir) ELSE ByteM(mem, p, a)
         /\ a \div lengthPagina = local[p].pagina =>
              ByteM(mem, p, a) = ContenidoDe(mem, <<p, local[p].pagina>>)[a % lengthPagina]
<1>0. Hipotesis /\ HipotesisHeap
  BY DEF HipotesisCaida, HipotesisHeap
<1>1. /\ EsMem(mem') /\ Coherente(mem', Nada) /\ pc[p] \in {"get", "copy"} /\ mem.caida = "no"
      /\ \A r \in Programas : Len(mem'.tablaPaginas[r]) = Len(mem.tablaPaginas[r])
  BY <1>0, EfectoPageFault
<1>2. local[p].pagina # 0
  <2>1. local[p].pagina >= 1
    BY <1>1 DEF InvCaida
  <2> QED BY <2>1
<1>3. PICK n : n = local[p].pagina
  OBVIOUS
<1>4. PICK c : c = ContenidoDe(mem, <<p, n>>)
  OBVIOUS
<1>5. PICK d, v : d = local[p].dir /\ v = local[p].dato
  OBVIOUS
<1>6. /\ MismosBytes(mem, mem', <<p, n>>)
      /\ pc[p] = "get" \/ mem'.caida # "no" => ContenidoDe(mem', <<p, n>>) = c
      /\ pc[p] = "copy" /\ mem'.caida = "no" =>
           \A k \in 0..(lengthPagina - 1) :
             ContenidoDe(mem', <<p, n>>)[k] =
               IF n * lengthPagina + k \in Direcciones(local[p])
               THEN Dato(v, (n * lengthPagina + k) - d) ELSE c[k]
  BY <1>0, <1>2, <1>3, <1>4, <1>5, BytesPageFault
<1>7. ~ Terminando /\ EsMem(mem) /\ Coherente(mem, Nada)
  BY <1>1, Constantes DEF InvTablas, TiposMuse, Semaforo, Trabajo
<1>8. /\ a \in Nat /\ a \div lengthPagina \in Nat /\ a % lengthPagina \in 0..(lengthPagina - 1)
      /\ a = (a \div lengthPagina) * lengthPagina + (a % lengthPagina)
      /\ EsPagina(mem, <<p, a \div lengthPagina>>)
  BY <1>0, EnPaginas
<1>9. CASE a \div lengthPagina # n
  <2>1. \A r \in Programas : Len(mem'.tablaPaginas[r]) >= Len(mem.tablaPaginas[r])
    <3>1. \A r \in Programas : Len(mem.tablaPaginas[r]) \in Nat
      BY <1>7, Partes
    <3> QED BY <1>1, <3>1
  <2>2. <<p, a \div lengthPagina>> # <<p, n>>
    BY <1>9
  <2>3. PICK x : x = <<p, n>>
    OBVIOUS
  <2>4. <<p, a \div lengthPagina>> # x /\ MismosBytes(mem, mem', x)
    BY <1>6, <2>2, <2>3
  <2>5. ByteM(mem', p, a) = ByteM(mem, p, a)
    BY <1>0, <1>1, <1>7, <2>1, <2>4, Quietas
  <2> QED BY <1>3, <1>9, <2>5
<1>10. CASE a \div lengthPagina = n
  <2>1. EsPagina(mem, <<p, n>>) /\ EsPagina(mem', <<p, n>>)
    BY <1>1, <1>8, <1>10 DEF EsPagina, Entrada
  <2>2. PICK k \in 0..(lengthPagina - 1) : k = a % lengthPagina
    BY <1>8
  <2>3. ByteM(mem, p, a) = c[k]
    BY <1>4, <1>7, <1>10, <2>1, <2>2, ByteDe
  <2>4. ByteM(mem', p, a) = ContenidoDe(mem', <<p, n>>)[k]
    <3>1. PICK m : m = mem'
      OBVIOUS
    <3>2. EsMem(m) /\ Coherente(m, Nada) /\ EsPagina(m, <<p, n>>)
      BY <1>1, <2>1, <3>1
    <3>3. ByteM(m, p, a) = ContenidoDe(m, <<p, n>>)[k]
      BY <1>10, <2>2, <3>2, ByteDe
    <3> QED BY <3>1, <3>3
  <2>5. n * lengthPagina + k = a
    BY <1>8, <1>10, <2>2
  <2>6. pc[p] = "get" \/ mem'.caida # "no" => ByteM(mem', p, a) = ByteM(mem, p, a)
    BY <1>6, <2>3, <2>4
  <2>7. pc[p] = "copy" /\ mem'.caida = "no" =>
          ByteM(mem', p, a) = IF a \in Direcciones(local[p]) THEN Dato(v, a - d)
                              ELSE ByteM(mem, p, a)
    <3> HAVE pc[p] = "copy" /\ mem'.caida = "no"
    <3>1. ContenidoDe(mem', <<p, n>>)[k] =
            IF n * lengthPagina + k \in Direcciones(local[p])
            THEN Dato(v, (n * lengthPagina + k) - d) ELSE c[k]
      BY <1>6
    <3> QED BY <2>3, <2>4, <2>5, <3>1
  <2> QED BY <1>3, <1>4, <1>5, <1>10, <2>2, <2>3, <2>6, <2>7
<1> QED BY <1>9, <1>10

(* The bytes of the page that the loop of l is at: before it those up to     *)
(* Hasta(l) are done, after it those up to Hasta(r).                         *)
Pedidas(l) ==
  {a \in l.pagina * lengthPagina..((l.pagina + 1) * lengthPagina - 1) : a \in Direcciones(l)}
LEMMA Avance ==
  ASSUME NEW l, NEW r, NEW n \in Int, NEW d \in Nat, NEW t \in Nat,
         l.dir = d, l.tam = t, l.pagina = n, r.dir = d, r.tam = t, r.pagina = n + 1,
         n >= d \div lengthPagina, n <= (d + t - 1) \div lengthPagina
  PROVE  /\ Hasta(l) \in Int /\ Hasta(r) \in Int /\ d <= Hasta(l) /\ Hasta(l) <= Hasta(r)
         /\ Hasta(r) <= d + t
         /\ Pedidas(l) = Hasta(l)..(Hasta(r) - 1)
         /\ \A a \in Pedidas(l) : a \div lengthPagina = n
<1> DEFINE pedidas == {a \in n * lengthPagina..((n + 1) * lengthPagina - 1) :
                         a \in Direcciones(l)}
<1>1. PICK x \in Int : x = n * lengthPagina
  BY Productos
<1>2. PICK y \in Int : y = (n + 1) * lengthPagina
  <2>1. n + 1 \in Int
    OBVIOUS
  <2> QED BY <2>1, Productos
<1>3. lengthPagina \in Nat \ {0}
  BY Constantes
<1>4. y = x + lengthPagina
  <2>1. (n + 1) * lengthPagina = n * lengthPagina + 1 * lengthPagina
    BY Productos
  <2> QED BY <1>1, <1>2, <1>3, <2>1
<1>5. x <= d + t - 1
  <2>1. d + t - 1 < n * lengthPagina => (d + t - 1) \div lengthPagina < n
    BY Pagina
  <2>2. (d + t - 1) \div lengthPagina \in Int
    BY Division
  <2>3. ~ (d + t - 1 < n * lengthPagina)
    BY <2>1, <2>2
  <2> QED BY <1>1, <2>3
<1>6. d < y
  <2>1. d >= (n + 1) * lengthPagina => d \div lengthPagina >= n + 1
    BY Pagina
  <2>2. d \div lengthPagina \in Int
    BY Division
  <2>3. ~ (d >= (n + 1) * lengthPagina)
    BY <2>1, <2>2
  <2> QED BY <1>2, <2>3
<1>7. Hasta(l) = IF x <= d THEN d ELSE x
  <2>1. Hasta(l) = IF x <= d THEN d ELSE IF x < d + t THEN x ELSE d + t
    BY <1>1 DEF Hasta
  <2> QED BY <1>5, <2>1
<1>8. Hasta(r) = IF y < d + t THEN y ELSE d + t
  <2>1. Hasta(r) = IF y <= d THEN d ELSE IF y < d + t THEN y ELSE d + t
    BY <1>2 DEF Hasta
  <2> QED BY <1>6, <2>1
<1>9. pedidas = Hasta(l)..(Hasta(r) - 1)
  <2>1. pedidas = {a \in x..(y - 1) : a \in d..(d + t - 1)}
    BY <1>1, <1>2 DEF Direcciones
  <2> HIDE DEF pedidas
  <2> QED BY <1>4, <1>5, <1>6, <1>7, <1>8, <2>1
<1>10. ASSUME NEW a \in pedidas PROVE a \div lengthPagina = n
  <2>1. a \in x..(y - 1)
    BY <1>1, <1>2
  <2> HIDE DEF pedidas
  <2>2. a \in Int /\ a >= n * lengthPagina /\ a < (n + 1) * lengthPagina
    BY <1>1, <1>2, <2>1
  <2>3. a \div lengthPagina >= n /\ a \div lengthPagina < n + 1 /\ a \div lengthPagina \in Int
    BY <2>2, Pagina, Division
  <2> QED BY <2>3
<1> HIDE DEF pedidas
<1>11. /\ Hasta(l) \in Int /\ Hasta(r) \in Int /\ d <= Hasta(l) /\ Hasta(l) <= Hasta(r)
       /\ Hasta(r) <= d + t
  BY <1>3, <1>4, <1>5, <1>6, <1>7, <1>8
<1>12. Pedidas(l) = pedidas
  BY DEF Pedidas, pedidas
<1> QED BY <1>9, <1>10, <1>11, <1>12

LEMMA LeidosAlPageFault ==
  ASSUME HipotesisCaida, InvTablas, InvPorciones, InvCaida, NEW p \in Programas, pageFault(p),
         pc[p] = "get", EnPorcion(p), Leidos(p)
  PROVE  Leidos(p)'
<1>0. Hipotesis /\ HipotesisHeap
  BY DEF HipotesisCaida, HipotesisHeap
<1>1. /\ mem.caida = "no" /\ local'[p].pagina = local[p].pagina + 1
      /\ local'[p].dir = local[p].dir /\ local'[p].tam = local[p].tam
  BY <1>0, EfectoPageFault
<1>2. PICK n, d, t, l, r : /\ n = local[p].pagina /\ d = local[p].dir /\ t = local[p].tam
                           /\ l = local[p] /\ r = local'[p]
  OBVIOUS
<1>3. EsLocal(l) /\ n \in Int /\ d \in Nat /\ t \in Nat /\ n >= 1 /\ l.leido \in Seq(Byte)
  BY <1>1, <1>2 DEF InvTablas, TiposMuse, EsLocal, InvCaida, Completo
<1>4. PICK c : c = ContenidoDe(mem, <<p, n>>)
  OBVIOUS
<1> DEFINE pedidas == {a \in n * lengthPagina..((n + 1) * lengthPagina - 1) :
                         a \in Direcciones(l)}
           nuevo == [k \in 1..Cardinality(pedidas) |->
                       c[(d + Len(l.leido) + k - 1) % lengthPagina]]
<1>5. n <= UltimaPagina(p) /\ r.leido = l.leido \o nuevo
  <2>1. local[p].pagina # 0
    BY <1>2, <1>3
  <2> QED BY <1>0, <1>2, <1>4, <2>1, BytesPageFault
<1>6. n >= d \div lengthPagina /\ n <= (d + t - 1) \div lengthPagina
  <2>1. PICK q0 \in Int : q0 = d \div lengthPagina
    BY <1>3, Division
  <2>2. PICK q1 \in Int : q1 = UltimaPagina(p) /\ q1 = (d + t - 1) \div lengthPagina
    <3>1. d + t - 1 \in Int
      BY <1>3
    <3>2. (d + t - 1) \div lengthPagina \in Int
      BY <3>1, Division
    <3> QED BY <1>2, <3>2 DEF UltimaPagina
  <2>3. n \in q0..(q1 + 1)
    BY <1>2, <2>1, <2>2 DEF EnPorcion
  <2> QED BY <1>5, <2>1, <2>2, <2>3
<1>7. /\ Hasta(l) \in Int /\ Hasta(r) \in Int /\ d <= Hasta(l) /\ Hasta(l) <= Hasta(r)
      /\ Hasta(r) <= d + t /\ pedidas = Hasta(l)..(Hasta(r) - 1)
      /\ \A a \in pedidas : a \div lengthPagina = n
  <2>1. /\ l.dir = d /\ l.tam = t /\ l.pagina = n /\ r.dir = d /\ r.tam = t /\ r.pagina = n + 1
    BY <1>1, <1>2
  <2>2. pedidas = Pedidas(l)
    BY <2>1 DEF Pedidas
  <2> HIDE DEF pedidas
  <2> QED BY <1>3, <1>6, <2>1, <2>2, Avance
<1>8. PICK h0 \in Int, h1 \in Int : /\ h0 = Hasta(l) /\ h1 = Hasta(r) /\ d <= h0 /\ h0 <= h1
                                  /\ h1 <= d + t
  BY <1>7
<1>9. Cardinality(pedidas) = h1 - h0 /\ h1 - h0 \in Nat
  <2>1. h0 <= h1 /\ pedidas = h0..(h1 - 1)
    BY <1>7, <1>8
  <2> HIDE DEF pedidas
  <2>2. Cardinality(h0..(h1 - 1)) = IF h0 > h1 - 1 THEN 0 ELSE (h1 - 1) - h0 + 1
    BY FS_Interval
  <2> QED BY <2>1, <2>2
<1>10. PICK m0 \in Nat : m0 = Len(l.leido) /\ m0 = h0 - d
  <2>1. Len(l.leido) \in Nat
    BY <1>3, LenProperties
  <2>2. Len(l.leido) = Hasta(l) - l.dir
    BY <1>2 DEF Leidos
  <2> QED BY <1>2, <1>8, <2>1, <2>2
<1>11. \A k \in 1..m0 : l.leido[k] = ByteM(mem, p, d + (k - 1))
  BY <1>2, <1>10 DEF Leidos
<1>12. PICK i \in DOMAIN vivas[p] : Direcciones(l) = Direcciones(vivas[p][i])
  BY <1>2, DeSuPorcion
<1>13. \A a \in Direcciones(l) :
         /\ ByteM(mem', p, a) = ByteM(mem, p, a)
         /\ a \div lengthPagina = n => ByteM(mem, p, a) = c[a % lengthPagina]
  BY <1>2, <1>4, <1>12, BytesDelPageFault
<1>14. Direcciones(l) = d..(d + t - 1)
  BY <1>2 DEF Direcciones
<1>15. nuevo = [k \in 1..(h1 - h0) |-> c[(d + m0 + k - 1) % lengthPagina]]
  <2> HIDE DEF pedidas
  <2> QED BY <1>9, <1>10
<1> HIDE DEF nuevo
<1>16. /\ DOMAIN l.leido = 1..m0 /\ l.leido \in Seq(Byte)
  BY <1>3, <1>10, LenProperties
<1>17. /\ Len(r.leido) = m0 + (h1 - h0)
       /\ \A k \in 1..(m0 + (h1 - h0)) :
            r.leido[k] = IF k <= m0 THEN l.leido[k] ELSE c[(d + m0 + (k - m0) - 1) % lengthPagina]
  <2>1. PICK s : s = l.leido
    OBVIOUS
  <2>2. PICK g \in Nat : g = h1 - h0
    BY <1>9
  <2>3. DOMAIN nuevo = 1..g /\ \A k \in 1..g : nuevo[k] = c[(d + m0 + k - 1) % lengthPagina]
    BY <1>15, <2>2
  <2>4. Len(nuevo) = g
    BY <1>15, <2>2
  <2>5. Len(s) = m0
    BY <1>10, <2>1
  <2> DEFINE V == Byte \cup {nuevo[k] : k \in 1..g}
  <2>9. s \in Seq(V) /\ nuevo \in Seq(V)
    <3>1. s \in [1..m0 -> V]
      BY <1>16, <2>1, ElementOfSeq, <1>10
    <3>2. nuevo \in [1..g -> V]
      BY <1>15, <2>2
    <3> HIDE DEF V
    <3> QED BY <3>1, <3>2
  <2> HIDE DEF V
  <2>6. \A k \in 1..(m0 + g) : (s \o nuevo)[k] = IF k <= m0 THEN s[k] ELSE nuevo[k - m0]
    BY <2>4, <2>5, <2>9, ConcatProperties
  <2>7. Len(s \o nuevo) = m0 + g
    BY <2>4, <2>5, <2>9, ConcatProperties
  <2>8. ASSUME NEW k \in 1..(m0 + g)
        PROVE  (s \o nuevo)[k] = IF k <= m0 THEN s[k] ELSE c[(d + m0 + (k - m0) - 1) % lengthPagina]
    <3>1. (s \o nuevo)[k] = IF k <= m0 THEN s[k] ELSE nuevo[k - m0]
      BY <2>6
    <3>2. ~ (k <= m0) => k - m0 \in 1..g
      OBVIOUS
    <3> QED BY <2>3, <3>1, <3>2
  <2> QED BY <1>5, <2>1, <2>2, <2>7, <2>8
<1>18. m0 + (h1 - h0) = h1 - d
  BY <1>3, <1>10
<1>19. ASSUME NEW k \in 1..(m0 + (h1 - h0))
       PROVE  r.leido[k] = ByteM(mem', p, d + (k - 1))
  <2>1. CASE k <= m0
    <3>1. d + (k - 1) \in d..(d + t - 1)
      <4>1. k \in Nat /\ k >= 1 /\ k <= h0 - d
        BY <1>3, <1>8, <1>9, <1>10, <2>1
      <4> QED BY <1>3, <1>8, <4>1
    <3> QED BY <1>11, <1>13, <1>14, <1>17, <2>1, <3>1
  <2>2. CASE ~ (k <= m0)
    <3>1. PICK a \in Int : a = d + (k - 1)
      BY <1>3, <1>9, <1>10
    <3>2. a \in h0..(h1 - 1) /\ a \in d..(d + t - 1)
      <4>1. k \in Nat /\ k > h0 - d /\ k <= h1 - d
        BY <1>3, <1>8, <1>9, <1>10, <1>18, <2>2
      <4>2. d \in Nat /\ t \in Nat /\ h0 \in Int /\ h1 \in Int /\ d <= h0 /\ h1 <= d + t
        BY <1>3, <1>8
      <4> QED BY ONLY <3>1, <4>1, <4>2
    <3>3. a \div lengthPagina = n
      <4>1. a \in pedidas
        BY <1>7, <1>8, <3>2
      <4> HIDE DEF pedidas
      <4> QED BY <1>7, <4>1
    <3>4. d + m0 + (k - m0) - 1 = a
      BY <1>3, <1>10, <3>1
    <3>5. ByteM(mem', p, a) = c[a % lengthPagina]
      BY <1>13, <1>14, <3>2, <3>3
    <3>6. r.leido[k] = c[(d + m0 + (k - m0) - 1) % lengthPagina]
      BY <1>17, <2>2
    <3> QED BY <3>1, <3>4, <3>5, <3>6
  <2> QED BY <2>1, <2>2
<1>20. r.dir = d
  BY <1>1, <1>2
<1>21. Len(r.leido) = Hasta(r) - r.dir
  BY <1>8, <1>17, <1>18, <1>20
<1>22. \A k \in 1..Len(r.leido) : r.leido[k] = ByteM(mem', p, r.dir + (k - 1))
  BY <1>17, <1>19, <1>20
<1> QED BY <1>2, <1>21, <1>22 DEF Leidos

LEMMA CopiadosAlPageFault ==
  ASSUME HipotesisCaida, InvTablas, InvPorciones, InvCaida, NEW p \in Programas, pageFault(p),
         pc[p] = "copy", mem'.caida = "no", EnPorcion(p), Copiados(p)
  PROVE  Copiados(p)'
<1>0. Hipotesis /\ HipotesisHeap
  BY DEF HipotesisCaida, HipotesisHeap
<1>1. /\ local'[p].pagina = local[p].pagina + 1 /\ local'[p].dir = local[p].dir
      /\ local'[p].tam = local[p].tam /\ local'[p].dato = local[p].dato
      /\ local[p].pagina \in Nat
  BY <1>0, EfectoPageFault
<1>2. PICK n \in Nat : n = local[p].pagina
  BY <1>1
<1>3. PICK d, v : d = local[p].dir /\ v = local[p].dato
  OBVIOUS
<1>4. Direcciones(local'[p]) = Direcciones(local[p])
  BY <1>1 DEF Direcciones
<1>5. ASSUME NEW a \in Direcciones(local[p]), a < (n + 1) * lengthPagina
      PROVE  ByteM(mem', p, a) = Dato(v, a - d)
  <2>1. PICK i \in DOMAIN vivas[p] : a \in Direcciones(vivas[p][i])
    BY DeSuPorcion
  <2>2. a \in Nat
    BY <1>0, <2>1, EnPaginas
  <2>3. ByteM(mem', p, a) =
          IF a \div lengthPagina = n /\ a \in Direcciones(local[p])
          THEN Dato(v, a - d) ELSE ByteM(mem, p, a)
    BY <1>2, <1>3, <2>1, BytesDelPageFault
  <2>4. CASE a \div lengthPagina = n
    BY <2>3, <2>4
  <2>5. CASE a \div lengthPagina # n
    <3>1. n + 1 \in Int /\ a \in Int
      BY <2>2
    <3>2. a \div lengthPagina < n + 1 /\ a \div lengthPagina \in Int
      BY <1>5, <3>1, Pagina, Division
    <3>3. a \div lengthPagina < n
      BY <2>5, <3>2
    <3>4. a < n * lengthPagina
      <4>1. a >= n * lengthPagina => a \div lengthPagina >= n
        BY <3>1, Pagina
      <4>2. n * lengthPagina \in Int
        BY Productos
      <4> QED BY <3>1, <3>2, <3>3, <4>1, <4>2
    <3>5. ByteM(mem, p, a) = Dato(v, a - d)
      BY <1>2, <1>3, <3>4 DEF Copiados
    <3> QED BY <2>3, <2>5, <3>5
  <2> QED BY <2>4, <2>5
<1>6. PICK r : r = local'[p]
  OBVIOUS
<1>7. r.pagina = n + 1 /\ r.dir = d /\ r.dato = v /\ Direcciones(r) = Direcciones(local[p])
  BY <1>1, <1>2, <1>3, <1>4, <1>6
<1>8. \A a \in Direcciones(r) : a < r.pagina * lengthPagina => ByteM(mem', p, a) = Dato(r.dato, a - r.dir)
  BY <1>5, <1>7
<1> QED BY <1>6, <1>8 DEF Copiados

LEMMA BytesAlPageFault ==
  ASSUME HipotesisCaida, InvTablas, InvPorciones, InvCaida, NEW p \in Programas, pageFault(p),
         DeBytes(p)
  PROVE  DeBytes(p)'
<1>0. Hipotesis /\ HipotesisHeap
  BY DEF HipotesisCaida, HipotesisHeap
<1>1. /\ pc[p] \in {"get", "copy"} /\ mem.caida = "no" /\ UNCHANGED <<pc, vivas>>
      /\ local'[p].pagina = local[p].pagina + 1
      /\ local'[p].dir = local[p].dir /\ local'[p].tam = local[p].tam
      /\ local[p].pagina \in Nat
  BY <1>0, EfectoPageFault
<1>2. EnPorcion(p) /\ (pc[p] = "get" => Leidos(p)) /\ (pc[p] = "copy" => Copiados(p))
  BY <1>1 DEF DeBytes
<1>3. EnPorcion(p)'
  <2>1. \E i \in DOMAIN vivas'[p] :
          local'[p].dir = vivas'[p][i].dir /\ local'[p].tam = vivas'[p][i].tam
    BY <1>1, <1>2 DEF EnPorcion
  <2>2. local[p].pagina <= UltimaPagina(p)
    BY ZenonT(60) DEF pageFault
  <2>3. PICK q1 \in Int : q1 = UltimaPagina(p)
    <3>1. local[p].dir \in Nat /\ local[p].tam \in Nat
      BY DEF InvTablas, TiposMuse, EsLocal
    <3>2. PICK a \in Int : a = local[p].dir + local[p].tam - 1
      BY <3>1
    <3> QED BY <3>2, Division DEF UltimaPagina
  <2>4. PICK q0 \in Int : q0 = local[p].dir \div lengthPagina
    <3>1. local[p].dir \in Int
      BY DEF InvTablas, TiposMuse, EsLocal
    <3> QED BY <3>1, Division
  <2>5. local[p].pagina \in q0..(q1 + 1)
    BY <1>2, <2>3, <2>4 DEF EnPorcion
  <2>6. local'[p].pagina \in q0..(q1 + 1)
    BY <1>1, <2>2, <2>3, <2>5
  <2>7. UltimaPagina(p)' = q1 /\ local'[p].dir \div lengthPagina = q0
    BY <1>1, <2>3, <2>4 DEF UltimaPagina
  <2> QED BY <2>1, <2>6, <2>7 DEF EnPorcion
<1>4. pc[p] = "get" => Leidos(p)'
  BY <1>2, LeidosAlPageFault
<1>5. pc[p] = "copy" /\ mem'.caida = "no" => Copiados(p)'
  BY <1>2, CopiadosAlPageFault
<1> QED BY <1>1, <1>3, <1>4, <1>5 DEF DeBytes

LEMMA BytesAlAcceder ==
  ASSUME HipotesisCaida, InvTablas, InvPorciones, NEW p \in Programas,
         NEW k \in DOMAIN vivas[p], NEW op \in {"get", "copy"}, NEW v, Acceder(p, k, op, v)
  PROVE  DeBytes(p)'
<1> DEFINE q == vivas[p][k]
<1>0. HipotesisHeap
  BY DEF HipotesisCaida
<1>1. /\ local' = [local EXCEPT ![p] = [LocalInicial EXCEPT !.dir = q.dir, !.tam = q.tam, !.dato = v,
                                          !.pagina = q.dir \div lengthPagina]]
      /\ UNCHANGED vivas
  BY DEF Acceder
<1>2. PICK l : l = local'[p]
  OBVIOUS
<1>3. /\ l.dir = q.dir /\ l.tam = q.tam /\ l.dato = v /\ l.pagina = q.dir \div lengthPagina
      /\ l.leido = <<>>
  BY <1>1, <1>2 DEF InvTablas, TiposMuse, LocalInicial
<1>4. PICK d \in Nat, t \in Nat : d = q.dir /\ t = q.tam /\ t >= 1
  <2>1. PICK i \in 1..Len(vivas[p]) : i = k
    BY <1>0, Vivas
  <2>2. vivas[p][i] = [dir |-> tamanio_heap + (i - 1) * Unidad(p), tam |-> Tam(p)]
    BY <1>0, Vivas
  <2>3. Tam(p) \in Nat \ {0} /\ tamanio_heap \in Nat /\ Unidad(p) \in Nat
    BY <1>0, Unidades
  <2>4. q.tam \in Nat \ {0}
    BY <2>1, <2>2, <2>3
  <2>5. q.dir \in Nat
    <3>1. Len(vivas[p]) \in Nat
      BY LargosMuse DEF InvTablas
    <3>2. PICK z \in Nat : z = (i - 1) * Unidad(p)
      BY <2>3, <3>1
    <3>3. q.dir = tamanio_heap + z
      BY <2>1, <2>2, <3>2
    <3> QED BY <2>3, <3>3
  <2> HIDE DEF q
  <2> QED BY <2>4, <2>5
<1>5. PICK n \in Int : n = d \div lengthPagina
  BY Division
<1>6. PICK z \in Int : z = n * lengthPagina
  BY Productos
<1>7. z <= d
  <2>1. d = (d \div lengthPagina) * lengthPagina + (d % lengthPagina)
        /\ d % lengthPagina \in 0..(lengthPagina - 1)
    BY Division
  <2>2. PICK r \in Nat : r = d % lengthPagina
    BY <2>1, Constantes
  <2> QED BY <1>5, <1>6, <2>1, <2>2
<1>8. EnPorcion(p)'
  <2>1. \E i \in DOMAIN vivas'[p] : l.dir = vivas'[p][i].dir /\ l.tam = vivas'[p][i].tam
    BY <1>1, <1>3
  <2>2. PICK a \in Int : a = d + t - 1
    OBVIOUS
  <2>3. a >= n * lengthPagina
    BY <1>4, <1>6, <1>7, <2>2
  <2>4. PICK q1 \in Int : q1 = a \div lengthPagina /\ q1 >= n
    BY <2>2, <2>3, Pagina, Division
  <2>5. n \in n..(q1 + 1)
    BY <2>4
  <2>6. UltimaPagina(p)' = q1 /\ l.dir \div lengthPagina = n /\ l.pagina = n
    BY <1>2, <1>3, <1>4, <1>5, <2>2, <2>4 DEF UltimaPagina
  <2> QED BY <1>2, <2>1, <2>5, <2>6 DEF EnPorcion
<1>9. Leidos(p)'
  <2>1. Hasta(l) = d
    BY <1>3, <1>4, <1>5, <1>6, <1>7 DEF Hasta
  <2>2. Len(l.leido) = 0
    BY <1>3
  <2>3. Len(l.leido) = Hasta(l) - l.dir
    BY <1>3, <1>4, <2>1, <2>2
  <2>4. \A j \in 1..Len(l.leido) : l.leido[j] = ByteM(mem', p, l.dir + (j - 1))
    BY <2>2
  <2> QED BY <1>2, <2>3, <2>4 DEF Leidos
<1>10. Copiados(p)'
  <2>1. ASSUME NEW a \in Direcciones(l), a < l.pagina * lengthPagina PROVE FALSE
    <3>1. a \in d..(d + t - 1) /\ a < z
      BY <1>3, <1>4, <1>5, <1>6, <2>1 DEF Direcciones
    <3> QED BY <1>7, <3>1
  <2>2. \A a \in Direcciones(l) : a < l.pagina * lengthPagina => ByteM(mem', p, a) = Dato(l.dato, a - l.dir)
    BY <2>1
  <2> QED BY <1>2, <2>2 DEF Copiados
<1> QED BY <1>8, <1>9, <1>10 DEF DeBytes

LEMMA BytesInicio ==
  ASSUME Init
  PROVE  InvBytes
BY DEF Init, InvBytes, DeBytes, Terminando

(* When a program closes nobody has anything reserved, nor will have.        *)
LEMMA BytesAlCerrar ==
  ASSUME Hipotesis, InvTablas, Terminando => SinPorciones, NEW p \in Programas,
         FinalizarPrograma(p) \/ destruirPagina(p) \/ destruirSegmento(p)
  PROVE  /\ SinPorciones /\ SinPorciones' /\ g_mutexPaginas = Nada /\ g_mutexPaginas' = Nada
         /\ pc'[p] \in {"cerrando", "cerrado"}
<1>0. TiposMuse /\ Semaforo
  BY DEF InvTablas
<1>1. CASE FinalizarPrograma(p)
  <2>1. /\ SinPorciones /\ g_mutexPaginas = Nada /\ pc[p] = "libre"
        /\ vivas' = [vivas EXCEPT ![p] = <<>>] /\ pc' = [pc EXCEPT ![p] = "cerrando"]
        /\ UNCHANGED g_mutexPaginas
    BY <1>1 DEF FinalizarPrograma, Hipotesis, Ir, Sigue
  <2> QED BY <1>0, <2>1 DEF SinPorciones, TiposMuse
<1>2. CASE destruirPagina(p) \/ destruirSegmento(p)
  <2>1. pc[p] = "cerrando"
    BY <1>2 DEF destruirPagina, destruirSegmento, Sigue
  <2>2. SinPorciones /\ g_mutexPaginas = Nada
    BY <1>0, <2>1 DEF Terminando, Semaforo
  <2>3. /\ UNCHANGED <<vivas, g_mutexPaginas>>
        /\ pc' = pc \/ pc' = [pc EXCEPT ![p] = "cerrado"]
    BY <1>2 DEF destruirPagina, destruirSegmento, Ir
  <2> QED BY <1>0, <2>1, <2>2, <2>3 DEF SinPorciones, TiposMuse
<1> QED BY <1>1, <1>2

LEMMA BytesPaso ==
  ASSUME HipotesisCaida, InvTablas, InvPorciones, InvCaida, InvBytes, [Next]_vars
  PROVE  InvBytes'
<1>0. Hipotesis /\ HipotesisHeap
  BY DEF HipotesisCaida, HipotesisHeap
<1>1. CASE UNCHANGED vars
  <2>1. Terminando' => SinPorciones'
    BY <1>1 DEF InvBytes, vars, Terminando, SinPorciones
  <2>2. \A p \in Programas : DeBytes(p)'
    <3> SUFFICES ASSUME NEW p \in Programas PROVE DeBytes(p)'
      OBVIOUS
    <3>1. EnPorcion(p)' = EnPorcion(p) /\ Leidos(p)' = Leidos(p) /\ Copiados(p)' = Copiados(p)
      BY <1>1 DEF vars, EnPorcion, Leidos, Copiados, UltimaPagina
    <3> QED BY <1>1, <3>1 DEF InvBytes, DeBytes, vars
  <2> QED BY <2>1, <2>2 DEF InvBytes
<1>2. ASSUME NEW p \in Programas, Servir(p) \/ Pedir(p) PROVE InvBytes'
  <2>1. mem.caida = "no"
    BY <1>2, Ajenos
  <2>2. (Terminando => SinPorciones) /\ \A q \in Programas : DeBytes(q)
    BY DEF InvBytes
  <2>3. \A q \in Programas \ {p} : DeBytes(q)'
    <3> SUFFICES ASSUME NEW q \in Programas \ {p} PROVE DeBytes(q)'
      OBVIOUS
    <3>1. Igual(q)
      BY <1>2, <2>2, LosOtros
    <3> QED BY <2>1, <2>2, <3>1, DeOtro
  <2>4. CASE FinalizarPrograma(p) \/ destruirPagina(p) \/ destruirSegmento(p)
    <3>1. SinPorciones' /\ pc'[p] \in {"cerrando", "cerrado"}
      BY <1>0, <2>2, <2>4, BytesAlCerrar
    <3>2. DeBytes(p)'
      BY <3>1 DEF DeBytes
    <3> QED BY <2>3, <3>1, <3>2 DEF InvBytes
  <2>5. ASSUME ~ Terminando', DeBytes(p)' PROVE InvBytes'
    BY <2>3, <2>5 DEF InvBytes
  <2>6. CASE allocarEnPaginasNuevas(p)
    <3>1. pc[p] = "alloc" /\ UNCHANGED <<pc, g_mutexPaginas>>
      BY <2>6 DEF allocarEnPaginasNuevas, Sigue
    <3>2. ~ Terminando'
      BY <3>1, Trabaja DEF InvTablas, Trabajo
    <3>3. DeBytes(p)'
      BY <3>1 DEF DeBytes
    <3> QED BY <2>5, <3>2, <3>3
  <2>7. CASE pageFault(p)
    <3>1. pc[p] \in {"get", "copy"} /\ UNCHANGED <<pc, g_mutexPaginas>>
      BY <2>7, ZenonT(60) DEF pageFault
    <3>2. ~ Terminando'
      BY <3>1, Trabaja DEF InvTablas, Trabajo
    <3>3. DeBytes(p)'
      BY <2>2, <2>7, BytesAlPageFault
    <3> QED BY <2>5, <3>2, <3>3
  <2>8. ASSUME Callado(p), pc'[p] \notin {"get", "copy"} PROVE InvBytes'
    <3>1. ~ Terminando'
      BY <1>0, <2>8, Misma
    <3>2. DeBytes(p)'
      BY <2>8 DEF DeBytes
    <3> QED BY <2>5, <3>1, <3>2
  <2>9. CASE \/ InicializarNuevoPrograma(p) \/ enviarRespuestaAlloc(p) \/ enviarRespuesta(p)
             \/ Desconectar(p)
    <3>1. \E d \in {"libre", "muerto"} : pc' = [pc EXCEPT ![p] = d]
      BY <2>9 DEF InicializarNuevoPrograma, enviarRespuestaAlloc, enviarRespuesta, Desconectar, Ir
    <3>2. pc'[p] \notin {"get", "copy"}
      BY <3>1 DEF InvTablas, TiposMuse
    <3>3. Callado(p)
      BY <2>9 DEF Callado
    <3> QED BY <2>8, <3>2, <3>3
  <2>10. ASSUME NEW tam \in Tamanios[p], procesarAlloc(p, tam) PROVE InvBytes'
    <3>1. pc' = [pc EXCEPT ![p] = "alloc"]
      BY <1>0, <2>10, EfectoAlloc
    <3>2. pc'[p] \notin {"get", "copy"}
      BY <3>1 DEF InvTablas, TiposMuse
    <3>3. Callado(p)
      BY <2>10 DEF Callado
    <3> QED BY <2>8, <3>2, <3>3
  <2>11. ASSUME NEW k \in DOMAIN vivas[p], procesarFree(p, k) PROVE InvBytes'
    <3>1. pc[p] = "libre" /\ UNCHANGED pc
      BY <1>0, <2>11, EfectoFree
    <3>2. Callado(p)
      BY <2>11 DEF Callado
    <3> QED BY <2>8, <3>1, <3>2
  <2>12. ASSUME NEW k \in DOMAIN vivas[p],
                procesarGet(p, k) \/ \E v \in Valores : procesarCopy(p, k, v)
         PROVE  InvBytes'
    <3>1. Callado(p)
      BY <2>12 DEF Callado
    <3>2. ~ Terminando'
      BY <1>0, <3>1, Misma
    <3>3. PICK op \in {"get", "copy"}, v \in Valores \cup {Nada} : Acceder(p, k, op, v)
      BY <2>12 DEF procesarGet, procesarCopy
    <3>4. DeBytes(p)'
      BY <3>3, BytesAlAcceder
    <3> QED BY <2>5, <3>2, <3>4
  <2> QED BY ONLY <1>2, <2>4, <2>6, <2>7, <2>9, <2>10, <2>11, <2>12 DEF Servir, Pedir
<1> QED BY <1>1, <1>2 DEF Next

-------------------------------------------------------------------------------
(* The steps of MemoriaMuse *)

(* The variables of MemoriaMuse. *)
porcionesDe == [p \in Programas |-> Porciones(p)]
bytesDe == [p \in Programas |-> BytesVistos(p)]
devueltoDe == [p \in Programas |-> Devuelto(p)]

LEMMA Variables ==
  /\ DOMAIN porcionesDe = Programas /\ DOMAIN porcionesDe' = Programas
  /\ DOMAIN bytesDe = Programas /\ DOMAIN bytesDe' = Programas
  /\ DOMAIN devueltoDe = Programas /\ DOMAIN devueltoDe' = Programas
  /\ porcionesDe = [p \in Programas |-> porcionesDe[p]]
  /\ porcionesDe' = [p \in Programas |-> porcionesDe'[p]]
  /\ bytesDe = [p \in Programas |-> bytesDe[p]] /\ bytesDe' = [p \in Programas |-> bytesDe'[p]]
  /\ devueltoDe = [p \in Programas |-> devueltoDe[p]]
  /\ devueltoDe' = [p \in Programas |-> devueltoDe'[p]]
  /\ \A p \in Programas : porcionesDe[p] = Porciones(p) /\ porcionesDe'[p] = Porciones(p)'
  /\ \A p \in Programas : bytesDe[p] = BytesVistos(p) /\ bytesDe'[p] = BytesVistos(p)'
  /\ \A p \in Programas : devueltoDe[p] = Devuelto(p) /\ devueltoDe'[p] = Devuelto(p)'
BY DEF porcionesDe, bytesDe, devueltoDe

(* What p has, what its bytes are and what it is handed over stay so.        *)
MismaVista(p) ==
  /\ Porciones(p)' = Porciones(p)
  /\ BytesVistos(p)' = BytesVistos(p)
  /\ Devuelto(p)' = Devuelto(p)

LEMMA VeNada ==
  ASSUME \A p \in Programas : MismaVista(p)
  PROVE  UNCHANGED Memoria!visto
<1>1. porcionesDe' = porcionesDe /\ bytesDe' = bytesDe /\ devueltoDe' = devueltoDe
  BY Variables DEF MismaVista
<1> QED BY <1>1 DEF Memoria!visto, porcionesDe, bytesDe, devueltoDe

LEMMA VeReservar ==
  ASSUME NEW p \in Programas, \A q \in Programas \ {p} : MismaVista(q),
         NEW nueva, nueva \notin Porciones(p), Porciones(p)' = Porciones(p) \cup {nueva},
         \A q \in Porciones(p) : Direcciones(q) \cap Direcciones(nueva) = {},
         DOMAIN BytesVistos(p)' = DOMAIN BytesVistos(p) \cup Direcciones(nueva),
         BytesVistos(p) = [a \in DOMAIN BytesVistos(p) |-> BytesVistos(p)'[a]],
         Devuelto(p)' = Devuelto(p)
  PROVE  Memoria!Next
<1>1. devueltoDe' = devueltoDe
  BY Variables DEF MismaVista
<1>2. porcionesDe' = [porcionesDe EXCEPT ![p] = @ \cup {nueva}]
  BY Variables DEF MismaVista
<1>3. bytesDe' = [bytesDe EXCEPT ![p] = bytesDe'[p]]
  BY Variables DEF MismaVista
<1>4. nueva \in porcionesDe'[p] \ porcionesDe[p]
  BY Variables
<1>5. \A q \in porcionesDe[p] : Direcciones(q) \cap Direcciones(nueva) = {}
  BY Variables
<1>6. /\ DOMAIN bytesDe'[p] = DOMAIN bytesDe[p] \cup Direcciones(nueva)
      /\ bytesDe[p] = [a \in DOMAIN bytesDe[p] |-> bytesDe'[p][a]]
  BY Variables
<1>7. Memoria!Reservar(p)
  <2>1. \A q : Memoria!Direcciones(q) = Direcciones(q)
    BY DEF Memoria!Direcciones, Direcciones
  <2>2. Memoria!Restrict(bytesDe'[p], DOMAIN bytesDe[p]) = bytesDe[p]
    BY <1>6 DEF Memoria!Restrict
  <2>3. /\ \A q \in porcionesDe[p] : Memoria!Direcciones(q) \cap Memoria!Direcciones(nueva) = {}
        /\ DOMAIN bytesDe'[p] = DOMAIN bytesDe[p] \cup Memoria!Direcciones(nueva)
    BY <1>5, <1>6, <2>1
  <2> QED BY <1>1, <1>2, <1>3, <1>4, <2>2, <2>3 DEF Memoria!Reservar, porcionesDe, bytesDe, devueltoDe
<1> QED BY <1>7 DEF Memoria!Next

LEMMA VeEscribir ==
  ASSUME NEW p \in Programas, \A q \in Programas \ {p} : MismaVista(q),
         NEW q \in Porciones(p), NEW v \in Valores, Porciones(p)' = Porciones(p),
         BytesVistos(p)' = [a \in DOMAIN BytesVistos(p) |->
                              IF a \in Direcciones(q) THEN Dato(v, a - q.dir)
                              ELSE BytesVistos(p)[a]],
         Devuelto(p)' = Devuelto(p)
  PROVE  Memoria!Next
<1> DEFINE escrito(b) == [a \in DOMAIN b |->
                            IF a \in Direcciones(q) THEN Dato(v, a - q.dir) ELSE b[a]]
<1>1. devueltoDe' = devueltoDe /\ porcionesDe' = porcionesDe
  BY Variables DEF MismaVista
<1>2. bytesDe' = [bytesDe EXCEPT ![p] = escrito(bytesDe[p])]
  <2>1. BytesVistos(p)' = escrito(BytesVistos(p))
    OBVIOUS
  <2> HIDE DEF escrito
  <2> QED BY <2>1, Variables DEF MismaVista
<1>3. Memoria!Escribir(p)
  <2>1. q \in porcionesDe[p]
    BY Variables
  <2>2. \E s \in porcionesDe[p], w \in Valores :
          bytesDe' = [bytesDe EXCEPT ![p] =
                        [a \in DOMAIN bytesDe[p] |->
                           IF a \in Direcciones(s) THEN Dato(w, a - s.dir) ELSE bytesDe[p][a]]]
    BY ONLY <1>2, <2>1, v \in Valores
  <2> QED BY <1>1, <2>2 DEF Memoria!Escribir, Memoria!Dato, Dato, Memoria!Direcciones, Direcciones,
                            porcionesDe, bytesDe, devueltoDe
<1> QED BY <1>3 DEF Memoria!Next

LEMMA VeLeer ==
  ASSUME NEW p \in Programas, \A q \in Programas \ {p} : MismaVista(q),
         NEW q \in Porciones(p), Porciones(p)' = Porciones(p), BytesVistos(p)' = BytesVistos(p),
         Devuelto(p) = Nada,
         Devuelto(p)' = [k \in 0..(q.tam - 1) |-> BytesVistos(p)[q.dir + k]]
  PROVE  Memoria!Next
<1>1. bytesDe' = bytesDe /\ porcionesDe' = porcionesDe /\ devueltoDe[p] = Nada /\ q \in porcionesDe[p]
  BY Variables DEF MismaVista
<1>2. devueltoDe' = [devueltoDe EXCEPT ![p] = [k \in 0..(q.tam - 1) |-> bytesDe[p][q.dir + k]]]
  <2>1. bytesDe[p] = BytesVistos(p)
    BY Variables
  <2>2. PICK l : l = Devuelto(p)'
    OBVIOUS
  <2>3. devueltoDe' = [devueltoDe EXCEPT ![p] = l]
    BY <2>2, Variables DEF MismaVista
  <2>4. l = [k \in 0..(q.tam - 1) |-> bytesDe[p][q.dir + k]]
    BY <2>1, <2>2
  <2> QED BY <2>3, <2>4
<1>3. Memoria!Leer(p)
  BY <1>1, <1>2 DEF Memoria!Leer, porcionesDe, bytesDe, devueltoDe
<1> QED BY <1>3 DEF Memoria!Next

LEMMA VeEntregar ==
  ASSUME NEW p \in Programas, \A q \in Programas \ {p} : MismaVista(q),
         Porciones(p)' = Porciones(p), BytesVistos(p)' = BytesVistos(p),
         Devuelto(p) # Nada, Devuelto(p)' = Nada
  PROVE  Memoria!Next
<1>1. bytesDe' = bytesDe /\ porcionesDe' = porcionesDe /\ devueltoDe[p] # Nada
  BY Variables DEF MismaVista
<1>2. devueltoDe' = [devueltoDe EXCEPT ![p] = Nada]
  BY Variables DEF MismaVista
<1>3. Memoria!Entregar(p)
  BY <1>1, <1>2 DEF Memoria!Entregar, porcionesDe, bytesDe, devueltoDe
<1> QED BY <1>3 DEF Memoria!Next

LEMMA VeLiberar ==
  ASSUME NEW p \in Programas, \A q \in Programas \ {p} : MismaVista(q),
         NEW q \in Porciones(p), Porciones(p)' = Porciones(p) \ {q},
         BytesVistos(p)' = [a \in DOMAIN BytesVistos(p) \ Direcciones(q) |-> BytesVistos(p)[a]],
         Devuelto(p)' = Devuelto(p)
  PROVE  Memoria!Next
<1>1. devueltoDe' = devueltoDe /\ q \in porcionesDe[p]
  BY Variables DEF MismaVista
<1>2. porcionesDe' = [porcionesDe EXCEPT ![p] = @ \ {q}]
  BY Variables DEF MismaVista
<1>3. bytesDe' = [bytesDe EXCEPT ![p] = [a \in DOMAIN @ \ Direcciones(q) |-> @[a]]]
  <2>1. PICK b : b = BytesVistos(p)'
    OBVIOUS
  <2>2. bytesDe' = [bytesDe EXCEPT ![p] = b]
    BY <2>1, Variables DEF MismaVista
  <2>3. b = [a \in DOMAIN bytesDe[p] \ Direcciones(q) |-> bytesDe[p][a]]
    BY <2>1, Variables
  <2> QED BY <2>2, <2>3
<1>4. Memoria!Liberar(p)
  <2>1. \A x : Memoria!Direcciones(x) = Direcciones(x)
    BY DEF Memoria!Direcciones, Direcciones
  <2>2. bytesDe' = [bytesDe EXCEPT ![p] = Memoria!Restrict(@, DOMAIN @ \ Memoria!Direcciones(q))]
    BY <1>3, <2>1 DEF Memoria!Restrict
  <2> QED BY <1>1, <1>2, <2>2 DEF Memoria!Liberar, porcionesDe, bytesDe, devueltoDe
<1> QED BY <1>4 DEF Memoria!Next

LEMMA VeIrse ==
  ASSUME NEW p \in Programas, \A q \in Programas \ {p} : MismaVista(q),
         Porciones(p)' = {}, BytesVistos(p)' = <<>>, Devuelto(p)' = Devuelto(p)
  PROVE  Memoria!Next
<1>1. /\ devueltoDe' = devueltoDe
      /\ porcionesDe' = [porcionesDe EXCEPT ![p] = {}] /\ bytesDe' = [bytesDe EXCEPT ![p] = <<>>]
  BY Variables DEF MismaVista
<1>2. Memoria!Irse(p)
  BY <1>1 DEF Memoria!Irse, porcionesDe, bytesDe, devueltoDe
<1> QED BY <1>2 DEF Memoria!Next

-------------------------------------------------------------------------------
(* What each program sees *)

Dirs(p) == UNION {Direcciones(q) : q \in Porciones(p)}
Visto(p, a) ==
  IF pc[p] = "copy" /\ a \in Direcciones(local[p]) THEN Dato(local[p].dato, a - local[p].dir)
  ELSE ByteM(mem, p, a)

LEMMA BytesDe ==
  ASSUME NEW p \in Programas
  PROVE  /\ BytesVistos(p) = [a \in Dirs(p) |-> Visto(p, a)]
         /\ BytesVistos(p)' = [a \in Dirs(p)' |-> Visto(p, a)']
         /\ DOMAIN BytesVistos(p) = Dirs(p) /\ DOMAIN BytesVistos(p)' = Dirs(p)'
<1>1. /\ BytesVistos(p) = [a \in Dirs(p) |-> Visto(p, a)]
      /\ DOMAIN BytesVistos(p) = Dirs(p)
  BY DEF BytesVistos, Dirs, Visto, ByteEn, ByteM
<1>2. /\ BytesVistos(p)' = [a \in Dirs(p)' |-> Visto(p, a)']
      /\ DOMAIN BytesVistos(p)' = Dirs(p)'
  BY DEF BytesVistos, Dirs, Visto, ByteEn, ByteM
<1> QED BY <1>1, <1>2

LEMMA FuncionVacia ==
  ASSUME NEW f, DOMAIN f = {}, f = [a \in DOMAIN f |-> f[a]]
  PROVE  f = <<>>
<1>1. <<>> = [a \in DOMAIN <<>> |-> <<>>[a]] /\ DOMAIN <<>> = {}
  OBVIOUS
<1> QED BY <1>1

(* A program that is there has the addresses of its portions. *)
LEMMA DirsDe ==
  ASSUME NEW p \in Programas
  PROVE  /\ pc[p] # "muerto" => /\ Porciones(p) = {vivas[p][i] : i \in DOMAIN vivas[p]}
                                /\ Dirs(p) = UNION {Direcciones(vivas[p][i]) : i \in DOMAIN vivas[p]}
         /\ pc'[p] # "muerto" =>
              /\ Porciones(p)' = {vivas'[p][i] : i \in DOMAIN vivas'[p]}
              /\ Dirs(p)' = UNION {Direcciones(vivas'[p][i]) : i \in DOMAIN vivas'[p]}
         /\ pc[p] = "muerto" => Porciones(p) = {} /\ Dirs(p) = {}
         /\ pc'[p] = "muerto" => Porciones(p)' = {} /\ Dirs(p)' = {}
<1>1. /\ pc[p] # "muerto" => Porciones(p) = {vivas[p][i] : i \in DOMAIN vivas[p]}
      /\ pc'[p] # "muerto" => Porciones(p)' = {vivas'[p][i] : i \in DOMAIN vivas'[p]}
      /\ pc[p] = "muerto" => Porciones(p) = {}
      /\ pc'[p] = "muerto" => Porciones(p)' = {}
  BY DEF Porciones, Range
<1>2. /\ Dirs(p) = UNION {Direcciones(q) : q \in Porciones(p)}
      /\ Dirs(p)' = UNION {Direcciones(q) : q \in Porciones(p)'}
  BY DEF Dirs, Direcciones
<1> QED BY <1>1, <1>2

LEMMA SinDevuelto ==
  ASSUME NEW p \in Programas
  PROVE  /\ pc[p] # "get" => Devuelto(p) = Nada
         /\ pc'[p] # "get" => Devuelto(p)' = Nada
BY DEF Devuelto

LEMMA VistoDe ==
  ASSUME NEW p \in Programas, NEW a
  PROVE  /\ pc[p] # "copy" => Visto(p, a) = ByteM(mem, p, a)
         /\ pc'[p] # "copy" => Visto(p, a)' = ByteM(mem', p, a)
         /\ a \notin Direcciones(local[p]) => Visto(p, a) = ByteM(mem, p, a)
         /\ a \notin Direcciones(local'[p]) => Visto(p, a)' = ByteM(mem', p, a)
         /\ pc[p] = "copy" /\ a \in Direcciones(local[p]) =>
              Visto(p, a) = Dato(local[p].dato, a - local[p].dir)
         /\ pc'[p] = "copy" /\ a \in Direcciones(local'[p]) =>
              Visto(p, a)' = Dato(local'[p].dato, a - local'[p].dir)
<1>1. Visto(p, a)' = IF pc'[p] = "copy" /\ a \in Direcciones(local'[p])
                     THEN Dato(local'[p].dato, a - local'[p].dir) ELSE ByteM(mem', p, a)
  BY DEF Visto, ByteM, Direcciones, Dato
<1> QED BY <1>1 DEF Visto

(* The same portions with the same bytes. *)
LEMMA VistaSi ==
  ASSUME NEW p \in Programas, pc[p] # "muerto", pc'[p] # "muerto", vivas'[p] = vivas[p],
         \A i \in DOMAIN vivas[p] : \A a \in Direcciones(vivas[p][i]) :
           Visto(p, a)' = Visto(p, a)
  PROVE  Porciones(p)' = Porciones(p) /\ BytesVistos(p)' = BytesVistos(p)
<1>1. Porciones(p)' = Porciones(p) /\ Dirs(p)' = Dirs(p)
  <2>1. /\ Porciones(p) = {vivas[p][i] : i \in DOMAIN vivas[p]}
        /\ Dirs(p) = UNION {Direcciones(vivas[p][i]) : i \in DOMAIN vivas[p]}
    BY DirsDe
  <2>2. /\ Porciones(p)' = {vivas'[p][i] : i \in DOMAIN vivas'[p]}
        /\ Dirs(p)' = UNION {Direcciones(vivas'[p][i]) : i \in DOMAIN vivas'[p]}
    BY DirsDe
  <2>3. PICK v : v = vivas[p] /\ v = vivas'[p]
    OBVIOUS
  <2> QED BY ONLY <2>1, <2>2, <2>3
<1>2. \A a \in Dirs(p) : Visto(p, a)' = Visto(p, a)
  BY DirsDe
<1> QED BY <1>1, <1>2, BytesDe

LEMMA VistaIgual ==
  ASSUME NEW p \in Programas, Igual(p)
  PROVE  MismaVista(p)
<1>1. pc'[p] = pc[p] /\ local'[p] = local[p] /\ vivas'[p] = vivas[p]
  BY DEF Igual
<1>2. Devuelto(p)' = Devuelto(p)
  BY <1>1 DEF Devuelto, UltimaPagina
<1>3. CASE pc[p] = "muerto"
  <2>1. Porciones(p)' = Porciones(p) /\ Dirs(p) = {} /\ Dirs(p)' = {}
    BY <1>1, <1>3, DirsDe
  <2> QED BY <1>2, <2>1, BytesDe DEF MismaVista
<1>4. CASE pc[p] # "muerto"
  <2>1. ASSUME NEW i \in DOMAIN vivas[p], NEW a \in Direcciones(vivas[p][i])
        PROVE  Visto(p, a)' = Visto(p, a)
    <3>1. ByteM(mem', p, a) = ByteM(mem, p, a)
      BY <1>4 DEF Igual
    <3> QED BY <1>1, <3>1, VistoDe
  <2>2. Porciones(p)' = Porciones(p) /\ BytesVistos(p)' = BytesVistos(p)
    BY <1>1, <1>4, <2>1, VistaSi
  <2> QED BY <1>2, <2>2 DEF MismaVista
<1> QED BY <1>3, <1>4

(* A request that starts or goes on without a copy that shows. *)
LEMMA VeQuieto ==
  ASSUME NEW p \in Programas, \A q \in Programas \ {p} : Igual(q),
         pc[p] \notin {"muerto", "copy"}, pc'[p] \notin {"muerto", "copy"}, vivas'[p] = vivas[p],
         \A i \in DOMAIN vivas[p] : \A a \in Direcciones(vivas[p][i]) :
           ByteM(mem', p, a) = ByteM(mem, p, a),
         Devuelto(p)' = Devuelto(p)
  PROVE  UNCHANGED Memoria!visto
<1>1. \A i \in DOMAIN vivas[p] : \A a \in Direcciones(vivas[p][i]) : Visto(p, a)' = Visto(p, a)
  BY VistoDe
<1>2. Porciones(p)' = Porciones(p) /\ BytesVistos(p)' = BytesVistos(p)
  BY <1>1, VistaSi
<1>3. MismaVista(p)
  BY <1>2 DEF MismaVista
<1> QED BY <1>3, VistaIgual, VeNada

(* Everybody has gone or has nothing reserved. *)
LEMMA VeCerrar ==
  ASSUME SinPorciones, SinPorciones', Semaforo, Semaforo', g_mutexPaginas = Nada,
         g_mutexPaginas' = Nada
  PROVE  UNCHANGED Memoria!visto
<1> SUFFICES ASSUME NEW p \in Programas PROVE MismaVista(p)
  BY VeNada
<1>1. pc[p] # "get" /\ pc'[p] # "get"
  BY Constantes DEF Semaforo, Trabajo
<1>2. Porciones(p) = {} /\ Porciones(p)' = {} /\ Dirs(p) = {} /\ Dirs(p)' = {}
  <2>1. /\ pc[p] # "muerto" => DOMAIN vivas[p] = {}
        /\ pc'[p] # "muerto" => DOMAIN vivas'[p] = {}
    BY DEF SinPorciones
  <2> QED BY <2>1, DirsDe
<1> QED BY <1>1, <1>2, BytesDe, SinDevuelto DEF MismaVista

(* A portion starts in a page up to its last.                                *)
LEMMA Empieza ==
  ASSUME NEW d \in Nat, NEW t \in Nat \ {0}
  PROVE  /\ d \div lengthPagina \in Int /\ (d + t - 1) \div lengthPagina \in Int
         /\ d \div lengthPagina <= (d + t - 1) \div lengthPagina
<1>1. PICK n \in Int : n = d \div lengthPagina
  BY Division
<1>2. PICK a \in Int : a = d + t - 1 /\ a >= d
  OBVIOUS
<1>3. PICK z \in Int : z = n * lengthPagina
  BY Productos
<1>4. d \in Int /\ d < z => d \div lengthPagina < n
  BY <1>3, Pagina
<1>5. d >= n * lengthPagina
  BY <1>1, <1>3, <1>4
<1>6. a >= n * lengthPagina
  BY <1>2, <1>3, <1>5
<1>7. a \div lengthPagina >= n /\ a \div lengthPagina \in Int
  BY <1>2, <1>6, Pagina, Division
<1>8. (d + t - 1) \div lengthPagina = a \div lengthPagina
  BY <1>2
<1> QED BY <1>1, <1>7, <1>8

(* A loop past the last page has passed all its bytes.                       *)
LEMMA AlFinal ==
  ASSUME NEW l, NEW d \in Nat, NEW t \in Nat \ {0}, NEW n \in Int,
         l.dir = d, l.tam = t, l.pagina = n, n > (d + t - 1) \div lengthPagina
  PROVE  Hasta(l) = d + t /\ \A a \in Direcciones(l) : a < n * lengthPagina
<1>1. PICK z \in Int : z = n * lengthPagina
  BY Productos
<1>2. PICK a \in Int : a = d + t - 1
  OBVIOUS
<1>3. a \div lengthPagina \in Int /\ a \div lengthPagina < n
  BY <1>2, Division
<1>4. a < n * lengthPagina
  <2>1. a >= n * lengthPagina => a \div lengthPagina >= n
    BY Pagina
  <2> QED BY <1>1, <1>3, <2>1
<1>5. d + t <= z
  BY <1>1, <1>2, <1>4
<1>6. Hasta(l) = IF z <= d THEN d ELSE IF z < d + t THEN z ELSE d + t
  BY <1>1 DEF Hasta
<1>7. Direcciones(l) = d..(d + t - 1)
  BY DEF Direcciones
<1> QED BY <1>1, <1>5, <1>6, <1>7

(* The size of a portion and where it starts.                                *)
LEMMA DePorcion ==
  ASSUME HipotesisHeap, InvTablas, InvPorciones, NEW p \in Programas, NEW k \in DOMAIN vivas[p]
  PROVE  vivas[p][k].dir \in Nat /\ vivas[p][k].tam \in 1..lengthPagina
<1>1. vivas[p][k] \in Porcion
  <2>1. vivas[p] \in Seq(Porcion) /\ DOMAIN vivas[p] = 1..Len(vivas[p])
    BY LenProperties DEF InvTablas, TiposMuse
  <2> QED BY <2>1, ElementOfSeq
<1>2. PICK i \in 1..Len(vivas[p]) : i = k
  BY Vivas
<1>3. vivas[p][i] = [dir |-> tamanio_heap + (i - 1) * Unidad(p), tam |-> Tam(p)]
  BY Vivas
<1>4. vivas[p][k].tam = Tam(p)
  BY <1>2, <1>3
<1> QED BY <1>1, <1>4, Unidades DEF Porcion

LEMMA VeRespuestaAlloc ==
  ASSUME HipotesisHeap, InvTablas, InvPorciones, PorcionesDisjuntas', NEW p \in Programas,
         enviarRespuestaAlloc(p), \A q \in Programas \ {p} : Igual(q)
  PROVE  Memoria!Next
<1>1. PICK nueva : nueva = [dir |-> local[p].dir, tam |-> local[p].tam]
  OBVIOUS
<1>2. /\ mem.caida = "no" /\ pc[p] = "alloc" /\ pc' = [pc EXCEPT ![p] = "libre"] /\ UNCHANGED mem
      /\ vivas' = [vivas EXCEPT ![p] = Append(@, nueva)]
  BY <1>1 DEF enviarRespuestaAlloc, Sigue, Ir
<1>3. pc'[p] = "libre" /\ vivas'[p] = Append(vivas[p], nueva) /\ vivas[p] \in Seq(Porcion)
  BY <1>2 DEF InvTablas, TiposMuse
<1>4. local[p].dir \in Nat /\ local[p].tam \in Nat \ {0}
  <2>1. InvHeap(p) /\ local[p].tam = Tam(p)
    BY <1>2 DEF InvPorciones, InvHeap
  <2> QED BY <2>1, Unidades DEF InvTablas, TiposMuse, EsLocal
<1>5. nueva \in Porcion /\ local[p].dir \in Direcciones(nueva)
  BY <1>1, <1>4 DEF Porcion, Direcciones
<1>6. PICK s \in Seq(Porcion) : s = vivas[p]
  BY <1>3
<1>7. PICK n \in Nat : n = Len(s)
  BY LenProperties
<1>8. /\ DOMAIN s = 1..n /\ DOMAIN vivas'[p] = 1..(n + 1) /\ vivas'[p][n + 1] = nueva
      /\ \A i \in 1..n : vivas'[p][i] = s[i]
  BY <1>3, <1>5, <1>6, <1>7, AppendProperties, LenProperties
<1>9. /\ Porciones(p) = {s[i] : i \in 1..n} /\ Dirs(p) = UNION {Direcciones(s[i]) : i \in 1..n}
  BY <1>2, <1>6, <1>8, DirsDe
<1>10. /\ Porciones(p)' = {vivas'[p][i] : i \in 1..(n + 1)}
       /\ Dirs(p)' = UNION {Direcciones(vivas'[p][i]) : i \in 1..(n + 1)}
  BY <1>3, <1>8, DirsDe
<1>11. PICK w : w = vivas'[p]
  OBVIOUS
<1>12. /\ Porciones(p)' = Porciones(p) \cup {nueva} /\ Dirs(p)' = Dirs(p) \cup Direcciones(nueva)
  <2>1. \A i \in 1..n : i \in 1..(n + 1)
    OBVIOUS
  <2>2. \A i \in 1..(n + 1) : i \in 1..n \/ i = n + 1
    OBVIOUS
  <2>3. n + 1 \in 1..(n + 1)
    OBVIOUS
  <2> QED BY <1>8, <1>9, <1>10, <1>11, <2>1, <2>2, <2>3
<1>13. \A q \in Porciones(p) : Direcciones(q) \cap Direcciones(nueva) = {}
  <2> SUFFICES ASSUME NEW i \in 1..n PROVE Direcciones(s[i]) \cap Direcciones(nueva) = {}
    BY <1>9
  <2>1. i # n + 1 /\ i \in 1..(n + 1) /\ n + 1 \in 1..(n + 1)
    OBVIOUS
  <2>2. \A a \in DOMAIN w, b \in DOMAIN w : a # b => Direcciones(w[a]) \cap Direcciones(w[b]) = {}
    BY <1>11 DEF PorcionesDisjuntas, Direcciones
  <2>3. Direcciones(w[i]) \cap Direcciones(w[n + 1]) = {}
    BY <1>8, <1>11, <2>1, <2>2
  <2> QED BY <1>8, <1>11, <2>3
<1>14. nueva \notin Porciones(p)
  BY <1>5, <1>13
<1>15. DOMAIN BytesVistos(p)' = DOMAIN BytesVistos(p) \cup Direcciones(nueva)
  BY <1>12, BytesDe
<1>16. BytesVistos(p) = [a \in DOMAIN BytesVistos(p) |-> BytesVistos(p)'[a]]
  <2>1. \A a : Visto(p, a)' = Visto(p, a)
    BY <1>2, <1>3, VistoDe
  <2>2. \A a \in Dirs(p) : BytesVistos(p)[a] = Visto(p, a) /\ BytesVistos(p)'[a] = Visto(p, a)'
    BY <1>12, BytesDe
  <2> QED BY <2>1, <2>2, BytesDe
<1>17. Devuelto(p)' = Devuelto(p)
  BY <1>2, <1>3, SinDevuelto
<1> QED BY <1>12, <1>13, <1>14, <1>15, <1>16, <1>17, VistaIgual, VeReservar

LEMMA VeFree ==
  ASSUME Hipotesis, InvTablas, PorcionesDisjuntas, NEW p \in Programas,
         NEW k \in DOMAIN vivas[p], procesarFree(p, k), \A q \in Programas \ {p} : Igual(q),
         \A i \in DOMAIN vivas[p] : \E a : a \in Direcciones(vivas[p][i])
  PROVE  Memoria!Next
<1>1. /\ mem.caida = "no" /\ pc[p] = "libre" /\ UNCHANGED pc /\ MismaMemoria(mem, mem')
      /\ vivas' = [vivas EXCEPT ![p] = RemoveAt(@, k)]
  BY EfectoFree
<1>2. k = Len(vivas[p])
  BY ZenonT(60) DEF procesarFree, Hipotesis
<1>3. vivas'[p] = RemoveAt(vivas[p], k) /\ vivas[p] \in Seq(Porcion)
  BY <1>1 DEF InvTablas, TiposMuse
<1>4. PICK s \in Seq(Porcion) : s = vivas[p]
  BY <1>3
<1>5. k \in Nat /\ k = Len(s) /\ DOMAIN s = 1..k /\ k \in 1..k
  BY <1>2, <1>4, LenProperties
<1>6. /\ Len(vivas'[p]) = k - 1
      /\ \A i \in 1..(k - 1) : vivas'[p][i] = s[i]
  <2>1. SinUno(RemoveAt(s, k), s, k)
    BY <1>5, Quitado
  <2> QED BY <1>3, <1>4, <1>5, <2>1 DEF SinUno
<1>7. DOMAIN vivas'[p] = 1..(k - 1)
  <2>1. vivas'[p] \in Seq(Porcion)
    BY <1>3, <1>4, <1>5, Quitar DEF RemoveAt
  <2> QED BY <1>6, <2>1, LenProperties
<1>8. PICK q : q = s[k]
  OBVIOUS
<1>9. /\ Porciones(p) = {s[i] : i \in 1..k} /\ Dirs(p) = UNION {Direcciones(s[i]) : i \in 1..k}
  BY <1>1, <1>4, <1>5, DirsDe
<1>10. PICK w : w = vivas'[p]
  OBVIOUS
<1>11. /\ Porciones(p)' = {w[i] : i \in 1..(k - 1)}
       /\ Dirs(p)' = UNION {Direcciones(w[i]) : i \in 1..(k - 1)}
  <2>1. pc'[p] # "muerto"
    BY <1>1
  <2>2. /\ Porciones(p)' = {vivas'[p][i] : i \in DOMAIN vivas'[p]}
        /\ Dirs(p)' = UNION {Direcciones(vivas'[p][i]) : i \in DOMAIN vivas'[p]}
    BY <2>1, DirsDe
  <2> QED BY <1>7, <1>10, <2>2
<1>12. \A i \in 1..(k - 1) : w[i] = s[i] /\ i \in 1..k /\ i # k
  BY <1>5, <1>6, <1>10
<1>13. \A i \in 1..k : i \in 1..(k - 1) \/ i = k
  BY <1>5
<1>14. \A i \in 1..k : i # k => Direcciones(s[i]) \cap Direcciones(q) = {}
  BY <1>4, <1>5, <1>8 DEF PorcionesDisjuntas
<1>15. \A i \in 1..k : \E a : a \in Direcciones(s[i])
  BY <1>4, <1>5
<1>16. q \in Porciones(p) /\ Porciones(p)' = Porciones(p) \ {q}
  <2>1. \A i \in 1..k : i # k => s[i] # q
    BY <1>14, <1>15
  <2> QED BY <1>5, <1>8, <1>9, <1>11, <1>12, <1>13, <2>1
<1>17. Dirs(p)' = Dirs(p) \ Direcciones(q)
  BY <1>5, <1>8, <1>9, <1>11, <1>12, <1>13, <1>14
<1>18. BytesVistos(p)' = [a \in DOMAIN BytesVistos(p) \ Direcciones(q) |-> BytesVistos(p)[a]]
  <2>1. \A a : ByteM(mem', p, a) = ByteM(mem, p, a)
    BY <1>1, BytesDeMisma
  <2>2. \A a : Visto(p, a)' = Visto(p, a)
    BY <1>1, <2>1, VistoDe
  <2>3. \A a \in Dirs(p) : BytesVistos(p)[a] = Visto(p, a)
    BY BytesDe
  <2>4. \A a \in Dirs(p)' : BytesVistos(p)'[a] = Visto(p, a)'
    BY BytesDe
  <2> QED BY <1>17, <2>2, <2>3, <2>4, BytesDe
<1>19. Devuelto(p)' = Devuelto(p)
  BY <1>1, SinDevuelto
<1> QED BY <1>16, <1>18, <1>19, VistaIgual, VeLiberar

LEMMA VeDesconectar ==
  ASSUME InvTablas, NEW p \in Programas, Desconectar(p), \A q \in Programas \ {p} : Igual(q)
  PROVE  Memoria!Next
<1>1. pc[p] = "libre" /\ pc'[p] = "muerto"
  BY DEF Desconectar, Sigue, Ir, InvTablas, TiposMuse
<1>2. Porciones(p)' = {} /\ Dirs(p)' = {} /\ Devuelto(p)' = Devuelto(p)
  BY <1>1, DirsDe, SinDevuelto
<1>3. BytesVistos(p)' = <<>>
  <2>1. PICK b : b = BytesVistos(p)'
    OBVIOUS
  <2>2. DOMAIN b = {} /\ b = [a \in {} |-> Visto(p, a)']
    BY <1>2, <2>1, BytesDe
  <2>3. b = [a \in DOMAIN b |-> b[a]]
    BY <2>2
  <2>4. b = <<>>
    BY ONLY <2>2, <2>3, FuncionVacia
  <2> QED BY <2>1, <2>4
<1> QED BY <1>2, <1>3, VistaIgual, VeIrse

(* A copy shows as soon as it has the semaphore; a get, when it has read all *)
(* its pages.                                                                *)
LEMMA VeAcceder ==
  ASSUME HipotesisHeap, InvTablas, InvPorciones, NEW p \in Programas, NEW k \in DOMAIN vivas[p],
         NEW op \in {"get", "copy"}, NEW v \in Valores \cup {Nada}, op = "copy" => v \in Valores,
         Acceder(p, k, op, v), \A q \in Programas \ {p} : Igual(q)
  PROVE  UNCHANGED Memoria!visto \/ Memoria!Next
<1>1. PICK q : q = vivas[p][k]
  OBVIOUS
<1>2. q.dir \in Nat /\ q.tam \in 1..lengthPagina
  BY <1>1, DePorcion
<1>3. q.dir + q.tam <= limiteLogico[p]
  BY <1>1, AccesiblesDeInv DEF PorcionesAccesibles
<1>4. /\ mem.caida = "no" /\ pc[p] = "libre" /\ pc' = [pc EXCEPT ![p] = op]
      /\ local' = [local EXCEPT ![p] = [LocalInicial EXCEPT !.dir = q.dir, !.tam = q.tam, !.dato = v,
                                          !.pagina = q.dir \div lengthPagina]]
      /\ UNCHANGED <<mem, vivas>>
  BY <1>1, <1>3 DEF Acceder, Pide, Ir
<1>5. PICK l : l = local'[p]
  OBVIOUS
<1>6. /\ l.dir = q.dir /\ l.tam = q.tam /\ l.dato = v /\ l.pagina = q.dir \div lengthPagina
      /\ pc'[p] = op
  BY <1>4, <1>5 DEF InvTablas, TiposMuse, LocalInicial
<1>7. CASE op = "get"
  <2>1. PICK d \in Nat, t \in Nat \ {0} : d = q.dir /\ t = q.tam
    BY <1>2, Constantes
  <2>2. ~ (l.pagina > (l.dir + l.tam - 1) \div lengthPagina)
    <3>1. PICK n \in Int, r \in Int : /\ n = d \div lengthPagina
                                      /\ r = (d + t - 1) \div lengthPagina /\ n <= r
      BY Empieza
    <3> QED BY <1>6, <2>1, <3>1
  <2>3. Devuelto(p)' = Nada /\ Devuelto(p) = Nada
    <3>1. Devuelto(p)' = IF pc'[p] = "get" /\ l.pagina > (l.dir + l.tam - 1) \div lengthPagina
                         THEN [j \in 0..(l.tam - 1) |-> l.leido[j + 1]] ELSE Nada
      BY <1>5 DEF Devuelto, UltimaPagina
    <3> QED BY <1>4, <2>2, <3>1, SinDevuelto
  <2>4. UNCHANGED Memoria!visto
    BY <1>4, <1>6, <1>7, <2>3, VeQuieto
  <2> QED BY <2>4
<1>8. CASE op = "copy"
  <2>1. Direcciones(l) = Direcciones(q)
    BY <1>6 DEF Direcciones
  <2>2. v \in Valores
    BY <1>8
  <2>3. /\ Porciones(p) = {vivas[p][i] : i \in DOMAIN vivas[p]}
        /\ Dirs(p) = UNION {Direcciones(vivas[p][i]) : i \in DOMAIN vivas[p]}
    BY <1>4, DirsDe
  <2>4. /\ Porciones(p)' = {vivas'[p][i] : i \in DOMAIN vivas'[p]}
        /\ Dirs(p)' = UNION {Direcciones(vivas'[p][i]) : i \in DOMAIN vivas'[p]}
    BY <1>6, <1>8, DirsDe
  <2>5. q \in Porciones(p) /\ Porciones(p)' = Porciones(p) /\ Dirs(p)' = Dirs(p)
    BY <1>1, <1>4, <2>3, <2>4
  <2>6. Devuelto(p)' = Devuelto(p)
    BY <1>4, <1>6, <1>8, SinDevuelto
  <2>7. \A a \in Dirs(p) : /\ BytesVistos(p)[a] = Visto(p, a)
                           /\ Visto(p, a)' = IF a \in Direcciones(q) THEN Dato(v, a - q.dir)
                                             ELSE Visto(p, a)
    BY <1>4, <1>5, <1>6, <1>8, <2>1, BytesDe, VistoDe
  <2>8. BytesVistos(p)' = [a \in DOMAIN BytesVistos(p) |->
                             IF a \in Direcciones(q) THEN Dato(v, a - q.dir)
                             ELSE BytesVistos(p)[a]]
    <3>1. BytesVistos(p)' = [a \in Dirs(p) |-> Visto(p, a)'] /\ DOMAIN BytesVistos(p) = Dirs(p)
      BY <2>5, BytesDe
    <3> QED BY <2>7, <3>1
  <2> QED BY <2>2, <2>5, <2>6, <2>8, VistaIgual, VeEscribir
<1> QED BY <1>7, <1>8

(* The page fault of a copy changes bytes that the copy already shows; the   *)
(* last one of a get has it hand over what the program sees.                 *)
LEMMA VePageFault ==
  ASSUME HipotesisCaida, InvTablas, InvPorciones, InvCaida, NEW p \in Programas, pageFault(p),
         DeBytes(p), DeBytes(p)', \A q \in Programas \ {p} : Igual(q)
  PROVE  UNCHANGED Memoria!visto \/ Memoria!Next
<1>0. Hipotesis /\ HipotesisHeap
  BY DEF HipotesisCaida, HipotesisHeap
<1>1. /\ pc[p] \in {"get", "copy"} /\ mem.caida = "no" /\ UNCHANGED <<pc, vivas>>
      /\ local'[p].pagina = local[p].pagina + 1
      /\ local'[p].dir = local[p].dir /\ local'[p].tam = local[p].tam
      /\ local'[p].dato = local[p].dato
  BY <1>0, EfectoPageFault
<1>2. EnPorcion(p) /\ (pc[p] = "get" => Leidos(p)')
  BY <1>1 DEF DeBytes
<1>3. PICK i \in DOMAIN vivas[p] : /\ local[p].dir = vivas[p][i].dir /\ local[p].tam = vivas[p][i].tam
                                   /\ Direcciones(local[p]) = Direcciones(vivas[p][i])
  BY <1>2, DeSuPorcion
<1>4. PICK q : q = vivas[p][i]
  OBVIOUS
<1>5. PICK l, r : l = local[p] /\ r = local'[p]
  OBVIOUS
<1>6. PICK d \in Nat, t \in Nat \ {0} : d = q.dir /\ t = q.tam
  BY <1>0, <1>4, DePorcion
<1>7. PICK n \in Int : n = l.pagina
  BY <1>5 DEF InvTablas, TiposMuse, EsLocal
<1>8. /\ l.dir = d /\ l.tam = t /\ r.dir = d /\ r.tam = t /\ r.pagina = n + 1
      /\ Direcciones(l) = Direcciones(q) /\ Direcciones(r) = Direcciones(q)
  BY <1>1, <1>3, <1>4, <1>5, <1>6, <1>7 DEF Direcciones
<1>9. PICK z \in Int : z = (d + t - 1) \div lengthPagina
  BY <1>6, Empieza
<1>10. n <= z
  <2>1. local[p].pagina <= UltimaPagina(p)
    BY ZenonT(60) DEF pageFault
  <2> QED BY <1>5, <1>7, <1>8, <1>9, <2>1 DEF UltimaPagina
<1>11. CASE pc[p] = "copy"
  <2>1. r.dato = l.dato
    BY <1>1, <1>5
  <2>2. ASSUME NEW j \in DOMAIN vivas[p], NEW a \in Direcciones(vivas[p][j])
        PROVE  Visto(p, a)' = Visto(p, a)
    <3>1. CASE a \in Direcciones(q)
      <4>1. Visto(p, a) = Dato(l.dato, a - d)
        BY <1>5, <1>8, <1>11, <3>1, VistoDe
      <4>2. Visto(p, a)' = Dato(r.dato, a - d)
        BY <1>1, <1>5, <1>8, <1>11, <3>1, VistoDe
      <4> QED BY <2>1, <4>1, <4>2
    <3>2. CASE a \notin Direcciones(q)
      <4>1. ByteM(mem', p, a) = ByteM(mem, p, a)
        BY <1>5, <1>8, <1>11, <3>2, BytesDelPageFault
      <4> QED BY <1>5, <1>8, <3>2, <4>1, VistoDe
    <3> QED BY <3>1, <3>2
  <2>3. Porciones(p)' = Porciones(p) /\ BytesVistos(p)' = BytesVistos(p)
    BY <1>1, <1>11, <2>2, VistaSi
  <2>4. Devuelto(p)' = Devuelto(p)
    BY <1>1, <1>11, SinDevuelto
  <2>5. MismaVista(p)
    BY <2>3, <2>4 DEF MismaVista
  <2> QED BY <2>5, VistaIgual, VeNada
<1>12. CASE pc[p] = "get"
  <2>1. \A j \in DOMAIN vivas[p] : \A a \in Direcciones(vivas[p][j]) :
          ByteM(mem', p, a) = ByteM(mem, p, a)
    BY <1>12, BytesDelPageFault
  <2>2. Devuelto(p) = Nada
    <3>1. ~ (n > z)
      BY <1>10
    <3> QED BY <1>5, <1>7, <1>8, <1>9, <3>1 DEF Devuelto, UltimaPagina
  <2>3. Devuelto(p)' = IF n + 1 > z THEN [k \in 0..(t - 1) |-> r.leido[k + 1]] ELSE Nada
    <3>1. Devuelto(p)' = IF pc'[p] = "get" /\ r.pagina > (r.dir + r.tam - 1) \div lengthPagina
                         THEN [k \in 0..(r.tam - 1) |-> r.leido[k + 1]] ELSE Nada
      BY <1>5 DEF Devuelto, UltimaPagina
    <3> QED BY <1>1, <1>8, <1>9, <1>12, <3>1
  <2>4. CASE ~ (n + 1 > z)
    <3>1. Devuelto(p)' = Devuelto(p)
      BY <2>2, <2>3, <2>4
    <3> QED BY <1>1, <1>12, <2>1, <3>1, VeQuieto
  <2>5. CASE n + 1 > z
    <3>1. q \in Porciones(p) /\ \A a \in Direcciones(q) : a \in Dirs(p)
      BY <1>4, <1>12, DirsDe
    <3>2. \A j \in DOMAIN vivas[p] : \A a \in Direcciones(vivas[p][j]) : Visto(p, a)' = Visto(p, a)
      BY <1>1, <1>12, <2>1, VistoDe
    <3>3. Porciones(p)' = Porciones(p) /\ BytesVistos(p)' = BytesVistos(p)
      BY <1>1, <1>12, <3>2, VistaSi
    <3>4. Hasta(r) = d + t
      BY <1>8, <1>9, <2>5, AlFinal
    <3>5. /\ Len(r.leido) = Hasta(r) - d
          /\ \A k \in 1..Len(r.leido) : r.leido[k] = ByteM(mem', p, d + (k - 1))
      BY <1>2, <1>5, <1>8, <1>12 DEF Leidos
    <3>6. Len(r.leido) = t
      BY <3>4, <3>5
    <3>7. ASSUME NEW k \in 0..(t - 1) PROVE r.leido[k + 1] = BytesVistos(p)[d + k]
      <4>1. k + 1 \in 1..t /\ d + ((k + 1) - 1) = d + k
        OBVIOUS
      <4>2. d + k \in Direcciones(q)
        BY <1>6 DEF Direcciones
      <4>3. r.leido[k + 1] = ByteM(mem', p, d + k)
        BY <3>5, <3>6, <4>1
      <4>4. ByteM(mem', p, d + k) = ByteM(mem, p, d + k)
        BY <1>4, <2>1, <4>2
      <4>5. BytesVistos(p)[d + k] = Visto(p, d + k)
        BY <3>1, <4>2, BytesDe
      <4>6. Visto(p, d + k) = ByteM(mem, p, d + k)
        BY <1>12, VistoDe
      <4> QED BY <4>3, <4>4, <4>5, <4>6
    <3>8. Devuelto(p)' = [k \in 0..(q.tam - 1) |-> BytesVistos(p)[q.dir + k]]
      BY <1>6, <2>3, <2>5, <3>7
    <3>9. Memoria!Next
      BY <2>2, <3>1, <3>3, <3>8, VistaIgual, VeLeer
    <3> QED BY <3>9
  <2> QED BY <2>4, <2>5
<1> QED BY <1>1, <1>11, <1>12

(* The end of a copy changes nothing that shows, and that of a get takes     *)
(* back what it handed over.                                                 *)
LEMMA VeRespuesta ==
  ASSUME HipotesisHeap, InvTablas, InvPorciones, InvCaida, NEW p \in Programas, enviarRespuesta(p),
         DeBytes(p), \A q \in Programas \ {p} : Igual(q)
  PROVE  UNCHANGED Memoria!visto \/ Memoria!Next
<1>1. /\ mem.caida = "no" /\ pc[p] \in {"get", "copy"} /\ local[p].pagina > UltimaPagina(p)
      /\ pc' = [pc EXCEPT ![p] = "libre"] /\ UNCHANGED <<mem, vivas>>
  BY DEF enviarRespuesta, Ir
<1>2. pc'[p] = "libre" /\ vivas'[p] = vivas[p]
  BY <1>1 DEF InvTablas, TiposMuse
<1>3. EnPorcion(p) /\ (pc[p] = "get" => Leidos(p)) /\ (pc[p] = "copy" => Copiados(p))
  BY <1>1 DEF DeBytes
<1>4. PICK i \in DOMAIN vivas[p] : /\ local[p].dir = vivas[p][i].dir /\ local[p].tam = vivas[p][i].tam
                                   /\ Direcciones(local[p]) = Direcciones(vivas[p][i])
  BY <1>3, DeSuPorcion
<1>5. PICK l : l = local[p]
  OBVIOUS
<1>6. PICK d \in Nat, t \in Nat \ {0} : d = l.dir /\ t = l.tam /\ t \in 1..lengthPagina
  <2>1. l.dir \in Nat /\ l.tam \in 1..lengthPagina
    BY <1>4, <1>5, DePorcion
  <2> QED BY <2>1, Constantes
<1>7. PICK n \in Int : n = l.pagina
  BY <1>5 DEF InvTablas, TiposMuse, EsLocal
<1>8. n > (d + t - 1) \div lengthPagina
  BY <1>1, <1>5, <1>6, <1>7 DEF UltimaPagina
<1>9. Hasta(l) = d + t /\ \A a \in Direcciones(l) : a < n * lengthPagina
  BY <1>6, <1>7, <1>8, AlFinal
<1>10. ASSUME NEW a PROVE Visto(p, a)' = Visto(p, a)
  <2>1. Visto(p, a)' = ByteM(mem, p, a)
    <3>1. Visto(p, a)' = ByteM(mem', p, a)
      BY <1>2, VistoDe
    <3>2. mem' = mem
      BY <1>1
    <3> QED BY <3>1, <3>2
  <2>2. CASE pc[p] = "copy" /\ a \in Direcciones(l)
    <3>1. Visto(p, a) = Dato(l.dato, a - l.dir)
      BY <1>5, <2>2, VistoDe
    <3>2. ByteM(mem, p, a) = Dato(l.dato, a - l.dir)
      BY <1>3, <1>5, <1>7, <1>9, <2>2 DEF Copiados
    <3> QED BY <2>1, <3>1, <3>2
  <2>3. CASE pc[p] # "copy" \/ a \notin Direcciones(l)
    BY <1>5, <2>1, <2>3, VistoDe
  <2> QED BY <2>2, <2>3
<1>11. Porciones(p)' = Porciones(p) /\ BytesVistos(p)' = BytesVistos(p)
  BY <1>1, <1>2, <1>10, VistaSi
<1>12. Devuelto(p)' = Nada
  BY <1>2, SinDevuelto
<1>13. CASE pc[p] = "copy"
  <2>1. Devuelto(p)' = Devuelto(p)
    BY <1>12, <1>13, SinDevuelto
  <2>2. MismaVista(p)
    BY <1>11, <2>1 DEF MismaVista
  <2> QED BY <2>2, VistaIgual, VeNada
<1>14. CASE pc[p] = "get"
  <2>1. Devuelto(p) = [k \in 0..(t - 1) |-> l.leido[k + 1]]
    BY <1>1, <1>5, <1>6, <1>14 DEF Devuelto
  <2>2. Len(l.leido) = t
    <3>1. Len(l.leido) = Hasta(l) - d
      BY <1>3, <1>5, <1>6, <1>14 DEF Leidos
    <3> QED BY <1>9, <3>1
  <2>3. l.leido \in Seq(Byte)
    BY <1>5 DEF InvCaida, Completo
  <2>4. ASSUME NEW k \in 0..(t - 1) PROVE l.leido[k + 1] \in Byte
    <3>1. k + 1 \in 1..Len(l.leido)
      BY <2>2
    <3> QED BY <2>3, <3>1, ElementOfSeq
  <2>5. Devuelto(p) \in [0..(t - 1) -> Byte]
    BY <2>1, <2>4
  <2>6. Devuelto(p) # Nada
    BY <1>6, <2>5, NadaAssumption
  <2>7. Memoria!Next
    BY <1>11, <1>12, <2>6, VistaIgual, VeEntregar
  <2> QED BY <2>7
<1> QED BY <1>1, <1>13, <1>14

(* A step of a request that shows nothing: the tables may move, the bytes    *)
(* stay.                                                                     *)
LEMMA VeTrabajar ==
  ASSUME HipotesisHeap, InvTablas, InvPorciones, NEW p \in Programas,
         InicializarNuevoPrograma(p) \/ (\E tam \in Tamanios[p] : procesarAlloc(p, tam))
           \/ allocarEnPaginasNuevas(p),
         \A q \in Programas \ {p} : Igual(q)
  PROVE  UNCHANGED Memoria!visto
<1>0. Hipotesis
  BY DEF HipotesisHeap
<1>1. ASSUME pc[p] \in {"fuera", "libre", "alloc"}, pc'[p] \in {"libre", "alloc"},
             vivas'[p] = vivas[p],
             \A i \in DOMAIN vivas[p] : \A a \in Direcciones(vivas[p][i]) :
               ByteM(mem', p, a) = ByteM(mem, p, a)
      PROVE  UNCHANGED Memoria!visto
  <2>1. Devuelto(p)' = Devuelto(p)
    BY <1>1, SinDevuelto
  <2> QED BY <1>1, <2>1, VeQuieto
<1>2. CASE InicializarNuevoPrograma(p) \/ (\E tam \in Tamanios[p] : procesarAlloc(p, tam))
  <2>1. MismaMemoria(mem, mem')
    BY <1>0, <1>2, Misma DEF Callado
  <2>2. /\ pc[p] \in {"fuera", "libre"} /\ UNCHANGED vivas
        /\ \E d \in {"libre", "alloc"} : pc' = [pc EXCEPT ![p] = d]
    BY <1>2, ZenonT(60) DEF InicializarNuevoPrograma, procesarAlloc, Pide, Ir
  <2>3. pc'[p] \in {"libre", "alloc"}
    BY <2>2 DEF InvTablas, TiposMuse
  <2> QED BY <1>1, <2>1, <2>2, <2>3, BytesDeMisma
<1>3. CASE allocarEnPaginasNuevas(p)
  <2>1. /\ EsMem(mem') /\ Coherente(mem', Nada) /\ UNCHANGED <<pc, vivas>>
        /\ MismaMemoria(mem, mem') \/ /\ MismosBytes(mem, mem', Nada)
                                      /\ Len(mem'.tablaPaginas[p]) = Len(mem.tablaPaginas[p]) + 1
        /\ \A r \in Programas \ {p} : Len(mem'.tablaPaginas[r]) = Len(mem.tablaPaginas[r])
        /\ pc[p] = "alloc"
    BY <1>0, <1>3, EfectoAgregar
  <2>2. CASE MismaMemoria(mem, mem')
    BY <1>1, <2>1, <2>2, BytesDeMisma
  <2>3. CASE /\ MismosBytes(mem, mem', Nada)
             /\ Len(mem'.tablaPaginas[p]) = Len(mem.tablaPaginas[p]) + 1
    <3>1. \A r \in Programas : Len(mem'.tablaPaginas[r]) >= Len(mem.tablaPaginas[r])
      <4>1. \A r \in Programas : Len(mem.tablaPaginas[r]) \in Nat
        BY Partes DEF InvTablas, TiposMuse
      <4> QED BY <2>1, <2>3, <4>1
    <3>2. ~ Terminando
      BY <2>1, Constantes DEF InvTablas, Semaforo, Trabajo
    <3>3. ASSUME NEW i \in DOMAIN vivas[p], NEW a \in Direcciones(vivas[p][i])
          PROVE  ByteM(mem', p, a) = ByteM(mem, p, a)
      <4>1. <<p, a \div lengthPagina>> \in Entrada
        BY EnPaginas DEF Entrada
      <4>2. <<p, a \div lengthPagina>> # Nada
        BY <4>1, Constantes
      <4> QED BY <2>1, <2>3, <3>1, <3>2, <4>2, Quietas
    <3> QED BY <1>1, <2>1, <3>3
  <2> QED BY <2>1, <2>2, <2>3
<1> QED BY <1>2, <1>3

LEMMA VePaso ==
  ASSUME HipotesisCaida, InvTablas, InvPorciones, InvCaida, InvBytes, PorcionesDisjuntas,
         InvTablas', InvBytes', PorcionesDisjuntas', [Next]_vars
  PROVE  UNCHANGED Memoria!visto \/ Memoria!Next
<1>0. Hipotesis /\ HipotesisHeap
  BY DEF HipotesisCaida, HipotesisHeap
<1>1. CASE UNCHANGED vars
  BY <1>1 DEF vars, Memoria!visto, Porciones, BytesVistos, ByteEn, Devuelto, UltimaPagina
<1>2. ASSUME NEW p \in Programas, Servir(p) \/ Pedir(p)
      PROVE  UNCHANGED Memoria!visto \/ Memoria!Next
  <2>1. \A q \in Programas \ {p} : Igual(q)
    BY <1>2, LosOtros DEF InvBytes
  <2>2. DeBytes(p) /\ DeBytes(p)'
    BY DEF InvBytes
  <2>3. CASE InicializarNuevoPrograma(p) \/ (\E tam \in Tamanios[p] : procesarAlloc(p, tam))
               \/ allocarEnPaginasNuevas(p)
    BY <1>0, <2>1, <2>3, VeTrabajar
  <2>4. CASE enviarRespuestaAlloc(p)
    BY <1>0, <2>1, <2>4, VeRespuestaAlloc
  <2>5. CASE pageFault(p)
    BY <2>1, <2>2, <2>5, VePageFault
  <2>6. CASE enviarRespuesta(p)
    BY <1>0, <2>1, <2>2, <2>6, VeRespuesta
  <2>7. CASE FinalizarPrograma(p) \/ destruirPagina(p) \/ destruirSegmento(p)
    <3>1. SinPorciones /\ SinPorciones' /\ g_mutexPaginas = Nada /\ g_mutexPaginas' = Nada
      BY <1>0, <2>7, BytesAlCerrar DEF InvBytes
    <3>2. Semaforo /\ Semaforo'
      BY DEF InvTablas
    <3> QED BY <3>1, <3>2, VeCerrar
  <2>8. CASE Desconectar(p)
    BY <2>1, <2>8, VeDesconectar
  <2>9. ASSUME NEW k \in DOMAIN vivas[p], procesarFree(p, k)
        PROVE  UNCHANGED Memoria!visto \/ Memoria!Next
    <3>1. ASSUME NEW i \in DOMAIN vivas[p] PROVE \E a : a \in Direcciones(vivas[p][i])
      <4>1. PICK d \in Nat, t \in 1..lengthPagina : d = vivas[p][i].dir /\ t = vivas[p][i].tam
        BY <1>0, DePorcion
      <4>2. d \in d..(d + t - 1)
        BY Constantes
      <4>3. d \in Direcciones(vivas[p][i])
        BY <4>1, <4>2 DEF Direcciones
      <4> QED BY <4>3
    <3> QED BY <1>0, <2>1, <2>9, <3>1, VeFree
  <2>10. ASSUME NEW k \in DOMAIN vivas[p],
                procesarGet(p, k) \/ \E v \in Valores : procesarCopy(p, k, v)
         PROVE  UNCHANGED Memoria!visto \/ Memoria!Next
    <3>1. PICK op \in {"get", "copy"}, v \in Valores \cup {Nada} :
            Acceder(p, k, op, v) /\ (op = "copy" => v \in Valores)
      BY <2>10 DEF procesarGet, procesarCopy
    <3> QED BY <1>0, <2>1, <3>1, VeAcceder
  <2> QED BY ONLY <1>2, <2>3, <2>4, <2>5, <2>6, <2>7, <2>8, <2>9, <2>10 DEF Servir, Pedir
<1> QED BY <1>1, <1>2 DEF Next

LEMMA VeInicio ==
  ASSUME Init
  PROVE  Memoria!Init
<1>1. \A p \in Programas : pc[p] = "fuera" /\ DOMAIN vivas[p] = {}
  BY DEF Init
<1>2. \A p \in Programas : Porciones(p) = {} /\ Dirs(p) = {} /\ Devuelto(p) = Nada
  BY <1>1, DirsDe, SinDevuelto
<1>3. ASSUME NEW p \in Programas PROVE BytesVistos(p) = <<>>
  <2>1. PICK b : b = BytesVistos(p)
    OBVIOUS
  <2>2. DOMAIN b = {} /\ b = [a \in {} |-> Visto(p, a)]
    BY <1>2, <2>1, BytesDe
  <2>3. b = [a \in DOMAIN b |-> b[a]]
    BY <2>2
  <2>4. b = <<>>
    BY ONLY <2>2, <2>3, FuncionVacia
  <2> QED BY <2>1, <2>4
<1> QED BY <1>2, <1>3 DEF Memoria!Init

(* With pages no larger than a header, prudent programs of one size each see *)
(* disjoint portions that keep what was copied into them, whichever pages    *)
(* are out and whatever other such programs do: the server,                  *)
(* with its frames, its swap and its clock, does no more than MemoriaMuse    *)
(* allows.  A copy shows when it takes the semaphore and a get when it has   *)
(* read its last page; every other step of copiarContenidoAFrames,           *)
(* copiarContenidoDeFrames and the allocator stutters.                       *)
THEOREM ImplementaMemoriaTheorem == HipotesisCaida => (Spec => ImplementaMemoria)
<1> SUFFICES ASSUME HipotesisCaida PROVE Spec => ImplementaMemoria
  OBVIOUS
<1> DEFINE Inv == InvTablas /\ InvPorciones /\ InvCaida /\ InvBytes
<1>0. Hipotesis /\ HipotesisHeap
  BY DEF HipotesisCaida, HipotesisHeap
<1>1. Init => Inv /\ Memoria!Init
  BY <1>0, Inicio, PorcionesInicio, CaidaInicio, BytesInicio, VeInicio
<1>2. Inv /\ [Next]_vars => Inv'
  BY <1>0, Paso, PorcionesPaso, CaidaPaso, BytesPaso
<1>3. Inv => PorcionesDisjuntas
  BY <1>0, DisjuntasDeInv
<1>4. Inv /\ PorcionesDisjuntas /\ Inv' /\ PorcionesDisjuntas' /\ [Next]_vars
        => [Memoria!Next]_(Memoria!visto)
  BY VePaso
<1> HIDE DEF Inv
<1> QED BY <1>1, <1>2, <1>3, <1>4, PTL DEF Spec, ImplementaMemoria, Memoria!Spec
===============================================================================
