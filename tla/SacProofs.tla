------------------------------- MODULE SacProofs -------------------------------
(***************************************************************************)
(* Proofs of what SacVista states of the blocks of SAC, for any table of    *)
(* nodes, any size of disk and of block, any number of pointers and any     *)
(* requests, while one thread is served at a time (UnHilo) and its users do *)
(* not ask for more than there is (HayLugar).                               *)
(***************************************************************************)
EXTENDS SacVista, LemasComunes

(* Between the search of a free block and its bit there is no lock. *)
UnHilo == \A t, u \in Hilos : t = u

(* A table that is full, a disk that is full and a file that is longer than  *)
(* its pointers reach are not refused by the server.                         *)
HayLugar == {"nodos", "espacio", "maximo"} \subseteq Promesas

-------------------------------------------------------------------------------
(* The inductive invariant *)

Local ==
  [nodo : Nat, padre : Nat, nuevo : Bloque, faltan : Nat, dentro : 0..PTRBYINDIRECT,
   indir : -1..BLKINDIRECT]

TiposS ==
  /\ tabla \in [Nodo -> GFile]
  /\ blk_indirect \in [Nodo -> [0..(BLKINDIRECT - 1) -> Bloque]]
  /\ bitmap \subseteq Bloque
  /\ disco \in [Bloque -> [0..(PTRBYINDIRECT - 1) -> Celda]]
  /\ pc \in [Hilos -> Punto]
  /\ pedido \in [Hilos -> Pedidos \cup {Nada}]
  /\ local \in [Hilos -> Local]
  /\ respuesta \in [Hilos -> Respuesta \cup {Nada}]

(* The data blocks that the handler is to leave. *)
Final(t) == get_occupied_datablocks_qty(Pedida(t))
MaxDatablocks == BLKINDIRECT * PTRBYINDIRECT
Techo(d) == (d + PTRBYINDIRECT - 1) \div PTRBYINDIRECT

(* What the node n holds by its size. *)
Ocupa(n) ==
  IF tabla[n].state = 1 THEN get_occupied_datablocks_qty(tabla[n].file_size) ELSE 0

Reservando == {"reservar", "indirecto", "buscar", "datablock"}

(* The request each point of a handler serves, and the node it has found.    *)
InvPunto(t) ==
  LET op == pedido[t].op
      n == local[t].nodo
  IN /\ pc[t] = "libre" <=> pedido[t] = Nada
     /\ pc[t] = "contestado" <=> respuesta[t] # Nada
     /\ pc[t] \in {"libre", "recibido"} => local[t] = LocalInicial
     /\ pc[t] = "recibido" => KernelPermite(pedido[t])
     /\ pc[t] = "ocupar" => op \in {"SAC_mknod", "SAC_mkdir"} /\ n \in Nodo /\ tabla[n].state = 0
     /\ pc[t] \in Reservando => op \in {"SAC_write", "SAC_truncate"}
     /\ pc[t] \in {"escribir", "agrandar"} => op = "SAC_write"
     /\ pc[t] = "escribir" => n \in Nodo /\ tabla[n].state = 1 /\ Pedida(t) <= tabla[n].file_size
     /\ pc[t] = "cortar" => op = "SAC_truncate"
     /\ pc[t] = "liberar" => op \in {"SAC_unlink", "SAC_truncate"}
     /\ pc[t] \in EnBloques => /\ n \in Nodo
                               /\ tabla[n].state = IF op = "SAC_unlink" THEN 0 ELSE 1
     /\ pc[t] \in {"agrandar", "cortar"} => local[t].faltan = 0
     /\ pc[t] = "liberado" => op = "SAC_unlink"

(* Where a loop is: the counters it keeps give its next block, or its last.  *)
Reservados(t) == Final(t) - local[t].faltan
InvReserva(t) ==
  LET l == local[t]
      d == Reservados(t)
  IN /\ pc[t] \in EnBloques => Final(t) <= MaxDatablocks
     /\ pc[t] \in Reservando => l.faltan \in 1..Final(t)
     /\ pc[t] \in {"reservar", "indirecto"} =>
          \/ d = 0 /\ l.dentro = 0 /\ l.indir = 0
          \/ l.indir >= 1 /\ l.dentro >= 1 /\ d = (l.indir - 1) * PTRBYINDIRECT + l.dentro
     /\ pc[t] = "indirecto" => l.dentro \in {0, PTRBYINDIRECT}
     /\ pc[t] \in {"buscar", "datablock"} =>
          /\ l.indir >= 1 /\ l.dentro < PTRBYINDIRECT
          /\ d = (l.indir - 1) * PTRBYINDIRECT + l.dentro
     /\ pc[t] = "buscar" => l.dentro = 0
     /\ pc[t] \in {"indirecto", "datablock"} => l.nuevo \notin bitmap

InvLiberacion(t) ==
  LET l == local[t] IN
  pc[t] = "liberar" =>
    /\ l.faltan >= 1 /\ Final(t) + l.faltan <= MaxDatablocks
    /\ l.indir >= 0 /\ l.dentro < PTRBYINDIRECT
    /\ Final(t) + l.faltan - 1 = l.indir * PTRBYINDIRECT + l.dentro

(* What reservarBloques still takes is free. *)
IndirectosHechos(t) ==
  Techo(IF pc[t] \in {"buscar", "datablock"} THEN Reservados(t) + 1 ELSE Reservados(t))
InvEspacio(t) ==
  pc[t] \in Reservando =>
    get_free_blocks >= local[t].faltan + Techo(Final(t)) - IndirectosHechos(t)

InvTamanio == \A n \in Nodo : Ocupa(n) <= MaxDatablocks

InvarianteS ==
  /\ TiposS /\ InvTamanio /\ DuenioUnico /\ BitmapExacto
  /\ \A t \in Hilos : InvPunto(t) /\ InvReserva(t) /\ InvLiberacion(t) /\ InvEspacio(t)

-------------------------------------------------------------------------------
(* Constants and arithmetic *)

LEMMA Constantes ==
  /\ PTRBYINDIRECT \in Nat \ {0} /\ BLKINDIRECT \in Nat \ {0} /\ GFILEBYTABLE \in Nat \ {0}
  /\ PrimerBloqueLibre \in Nat \ {0} /\ g_node_table_block_index \in Nat \ {0, 1}
  /\ g_block_count \in Nat /\ g_block_count > PrimerBloqueLibre
  /\ Nodo \subseteq Nat /\ IsFiniteSet(Nodo)
  /\ Bloque \subseteq Nat /\ IsFiniteSet(Bloque) /\ 0 \in Bloque
  /\ 0..(PrimerBloqueLibre - 1) \subseteq Bloque /\ Bloque \subseteq Celda /\ Datos \subseteq Celda
  /\ Basura \in Celda
<1>1. IsFiniteSet(Nodo) /\ IsFiniteSet(Bloque)
  BY SacAssumption, FS_Interval DEF Nodo, Bloque
<1> QED BY <1>1, SacAssumption
        DEF PrimerBloqueLibre, g_node_table_block_index, Nodo, Bloque, Celda

LEMMA Division ==
  ASSUME NEW a \in Nat
  PROVE  /\ a \div PTRBYINDIRECT \in Nat /\ a % PTRBYINDIRECT \in 0..(PTRBYINDIRECT - 1)
         /\ a = (a \div PTRBYINDIRECT) * PTRBYINDIRECT + (a % PTRBYINDIRECT)
BY Constantes

LEMMA Productos ==
  ASSUME NEW i \in Int, NEW j \in Int
  PROVE  /\ i * PTRBYINDIRECT \in Int
         /\ i < j => i * PTRBYINDIRECT + PTRBYINDIRECT <= j * PTRBYINDIRECT
         /\ i <= j => i * PTRBYINDIRECT <= j * PTRBYINDIRECT
         /\ (i + j) * PTRBYINDIRECT = i * PTRBYINDIRECT + j * PTRBYINDIRECT
<1>1. PTRBYINDIRECT \in Nat /\ PTRBYINDIRECT > 0
  BY Constantes
<1>2. ASSUME i < j PROVE i * PTRBYINDIRECT + PTRBYINDIRECT <= j * PTRBYINDIRECT
  <2>1. (j - i - 1) * PTRBYINDIRECT >= 0
    BY <1>1, <1>2
  <2>2. j * PTRBYINDIRECT = i * PTRBYINDIRECT + PTRBYINDIRECT + (j - i - 1) * PTRBYINDIRECT
    BY <1>1
  <2>3. i * PTRBYINDIRECT \in Int /\ j * PTRBYINDIRECT \in Int /\ (j - i - 1) * PTRBYINDIRECT \in Int
    BY <1>1
  <2> QED BY <1>1, <2>1, <2>2, <2>3
<1>3. i * PTRBYINDIRECT \in Int /\ j * PTRBYINDIRECT \in Int
  BY <1>1
<1>4. i <= j => i * PTRBYINDIRECT <= j * PTRBYINDIRECT
  BY <1>1, <1>2, <1>3
<1>5. (i + j) * PTRBYINDIRECT = i * PTRBYINDIRECT + j * PTRBYINDIRECT
  BY <1>1
<1> QED BY <1>2, <1>3, <1>4, <1>5

(* A block and a position within it. *)
LEMMA Cociente ==
  ASSUME NEW q \in Nat, NEW r \in 0..(PTRBYINDIRECT - 1)
  PROVE  /\ q * PTRBYINDIRECT + r \in Nat
         /\ (q * PTRBYINDIRECT + r) \div PTRBYINDIRECT = q
         /\ (q * PTRBYINDIRECT + r) % PTRBYINDIRECT = r
<1>1. PTRBYINDIRECT \in Nat /\ PTRBYINDIRECT > 0
  BY Constantes
<1>2. q * PTRBYINDIRECT \in Nat
  BY <1>1
<1> DEFINE a == q * PTRBYINDIRECT + r
           c == a \div PTRBYINDIRECT
           s == a % PTRBYINDIRECT
<1>3. a \in Nat
  BY <1>1, <1>2
<1>4. c \in Nat /\ s \in 0..(PTRBYINDIRECT - 1) /\ a = c * PTRBYINDIRECT + s
  BY <1>3, Division
<1> HIDE DEF c, s
<1>5. c * PTRBYINDIRECT \in Int /\ q * PTRBYINDIRECT \in Int
  BY <1>4, Productos
<1>6. ~ (c < q)
  <2> SUFFICES ASSUME c < q PROVE FALSE
    OBVIOUS
  <2>1. c * PTRBYINDIRECT + PTRBYINDIRECT <= q * PTRBYINDIRECT
    BY <1>4, Productos
  <2> QED BY <1>1, <1>4, <1>5, <2>1
<1>7. ~ (q < c)
  <2> SUFFICES ASSUME q < c PROVE FALSE
    OBVIOUS
  <2>1. q * PTRBYINDIRECT + PTRBYINDIRECT <= c * PTRBYINDIRECT
    BY <1>4, Productos
  <2> QED BY <1>1, <1>4, <1>5, <2>1
<1>8. c = q
  BY <1>4, <1>6, <1>7
<1>9. s = r
  BY <1>1, <1>2, <1>4, <1>5, <1>8
<1> QED BY <1>3, <1>8, <1>9 DEF c, s

(* The number of blocks that d cells or blocks take. *)
LEMMA TechoDe ==
  /\ Techo(0) = 0
  /\ \A d \in Nat \ {0} : /\ Techo(d) = ((d - 1) \div PTRBYINDIRECT) + 1
                          /\ Techo(d) \in Nat \ {0}
<1>1. PTRBYINDIRECT \in Nat /\ PTRBYINDIRECT > 0
  BY Constantes
<1>2. Techo(0) = 0
  <2>1. 0 * PTRBYINDIRECT + (PTRBYINDIRECT - 1) = 0 + PTRBYINDIRECT - 1
    BY <1>1
  <2>2. PTRBYINDIRECT - 1 \in 0..(PTRBYINDIRECT - 1)
    BY <1>1
  <2> QED BY <2>1, <2>2, Cociente DEF Techo
<1>3. ASSUME NEW d \in Nat \ {0}
      PROVE  Techo(d) = ((d - 1) \div PTRBYINDIRECT) + 1 /\ Techo(d) \in Nat \ {0}
  <2> DEFINE q == (d - 1) \div PTRBYINDIRECT
             r == (d - 1) % PTRBYINDIRECT
  <2>1. d - 1 \in Nat
    OBVIOUS
  <2>2. q \in Nat /\ r \in 0..(PTRBYINDIRECT - 1) /\ d - 1 = q * PTRBYINDIRECT + r
    BY <2>1, Division
  <2> HIDE DEF q, r
  <2>3. (q + 1) * PTRBYINDIRECT = q * PTRBYINDIRECT + PTRBYINDIRECT
    BY <1>1, <2>2
  <2>4. q * PTRBYINDIRECT \in Int
    BY <2>2, Productos
  <2>5. d + PTRBYINDIRECT - 1 = (q + 1) * PTRBYINDIRECT + r
    BY <1>1, <2>2, <2>3, <2>4
  <2>6. Techo(d) = q + 1
    BY <2>2, <2>5, Cociente DEF Techo
  <2> QED BY <2>2, <2>6 DEF q
<1> QED BY <1>2, <1>3

LEMMA TechoEn ==
  ASSUME NEW i \in Nat, NEW j \in 1..PTRBYINDIRECT
  PROVE  Techo(i * PTRBYINDIRECT + j) = i + 1 /\ i * PTRBYINDIRECT + j \in Nat \ {0}
<1>1. PTRBYINDIRECT \in Nat /\ PTRBYINDIRECT > 0
  BY Constantes
<1>2. i * PTRBYINDIRECT \in Nat
  BY <1>1
<1>3. (i * PTRBYINDIRECT + j) - 1 = i * PTRBYINDIRECT + (j - 1) /\ j - 1 \in 0..(PTRBYINDIRECT - 1)
  BY <1>1, <1>2
<1>4. i * PTRBYINDIRECT + j \in Nat \ {0}
  BY <1>1, <1>2
<1> QED BY <1>3, <1>4, Cociente, TechoDe

LEMMA TechoMultiplo ==
  ASSUME NEW i \in Nat
  PROVE  Techo(i * PTRBYINDIRECT) = i
<1>1. PTRBYINDIRECT \in Nat /\ PTRBYINDIRECT > 0 /\ PTRBYINDIRECT \in 1..PTRBYINDIRECT
  BY Constantes
<1>2. CASE i = 0
  BY <1>1, <1>2, TechoDe
<1>3. CASE i # 0
  <2>1. i - 1 \in Nat /\ i * PTRBYINDIRECT = (i - 1) * PTRBYINDIRECT + PTRBYINDIRECT
    BY <1>1, <1>3
  <2>2. Techo((i - 1) * PTRBYINDIRECT + PTRBYINDIRECT) = (i - 1) + 1
    BY <1>1, <2>1, TechoEn
  <2>3. Techo(i * PTRBYINDIRECT) = (i - 1) + 1
    BY <2>1, <2>2, Zenon
  <2> QED BY <2>3
<1> QED BY <1>2, <1>3

LEMMA TechoOrden ==
  ASSUME NEW d \in Nat, NEW k \in Nat
  PROVE  /\ Techo(d) \in Nat
         /\ d <= k * PTRBYINDIRECT <=> Techo(d) <= k
<1>1. PTRBYINDIRECT \in Nat /\ PTRBYINDIRECT > 0
  BY Constantes
<1>2. CASE d = 0
  <2>1. 0 <= k * PTRBYINDIRECT
    BY <1>1
  <2>2. Techo(d) = 0
    BY <1>2, TechoDe
  <2> QED BY <1>2, <2>1, <2>2
<1>3. CASE d # 0
  <2> DEFINE q == (d - 1) \div PTRBYINDIRECT
             r == (d - 1) % PTRBYINDIRECT
  <2>1. d - 1 \in Nat
    BY <1>3
  <2>2. q \in Nat /\ r \in 0..(PTRBYINDIRECT - 1) /\ d - 1 = q * PTRBYINDIRECT + r
    BY <2>1, Division
  <2>3. Techo(d) = q + 1
    BY <1>3, TechoDe
  <2> HIDE DEF q, r
  <2>4. q * PTRBYINDIRECT \in Int /\ k * PTRBYINDIRECT \in Int
    BY <2>2, Productos
  <2>5. q < k => q * PTRBYINDIRECT + PTRBYINDIRECT <= k * PTRBYINDIRECT
    BY <2>2, Productos
  <2>6. k <= q => k * PTRBYINDIRECT <= q * PTRBYINDIRECT
    BY <2>2, Productos
  <2> QED BY <1>1, <2>2, <2>3, <2>4, <2>5, <2>6
<1> QED BY <1>2, <1>3

LEMMA TechoCrece ==
  ASSUME NEW d \in Nat, NEW e \in Nat, d <= e
  PROVE  Techo(d) \in Nat /\ Techo(e) \in Nat /\ Techo(d) <= Techo(e)
<1>1. Techo(d) \in Nat /\ Techo(e) \in Nat
  BY TechoOrden
<1>2. e <= Techo(e) * PTRBYINDIRECT
  BY <1>1, TechoOrden
<1>3. Techo(e) * PTRBYINDIRECT \in Int
  BY <1>1, Productos
<1>4. d <= Techo(e) * PTRBYINDIRECT
  BY <1>2, <1>3
<1> QED BY <1>1, <1>4, TechoOrden

(* The blocks of a size are its number of cells in blocks, twice over. *)
LEMMA Cantidades ==
  ASSUME NEW s \in Nat
  PROVE  /\ get_occupied_datablocks_qty(s) = Techo(s) /\ Techo(s) \in Nat
         /\ get_occupied_ind_blocks_qty(s) = Techo(Techo(s)) /\ Techo(Techo(s)) \in Nat
         /\ get_occupied_total_blocks_qty(s) = Techo(s) + Techo(Techo(s))
<1>1. Techo(s) \in Nat /\ Techo(Techo(s)) \in Nat
  BY TechoOrden
<1>2. CASE s = 0
  BY <1>1, <1>2, TechoDe
     DEF get_occupied_datablocks_qty, get_occupied_ind_blocks_qty, get_occupied_total_blocks_qty
<1>3. CASE s # 0
  <2> DEFINE q == (s - 1) \div PTRBYINDIRECT
  <2>1. q \in Nat /\ Techo(s) = q + 1
    BY <1>3, TechoDe, Division
  <2>2. Techo(Techo(s)) = (q \div PTRBYINDIRECT) + 1
    <3> HIDE DEF q
    <3>1. q + 1 \in Nat \ {0} /\ (q + 1) - 1 = q
      BY <2>1
    <3> QED BY <2>1, <3>1, TechoDe
  <2>3. get_occupied_datablocks_qty(s) = Techo(s)
    BY <1>3, <2>1 DEF get_occupied_datablocks_qty, get_datablock_index, GBLOCKSIZE
  <2>4. get_occupied_ind_blocks_qty(s) = Techo(Techo(s))
    BY <1>3, <2>2 DEF get_occupied_ind_blocks_qty, get_indirect_block_index,
                      get_datablock_index, GBLOCKSIZE
  <2> QED BY <1>1, <2>3, <2>4 DEF get_occupied_total_blocks_qty
<1> QED BY <1>2, <1>3

LEMMA MinimoDe ==
  ASSUME NEW T, T \subseteq Nat, IsFiniteSet(T), T # {}, NEW sino
  PROVE  Primero(T, sino) \in T
<1>1. T \subseteq Int
  OBVIOUS
<1>2. \E n \in T : \A m \in T : n <= m
  BY <1>1, Minimo
<1> QED BY <1>2 DEF Primero

-------------------------------------------------------------------------------
(* Searches *)

LEMMA Hallado ==
  ASSUME NEW path, find_by_path(path) # -1
  PROVE  find_by_path(path) \in Nodo /\ tabla[find_by_path(path)].state # 0
<1> DEFINE p == get_parent_node(path)
           x == path[Len(path)]
           S == {n \in Nodo : tabla[n].state # 0 /\ tabla[n].parent_dir_block = p
                                                /\ tabla[n].fname = x}
<1>1. find_by_path(path) = IF path = <<>> THEN -1 ELSE Primero(S, -1)
  BY DEF find_by_path, find_by_name_in_parent
<1>2. IsFiniteSet(S) /\ S \subseteq Nat
  <2>1. S \subseteq Nodo
    OBVIOUS
  <2> HIDE DEF S
  <2> QED BY <2>1, Constantes, FS_Subset
<1>3. find_by_path(path) = Primero(S, -1)
  BY <1>1
<1>4. S # {}
  <2> HIDE DEF S
  <2> QED BY <1>3 DEF Primero
<1>5. find_by_path(path) \in S
  <2> HIDE DEF S
  <2> QED BY <1>2, <1>3, <1>4, MinimoDe
<1> QED BY <1>5

LEMMA HayNodo ==
  ASSUME NEW m \in Nodo, tabla[m].state = 0
  PROVE  get_avail_node \in Nodo /\ tabla[get_avail_node].state = 0
<1> DEFINE S == {n \in Nodo : tabla[n].state = 0}
<1>1. S \subseteq Nodo /\ m \in S
  OBVIOUS
<1>2. Primero(S, GFILEBYTABLE) \in S
  <2> HIDE DEF S
  <2>1. S \subseteq Nat /\ IsFiniteSet(S) /\ S # {}
    BY <1>1, Constantes, FS_Subset
  <2> QED BY <2>1, MinimoDe
<1>3. get_avail_node = IF Primero(S, GFILEBYTABLE) >= g_block_count THEN -EDQUOT
                       ELSE Primero(S, GFILEBYTABLE)
  BY DEF get_avail_node
<1>4. Primero(S, GFILEBYTABLE) < g_block_count
  BY <1>1, <1>2, Constantes, SacAssumption DEF Nodo
<1>5. get_avail_node = Primero(S, GFILEBYTABLE)
  <2>1. Primero(S, GFILEBYTABLE) \in Int /\ g_block_count \in Int
    BY <1>1, <1>2, Constantes
  <2> HIDE DEF S
  <2> QED BY <1>3, <1>4, <2>1
<1>6. get_avail_node \in S
  <2> HIDE DEF S
  <2> QED BY <1>2, <1>5
<1> QED BY <1>6

LEMMA BloqueHallado == get_avail_block \in Bloque
<1> DEFINE S == Bloque \ bitmap
<1>1. S = {} \/ Primero(S, 0) \in S
  <2>1. S \subseteq Nat /\ IsFiniteSet(S)
    BY Constantes, FS_Subset
  <2> HIDE DEF S
  <2> QED BY <2>1, MinimoDe
<1>2. S = {} => Primero(S, 0) = 0
  BY DEF Primero
<1> QED BY <1>1, <1>2, Constantes DEF get_avail_block

LEMMA Libres ==
  /\ get_free_blocks \in Nat
  /\ get_free_blocks >= 1 => get_avail_block \in Bloque \ bitmap
<1> DEFINE S == Bloque \ bitmap
<1>1. S \subseteq Nat /\ IsFiniteSet(S)
  BY Constantes, FS_Subset
<1>2. Cardinality(S) \in Nat
  BY <1>1, FS_CardinalityType
<1>3. Cardinality(S) >= 1 => S # {}
  BY <1>1, FS_EmptySet
<1>4. S # {} => Primero(S, 0) \in S
  <2> HIDE DEF S
  <2> QED BY <1>1, MinimoDe
<1> QED BY <1>2, <1>3, <1>4 DEF get_free_blocks, get_avail_block

LEMMA Padre ==
  ASSUME NEW path \in Seq(Nombre)
  PROVE  get_parent_node(path) \in Nat \cup {-ENOTDIR}
<1> DEFINE n == Len(path) - 1
           V == Nat \cup {-ENOTDIR}
           Hijo(k, v) == LET m == find_by_name_in_parent(path[k], v)
                         IN IF EsDirectorio(m) THEN m + g_node_table_block_index ELSE -ENOTDIR
           Sigue(k, v) == IF v = -ENOTDIR THEN -ENOTDIR ELSE Hijo(k, v)
           Camino(f) == f = [k \in 0..n |-> IF k = 0 THEN 0
                                          ELSE IF f[k - 1] = -ENOTDIR THEN -ENOTDIR
                                          ELSE Hijo(k, f[k - 1])]
<1>1. get_parent_node(path) = IF path = <<>> THEN 0 ELSE (CHOOSE g : Camino(g))[n]
  BY DEF get_parent_node
<1>2. CASE path = <<>>
  BY <1>1, <1>2
<1>3. CASE path # <<>>
  <2>1. n \in Nat
    BY <1>3
  <2>2. ASSUME NEW k, NEW v PROVE Sigue(k, v) \in V
    <3> DEFINE m == find_by_name_in_parent(path[k], v)
    <3>1. m \in Nodo \cup {-1}
      <4> DEFINE S == {j \in Nodo : tabla[j].state # 0 /\ tabla[j].parent_dir_block = v
                                                      /\ tabla[j].fname = path[k]}
      <4>1. m = Primero(S, -1)
        BY DEF find_by_name_in_parent
      <4>2. S \subseteq Nodo
        OBVIOUS
      <4> HIDE DEF S, m
      <4>3. S \subseteq Nat /\ IsFiniteSet(S)
        BY <4>2, Constantes, FS_Subset
      <4>4. CASE S = {}
        BY <4>1, <4>4 DEF Primero
      <4>5. CASE S # {}
        BY <4>1, <4>2, <4>3, <4>5, MinimoDe
      <4> QED BY <4>4, <4>5
    <3> HIDE DEF m
    <3>2. m + g_node_table_block_index \in Nat
      BY <3>1, Constantes
    <3> QED BY <3>2 DEF m
  <2> HIDE DEF Hijo
  <2> DEFINE F == [x \in (1..n) \X V |-> Sigue(x[1], x[2])]
  <2>3. F \in [(1..n) \X V -> V]
    BY <2>2
  <2>4. \E f : Recorre(f, n, V, 0, F)
    <3>1. 0 \in V /\ EsPaso(F, n, V)
      BY <2>3 DEF EsPaso
    <3> HIDE DEF V, n, F
    <3> QED BY <2>1, <3>1, Recursion
  <2>5. PICK f : f \in [0..n -> V] /\ f[0] = 0 /\ \A k \in 1..n : f[k] = F[<<k, f[k - 1]>>]
    <3> HIDE DEF V, n, F
    <3> QED BY <2>4 DEF Recorre
  <2>6. ASSUME NEW k \in 0..n
        PROVE  f[k] = IF k = 0 THEN 0 ELSE IF f[k - 1] = -ENOTDIR THEN -ENOTDIR ELSE Hijo(k, f[k - 1])
    <3>1. CASE k = 0
      BY <2>5, <3>1
    <3>2. CASE k # 0
      <4>1. k \in 1..n /\ k - 1 \in 0..n
        BY <3>2
      <4>2. f[k - 1] \in V
        BY <2>5, <4>1
      <4>3. F[<<k, f[k - 1]>>] = Sigue(k, f[k - 1])
        BY <4>1, <4>2
      <4>4. f[k] = F[<<k, f[k - 1]>>]
        BY <2>5, <4>1
      <4> QED BY <3>2, <4>3, <4>4
    <3> QED BY <3>1, <3>2
  <2>7. Camino(f)
    <3>1. f = [k \in 0..n |-> f[k]]
      BY <2>5
    <3> HIDE DEF n
    <3> QED BY <2>6, <3>1
  <2>8. PICK c : c = (CHOOSE g : Camino(g))
    OBVIOUS
  <2>9. Camino(c)
    BY <2>7, <2>8
  <2>10. c[n] = IF n = 0 THEN 0 ELSE Sigue(n, c[n - 1])
    <3>1. n \in 0..n
      BY <2>1
    <3> HIDE DEF n
    <3> QED BY <2>9, <3>1
  <2>11. c[n] \in V
    <3> HIDE DEF n
    <3>1. Sigue(n, c[n - 1]) \in V
      BY <2>2
    <3> QED BY <2>10, <3>1
  <2>12. get_parent_node(path) = c[n]
    <3> HIDE DEF Camino, n
    <3>1. get_parent_node(path) = (CHOOSE g : Camino(g))[n]
      BY <1>1, <1>3
    <3> QED BY <2>8, <3>1
  <2> QED BY <2>11, <2>12
<1> QED BY <1>2, <1>3

LEMMA NombresTipo ==
  ASSUME tabla \in [Nodo -> GFile], NEW S
  PROVE  Nombres(S) \in Seq(Nombre \cup {Nada})
<1> DEFINE n == GFILEBYTABLE
           V == Seq(Nombre \cup {Nada})
           Sigue(k, v) == IF k - 1 \in S THEN Append(v, tabla[k - 1].fname) ELSE v
           Orden(f) == f = [k \in 0..n |-> IF k = 0 THEN <<>>
                                          ELSE IF k - 1 \in S
                                          THEN Append(f[k - 1], tabla[k - 1].fname) ELSE f[k - 1]]
           F == [x \in (1..n) \X V |-> Sigue(x[1], x[2])]
<1>1. n \in Nat
  BY Constantes
<1>2. \A k \in 1..n, v \in V : Sigue(k, v) \in V
  <2>1. \A k \in 1..n : tabla[k - 1].fname \in Nombre \cup {Nada}
    BY <1>1 DEF Nodo, GFile
  <2> QED BY <2>1
<1>3. EsPaso(F, n, V) /\ <<>> \in V
  <2>1. <<>> \in V
    OBVIOUS
  <2> HIDE DEF V, Sigue
  <2> QED BY <1>2, <2>1 DEF EsPaso
<1>4. \E f : Recorre(f, n, V, <<>>, F)
  <2> HIDE DEF V, n, F
  <2> QED BY <1>1, <1>3, Recursion
<1>5. PICK h : h \in [0..n -> V] /\ h[0] = <<>> /\ \A k \in 1..n : h[k] = F[<<k, h[k - 1]>>]
  <2> HIDE DEF V, n, F
  <2> QED BY <1>4 DEF Recorre
<1>6. ASSUME NEW k \in 0..n
      PROVE  h[k] = IF k = 0 THEN <<>> ELSE IF k - 1 \in S
                                          THEN Append(h[k - 1], tabla[k - 1].fname) ELSE h[k - 1]
  <2>1. CASE k = 0
    BY <1>5, <2>1
  <2>2. CASE k # 0
    <3>1. k \in 1..n /\ k - 1 \in 0..n
      BY <1>1, <2>2
    <3>2. h[k - 1] \in V
      BY <1>5, <3>1
    <3>3. F[<<k, h[k - 1]>>] = Sigue(k, h[k - 1])
      BY <3>1, <3>2
    <3>4. h[k] = F[<<k, h[k - 1]>>]
      BY <1>5, <3>1
    <3> QED BY <2>2, <3>3, <3>4
  <2> QED BY <2>1, <2>2
<1>7. Orden(h)
  <2>1. h = [k \in 0..n |-> h[k]]
    BY <1>5
  <2> QED BY <1>6, <2>1
<1>8. PICK c : c = (CHOOSE g : Orden(g))
  BY SMTT(30)
<1>9. Orden(c)
  BY ZenonT(60), <1>7, <1>8
<1>10. Nombres(S) = c[n]
  <2>1. Nombres(S) = (CHOOSE g : g = [k \in 0..n |-> IF k = 0 THEN <<>>
                                          ELSE IF k - 1 \in S
                                          THEN Append(g[k - 1], tabla[k - 1].fname) ELSE g[k - 1]])[n]
    BY DEF Nombres
  <2>2. Nombres(S) = (CHOOSE g : Orden(g))[n]
    BY <2>1, Zenon
  <2> HIDE DEF Orden
  <2> QED BY <1>8, <2>2
<1> DEFINE P == {k \in 0..n : c[k] \in V}
<1>11. 0 \in P
  BY <1>1, <1>9
<1>12. ASSUME NEW k \in 1..n, k - 1 \in P PROVE k \in P
  <2>1. k \in 0..n /\ k # 0 /\ c[k - 1] \in V
    BY <1>1, <1>12
  <2>2. c[k] = Sigue(k, c[k - 1])
    BY <1>9, <2>1
  <2> HIDE DEF V, Sigue
  <2>3. c[k] \in V
    BY <1>2, <2>1, <2>2
  <2> QED BY <2>1, <2>3
<1>13. n \in P
  <2> HIDE DEF P
  <2>1. 0..n \subseteq P
    BY <1>1, <1>11, <1>12, Induccion
  <2> QED BY <1>1, <2>1
<1> QED BY <1>10, <1>13

-------------------------------------------------------------------------------
(* What the files hold *)

(* The counts of SacVista, of the only thread. *)
CuentaDe(t) ==
  \A n \in Nodo :
    /\ CantDatablocks(n) = IF Cambia(t, n)
                           THEN IF pc[t] = "liberar" THEN Final(t) + local[t].faltan
                                ELSE Final(t) - local[t].faltan
                           ELSE Ocupa(n)
    /\ CantIndirectos(n) = Techo(IF Cambia(t, n) /\ pc[t] \in {"buscar", "datablock"}
                                 THEN CantDatablocks(n) + 1 ELSE CantDatablocks(n))

LEMMA Cuentas ==
  ASSUME UnHilo, NEW t \in Hilos
  PROVE  CuentaDe(t) /\ CuentaDe(t)'
<1>1. \A n : (\E u \in Hilos : Cambia(u, n)) <=> Cambia(t, n)
  BY DEF UnHilo
<1>2. \A n : ((\E u \in Hilos : Cambia(u, n)) <=> Cambia(t, n))'
  BY DEF UnHilo
<1>3. \A n : Cambia(t, n) => (CHOOSE u \in Hilos : Cambia(u, n)) = t
  BY DEF UnHilo
<1>4. \A n : (Cambia(t, n) => (CHOOSE u \in Hilos : Cambia(u, n)) = t)'
  BY DEF UnHilo
<1>5. \A n : (\E u \in Hilos : Cambia(u, n) /\ pc[u] \in {"buscar", "datablock"})
               <=> Cambia(t, n) /\ pc[t] \in {"buscar", "datablock"}
  BY DEF UnHilo
<1>6. \A n : ((\E u \in Hilos : Cambia(u, n) /\ pc[u] \in {"buscar", "datablock"})
               <=> Cambia(t, n) /\ pc[t] \in {"buscar", "datablock"})'
  BY DEF UnHilo
<1>7. CuentaDe(t)
  BY ZenonT(60), <1>1, <1>3, <1>5 DEF CuentaDe, CantDatablocks, CantIndirectos, Final, Techo, Ocupa
<1>8. CuentaDe(t)'
  BY ZenonT(60), <1>2, <1>4, <1>6 DEF CuentaDe, CantDatablocks, CantIndirectos, Final, Techo, Ocupa
<1> QED BY <1>7, <1>8

EnLugar ==
  /\ \A n, k : <<n, "indirecto", k>> \in Lugar <=> n \in Nodo /\ k \in 0..(CantIndirectos(n) - 1)
  /\ \A n, k : <<n, "dato", k>> \in Lugar <=> n \in Nodo /\ k \in 0..(CantDatablocks(n) - 1)
  /\ \A l \in Lugar : \E n, k : l = <<n, "indirecto", k>> \/ l = <<n, "dato", k>>

LEMMA Lugares == EnLugar /\ EnLugar'
<1>1. EnLugar
  BY DEF EnLugar, Lugar
<1>2. EnLugar'
  BY DEF EnLugar, Lugar
<1> QED BY <1>1, <1>2

LEMMA MismoBloque ==
  ASSUME NEW n, NEW k, blk_indirect'[n] = blk_indirect[n], disco' = disco
  PROVE  BloqueEn(<<n, "dato", k>>)' = BloqueEn(<<n, "dato", k>>)
BY DEF BloqueEn

LEMMA PedidaTipo ==
  ASSUME NEW t \in Hilos, pedido[t] \in Pedidos
  PROVE  Pedida(t) \in Nat /\ Final(t) = Techo(Pedida(t)) /\ Final(t) \in Nat
<1>1. PICK r : r = pedido[t]
  OBVIOUS
<1>2. r \in Pedidos /\ r.offset \in Nat /\ r.size \in Nat /\ (r.op = "SAC_write" => r.datos \in Seq(Datos))
  BY <1>1, PedidosAssumption
<1>3. Pedida(t) = IF r.op = "SAC_write" THEN r.offset + Len(r.datos)
                  ELSE IF r.op = "SAC_truncate" THEN r.size ELSE 0
  BY <1>1 DEF Pedida
<1>4. Pedida(t) \in Nat
  BY <1>2, <1>3
<1> QED BY <1>4, Cantidades DEF Final

LEMMA OcupaTipo ==
  ASSUME tabla \in [Nodo -> GFile], NEW n \in Nodo
  PROVE  Ocupa(n) \in Nat
<1>1. tabla[n].file_size \in Nat
  BY DEF GFile
<1> QED BY <1>1, Cantidades DEF Ocupa

(* The pointers that a file uses are within its tables. *)
LEMMA Cotas ==
  ASSUME UnHilo, InvarianteS, NEW t \in Hilos, NEW n \in Nodo
  PROVE  /\ CantDatablocks(n) \in 0..MaxDatablocks /\ CantIndirectos(n) \in 0..BLKINDIRECT
         /\ \A k \in 0..(CantDatablocks(n) - 1) :
              k \div PTRBYINDIRECT \in 0..(CantIndirectos(n) - 1)
              /\ k % PTRBYINDIRECT \in 0..(PTRBYINDIRECT - 1)
<1> DEFINE D == CantDatablocks(n)
           abre == Cambia(t, n) /\ pc[t] \in {"buscar", "datablock"}
           e == IF abre THEN D + 1 ELSE D
<1>0. TiposS /\ InvPunto(t) /\ InvReserva(t) /\ InvLiberacion(t) /\ Ocupa(n) <= MaxDatablocks
  BY DEF InvarianteS, InvTamanio
<1>1. MaxDatablocks \in Nat
  BY Constantes DEF MaxDatablocks
<1>2. Ocupa(n) \in 0..MaxDatablocks
  BY <1>0, <1>1, OcupaTipo DEF TiposS
<1>3. local[t] \in Local /\ local[t].faltan \in Nat
  BY <1>0 DEF TiposS, Local
<1>4. pc[t] \in EnBloques => Final(t) \in 0..MaxDatablocks
  <2>1. pc[t] \in EnBloques => pedido[t] \in Pedidos
    BY <1>0 DEF InvPunto, EnBloques, TiposS
  <2> QED BY <1>0, <1>1, <2>1, PedidaTipo DEF InvReserva
<1>5. D \in 0..MaxDatablocks /\ (abre => D + 1 <= MaxDatablocks)
  <2>1. CASE ~ Cambia(t, n)
    <3>1. D = Ocupa(n)
      BY <2>1, Cuentas DEF CuentaDe
    <3> QED BY <1>2, <2>1, <3>1
  <2>2. CASE Cambia(t, n) /\ pc[t] = "liberar"
    <3>1. D = Final(t) + local[t].faltan
      BY <2>2, Cuentas DEF CuentaDe
    <3>2. Final(t) \in 0..MaxDatablocks /\ Final(t) + local[t].faltan <= MaxDatablocks
      BY <1>0, <1>4, <2>2 DEF Cambia, InvLiberacion
    <3> QED BY <1>1, <1>3, <2>2, <3>1, <3>2
  <2>3. CASE Cambia(t, n) /\ pc[t] # "liberar"
    <3>1. D = Final(t) - local[t].faltan
      BY <2>3, Cuentas DEF CuentaDe
    <3>2. Final(t) \in 0..MaxDatablocks
      BY <1>4, <2>3 DEF Cambia
    <3>3. \/ pc[t] \in Reservando /\ local[t].faltan \in 1..Final(t)
          \/ pc[t] \in {"agrandar", "cortar"} /\ local[t].faltan = 0
      BY <1>0, <2>3 DEF Cambia, EnBloques, Reservando, InvReserva, InvPunto
    <3> QED BY <1>1, <3>1, <3>2, <3>3
  <2> QED BY <2>1, <2>2, <2>3
<1>6. e \in Nat /\ e <= BLKINDIRECT * PTRBYINDIRECT /\ D <= e
  BY <1>1, <1>5 DEF MaxDatablocks
<1>7. CantIndirectos(n) = Techo(e)
  BY Cuentas DEF CuentaDe
<1> HIDE DEF e
<1>8. Techo(e) \in 0..BLKINDIRECT
  BY <1>6, Constantes, TechoOrden
<1>9. ASSUME NEW k \in 0..(D - 1)
      PROVE  k \div PTRBYINDIRECT \in 0..(Techo(e) - 1) /\ k % PTRBYINDIRECT \in 0..(PTRBYINDIRECT - 1)
  <2> DEFINE q == k \div PTRBYINDIRECT
             r == k % PTRBYINDIRECT
  <2>1. k \in Nat /\ k < e
    BY <1>5, <1>6
  <2>2. q \in Nat /\ r \in 0..(PTRBYINDIRECT - 1) /\ k = q * PTRBYINDIRECT + r
    BY <2>1, Division
  <2>3. e <= Techo(e) * PTRBYINDIRECT
    BY <1>6, <1>8, TechoOrden
  <2> HIDE DEF q, r
  <2>4. Techo(e) <= q => Techo(e) * PTRBYINDIRECT <= q * PTRBYINDIRECT
    BY <1>8, <2>2, Productos
  <2>5. Techo(e) * PTRBYINDIRECT \in Int /\ q * PTRBYINDIRECT \in Int
    BY <1>8, <2>2, Productos
  <2>6. q < Techo(e)
    BY <1>6, <1>8, <2>1, <2>2, <2>3, <2>4, <2>5
  <2> QED BY <1>8, <2>2, <2>6 DEF q, r
<1> QED BY <1>5, <1>7, <1>8, <1>9

(* The blocks of a file are in the bitmap, outside of the file system. *)
LEMMA DelArchivo ==
  ASSUME DuenioUnico, BitmapExacto, NEW l \in Lugar
  PROVE  /\ BloqueEn(l) \in PrimerBloqueLibre..(g_block_count - 1)
         /\ BloqueEn(l) \in Bloque /\ BloqueEn(l) \in bitmap
<1>1. BloqueEn(l) \in PrimerBloqueLibre..(g_block_count - 1)
  BY DEF DuenioUnico
<1> QED BY <1>1, Constantes DEF BitmapExacto, Bloque

LEMMA MismosLugares ==
  ASSUME \A n \in Nodo : /\ CantDatablocks(n)' = CantDatablocks(n)
                         /\ CantIndirectos(n)' = CantIndirectos(n)
  PROVE  Lugar' = Lugar
BY DEF Lugar

LEMMA MismosDuenios ==
  ASSUME DuenioUnico, BitmapExacto, Lugar' = Lugar, bitmap' = bitmap,
         \A l \in Lugar : BloqueEn(l)' = BloqueEn(l)
  PROVE  DuenioUnico' /\ BitmapExacto'
<1>1. DuenioUnico'
  BY DEF DuenioUnico
<1>2. {BloqueEn(l) : l \in Lugar}' = {BloqueEn(l) : l \in Lugar}
  OBVIOUS
<1> QED BY <1>1, <1>2 DEF BitmapExacto

(* One block more, that was free. *)
LEMMA UnLugarMas ==
  ASSUME DuenioUnico, BitmapExacto, NEW x, NEW b \in Bloque \ bitmap, x \notin Lugar,
         Lugar' = Lugar \cup {x}, BloqueEn(x)' = b,
         \A l \in Lugar : BloqueEn(l)' = BloqueEn(l), bitmap' = bitmap \cup {b}
  PROVE  DuenioUnico' /\ BitmapExacto'
<1>1. b \in PrimerBloqueLibre..(g_block_count - 1)
  <2>1. b \notin 0..(PrimerBloqueLibre - 1) /\ b \in 0..(g_block_count - 1)
    BY DEF BitmapExacto, Bloque
  <2> QED BY <2>1, Constantes
<1>2. \A l \in Lugar : BloqueEn(l) # b
  BY DEF BitmapExacto
<1>3. DuenioUnico'
  <2>1. \A l \in Lugar' : BloqueEn(l)' \in PrimerBloqueLibre..(g_block_count - 1)
    BY <1>1 DEF DuenioUnico
  <2>2. \A l, m \in Lugar' : BloqueEn(l)' = BloqueEn(m)' => l = m
    BY <1>2 DEF DuenioUnico
  <2> QED BY <2>1, <2>2 DEF DuenioUnico
<1>4. {BloqueEn(l) : l \in Lugar}' = {BloqueEn(l) : l \in Lugar} \cup {b}
  <2>1. \A y : y \in {BloqueEn(l) : l \in Lugar}' <=> \E l \in Lugar \cup {x} : y = BloqueEn(l)'
    OBVIOUS
  <2> QED BY <2>1
<1>5. BitmapExacto'
  BY <1>4 DEF BitmapExacto
<1> QED BY <1>3, <1>5

(* Some blocks less, whose bits are cleared. *)
LEMMA LugaresMenos ==
  ASSUME DuenioUnico, BitmapExacto, NEW X, X \subseteq Lugar, Lugar' = Lugar \ X,
         \A l \in Lugar \ X : BloqueEn(l)' = BloqueEn(l),
         bitmap' = bitmap \ {BloqueEn(l) : l \in X}
  PROVE  DuenioUnico' /\ BitmapExacto'
<1>1. DuenioUnico'
  <2>1. \A l \in Lugar' : BloqueEn(l)' \in PrimerBloqueLibre..(g_block_count - 1)
    BY DEF DuenioUnico
  <2>2. \A l, m \in Lugar' : BloqueEn(l)' = BloqueEn(m)' => l = m
    BY DEF DuenioUnico
  <2> QED BY <2>1, <2>2 DEF DuenioUnico
<1>2. \A l \in Lugar, m \in X : BloqueEn(l) = BloqueEn(m) => l \in X
  BY DEF DuenioUnico
<1>3. \A b \in 0..(PrimerBloqueLibre - 1), m \in X : BloqueEn(m) # b
  <2>1. \A m \in X : BloqueEn(m) \in PrimerBloqueLibre..(g_block_count - 1)
    BY DEF DuenioUnico
  <2> QED BY <2>1, Constantes
<1>4. \A y : y \in {BloqueEn(l) : l \in Lugar}' <=> \E l \in Lugar \ X : y = BloqueEn(l)
  BY Zenon
<1>5. \A y : y \in bitmap' <=> y \in 0..(PrimerBloqueLibre - 1)
                              \/ \E l \in Lugar \ X : y = BloqueEn(l)
  BY <1>2, <1>3 DEF BitmapExacto
<1>6. BitmapExacto'
  <2>1. \A y : y \in bitmap' <=> y \in 0..(PrimerBloqueLibre - 1) \cup {BloqueEn(l) : l \in Lugar}'
    BY <1>4, <1>5
  <2> QED BY <2>1 DEF BitmapExacto
<1> QED BY <1>1, <1>6

-------------------------------------------------------------------------------
(* Steps that leave the blocks alone *)

LEMMA PorUnHilo ==
  ASSUME UnHilo, NEW t \in Hilos, TiposS', InvTamanio', DuenioUnico', BitmapExacto',
         InvPunto(t)', InvReserva(t)', InvLiberacion(t)', InvEspacio(t)'
  PROVE  InvarianteS'
<1>1. \A u \in Hilos : u = t
  BY DEF UnHilo
<1> QED BY <1>1 DEF InvarianteS

LEMMA FueraDeBloques ==
  ASSUME NEW t \in Hilos, pc'[t] \notin EnBloques
  PROVE  InvReserva(t)' /\ InvLiberacion(t)' /\ InvEspacio(t)'
BY DEF EnBloques, Reservando, InvReserva, InvLiberacion, InvEspacio

LEMMA Quietud ==
  ASSUME UnHilo, InvarianteS, NEW t \in Hilos, pc[t] \notin EnBloques, pc'[t] \notin EnBloques,
         \A n \in Nodo : Ocupa(n)' = Ocupa(n), UNCHANGED <<blk_indirect, bloques>>
  PROVE  DuenioUnico' /\ BitmapExacto' /\ InvTamanio'
<1>1. \A n \in Nodo : ~ Cambia(t, n) /\ ~ Cambia(t, n)'
  BY DEF Cambia
<1>2. \A n \in Nodo : CantDatablocks(n)' = CantDatablocks(n) /\ CantIndirectos(n)' = CantIndirectos(n)
  BY <1>1, Cuentas DEF CuentaDe, Techo
<1>3. Lugar' = Lugar
  BY <1>2, MismosLugares
<1>4. \A l \in Lugar : BloqueEn(l)' = BloqueEn(l)
  BY DEF BloqueEn, bloques
<1>5. InvTamanio'
  BY DEF InvarianteS, InvTamanio, MaxDatablocks
<1> QED BY <1>3, <1>4, <1>5, MismosDuenios DEF InvarianteS, bloques

(* An answer ends a request. *)
LEMMA AlContestar ==
  ASSUME InvarianteS, NEW t \in Hilos, pc[t] # "libre", NEW a \in Respuesta, Contestar(t, a)
  PROVE  /\ pc' \in [Hilos -> Punto] /\ pedido' \in [Hilos -> Pedidos \cup {Nada}]
         /\ local' \in [Hilos -> Local] /\ respuesta' \in [Hilos -> Respuesta \cup {Nada}]
         /\ pc'[t] = "contestado" /\ pc'[t] \notin EnBloques /\ InvPunto(t)'
         /\ InvReserva(t)' /\ InvLiberacion(t)' /\ InvEspacio(t)'
<1>1. TiposS /\ InvPunto(t)
  BY DEF InvarianteS
<1>2. /\ pc' = [pc EXCEPT ![t] = "contestado"] /\ respuesta' = [respuesta EXCEPT ![t] = a]
      /\ pedido' = pedido /\ local' = local
  BY DEF Contestar
<1>3. /\ pc' \in [Hilos -> Punto] /\ pedido' \in [Hilos -> Pedidos \cup {Nada}]
      /\ local' \in [Hilos -> Local] /\ respuesta' \in [Hilos -> Respuesta \cup {Nada}]
  BY <1>1, <1>2 DEF TiposS, Punto
<1>4. pc'[t] = "contestado" /\ respuesta'[t] = a /\ pedido'[t] # Nada
  BY <1>1, <1>2 DEF TiposS, InvPunto
<1>5. a # Nada
  BY NadaAssumption
<1>6. pc'[t] \notin EnBloques
  BY <1>4 DEF EnBloques
<1>7. InvPunto(t)'
  BY <1>4, <1>5, <1>6 DEF InvPunto, Reservando
<1> QED BY <1>3, <1>4, <1>6, <1>7, FueraDeBloques

LEMMA Contesta ==
  ASSUME UnHilo, InvarianteS, NEW t \in Hilos, pc[t] # "libre", pc[t] \notin EnBloques,
         NEW a \in Respuesta, Contestar(t, a), tabla' \in [Nodo -> GFile],
         \A n \in Nodo : Ocupa(n)' = Ocupa(n), UNCHANGED <<blk_indirect, bloques>>
  PROVE  InvarianteS'
<1>1. /\ pc' \in [Hilos -> Punto] /\ pedido' \in [Hilos -> Pedidos \cup {Nada}]
      /\ local' \in [Hilos -> Local] /\ respuesta' \in [Hilos -> Respuesta \cup {Nada}]
      /\ pc'[t] \notin EnBloques /\ InvPunto(t)'
      /\ InvReserva(t)' /\ InvLiberacion(t)' /\ InvEspacio(t)'
  BY AlContestar
<1>2. DuenioUnico' /\ BitmapExacto' /\ InvTamanio'
  BY <1>1, Quietud
<1>3. TiposS'
  BY <1>1 DEF InvarianteS, TiposS, bloques
<1> QED BY <1>1, <1>2, <1>3, PorUnHilo

LEMMA SoloContesta ==
  ASSUME UnHilo, InvarianteS, NEW t \in Hilos, pc[t] # "libre", pc[t] \notin EnBloques,
         NEW a \in Respuesta, Contestar(t, a), UNCHANGED <<metadatos, bloques>>
  PROVE  InvarianteS'
<1>1. tabla' \in [Nodo -> GFile] /\ blk_indirect' = blk_indirect
  BY DEF InvarianteS, TiposS, metadatos
<1>2. \A n \in Nodo : Ocupa(n)' = Ocupa(n)
  BY DEF Ocupa, metadatos
<1> QED BY <1>1, <1>2, Contesta

(* What the kernel has checked before the request. *)
LEMMA Permitido ==
  ASSUME HayLugar, InvarianteS, NEW t \in Hilos, pc[t] = "recibido"
  PROVE  LET r == pedido[t]
             n == find_by_path(r.path)
         IN /\ r \in Pedidos /\ local[t] = LocalInicial
            /\ n # -1 => n \in Nodo
            /\ r.op \in {"SAC_unlink", "SAC_read", "SAC_write", "SAC_truncate"} /\ n # -1
                 => tabla[n].state = 1
            /\ r.op = "SAC_read" /\ n # -1 => r.offset <= tabla[n].file_size
            /\ r.op = "SAC_rmdir" => n # -1 /\ tabla[n].state = 2
            /\ r.op = "SAC_rename" => get_parent_node(r.new_path) \in Nat
            /\ r.op \in {"SAC_mknod", "SAC_mkdir"}
                 => get_avail_node \in Nodo /\ tabla[get_avail_node].state = 0
            /\ r.op \in {"SAC_write", "SAC_truncate"}
                 => Pedida(t) <= MaxDatablocks * PTRBYINDIRECT
            /\ r.op = "SAC_write" /\ n # -1
                 => Pedida(t) <= tabla[n].file_size \/ is_enough_blocks(tabla[n].file_size, Pedida(t))
<1> DEFINE r == pedido[t]
           n == find_by_path(r.path)
           fin == r.offset + (IF r.op = "SAC_write" THEN Len(r.datos) ELSE r.size)
<1>1. TiposS /\ InvPunto(t)
  BY DEF InvarianteS
<1>2. r \in Pedidos /\ local[t] = LocalInicial /\ KernelPermite(r)
  BY <1>1 DEF TiposS, InvPunto
<1>3. n # -1 => n \in Nodo
  BY Hallado
<1>4. "nodos" \in Promesas /\ "espacio" \in Promesas /\ "maximo" \in Promesas
  BY DEF HayLugar
<1>5. /\ r.op \in {"SAC_unlink", "SAC_read", "SAC_write", "SAC_truncate"} /\ n # -1
           => tabla[n].state = 1
      /\ r.op = "SAC_read" /\ n # -1 => r.offset <= tabla[n].file_size
      /\ r.op = "SAC_rmdir" => n # -1 /\ tabla[n].state = 2
      /\ r.op = "SAC_rename" => get_parent_node(r.new_path) # -ENOTDIR
      /\ r.op \in {"SAC_mknod", "SAC_mkdir"} => \E m \in Nodo : tabla[m].state = 0
      /\ r.op \in {"SAC_write", "SAC_truncate"} => fin <= BLKINDIRECT * PTRBYINDIRECT * GBLOCKSIZE
      /\ r.op = "SAC_write" /\ n # -1
           => fin <= tabla[n].file_size \/ is_enough_blocks(tabla[n].file_size, fin)
  BY <1>2, <1>4 DEF KernelPermite
<1>6. r.op = "SAC_rename" => get_parent_node(r.new_path) \in Nat
  <2>1. r.op = "SAC_rename" => r.new_path \in Seq(Nombre)
    BY <1>2, PedidosAssumption
  <2> HIDE DEF r
  <2>2. r.op = "SAC_rename" => get_parent_node(r.new_path) \in Nat \cup {-ENOTDIR}
    <3> SUFFICES ASSUME r.op = "SAC_rename" PROVE get_parent_node(r.new_path) \in Nat \cup {-ENOTDIR}
      OBVIOUS
    <3>1. PICK q : q = r.new_path
      OBVIOUS
    <3> QED BY <2>1, <3>1, Padre
  <2> QED BY <1>5, <2>2 DEF r
<1>7. r.op \in {"SAC_mknod", "SAC_mkdir"}
        => get_avail_node \in Nodo /\ tabla[get_avail_node].state = 0
  BY <1>5, HayNodo
<1>8. r.offset \in Nat /\ r.size \in Nat /\ (r.op = "SAC_write" => r.datos \in Seq(Datos))
  BY <1>2, PedidosAssumption
<1>9. r.op = "SAC_write" => Pedida(t) = fin
  BY DEF Pedida
<1>10. r.op = "SAC_truncate" => Pedida(t) <= fin /\ Pedida(t) \in Nat /\ fin \in Nat
  BY <1>8 DEF Pedida
<1>11. r.op \in {"SAC_write", "SAC_truncate"} => Pedida(t) <= MaxDatablocks * PTRBYINDIRECT
  <2>1. PICK m : m = BLKINDIRECT * PTRBYINDIRECT * PTRBYINDIRECT
    OBVIOUS
  <2>2. m \in Int
    <3>1. BLKINDIRECT * PTRBYINDIRECT \in Int
      BY Constantes, Productos
    <3> QED BY <2>1, <3>1, Productos
  <2>3. r.op \in {"SAC_write", "SAC_truncate"} => fin <= m
    BY <1>5, <2>1 DEF GBLOCKSIZE
  <2>4. r.op \in {"SAC_write", "SAC_truncate"} => Pedida(t) <= m
    <3> HIDE DEF fin, r
    <3> QED BY SMTT(30), <1>9, <1>10, <2>2, <2>3
  <2> QED BY <2>1, <2>4 DEF MaxDatablocks
<1> HIDE DEF fin
<1> QED BY <1>2, <1>3, <1>5, <1>6, <1>7, <1>9, <1>11

(* It depends on the table and on the bitmap. *)
LEMMA MismoPermiso ==
  ASSUME NEW r, UNCHANGED <<tabla, bitmap>>
  PROVE  KernelPermite(r)' = KernelPermite(r)
BY DEF KernelPermite, find_by_path, find_by_name_in_parent, get_parent_node, EsDirectorio, Octeto,
       PrimerOcteto, is_enough_blocks, get_free_blocks, Primero

LEMMA PasoSendRequest ==
  ASSUME UnHilo, InvarianteS, NEW t \in Hilos, NEW r \in Pedidos, send_request(t, r)
  PROVE  InvarianteS'
<1>1. TiposS /\ InvPunto(t) /\ pc[t] = "libre"
  BY DEF InvarianteS, send_request
<1>2. /\ pc' = [pc EXCEPT ![t] = "recibido"] /\ pedido' = [pedido EXCEPT ![t] = r]
      /\ KernelPermite(r) /\ UNCHANGED <<tabla, blk_indirect, bitmap, disco, local, respuesta>>
  BY DEF send_request, metadatos, bloques
<1>3. TiposS'
  BY <1>1, <1>2 DEF TiposS, Punto
<1>4. pc'[t] = "recibido" /\ pedido'[t] = r /\ r # Nada
  BY <1>1, <1>2, NadaAssumption DEF TiposS
<1>5. KernelPermite(r)'
  <2>1. KernelPermite(r)' = KernelPermite(r)
    BY <1>2, MismoPermiso
  <2> QED BY <1>2, <2>1
<1>6. InvPunto(t)'
  BY <1>1, <1>2, <1>4, <1>5 DEF InvPunto, EnBloques, Reservando
<1>7. pc[t] \notin EnBloques /\ pc'[t] \notin EnBloques
  BY <1>1, <1>4 DEF EnBloques
<1>8. \A n \in Nodo : Ocupa(n)' = Ocupa(n)
  BY <1>2 DEF Ocupa
<1>9. DuenioUnico' /\ BitmapExacto' /\ InvTamanio'
  BY <1>2, <1>7, <1>8, Quietud DEF bloques
<1> QED BY <1>3, <1>6, <1>7, <1>9, FueraDeBloques, PorUnHilo

LEMMA PasoVolver ==
  ASSUME UnHilo, InvarianteS, NEW t \in Hilos, Volver(t)
  PROVE  InvarianteS'
<1>1. TiposS /\ InvPunto(t) /\ pc[t] = "contestado"
  BY DEF InvarianteS, Volver
<1>2. /\ pc' = [pc EXCEPT ![t] = "libre"] /\ pedido' = [pedido EXCEPT ![t] = Nada]
      /\ local' = [local EXCEPT ![t] = LocalInicial] /\ respuesta' = [respuesta EXCEPT ![t] = Nada]
      /\ UNCHANGED <<tabla, blk_indirect, bitmap, disco>>
  BY DEF Volver, metadatos, bloques
<1>3. LocalInicial \in Local
  BY Constantes DEF LocalInicial, Local
<1>4. TiposS'
  BY <1>1, <1>2, <1>3 DEF TiposS, Punto
<1>5. pc'[t] = "libre" /\ pedido'[t] = Nada /\ local'[t] = LocalInicial /\ respuesta'[t] = Nada
  BY <1>1, <1>2 DEF TiposS
<1>6. InvPunto(t)'
  BY <1>5 DEF InvPunto, EnBloques, Reservando
<1>7. pc[t] \notin EnBloques /\ pc'[t] \notin EnBloques
  BY <1>1, <1>5 DEF EnBloques
<1>8. \A n \in Nodo : Ocupa(n)' = Ocupa(n)
  BY <1>2 DEF Ocupa
<1>9. DuenioUnico' /\ BitmapExacto' /\ InvTamanio'
  BY <1>2, <1>7, <1>8, Quietud DEF bloques
<1> QED BY <1>4, <1>6, <1>7, <1>9, FueraDeBloques, PorUnHilo

LEMMA DentroDe ==
  ASSUME NEW s \in Nat, NEW a \in Nat, a < s
  PROVE  a \div PTRBYINDIRECT \in 0..(Techo(s) - 1)
<1> DEFINE q == a \div PTRBYINDIRECT
           r == a % PTRBYINDIRECT
<1>1. q \in Nat /\ r \in 0..(PTRBYINDIRECT - 1) /\ a = q * PTRBYINDIRECT + r
  BY Division
<1>2. Techo(s) \in Nat /\ s <= Techo(s) * PTRBYINDIRECT
  BY TechoOrden
<1> HIDE DEF q, r
<1>3. Techo(s) <= q => Techo(s) * PTRBYINDIRECT <= q * PTRBYINDIRECT
  BY SMTT(30), <1>1, <1>2, Productos
<1>4. Techo(s) * PTRBYINDIRECT \in Int /\ q * PTRBYINDIRECT \in Int
  BY <1>1, <1>2, Productos
<1>5. q < Techo(s)
  BY <1>1, <1>2, <1>3, <1>4
<1> QED BY <1>1, <1>2, <1>5 DEF q

(* A cell of a file is in one of its data blocks. *)
LEMMA Celdas ==
  ASSUME UnHilo, InvarianteS, NEW t \in Hilos, NEW n \in Nodo, NEW a \in Nat,
         a \div PTRBYINDIRECT \in 0..(CantDatablocks(n) - 1)
  PROVE  /\ <<n, "dato", a \div PTRBYINDIRECT>> \in Lugar
         /\ seek_offset(n, a) = <<BloqueEn(<<n, "dato", a \div PTRBYINDIRECT>>), a % PTRBYINDIRECT>>
         /\ BloqueEn(<<n, "dato", a \div PTRBYINDIRECT>>) \in Bloque
         /\ a % PTRBYINDIRECT \in 0..(PTRBYINDIRECT - 1)
<1> DEFINE k == a \div PTRBYINDIRECT
<1>1. <<n, "dato", k>> \in Lugar
  BY Lugares DEF EnLugar
<1>2. seek_offset(n, a) = <<BloqueEn(<<n, "dato", k>>), a % PTRBYINDIRECT>>
  BY DEF BloqueEn, seek_offset, get_indirect_block_index, get_datablock_index, GBLOCKSIZE,
                 get_datablock_index_inside_indirect_block
<1>3. BloqueEn(<<n, "dato", k>>) \in Bloque
  BY <1>1, DelArchivo DEF InvarianteS
<1> QED BY <1>1, <1>2, <1>3, Division

LEMMA PasoGetattr ==
  ASSUME UnHilo, InvarianteS, HayLugar, NEW t \in Hilos, procesar_getattr(t)
  PROVE  InvarianteS'
<1> DEFINE n == find_by_path(pedido[t].path)
           A(type, date, size) == [type |-> type, last_mod_time |-> date, size |-> size]
           a == IF pedido[t].path = <<>> THEN A(2, 0, 0) ELSE IF n = -1 THEN A(0, 0, 0)
                ELSE A(tabla[n].state, tabla[n].m_date, tabla[n].file_size)
<1>1. pc[t] = "recibido" /\ Contestar(t, a) /\ UNCHANGED <<metadatos, bloques>>
  BY DEF procesar_getattr, En
<1>2. a \in Respuesta
  <2>1. n # -1 => n \in Nodo
    BY Hallado
  <2>2. n # -1 => /\ tabla[n].state \in 0..2 /\ tabla[n].m_date \in Nat /\ tabla[n].file_size \in Nat
    BY <2>1 DEF InvarianteS, TiposS, GFile
  <2> HIDE DEF n
  <2>3. a \in [type : 0..2, last_mod_time : Nat, size : Nat]
    BY <2>2
  <2> QED BY <2>3 DEF Respuesta
<1> HIDE DEF a
<1>3. pc[t] # "libre" /\ pc[t] \notin EnBloques
  BY <1>1 DEF EnBloques
<1> QED BY <1>1, <1>2, <1>3, SoloContesta

LEMMA PasoReaddir ==
  ASSUME UnHilo, InvarianteS, HayLugar, NEW t \in Hilos, procesar_readdir(t)
  PROVE  InvarianteS'
<1>1. pc[t] = "recibido" /\ UNCHANGED <<metadatos, bloques>>
  BY DEF procesar_readdir, En
<1>2. \E e \in Nat, f \in Seq(Nombre \cup {Nada}) : Contestar(t, [errno_value |-> e, found |-> f])
  <2>1. \A S : Nombres(S) \in Seq(Nombre \cup {Nada})
    BY NombresTipo DEF InvarianteS, TiposS
  <2>2. <<>> \in Seq(Nombre \cup {Nada})
    OBVIOUS
  <2>3. ENOENT \in Nat /\ ENOTDIR \in Nat /\ 0 \in Nat
    BY DEF ENOENT, ENOTDIR
  <2>4. PICK S : \/ Contestar(t, [errno_value |-> ENOENT, found |-> <<>>])
                 \/ Contestar(t, [errno_value |-> ENOTDIR, found |-> <<>>])
                 \/ Contestar(t, [errno_value |-> 0, found |-> Nombres(S)])
    BY DEF procesar_readdir
  <2>5. PICK N : N = Nombres(S)
    OBVIOUS
  <2> QED BY <2>1, <2>2, <2>3, <2>4, <2>5
<1>3. PICK a \in Respuesta : Contestar(t, a)
  <2>1. PICK e \in Nat, f \in Seq(Nombre \cup {Nada}) : Contestar(t, [errno_value |-> e, found |-> f])
    BY <1>2
  <2>2. [errno_value |-> e, found |-> f] \in Respuesta
    BY DEF Respuesta
  <2> QED BY <2>1, <2>2
<1>4. pc[t] # "libre" /\ pc[t] \notin EnBloques
  BY <1>1 DEF EnBloques
<1> QED BY <1>1, <1>3, <1>4, SoloContesta

(* What a read returns is in the blocks of the file. *)
LEMMA Lectura ==
  ASSUME UnHilo, InvarianteS, NEW t \in Hilos, pc[t] \notin EnBloques, NEW n \in Nodo,
         tabla[n].state = 1, NEW offset \in Nat, NEW size \in Nat,
         size = 0 \/ offset + size <= tabla[n].file_size
  PROVE  Contenido(n, offset, size) \in Seq(Celda)
<1>1. TiposS
  BY DEF InvarianteS
<1>2. tabla[n].file_size \in Nat
  BY <1>1 DEF TiposS, GFile
<1>3. CantDatablocks(n) = Techo(tabla[n].file_size)
  <2>1. ~ Cambia(t, n)
    BY DEF Cambia
  <2> QED BY <1>2, <2>1, Cuentas, Cantidades DEF CuentaDe, Ocupa
<1>4. ASSUME NEW i \in 1..size
      PROVE  disco[seek_offset(n, offset + i - 1)[1]][seek_offset(n, offset + i - 1)[2]] \in Celda
  <2> DEFINE a == offset + i - 1
  <2>1. a \in Nat /\ a < tabla[n].file_size
    BY <1>2
  <2>2. a \div PTRBYINDIRECT \in 0..(CantDatablocks(n) - 1)
    BY <1>2, <1>3, <2>1, DentroDe
  <2>3. PICK b \in Bloque, c \in 0..(PTRBYINDIRECT - 1) : seek_offset(n, a) = <<b, c>>
    BY <2>1, <2>2, Celdas
  <2> HIDE DEF a
  <2>4. disco[b][c] \in Celda
    BY ZenonT(60), <1>1 DEF TiposS
  <2> QED BY <2>3, <2>4 DEF a
<1>5. Contenido(n, offset, size) \in [1..size -> Celda]
  BY <1>4 DEF Contenido
<1> QED BY <1>5

LEMMA PasoRead ==
  ASSUME UnHilo, InvarianteS, HayLugar, NEW t \in Hilos, procesar_read(t)
  PROVE  InvarianteS'
<1> DEFINE r == pedido[t]
           n == find_by_path(r.path)
           resto == tabla[n].file_size - r.offset
           copySize == IF 0 <= resto /\ resto < r.size THEN resto ELSE r.size
<1>1. /\ pc[t] = "recibido" /\ r.op = "SAC_read" /\ UNCHANGED <<metadatos, bloques>>
      /\ Contestar(t, IF n = -1 THEN [errno_value |-> ENOENT, data |-> <<>>]
                      ELSE [errno_value |-> 0, data |-> Contenido(n, r.offset, copySize)])
  BY DEF procesar_read, En
<1>2. pc[t] # "libre" /\ pc[t] \notin EnBloques
  BY <1>1 DEF EnBloques
<1>3. PICK a \in Respuesta : Contestar(t, a)
  <2>1. CASE n = -1
    <3>1. [errno_value |-> ENOENT, data |-> <<>>] \in Respuesta
      BY DEF Respuesta, ENOENT
    <3> QED BY <1>1, <2>1, <3>1
  <2>2. CASE n # -1
    <3>1. n \in Nodo /\ tabla[n].state = 1 /\ r.offset <= tabla[n].file_size /\ r \in Pedidos
      BY <1>1, <2>2, Permitido
    <3>2. r.offset \in Nat /\ r.size \in Nat
      BY <3>1, PedidosAssumption
    <3>3. tabla[n].file_size \in Nat
      BY <3>1 DEF InvarianteS, TiposS, GFile
    <3>4. PICK m, o, s : m = n /\ o = r.offset /\ s = copySize
      OBVIOUS
    <3> HIDE DEF n, r
    <3>5. s \in Nat /\ o + s <= tabla[m].file_size
      BY <3>1, <3>2, <3>3, <3>4
    <3>6. Contenido(m, o, s) \in Seq(Celda)
      BY <1>2, <3>1, <3>2, <3>4, <3>5, Lectura
    <3>7. PICK d : d = Contenido(m, o, s)
      OBVIOUS
    <3>8. [errno_value |-> 0, data |-> d] \in Respuesta
      BY <3>6, <3>7 DEF Respuesta
    <3> QED BY SMTT(30), <1>1, <2>2, <3>4, <3>7, <3>8
  <2> QED BY <2>1, <2>2
<1> QED BY <1>1, <1>2, <1>3, SoloContesta

LEMMA EnterosTipo ==
  ASSUME NEW v \in Int, NEW e \in Int
  PROVE  Entero(v, e) \in Respuesta /\ Falla(e) \in Respuesta
BY DEF Entero, Falla, Respuesta

-------------------------------------------------------------------------------
(* Steps that change the table *)

(* mknod and mkdir, up to the node they found. *)
LEMMA PasoCrear ==
  ASSUME UnHilo, InvarianteS, HayLugar, NEW t \in Hilos, NEW op \in {"SAC_mknod", "SAC_mkdir"},
         NEW e \in Int, Crear(t, op, e)
  PROVE  InvarianteS'
<1> DEFINE path == pedido[t].path
           n == check_existance_and_availability(path)
           parent == get_parent_node(path)
<1>1. /\ pc[t] = "recibido" /\ pedido[t].op = op /\ UNCHANGED <<metadatos, bloques>>
      /\ \/ n < 0 /\ Contestar(t, Falla(-n))
         \/ n >= 0 /\ parent = -ENOTDIR /\ Contestar(t, Falla(e))
         \/ /\ n >= 0 /\ parent # -ENOTDIR
            /\ Seguir(t, "ocupar", [local[t] EXCEPT !.nodo = n, !.padre = parent])
  BY DEF Crear, En
<1>2. pc[t] # "libre" /\ pc[t] \notin EnBloques
  BY <1>1 DEF EnBloques
<1>3. TiposS /\ InvPunto(t)
  BY DEF InvarianteS
<1>4. pedido[t] \in Pedidos /\ get_avail_node \in Nodo /\ tabla[get_avail_node].state = 0
  BY <1>1, Permitido
<1>5. n \in Int /\ (n >= 0 => n \in Nodo /\ tabla[n].state = 0)
  BY <1>4, Constantes DEF check_existance_and_availability, EEXIST
<1>6. parent \in Nat \cup {-ENOTDIR}
  <2>1. path \in Seq(Nombre)
    BY <1>4, PedidosAssumption
  <2>2. PICK q : q = path
    OBVIOUS
  <2> QED BY <2>1, <2>2, Padre
<1> HIDE DEF n, parent
<1>7. CASE ~ (n >= 0 /\ parent # -ENOTDIR)
  <2>1. PICK a \in Respuesta : Contestar(t, a)
    <3>1. -n \in Int
      BY <1>5
    <3> QED BY <1>1, <1>7, <3>1, EnterosTipo
  <2> QED BY <1>1, <1>2, <2>1, SoloContesta
<1>8. CASE n >= 0 /\ parent # -ENOTDIR
  <2>1. n \in Nodo /\ tabla[n].state = 0 /\ parent \in Nat
    BY <1>5, <1>6, <1>8
  <2>2. PICK l : l = [local[t] EXCEPT !.nodo = n, !.padre = parent]
    OBVIOUS
  <2>3. /\ pc' = [pc EXCEPT ![t] = "ocupar"] /\ local' = [local EXCEPT ![t] = l]
        /\ UNCHANGED <<pedido, respuesta, tabla, blk_indirect, bitmap, disco>>
    BY <1>1, <1>5, <1>8, <2>2 DEF Seguir, metadatos, bloques
  <2>4. local[t] \in Local
    BY <1>3 DEF TiposS
  <2>5. l \in Local /\ l.nodo = n
    BY <2>1, <2>2, <2>4, Constantes DEF Local
  <2>6. TiposS'
    BY <1>3, <2>3, <2>5 DEF TiposS, Punto
  <2>7. pc'[t] = "ocupar" /\ local'[t] = l
    BY <1>3, <2>3 DEF TiposS
  <2>8. InvPunto(t)'
    BY <1>1, <1>3, <2>1, <2>3, <2>5, <2>7 DEF InvPunto, EnBloques, Reservando
  <2>9. pc'[t] \notin EnBloques
    BY <2>7 DEF EnBloques
  <2>10. \A m \in Nodo : Ocupa(m)' = Ocupa(m)
    BY <2>3 DEF Ocupa
  <2>11. DuenioUnico' /\ BitmapExacto' /\ InvTamanio'
    BY <1>2, <2>3, <2>9, <2>10, Quietud DEF bloques
  <2> QED BY <2>6, <2>8, <2>9, <2>11, FueraDeBloques, PorUnHilo
<1> QED BY <1>7, <1>8

(* A node that was free has no blocks, nor has the file or the directory.    *)
LEMMA PasoOccupyNode ==
  ASSUME UnHilo, InvarianteS, NEW t \in Hilos, occupy_node(t)
  PROVE  InvarianteS'
<1>0. PICK n : n = local[t].nodo
  OBVIOUS
<1> DEFINE r == pedido[t]
           nuevo == [state |-> IF r.op = "SAC_mknod" THEN 1 ELSE 2,
                     fname |-> r.path[Len(r.path)], parent_dir_block |-> local[t].padre,
                     file_size |-> 0, m_date |-> tabla[n].m_date]
<1>1. pc[t] = "ocupar" /\ TiposS /\ InvPunto(t)
  BY DEF occupy_node, InvarianteS
<1>2. n \in Nodo /\ tabla[n].state = 0 /\ r.op \in {"SAC_mknod", "SAC_mkdir"} /\ r \in Pedidos
  BY <1>0, <1>1 DEF InvPunto, TiposS
<1>3. /\ tabla' = [tabla EXCEPT ![n] = nuevo] /\ bitmap' = bitmap /\ disco' = disco
      /\ blk_indirect' = [blk_indirect EXCEPT ![n] =
                            [k \in 0..(BLKINDIRECT - 1) |->
                               IF k < BLKINDIRECT \div 4 THEN 0 ELSE blk_indirect[n][k]]]
      /\ Contestar(t, Entero(0, 0))
  BY <1>0, <1>2 DEF occupy_node, bloques
<1>4. pc[t] # "libre" /\ pc[t] \notin EnBloques /\ Entero(0, 0) \in Respuesta
  BY <1>1, EnterosTipo DEF EnBloques
<1>5. /\ pc' \in [Hilos -> Punto] /\ pedido' \in [Hilos -> Pedidos \cup {Nada}]
      /\ local' \in [Hilos -> Local] /\ respuesta' \in [Hilos -> Respuesta \cup {Nada}]
      /\ pc'[t] \notin EnBloques /\ InvPunto(t)'
      /\ InvReserva(t)' /\ InvLiberacion(t)' /\ InvEspacio(t)'
  BY <1>3, <1>4, AlContestar
<1>6. nuevo \in GFile
  <2>1. r.path \in Seq(Nombre) \ {<<>>}
    BY <1>2, PedidosAssumption
  <2>2. r.path[Len(r.path)] \in Nombre
    BY <2>1
  <2>3. local[t].padre \in Nat /\ tabla[n].m_date \in Nat
    BY <1>1, <1>2 DEF TiposS, Local, GFile
  <2> QED BY <2>2, <2>3 DEF GFile
<1>7. tabla' \in [Nodo -> GFile] /\ tabla'[n] = nuevo /\ \A m \in Nodo \ {n} : tabla'[m] = tabla[m]
  BY <1>1, <1>2, <1>3, <1>6 DEF TiposS
<1>8. blk_indirect' \in [Nodo -> [0..(BLKINDIRECT - 1) -> Bloque]]
      /\ \A m \in Nodo \ {n} : blk_indirect'[m] = blk_indirect[m]
  <2>1. [k \in 0..(BLKINDIRECT - 1) |-> IF k < BLKINDIRECT \div 4 THEN 0 ELSE blk_indirect[n][k]]
          \in [0..(BLKINDIRECT - 1) -> Bloque]
    BY <1>1, <1>2, Constantes DEF TiposS
  <2>2. PICK fila : fila = [k \in 0..(BLKINDIRECT - 1) |->
                               IF k < BLKINDIRECT \div 4 THEN 0 ELSE blk_indirect[n][k]]
    OBVIOUS
  <2>3. fila \in [0..(BLKINDIRECT - 1) -> Bloque] /\ blk_indirect' = [blk_indirect EXCEPT ![n] = fila]
    BY <1>3, <2>1, <2>2
  <2>4. blk_indirect \in [Nodo -> [0..(BLKINDIRECT - 1) -> Bloque]]
    BY <1>1 DEF TiposS
  <2> QED BY <1>2, <2>3, <2>4
<1>9. TiposS'
  BY <1>1, <1>3, <1>5, <1>7, <1>8 DEF TiposS
<1>10. Ocupa(n) = 0 /\ Ocupa(n)' = 0
  <2>1. get_occupied_datablocks_qty(0) = 0
    BY DEF get_occupied_datablocks_qty
  <2>2. tabla'[n].file_size = 0
    BY <1>7
  <2> QED BY <1>2, <2>1, <2>2 DEF Ocupa
<1>11. \A m \in Nodo : Ocupa(m)' = Ocupa(m)
  BY <1>7, <1>10 DEF Ocupa
<1>12. \A m \in Nodo : ~ Cambia(t, m) /\ ~ Cambia(t, m)'
  BY <1>4, <1>5 DEF Cambia
<1>13. \A m \in Nodo : /\ CantDatablocks(m)' = CantDatablocks(m)
                       /\ CantIndirectos(m)' = CantIndirectos(m)
  BY <1>11, <1>12, Cuentas DEF CuentaDe, Techo
<1>14. Lugar' = Lugar
  BY <1>13, MismosLugares
<1>15. CantDatablocks(n) = 0 /\ CantIndirectos(n) = 0
  BY <1>2, <1>10, <1>12, Cuentas, TechoDe DEF CuentaDe
<1>16. \A l \in Lugar : BloqueEn(l)' = BloqueEn(l)
  <2> SUFFICES ASSUME NEW l \in Lugar PROVE BloqueEn(l)' = BloqueEn(l)
    OBVIOUS
  <2>1. PICK m, k : l = <<m, "indirecto", k>> \/ l = <<m, "dato", k>>
    BY Lugares DEF EnLugar
  <2>2. m \in Nodo \ {n}
    <3>1. m \in Nodo /\ (k \in 0..(CantIndirectos(m) - 1) \/ k \in 0..(CantDatablocks(m) - 1))
      BY <2>1, Lugares DEF EnLugar
    <3> QED BY <1>15, <3>1
  <2>3. blk_indirect'[m] = blk_indirect[m]
    BY <1>8, <2>2
  <2>4. BloqueEn(<<m, "indirecto", k>>)' = BloqueEn(<<m, "indirecto", k>>)
    BY SMTT(30), <2>3 DEF BloqueEn
  <2>5. BloqueEn(<<m, "dato", k>>)' = BloqueEn(<<m, "dato", k>>)
    <3>1. disco' = disco
      BY <1>3
    <3> QED BY ONLY <2>3, <3>1, MismoBloque
  <2> QED BY <2>1, <2>4, <2>5
<1>17. InvTamanio'
  BY <1>11 DEF InvarianteS, InvTamanio, MaxDatablocks
<1> QED BY <1>3, <1>5, <1>9, <1>14, <1>16, <1>17, MismosDuenios, PorUnHilo DEF InvarianteS

LEMMA PasoRmdir ==
  ASSUME UnHilo, InvarianteS, HayLugar, NEW t \in Hilos, procesar_rmdir(t)
  PROVE  InvarianteS'
<1> DEFINE n == find_by_path(pedido[t].path)
<1>1. pc[t] = "recibido" /\ pedido[t].op = "SAC_rmdir" /\ TiposS
  BY DEF procesar_rmdir, En, InvarianteS
<1>2. n \in Nodo /\ tabla[n].state = 2 /\ n # -1
  BY <1>1, Permitido
<1>3. /\ tabla' = [tabla EXCEPT ![n].state = 0] /\ Contestar(t, Entero(0, 0))
      /\ UNCHANGED <<blk_indirect, bloques>>
  BY <1>2 DEF procesar_rmdir, bloques
<1>4. pc[t] # "libre" /\ pc[t] \notin EnBloques /\ Entero(0, 0) \in Respuesta
  BY <1>1, EnterosTipo DEF EnBloques
<1> HIDE DEF n
<1>5. PICK g : g = [tabla[n] EXCEPT !.state = 0]
  OBVIOUS
<1>6. tabla' \in [Nodo -> GFile] /\ tabla'[n].state = 0 /\ \A m \in Nodo \ {n} : tabla'[m] = tabla[m]
  <2>1. tabla[n] \in GFile
    BY <1>1, <1>2 DEF TiposS
  <2>2. g \in GFile /\ g.state = 0
    BY <1>5, <2>1 DEF GFile
  <2>3. tabla' = [tabla EXCEPT ![n] = g]
    BY <1>3, <1>5
  <2> QED BY <1>1, <1>2, <2>2, <2>3 DEF TiposS
<1>7. \A m \in Nodo : Ocupa(m)' = Ocupa(m)
  BY <1>2, <1>6 DEF Ocupa
<1> QED BY <1>3, <1>4, <1>6, <1>7, Contesta

LEMMA PasoRename ==
  ASSUME UnHilo, InvarianteS, HayLugar, NEW t \in Hilos, procesar_rename(t)
  PROVE  InvarianteS'
<1> DEFINE r == pedido[t]
           n == find_by_path(r.path)
           p == get_parent_node(r.new_path)
           x == r.new_path[Len(r.new_path)]
<1>1. pc[t] = "recibido" /\ r.op = "SAC_rename" /\ TiposS /\ UNCHANGED <<blk_indirect, bloques>>
  BY DEF procesar_rename, En, InvarianteS
<1>2. IF n = -1 THEN Contestar(t, Falla(ENOENT)) /\ UNCHANGED tabla
      ELSE tabla' = [tabla EXCEPT ![n].parent_dir_block = p, ![n].fname = x] /\ Contestar(t, Entero(0, 0))
  BY DEF procesar_rename
<1>3. pc[t] # "libre" /\ pc[t] \notin EnBloques
  BY <1>1 DEF EnBloques
<1>4. p \in Nat /\ (n # -1 => n \in Nodo) /\ r \in Pedidos
  BY <1>1, Permitido
<1>5. x \in Nombre
  <2>1. r.new_path \in Seq(Nombre) \ {<<>>}
    BY <1>1, <1>4, PedidosAssumption
  <2> QED BY <2>1
<1> HIDE DEF n, p, x
<1>6. CASE n = -1
  <2>1. Falla(ENOENT) \in Respuesta
    BY EnterosTipo DEF ENOENT
  <2>2. UNCHANGED metadatos /\ Contestar(t, Falla(ENOENT))
    BY <1>1, <1>2, <1>6 DEF metadatos
  <2> QED BY <1>1, <1>3, <2>1, <2>2, SoloContesta
<1>7. CASE n # -1
  <2>1. n \in Nodo /\ tabla' = [tabla EXCEPT ![n].parent_dir_block = p, ![n].fname = x]
        /\ Contestar(t, Entero(0, 0)) /\ Entero(0, 0) \in Respuesta
    BY SMTT(30), <1>2, <1>4, <1>7, EnterosTipo
  <2>2. PICK g : g = [tabla[n] EXCEPT !.parent_dir_block = p, !.fname = x]
    OBVIOUS
  <2>3. g \in GFile /\ g.state = tabla[n].state /\ g.file_size = tabla[n].file_size
    BY ZenonT(60), <1>1, <1>4, <1>5, <2>1, <2>2 DEF TiposS, GFile
  <2>4. tabla' = [tabla EXCEPT ![n] = g]
    BY <1>1, <2>1, <2>2 DEF TiposS, GFile
  <2>5. tabla' \in [Nodo -> GFile] /\ tabla'[n] = g /\ \A m \in Nodo \ {n} : tabla'[m] = tabla[m]
    BY ZenonT(60), <1>1, <2>1, <2>3, <2>4 DEF TiposS
  <2>6. \A m \in Nodo : Ocupa(m)' = Ocupa(m)
    BY <2>3, <2>5 DEF Ocupa
  <2> QED BY <1>1, <1>3, <2>1, <2>5, <2>6, Contesta
<1> QED BY <1>6, <1>7

LEMMA PasoUtimens ==
  ASSUME UnHilo, InvarianteS, HayLugar, NEW t \in Hilos, procesar_utimens(t)
  PROVE  InvarianteS'
<1> DEFINE r == pedido[t]
           n == find_by_path(r.path)
           d == r.tv[1]
<1>1. pc[t] = "recibido" /\ r.op = "SAC_utimens" /\ TiposS /\ UNCHANGED <<blk_indirect, bloques>>
  BY DEF procesar_utimens, En, InvarianteS
<1>2. IF n = -1 THEN Contestar(t, Falla(ENOENT)) /\ UNCHANGED tabla
      ELSE tabla' = [tabla EXCEPT ![n].m_date = d] /\ Contestar(t, Entero(0, 0))
  BY DEF procesar_utimens
<1>3. pc[t] # "libre" /\ pc[t] \notin EnBloques
  BY <1>1 DEF EnBloques
<1>4. (n # -1 => n \in Nodo) /\ r \in Pedidos
  BY <1>1, Permitido
<1>5. d \in Nat
  BY <1>1, <1>4, PedidosAssumption
<1> HIDE DEF n, d
<1>6. CASE n = -1
  <2>1. Falla(ENOENT) \in Respuesta
    BY EnterosTipo DEF ENOENT
  <2>2. UNCHANGED metadatos /\ Contestar(t, Falla(ENOENT))
    BY <1>1, <1>2, <1>6 DEF metadatos
  <2> QED BY <1>1, <1>3, <2>1, <2>2, SoloContesta
<1>7. CASE n # -1
  <2>1. n \in Nodo /\ tabla' = [tabla EXCEPT ![n].m_date = d]
        /\ Contestar(t, Entero(0, 0)) /\ Entero(0, 0) \in Respuesta
    <3>1. Entero(0, 0) \in Respuesta
      BY EnterosTipo
    <3>2. n \in Nodo
      BY <1>4, <1>7
    <3> QED BY <1>2, <1>7, <3>1, <3>2
  <2>2. PICK g : g = [tabla[n] EXCEPT !.m_date = d]
    OBVIOUS
  <2>3. g \in GFile /\ g.state = tabla[n].state /\ g.file_size = tabla[n].file_size
    BY ZenonT(60), <1>1, <1>5, <2>1, <2>2 DEF TiposS, GFile
  <2>4. tabla' = [tabla EXCEPT ![n] = g]
    BY <2>1, <2>2
  <2>5. tabla' \in [Nodo -> GFile] /\ tabla'[n] = g /\ \A m \in Nodo \ {n} : tabla'[m] = tabla[m]
    BY <1>1, <2>1, <2>3, <2>4 DEF TiposS
  <2>6. \A m \in Nodo : Ocupa(m)' = Ocupa(m)
    BY <2>3, <2>5 DEF Ocupa
  <2> QED BY <1>1, <1>3, <2>1, <2>5, <2>6, Contesta
<1> QED BY <1>6, <1>7

LEMMA PasoTerminarUnlink ==
  ASSUME UnHilo, InvarianteS, NEW t \in Hilos, TerminarUnlink(t)
  PROVE  InvarianteS'
<1>1. /\ pc[t] = "liberado" /\ Contestar(t, Entero(0, 0)) /\ UNCHANGED <<metadatos, bloques>>
      /\ Entero(0, 0) \in Respuesta
  BY EnterosTipo DEF TerminarUnlink
<1>2. pc[t] # "libre" /\ pc[t] \notin EnBloques
  BY <1>1 DEF EnBloques
<1> QED BY <1>1, <1>2, SoloContesta

-------------------------------------------------------------------------------
(* Steps that enter and leave the loops on the blocks *)

LEMMA MismaPedida ==
  ASSUME NEW t, UNCHANGED pedido
  PROVE  Pedida(t)' = Pedida(t) /\ Final(t)' = Final(t)
BY DEF Final, Pedida, get_occupied_datablocks_qty, get_datablock_index, GBLOCKSIZE

LEMMA AlSeguir ==
  ASSUME InvarianteS, NEW t \in Hilos, NEW e \in Punto, NEW l \in Local, Seguir(t, e, l)
  PROVE  /\ pc' \in [Hilos -> Punto] /\ pedido' \in [Hilos -> Pedidos \cup {Nada}]
         /\ local' \in [Hilos -> Local] /\ respuesta' \in [Hilos -> Respuesta \cup {Nada}]
         /\ pc'[t] = e /\ local'[t] = l /\ pedido' = pedido /\ respuesta' = respuesta
         /\ Final(t)' = Final(t)
<1>1. TiposS
  BY DEF InvarianteS
<1>2. /\ pc' = [pc EXCEPT ![t] = e] /\ local' = [local EXCEPT ![t] = l]
      /\ pedido' = pedido /\ respuesta' = respuesta
  BY DEF Seguir
<1>3. Final(t)' = Final(t)
  BY <1>2, MismaPedida
<1> QED BY <1>1, <1>2, <1>3 DEF TiposS

(* Where a loop starts. *)
Comienzo(t, e, l) ==
  LET op == pedido[t].op
      d == Final(t) - l.faltan
  IN /\ Final(t) <= MaxDatablocks
     /\ Ocupa(l.nodo) = IF e = "liberar" THEN Final(t) + l.faltan ELSE Final(t) - l.faltan
     /\ \/ e = "agrandar" /\ op = "SAC_write" /\ l.faltan = 0
        \/ e = "cortar" /\ op = "SAC_truncate" /\ l.faltan = 0
        \/ /\ e = "liberar" /\ op \in {"SAC_unlink", "SAC_truncate"}
           /\ l.faltan >= 1 /\ l.indir >= 0 /\ l.dentro < PTRBYINDIRECT
           /\ Final(t) + l.faltan - 1 = l.indir * PTRBYINDIRECT + l.dentro
        \/ /\ e = "reservar" /\ op \in {"SAC_write", "SAC_truncate"}
           /\ l.faltan \in 1..Final(t)
           /\ \/ d = 0 /\ l.dentro = 0 /\ l.indir = 0
              \/ l.indir >= 1 /\ l.dentro >= 1 /\ d = (l.indir - 1) * PTRBYINDIRECT + l.dentro
           /\ get_free_blocks >= l.faltan + Techo(Final(t)) - Techo(d)

LEMMA EntraEnBloques ==
  ASSUME UnHilo, InvarianteS, NEW t \in Hilos, pc[t] = "recibido",
         NEW e \in {"agrandar", "cortar", "liberar", "reservar"}, NEW l \in Local, Seguir(t, e, l),
         NEW n \in Nodo, l.nodo = n, Comienzo(t, e, l), UNCHANGED <<blk_indirect, bloques>>,
         tabla' \in [Nodo -> GFile], \A m \in Nodo \ {n} : tabla'[m] = tabla[m],
         tabla'[n].state = IF pedido[t].op = "SAC_unlink" THEN 0 ELSE 1,
         tabla'[n].file_size = tabla[n].file_size, Ocupa(n)' <= MaxDatablocks
  PROVE  InvarianteS'
<1>1. TiposS /\ InvPunto(t) /\ pc[t] \notin EnBloques
  BY DEF InvarianteS, EnBloques
<1>2. e \in Punto
  BY DEF Punto
<1>3. /\ pc' \in [Hilos -> Punto] /\ pedido' \in [Hilos -> Pedidos \cup {Nada}]
      /\ local' \in [Hilos -> Local] /\ respuesta' \in [Hilos -> Respuesta \cup {Nada}]
      /\ pc'[t] = e /\ local'[t] = l /\ pedido' = pedido /\ respuesta' = respuesta
      /\ Final(t)' = Final(t)
  BY <1>2, AlSeguir
<1>4. blk_indirect' = blk_indirect /\ bitmap' = bitmap /\ disco' = disco
  BY DEF bloques
<1>5. TiposS'
  BY <1>1, <1>3, <1>4 DEF TiposS
<1>6. e \in EnBloques
  BY DEF EnBloques
<1>7. \A m \in Nodo : ~ Cambia(t, m) /\ (Cambia(t, m)' <=> m = n)
  BY <1>1, <1>3, <1>6 DEF Cambia
<1>8. \A m \in Nodo \ {n} : Ocupa(m)' = Ocupa(m)
  BY DEF Ocupa
<1>9. CantDatablocks(n)' = Ocupa(n)
  <2>1. CantDatablocks(n)' = IF e = "liberar" THEN Final(t) + l.faltan ELSE Final(t) - l.faltan
    BY <1>3, <1>7, Cuentas DEF CuentaDe
  <2> QED BY <2>1 DEF Comienzo
<1>10. \A m \in Nodo : CantDatablocks(m)' = CantDatablocks(m)
  BY <1>7, <1>8, <1>9, Cuentas DEF CuentaDe
<1>11. \A m \in Nodo : CantIndirectos(m)' = CantIndirectos(m)
  <2>1. pc'[t] \notin {"buscar", "datablock"} /\ pc[t] \notin {"buscar", "datablock"}
    BY <1>3
  <2> QED BY <1>10, <2>1, Cuentas DEF CuentaDe, Techo
<1>12. Lugar' = Lugar
  BY <1>10, <1>11, MismosLugares
<1>13. \A x \in Lugar : BloqueEn(x)' = BloqueEn(x)
  BY <1>4 DEF BloqueEn
<1>14. InvTamanio'
  BY <1>8 DEF InvarianteS, InvTamanio, MaxDatablocks
<1>15. InvPunto(t)'
  BY <1>1, <1>3 DEF InvPunto, Comienzo, EnBloques, Reservando
<1>16. InvReserva(t)' /\ InvLiberacion(t)' /\ InvEspacio(t)'
  <2>1. MaxDatablocks' = MaxDatablocks /\ get_free_blocks' = get_free_blocks
    BY <1>4 DEF MaxDatablocks, get_free_blocks
  <2>2. Reservados(t)' = Final(t) - l.faltan
    BY <1>3 DEF Reservados
  <2>3. InvReserva(t)'
    BY <1>3, <2>1, <2>2 DEF InvReserva, Comienzo, Reservando
  <2>4. InvLiberacion(t)'
    <3>1. Ocupa(n) <= MaxDatablocks
      BY DEF InvarianteS, InvTamanio
    <3> QED BY <1>3, <2>1, <3>1 DEF InvLiberacion, Comienzo
  <2>5. InvEspacio(t)'
    <3>1. e = "reservar" => IndirectosHechos(t)' = Techo(Final(t) - l.faltan)
      BY <1>3, <2>2 DEF IndirectosHechos, Techo
    <3>2. Techo(Final(t))' = Techo(Final(t))
      BY <1>3 DEF Techo
    <3> QED BY <1>3, <2>1, <3>1, <3>2 DEF InvEspacio, Comienzo, Reservando
  <2> QED BY <2>3, <2>4, <2>5
<1> QED BY <1>4, <1>5, <1>12, <1>13, <1>14, <1>15, <1>16, MismosDuenios, PorUnHilo DEF InvarianteS

(* The last of q blocks: an indirect block and a position within it. *)
LEMMA UltimoBloque ==
  ASSUME NEW q \in Nat \ {0}, q <= MaxDatablocks
  PROVE  /\ (q - 1) \div PTRBYINDIRECT \in 0..(BLKINDIRECT - 1)
         /\ (q - 1) % PTRBYINDIRECT \in 0..(PTRBYINDIRECT - 1)
         /\ q - 1 = ((q - 1) \div PTRBYINDIRECT) * PTRBYINDIRECT + ((q - 1) % PTRBYINDIRECT)
<1>1. q - 1 \in Nat /\ q <= BLKINDIRECT * PTRBYINDIRECT
  BY DEF MaxDatablocks
<1>2. Techo(q) <= BLKINDIRECT /\ Techo(q) = ((q - 1) \div PTRBYINDIRECT) + 1
  BY <1>1, Constantes, TechoOrden, TechoDe
<1> QED BY <1>1, <1>2, Constantes, Division

LEMMA DesdeElUltimo ==
  ASSUME NEW l \in Local, NEW n \in Nat, NEW q \in Nat, NEW final \in Nat, q < final,
         final <= MaxDatablocks, NEW r, r = ALReservar(l, n, q, final)
  PROVE  /\ r \in Local /\ r.nodo = n /\ r.faltan = final - q
         /\ \/ q = 0 /\ r.dentro = 0 /\ r.indir = 0
            \/ r.indir >= 1 /\ r.dentro >= 1 /\ q = (r.indir - 1) * PTRBYINDIRECT + r.dentro
<1> DEFINE dentro == IF q = 0 THEN 0 ELSE ((q - 1) % PTRBYINDIRECT) + 1
           indir == IF q = 0 THEN 0 ELSE ((q - 1) \div PTRBYINDIRECT) + 1
<1>2. MaxDatablocks \in Nat
  BY Constantes DEF MaxDatablocks
<1>3. /\ dentro \in 0..PTRBYINDIRECT /\ indir \in -1..BLKINDIRECT
      /\ \/ q = 0 /\ dentro = 0 /\ indir = 0
         \/ indir >= 1 /\ dentro >= 1 /\ q = (indir - 1) * PTRBYINDIRECT + dentro
  <2>1. CASE q = 0
    BY <2>1, Constantes
  <2>2. CASE q # 0
    <3>1. PICK i, j : i = (q - 1) \div PTRBYINDIRECT /\ j = (q - 1) % PTRBYINDIRECT
      OBVIOUS
    <3>2. i \in 0..(BLKINDIRECT - 1) /\ j \in 0..(PTRBYINDIRECT - 1) /\ q - 1 = i * PTRBYINDIRECT + j
      BY <1>2, <2>2, <3>1, UltimoBloque
    <3>3. dentro = j + 1 /\ indir = i + 1
      BY <2>2, <3>1
    <3>4. i * PTRBYINDIRECT \in Int /\ (i + 1) - 1 = i
      BY <3>2, Productos
    <3>5. q = i * PTRBYINDIRECT + (j + 1)
      BY <3>2, <3>4, Constantes
    <3> HIDE DEF dentro, indir
    <3>6. (indir - 1) * PTRBYINDIRECT = i * PTRBYINDIRECT
      BY <3>2, <3>3, <3>4
    <3> QED BY <3>2, <3>3, <3>4, <3>5, <3>6, Constantes
  <2> QED BY <2>1, <2>2
<1>4. r = [l EXCEPT !.nodo = n, !.faltan = final - q, !.dentro = dentro, !.indir = indir]
  BY DEF ALReservar
<1> HIDE DEF dentro, indir
<1>5. final - q \in Nat
  OBVIOUS
<1>6. r \in Local /\ r.nodo = n /\ r.faltan = final - q /\ r.dentro = dentro /\ r.indir = indir
  BY <1>3, <1>4, <1>5 DEF Local
<1> QED BY <1>3, <1>6

LEMMA InicialTipo == LocalInicial \in Local /\ LocalInicial.faltan = 0
BY Constantes DEF LocalInicial, Local

(* The node is free, its blocks are still to be freed. *)
LEMMA PasoUnlink ==
  ASSUME UnHilo, InvarianteS, HayLugar, NEW t \in Hilos, procesar_unlink(t)
  PROVE  InvarianteS'
<1>1. PICK n, q : n = find_by_path(pedido[t].path) /\ q = get_occupied_datablocks_qty(tabla[n].file_size)
  OBVIOUS
<1>2. /\ pc[t] = "recibido" /\ pedido[t].op = "SAC_unlink" /\ UNCHANGED <<blk_indirect, bloques>>
      /\ IF n = -1 THEN Contestar(t, Falla(ENOENT)) /\ UNCHANGED tabla
         ELSE /\ tabla' = [tabla EXCEPT ![n].state = 0]
              /\ IF q = 0 THEN Contestar(t, Entero(0, 0))
                 ELSE Seguir(t, "liberar", [local[t] EXCEPT !.nodo = n, !.faltan = q,
                               !.dentro = (q - 1) % PTRBYINDIRECT,
                               !.indir = (q - 1) \div PTRBYINDIRECT])
  BY <1>1 DEF procesar_unlink, En
<1>3. pc[t] # "libre" /\ pc[t] \notin EnBloques /\ TiposS
  BY SMTT(30), <1>2 DEF EnBloques, InvarianteS
<1>4. pedido[t] \in Pedidos /\ local[t] = LocalInicial
      /\ (n # -1 => n \in Nodo /\ tabla[n].state = 1)
  BY <1>1, <1>2, Permitido
<1>5. CASE n = -1
  <2>1. Falla(ENOENT) \in Respuesta
    BY EnterosTipo DEF ENOENT
  <2> QED BY <1>2, <1>3, <1>5, <2>1, SoloContesta DEF metadatos
<1>6. CASE n # -1
  <2>1. n \in Nodo /\ tabla[n].state = 1 /\ tabla[n] \in GFile
    BY <1>3, <1>4, <1>6 DEF TiposS
  <2>2. PICK g : g = [tabla[n] EXCEPT !.state = 0]
    OBVIOUS
  <2>3. g \in GFile /\ g.state = 0 /\ g.file_size = tabla[n].file_size
    BY <2>1, <2>2 DEF GFile
  <2>4. tabla' = [tabla EXCEPT ![n] = g]
    BY <1>2, <1>6, <2>2
  <2>5. tabla' \in [Nodo -> GFile] /\ tabla'[n] = g /\ \A m \in Nodo \ {n} : tabla'[m] = tabla[m]
    BY <1>3, <2>1, <2>3, <2>4 DEF TiposS
  <2>6. q = Ocupa(n) /\ q \in 0..MaxDatablocks /\ Ocupa(n)' = 0
    <3>1. q = Ocupa(n) /\ Ocupa(n)' = 0
      BY <1>1, <2>1, <2>3, <2>5 DEF Ocupa
    <3>2. q \in Nat /\ q <= MaxDatablocks /\ MaxDatablocks \in Nat
      BY <1>3, <2>1, <3>1, OcupaTipo, Constantes DEF InvarianteS, InvTamanio, TiposS, MaxDatablocks
    <3> QED BY <3>1, <3>2
  <2>7. CASE q = 0
    <3>1. Entero(0, 0) \in Respuesta
      BY EnterosTipo
    <3>2. \A m \in Nodo : Ocupa(m)' = Ocupa(m)
      BY <2>5, <2>6, <2>7 DEF Ocupa
    <3> QED BY <1>2, <1>3, <1>6, <2>5, <2>7, <3>1, <3>2, Contesta
  <2>8. CASE q # 0
    <3>1. PICK i, j : i = (q - 1) \div PTRBYINDIRECT /\ j = (q - 1) % PTRBYINDIRECT
      OBVIOUS
    <3>2. i \in 0..(BLKINDIRECT - 1) /\ j \in 0..(PTRBYINDIRECT - 1) /\ q - 1 = i * PTRBYINDIRECT + j
      BY <2>6, <2>8, <3>1, UltimoBloque
    <3>3. PICK l : l = [local[t] EXCEPT !.nodo = n, !.faltan = q, !.dentro = j, !.indir = i]
      OBVIOUS
    <3>4. Seguir(t, "liberar", l)
      BY <1>2, <1>6, <2>8, <3>1, <3>3
    <3>5. n \in Nat /\ q \in Nat
      BY <2>1, <2>6, Constantes
    <3>6. l \in Local /\ l.nodo = n /\ l.faltan = q /\ l.dentro = j /\ l.indir = i
      <4>1. local[t] \in Local
        BY <1>4, InicialTipo
      <4>2. j \in 0..PTRBYINDIRECT /\ i \in -1..BLKINDIRECT
        BY <3>2, Constantes
      <4> QED BY <3>3, <3>5, <4>1, <4>2 DEF Local
    <3>7. Final(t) = 0
      <4>1. Pedida(t) = 0
        BY <1>2 DEF Pedida
      <4> QED BY <4>1 DEF Final, get_occupied_datablocks_qty
    <3>8. Comienzo(t, "liberar", l)
      <4>1. Final(t) + l.faltan = q /\ Final(t) + l.faltan - 1 = l.indir * PTRBYINDIRECT + l.dentro
        BY <3>2, <3>5, <3>6, <3>7
      <4>2. l.faltan >= 1 /\ l.indir >= 0 /\ l.dentro < PTRBYINDIRECT
        <5>1. q >= 1 /\ i >= 0 /\ j < PTRBYINDIRECT
          BY <2>8, <3>2, <3>5, Constantes
        <5> QED BY <3>6, <5>1
      <4>3. Final(t) <= MaxDatablocks
        BY <3>7, Constantes DEF MaxDatablocks
      <4> QED BY <1>2, <2>6, <3>6, <4>1, <4>2, <4>3 DEF Comienzo
    <3>9. MaxDatablocks \in Nat
      BY Constantes DEF MaxDatablocks
    <3> QED BY <1>2, <2>1, <2>3, <2>5, <2>6, <3>4, <3>6, <3>8, <3>9, EntraEnBloques
  <2> QED BY <2>7, <2>8
<1> QED BY <1>5, <1>6

(* The file of a write or of a truncation, and what it has and needs.        *)
LEMMA ParaCrecer ==
  ASSUME UnHilo, InvarianteS, HayLugar, NEW t \in Hilos, pc[t] = "recibido",
         pedido[t].op \in {"SAC_write", "SAC_truncate"},
         NEW n, n = find_by_path(pedido[t].path), n # -1
  PROVE  /\ n \in Nodo /\ n \in Nat /\ tabla[n] \in GFile /\ tabla[n].state = 1
         /\ pedido[t] \in Pedidos /\ local[t] \in Local /\ local[t].faltan = 0
         /\ Ocupa(n) = get_occupied_datablocks_qty(tabla[n].file_size)
         /\ Ocupa(n) = Techo(tabla[n].file_size) /\ tabla[n].file_size \in Nat
         /\ Ocupa(n) \in 0..MaxDatablocks /\ Final(t) \in 0..MaxDatablocks
         /\ Pedida(t) \in Nat /\ Final(t) = Techo(Pedida(t))
<1>1. /\ pedido[t] \in Pedidos /\ local[t] = LocalInicial /\ n \in Nodo /\ tabla[n].state = 1
      /\ Pedida(t) <= MaxDatablocks * PTRBYINDIRECT
  BY Permitido
<1>2. TiposS /\ Ocupa(n) <= MaxDatablocks
  BY <1>1 DEF InvarianteS, InvTamanio
<1>3. n \in Nat /\ tabla[n] \in GFile /\ tabla[n].file_size \in Nat /\ MaxDatablocks \in Nat
  BY <1>1, <1>2, Constantes DEF TiposS, GFile, MaxDatablocks
<1>4. Ocupa(n) = get_occupied_datablocks_qty(tabla[n].file_size)
  BY <1>1 DEF Ocupa
<1>5. Ocupa(n) = Techo(tabla[n].file_size) /\ Ocupa(n) \in Nat
  BY <1>3, <1>4, Cantidades
<1>6. Pedida(t) \in Nat /\ Final(t) = Techo(Pedida(t)) /\ Final(t) \in Nat
  BY <1>1, PedidaTipo
<1>7. Final(t) <= MaxDatablocks
  BY <1>1, <1>3, <1>6, TechoOrden
<1>8. local[t] \in Local /\ local[t].faltan = 0
  BY <1>1, InicialTipo
<1> QED BY <1>1, <1>2, <1>3, <1>4, <1>5, <1>6, <1>7, <1>8

LEMMA EntraEnReserva ==
  ASSUME UnHilo, InvarianteS, HayLugar, NEW t \in Hilos, pc[t] = "recibido",
         pedido[t].op \in {"SAC_write", "SAC_truncate"},
         NEW n, n = find_by_path(pedido[t].path), n # -1, Ocupa(n) < Final(t),
         is_enough_blocks(tabla[n].file_size, Pedida(t)),
         Seguir(t, "reservar", ALReservar(local[t], n, Ocupa(n), Final(t))),
         UNCHANGED <<metadatos, bloques>>
  PROVE  InvarianteS'
<1>1. /\ n \in Nodo /\ n \in Nat /\ tabla[n] \in GFile /\ tabla[n].state = 1
      /\ pedido[t] \in Pedidos /\ local[t] \in Local
      /\ Ocupa(n) = Techo(tabla[n].file_size) /\ tabla[n].file_size \in Nat
      /\ Ocupa(n) \in 0..MaxDatablocks /\ Final(t) \in 0..MaxDatablocks
      /\ Pedida(t) \in Nat /\ Final(t) = Techo(Pedida(t))
  BY ParaCrecer
<1>2. MaxDatablocks \in Nat
  BY Constantes DEF MaxDatablocks
<1>3. PICK q, f : q = Ocupa(n) /\ f = Final(t)
  OBVIOUS
<1>4. PICK l : l = ALReservar(local[t], n, q, f)
  OBVIOUS
<1>5. q \in Nat /\ f \in Nat /\ q < f /\ f <= MaxDatablocks
  BY <1>1, <1>2, <1>3
<1>6. /\ l \in Local /\ l.nodo = n /\ l.faltan = f - q
      /\ \/ q = 0 /\ l.dentro = 0 /\ l.indir = 0
         \/ l.indir >= 1 /\ l.dentro >= 1 /\ q = (l.indir - 1) * PTRBYINDIRECT + l.dentro
  <2>1. PICK o : o = local[t]
    OBVIOUS
  <2>2. o \in Local /\ n \in Nat /\ l = ALReservar(o, n, q, f)
    BY <1>1, <1>4, <2>1
  <2>3. q \in Nat /\ f \in Nat /\ q < f /\ f <= MaxDatablocks
    BY <1>5
  <2> QED BY ONLY SMTT(30), <2>2, <2>3, DesdeElUltimo
<1>7. get_free_blocks >= l.faltan + Techo(f) - Techo(q)
  <2>1. get_occupied_total_blocks_qty(Pedida(t)) = f + Techo(f) /\ Techo(f) \in Nat
    BY <1>1, <1>3, Cantidades
  <2>2. get_occupied_total_blocks_qty(tabla[n].file_size) = q + Techo(q) /\ Techo(q) \in Nat
    BY <1>1, <1>3, Cantidades
  <2>3. get_free_blocks \in Nat
    BY Libres
  <2> QED BY <1>5, <1>6, <2>1, <2>2, <2>3 DEF is_enough_blocks
<1>8. Comienzo(t, "reservar", l)
  <2>1. Final(t) - l.faltan = q /\ l.faltan \in 1..Final(t) /\ Final(t) <= MaxDatablocks
    BY <1>3, <1>5, <1>6
  <2>2. Ocupa(l.nodo) = Final(t) - l.faltan
    BY <1>3, <1>6, <2>1
  <2> QED BY <1>3, <1>6, <1>7, <2>1, <2>2 DEF Comienzo
<1>9. /\ tabla' = tabla /\ UNCHANGED <<blk_indirect, bloques>> /\ tabla' \in [Nodo -> GFile]
      /\ Ocupa(n)' = Ocupa(n)
  BY DEF metadatos, InvarianteS, TiposS, Ocupa
<1>10. Seguir(t, "reservar", l) /\ Ocupa(n)' <= MaxDatablocks
  BY <1>1, <1>2, <1>3, <1>4, <1>9
<1>11. tabla'[n].state = IF pedido[t].op = "SAC_unlink" THEN 0 ELSE 1
  BY <1>1, <1>9
<1> QED BY <1>1, <1>6, <1>8, <1>9, <1>10, <1>11, EntraEnBloques

(* Nothing to reserve nor to free. *)
LEMMA EntraEnTamanio ==
  ASSUME UnHilo, InvarianteS, HayLugar, NEW t \in Hilos, pc[t] = "recibido",
         NEW e, \/ e = "agrandar" /\ pedido[t].op = "SAC_write"
                \/ e = "cortar" /\ pedido[t].op = "SAC_truncate",
         NEW n, n = find_by_path(pedido[t].path), n # -1, Ocupa(n) = Final(t),
         Seguir(t, e, [local[t] EXCEPT !.nodo = n]), UNCHANGED <<metadatos, bloques>>
  PROVE  InvarianteS'
<1>1. /\ n \in Nodo /\ n \in Nat /\ tabla[n].state = 1 /\ local[t] \in Local /\ local[t].faltan = 0
      /\ Ocupa(n) \in 0..MaxDatablocks /\ Final(t) \in 0..MaxDatablocks
  BY ParaCrecer
<1>2. MaxDatablocks \in Nat
  BY Constantes DEF MaxDatablocks
<1>3. PICK l : l = [local[t] EXCEPT !.nodo = n]
  OBVIOUS
<1>4. l \in Local /\ l.nodo = n /\ l.faltan = 0
  BY <1>1, <1>3 DEF Local
<1>5. Comienzo(t, e, l)
  BY <1>1, <1>2, <1>4 DEF Comienzo
<1>6. /\ tabla' = tabla /\ UNCHANGED <<blk_indirect, bloques>> /\ tabla' \in [Nodo -> GFile]
      /\ Ocupa(n)' = Ocupa(n)
  BY DEF metadatos, InvarianteS, TiposS, Ocupa
<1>7. Seguir(t, e, l) /\ Ocupa(n)' <= MaxDatablocks
  BY <1>1, <1>2, <1>3, <1>6
<1>8. tabla'[n].state = IF pedido[t].op = "SAC_unlink" THEN 0 ELSE 1
  BY <1>1, <1>6
<1> QED BY <1>1, <1>4, <1>5, <1>6, <1>7, <1>8, EntraEnBloques

(* A write up to the end of the file or beyond it. *)
LEMMA PasoWrite ==
  ASSUME UnHilo, InvarianteS, HayLugar, NEW t \in Hilos, procesar_write(t)
  PROVE  InvarianteS'
<1>1. PICK n, fin, q, f : /\ n = find_by_path(pedido[t].path)
                          /\ fin = pedido[t].offset + Len(pedido[t].datos)
                          /\ q = get_occupied_datablocks_qty(tabla[n].file_size)
                          /\ f = get_occupied_datablocks_qty(fin)
  OBVIOUS
<1>2. /\ pc[t] = "recibido" /\ pedido[t].op = "SAC_write" /\ UNCHANGED <<metadatos, bloques>>
      /\ IF n = -1 THEN Contestar(t, Falla(ENOENT))
         ELSE IF fin <= tabla[n].file_size THEN Seguir(t, "escribir", [local[t] EXCEPT !.nodo = n])
         ELSE IF f > q THEN Seguir(t, "reservar", ALReservar(local[t], n, q, f))
         ELSE Seguir(t, "agrandar", [local[t] EXCEPT !.nodo = n])
  BY <1>1 DEF procesar_write, En
<1>3. pc[t] # "libre" /\ pc[t] \notin EnBloques /\ TiposS /\ InvPunto(t)
  BY <1>2 DEF EnBloques, InvarianteS
<1>4. CASE n = -1
  <2>1. Falla(ENOENT) \in Respuesta
    BY EnterosTipo DEF ENOENT
  <2> QED BY <1>2, <1>3, <1>4, <2>1, SoloContesta
<1>5. CASE n # -1
  <2>1. fin = Pedida(t) /\ f = Final(t)
    BY <1>1, <1>2 DEF Pedida, Final
  <2>2. /\ n \in Nodo /\ n \in Nat /\ tabla[n].state = 1 /\ local[t] \in Local
        /\ q = Ocupa(n) /\ q = Techo(tabla[n].file_size) /\ tabla[n].file_size \in Nat
        /\ q \in Nat /\ f \in Nat /\ fin \in Nat /\ f = Techo(fin)
    <3>1. MaxDatablocks \in Nat
      BY Constantes DEF MaxDatablocks
    <3> QED BY SMTT(30), <1>1, <1>2, <1>5, <2>1, <3>1, ParaCrecer
  <2>3. fin <= tabla[n].file_size \/ is_enough_blocks(tabla[n].file_size, Pedida(t))
    BY <1>1, <1>2, <1>5, <2>1, Permitido
  <2>4. CASE fin <= tabla[n].file_size
    <3>1. PICK l : l = [local[t] EXCEPT !.nodo = n]
      OBVIOUS
    <3>2. l \in Local /\ l.nodo = n
      BY <2>2, <3>1 DEF Local
    <3>3. Seguir(t, "escribir", l)
      BY <1>2, <1>5, <2>4, <3>1
    <3>4. /\ pc' \in [Hilos -> Punto] /\ pedido' \in [Hilos -> Pedidos \cup {Nada}]
          /\ local' \in [Hilos -> Local] /\ respuesta' \in [Hilos -> Respuesta \cup {Nada}]
          /\ pc'[t] = "escribir" /\ local'[t] = l /\ pedido' = pedido /\ respuesta' = respuesta
      BY <3>2, <3>3, AlSeguir DEF Punto
    <3>5. TiposS' /\ tabla' = tabla /\ pc'[t] \notin EnBloques
      BY <1>2, <1>3, <3>4 DEF TiposS, metadatos, bloques, EnBloques
    <3>6. Pedida(t)' = fin
      BY <2>1, <3>4, MismaPedida
    <3>7. InvPunto(t)'
      BY <1>2, <1>3, <2>2, <2>4, <3>2, <3>4, <3>5, <3>6 DEF InvPunto, EnBloques, Reservando
    <3>8. \A m \in Nodo : Ocupa(m)' = Ocupa(m)
      BY <3>5 DEF Ocupa
    <3>9. DuenioUnico' /\ BitmapExacto' /\ InvTamanio'
      BY SMTT(30), <1>2, <1>3, <3>5, <3>8, Quietud DEF metadatos
    <3> QED BY <3>5, <3>7, <3>9, FueraDeBloques, PorUnHilo
  <2>5. CASE ~ (fin <= tabla[n].file_size) /\ f > q
    <3>1. Seguir(t, "reservar", ALReservar(local[t], n, Ocupa(n), Final(t)))
      BY <1>2, <1>5, <2>1, <2>2, <2>5
    <3> QED BY <1>1, <1>2, <1>5, <2>1, <2>2, <2>3, <2>5, <3>1, EntraEnReserva
  <2>6. CASE ~ (fin <= tabla[n].file_size) /\ ~ (f > q)
    <3>1. q = f
      BY <2>2, <2>6, TechoCrece
    <3>2. Seguir(t, "agrandar", [local[t] EXCEPT !.nodo = n])
      BY <1>2, <1>5, <2>6
    <3> QED BY <1>1, <1>2, <1>5, <2>1, <2>2, <3>1, <3>2, EntraEnTamanio
  <2> QED BY <2>4, <2>5, <2>6
<1> QED BY <1>4, <1>5

(* A truncation to a longer or a shorter file. *)
LEMMA PasoTruncate ==
  ASSUME UnHilo, InvarianteS, HayLugar, NEW t \in Hilos, procesar_truncate(t)
  PROVE  InvarianteS'
<1>1. PICK n, q, f : /\ n = find_by_path(pedido[t].path)
                     /\ q = get_occupied_datablocks_qty(tabla[n].file_size)
                     /\ f = get_occupied_datablocks_qty(pedido[t].size)
  OBVIOUS
<1>2. /\ pc[t] = "recibido" /\ pedido[t].op = "SAC_truncate" /\ UNCHANGED <<metadatos, bloques>>
      /\ IF n = -1 THEN Contestar(t, Falla(ENOENT))
         ELSE IF ~ is_enough_blocks(tabla[n].file_size, pedido[t].size)
           THEN Contestar(t, Falla(EFBIG))
         ELSE IF q > f
           THEN Seguir(t, "liberar", [local[t] EXCEPT !.nodo = n, !.faltan = q - f,
                         !.dentro = (q - 1) % PTRBYINDIRECT, !.indir = (q - 1) \div PTRBYINDIRECT])
         ELSE IF q < f THEN Seguir(t, "reservar", ALReservar(local[t], n, q, f))
         ELSE Seguir(t, "cortar", [local[t] EXCEPT !.nodo = n])
  BY <1>1 DEF procesar_truncate, En
<1>3. pc[t] # "libre" /\ pc[t] \notin EnBloques
  BY <1>2 DEF EnBloques
<1>4. ASSUME NEW e \in Int, Contestar(t, Falla(e)) PROVE InvarianteS'
  <2>1. Falla(e) \in Respuesta
    BY EnterosTipo
  <2> QED BY <1>2, <1>3, <1>4, <2>1, SoloContesta
<1>5. CASE n = -1
  BY <1>2, <1>4, <1>5 DEF ENOENT
<1>6. CASE n # -1 /\ ~ is_enough_blocks(tabla[n].file_size, pedido[t].size)
  BY <1>2, <1>4, <1>6 DEF EFBIG
<1>7. CASE n # -1 /\ is_enough_blocks(tabla[n].file_size, pedido[t].size)
  <2>1. pedido[t].size = Pedida(t) /\ f = Final(t)
    BY SMTT(30), <1>1, <1>2 DEF Pedida, Final
  <2>2. MaxDatablocks \in Nat
    BY Constantes DEF MaxDatablocks
  <2>3. /\ n \in Nodo /\ n \in Nat /\ tabla[n] \in GFile /\ tabla[n].state = 1 /\ local[t] \in Local
        /\ q = Ocupa(n) /\ q \in Nat /\ q <= MaxDatablocks /\ f \in Nat /\ f <= MaxDatablocks
    BY <1>1, <1>2, <1>7, <2>1, <2>2, ParaCrecer
  <2>4. CASE q > f
    <3>1. PICK i, j : i = (q - 1) \div PTRBYINDIRECT /\ j = (q - 1) % PTRBYINDIRECT
      OBVIOUS
    <3>2. i \in 0..(BLKINDIRECT - 1) /\ j \in 0..(PTRBYINDIRECT - 1) /\ q - 1 = i * PTRBYINDIRECT + j
      BY <2>3, <2>4, <3>1, UltimoBloque
    <3>3. PICK l : l = [local[t] EXCEPT !.nodo = n, !.faltan = q - f, !.dentro = j, !.indir = i]
      OBVIOUS
    <3>4. Seguir(t, "liberar", l)
      BY <1>2, <1>7, <2>4, <3>1, <3>3
    <3>5. l \in Local /\ l.nodo = n /\ l.faltan = q - f /\ l.dentro = j /\ l.indir = i
      <4>1. j \in 0..PTRBYINDIRECT /\ i \in -1..BLKINDIRECT /\ q - f \in Nat
        BY <2>3, <2>4, <3>2, Constantes
      <4> QED BY <2>3, <3>3, <4>1 DEF Local
    <3>6. Comienzo(t, "liberar", l)
      <4>1. Final(t) + l.faltan = q
        BY <2>1, <2>3, <3>5
      <4>2. Final(t) + l.faltan - 1 = l.indir * PTRBYINDIRECT + l.dentro
        <5>1. Final(t) + l.faltan - 1 = q - 1
          BY <2>1, <2>3, <3>5
        <5>2. l.indir * PTRBYINDIRECT + l.dentro = i * PTRBYINDIRECT + j
          BY <3>5
        <5> QED BY <3>2, <5>1, <5>2
      <4>3. l.faltan >= 1 /\ l.indir >= 0 /\ l.dentro < PTRBYINDIRECT
        <5>1. q - f >= 1 /\ i >= 0 /\ j < PTRBYINDIRECT
          BY <2>3, <2>4, <3>2, Constantes
        <5> QED BY <3>5, <5>1
      <4> QED BY <1>2, <2>1, <2>3, <3>5, <4>1, <4>2, <4>3 DEF Comienzo
    <3>7. /\ tabla' = tabla /\ UNCHANGED <<blk_indirect, bloques>> /\ tabla' \in [Nodo -> GFile]
          /\ Ocupa(n)' = Ocupa(n)
      BY <1>2 DEF metadatos, InvarianteS, TiposS, Ocupa
    <3>8. tabla'[n].state = IF pedido[t].op = "SAC_unlink" THEN 0 ELSE 1
      BY <1>2, <2>3, <3>7
    <3>9. Ocupa(n)' <= MaxDatablocks
      BY <2>3, <3>7
    <3> QED BY <1>2, <2>3, <3>4, <3>5, <3>6, <3>7, <3>8, <3>9, EntraEnBloques
  <2>5. CASE q < f
    <3>1. ~ (q > f)
      BY <2>3, <2>5
    <3>2. Seguir(t, "reservar", ALReservar(local[t], n, Ocupa(n), Final(t)))
      BY <1>2, <1>7, <2>1, <2>3, <2>5, <3>1
    <3> QED BY <1>1, <1>2, <1>7, <2>1, <2>3, <2>5, <3>2, EntraEnReserva
  <2>6. CASE q = f
    <3>1. ~ (q > f) /\ ~ (q < f)
      BY <2>3, <2>6
    <3>2. Seguir(t, "cortar", [local[t] EXCEPT !.nodo = n])
      BY <1>2, <1>7, <3>1
    <3> QED BY <1>1, <1>2, <1>7, <2>1, <2>3, <2>6, <3>2, EntraEnTamanio
  <2> QED BY <2>3, <2>4, <2>5, <2>6
<1> QED BY <1>5, <1>6, <1>7

(* The size that is set at the end is that of the blocks the file has.       *)
LEMMA AlFijarTamanio ==
  ASSUME UnHilo, InvarianteS, NEW t \in Hilos, pc[t] \in {"agrandar", "cortar"},
         pc'[t] \notin EnBloques, NEW n, n = local[t].nodo,
         tabla' = [tabla EXCEPT ![n].file_size = Pedida(t)]
  PROVE  /\ n \in Nodo /\ CantDatablocks(n) = Techo(Pedida(t)) /\ Pedida(t) \in Nat
         /\ tabla' \in [Nodo -> GFile] /\ Lugar' = Lugar /\ InvTamanio'
<1>1. TiposS /\ InvPunto(t) /\ InvReserva(t) /\ pc[t] \in EnBloques
  BY DEF InvarianteS, EnBloques
<1>2. pedido[t] \in Pedidos /\ n \in Nodo /\ tabla[n].state = 1 /\ local[t].faltan = 0
  BY <1>1 DEF TiposS, InvPunto
<1>3. /\ Pedida(t) \in Nat /\ Final(t) = Techo(Pedida(t)) /\ Final(t) \in Nat
      /\ Final(t) = get_occupied_datablocks_qty(Pedida(t)) /\ Final(t) <= MaxDatablocks
  BY <1>1, <1>2, PedidaTipo DEF InvReserva, Final
<1>4. PICK s, g : s = Pedida(t) /\ g = [tabla[n] EXCEPT !.file_size = s]
  OBVIOUS
<1>5. tabla[n] \in GFile
  BY <1>1, <1>2 DEF TiposS
<1>6. g \in GFile /\ g.file_size = s /\ g.state = 1
  BY <1>2, <1>3, <1>4, <1>5 DEF GFile
<1>7. tabla' = [tabla EXCEPT ![n] = g]
  BY <1>4
<1>8. tabla' \in [Nodo -> GFile] /\ tabla'[n] = g /\ \A m \in Nodo \ {n} : tabla'[m] = tabla[m]
  BY <1>1, <1>2, <1>6, <1>7 DEF TiposS
<1>9. Ocupa(n)' = Final(t) /\ \A m \in Nodo \ {n} : Ocupa(m)' = Ocupa(m)
  <2>1. Ocupa(n)' = Final(t)
    BY <1>3, <1>4, <1>6, <1>8 DEF Ocupa
  <2> QED BY <1>8, <2>1 DEF Ocupa
<1>10. \A m \in Nodo : (Cambia(t, m) <=> m = n) /\ ~ Cambia(t, m)'
  BY <1>1 DEF Cambia
<1>11. CantDatablocks(n) = Final(t)
  <2>1. CantDatablocks(n) = Final(t) - local[t].faltan
    BY <1>2, <1>10, Cuentas DEF CuentaDe
  <2> QED BY <1>2, <1>3, <2>1
<1>12. \A m \in Nodo : CantDatablocks(m)' = CantDatablocks(m)
  BY <1>9, <1>10, <1>11, Cuentas DEF CuentaDe
<1>13. \A m \in Nodo : CantIndirectos(m)' = CantIndirectos(m)
  <2>1. pc[t] \notin {"buscar", "datablock"}
    OBVIOUS
  <2> QED BY <1>10, <1>12, <2>1, Cuentas DEF CuentaDe, Techo
<1>14. Lugar' = Lugar
  BY <1>12, <1>13, MismosLugares
<1>15. InvTamanio'
  BY <1>3, <1>9 DEF InvarianteS, InvTamanio, MaxDatablocks
<1> QED BY <1>2, <1>3, <1>8, <1>11, <1>14, <1>15

LEMMA PasoCortarArchivo ==
  ASSUME UnHilo, InvarianteS, NEW t \in Hilos, CortarArchivo(t)
  PROVE  InvarianteS'
<1>1. PICK n : n = local[t].nodo
  OBVIOUS
<1>2. /\ pc[t] = "cortar" /\ tabla' = [tabla EXCEPT ![n].file_size = pedido[t].size]
      /\ Contestar(t, Entero(0, 0)) /\ UNCHANGED <<blk_indirect, bloques>>
  BY <1>1 DEF CortarArchivo
<1>3. TiposS /\ pedido[t].op = "SAC_truncate" /\ pc[t] # "libre" /\ Entero(0, 0) \in Respuesta
  BY <1>2, EnterosTipo DEF InvarianteS, InvPunto
<1>4. /\ pc' \in [Hilos -> Punto] /\ pedido' \in [Hilos -> Pedidos \cup {Nada}]
      /\ local' \in [Hilos -> Local] /\ respuesta' \in [Hilos -> Respuesta \cup {Nada}]
      /\ pc'[t] \notin EnBloques /\ InvPunto(t)'
      /\ InvReserva(t)' /\ InvLiberacion(t)' /\ InvEspacio(t)'
  BY <1>2, <1>3, AlContestar
<1>5. Pedida(t) = pedido[t].size
  BY <1>3 DEF Pedida
<1>6. tabla' \in [Nodo -> GFile] /\ Lugar' = Lugar /\ InvTamanio'
  BY <1>1, <1>2, <1>4, <1>5, AlFijarTamanio
<1>7. TiposS'
  BY <1>2, <1>3, <1>4, <1>6 DEF TiposS, bloques
<1>8. \A l \in Lugar : BloqueEn(l)' = BloqueEn(l)
  BY <1>2 DEF BloqueEn, bloques
<1> QED BY <1>2, <1>4, <1>6, <1>7, <1>8, MismosDuenios, PorUnHilo DEF InvarianteS, bloques

(* A write changes only cells of data blocks of its file. *)
LEMMA Escritura ==
  ASSUME UnHilo, InvarianteS, NEW t \in Hilos, NEW n \in Nodo, NEW offset \in Nat,
         NEW data \in Seq(Datos),
         \A i \in 1..Len(data) : (offset + i - 1) \div PTRBYINDIRECT \in 0..(CantDatablocks(n) - 1),
         disco' = DiscoEscrito(n, offset, data), UNCHANGED <<blk_indirect, bitmap>>, Lugar' = Lugar
  PROVE  /\ disco' \in [Bloque -> [0..(PTRBYINDIRECT - 1) -> Celda]]
         /\ DuenioUnico' /\ BitmapExacto'
<1> DEFINE Escritas(b, c) == {i \in 1..Len(data) : seek_offset(n, offset + i - 1) = <<b, c>>}
           Nueva(b, c) == IF Escritas(b, c) = {} THEN disco[b][c]
                          ELSE data[CHOOSE i \in Escritas(b, c) : \A j \in Escritas(b, c) : j <= i]
<1>1. TiposS
  BY DEF InvarianteS
<1>2. disco' = [b \in Bloque |-> [c \in 0..(PTRBYINDIRECT - 1) |-> Nueva(b, c)]]
  BY DEF DiscoEscrito
<1>3. ASSUME NEW b \in Bloque, NEW c \in 0..(PTRBYINDIRECT - 1)
      PROVE  Nueva(b, c) \in Celda
  <2>1. CASE Escritas(b, c) = {}
    <3>1. disco[b][c] \in Celda
      BY ZenonT(60), <1>1 DEF TiposS
    <3>2. Nueva(b, c) = disco[b][c]
      BY <2>1
    <3> QED BY <3>1, <3>2
  <2>2. CASE Escritas(b, c) # {}
    <3>1. PICK S : S = Escritas(b, c)
      OBVIOUS
    <3>2. S \subseteq 1..Len(data) /\ S # {} /\ Len(data) \in Nat
      BY <2>2, <3>1
    <3>3. S \subseteq Int /\ IsFiniteSet(S)
      <4>1. PICK T : T = 1..Len(data)
        OBVIOUS
      <4>2. IsFiniteSet(T)
        BY <3>2, <4>1, FS_Interval
      <4>3. S \subseteq T /\ T \subseteq Int
        BY <3>2, <4>1
      <4>4. IsFiniteSet(S)
        BY <4>2, <4>3, FS_Subset
      <4> QED BY <4>3, <4>4
    <3>4. PICK k : k = CHOOSE i \in S : \A j \in S : j <= i
      OBVIOUS
    <3>5. k \in S
      BY <3>2, <3>3, <3>4, Maximo
    <3>6. data[k] \in Datos
      BY <3>2, <3>5
    <3>7. Nueva(b, c) = data[k]
      BY <2>2, <3>1, <3>4
    <3> QED BY <3>6, <3>7, Constantes
  <2> QED BY <2>1, <2>2
<1>4. disco' \in [Bloque -> [0..(PTRBYINDIRECT - 1) -> Celda]]
  <2> HIDE DEF Nueva
  <2> QED BY <1>2, <1>3
<1>5. ASSUME NEW m \in Nodo, NEW k \in 0..(CantIndirectos(m) - 1), NEW c
      PROVE  Escritas(blk_indirect[m][k], c) = {}
  <2> SUFFICES ASSUME NEW i \in 1..Len(data), seek_offset(n, offset + i - 1) = <<blk_indirect[m][k], c>>
               PROVE  FALSE
    OBVIOUS
  <2>1. PICK a : a = offset + i - 1
    OBVIOUS
  <2>2. a \in Nat /\ a \div PTRBYINDIRECT \in 0..(CantDatablocks(n) - 1)
    BY <2>1
  <2>3. PICK x : x = <<n, "dato", a \div PTRBYINDIRECT>>
    OBVIOUS
  <2>4. x \in Lugar /\ seek_offset(n, a) = <<BloqueEn(x), a % PTRBYINDIRECT>>
    BY <2>2, <2>3, Celdas
  <2>5. PICK y : y = <<m, "indirecto", k>>
    OBVIOUS
  <2>6. y \in Lugar /\ BloqueEn(y) = blk_indirect[m][k]
    BY <2>5, Lugares DEF BloqueEn, EnLugar
  <2>7. BloqueEn(x) = BloqueEn(y)
    BY <2>1, <2>4, <2>6
  <2>8. x = y
    BY <2>4, <2>6, <2>7 DEF InvarianteS, DuenioUnico
  <2> QED BY <2>3, <2>5, <2>8
<1>6. \A l \in Lugar : BloqueEn(l)' = BloqueEn(l)
  <2> SUFFICES ASSUME NEW l \in Lugar PROVE BloqueEn(l)' = BloqueEn(l)
    OBVIOUS
  <2>1. PICK m, k : l = <<m, "indirecto", k>> \/ l = <<m, "dato", k>>
    BY Lugares DEF EnLugar
  <2>2. BloqueEn(<<m, "indirecto", k>>)' = BloqueEn(<<m, "indirecto", k>>)
    BY <1>2 DEF BloqueEn
  <2>3. ASSUME l = <<m, "dato", k>>
        PROVE  BloqueEn(<<m, "dato", k>>)' = BloqueEn(<<m, "dato", k>>)
    <3>1. m \in Nodo /\ k \in 0..(CantDatablocks(m) - 1)
      BY <2>3, Lugares DEF EnLugar
    <3>2. PICK q, r : q = k \div PTRBYINDIRECT /\ r = k % PTRBYINDIRECT
      OBVIOUS
    <3>3. q \in 0..(CantIndirectos(m) - 1) /\ r \in 0..(PTRBYINDIRECT - 1) /\ q \in 0..(BLKINDIRECT - 1)
      <4>1. q \in 0..(CantIndirectos(m) - 1) /\ r \in 0..(PTRBYINDIRECT - 1)
        BY <3>1, <3>2, Cotas
      <4>2. CantIndirectos(m) \in 0..BLKINDIRECT
        BY <3>1, Cotas
      <4> QED BY <4>1, <4>2, Constantes
    <3>4. PICK b : b = blk_indirect[m][q]
      OBVIOUS
    <3>5. b \in Bloque
      <4>1. blk_indirect \in [Nodo -> [0..(BLKINDIRECT - 1) -> Bloque]]
        BY <1>1 DEF TiposS
      <4> QED BY <3>1, <3>3, <3>4, <4>1
    <3>6. Escritas(b, r) = {}
      BY <1>5, <3>1, <3>3, <3>4
    <3>7. disco'[b][r] = disco[b][r]
      <4>1. Nueva(b, r) = disco[b][r]
        BY <3>6
      <4> HIDE DEF Nueva
      <4> QED BY <1>2, <3>3, <3>5, <4>1
    <3> QED BY <3>2, <3>4, <3>7 DEF BloqueEn
  <2> QED BY <2>1, <2>2, <2>3
<1> QED BY <1>4, <1>6, MismosDuenios DEF InvarianteS

LEMMA PasoEscribirDatos ==
  ASSUME UnHilo, InvarianteS, NEW t \in Hilos, EscribirDatos(t)
  PROVE  InvarianteS'
<1>1. PICK n, r : n = local[t].nodo /\ r = pedido[t]
  OBVIOUS
<1>2. /\ pc[t] \in {"escribir", "agrandar"} /\ disco' = DiscoEscrito(n, r.offset, r.datos)
      /\ tabla' = IF pc[t] = "escribir" THEN tabla
                  ELSE [tabla EXCEPT ![n].file_size = r.offset + Len(r.datos)]
      /\ Contestar(t, Entero(Len(r.datos), 0)) /\ UNCHANGED <<blk_indirect, bitmap>>
  BY <1>1 DEF EscribirDatos
<1>3. TiposS /\ InvPunto(t) /\ pc[t] # "libre"
  BY <1>2 DEF InvarianteS
<1>4. r \in Pedidos /\ r.op = "SAC_write"
  BY <1>1, <1>2, <1>3 DEF TiposS, InvPunto
<1>5. PICK offset, data : offset = r.offset /\ data = r.datos
  OBVIOUS
<1>6. offset \in Nat /\ data \in Seq(Datos) /\ Len(data) \in Nat
  BY <1>4, <1>5, PedidosAssumption
<1>7. Pedida(t) = offset + Len(data) /\ Pedida(t) \in Nat
  BY SMTT(30), <1>1, <1>4, <1>5, <1>6 DEF Pedida
<1>8. PICK a : a = Entero(Len(data), 0)
  OBVIOUS
<1>9. a \in Respuesta /\ Contestar(t, a)
  <2>1. a \in Respuesta
    BY <1>6, <1>8, EnterosTipo
  <2> QED BY <1>2, <1>5, <1>8, <2>1
<1>10. /\ pc' \in [Hilos -> Punto] /\ pedido' \in [Hilos -> Pedidos \cup {Nada}]
       /\ local' \in [Hilos -> Local] /\ respuesta' \in [Hilos -> Respuesta \cup {Nada}]
       /\ pc'[t] \notin EnBloques /\ InvPunto(t)'
       /\ InvReserva(t)' /\ InvLiberacion(t)' /\ InvEspacio(t)'
  BY <1>3, <1>9, AlContestar
<1>11. PICK s : /\ s \in Nat /\ Pedida(t) <= s /\ CantDatablocks(n) = Techo(s) /\ n \in Nodo
                /\ tabla' \in [Nodo -> GFile] /\ Lugar' = Lugar /\ InvTamanio'
  <2>1. CASE pc[t] = "escribir"
    <3>1. n \in Nodo /\ tabla[n].state = 1 /\ Pedida(t) <= tabla[n].file_size /\ tabla' = tabla
      BY <1>1, <1>2, <1>3, <2>1 DEF InvPunto
    <3>2. tabla[n].file_size \in Nat
      BY <1>3, <3>1 DEF TiposS, GFile
    <3>3. \A m \in Nodo : ~ Cambia(t, m) /\ ~ Cambia(t, m)'
      BY <1>10, <2>1 DEF Cambia, EnBloques
    <3>4. \A m \in Nodo : Ocupa(m)' = Ocupa(m)
      BY <3>1 DEF Ocupa
    <3>5. \A m \in Nodo : CantDatablocks(m)' = CantDatablocks(m) /\ CantIndirectos(m)' = CantIndirectos(m)
      BY <3>3, <3>4, Cuentas DEF CuentaDe, Techo
    <3>6. Lugar' = Lugar
      BY <3>5, MismosLugares
    <3>7. CantDatablocks(n) = Techo(tabla[n].file_size)
      BY <3>1, <3>2, <3>3, Cuentas, Cantidades DEF CuentaDe, Ocupa
    <3>8. InvTamanio'
      BY <3>4 DEF InvarianteS, InvTamanio, MaxDatablocks
    <3> QED BY <1>3, <3>1, <3>2, <3>6, <3>7, <3>8 DEF TiposS
  <2>2. CASE pc[t] = "agrandar"
    <3>1. tabla' = [tabla EXCEPT ![n].file_size = Pedida(t)]
      BY <1>2, <1>5, <1>7, <2>2
    <3>2. /\ n \in Nodo /\ CantDatablocks(n) = Techo(Pedida(t))
          /\ tabla' \in [Nodo -> GFile] /\ Lugar' = Lugar /\ InvTamanio'
      BY <1>1, <1>10, <2>2, <3>1, AlFijarTamanio
    <3> QED BY <1>7, <3>2
  <2> QED BY <1>2, <2>1, <2>2
<1>12. \A i \in 1..Len(data) : (offset + i - 1) \div PTRBYINDIRECT \in 0..(CantDatablocks(n) - 1)
  <2> SUFFICES ASSUME NEW i \in 1..Len(data)
               PROVE  (offset + i - 1) \div PTRBYINDIRECT \in 0..(CantDatablocks(n) - 1)
    OBVIOUS
  <2>1. PICK c : c = offset + i - 1
    OBVIOUS
  <2>2. c \in Nat /\ c < s
    BY <1>6, <1>7, <1>11, <2>1
  <2> QED BY <1>11, <2>1, <2>2, DentroDe
<1>13. disco' \in [Bloque -> [0..(PTRBYINDIRECT - 1) -> Celda]] /\ DuenioUnico' /\ BitmapExacto'
  BY <1>2, <1>5, <1>6, <1>11, <1>12, Escritura
<1>14. TiposS'
  BY <1>2, <1>3, <1>10, <1>11, <1>13 DEF TiposS
<1> QED BY <1>10, <1>11, <1>13, <1>14, PorUnHilo

-------------------------------------------------------------------------------
(* Steps of the loops on the blocks *)

(* A set of places is known by its pairs of a node and a pointer. *)
LEMMA IgualesLugares ==
  ASSUME NEW S, \A y \in S : \E n, k : y = <<n, "indirecto", k>> \/ y = <<n, "dato", k>>,
         \A n, k : <<n, "indirecto", k>> \in Lugar' <=> <<n, "indirecto", k>> \in S,
         \A n, k : <<n, "dato", k>> \in Lugar' <=> <<n, "dato", k>> \in S
  PROVE  Lugar' = S
<1>1. \A y \in Lugar' : \E n, k : y = <<n, "indirecto", k>> \/ y = <<n, "dato", k>>
  BY Lugares DEF EnLugar
<1> QED BY <1>1

LEMMA MasIndirecto ==
  ASSUME NEW n \in Nodo, NEW i \in Nat, CantIndirectos(n) = i, CantIndirectos(n)' = i + 1,
         \A m \in Nodo : CantDatablocks(m)' = CantDatablocks(m),
         \A m \in Nodo \ {n} : CantIndirectos(m)' = CantIndirectos(m)
  PROVE  Lugar' = Lugar \cup {<<n, "indirecto", i>>} /\ <<n, "indirecto", i>> \notin Lugar
<1> DEFINE x == <<n, "indirecto", i>>
<1>1. \A y \in Lugar \cup {x} : \E m, k : y = <<m, "indirecto", k>> \/ y = <<m, "dato", k>>
  BY Lugares DEF EnLugar
<1>2. \A m, k : <<m, "dato", k>> \in Lugar' <=> <<m, "dato", k>> \in Lugar \cup {x}
  BY Lugares DEF EnLugar
<1>3. ASSUME NEW m, NEW k
      PROVE  <<m, "indirecto", k>> \in Lugar' <=> <<m, "indirecto", k>> \in Lugar \cup {x}
  <2>1. CASE m = n
    <3>1. k \in 0..i <=> k \in 0..(i - 1) \/ k = i
      OBVIOUS
    <3>2. <<n, "indirecto", k>> \in Lugar <=> k \in 0..(i - 1)
      BY Lugares DEF EnLugar
    <3>3. <<n, "indirecto", k>> \in Lugar' <=> k \in 0..((i + 1) - 1)
      BY Lugares DEF EnLugar
    <3>4. (i + 1) - 1 = i
      OBVIOUS
    <3> QED BY <2>1, <3>1, <3>2, <3>3, <3>4
  <2>2. CASE m # n
    BY <2>2, Lugares DEF EnLugar
  <2> QED BY <2>1, <2>2
<1>4. x \notin Lugar
  <2>1. i \notin 0..(i - 1)
    OBVIOUS
  <2> QED BY <2>1, Lugares DEF EnLugar
<1> HIDE DEF x
<1>5. Lugar' = Lugar \cup {x}
  BY <1>1, <1>2, <1>3, IgualesLugares
<1> QED BY <1>4, <1>5 DEF x

LEMMA MasDato ==
  ASSUME NEW n \in Nodo, NEW d \in Nat, CantDatablocks(n) = d, CantDatablocks(n)' = d + 1,
         \A m \in Nodo : CantIndirectos(m)' = CantIndirectos(m),
         \A m \in Nodo \ {n} : CantDatablocks(m)' = CantDatablocks(m)
  PROVE  Lugar' = Lugar \cup {<<n, "dato", d>>} /\ <<n, "dato", d>> \notin Lugar
<1> DEFINE x == <<n, "dato", d>>
<1>1. \A y \in Lugar \cup {x} : \E m, k : y = <<m, "indirecto", k>> \/ y = <<m, "dato", k>>
  BY Lugares DEF EnLugar
<1>2. \A m, k : <<m, "indirecto", k>> \in Lugar' <=> <<m, "indirecto", k>> \in Lugar \cup {x}
  BY Lugares DEF EnLugar
<1>3. ASSUME NEW m, NEW k
      PROVE  <<m, "dato", k>> \in Lugar' <=> <<m, "dato", k>> \in Lugar \cup {x}
  <2>1. CASE m = n
    <3>1. k \in 0..d <=> k \in 0..(d - 1) \/ k = d
      OBVIOUS
    <3>2. <<n, "dato", k>> \in Lugar <=> k \in 0..(d - 1)
      BY Lugares DEF EnLugar
    <3>3. <<n, "dato", k>> \in Lugar' <=> k \in 0..((d + 1) - 1)
      BY Lugares DEF EnLugar
    <3>4. (d + 1) - 1 = d
      OBVIOUS
    <3> QED BY <2>1, <3>1, <3>2, <3>3, <3>4
  <2>2. CASE m # n
    BY <2>2, Lugares DEF EnLugar
  <2> QED BY <2>1, <2>2
<1>4. x \notin Lugar
  <2>1. d \notin 0..(d - 1)
    OBVIOUS
  <2> QED BY <2>1, Lugares DEF EnLugar
<1> HIDE DEF x
<1>5. Lugar' = Lugar \cup {x}
  BY <1>1, <1>2, <1>3, IgualesLugares
<1> QED BY <1>4, <1>5 DEF x

LEMMA MenosDato ==
  ASSUME NEW n \in Nodo, NEW d \in Nat, CantDatablocks(n) = d + 1, CantDatablocks(n)' = d,
         \A m \in Nodo : CantIndirectos(m)' = CantIndirectos(m),
         \A m \in Nodo \ {n} : CantDatablocks(m)' = CantDatablocks(m)
  PROVE  Lugar' = Lugar \ {<<n, "dato", d>>} /\ <<n, "dato", d>> \in Lugar
<1> DEFINE x == <<n, "dato", d>>
<1>1. \A y \in Lugar \ {x} : \E m, k : y = <<m, "indirecto", k>> \/ y = <<m, "dato", k>>
  BY Lugares DEF EnLugar
<1>2. \A m, k : <<m, "indirecto", k>> \in Lugar' <=> <<m, "indirecto", k>> \in Lugar \ {x}
  BY Lugares DEF EnLugar
<1>3. (d + 1) - 1 = d /\ d \in 0..d
  OBVIOUS
<1>4. ASSUME NEW m, NEW k
      PROVE  <<m, "dato", k>> \in Lugar' <=> <<m, "dato", k>> \in Lugar \ {x}
  <2>1. CASE m = n
    <3>1. k \in 0..(d - 1) <=> k \in 0..d /\ k # d
      OBVIOUS
    <3>2. <<n, "dato", k>> \in Lugar <=> k \in 0..d
      BY <1>3, Lugares DEF EnLugar
    <3>3. <<n, "dato", k>> \in Lugar' <=> k \in 0..(d - 1)
      BY Lugares DEF EnLugar
    <3> QED BY <2>1, <3>1, <3>2, <3>3
  <2>2. CASE m # n
    BY <2>2, Lugares DEF EnLugar
  <2> QED BY <2>1, <2>2
<1>5. x \in Lugar
  BY <1>3, Lugares DEF EnLugar
<1> HIDE DEF x
<1>6. Lugar' = Lugar \ {x}
  BY <1>1, <1>2, <1>4, IgualesLugares
<1> QED BY <1>5, <1>6 DEF x

LEMMA MenosDatoEIndirecto ==
  ASSUME NEW n \in Nodo, NEW d \in Nat, CantDatablocks(n) = d + 1, CantDatablocks(n)' = d,
         NEW i \in Nat, CantIndirectos(n) = i + 1, CantIndirectos(n)' = i,
         \A m \in Nodo \ {n} : /\ CantDatablocks(m)' = CantDatablocks(m)
                               /\ CantIndirectos(m)' = CantIndirectos(m)
  PROVE  /\ Lugar' = Lugar \ {<<n, "dato", d>>, <<n, "indirecto", i>>}
         /\ <<n, "dato", d>> \in Lugar /\ <<n, "indirecto", i>> \in Lugar
<1> DEFINE x == <<n, "dato", d>>
           y == <<n, "indirecto", i>>
<1>1. \A z \in Lugar \ {x, y} : \E m, k : z = <<m, "indirecto", k>> \/ z = <<m, "dato", k>>
  BY Lugares DEF EnLugar
<1>2. (d + 1) - 1 = d /\ d \in 0..d /\ (i + 1) - 1 = i /\ i \in 0..i
  OBVIOUS
<1>3. ASSUME NEW m, NEW k
      PROVE  <<m, "dato", k>> \in Lugar' <=> <<m, "dato", k>> \in Lugar \ {x, y}
  <2>1. CASE m = n
    <3>1. k \in 0..(d - 1) <=> k \in 0..d /\ k # d
      OBVIOUS
    <3>2. <<n, "dato", k>> \in Lugar <=> k \in 0..d
      BY <1>2, Lugares DEF EnLugar
    <3>3. <<n, "dato", k>> \in Lugar' <=> k \in 0..(d - 1)
      BY Lugares DEF EnLugar
    <3> QED BY <2>1, <3>1, <3>2, <3>3
  <2>2. CASE m # n
    BY <2>2, Lugares DEF EnLugar
  <2> QED BY <2>1, <2>2
<1>4. ASSUME NEW m, NEW k
      PROVE  <<m, "indirecto", k>> \in Lugar' <=> <<m, "indirecto", k>> \in Lugar \ {x, y}
  <2>1. CASE m = n
    <3>1. k \in 0..(i - 1) <=> k \in 0..i /\ k # i
      OBVIOUS
    <3>2. <<n, "indirecto", k>> \in Lugar <=> k \in 0..i
      BY <1>2, Lugares DEF EnLugar
    <3>3. <<n, "indirecto", k>> \in Lugar' <=> k \in 0..(i - 1)
      BY Lugares DEF EnLugar
    <3> QED BY <2>1, <3>1, <3>2, <3>3
  <2>2. CASE m # n
    BY <2>2, Lugares DEF EnLugar
  <2> QED BY <2>1, <2>2
<1>5. x \in Lugar /\ y \in Lugar
  BY <1>2, Lugares DEF EnLugar
<1> HIDE DEF x, y
<1>6. Lugar' = Lugar \ {x, y}
  BY <1>1, <1>3, <1>4, IgualesLugares
<1> QED BY <1>5, <1>6 DEF x, y

(* A block that is taken is not free any more. *)
LEMMA UnLibreMenos ==
  ASSUME NEW b \in Bloque \ bitmap, bitmap' = bitmap \cup {b}
  PROVE  get_free_blocks \in Nat /\ get_free_blocks' = get_free_blocks - 1
<1> DEFINE S == Bloque \ bitmap
<1>1. IsFiniteSet(S) /\ b \in S
  BY Constantes, FS_Subset
<1>2. Bloque \ bitmap' = S \ {b}
  OBVIOUS
<1>3. Cardinality(S) \in Nat /\ Cardinality(S \ {b}) = Cardinality(S) - 1
  <2> HIDE DEF S
  <2> QED BY <1>1, FS_RemoveElement, FS_CardinalityType
<1> QED BY <1>2, <1>3 DEF get_free_blocks

LEMMA OtrosNodos ==
  ASSUME UnHilo, NEW t \in Hilos, NEW n, UNCHANGED tabla,
         \A m \in Nodo \ {n} : ~ Cambia(t, m) /\ ~ Cambia(t, m)'
  PROVE  \A m \in Nodo \ {n} : /\ CantDatablocks(m)' = CantDatablocks(m)
                               /\ CantIndirectos(m)' = CantIndirectos(m)
<1>1. \A m \in Nodo : Ocupa(m)' = Ocupa(m)
  BY DEF Ocupa
<1> QED BY <1>1, Cuentas DEF CuentaDe, Techo

(* What a loop that reserves has and what is left for it. *)
LEMMA EnReserva ==
  ASSUME UnHilo, InvarianteS, NEW t \in Hilos, pc[t] \in Reservando,
         NEW l, l = local[t], NEW f, f = Final(t), NEW d, d = f - l.faltan
  PROVE  /\ l \in Local /\ l.nodo \in Nodo /\ tabla[l.nodo].state = 1
         /\ pedido[t] \in Pedidos /\ pedido[t].op \in {"SAC_write", "SAC_truncate"}
         /\ f \in Nat /\ f <= MaxDatablocks /\ l.faltan \in 1..f /\ f = d + l.faltan
         /\ d \in Nat /\ d + 1 <= f /\ \A m \in Nodo : Cambia(t, m) <=> m = l.nodo
         /\ CantDatablocks(l.nodo) = d /\ CantIndirectos(l.nodo) = IndirectosHechos(t)
         /\ IndirectosHechos(t) = Techo(IF pc[t] \in {"buscar", "datablock"} THEN d + 1 ELSE d)
         /\ IndirectosHechos(t) \in Nat /\ Techo(f) \in Nat
         /\ get_free_blocks \in Nat /\ get_free_blocks >= l.faltan + Techo(f) - IndirectosHechos(t)
         /\ get_free_blocks >= 1
<1>1. TiposS /\ InvPunto(t) /\ InvReserva(t) /\ InvEspacio(t) /\ pc[t] \in EnBloques
  BY DEF InvarianteS, Reservando, EnBloques
<1>2. /\ l \in Local /\ pedido[t] \in Pedidos /\ pedido[t].op \in {"SAC_write", "SAC_truncate"}
      /\ l.nodo \in Nodo /\ tabla[l.nodo].state = 1
  BY <1>1 DEF TiposS, InvPunto, Reservando
<1>3. f \in Nat
  BY <1>2, PedidaTipo
<1>4. l.faltan \in 1..f /\ f <= MaxDatablocks
  BY <1>1 DEF InvReserva
<1>5. d \in Nat /\ d + 1 <= f /\ f = d + l.faltan
  BY <1>3, <1>4
<1>6. \A m \in Nodo : Cambia(t, m) <=> m = l.nodo
  BY <1>1 DEF Cambia
<1>7. CantDatablocks(l.nodo) = d
  BY <1>2, <1>6, Cuentas DEF CuentaDe, Reservando
<1>8. PICK e : e = IF pc[t] \in {"buscar", "datablock"} THEN d + 1 ELSE d
  OBVIOUS
<1>9. IndirectosHechos(t) = Techo(e)
  BY <1>8 DEF IndirectosHechos, Reservados
<1>10. CantIndirectos(l.nodo) = Techo(e)
  BY <1>2, <1>6, <1>7, <1>8, Cuentas DEF CuentaDe
<1>11. e \in Nat /\ e <= f
  <2>1. e = d \/ e = d + 1
    BY <1>8
  <2> QED BY <1>3, <1>5, <2>1
<1>12. Techo(e) \in Nat /\ Techo(f) \in Nat /\ Techo(e) <= Techo(f)
  BY <1>3, <1>11, TechoCrece
<1>13. get_free_blocks \in Nat /\ get_free_blocks >= l.faltan + Techo(f) - Techo(e)
  BY <1>1, <1>9, Libres DEF InvEspacio
<1>14. get_free_blocks >= 1
  BY <1>3, <1>4, <1>12, <1>13
<1> QED BY <1>2, <1>3, <1>4, <1>5, <1>6, <1>7, <1>8, <1>9, <1>10, <1>12, <1>13, <1>14

(* A turn that stays within the loop, or leaves it with nothing missing. *)
LEMMA SigueReserva ==
  ASSUME UnHilo, InvarianteS, NEW t \in Hilos, pc[t] \in Reservando, NEW l, l = local[t],
         NEW e, \/ e \in Reservando
                \/ e = "agrandar" /\ pedido[t].op = "SAC_write"
                \/ e = "cortar" /\ pedido[t].op = "SAC_truncate",
         NEW m \in Local, Seguir(t, e, m), m.nodo = l.nodo, e \notin Reservando => m.faltan = 0,
         UNCHANGED tabla, blk_indirect' \in [Nodo -> [0..(BLKINDIRECT - 1) -> Bloque]],
         bitmap' \subseteq Bloque, disco' \in [Bloque -> [0..(PTRBYINDIRECT - 1) -> Celda]],
         DuenioUnico', BitmapExacto', InvReserva(t)', InvEspacio(t)'
  PROVE  InvarianteS'
<1>1. TiposS /\ InvPunto(t) /\ pc[t] \in EnBloques /\ InvTamanio
  BY DEF InvarianteS, Reservando, EnBloques
<1>2. e \in Punto /\ e \in EnBloques /\ e \notin {"liberar", "liberado", "recibido", "contestado"}
      /\ e \notin {"libre", "ocupar", "escribir"}
  BY DEF Punto, Reservando, EnBloques
<1>3. /\ pc' \in [Hilos -> Punto] /\ pedido' \in [Hilos -> Pedidos \cup {Nada}]
      /\ local' \in [Hilos -> Local] /\ respuesta' \in [Hilos -> Respuesta \cup {Nada}]
      /\ pc'[t] = e /\ local'[t] = m /\ pedido' = pedido /\ respuesta' = respuesta
  BY <1>2, AlSeguir
<1>4. TiposS'
  BY <1>1, <1>3 DEF TiposS
<1>5. l.nodo \in Nodo /\ tabla[l.nodo].state = 1 /\ pedido[t].op \in {"SAC_write", "SAC_truncate"}
  BY SMTT(30), EnReserva
<1>6. pc[t] \notin {"libre", "contestado"}
  BY DEF Reservando
<1>7. InvPunto(t)'
  BY <1>1, <1>2, <1>3, <1>5, <1>6 DEF InvPunto, Reservando
<1>8. InvLiberacion(t)'
  BY <1>2, <1>3 DEF InvLiberacion
<1>9. InvTamanio'
  BY <1>1 DEF InvTamanio, Ocupa, MaxDatablocks, get_occupied_datablocks_qty, get_datablock_index,
              GBLOCKSIZE
<1> QED BY <1>4, <1>7, <1>8, <1>9, PorUnHilo

(* The counts of the node of a loop, after a turn. *)
LEMMA DespuesDe ==
  ASSUME UnHilo, InvarianteS, NEW t \in Hilos, NEW n \in Nodo, NEW e \in EnBloques, NEW l \in Local,
         Seguir(t, e, l), l.nodo = n, NEW f, f = Final(t),
         NEW d, d = IF e = "liberar" THEN f + l.faltan ELSE f - l.faltan
  PROVE  /\ \A m \in Nodo : Cambia(t, m)' <=> m = n
         /\ CantDatablocks(n)' = d
         /\ CantIndirectos(n)' = Techo(IF e \in {"buscar", "datablock"} THEN d + 1 ELSE d)
         /\ Final(t)' = f /\ pc'[t] = e /\ local'[t] = l
<1>1. e \in Punto
  BY DEF Punto, EnBloques
<1>2. pc'[t] = e /\ local'[t] = l /\ Final(t)' = Final(t)
  BY <1>1, AlSeguir
<1>3. \A m \in Nodo : Cambia(t, m)' <=> m = n
  BY <1>2 DEF Cambia
<1>4. CantDatablocks(n)' = d
  BY <1>2, <1>3, Cuentas DEF CuentaDe
<1>5. CantIndirectos(n)' = Techo(IF e \in {"buscar", "datablock"} THEN d + 1 ELSE d)
  BY <1>2, <1>3, <1>4, Cuentas DEF CuentaDe, Techo
<1> QED BY <1>2, <1>3, <1>4, <1>5

(* A search only remembers a free block. *)
LEMMA AlBuscar ==
  ASSUME UnHilo, InvarianteS, NEW t \in Hilos, pc[t] \in Reservando, NEW l, l = local[t],
         NEW e \in Reservando, Seguir(t, e, [l EXCEPT !.nuevo = get_avail_block]),
         UNCHANGED <<metadatos, bloques>>, NEW d, d = Final(t) - l.faltan,
         Techo(IF e \in {"buscar", "datablock"} THEN d + 1 ELSE d) = IndirectosHechos(t),
         InvReserva(t)'
  PROVE  InvarianteS'
<1>1. PICK f : f = Final(t)
  OBVIOUS
<1>2. /\ l \in Local /\ l.nodo \in Nodo /\ f \in Nat /\ l.faltan \in 1..f
      /\ \A m \in Nodo : Cambia(t, m) <=> m = l.nodo
      /\ CantDatablocks(l.nodo) = d /\ CantIndirectos(l.nodo) = IndirectosHechos(t)
      /\ get_free_blocks >= l.faltan + Techo(f) - IndirectosHechos(t)
  BY <1>1, EnReserva
<1>3. PICK b, m : b = get_avail_block /\ m = [l EXCEPT !.nuevo = b]
  OBVIOUS
<1>4. b \in Bloque
  BY <1>3, BloqueHallado
<1>5. m \in Local /\ m.nodo = l.nodo /\ m.faltan = l.faltan
  BY <1>2, <1>3, <1>4 DEF Local
<1>6. Seguir(t, e, m) /\ e \in EnBloques /\ e # "liberar"
  BY <1>3 DEF Reservando, EnBloques
<1>7. /\ \A k \in Nodo : Cambia(t, k)' <=> k = l.nodo
      /\ CantDatablocks(l.nodo)' = d /\ CantIndirectos(l.nodo)' = IndirectosHechos(t)
      /\ Final(t)' = f /\ pc'[t] = e /\ local'[t] = m
  BY <1>1, <1>2, <1>5, <1>6, DespuesDe
<1>8. Lugar' = Lugar
  <2>1. \A k \in Nodo \ {l.nodo} : CantDatablocks(k)' = CantDatablocks(k) /\ CantIndirectos(k)' = CantIndirectos(k)
    BY <1>2, <1>7, OtrosNodos DEF metadatos
  <2> QED BY <1>2, <1>7, <2>1, MismosLugares
<1>9. tabla' = tabla /\ blk_indirect' = blk_indirect /\ bitmap' = bitmap /\ disco' = disco
  BY DEF metadatos, bloques
<1>10. DuenioUnico' /\ BitmapExacto'
  <2>1. \A x \in Lugar : BloqueEn(x)' = BloqueEn(x)
    BY <1>9 DEF BloqueEn
  <2> QED BY <1>8, <1>9, <2>1, MismosDuenios DEF InvarianteS
<1>11. InvEspacio(t)'
  <2>1. get_free_blocks' = get_free_blocks /\ Techo(Final(t))' = Techo(f)
    BY <1>7, <1>9 DEF get_free_blocks, Techo
  <2>2. IndirectosHechos(t)' = IndirectosHechos(t)
    BY <1>1, <1>5, <1>7 DEF IndirectosHechos, Reservados, Techo
  <2>3. local'[t].faltan = l.faltan
    BY <1>5, <1>7
  <2> QED BY <1>2, <2>1, <2>2, <2>3 DEF InvEspacio
<1>12. TiposS
  BY DEF InvarianteS
<1> QED BY <1>5, <1>6, <1>9, <1>10, <1>11, <1>12, SigueReserva DEF TiposS

LEMMA PasoBuscarIndirecto ==
  ASSUME UnHilo, InvarianteS, NEW t \in Hilos, BuscarIndirecto(t)
  PROVE  InvarianteS'
<1>1. PICK l, f, d, b : l = local[t] /\ f = Final(t) /\ d = f - l.faltan /\ b = get_avail_block
  OBVIOUS
<1>2. /\ pc[t] = "reservar" /\ l.dentro % PTRBYINDIRECT = 0
      /\ Seguir(t, "indirecto", [l EXCEPT !.nuevo = b]) /\ UNCHANGED <<metadatos, bloques>>
  BY <1>1 DEF BuscarIndirecto
<1>3. pc[t] \in Reservando /\ "indirecto" \in Reservando /\ "indirecto" \in Punto
  BY <1>2 DEF Reservando, Punto
<1>4. /\ l \in Local /\ f <= MaxDatablocks /\ l.faltan \in 1..f
      /\ IndirectosHechos(t) = Techo(d) /\ get_free_blocks >= 1
  BY <1>1, <1>2, <1>3, EnReserva
<1>5. b \in Bloque \ bitmap
  BY <1>1, <1>4, Libres
<1>6. PICK m : m = [l EXCEPT !.nuevo = b]
  OBVIOUS
<1>7. /\ m \in Local /\ m.nuevo = b /\ m.faltan = l.faltan /\ m.dentro = l.dentro
      /\ m.indir = l.indir
  BY <1>4, <1>5, <1>6 DEF Local
<1>8. pc'[t] = "indirecto" /\ local'[t] = m /\ Final(t)' = f
  BY <1>1, <1>2, <1>3, <1>6, <1>7, AlSeguir
<1>9. l.dentro \in {0, PTRBYINDIRECT}
  <2>1. PICK j : j = l.dentro
    OBVIOUS
  <2>2. j \in 0..PTRBYINDIRECT /\ j % PTRBYINDIRECT = 0
    BY <1>2, <1>4, <2>1 DEF Local
  <2>3. j < PTRBYINDIRECT => j % PTRBYINDIRECT = j
    <3>1. 0 * PTRBYINDIRECT + j = j
      BY <2>2, Constantes
    <3>2. j < PTRBYINDIRECT => j \in 0..(PTRBYINDIRECT - 1)
      BY <2>2, Constantes
    <3> QED BY <3>1, <3>2, Cociente
  <2> QED BY <2>1, <2>2, <2>3, Constantes
<1>10. InvReserva(t)'
  <2>1. \/ d = 0 /\ l.dentro = 0 /\ l.indir = 0
        \/ l.indir >= 1 /\ l.dentro >= 1 /\ d = (l.indir - 1) * PTRBYINDIRECT + l.dentro
    BY <1>1, <1>2 DEF InvarianteS, InvReserva, Reservados
  <2>2. Reservados(t)' = d
    BY <1>1, <1>7, <1>8 DEF Reservados
  <2>3. bitmap' = bitmap /\ MaxDatablocks' = MaxDatablocks
    BY <1>2 DEF bloques, MaxDatablocks
  <2>4. b \notin bitmap'
    BY <1>5, <2>3
  <2> QED BY <1>4, <1>7, <1>8, <1>9, <2>1, <2>2, <2>3, <2>4 DEF InvReserva, Reservando
<1>11. Techo(IF "indirecto" \in {"buscar", "datablock"} THEN d + 1 ELSE d) = IndirectosHechos(t)
  BY <1>4
<1>12. Seguir(t, "indirecto", [l EXCEPT !.nuevo = get_avail_block])
  BY <1>1, <1>2
<1> QED BY <1>1, <1>2, <1>3, <1>10, <1>11, <1>12, AlBuscar

(* The data block is found with its indirect block in place. *)
LEMMA PasoBuscarDatablock ==
  ASSUME UnHilo, InvarianteS, NEW t \in Hilos, BuscarDatablock(t)
  PROVE  InvarianteS'
<1>1. PICK l, f, d, b : l = local[t] /\ f = Final(t) /\ d = f - l.faltan /\ b = get_avail_block
  OBVIOUS
<1>2. /\ \/ pc[t] = "reservar" /\ l.dentro % PTRBYINDIRECT # 0
         \/ pc[t] = "buscar"
      /\ Seguir(t, "datablock", [l EXCEPT !.nuevo = b]) /\ UNCHANGED <<metadatos, bloques>>
  BY <1>1 DEF BuscarDatablock
<1>3. pc[t] \in Reservando /\ "datablock" \in Reservando /\ "datablock" \in Punto
  BY <1>2 DEF Reservando, Punto
<1>4. /\ l \in Local /\ f <= MaxDatablocks /\ l.faltan \in 1..f /\ d \in Nat
      /\ IndirectosHechos(t) = Techo(IF pc[t] \in {"buscar", "datablock"} THEN d + 1 ELSE d)
      /\ get_free_blocks >= 1
  BY <1>1, <1>3, EnReserva
<1>5. b \in Bloque \ bitmap
  BY <1>1, <1>4, Libres
<1>6. PICK m : m = [l EXCEPT !.nuevo = b]
  OBVIOUS
<1>7. /\ m \in Local /\ m.nuevo = b /\ m.faltan = l.faltan /\ m.dentro = l.dentro
      /\ m.indir = l.indir
  BY <1>4, <1>5, <1>6 DEF Local
<1>8. pc'[t] = "datablock" /\ local'[t] = m /\ Final(t)' = f
  BY <1>1, <1>2, <1>3, <1>6, <1>7, AlSeguir
<1>9. InvReserva(t)
  BY DEF InvarianteS
<1>10. /\ l.indir >= 1 /\ l.dentro < PTRBYINDIRECT /\ d = (l.indir - 1) * PTRBYINDIRECT + l.dentro
       /\ pc[t] = "reservar" => l.dentro >= 1
  <2>1. CASE pc[t] = "buscar"
    BY <1>1, <1>9, <2>1 DEF InvReserva, Reservados
  <2>2. CASE pc[t] = "reservar"
    <3>1. PICK j : j = l.dentro
      OBVIOUS
    <3>2. j \in 0..PTRBYINDIRECT /\ j % PTRBYINDIRECT # 0
      BY <1>2, <1>4, <2>2, <3>1 DEF Local
    <3>3. 0 % PTRBYINDIRECT = 0 /\ PTRBYINDIRECT % PTRBYINDIRECT = 0
      <4>1. 0 * PTRBYINDIRECT + 0 = 0 /\ 1 * PTRBYINDIRECT + 0 = PTRBYINDIRECT
        BY Constantes
      <4>2. 0 \in 0..(PTRBYINDIRECT - 1)
        BY Constantes
      <4> QED BY <4>1, <4>2, Cociente
    <3>4. j # 0 /\ j # PTRBYINDIRECT
      BY <3>2, <3>3
    <3>5. l.dentro < PTRBYINDIRECT /\ l.dentro # 0
      BY <3>1, <3>2, <3>4, Constantes
    <3>6. \/ d = 0 /\ l.dentro = 0 /\ l.indir = 0
          \/ l.indir >= 1 /\ l.dentro >= 1 /\ d = (l.indir - 1) * PTRBYINDIRECT + l.dentro
      BY <1>1, <1>9, <2>2 DEF InvReserva, Reservados
    <3> QED BY <3>5, <3>6
  <2> QED BY <1>2, <2>1, <2>2
<1>11. InvReserva(t)'
  <2>1. Reservados(t)' = d
    BY <1>1, <1>7, <1>8 DEF Reservados
  <2>2. bitmap' = bitmap /\ MaxDatablocks' = MaxDatablocks
    BY <1>2 DEF bloques, MaxDatablocks
  <2>3. b \notin bitmap'
    BY <1>5, <2>2
  <2> QED BY <1>4, <1>7, <1>8, <1>10, <2>1, <2>2, <2>3 DEF InvReserva, Reservando
<1>12. Techo(d + 1) = IndirectosHechos(t)
  <2>1. CASE pc[t] = "buscar"
    BY <1>4, <2>1
  <2>2. CASE pc[t] = "reservar"
    <3>1. PICK i, j : i = l.indir - 1 /\ j = l.dentro
      OBVIOUS
    <3>2. i \in Nat /\ j \in Nat /\ j >= 1 /\ j < PTRBYINDIRECT /\ d = i * PTRBYINDIRECT + j
      BY <1>4, <1>10, <2>2, <3>1, Constantes DEF Local
    <3>3. j \in 1..PTRBYINDIRECT /\ j + 1 \in 1..PTRBYINDIRECT
      BY <3>2, Constantes
    <3>4. i * PTRBYINDIRECT \in Int
      BY <3>2, Productos
    <3>5. d + 1 = i * PTRBYINDIRECT + (j + 1)
      BY <3>2, <3>4
    <3>6. Techo(d) = i + 1 /\ Techo(d + 1) = i + 1
      BY <3>2, <3>3, <3>5, TechoEn
    <3> QED BY <1>4, <2>2, <3>6
  <2> QED BY <1>2, <2>1, <2>2
<1>13. Techo(IF "datablock" \in {"buscar", "datablock"} THEN d + 1 ELSE d) = IndirectosHechos(t)
  BY <1>12
<1>14. Seguir(t, "datablock", [l EXCEPT !.nuevo = get_avail_block])
  BY SMTT(30), <1>1, <1>2
<1> QED BY <1>1, <1>2, <1>3, <1>11, <1>13, <1>14, AlBuscar

(* The pointers of the last indirect block are cleared with it. *)
LEMMA PasoTomarIndirecto ==
  ASSUME UnHilo, InvarianteS, NEW t \in Hilos, TomarIndirecto(t)
  PROVE  InvarianteS'
<1>1. PICK l, f, d, n, i, b : /\ l = local[t] /\ f = Final(t) /\ d = f - l.faltan
                              /\ n = l.nodo /\ i = l.indir /\ b = l.nuevo
  OBVIOUS
<1>2. PICK m, ceros : /\ m = [l EXCEPT !.indir = i + 1, !.dentro = 0]
                      /\ ceros = [c \in 0..(PTRBYINDIRECT - 1) |-> 0]
  OBVIOUS
<1>3. /\ pc[t] = "indirecto" /\ disco' = [disco EXCEPT ![b] = ceros]
      /\ blk_indirect' = [blk_indirect EXCEPT ![n][i] = b] /\ bitmap' = bitmap \cup {b}
      /\ Seguir(t, "buscar", m) /\ tabla' = tabla
  BY <1>1, <1>2 DEF TomarIndirecto
<1>4. pc[t] \in Reservando /\ "buscar" \in Reservando /\ "buscar" \in EnBloques
  BY <1>3 DEF Reservando, EnBloques
<1>5. /\ l \in Local /\ n \in Nodo /\ f \in Nat /\ f <= MaxDatablocks /\ l.faltan \in 1..f
      /\ d \in Nat /\ d + 1 <= f /\ CantDatablocks(n) = d /\ CantIndirectos(n) = Techo(d)
      /\ \A k \in Nodo : Cambia(t, k) <=> k = n
      /\ IndirectosHechos(t) = Techo(d) /\ Techo(f) \in Nat
      /\ get_free_blocks \in Nat /\ get_free_blocks >= l.faltan + Techo(f) - Techo(d)
  BY <1>1, <1>3, <1>4, EnReserva
<1>6. TiposS /\ InvReserva(t) /\ DuenioUnico /\ BitmapExacto
  BY DEF InvarianteS
<1>7. b \in Bloque \ bitmap
  BY <1>1, <1>3, <1>5, <1>6 DEF InvReserva, Local
<1>8. i \in Nat /\ d = i * PTRBYINDIRECT /\ Techo(d) = i /\ Techo(d + 1) = i + 1
  <2>1. \/ d = 0 /\ l.dentro = 0 /\ i = 0
        \/ i >= 1 /\ l.dentro >= 1 /\ d = (i - 1) * PTRBYINDIRECT + l.dentro
    BY <1>1, <1>3, <1>6 DEF InvReserva, Reservados
  <2>2. l.dentro \in {0, PTRBYINDIRECT}
    BY <1>1, <1>3, <1>6 DEF InvReserva
  <2>3. i \in Nat
    BY <1>1, <1>5, <2>1 DEF Local
  <2>4. d = i * PTRBYINDIRECT
    <3>1. CASE i = 0
      <4>1. d = 0
        BY <2>1, <3>1
      <4>2. 0 * PTRBYINDIRECT = 0
        BY Constantes
      <4> QED BY <3>1, <4>1, <4>2
    <3>2. CASE i # 0
      <4>1. d = (i - 1) * PTRBYINDIRECT + PTRBYINDIRECT
        BY <2>1, <2>2, <3>2
      <4>2. i * PTRBYINDIRECT = (i - 1) * PTRBYINDIRECT + 1 * PTRBYINDIRECT
        <5>1. i - 1 \in Int /\ 1 \in Int /\ (i - 1) + 1 = i
          BY <2>3
        <5> QED BY <5>1, Productos
      <4>3. 1 * PTRBYINDIRECT = PTRBYINDIRECT
        BY Constantes
      <4> QED BY <4>1, <4>2, <4>3
    <3> QED BY <3>1, <3>2
  <2>5. Techo(i * PTRBYINDIRECT) = i /\ Techo(i * PTRBYINDIRECT + 1) = i + 1
    <3>1. 1 \in 1..PTRBYINDIRECT
      BY Constantes
    <3> QED BY <2>3, <3>1, TechoMultiplo, TechoEn
  <2> QED BY <2>3, <2>4, <2>5
<1>9. i + 1 <= BLKINDIRECT /\ i \in 0..(BLKINDIRECT - 1)
  <2>1. d + 1 \in Nat /\ d + 1 <= BLKINDIRECT * PTRBYINDIRECT
    <3>1. MaxDatablocks \in Nat
      BY Constantes DEF MaxDatablocks
    <3> QED BY <1>5, <3>1 DEF MaxDatablocks
  <2>2. Techo(d + 1) <= BLKINDIRECT
    BY <2>1, Constantes, TechoOrden
  <2> QED BY <1>8, <2>2, Constantes
<1>10. /\ m \in Local /\ m.nodo = n /\ m.faltan = l.faltan /\ m.dentro = 0 /\ m.indir = i + 1
  <2>1. i + 1 \in -1..BLKINDIRECT /\ 0 \in 0..PTRBYINDIRECT
    BY <1>8, <1>9, Constantes
  <2> QED BY <1>1, <1>2, <1>5, <2>1 DEF Local
<1>11. /\ \A k \in Nodo : Cambia(t, k)' <=> k = n
       /\ CantDatablocks(n)' = d /\ CantIndirectos(n)' = i + 1
       /\ Final(t)' = f /\ pc'[t] = "buscar" /\ local'[t] = m
  <2>1. d = f - m.faltan
    BY <1>1, <1>10
  <2> QED BY <1>1, <1>3, <1>4, <1>5, <1>8, <1>10, <2>1, DespuesDe
<1>12. /\ blk_indirect' \in [Nodo -> [0..(BLKINDIRECT - 1) -> Bloque]] /\ blk_indirect'[n][i] = b
       /\ \A k \in Nodo, j \in 0..(BLKINDIRECT - 1) : k # n \/ j # i => blk_indirect'[k][j] = blk_indirect[k][j]
  <2>1. blk_indirect \in [Nodo -> [0..(BLKINDIRECT - 1) -> Bloque]]
    BY <1>6 DEF TiposS
  <2>2. PICK fila : fila = [blk_indirect[n] EXCEPT ![i] = b]
    OBVIOUS
  <2>3. fila \in [0..(BLKINDIRECT - 1) -> Bloque] /\ fila[i] = b
        /\ \A j \in 0..(BLKINDIRECT - 1) : j # i => fila[j] = blk_indirect[n][j]
    BY <1>5, <1>7, <1>9, <2>1, <2>2
  <2>4. blk_indirect' = [blk_indirect EXCEPT ![n] = fila]
    BY <1>3, <2>2
  <2> QED BY <1>5, <2>1, <2>3, <2>4
<1>13. /\ disco' \in [Bloque -> [0..(PTRBYINDIRECT - 1) -> Celda]]
       /\ \A c \in Bloque : c # b => disco'[c] = disco[c]
  <2>1. ceros \in [0..(PTRBYINDIRECT - 1) -> Celda]
    BY <1>2, Constantes
  <2>2. disco \in [Bloque -> [0..(PTRBYINDIRECT - 1) -> Celda]]
    BY <1>6 DEF TiposS
  <2> QED BY <1>3, <1>7, <2>1, <2>2
<1>14. Lugar' = Lugar \cup {<<n, "indirecto", i>>} /\ <<n, "indirecto", i>> \notin Lugar
  <2>1. \A k \in Nodo \ {n} : CantDatablocks(k)' = CantDatablocks(k) /\ CantIndirectos(k)' = CantIndirectos(k)
    BY <1>3, <1>5, <1>11, OtrosNodos
  <2>2. \A k \in Nodo : CantDatablocks(k)' = CantDatablocks(k)
    BY <1>5, <1>11, <2>1
  <2> QED BY <1>5, <1>8, <1>11, <2>1, <2>2, MasIndirecto
<1>15. \A x \in Lugar : BloqueEn(x)' = BloqueEn(x)
  <2> SUFFICES ASSUME NEW x \in Lugar PROVE BloqueEn(x)' = BloqueEn(x)
    OBVIOUS
  <2>1. PICK k, j : x = <<k, "indirecto", j>> \/ x = <<k, "dato", j>>
    BY Lugares DEF EnLugar
  <2>2. k \in Nodo
    BY <2>1, Lugares DEF EnLugar
  <2>3. ASSUME NEW p \in 0..(CantIndirectos(k) - 1) PROVE blk_indirect'[k][p] = blk_indirect[k][p]
    <3>1. CantIndirectos(k) \in 0..BLKINDIRECT
      BY <2>2, Cotas
    <3>2. p \in 0..(BLKINDIRECT - 1) /\ (k = n => p # i)
      BY <1>5, <1>8, <3>1, Constantes
    <3> QED BY <1>12, <2>2, <3>2
  <2>4. CASE x = <<k, "indirecto", j>>
    <3>1. j \in 0..(CantIndirectos(k) - 1)
      BY SMTT(30), <2>4, Lugares DEF EnLugar
    <3> QED BY <2>3, <2>4, <3>1 DEF BloqueEn
  <2>5. CASE x = <<k, "dato", j>>
    <3>1. j \in 0..(CantDatablocks(k) - 1)
      BY <2>5, Lugares DEF EnLugar
    <3>2. PICK p, r : p = j \div PTRBYINDIRECT /\ r = j % PTRBYINDIRECT
      OBVIOUS
    <3>3. p \in 0..(CantIndirectos(k) - 1)
      BY <2>2, <3>1, <3>2, Cotas
    <3>4. PICK y : y = <<k, "indirecto", p>>
      OBVIOUS
    <3>5. y \in Lugar /\ BloqueEn(y) = blk_indirect[k][p]
      BY <2>2, <3>3, <3>4, Lugares DEF BloqueEn, EnLugar
    <3>6. blk_indirect[k][p] \in Bloque /\ blk_indirect[k][p] # b
      <4>1. BloqueEn(y) \in Bloque /\ BloqueEn(y) \in bitmap
        BY <1>6, <3>5, DelArchivo
      <4> QED BY <1>7, <3>5, <4>1
    <3>7. disco'[blk_indirect'[k][p]][r] = disco[blk_indirect[k][p]][r]
      BY <1>13, <2>3, <3>3, <3>6
    <3> QED BY <2>5, <3>2, <3>7 DEF BloqueEn
  <2> QED BY <2>1, <2>4, <2>5
<1>16. DuenioUnico' /\ BitmapExacto'
  <2>1. PICK x : x = <<n, "indirecto", i>>
    OBVIOUS
  <2>2. BloqueEn(x)' = b
    BY <1>12, <2>1 DEF BloqueEn
  <2> QED BY <1>3, <1>6, <1>7, <1>14, <1>15, <2>1, <2>2, UnLugarMas
<1>17. InvReserva(t)'
  <2>1. Reservados(t)' = d
    BY <1>1, <1>10, <1>11 DEF Reservados
  <2>2. d = ((i + 1) - 1) * PTRBYINDIRECT + 0
    <3>1. (i + 1) - 1 = i /\ i * PTRBYINDIRECT \in Int
      BY <1>8, Productos
    <3> QED BY <1>8, <3>1
  <2>3. i + 1 >= 1 /\ 0 < PTRBYINDIRECT /\ MaxDatablocks' = MaxDatablocks
    BY <1>8, Constantes DEF MaxDatablocks
  <2> QED BY <1>5, <1>10, <1>11, <2>1, <2>2, <2>3 DEF InvReserva, Reservando
<1>18. InvEspacio(t)'
  <2>1. get_free_blocks' = get_free_blocks - 1
    BY <1>3, <1>7, UnLibreMenos
  <2>2. Techo(Final(t))' = Techo(f)
    BY <1>11 DEF Techo
  <2>3. IndirectosHechos(t)' = i + 1
    <3>1. Reservados(t)' = d
      BY <1>1, <1>10, <1>11 DEF Reservados
    <3> QED BY <1>8, <1>11, <3>1 DEF IndirectosHechos, Techo
  <2>4. local'[t].faltan = l.faltan
    BY <1>10, <1>11
  <2> QED BY <1>5, <1>8, <2>1, <2>2, <2>3, <2>4 DEF InvEspacio
<1>19. bitmap' \subseteq Bloque
  BY <1>3, <1>6, <1>7 DEF TiposS
<1> QED BY <1>1, <1>3, <1>4, <1>10, <1>12, <1>13, <1>16, <1>17, <1>18, <1>19, SigueReserva

(* The data block takes the next pointer of the last indirect block. *)
LEMMA PasoTomarDatablock ==
  ASSUME UnHilo, InvarianteS, NEW t \in Hilos, TomarDatablock(t)
  PROVE  InvarianteS'
<1>1. PICK l, f, d, n, i, j, b :
        /\ l = local[t] /\ f = Final(t) /\ d = f - l.faltan
        /\ n = l.nodo /\ i = l.indir - 1 /\ j = l.dentro /\ b = l.nuevo
  OBVIOUS
<1>2. PICK m, ind, e : /\ m = [l EXCEPT !.dentro = j + 1, !.faltan = l.faltan - 1]
                       /\ ind = blk_indirect[n][i]
                       /\ e = IF l.faltan > 1 THEN "reservar"
                              ELSE IF pedido[t].op = "SAC_write" THEN "agrandar" ELSE "cortar"
  BY SMTT(30)
<1>3. /\ pc[t] = "datablock" /\ disco' = [disco EXCEPT ![ind][j] = b]
      /\ bitmap' = bitmap \cup {b} /\ Seguir(t, e, m)
      /\ blk_indirect' = blk_indirect /\ tabla' = tabla
  BY <1>1, <1>2 DEF TomarDatablock, metadatos
<1>4. pc[t] \in Reservando
  BY <1>3 DEF Reservando
<1>5. /\ l \in Local /\ n \in Nodo /\ f \in Nat /\ f <= MaxDatablocks /\ l.faltan \in 1..f
      /\ d \in Nat /\ d + 1 <= f /\ CantDatablocks(n) = d /\ CantIndirectos(n) = Techo(d + 1)
      /\ \A k \in Nodo : Cambia(t, k) <=> k = n
      /\ IndirectosHechos(t) = Techo(d + 1) /\ Techo(f) \in Nat
      /\ get_free_blocks \in Nat /\ get_free_blocks >= l.faltan + Techo(f) - Techo(d + 1)
      /\ pedido[t].op \in {"SAC_write", "SAC_truncate"}
  BY <1>1, <1>3, <1>4, EnReserva
<1>6. TiposS /\ InvReserva(t) /\ DuenioUnico /\ BitmapExacto
  BY DEF InvarianteS
<1>7. b \in Bloque \ bitmap
  BY <1>1, <1>3, <1>5, <1>6 DEF InvReserva, Local
<1>8. i \in Nat /\ j \in 0..(PTRBYINDIRECT - 1) /\ d = i * PTRBYINDIRECT + j /\ l.indir = i + 1
  <2>1. l.indir >= 1 /\ l.dentro < PTRBYINDIRECT /\ d = (l.indir - 1) * PTRBYINDIRECT + l.dentro
    BY <1>1, <1>3, <1>6 DEF InvReserva, Reservados
  <2>2. i \in Nat /\ l.indir = i + 1
    BY <1>1, <1>5, <2>1 DEF Local
  <2>3. j \in 0..(PTRBYINDIRECT - 1)
    BY <1>1, <1>5, <2>1, Constantes DEF Local
  <2> QED BY <1>1, <2>1, <2>2, <2>3
<1>9. d \div PTRBYINDIRECT = i /\ d % PTRBYINDIRECT = j
  BY <1>8, Cociente
<1>10. j + 1 \in 1..PTRBYINDIRECT /\ d + 1 = i * PTRBYINDIRECT + (j + 1) /\ Techo(d + 1) = i + 1
  <2>1. i * PTRBYINDIRECT \in Int
    BY <1>8, Productos
  <2>2. j + 1 \in 1..PTRBYINDIRECT /\ d + 1 = i * PTRBYINDIRECT + (j + 1)
    BY <1>8, <2>1, Constantes
  <2> QED BY <1>8, <2>2, TechoEn
<1>11. i \in 0..(BLKINDIRECT - 1) /\ i \in 0..(CantIndirectos(n) - 1)
  <2>1. CantIndirectos(n) \in 0..BLKINDIRECT /\ CantIndirectos(n) = i + 1
    BY <1>5, <1>10, Cotas
  <2> QED BY <1>8, <2>1, Constantes
<1>12. m \in Local /\ m.nodo = n /\ m.faltan = l.faltan - 1 /\ m.dentro = j + 1 /\ m.indir = i + 1
  <2>1. l.faltan - 1 \in Nat /\ j + 1 \in 0..PTRBYINDIRECT
    BY <1>5, <1>8, Constantes
  <2> QED BY <1>1, <1>2, <1>5, <1>8, <2>1 DEF Local
<1>13. /\ \/ e = "reservar" /\ l.faltan > 1
          \/ e \in {"agrandar", "cortar"} /\ m.faltan = 0
       /\ \/ e \in Reservando
          \/ e = "agrandar" /\ pedido[t].op = "SAC_write"
          \/ e = "cortar" /\ pedido[t].op = "SAC_truncate"
       /\ e \in EnBloques /\ e \notin {"liberar", "buscar", "datablock", "indirecto"}
       /\ e # "reservar" => e \notin Reservando
  <2>1. l.faltan > 1 \/ m.faltan = 0
    BY <1>5, <1>12
  <2> QED BY <1>2, <1>5, <2>1 DEF Reservando, EnBloques
<1>14. d + 1 = f - m.faltan
  BY <1>1, <1>5, <1>12
<1>15. /\ \A k \in Nodo : Cambia(t, k)' <=> k = n
       /\ CantDatablocks(n)' = d + 1 /\ CantIndirectos(n)' = i + 1
       /\ Final(t)' = f /\ pc'[t] = e /\ local'[t] = m
  BY <1>1, <1>3, <1>5, <1>10, <1>12, <1>13, <1>14, DespuesDe
<1>16. PICK y : y = <<n, "indirecto", i>>
  OBVIOUS
<1>17. y \in Lugar /\ BloqueEn(y) = ind /\ ind \in Bloque
  <2>1. y \in Lugar /\ BloqueEn(y) = ind
    BY <1>2, <1>5, <1>11, <1>16, Lugares DEF BloqueEn, EnLugar
  <2>2. BloqueEn(y) \in Bloque
    BY <1>6, <2>1, DelArchivo
  <2> QED BY <2>1, <2>2
<1>18. /\ disco' \in [Bloque -> [0..(PTRBYINDIRECT - 1) -> Celda]] /\ disco'[ind][j] = b
       /\ \A c \in Bloque, r \in 0..(PTRBYINDIRECT - 1) : c # ind \/ r # j => disco'[c][r] = disco[c][r]
  <2>1. disco \in [Bloque -> [0..(PTRBYINDIRECT - 1) -> Celda]]
    BY <1>6 DEF TiposS
  <2>2. PICK fila : fila = [disco[ind] EXCEPT ![j] = b]
    OBVIOUS
  <2>3. b \in Celda
    BY <1>7, Constantes
  <2>4. fila \in [0..(PTRBYINDIRECT - 1) -> Celda] /\ fila[j] = b
        /\ \A r \in 0..(PTRBYINDIRECT - 1) : r # j => fila[r] = disco[ind][r]
    BY <1>8, <1>17, <2>1, <2>2, <2>3
  <2>5. disco' = [disco EXCEPT ![ind] = fila]
    BY <1>3, <2>2
  <2> QED BY <1>17, <2>1, <2>4, <2>5
<1>19. Lugar' = Lugar \cup {<<n, "dato", d>>} /\ <<n, "dato", d>> \notin Lugar
  <2>1. \A k \in Nodo \ {n} : CantDatablocks(k)' = CantDatablocks(k) /\ CantIndirectos(k)' = CantIndirectos(k)
    BY <1>3, <1>5, <1>15, OtrosNodos
  <2>2. \A k \in Nodo : CantIndirectos(k)' = CantIndirectos(k)
    BY <1>5, <1>10, <1>15, <2>1
  <2> QED BY <1>5, <1>15, <2>1, <2>2, MasDato
<1>20. \A x \in Lugar : BloqueEn(x)' = BloqueEn(x)
  <2> SUFFICES ASSUME NEW x \in Lugar PROVE BloqueEn(x)' = BloqueEn(x)
    OBVIOUS
  <2>1. PICK k, p : x = <<k, "indirecto", p>> \/ x = <<k, "dato", p>>
    BY Lugares DEF EnLugar
  <2>2. CASE x = <<k, "indirecto", p>>
    BY <1>3, <2>2 DEF BloqueEn
  <2>3. CASE x = <<k, "dato", p>>
    <3>1. k \in Nodo /\ p \in 0..(CantDatablocks(k) - 1)
      BY <2>3, Lugares DEF EnLugar
    <3>2. PICK q, r : q = p \div PTRBYINDIRECT /\ r = p % PTRBYINDIRECT
      OBVIOUS
    <3>3. q \in 0..(CantIndirectos(k) - 1) /\ r \in 0..(PTRBYINDIRECT - 1)
      BY <3>1, <3>2, Cotas
    <3>4. PICK z : z = <<k, "indirecto", q>>
      OBVIOUS
    <3>5. z \in Lugar /\ BloqueEn(z) = blk_indirect[k][q]
      BY <3>1, <3>3, <3>4, Lugares DEF BloqueEn, EnLugar
    <3>6. BloqueEn(z) \in Bloque
      BY <1>6, <3>5, DelArchivo
    <3>7. ~ (BloqueEn(z) = ind /\ r = j)
      <4> SUFFICES ASSUME BloqueEn(z) = ind, r = j PROVE FALSE
        OBVIOUS
      <4>1. z = y
        BY <1>6, <1>17, <3>5 DEF DuenioUnico
      <4>2. k = n /\ q = i
        BY <1>16, <3>4, <4>1
      <4>3. p \in Nat /\ p < d
        BY <1>5, <3>1, <4>2
      <4>4. p = q * PTRBYINDIRECT + r
        BY <3>2, <4>3, Division
      <4>5. p = d
        BY <1>8, <4>2, <4>4
      <4> QED BY <1>5, <4>3, <4>5
    <3>8. PICK c : c = blk_indirect[k][q]
      OBVIOUS
    <3>9. c \in Bloque /\ (c # ind \/ r # j)
      BY <3>5, <3>6, <3>7, <3>8
    <3>10. disco'[c][r] = disco[c][r]
      BY <1>18, <3>3, <3>9
    <3>11. disco'[blk_indirect'[k][q]][r] = disco[blk_indirect[k][q]][r]
      BY <1>3, <3>8, <3>10
    <3> QED BY <2>3, <3>2, <3>11 DEF BloqueEn
  <2> QED BY <2>1, <2>2, <2>3
<1>21. DuenioUnico' /\ BitmapExacto'
  <2>1. PICK x : x = <<n, "dato", d>>
    OBVIOUS
  <2>2. BloqueEn(x)' = b
    <3>1. BloqueEn(x)' = disco'[blk_indirect'[n][i]][j]
      BY <1>9, <2>1 DEF BloqueEn
    <3> QED BY <1>2, <1>3, <1>18, <3>1
  <2> QED BY <1>3, <1>6, <1>7, <1>19, <1>20, <2>1, <2>2, UnLugarMas
<1>22. InvReserva(t)'
  <2>1. Reservados(t)' = d + 1
    BY <1>14, <1>15 DEF Reservados
  <2>2. d + 1 = ((i + 1) - 1) * PTRBYINDIRECT + (j + 1)
    <3>1. (i + 1) - 1 = i
      BY <1>8
    <3> QED BY <1>10, <3>1
  <2>3. i + 1 >= 1 /\ j + 1 >= 1 /\ MaxDatablocks' = MaxDatablocks
    BY <1>8, Constantes DEF MaxDatablocks
  <2>4. e = "reservar" => m.faltan \in 1..f
    BY <1>5, <1>12, <1>13
  <2> QED BY <1>5, <1>12, <1>13, <1>15, <2>1, <2>2, <2>3, <2>4 DEF InvReserva, Reservando
<1>23. InvEspacio(t)'
  <2>1. get_free_blocks' = get_free_blocks - 1
    BY <1>3, <1>7, UnLibreMenos
  <2>2. Techo(Final(t))' = Techo(f)
    BY <1>15 DEF Techo
  <2>3. IndirectosHechos(t)' = Techo(d + 1)
    <3>1. Reservados(t)' = d + 1
      BY <1>14, <1>15 DEF Reservados
    <3> QED BY <1>13, <1>15, <3>1 DEF IndirectosHechos, Techo
  <2>4. local'[t].faltan = l.faltan - 1
    BY <1>12, <1>15
  <2>5. Techo(d + 1) \in Nat
    BY <1>8, <1>10
  <2>6. get_free_blocks - 1 >= (l.faltan - 1) + Techo(f) - Techo(d + 1)
    BY <1>5, <2>5
  <2> QED BY <2>1, <2>2, <2>3, <2>4, <2>6 DEF InvEspacio
<1>24. bitmap' \subseteq Bloque /\ blk_indirect' \in [Nodo -> [0..(BLKINDIRECT - 1) -> Bloque]]
  BY <1>3, <1>6, <1>7 DEF TiposS
<1>25. e \notin Reservando => m.faltan = 0
  BY <1>13 DEF Reservando
<1> QED BY <1>1, <1>3, <1>4, <1>12, <1>13, <1>18, <1>21, <1>22, <1>23, <1>24, <1>25, SigueReserva

(* The last data block of a loop that frees, and its indirect block. *)
LEMMA EnLiberacion ==
  ASSUME UnHilo, InvarianteS, NEW t \in Hilos, pc[t] = "liberar",
         NEW l, l = local[t], NEW f, f = Final(t), NEW d, d = (f + l.faltan) - 1
  PROVE  /\ l \in Local /\ l.nodo \in Nodo /\ l.faltan \in Nat /\ l.faltan >= 1
         /\ pedido[t] \in Pedidos /\ pedido[t].op \in {"SAC_unlink", "SAC_truncate"}
         /\ tabla[l.nodo].state = IF pedido[t].op = "SAC_unlink" THEN 0 ELSE 1
         /\ pedido[t].op = "SAC_unlink" => f = 0
         /\ f \in Nat /\ d \in Nat /\ d + 1 = f + l.faltan /\ d + 1 <= MaxDatablocks
         /\ f <= MaxDatablocks
         /\ l.indir \in 0..(BLKINDIRECT - 1) /\ l.dentro \in 0..(PTRBYINDIRECT - 1)
         /\ d = l.indir * PTRBYINDIRECT + l.dentro
         /\ d \div PTRBYINDIRECT = l.indir /\ d % PTRBYINDIRECT = l.dentro
         /\ \A m \in Nodo : Cambia(t, m) <=> m = l.nodo
         /\ CantDatablocks(l.nodo) = d + 1 /\ CantIndirectos(l.nodo) = l.indir + 1
<1>1. TiposS /\ InvPunto(t) /\ InvReserva(t) /\ InvLiberacion(t) /\ pc[t] \in EnBloques
  BY DEF InvarianteS, EnBloques
<1>2. /\ l \in Local /\ pedido[t] \in Pedidos /\ pedido[t].op \in {"SAC_unlink", "SAC_truncate"}
      /\ l.nodo \in Nodo /\ tabla[l.nodo].state = IF pedido[t].op = "SAC_unlink" THEN 0 ELSE 1
  BY <1>1 DEF TiposS, InvPunto
<1>3. f \in Nat
  BY <1>2, PedidaTipo
<1>4. pedido[t].op = "SAC_unlink" => f = 0
  BY <1>2, PedidaTipo, TechoDe DEF Pedida
<1>5. /\ l.faltan >= 1 /\ f + l.faltan <= MaxDatablocks /\ l.indir >= 0 /\ l.dentro < PTRBYINDIRECT
      /\ f + l.faltan - 1 = l.indir * PTRBYINDIRECT + l.dentro
  BY <1>1 DEF InvLiberacion
<1>6. l.faltan \in Nat /\ l.indir \in Nat /\ l.dentro \in 0..(PTRBYINDIRECT - 1)
  BY <1>2, <1>5, Constantes DEF Local
<1>7. d \in Nat /\ d + 1 = f + l.faltan /\ d + 1 <= MaxDatablocks
  BY <1>3, <1>5, <1>6
<1>8. d = l.indir * PTRBYINDIRECT + l.dentro
  <2>1. d = f + (l.faltan - 1)
    BY <1>3, <1>6
  <2> QED BY <1>5, <2>1
<1>9. d \div PTRBYINDIRECT = l.indir /\ d % PTRBYINDIRECT = l.dentro
  BY <1>6, <1>8, Cociente
<1>10. Techo(d + 1) = l.indir + 1
  <2>1. l.dentro + 1 \in 1..PTRBYINDIRECT
    BY <1>6, Constantes
  <2>2. l.indir * PTRBYINDIRECT \in Int
    BY <1>6, Constantes
  <2>3. d + 1 = l.indir * PTRBYINDIRECT + (l.dentro + 1)
    <3>1. PICK p : p = l.indir * PTRBYINDIRECT
      OBVIOUS
    <3>2. p \in Int /\ d = p + l.dentro
      BY <1>8, <2>2, <3>1
    <3>3. d + 1 = p + (l.dentro + 1)
      BY <1>6, <3>2
    <3> QED BY <3>1, <3>3
  <2> QED BY <1>6, <2>1, <2>3, TechoEn
<1>11. \A m \in Nodo : Cambia(t, m) <=> m = l.nodo
  BY <1>1 DEF Cambia
<1>12. CantDatablocks(l.nodo) = d + 1
  BY <1>2, <1>7, <1>11, Cuentas DEF CuentaDe
<1>13. CantIndirectos(l.nodo) = l.indir + 1
  <2>1. CantIndirectos(l.nodo) = Techo(CantDatablocks(l.nodo))
    BY <1>2, Cuentas DEF CuentaDe
  <2> QED BY <1>10, <1>12, <2>1
<1>14. l.indir \in 0..(BLKINDIRECT - 1) /\ f <= MaxDatablocks
  <2>1. CantIndirectos(l.nodo) \in 0..BLKINDIRECT
    BY <1>2, Cotas
  <2>2. MaxDatablocks \in Nat
    BY Constantes DEF MaxDatablocks
  <2> QED BY <1>3, <1>5, <1>6, <1>13, <2>1, <2>2, Constantes
<1> QED BY <1>2, <1>3, <1>4, <1>5, <1>6, <1>7, <1>8, <1>9, <1>11, <1>12, <1>13, <1>14

(* A turn of the loop that frees, of which the last one leaves it. *)
LEMMA TurnoDeLiberar ==
  ASSUME UnHilo, InvarianteS, NEW t \in Hilos, pc[t] = "liberar",
         NEW l, l = local[t], NEW d, d = (Final(t) + l.faltan) - 1,
         NEW m \in Local, Seguir(t, TrasLiberar(t), m), m.nodo = l.nodo, m.faltan = l.faltan - 1,
         UNCHANGED tabla
  PROVE  /\ CantDatablocks(l.nodo)' = d /\ CantIndirectos(l.nodo)' = Techo(d)
         /\ \A k \in Nodo \ {l.nodo} : /\ CantDatablocks(k)' = CantDatablocks(k)
                                       /\ CantIndirectos(k)' = CantIndirectos(k)
         /\ pc' \in [Hilos -> Punto] /\ pedido' \in [Hilos -> Pedidos \cup {Nada}]
         /\ local' \in [Hilos -> Local] /\ respuesta' \in [Hilos -> Respuesta \cup {Nada}]
         /\ InvTamanio' /\ InvPunto(t)' /\ InvReserva(t)' /\ InvEspacio(t)'
         /\ (l.faltan > 1 => /\ m.indir >= 0 /\ m.dentro < PTRBYINDIRECT
                             /\ d - 1 = m.indir * PTRBYINDIRECT + m.dentro) => InvLiberacion(t)'
<1>1. PICK f, n, e : f = Final(t) /\ n = l.nodo /\ e = TrasLiberar(t)
  OBVIOUS
<1>2. /\ l \in Local /\ n \in Nodo /\ l.faltan \in Nat /\ l.faltan >= 1
      /\ pedido[t] \in Pedidos /\ pedido[t].op \in {"SAC_unlink", "SAC_truncate"}
      /\ tabla[n].state = IF pedido[t].op = "SAC_unlink" THEN 0 ELSE 1
      /\ pedido[t].op = "SAC_unlink" => f = 0
      /\ f \in Nat /\ d \in Nat /\ d + 1 = f + l.faltan /\ d + 1 <= MaxDatablocks
      /\ f <= MaxDatablocks /\ \A k \in Nodo : Cambia(t, k) <=> k = n
  BY <1>1, EnLiberacion
<1>3. \/ l.faltan > 1 /\ e = "liberar"
      \/ l.faltan = 1 /\ e = "liberado" /\ pedido[t].op = "SAC_unlink"
      \/ l.faltan = 1 /\ e = "cortar" /\ pedido[t].op = "SAC_truncate"
  BY <1>1, <1>2 DEF TrasLiberar
<1>4. e \in Punto
  BY <1>3 DEF Punto
<1>5. TiposS /\ InvPunto(t) /\ InvTamanio
  BY DEF InvarianteS
<1>6. Seguir(t, e, m)
  BY <1>1
<1>7. /\ pc' \in [Hilos -> Punto] /\ pedido' \in [Hilos -> Pedidos \cup {Nada}]
      /\ local' \in [Hilos -> Local] /\ respuesta' \in [Hilos -> Respuesta \cup {Nada}]
      /\ pc'[t] = e /\ local'[t] = m /\ pedido' = pedido /\ respuesta' = respuesta
      /\ Final(t)' = f
  BY <1>1, <1>4, <1>6, AlSeguir
<1>8. \A k \in Nodo \ {n} : ~ Cambia(t, k) /\ ~ Cambia(t, k)'
  BY <1>1, <1>2, <1>7 DEF Cambia
<1>9. CantDatablocks(n)' = d /\ CantIndirectos(n)' = Techo(d)
  <2>1. CASE e = "liberar"
    <3>1. "liberar" \in EnBloques
      BY DEF EnBloques
    <3>2. d = f + m.faltan
      BY <1>2
    <3> QED BY <1>1, <1>2, <1>6, <2>1, <3>1, <3>2, DespuesDe
  <2>2. CASE e = "cortar"
    <3>1. "cortar" \in EnBloques
      BY DEF EnBloques
    <3>2. d = IF "cortar" = "liberar" THEN f + m.faltan ELSE f - m.faltan
      <4>1. l.faltan = 1
        BY <1>3, <2>2
      <4>2. m.faltan = 0
        BY <4>1
      <4>3. d = f
        BY <1>2, <4>1
      <4> QED BY <1>2, <4>2, <4>3
    <3>3. Seguir(t, "cortar", m) /\ m.nodo = n /\ f = Final(t) /\ n \in Nodo
      BY <1>1, <1>2, <1>6, <2>2
    <3>4. CantDatablocks(n)' = d /\ CantIndirectos(n)' = Techo(IF "cortar" \in {"buscar", "datablock"} THEN d + 1 ELSE d)
      BY <3>1, <3>2, <3>3, DespuesDe
    <3> QED BY <3>4
  <2>3. CASE e = "liberado"
    <3>1. d = 0 /\ tabla[n].state = 0
      <4>1. l.faltan = 1 /\ pedido[t].op = "SAC_unlink"
        BY <1>3, <2>3
      <4>2. f = 0 /\ tabla[n].state = 0
        BY <1>2, <4>1
      <4>3. d + 1 = f + l.faltan /\ d \in Nat
        BY <1>2
      <4>4. d + 1 = 0 + 1
        <5>1. l.faltan = 1 /\ f = 0
          BY <4>1, <4>2
        <5> QED BY ONLY <4>3, <5>1, Zenon
      <4>5. d = 0
        BY ONLY <4>3, <4>4
      <4> QED BY <4>2, <4>5
    <3>2. ~ Cambia(t, n)'
      BY <1>7, <2>3 DEF Cambia, EnBloques
    <3>3. CantDatablocks(n)' = 0
      BY <1>2, <3>1, <3>2, Cuentas DEF CuentaDe, Ocupa
    <3>4. CantIndirectos(n)' = Techo(0)
      BY <1>2, <3>2, <3>3, Cuentas DEF CuentaDe, Techo
    <3> QED BY <3>1, <3>3, <3>4
  <2> QED BY <1>3, <2>1, <2>2, <2>3
<1>10. \A k \in Nodo \ {n} : CantDatablocks(k)' = CantDatablocks(k) /\ CantIndirectos(k)' = CantIndirectos(k)
  BY <1>8, OtrosNodos
<1>11. InvTamanio'
  BY <1>5 DEF InvTamanio, Ocupa, MaxDatablocks, get_occupied_datablocks_qty, get_datablock_index,
              GBLOCKSIZE
<1>12. m.nodo = n /\ m.faltan = l.faltan - 1
  BY <1>1
<1>13. InvPunto(t)'
  <2>1. e = "cortar" => m.faltan = 0
    BY <1>3, <1>12
  <2>2. respuesta[t] = Nada /\ pedido[t] # Nada
    BY <1>5 DEF InvPunto
  <2> QED BY <1>2, <1>3, <1>7, <1>12, <2>1, <2>2 DEF InvPunto, EnBloques, Reservando
<1>14. InvReserva(t)' /\ InvEspacio(t)'
  <2>1. MaxDatablocks' = MaxDatablocks
    BY DEF MaxDatablocks
  <2> QED BY <1>2, <1>3, <1>7, <2>1 DEF InvReserva, InvEspacio, Reservando
<1>15. ASSUME l.faltan > 1 => /\ m.indir >= 0 /\ m.dentro < PTRBYINDIRECT
                              /\ d - 1 = m.indir * PTRBYINDIRECT + m.dentro
       PROVE  InvLiberacion(t)'
  <2> SUFFICES ASSUME pc'[t] = "liberar" PROVE InvLiberacion(t)'
    BY DEF InvLiberacion
  <2>1. l.faltan > 1
    BY <1>3, <1>7
  <2>2. m.faltan >= 1 /\ f + m.faltan <= MaxDatablocks
    <3>1. MaxDatablocks \in Nat
      BY Constantes DEF MaxDatablocks
    <3> QED BY <1>2, <1>12, <2>1, <3>1
  <2>3. f + m.faltan - 1 = d - 1
    BY <1>2, <1>12
  <2>4. f + m.faltan - 1 = m.indir * PTRBYINDIRECT + m.dentro
    BY <1>15, <2>1, <2>3
  <2>5. MaxDatablocks' = MaxDatablocks
    BY DEF MaxDatablocks
  <2> QED BY <1>7, <1>15, <2>1, <2>2, <2>4, <2>5 DEF InvLiberacion
<1> QED BY <1>1, <1>7, <1>9, <1>10, <1>11, <1>13, <1>14, <1>15

(* The last data block is not the first of its indirect block. *)
LEMMA PasoLiberarDato ==
  ASSUME UnHilo, InvarianteS, NEW t \in Hilos, LiberarDato(t)
  PROVE  InvarianteS'
<1>1. PICK l, f, n, i, j : /\ l = local[t] /\ f = Final(t) /\ n = l.nodo /\ i = l.indir /\ j = l.dentro
  OBVIOUS
<1>2. PICK d, m, b : /\ d = (f + l.faltan) - 1
                     /\ m = [l EXCEPT !.dentro = j - 1, !.faltan = l.faltan - 1]
                     /\ b = disco[blk_indirect[n][i]][j]
  BY SMTT(30)
<1>3. /\ pc[t] = "liberar" /\ j > 0 /\ bitmap' = bitmap \ {b} /\ Seguir(t, TrasLiberar(t), m)
      /\ tabla' = tabla /\ blk_indirect' = blk_indirect /\ disco' = disco
  BY SMTT(30), <1>1, <1>2 DEF LiberarDato, UltimoDato, UltimoIndirecto, metadatos
<1>4. /\ l \in Local /\ n \in Nodo /\ l.faltan \in Nat /\ l.faltan >= 1 /\ d \in Nat
      /\ i \in 0..(BLKINDIRECT - 1) /\ j \in 0..(PTRBYINDIRECT - 1) /\ d = i * PTRBYINDIRECT + j
      /\ d \div PTRBYINDIRECT = i /\ d % PTRBYINDIRECT = j
      /\ CantDatablocks(n) = d + 1 /\ CantIndirectos(n) = i + 1
  BY <1>1, <1>2, <1>3, EnLiberacion
<1>5. TiposS /\ DuenioUnico /\ BitmapExacto
  BY DEF InvarianteS
<1>6. m \in Local /\ m.nodo = n /\ m.faltan = l.faltan - 1 /\ m.dentro = j - 1 /\ m.indir = i
  <2>1. l.faltan - 1 \in Nat /\ j - 1 \in 0..PTRBYINDIRECT
    BY <1>3, <1>4, Constantes
  <2> QED BY <1>1, <1>2, <1>4, <2>1 DEF Local
<1>7. /\ CantDatablocks(n)' = d /\ CantIndirectos(n)' = Techo(d)
      /\ \A k \in Nodo \ {n} : /\ CantDatablocks(k)' = CantDatablocks(k)
                               /\ CantIndirectos(k)' = CantIndirectos(k)
      /\ pc' \in [Hilos -> Punto] /\ pedido' \in [Hilos -> Pedidos \cup {Nada}]
      /\ local' \in [Hilos -> Local] /\ respuesta' \in [Hilos -> Respuesta \cup {Nada}]
      /\ InvTamanio' /\ InvPunto(t)' /\ InvReserva(t)' /\ InvEspacio(t)'
      /\ (l.faltan > 1 => /\ m.indir >= 0 /\ m.dentro < PTRBYINDIRECT
                          /\ d - 1 = m.indir * PTRBYINDIRECT + m.dentro) => InvLiberacion(t)'
  <2>1. /\ l = local[t] /\ d = (Final(t) + l.faltan) - 1 /\ pc[t] = "liberar"
        /\ m \in Local /\ Seguir(t, TrasLiberar(t), m)
        /\ m.nodo = l.nodo /\ m.faltan = l.faltan - 1 /\ UNCHANGED tabla
    BY <1>1, <1>2, <1>3, <1>6
  <2>2. /\ CantDatablocks(l.nodo)' = d /\ CantIndirectos(l.nodo)' = Techo(d)
        /\ \A k \in Nodo \ {l.nodo} : /\ CantDatablocks(k)' = CantDatablocks(k)
                                      /\ CantIndirectos(k)' = CantIndirectos(k)
        /\ pc' \in [Hilos -> Punto] /\ pedido' \in [Hilos -> Pedidos \cup {Nada}]
        /\ local' \in [Hilos -> Local] /\ respuesta' \in [Hilos -> Respuesta \cup {Nada}]
        /\ InvTamanio' /\ InvPunto(t)' /\ InvReserva(t)' /\ InvEspacio(t)'
        /\ (l.faltan > 1 => /\ m.indir >= 0 /\ m.dentro < PTRBYINDIRECT
                            /\ d - 1 = m.indir * PTRBYINDIRECT + m.dentro) => InvLiberacion(t)'
    BY ONLY UnHilo, InvarianteS, t \in Hilos, <2>1, TurnoDeLiberar
  <2> QED BY ONLY <1>1, <2>2
<1>8. InvLiberacion(t)'
  <2>1. m.indir >= 0 /\ m.dentro < PTRBYINDIRECT
    BY <1>3, <1>4, <1>6, Constantes
  <2>2. d - 1 = m.indir * PTRBYINDIRECT + m.dentro
    <3>1. PICK p : p = i * PTRBYINDIRECT
      OBVIOUS
    <3>2. p \in Int /\ d = p + j
      BY <1>4, <3>1, Constantes
    <3>3. d - 1 = p + (j - 1)
      BY <1>4, <3>2
    <3> QED BY <1>6, <3>1, <3>3
  <2> QED BY <1>7, <2>1, <2>2
<1>9. Techo(d) = i + 1
  <2>1. j \in 1..PTRBYINDIRECT
    BY <1>3, <1>4, Constantes
  <2> QED BY <1>4, <2>1, TechoEn
<1>10. PICK x : x = <<n, "dato", d>>
  OBVIOUS
<1>11. Lugar' = Lugar \ {x} /\ x \in Lugar
  <2>1. \A k \in Nodo : CantIndirectos(k)' = CantIndirectos(k)
    BY <1>4, <1>7, <1>9
  <2> QED BY <1>4, <1>7, <1>10, <2>1, MenosDato
<1>12. BloqueEn(x) = b
  BY <1>2, <1>4, <1>10 DEF BloqueEn
<1>13. DuenioUnico' /\ BitmapExacto'
  <2>1. {BloqueEn(y) : y \in {x}} = {b}
    BY <1>12
  <2>2. \A y \in Lugar \ {x} : BloqueEn(y)' = BloqueEn(y)
    BY <1>3 DEF BloqueEn
  <2>3. PICK X : X = {x}
    OBVIOUS
  <2>4. /\ X \subseteq Lugar /\ Lugar' = Lugar \ X /\ bitmap' = bitmap \ {BloqueEn(y) : y \in X}
        /\ \A y \in Lugar \ X : BloqueEn(y)' = BloqueEn(y)
    BY <1>3, <1>11, <2>1, <2>2, <2>3
  <2> QED BY <1>5, <2>4, LugaresMenos
<1>14. TiposS'
  BY <1>3, <1>5, <1>7 DEF TiposS
<1> QED BY <1>7, <1>8, <1>13, <1>14, PorUnHilo

(* It is, and the indirect block goes with it. *)
LEMMA PasoLiberarConIndirecto ==
  ASSUME UnHilo, InvarianteS, NEW t \in Hilos, LiberarConIndirecto(t)
  PROVE  InvarianteS'
<1>1. PICK l, f, n, i : l = local[t] /\ f = Final(t) /\ n = l.nodo /\ i = l.indir
  OBVIOUS
<1>2. PICK d, m, a, b : /\ d = (f + l.faltan) - 1
                        /\ m = [l EXCEPT !.dentro = PTRBYINDIRECT - 1, !.indir = i - 1,
                                         !.faltan = l.faltan - 1]
                        /\ a = blk_indirect[n][i] /\ b = disco[blk_indirect[n][i]][0]
  BY SMTT(30)
<1>3. /\ pc[t] = "liberar" /\ l.dentro = 0 /\ bitmap' = bitmap \ {b, a}
      /\ Seguir(t, TrasLiberar(t), m) /\ blk_indirect' = [blk_indirect EXCEPT ![n][i] = 0]
      /\ tabla' = tabla /\ disco' = disco
  BY SMTT(30), <1>1, <1>2 DEF LiberarConIndirecto, UltimoDato, UltimoIndirecto
<1>4. /\ l \in Local /\ n \in Nodo /\ l.faltan \in Nat /\ l.faltan >= 1 /\ d \in Nat /\ f \in Nat
      /\ i \in 0..(BLKINDIRECT - 1) /\ d = i * PTRBYINDIRECT + 0 /\ d + 1 = f + l.faltan
      /\ d \div PTRBYINDIRECT = i /\ d % PTRBYINDIRECT = 0
      /\ CantDatablocks(n) = d + 1 /\ CantIndirectos(n) = i + 1
  BY <1>1, <1>2, <1>3, EnLiberacion
<1>5. TiposS /\ DuenioUnico /\ BitmapExacto
  BY DEF InvarianteS
<1>6. /\ m \in Local /\ m.nodo = n /\ m.faltan = l.faltan - 1 /\ m.dentro = PTRBYINDIRECT - 1
      /\ m.indir = i - 1
  <2>1. l.faltan - 1 \in Nat /\ PTRBYINDIRECT - 1 \in 0..PTRBYINDIRECT /\ i - 1 \in -1..BLKINDIRECT
    BY <1>4, Constantes
  <2> QED BY <1>1, <1>2, <1>4, <2>1 DEF Local
<1>7. /\ CantDatablocks(n)' = d /\ CantIndirectos(n)' = Techo(d)
      /\ \A k \in Nodo \ {n} : /\ CantDatablocks(k)' = CantDatablocks(k)
                               /\ CantIndirectos(k)' = CantIndirectos(k)
      /\ pc' \in [Hilos -> Punto] /\ pedido' \in [Hilos -> Pedidos \cup {Nada}]
      /\ local' \in [Hilos -> Local] /\ respuesta' \in [Hilos -> Respuesta \cup {Nada}]
      /\ InvTamanio' /\ InvPunto(t)' /\ InvReserva(t)' /\ InvEspacio(t)'
      /\ (l.faltan > 1 => /\ m.indir >= 0 /\ m.dentro < PTRBYINDIRECT
                          /\ d - 1 = m.indir * PTRBYINDIRECT + m.dentro) => InvLiberacion(t)'
  <2>1. /\ l = local[t] /\ d = (Final(t) + l.faltan) - 1 /\ pc[t] = "liberar"
        /\ m \in Local /\ Seguir(t, TrasLiberar(t), m)
        /\ m.nodo = l.nodo /\ m.faltan = l.faltan - 1 /\ UNCHANGED tabla
    BY <1>1, <1>2, <1>3, <1>6
  <2>2. /\ CantDatablocks(l.nodo)' = d /\ CantIndirectos(l.nodo)' = Techo(d)
        /\ \A k \in Nodo \ {l.nodo} : /\ CantDatablocks(k)' = CantDatablocks(k)
                                      /\ CantIndirectos(k)' = CantIndirectos(k)
        /\ pc' \in [Hilos -> Punto] /\ pedido' \in [Hilos -> Pedidos \cup {Nada}]
        /\ local' \in [Hilos -> Local] /\ respuesta' \in [Hilos -> Respuesta \cup {Nada}]
        /\ InvTamanio' /\ InvPunto(t)' /\ InvReserva(t)' /\ InvEspacio(t)'
        /\ (l.faltan > 1 => /\ m.indir >= 0 /\ m.dentro < PTRBYINDIRECT
                            /\ d - 1 = m.indir * PTRBYINDIRECT + m.dentro) => InvLiberacion(t)'
    BY ONLY UnHilo, InvarianteS, t \in Hilos, <2>1, TurnoDeLiberar
  <2> QED BY ONLY SMTT(30), <1>1, <2>2
<1>8. InvLiberacion(t)'
  <2> SUFFICES ASSUME l.faltan > 1
               PROVE  /\ m.indir >= 0 /\ m.dentro < PTRBYINDIRECT
                      /\ d - 1 = m.indir * PTRBYINDIRECT + m.dentro
    BY <1>7
  <2>1. d >= 1
    BY <1>4
  <2>2. i # 0
    <3>1. 0 * PTRBYINDIRECT + 0 = 0
      BY Constantes
    <3> QED BY <1>4, <2>1, <3>1
  <2>3. i * PTRBYINDIRECT = (i - 1) * PTRBYINDIRECT + 1 * PTRBYINDIRECT
    <3>1. i - 1 \in Int /\ 1 \in Int /\ (i - 1) + 1 = i
      BY <1>4
    <3> QED BY <3>1, Productos
  <2>4. PICK p : p = (i - 1) * PTRBYINDIRECT
    OBVIOUS
  <2>5. p \in Int /\ 1 * PTRBYINDIRECT = PTRBYINDIRECT
    BY <1>4, <2>4, Constantes
  <2>6. d = p + PTRBYINDIRECT
    BY <1>4, <2>3, <2>4, <2>5, Constantes
  <2>7. d - 1 = p + (PTRBYINDIRECT - 1)
    BY <2>5, <2>6, Constantes
  <2>8. i - 1 >= 0 /\ PTRBYINDIRECT - 1 < PTRBYINDIRECT
    BY <1>4, <2>2, Constantes
  <2> QED BY <1>6, <2>4, <2>7, <2>8
<1>9. Techo(d) = i
  <2>1. d = i * PTRBYINDIRECT
    BY <1>4, Constantes
  <2> QED BY <1>4, <2>1, TechoMultiplo
<1>10. PICK x, y : x = <<n, "dato", d>> /\ y = <<n, "indirecto", i>>
  OBVIOUS
<1>11. Lugar' = Lugar \ {x, y} /\ x \in Lugar /\ y \in Lugar
  BY <1>4, <1>7, <1>9, <1>10, MenosDatoEIndirecto
<1>12. BloqueEn(x) = b /\ BloqueEn(y) = a
  BY <1>2, <1>4, <1>10 DEF BloqueEn
<1>13. /\ blk_indirect' \in [Nodo -> [0..(BLKINDIRECT - 1) -> Bloque]]
       /\ \A k \in Nodo, p \in 0..(BLKINDIRECT - 1) : k # n \/ p # i => blk_indirect'[k][p] = blk_indirect[k][p]
  <2>1. blk_indirect \in [Nodo -> [0..(BLKINDIRECT - 1) -> Bloque]]
    BY <1>5 DEF TiposS
  <2>2. PICK fila : fila = [blk_indirect[n] EXCEPT ![i] = 0]
    OBVIOUS
  <2>3. fila \in [0..(BLKINDIRECT - 1) -> Bloque]
        /\ \A p \in 0..(BLKINDIRECT - 1) : p # i => fila[p] = blk_indirect[n][p]
    BY <1>4, <2>1, <2>2, Constantes
  <2>4. blk_indirect' = [blk_indirect EXCEPT ![n] = fila]
    BY <1>3, <2>2
  <2> QED BY <1>4, <2>1, <2>3, <2>4
<1>14. \A z \in Lugar \ {x, y} : BloqueEn(z)' = BloqueEn(z)
  <2> SUFFICES ASSUME NEW z \in Lugar \ {x, y} PROVE BloqueEn(z)' = BloqueEn(z)
    OBVIOUS
  <2>1. PICK k, p : z = <<k, "indirecto", p>> \/ z = <<k, "dato", p>>
    BY Lugares DEF EnLugar
  <2>2. k \in Nodo /\ CantIndirectos(k) \in 0..BLKINDIRECT
    <3>1. k \in Nodo
      BY <2>1, Lugares DEF EnLugar
    <3> QED BY <3>1, Cotas
  <2>3. CASE z = <<k, "indirecto", p>>
    <3>1. p \in 0..(CantIndirectos(k) - 1) /\ (k = n => p # i)
      BY <1>10, <2>3, Lugares DEF EnLugar
    <3>2. p \in 0..(BLKINDIRECT - 1)
      BY <2>2, <3>1, Constantes
    <3>3. blk_indirect'[k][p] = blk_indirect[k][p]
      BY SMTT(30), <1>13, <2>2, <3>1, <3>2
    <3> QED BY <2>3, <3>3 DEF BloqueEn
  <2>4. CASE z = <<k, "dato", p>>
    <3>1. p \in 0..(CantDatablocks(k) - 1) /\ (k = n => p # d)
      BY <1>10, <2>4, Lugares DEF EnLugar
    <3>2. PICK q, r : q = p \div PTRBYINDIRECT /\ r = p % PTRBYINDIRECT
      OBVIOUS
    <3>3. q \in 0..(CantIndirectos(k) - 1)
      BY <2>2, <3>1, <3>2, Cotas
    <3>4. q \in 0..(BLKINDIRECT - 1)
      BY <2>2, <3>3, Constantes
    <3>5. k = n => q # i
      <4> SUFFICES ASSUME k = n PROVE q # i
        OBVIOUS
      <4>1. p \in Nat /\ p < d
        BY <1>4, <3>1
      <4>2. q \in 0..(Techo(d) - 1)
        BY <1>4, <3>2, <4>1, DentroDe
      <4> QED BY <1>4, <1>9, <4>2
    <3>6. blk_indirect'[k][q] = blk_indirect[k][q]
      BY <1>13, <2>2, <3>4, <3>5
    <3>7. disco'[blk_indirect'[k][q]][r] = disco[blk_indirect[k][q]][r]
      BY <1>3, <3>6
    <3> QED BY <2>4, <3>2, <3>7 DEF BloqueEn
  <2> QED BY <2>1, <2>3, <2>4
<1>15. DuenioUnico' /\ BitmapExacto'
  <2>1. {BloqueEn(z) : z \in {x, y}} = {b, a}
    BY <1>12
  <2>2. PICK X : X = {x, y}
    OBVIOUS
  <2>3. /\ X \subseteq Lugar /\ Lugar' = Lugar \ X /\ bitmap' = bitmap \ {BloqueEn(z) : z \in X}
        /\ \A z \in Lugar \ X : BloqueEn(z)' = BloqueEn(z)
    BY <1>3, <1>11, <1>14, <2>1, <2>2
  <2> QED BY <1>5, <2>3, LugaresMenos
<1>16. TiposS'
  BY <1>3, <1>5, <1>7, <1>13 DEF TiposS
<1> QED BY <1>7, <1>8, <1>15, <1>16, PorUnHilo

-------------------------------------------------------------------------------
(* The invariant holds *)

(* sac-format leaves no files, and no thread has a request. *)
LEMMA InicioS ==
  ASSUME Init
  PROVE  InvarianteS
<1>1. TiposS
  <2>1. tabla \in [Nodo -> GFile]
    BY DEF Init, GFile
  <2>2. blk_indirect \in [Nodo -> [0..(BLKINDIRECT - 1) -> Bloque]] /\ bitmap \subseteq Bloque
        /\ disco \in [Bloque -> [0..(PTRBYINDIRECT - 1) -> Celda]]
    BY Constantes DEF Init
  <2>3. LocalInicial \in Local
    BY InicialTipo
  <2>4. /\ pc \in [Hilos -> Punto] /\ pedido \in [Hilos -> Pedidos \cup {Nada}]
        /\ local \in [Hilos -> Local] /\ respuesta \in [Hilos -> Respuesta \cup {Nada}]
    BY <2>3 DEF Init, Punto
  <2> QED BY <2>1, <2>2, <2>4 DEF TiposS
<1>2. \A n \in Nodo : tabla[n].state = 0
  BY DEF Init
<1>3. InvTamanio
  <2>1. MaxDatablocks \in Nat
    BY Constantes DEF MaxDatablocks
  <2> QED BY <1>2, <2>1 DEF InvTamanio, Ocupa
<1>4. \A t \in Hilos : pc[t] = "libre" /\ pedido[t] = Nada /\ local[t] = LocalInicial /\ respuesta[t] = Nada
  BY DEF Init
<1>5. Lugar = {}
  <2>1. \A n, t : t \in Hilos => ~ Cambia(t, n)
    BY <1>4 DEF Cambia, EnBloques
  <2>2. \A n \in Nodo : CantDatablocks(n) = 0
    BY <1>2, <2>1 DEF CantDatablocks
  <2>3. \A n \in Nodo : CantIndirectos(n) = 0
    <3>1. (0 + PTRBYINDIRECT - 1) \div PTRBYINDIRECT = 0
      BY TechoDe DEF Techo
    <3> QED BY <2>1, <2>2, <3>1 DEF CantIndirectos
  <2>4. ASSUME NEW y \in Lugar PROVE FALSE
    <3>1. 0..(0 - 1) = {}
      OBVIOUS
    <3>2. \A n, k : <<n, "indirecto", k>> \notin Lugar /\ <<n, "dato", k>> \notin Lugar
      BY <2>2, <2>3, <3>1, Lugares DEF EnLugar
    <3>3. PICK n, k : y = <<n, "indirecto", k>> \/ y = <<n, "dato", k>>
      BY Lugares DEF EnLugar
    <3> QED BY <2>4, <3>2, <3>3
  <2> QED BY <2>4
<1>6. DuenioUnico
  BY <1>5 DEF DuenioUnico
<1>7. BitmapExacto
  BY <1>5 DEF BitmapExacto, Init
<1>8. ASSUME NEW t \in Hilos
      PROVE  InvPunto(t) /\ InvReserva(t) /\ InvLiberacion(t) /\ InvEspacio(t)
  BY <1>4 DEF InvPunto, InvReserva, InvLiberacion, InvEspacio, EnBloques, Reservando
<1> QED BY <1>1, <1>3, <1>6, <1>7, <1>8 DEF InvarianteS

LEMMA MismasCuentas ==
  ASSUME UNCHANGED <<tabla, pc, pedido, local>>
  PROVE  \A n : CantDatablocks(n)' = CantDatablocks(n) /\ CantIndirectos(n)' = CantIndirectos(n)
BY DEF CantDatablocks, CantIndirectos, Cambia, Pedida, get_occupied_datablocks_qty,
       get_datablock_index

LEMMA QuietoS ==
  ASSUME InvarianteS, UNCHANGED vars
  PROVE  InvarianteS'
<1>1. UNCHANGED <<tabla, blk_indirect, bitmap, disco, pc, pedido, local, respuesta>>
  BY DEF vars
<1>2. TiposS' /\ InvTamanio'
  BY <1>1 DEF InvarianteS, TiposS, InvTamanio, Ocupa, MaxDatablocks, get_occupied_datablocks_qty,
              get_datablock_index
<1>3. \A n \in Nodo : CantDatablocks(n)' = CantDatablocks(n) /\ CantIndirectos(n)' = CantIndirectos(n)
  BY <1>1, MismasCuentas
<1>4. Lugar' = Lugar
  BY <1>3, MismosLugares
<1>5. \A l \in Lugar : BloqueEn(l)' = BloqueEn(l)
  BY <1>1 DEF BloqueEn
<1>6. DuenioUnico' /\ BitmapExacto'
  BY <1>1, <1>4, <1>5, MismosDuenios DEF InvarianteS
<1>7. ASSUME NEW t \in Hilos
      PROVE  InvPunto(t)' /\ InvReserva(t)' /\ InvLiberacion(t)' /\ InvEspacio(t)'
  <2>1. InvPunto(t) /\ InvReserva(t) /\ InvLiberacion(t) /\ InvEspacio(t)
    BY DEF InvarianteS
  <2>2. Final(t)' = Final(t)
    BY <1>1, MismaPedida
  <2>3. Pedida(t)' = Pedida(t)
    BY <1>1, MismaPedida
  <2>4. InvPunto(t)'
    <3>1. PICK r : r = pedido[t]
      OBVIOUS
    <3>2. KernelPermite(r)' = KernelPermite(r)
      BY <1>1, MismoPermiso
    <3>3. pc[t] = "recibido" => KernelPermite(r)'
      BY <2>1, <3>1, <3>2 DEF InvPunto
    <3>4. pc'[t] = "recibido" => KernelPermite(pedido[t])'
      BY <1>1, <3>1, <3>3
    <3> QED BY <1>1, <2>1, <2>3, <3>4 DEF InvPunto
  <2>5. InvReserva(t)' /\ InvLiberacion(t)'
    BY <1>1, <2>1, <2>2 DEF InvReserva, InvLiberacion, Reservados, MaxDatablocks
  <2>6. InvEspacio(t)'
    BY <1>1, <2>1, <2>2 DEF InvEspacio, IndirectosHechos, Reservados, get_free_blocks, Techo
  <2> QED BY <2>4, <2>5, <2>6
<1> QED BY <1>2, <1>6, <1>7 DEF InvarianteS

LEMMA PasoS ==
  ASSUME UnHilo, HayLugar, InvarianteS, [Next]_vars
  PROVE  InvarianteS'
<1>1. CASE UNCHANGED vars
  BY <1>1, QuietoS
<1>2. ASSUME NEW t \in Hilos, NEW r \in Pedidos, send_request(t, r)
      PROVE  InvarianteS'
  BY <1>2, PasoSendRequest
<1>3. ASSUME NEW t \in Hilos, Volver(t)
      PROVE  InvarianteS'
  BY <1>3, PasoVolver
<1>4. ASSUME NEW t \in Hilos, procesarPaqueteFuseOps(t)
      PROVE  InvarianteS'
  <2>1. CASE procesar_getattr(t)
    BY <2>1, PasoGetattr
  <2>2. CASE procesar_readdir(t)
    BY <2>2, PasoReaddir
  <2>3. CASE procesar_read(t)
    BY <2>3, PasoRead
  <2>4. CASE procesar_mknod(t)
    <3>1. Crear(t, "SAC_mknod", ENOENT) /\ ENOENT \in Int
      BY <2>4 DEF procesar_mknod, ENOENT
    <3> QED BY <3>1, PasoCrear
  <2>5. CASE procesar_mkdir(t)
    <3>1. Crear(t, "SAC_mkdir", ENOTDIR) /\ ENOTDIR \in Int
      BY <2>5 DEF procesar_mkdir, ENOTDIR
    <3> QED BY <3>1, PasoCrear
  <2>6. CASE occupy_node(t)
    BY <2>6, PasoOccupyNode
  <2>7. CASE procesar_unlink(t)
    BY <2>7, PasoUnlink
  <2>8. CASE procesar_rmdir(t)
    BY <2>8, PasoRmdir
  <2>9. CASE procesar_rename(t)
    BY <2>9, PasoRename
  <2>10. CASE procesar_utimens(t)
    BY <2>10, PasoUtimens
  <2>11. CASE procesar_write(t)
    BY <2>11, PasoWrite
  <2>12. CASE EscribirDatos(t)
    BY <2>12, PasoEscribirDatos
  <2>13. CASE procesar_truncate(t)
    BY <2>13, PasoTruncate
  <2>14. CASE CortarArchivo(t)
    BY <2>14, PasoCortarArchivo
  <2>15. CASE reservarBloques(t)
    BY <2>15, PasoBuscarIndirecto, PasoTomarIndirecto, PasoBuscarDatablock, PasoTomarDatablock
       DEF reservarBloques
  <2>16. CASE liberarBloques(t)
    BY <2>16, PasoLiberarDato, PasoLiberarConIndirecto DEF liberarBloques
  <2>17. CASE TerminarUnlink(t)
    BY <2>17, PasoTerminarUnlink
  <2> QED BY <1>4, <2>1, <2>2, <2>3, <2>4, <2>5, <2>6, <2>7, <2>8, <2>9, <2>10, <2>11, <2>12,
             <2>13, <2>14, <2>15, <2>16, <2>17 DEF procesarPaqueteFuseOps
<1> QED BY <1>1, <1>2, <1>3, <1>4 DEF Next

-------------------------------------------------------------------------------
(* Theorems *)

(* One thread at a time, and users that do not fill the disk, the table or a *)
(* file: at every access to the bitmap of reservarBloques and liberarBloques *)
(* the counters of the loops say which block comes next, the blocks that are *)
(* still to be taken are free, and the files and the bitmap agree.           *)
THEOREM InvarianteSTheorem == UnHilo /\ HayLugar => (Spec => []InvarianteS)
<1> SUFFICES ASSUME UnHilo, HayLugar PROVE Spec => []InvarianteS
  OBVIOUS
<1>1. Init => InvarianteS
  BY InicioS
<1>2. InvarianteS /\ [Next]_vars => InvarianteS'
  BY PasoS
<1> QED BY <1>1, <1>2, PTL DEF Spec

(* The pointers of the nodes and the turns of the loops of reservarBloques   *)
(* and liberarBloques stay within their tables, for a disk of any size.      *)
THEOREM TypeOKSacTheorem == UnHilo /\ HayLugar => (Spec => []TypeOKSac)
<1> SUFFICES ASSUME UnHilo, HayLugar PROVE Spec => []TypeOKSac
  OBVIOUS
<1>1. InvarianteS => TypeOKSac
  <2> SUFFICES ASSUME InvarianteS PROVE TypeOKSac
    OBVIOUS
  <2>1. TiposS
    BY DEF InvarianteS
  <2>2. ASSUME NEW n \in Nodo
        PROVE  tabla[n].state \in 0..2 /\ tabla[n].parent_dir_block \in Nat /\ tabla[n].file_size \in Nat
    BY <2>1 DEF TiposS, GFile
  <2>3. ASSUME NEW t \in Hilos
        PROVE  /\ pc[t] = "libre" <=> pedido[t] = Nada
               /\ pc[t] # "libre" => pedido[t] \in Pedidos
               /\ pc[t] = "contestado" <=> respuesta[t] # Nada
               /\ local[t].nuevo \in Bloque
               /\ local[t].dentro \in 0..PTRBYINDIRECT
               /\ local[t].indir \in -1..BLKINDIRECT
               /\ local[t].faltan \in Nat
    <3>1. InvPunto(t)
      BY DEF InvarianteS
    <3>2. local[t] \in Local /\ pedido[t] \in Pedidos \cup {Nada}
      BY <2>1 DEF TiposS
    <3>3. /\ pc[t] = "libre" <=> pedido[t] = Nada
          /\ pc[t] = "contestado" <=> respuesta[t] # Nada
      BY <3>1 DEF InvPunto
    <3> QED BY <3>2, <3>3 DEF Local
  <2> QED BY <2>1, <2>2, <2>3 DEF TypeOKSac, TiposS
<1> QED BY <1>1, InvarianteSTheorem, PTL

(* No block belongs to two files, nor to two places of one, and none is of   *)
(* the file system: not even between two accesses to the bitmap of           *)
(* reservarBloques and liberarBloques.                                       *)
THEOREM DuenioUnicoTheorem == UnHilo /\ HayLugar => (Spec => []DuenioUnico)
<1> SUFFICES ASSUME UnHilo, HayLugar PROVE Spec => []DuenioUnico
  OBVIOUS
<1>1. InvarianteS => DuenioUnico
  BY DEF InvarianteS
<1> QED BY <1>1, InvarianteSTheorem, PTL

(* The bits that are set are those of the file system and of the blocks of   *)
(* the files: reservarBloques takes no block it does not record, and         *)
(* liberarBloques leaves none behind.                                        *)
THEOREM BitmapExactoTheorem == UnHilo /\ HayLugar => (Spec => []BitmapExacto)
<1> SUFFICES ASSUME UnHilo, HayLugar PROVE Spec => []BitmapExacto
  OBVIOUS
<1>1. InvarianteS => BitmapExacto
  BY DEF InvarianteS
<1> QED BY <1>1, InvarianteSTheorem, PTL

===============================================================================
