-------------------------------- MODULE SacVista -------------------------------
(***************************************************************************)
(* What SAC shows and what it owns: the blocks each file holds at any point *)
(* of a handler, and the tree of files that the table, the pointers and the *)
(* blocks stand for, which implements SistemaArchivos.                      *)
(***************************************************************************)
EXTENDS Sac

Punto == {"libre", "recibido", "contestado", "ocupar", "escribir", "agrandar", "cortar",
          "reservar", "indirecto", "buscar", "datablock", "liberar", "liberado"}

(* The pointers of the nodes and the turns of the loops stay within their    *)
(* tables, and no handler waits for a request it does not have.              *)
TypeOKSac ==
  /\ DOMAIN tabla = Nodo
  /\ \A n \in Nodo : /\ tabla[n].state \in 0..2
                     /\ tabla[n].parent_dir_block \in Nat
                     /\ tabla[n].file_size \in Nat
  /\ blk_indirect \in [Nodo -> [0..(BLKINDIRECT - 1) -> Bloque]]
  /\ bitmap \subseteq Bloque
  /\ disco \in [Bloque -> [0..(PTRBYINDIRECT - 1) -> Celda]]
  /\ pc \in [Hilos -> Punto]
  /\ \A t \in Hilos : /\ pc[t] = "libre" <=> pedido[t] = Nada
                      /\ pc[t] # "libre" => pedido[t] \in Pedidos
                      /\ pc[t] = "contestado" <=> respuesta[t] # Nada
                      /\ local[t].nuevo \in Bloque
                      /\ local[t].dentro \in 0..PTRBYINDIRECT
                      /\ local[t].indir \in -1..BLKINDIRECT
                      /\ local[t].faltan \in Nat

-------------------------------------------------------------------------------
(* Ownership of blocks *)

(* The size that the request of t asks for. *)
Pedida(t) ==
  LET r == pedido[t] IN
  CASE r.op = "SAC_write" -> r.offset + Len(r.datos)
    [] r.op = "SAC_truncate" -> r.size
    [] OTHER -> 0

EnBloques == {"reservar", "indirecto", "buscar", "datablock", "liberar", "agrandar", "cortar"}
Cambia(t, n) == pc[t] \in EnBloques /\ local[t].nodo = n

(* The data blocks of node n: those of its size, or what the loop of a       *)
(* handler has reached.                                                      *)
CantDatablocks(n) ==
  IF \E t \in Hilos : Cambia(t, n)
  THEN LET t == CHOOSE t \in Hilos : Cambia(t, n)
           final == get_occupied_datablocks_qty(Pedida(t))
       IN IF pc[t] = "liberar" THEN final + local[t].faltan ELSE final - local[t].faltan
  ELSE IF tabla[n].state = 1 THEN get_occupied_datablocks_qty(tabla[n].file_size)
  ELSE 0

(* Between the two blocks of one turn the indirect block is there already.   *)
CantIndirectos(n) ==
  LET d == CantDatablocks(n)
      e == IF \E t \in Hilos : Cambia(t, n) /\ pc[t] \in {"buscar", "datablock"}
           THEN d + 1 ELSE d
  IN (e + PTRBYINDIRECT - 1) \div PTRBYINDIRECT

Lugar ==
  UNION {({n} \X {"indirecto"} \X (0..(CantIndirectos(n) - 1)))
           \cup ({n} \X {"dato"} \X (0..(CantDatablocks(n) - 1))) : n \in Nodo}

BloqueEn(l) ==
  IF l[2] = "indirecto" THEN blk_indirect[l[1]][l[3]]
  ELSE disco[blk_indirect[l[1]][l[3] \div PTRBYINDIRECT]][l[3] % PTRBYINDIRECT]

(* Every pointer of every file leads to a block of its own, outside of the   *)
(* blocks of the file system, whatever was written, cut and removed before   *)
(* and at every access to the bitmap of reservarBloques and liberarBloques.  *)
DuenioUnico ==
  /\ \A l \in Lugar : BloqueEn(l) \in PrimerBloqueLibre..(g_block_count - 1)
  /\ \A l, m \in Lugar : BloqueEn(l) = BloqueEn(m) => l = m

(* The bitmap has the bits of the file system and of the blocks of the files *)
(* and no others: nothing is lost and nothing in use is free.                *)
BitmapExacto ==
  bitmap = 0..(PrimerBloqueLibre - 1) \cup {BloqueEn(l) : l \in Lugar}

-------------------------------------------------------------------------------
(* The tree of files *)

(* The callbacks of the driver turn answers into what FUSE gets. *)
do_centralized_getattr(r) ==
  IF r.type = 0 THEN [ret |-> -ENOENT]
  ELSE [ret |-> 0, tipo |-> IF r.type = 1 THEN "archivo" ELSE "dir", size |-> r.size]
do_centralized_readdir(r) ==
  IF r.errno_value # 0 THEN [ret |-> -r.errno_value]
  ELSE [ret |-> 0, found |-> <<".", "..">> \o r.found]
do_centralized_read(r) ==
  IF r.errno_value # 0 THEN [ret |-> -r.errno_value]
  ELSE [ret |-> Len(r.data), datos |-> r.data]
do_centralized(r) == [ret |-> r.return_value]

Devuelto(t) ==
  LET r == respuesta[t]
      op == pedido[t].op
  IN CASE op = "SAC_getattr" -> do_centralized_getattr(r)
       [] op = "SAC_readdir" -> do_centralized_readdir(r)
       [] op = "SAC_read" -> do_centralized_read(r)
       [] OTHER -> do_centralized(r)

(* The paths of each node, from its parents. *)
Rutas ==
  LET hasta[k \in 0..GFILEBYTABLE] == [n \in Nodo |->
        LET padre == tabla[n].parent_dir_block - g_node_table_block_index IN
        IF tabla[n].state = 0 THEN {}
        ELSE IF tabla[n].parent_dir_block = 0 THEN {<<tabla[n].fname>>}
        ELSE IF k = 0 \/ padre \notin Nodo THEN {}
        ELSE IF tabla[padre].state # 2 THEN {}
        ELSE {Append(p, tabla[n].fname) : p \in hasta[k - 1][padre]}]
  IN hasta[GFILEBYTABLE]

(* A truncation that does not grow the file cuts it before its blocks are    *)
(* given back.                                                               *)
Recorta(t, n) ==
  /\ pc[t] \in {"liberar", "cortar"} /\ pedido[t].op = "SAC_truncate"
  /\ local[t].nodo = n /\ pedido[t].size <= tabla[n].file_size

Archivo(n) ==
  IF tabla[n].state = 2 THEN [tipo |-> "dir", datos |-> <<>>]
  ELSE [tipo |-> "archivo",
        datos |-> Contenido(n, 0, IF \E t \in Hilos : Recorta(t, n)
                                  THEN pedido[CHOOSE t \in Hilos : Recorta(t, n)].size
                                  ELSE tabla[n].file_size)]

ArbolVisto ==
  LET r == Rutas IN
  [p \in UNION {r[n] : n \in Nodo} |-> Archivo(CHOOSE n \in Nodo : p \in r[n])]

YaHecho(t) ==
  \/ pc[t] \in {"liberar", "liberado"} /\ pedido[t].op = "SAC_unlink"
  \/ \E n \in Nodo : Recorta(t, n)

ValorVisto ==
  [t \in Hilos |-> IF pc[t] = "contestado" THEN Devuelto(t)
                   ELSE IF YaHecho(t) THEN [ret |-> 0] ELSE Nada]

Arbol == INSTANCE SistemaArchivos
  WITH arbol <- ArbolVisto, llamada <- pedido, valor <- ValorVisto

(* One client at a time sees a tree of files: each call answers what the     *)
(* tree says and changes only what it names, whatever blocks and nodes were  *)
(* used and freed before.                                                    *)
ImplementaArbol == Arbol!Spec
===============================================================================
