---------------------------------- MODULE Sac ----------------------------------
(***************************************************************************)
(* The SAC server: a table of nodes, a bitmap and blocks in one mapped      *)
(* file.  Each request of a FUSE driver opens a connection, and the server  *)
(* dedicates one thread to it, so a thread t of Hilos stands for a thread   *)
(* of a driver, its connection and the server thread at the other end.      *)
(*                                                                         *)
(* The unit of sizes and offsets is a cell of four bytes, the size of a     *)
(* ptrGBloque: a block has PTRBYINDIRECT cells and may hold pointers or     *)
(* data.  A handler is one step, except that the loops that reserve and     *)
(* free blocks take one step per access to the bitmap, and that a node or a *)
(* block that was found is taken in a later step: the server has no lock.   *)
(* msync only forces to the disk what the memory already has.               *)
(***************************************************************************)
EXTENDS Integers, Sequences, FiniteSets

CONSTANTS
  Hilos,
  Nada,           \* no request, no answer, no name
  Nombre,         \* the names of files and directories
  Datos,          \* what a client may write in a cell
  Basura,         \* a cell whose value does not matter
  Pedidos,        \* the requests the programs may make
  Promesas,       \* what the programs avoid: see KernelPermite
  MaxCambios,     \* bound of the requests that may change something
  GFILEBYTABLE, BLKINDIRECT, PTRBYINDIRECT, \* sac.h
  CeldasDeNodo,   \* cells of a node up to where occupy_node writes
  size_bitmap,    \* blocks of the bitmap
  g_block_count

ASSUME SacAssumption ==
  /\ MaxCambios \in Nat
  /\ GFILEBYTABLE \in Nat \ {0} /\ BLKINDIRECT \in Nat \ {0}
  /\ PTRBYINDIRECT \in Nat \ {0} /\ CeldasDeNodo \in 0..PTRBYINDIRECT
  /\ size_bitmap \in Nat \ {0}
  /\ g_block_count \in Nat
  /\ g_block_count > 1 + size_bitmap + GFILEBYTABLE
  /\ Datos \cap Int = {} /\ Basura \notin Int

(* What a driver sends: the kernel creates and renames no root. *)
ASSUME PedidosAssumption ==
  \A r \in Pedidos :
    /\ r.path \in Seq(Nombre) /\ r.offset \in Nat /\ r.size \in Nat
    /\ r.op \in {"SAC_mknod", "SAC_mkdir"} => r.path # <<>>
    /\ r.op = "SAC_write" => r.datos \in Seq(Datos)
    /\ r.op = "SAC_rename" => r.new_path \in Seq(Nombre) \ {<<>>}
    /\ r.op = "SAC_utimens" => r.tv \in Nat \X Nat

(* errno.h *)
ENOENT == 2
EEXIST == 17
ENOTDIR == 20
EFBIG == 27
EDQUOT == 122

g_node_table_block_index == 1 + size_bitmap
GBLOCKSIZE == PTRBYINDIRECT
Nodo == 0..(GFILEBYTABLE - 1)
Bloque == 0..(g_block_count - 1)
PrimerBloqueLibre == g_node_table_block_index + GFILEBYTABLE
Celda == Datos \cup Bloque \cup {Basura}

GFile ==
  [state : 0..2, fname : Nombre \cup {Nada}, parent_dir_block : Nat, file_size : Nat, m_date : Nat]
Respuesta ==
  [return_value : Int, errno_value : Int]
    \cup [type : 0..2, last_mod_time : Nat, size : Nat]
    \cup [errno_value : Nat, found : Seq(Nombre \cup {Nada})]
    \cup [errno_value : Nat, data : Seq(Celda)]

ASSUME NadaAssumption == Nada \notin Pedidos /\ Nada \notin Respuesta

VARIABLES
  tabla,          \* tabla[n]: state, name, parent, size and date of the node
  blk_indirect,   \* blk_indirect[n][k]: its pointers
  bitmap,         \* the blocks whose bit is set
  disco,          \* disco[b][c]: cell c of block b
  pc,             \* where the server thread of t is
  pedido,         \* the request it serves
  local,          \* its locals: node, parent, block found, loop counters
  respuesta,      \* the packet it sent back
  cambios         \* requests so far, the ones that only read apart

metadatos == <<tabla, blk_indirect>>
bloques == <<bitmap, disco>>
vars == <<tabla, blk_indirect, bitmap, disco, pc, pedido, local, respuesta, cambios>>

LocalInicial == [nodo |-> 0, padre |-> 0, nuevo |-> 0, faltan |-> 0, dentro |-> 0, indir |-> 0]

(* sac-format leaves the header, the bitmap and the table set in the bitmap, *)
(* every node free, and the rest of the disk as it was.                      *)
Init ==
  /\ tabla = [n \in Nodo |-> [state |-> 0, fname |-> Nada, parent_dir_block |-> 0,
                              file_size |-> 0, m_date |-> 0]]
  /\ blk_indirect = [n \in Nodo |-> [k \in 0..(BLKINDIRECT - 1) |-> 0]]
  /\ bitmap = 0..(PrimerBloqueLibre - 1)
  /\ disco = [b \in Bloque |-> [c \in 0..(PTRBYINDIRECT - 1) |-> Basura]]
  /\ pc = [t \in Hilos |-> "libre"]
  /\ pedido = [t \in Hilos |-> Nada]
  /\ local = [t \in Hilos |-> LocalInicial]
  /\ respuesta = [t \in Hilos |-> Nada]
  /\ cambios = 0

-------------------------------------------------------------------------------
(* Search in the table *)

Primero(S, sino) == IF S = {} THEN sino ELSE CHOOSE i \in S : \A j \in S : i <= j

(* Mutant of find_by_name_in_parent: it finds nodes that were removed. *)
BuscarEntreBorrados(name, parent) ==
  Primero({n \in Nodo : tabla[n].parent_dir_block = parent /\ tabla[n].fname = name}, -1)

find_by_name_in_parent(name, parent) ==
  Primero({n \in Nodo : /\ tabla[n].state # 0
                        /\ tabla[n].parent_dir_block = parent
                        /\ tabla[n].fname = name}, -1)

(* The node of index -1 is the last block of the bitmap, and its state the   *)
(* first byte of that block.                                                 *)
PrimerOcteto == 8 * 4 * PTRBYINDIRECT * (size_bitmap - 1)
Octeto == {b \in Bloque : PrimerOcteto <= b /\ b < PrimerOcteto + 8}
EsDirectorio(n) ==
  IF n = -1 THEN bitmap \cap Octeto = {PrimerOcteto + 6} ELSE tabla[n].state = 2

(* The parent of a path, a sequence of names, as an absolute index.  A name  *)
(* that is not found gives the node of index -1.                             *)
get_parent_node(path) ==
  LET currentParent[k \in 0..(Len(path) - 1)] ==
        IF k = 0 THEN 0
        ELSE IF currentParent[k - 1] = -ENOTDIR THEN -ENOTDIR
        ELSE LET n == find_by_name_in_parent(path[k], currentParent[k - 1])
             IN IF EsDirectorio(n) THEN n + g_node_table_block_index ELSE -ENOTDIR
  IN IF path = <<>> THEN 0 ELSE currentParent[Len(path) - 1]

(* The name after the last separator of "/" is empty, and no node has it. *)
find_by_path(path) ==
  IF path = <<>> THEN -1
  ELSE find_by_name_in_parent(path[Len(path)], get_parent_node(path))

(* The bound of the search is the table, that of the test is the disk. *)
get_avail_node ==
  LET currNode == Primero({n \in Nodo : tabla[n].state = 0}, GFILEBYTABLE)
  IN IF currNode >= g_block_count THEN -EDQUOT ELSE currNode

-------------------------------------------------------------------------------
(* Blocks *)

get_datablock_index(offset) == offset \div GBLOCKSIZE
get_indirect_block_index(offset) == get_datablock_index(offset) \div PTRBYINDIRECT
get_datablock_index_inside_indirect_block(offset) ==
  get_datablock_index(offset) % PTRBYINDIRECT

get_occupied_datablocks_qty(size) ==
  IF size = 0 THEN 0 ELSE get_datablock_index(size - 1) + 1
get_occupied_ind_blocks_qty(size) ==
  IF size = 0 THEN 0 ELSE get_indirect_block_index(size - 1) + 1
get_occupied_total_blocks_qty(size) ==
  get_occupied_datablocks_qty(size) + get_occupied_ind_blocks_qty(size)

get_avail_block == Primero(Bloque \ bitmap, 0)
get_free_blocks == Cardinality(Bloque \ bitmap)
is_enough_blocks(current_size, new_size) ==
  get_free_blocks >= get_occupied_total_blocks_qty(new_size)
                       - get_occupied_total_blocks_qty(current_size)

(* The cell of the disk where a file has the cell offset. *)
seek_offset(n, offset) ==
  LET indirectBlock == blk_indirect[n][get_indirect_block_index(offset)]
  IN <<disco[indirectBlock][get_datablock_index_inside_indirect_block(offset)],
       offset % GBLOCKSIZE>>

(* copy_file_contents, in its two directions. *)
Contenido(n, offset, size) ==
  [i \in 1..size |-> LET s == seek_offset(n, offset + i - 1) IN disco[s[1]][s[2]]]

DiscoEscrito(n, offset, data) ==
  LET En(b, c) == {i \in 1..Len(data) : seek_offset(n, offset + i - 1) = <<b, c>>}
  IN [b \in Bloque |-> [c \in 0..(PTRBYINDIRECT - 1) |->
        IF En(b, c) = {} THEN disco[b][c]
        ELSE data[CHOOSE i \in En(b, c) : \A j \in En(b, c) : j <= i]]]

-------------------------------------------------------------------------------
(* Requests and answers *)

Entero(value, error) == [return_value |-> value, errno_value |-> error]
Falla(error) == Entero(-error, error)

Contestar(t, answer) ==
  /\ pc' = [pc EXCEPT ![t] = "contestado"]
  /\ respuesta' = [respuesta EXCEPT ![t] = answer]
  /\ UNCHANGED <<pedido, local, cambios>>

En(t, etiqueta, op) == pc[t] = etiqueta /\ pedido[t].op = op

Seguir(t, etiqueta, l) ==
  /\ pc' = [pc EXCEPT ![t] = etiqueta]
  /\ local' = [local EXCEPT ![t] = l]
  /\ UNCHANGED <<pedido, respuesta, cambios>>

(* What reaches the server: the kernel asks getattr before most calls, so it *)
(* passes no directory to a call on files, removes directories that exist,   *)
(* does not move a directory below itself and does not read past the end.    *)
(* Promesas adds what the server leaves to its users: there is room          *)
(* ("espacio"), also within a file ("maximo"), there are nodes ("nodos"), a  *)
(* removed directory is empty ("vacio"), and the new name of a rename is     *)
(* free ("destino").                                                         *)
KernelPermite(r) ==
  LET n == find_by_path(r.path)
      fin == r.offset + (IF r.op = "SAC_write" THEN Len(r.datos) ELSE r.size)
      EsHijo(m) == tabla[m].state # 0
                     /\ tabla[m].parent_dir_block = n + g_node_table_block_index
      Arriba(p, q) == Len(p) <= Len(q) /\ SubSeq(q, 1, Len(p)) = p
  IN /\ r.op \in {"SAC_unlink", "SAC_read", "SAC_write", "SAC_truncate"} /\ n # -1
          => tabla[n].state = 1
     /\ r.op = "SAC_read" /\ n # -1 => r.offset <= tabla[n].file_size
     /\ r.op = "SAC_rmdir" => /\ n # -1 /\ tabla[n].state = 2
                              /\ "vacio" \in Promesas => \A m \in Nodo : ~ EsHijo(m)
     /\ r.op = "SAC_rename" => /\ get_parent_node(r.new_path) # -ENOTDIR
                               /\ ~ Arriba(r.path, r.new_path)
                               /\ "destino" \in Promesas => find_by_path(r.new_path) = -1
     /\ r.op \in {"SAC_mknod", "SAC_mkdir"} /\ "nodos" \in Promesas
          => \E m \in Nodo : tabla[m].state = 0
     /\ r.op \in {"SAC_write", "SAC_truncate"} /\ "maximo" \in Promesas
          => fin <= BLKINDIRECT * PTRBYINDIRECT * GBLOCKSIZE
     /\ r.op = "SAC_write" /\ n # -1 /\ "espacio" \in Promesas
          => \/ fin <= tabla[n].file_size
             \/ is_enough_blocks(tabla[n].file_size, fin)

(* The threads of one mount ("montaje") exclude each other in the kernel,    *)
(* which locks the file that is written or cut, and the directory in which   *)
(* a name comes or goes.                                                     *)
Excluye(r, s) ==
  LET SobreDatos(x) == x.op \in {"SAC_write", "SAC_truncate"}
      SobreNombres(x) == x.op \in {"SAC_mknod", "SAC_mkdir", "SAC_unlink", "SAC_rmdir"}
      Directorio(p) == SubSeq(p, 1, Len(p) - 1)
  IN \/ SobreDatos(r) /\ SobreDatos(s) /\ r.path = s.path
     \/ /\ SobreNombres(r) /\ SobreNombres(s)
        /\ Directorio(r.path) = Directorio(s.path)

send_request(t, r) ==
  /\ pc[t] = "libre" /\ KernelPermite(r)
  /\ "montaje" \in Promesas =>
       \A u \in Hilos : pc[u] # "libre" => ~ Excluye(r, pedido[u])
  /\ cambios' = IF r.op \in {"SAC_getattr", "SAC_readdir", "SAC_read"}
                THEN cambios ELSE cambios + 1
  /\ cambios' <= MaxCambios
  /\ pc' = [pc EXCEPT ![t] = "recibido"]
  /\ pedido' = [pedido EXCEPT ![t] = r]
  /\ UNCHANGED <<metadatos, bloques, local, respuesta>>

(* The driver takes the answer and closes the connection. *)
Volver(t) ==
  /\ pc[t] = "contestado"
  /\ pc' = [pc EXCEPT ![t] = "libre"]
  /\ pedido' = [pedido EXCEPT ![t] = Nada]
  /\ local' = [local EXCEPT ![t] = LocalInicial]
  /\ respuesta' = [respuesta EXCEPT ![t] = Nada]
  /\ UNCHANGED <<metadatos, bloques, cambios>>

-------------------------------------------------------------------------------
(* Handlers that only read *)

procesar_getattr(t) ==
  LET path == pedido[t].path
      n == find_by_path(path)
      Atributos(type, date, size) == [type |-> type, last_mod_time |-> date, size |-> size]
  IN /\ En(t, "recibido", "SAC_getattr")
     /\ Contestar(t, IF path = <<>> THEN Atributos(2, 0, 0)
                     ELSE IF n = -1 THEN Atributos(0, 0, 0)
                     ELSE Atributos(tabla[n].state, tabla[n].m_date, tabla[n].file_size))
     /\ UNCHANGED <<metadatos, bloques>>

(* The names of the nodes of S in the order of the table. *)
Nombres(S) ==
  LET orden[k \in 0..GFILEBYTABLE] ==
        IF k = 0 THEN <<>>
        ELSE IF k - 1 \in S THEN Append(orden[k - 1], tabla[k - 1].fname)
        ELSE orden[k - 1]
  IN orden[GFILEBYTABLE]

procesar_readdir(t) ==
  LET path == pedido[t].path
      n == find_by_path(path)
      parent == IF path = <<>> THEN 0 ELSE n + g_node_table_block_index
      Lista(error, found) == [errno_value |-> error, found |-> found]
  IN /\ En(t, "recibido", "SAC_readdir")
     /\ Contestar(t,
          IF path # <<>> /\ n = -1 THEN Lista(ENOENT, <<>>)
          ELSE IF path # <<>> /\ tabla[n].state = 1 THEN Lista(ENOTDIR, <<>>)
          ELSE Lista(0, Nombres({m \in Nodo : tabla[m].parent_dir_block = parent
                                                /\ tabla[m].state # 0})))
     /\ UNCHANGED <<metadatos, bloques>>

(* Past the end the difference of sizes, unsigned, is a huge number. *)
procesar_read(t) ==
  LET r == pedido[t]
      n == find_by_path(r.path)
      resto == tabla[n].file_size - r.offset
      copySize == IF 0 <= resto /\ resto < r.size THEN resto ELSE r.size
  IN /\ En(t, "recibido", "SAC_read")
     /\ Contestar(t, IF n = -1 THEN [errno_value |-> ENOENT, data |-> <<>>]
                     ELSE [errno_value |-> 0, data |-> Contenido(n, r.offset, copySize)])
     /\ UNCHANGED <<metadatos, bloques>>

-------------------------------------------------------------------------------
(* Handlers that change the table *)

(* mknod and mkdir look for the path, then for a node, then for the parent. *)
check_existance_and_availability(path) ==
  IF find_by_path(path) # -1 THEN -EEXIST ELSE get_avail_node

Crear(t, op, sinPadre) ==
  LET path == pedido[t].path
      currNode == check_existance_and_availability(path)
      parentNode == get_parent_node(path)
  IN /\ En(t, "recibido", op)
     /\ UNCHANGED <<metadatos, bloques>>
     /\ \/ currNode < 0 /\ Contestar(t, Falla(-currNode))
        \/ currNode >= 0 /\ parentNode = -ENOTDIR /\ Contestar(t, Falla(sinPadre))
        \/ /\ currNode >= 0 /\ parentNode # -ENOTDIR
           /\ Seguir(t, "ocupar", [local[t] EXCEPT !.nodo = currNode, !.padre = parentNode])

procesar_mknod(t) == Crear(t, "SAC_mknod", ENOENT)
procesar_mkdir(t) == Crear(t, "SAC_mkdir", ENOTDIR)

(* The memset clears BLKINDIRECT bytes of the pointers, a quarter of them.   *)
(* The node after the last is the first block after the table.               *)
occupy_node(t) ==
  LET r == pedido[t]
      n == local[t].nodo
  IN /\ pc[t] = "ocupar"
     /\ IF n \in Nodo
        THEN /\ tabla' = [tabla EXCEPT ![n] =
                  [state |-> IF r.op = "SAC_mknod" THEN 1 ELSE 2,
                   fname |-> r.path[Len(r.path)], parent_dir_block |-> local[t].padre,
                   file_size |-> 0, m_date |-> tabla[n].m_date]]
             /\ blk_indirect' = [blk_indirect EXCEPT ![n] =
                  [k \in 0..(BLKINDIRECT - 1) |->
                     IF k < BLKINDIRECT \div 4 THEN 0 ELSE blk_indirect[n][k]]]
             /\ UNCHANGED bloques
        ELSE /\ disco' = [disco EXCEPT ![n + g_node_table_block_index] =
                  [c \in 0..(PTRBYINDIRECT - 1) |->
                     IF c < CeldasDeNodo THEN Basura ELSE disco[n + g_node_table_block_index][c]]]
             /\ UNCHANGED <<metadatos, bitmap>>
     /\ Contestar(t, Entero(0, 0))

(* The node is free before its blocks are. *)
procesar_unlink(t) ==
  LET n == find_by_path(pedido[t].path)
      q == get_occupied_datablocks_qty(tabla[n].file_size)
  IN /\ En(t, "recibido", "SAC_unlink")
     /\ UNCHANGED <<blk_indirect, bloques>>
     /\ IF n = -1 THEN Contestar(t, Falla(ENOENT)) /\ UNCHANGED tabla
        ELSE /\ tabla' = [tabla EXCEPT ![n].state = 0]
             /\ IF q = 0 THEN Contestar(t, Entero(0, 0))
                ELSE Seguir(t, "liberar", [local[t] EXCEPT !.nodo = n, !.faltan = q,
                              !.dentro = (q - 1) % PTRBYINDIRECT,
                              !.indir = (q - 1) \div PTRBYINDIRECT])

(* A path that is gone by now clears the state of the node of index -1.      *)
procesar_rmdir(t) ==
  LET n == find_by_path(pedido[t].path) IN
  /\ En(t, "recibido", "SAC_rmdir")
  /\ IF n = -1 THEN bitmap' = bitmap \ Octeto /\ UNCHANGED tabla
     ELSE tabla' = [tabla EXCEPT ![n].state = 0] /\ UNCHANGED bitmap
  /\ Contestar(t, Entero(0, 0))
  /\ UNCHANGED <<blk_indirect, disco>>

procesar_rename(t) ==
  LET r == pedido[t]
      n == find_by_path(r.path)
  IN /\ En(t, "recibido", "SAC_rename")
     /\ UNCHANGED <<blk_indirect, bloques>>
     /\ IF n = -1 THEN Contestar(t, Falla(ENOENT)) /\ UNCHANGED tabla
        ELSE /\ tabla' = [tabla EXCEPT ![n].parent_dir_block = get_parent_node(r.new_path),
                                       ![n].fname = r.new_path[Len(r.new_path)]]
             /\ Contestar(t, Entero(0, 0))

(* The driver passes on tv[0], the time of the last access. *)
procesar_utimens(t) ==
  LET n == find_by_path(pedido[t].path) IN
  /\ En(t, "recibido", "SAC_utimens")
  /\ UNCHANGED <<blk_indirect, bloques>>
  /\ IF n = -1 THEN Contestar(t, Falla(ENOENT)) /\ UNCHANGED tabla
     ELSE /\ tabla' = [tabla EXCEPT ![n].m_date = pedido[t].tv[1]]
          /\ Contestar(t, Entero(0, 0))

-------------------------------------------------------------------------------
(* Handlers that change the blocks *)

(* Mutant of ALReservar: it starts at the last block instead of after it. *)
ALReservarSinSumar(l, n, q, final) ==
  [l EXCEPT !.nodo = n, !.faltan = final - q,
            !.dentro = IF q = 0 THEN 0 ELSE (q - 1) % PTRBYINDIRECT,
            !.indir = IF q = 0 THEN 0 ELSE ((q - 1) \div PTRBYINDIRECT) + 1]

(* The locals with which reservarBloques goes from q to final blocks. *)
ALReservar(l, n, q, final) ==
  [l EXCEPT !.nodo = n, !.faltan = final - q,
            !.dentro = IF q = 0 THEN 0 ELSE ((q - 1) % PTRBYINDIRECT) + 1,
            !.indir = IF q = 0 THEN 0 ELSE ((q - 1) \div PTRBYINDIRECT) + 1]

(* Whether the file grows is decided before the blocks are reserved. *)
procesar_write(t) ==
  LET r == pedido[t]
      n == find_by_path(r.path)
      fin == r.offset + Len(r.datos)
      currUsedBlocks == get_occupied_datablocks_qty(tabla[n].file_size)
      neededBlocks == get_occupied_datablocks_qty(fin)
  IN /\ En(t, "recibido", "SAC_write")
     /\ UNCHANGED <<metadatos, bloques>>
     /\ IF n = -1 THEN Contestar(t, Falla(ENOENT))
        ELSE IF fin <= tabla[n].file_size
          THEN Seguir(t, "escribir", [local[t] EXCEPT !.nodo = n])
        ELSE IF neededBlocks > currUsedBlocks
          THEN Seguir(t, "reservar", ALReservar(local[t], n, currUsedBlocks, neededBlocks))
        ELSE Seguir(t, "agrandar", [local[t] EXCEPT !.nodo = n])

EscribirDatos(t) ==
  LET r == pedido[t]
      n == local[t].nodo
  IN /\ pc[t] \in {"escribir", "agrandar"}
     /\ tabla' = IF pc[t] = "escribir" THEN tabla
                 ELSE [tabla EXCEPT ![n].file_size = r.offset + Len(r.datos)]
     /\ disco' = DiscoEscrito(n, r.offset, r.datos)
     /\ Contestar(t, Entero(Len(r.datos), 0))
     /\ UNCHANGED <<blk_indirect, bitmap>>

procesar_truncate(t) ==
  LET r == pedido[t]
      n == find_by_path(r.path)
      actuales == get_occupied_datablocks_qty(tabla[n].file_size)
      necesarios == get_occupied_datablocks_qty(r.size)
  IN /\ En(t, "recibido", "SAC_truncate")
     /\ UNCHANGED <<metadatos, bloques>>
     /\ IF n = -1 THEN Contestar(t, Falla(ENOENT))
        ELSE IF ~ is_enough_blocks(tabla[n].file_size, r.size)
          THEN Contestar(t, Falla(EFBIG))
        ELSE IF actuales > necesarios
          THEN Seguir(t, "liberar", [local[t] EXCEPT !.nodo = n,
                        !.faltan = actuales - necesarios,
                        !.dentro = (actuales - 1) % PTRBYINDIRECT,
                        !.indir = (actuales - 1) \div PTRBYINDIRECT])
        ELSE IF actuales < necesarios
          THEN Seguir(t, "reservar", ALReservar(local[t], n, actuales, necesarios))
        ELSE Seguir(t, "cortar", [local[t] EXCEPT !.nodo = n])

CortarArchivo(t) ==
  /\ pc[t] = "cortar"
  /\ tabla' = [tabla EXCEPT ![local[t].nodo].file_size = pedido[t].size]
  /\ Contestar(t, Entero(0, 0))
  /\ UNCHANGED <<blk_indirect, bloques>>

(* One turn of the loop of reservarBloques: an indirect block when the last  *)
(* one is full, and a data block.                                            *)
BuscarIndirecto(t) ==
  /\ pc[t] = "reservar" /\ local[t].dentro % PTRBYINDIRECT = 0
  /\ Seguir(t, "indirecto", [local[t] EXCEPT !.nuevo = get_avail_block])
  /\ UNCHANGED <<metadatos, bloques>>

TomarIndirecto(t) ==
  LET l == local[t] IN
  /\ pc[t] = "indirecto"
  /\ disco' = [disco EXCEPT ![l.nuevo] = [c \in 0..(PTRBYINDIRECT - 1) |-> 0]]
  /\ blk_indirect' = [blk_indirect EXCEPT ![l.nodo][l.indir] = l.nuevo]
  /\ bitmap' = bitmap \cup {l.nuevo}
  /\ Seguir(t, "buscar", [l EXCEPT !.indir = l.indir + 1, !.dentro = 0])
  /\ UNCHANGED tabla

BuscarDatablock(t) ==
  /\ \/ pc[t] = "reservar" /\ local[t].dentro % PTRBYINDIRECT # 0
     \/ pc[t] = "buscar"
  /\ Seguir(t, "datablock", [local[t] EXCEPT !.nuevo = get_avail_block])
  /\ UNCHANGED <<metadatos, bloques>>

TomarDatablock(t) ==
  LET l == local[t] IN
  /\ pc[t] = "datablock"
  /\ disco' = [disco EXCEPT ![blk_indirect[l.nodo][l.indir - 1]][l.dentro] = l.nuevo]
  /\ bitmap' = bitmap \cup {l.nuevo}
  /\ Seguir(t, IF l.faltan > 1 THEN "reservar"
               ELSE IF pedido[t].op = "SAC_write" THEN "agrandar" ELSE "cortar",
            [l EXCEPT !.dentro = l.dentro + 1, !.faltan = l.faltan - 1])
  /\ UNCHANGED metadatos

reservarBloques(t) ==
  BuscarIndirecto(t) \/ TomarIndirecto(t) \/ BuscarDatablock(t) \/ TomarDatablock(t)

(* One turn of the loop of liberarBloques: the last data block and, if it    *)
(* was the first of its indirect block, that one too.                        *)
UltimoIndirecto(t) == blk_indirect[local[t].nodo][local[t].indir]
UltimoDato(t) == disco[UltimoIndirecto(t)][local[t].dentro]

TrasLiberar(t) ==
  IF local[t].faltan > 1 THEN "liberar"
  ELSE IF pedido[t].op = "SAC_unlink" THEN "liberado" ELSE "cortar"

LiberarDato(t) ==
  LET l == local[t] IN
  /\ pc[t] = "liberar" /\ l.dentro > 0
  /\ bitmap' = bitmap \ {UltimoDato(t)}
  /\ Seguir(t, TrasLiberar(t), [l EXCEPT !.dentro = l.dentro - 1, !.faltan = l.faltan - 1])
  /\ UNCHANGED <<metadatos, disco>>

(* Mutants of LiberarConIndirecto: the bit of the indirect block stays; the  *)
(* position within the next indirect block is not set.                       *)
LiberarSinIndirecto(t) ==
  LET l == local[t] IN
  /\ pc[t] = "liberar" /\ l.dentro = 0
  /\ bitmap' = bitmap \ {UltimoDato(t)}
  /\ blk_indirect' = [blk_indirect EXCEPT ![l.nodo][l.indir] = 0]
  /\ Seguir(t, TrasLiberar(t), [l EXCEPT !.dentro = PTRBYINDIRECT - 1,
                                         !.indir = l.indir - 1, !.faltan = l.faltan - 1])
  /\ UNCHANGED <<tabla, disco>>
LiberarSinVolverAlFinal(t) ==
  LET l == local[t] IN
  /\ pc[t] = "liberar" /\ l.dentro = 0
  /\ bitmap' = bitmap \ {UltimoDato(t), UltimoIndirecto(t)}
  /\ blk_indirect' = [blk_indirect EXCEPT ![l.nodo][l.indir] = 0]
  /\ Seguir(t, TrasLiberar(t), [l EXCEPT !.dentro = l.dentro - 1,
                                         !.indir = l.indir - 1, !.faltan = l.faltan - 1])
  /\ UNCHANGED <<tabla, disco>>

LiberarConIndirecto(t) ==
  LET l == local[t] IN
  /\ pc[t] = "liberar" /\ l.dentro = 0
  /\ bitmap' = bitmap \ {UltimoDato(t), UltimoIndirecto(t)}
  /\ blk_indirect' = [blk_indirect EXCEPT ![l.nodo][l.indir] = 0]
  /\ Seguir(t, TrasLiberar(t), [l EXCEPT !.dentro = PTRBYINDIRECT - 1,
                                         !.indir = l.indir - 1, !.faltan = l.faltan - 1])
  /\ UNCHANGED <<tabla, disco>>

liberarBloques(t) == LiberarDato(t) \/ LiberarConIndirecto(t)

TerminarUnlink(t) ==
  /\ pc[t] = "liberado"
  /\ Contestar(t, Entero(0, 0))
  /\ UNCHANGED <<metadatos, bloques>>

-------------------------------------------------------------------------------

procesarPaqueteFuseOps(t) ==
  \/ procesar_getattr(t) \/ procesar_readdir(t) \/ procesar_read(t)
  \/ procesar_mknod(t) \/ procesar_mkdir(t) \/ occupy_node(t)
  \/ procesar_unlink(t) \/ procesar_rmdir(t) \/ procesar_rename(t) \/ procesar_utimens(t)
  \/ procesar_write(t) \/ EscribirDatos(t) \/ procesar_truncate(t) \/ CortarArchivo(t)
  \/ reservarBloques(t) \/ liberarBloques(t) \/ TerminarUnlink(t)

Next ==
  \E t \in Hilos :
    \/ \E r \in Pedidos : send_request(t, r)
    \/ procesarPaqueteFuseOps(t)
    \/ Volver(t)

Spec == Init /\ [][Next]_vars
===============================================================================
