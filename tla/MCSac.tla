---------------------------------- MODULE MCSac --------------------------------
(***************************************************************************)
(* Instances of SacVista for TLC: blocks of two cells, two pointers in a    *)
(* node and two in an indirect block.                                       *)
(***************************************************************************)
EXTENDS SacVista, TLC

CONSTANTS a, b, d1, d2, t1, t2

Sobre(op, p) == [op |-> op, path |-> p, offset |-> 0, size |-> 0]
Simples(ops, ps) == {Sobre(op, p) : op \in ops, p \in ps}
Escrituras(ps, offs, datos) ==
  {[op |-> "SAC_write", path |-> p, offset |-> o, size |-> 0, datos |-> d] :
     p \in ps, o \in offs, d \in datos}
Lecturas(ps, offs, tams) ==
  {[op |-> "SAC_read", path |-> p, offset |-> o, size |-> n] :
     p \in ps, o \in offs, n \in tams}
Cortes(ps, tams) ==
  {[op |-> "SAC_truncate", path |-> p, offset |-> 0, size |-> n] : p \in ps, n \in tams}
Cambios(ps, qs) ==
  {[op |-> "SAC_rename", path |-> p, offset |-> 0, size |-> 0, new_path |-> q] :
     p \in ps, q \in qs}
Toques(ps, ts) ==
  {[op |-> "SAC_utimens", path |-> p, offset |-> 0, size |-> 0, tv |-> <<x, y>>] :
     p \in ps, x \in ts, y \in ts}

(* Files that grow over two indirect blocks, are cut and removed, one of    *)
(* them in a directory.                                                      *)
MCPedidosArchivos ==
  Escrituras({<<a>>, <<a, b>>}, {0, 3}, {<<d1, d2, d1>>})
    \cup Cortes({<<a>>, <<a, b>>}, {0, 1, 5})
    \cup Lecturas({<<a>>}, {1}, {4})

(* Directories, listings and moves, with at most three nodes. *)
MCPedidosArbol ==
  LET rutas == {<<a>>, <<b>>, <<a, b>>, <<b, b>>} IN
  Simples({"SAC_mknod"}, {<<b>>, <<a, b>>})
    \cup Simples({"SAC_mkdir"}, {<<a>>, <<b>>, <<a, b>>})
    \cup Simples({"SAC_unlink", "SAC_rmdir"}, rutas)
    \cup Simples({"SAC_getattr", "SAC_readdir"}, rutas \cup {<<>>, <<b, a, b>>})
    \cup Escrituras({<<b>>, <<b, b>>}, {0}, {<<d1>>})
    \cup Lecturas({<<b>>, <<a, b>>, <<b, b>>}, {0}, {1})
    \cup Cambios({<<a>>, <<b>>, <<a, b>>}, {<<b>>, <<b, b>>, <<a, b>>, <<b, b, a>>})
    \cup Toques({<<b>>}, {1})

MCPedidos == MCPedidosArchivos \cup MCPedidosArbol

(* Two files, written at once. *)
MCPedidosDosHilos ==
  Simples({"SAC_mknod"}, {<<a>>, <<b>>})
    \cup Escrituras({<<a>>, <<b>>}, {0}, {<<d1>>})
===============================================================================
