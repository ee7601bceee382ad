--------------------------------- MODULE MCMapas --------------------------------
(***************************************************************************)
(* Instances of MapasVista for TLC: pages of two bytes, a shared file of    *)
(* two pages and a private one of one page.                                 *)
(***************************************************************************)
EXTENDS MapasVista, TLC

CONSTANTS p1, p2, p3, fa, fb, v1, v2

MCPath == [p \in Programas |-> IF p = p3 THEN fb ELSE fa]
MCFlags == [p \in Programas |-> IF p = p3 THEN "MAP_PRIVATE" ELSE "MAP_SHARED"]
MCTodosA == [p \in Programas |-> fa]
MCCompartido == [p \in Programas |-> "MAP_SHARED"]
MCPaginas == fa :> 2 @@ fb :> 1

(* Across the two pages, within the first, and from the last byte on past    *)
(* the end.                                                                  *)
MCAccesos == p1 :> {<<1, 2>>} @@ p2 :> {<<0, 2>>, <<3, 2>>} @@ p3 :> {<<0, 1>>}
MCDescargas == p1 :> {1} @@ p2 :> {} @@ p3 :> {}
MCUnAcceso == [p \in Programas |-> {<<0, 1>>}]
MCNinguna == [p \in Programas |-> {}]
===============================================================================
