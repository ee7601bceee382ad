----------------------------- MODULE MCMapasArchivo -----------------------------
(***************************************************************************)
(* Instances of MapasArchivo for TLC: two programs that share a file of     *)
(* three bytes, the last one of its two pages past its end, which is        *)
(* either in zeros or not.                                                  *)
(***************************************************************************)
EXTENDS MapasArchivo, TLC

CONSTANTS p1, p2, p3, fa, v1, v2

MCPath == [p \in Programas |-> fa]
MCCompartido == [p \in Programas |-> "MAP_SHARED"]
MCUnPrivado == [p \in Programas |-> IF p = p2 THEN "MAP_PRIVATE" ELSE "MAP_SHARED"]
MCPaginas == fa :> 2
MCAccesos == [p \in Programas |-> {<<0, 2>>, <<2, 2>>}]
MCSinAccesos == [p \in Programas |-> {}]
MCDescargas == [p \in Programas |-> {2}]
MCNinguna == [p \in Programas |-> {}]

MCEnCero == fa :> [k \in 0..3 |-> Dato(Nada, 0)]
MCConDatos == fa :> [k \in 0..3 |-> IF k < 3 THEN Dato(v2, k) ELSE Dato(Nada, 0)]
===============================================================================
