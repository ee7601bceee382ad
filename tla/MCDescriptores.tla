----------------------------- MODULE MCDescriptores ----------------------------
(***************************************************************************)
(* Instance of DescriptoresVista for TLC: three clients and as many        *)
(* numbers.  The third one connects when the thread of another is closing, *)
(* so that numbers are given away again with two processes at work.        *)
(***************************************************************************)
EXTENDS DescriptoresVista

MCClientes == 1 .. 3
MCNumeros == 4 .. 6

(* Bounds: nothing is followed after the fall of the server, nor a second    *)
(* harmful order after a reuse, which leaves only the types to be kept.      *)
MCCotas ==
  /\ fase[3] # "afuera" => \E c \in {1, 2} : pc[c] \in {"sacar", "cerrar", "fin"}
  /\ "reuso" \in faltas => faltas = {"reuso"}
  /\ ~ caido
===============================================================================
