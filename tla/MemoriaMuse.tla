------------------------------ MODULE MemoriaMuse ------------------------------
(***************************************************************************)
(* What libMUSE.h promises to the programs: portions of memory of the size  *)
(* that was asked for, each in one piece and apart from the program's other *)
(* portions, that keep what was copied into them until they are freed,      *)
(* whatever the other programs do.  Nothing is said of pages, frames, swap  *)
(* or chunks.                                                               *)
(***************************************************************************)
EXTENDS Integers, FiniteSets, Functions

CONSTANTS
  Programas,      \* the programs that use the library
  Valores,        \* what a program may copy into a portion
  Nada            \* no value

VARIABLES
  porciones,      \* porciones[p]: the portions [dir, tam] of p
  bytes,          \* bytes[p]: address |-> byte, over the portions of p
  devuelto        \* devuelto[p]: what a muse_get of p hands over, or Nada

visto == <<porciones, bytes, devuelto>>

Direcciones(q) == q.dir..(q.dir + q.tam - 1)

(* A buffer that holds the value v: its byte k tells v and k. *)
Dato(v, k) == <<v, k>>

Init ==
  /\ porciones = [p \in Programas |-> {}]
  /\ bytes = [p \in Programas |-> <<>>]
  /\ devuelto = [p \in Programas |-> Nada]

(* The bytes of a new portion may be anything. *)
Reservar(p) ==
  \E nueva \in porciones'[p] \ porciones[p] :
    /\ \A q \in porciones[p] : Direcciones(q) \cap Direcciones(nueva) = {}
    /\ porciones' = [porciones EXCEPT ![p] = @ \cup {nueva}]
    /\ DOMAIN bytes'[p] = DOMAIN bytes[p] \cup Direcciones(nueva)
    /\ bytes[p] = Restrict(bytes'[p], DOMAIN bytes[p])
    /\ bytes' = [bytes EXCEPT ![p] = bytes'[p]]
    /\ UNCHANGED devuelto

Escribir(p) ==
  \E q \in porciones[p], v \in Valores :
    /\ bytes' = [bytes EXCEPT ![p] =
                   [a \in DOMAIN bytes[p] |->
                      IF a \in Direcciones(q) THEN Dato(v, a - q.dir) ELSE bytes[p][a]]]
    /\ UNCHANGED <<porciones, devuelto>>

Leer(p) ==
  \E q \in porciones[p] :
    /\ devuelto[p] = Nada
    /\ devuelto' = [devuelto EXCEPT ![p] = [k \in 0..(q.tam - 1) |-> bytes[p][q.dir + k]]]
    /\ UNCHANGED <<porciones, bytes>>

Entregar(p) ==
  /\ devuelto[p] # Nada
  /\ devuelto' = [devuelto EXCEPT ![p] = Nada]
  /\ UNCHANGED <<porciones, bytes>>

Liberar(p) ==
  \E q \in porciones[p] :
    /\ porciones' = [porciones EXCEPT ![p] = @ \ {q}]
    /\ bytes' = [bytes EXCEPT ![p] = Restrict(@, DOMAIN @ \ Direcciones(q))]
    /\ UNCHANGED devuelto

(* A program that ends gives everything back. *)
Irse(p) ==
  /\ porciones' = [porciones EXCEPT ![p] = {}]
  /\ bytes' = [bytes EXCEPT ![p] = <<>>]
  /\ UNCHANGED devuelto

Next ==
  \E p \in Programas :
    Reservar(p) \/ Escribir(p) \/ Leer(p) \/ Entregar(p) \/ Liberar(p) \/ Irse(p)

Spec == Init /\ [][Next]_visto
===============================================================================
