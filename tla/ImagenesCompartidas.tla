--------------------------- MODULE ImagenesCompartidas --------------------------
(***************************************************************************)
(* What the mappings of MUSE are to the programs that use them: memory that *)
(* those who map a name shared have in common, and that who maps it private *)
(* has for itself.  An image appears in zeros with its first user, keeps    *)
(* what any of its users copies into it, and disappears with the last.  A   *)
(* program that ends without muse_unmap stays a user.  Nothing is said of   *)
(* pages, frames, tables or counts.                                         *)
(*                                                                         *)
(* This is less than libMUSE.h promises: there an image is that of a file,  *)
(* begins with its content (59, 66) and goes to it with muse_sync (72).     *)
(* The code maps anonymous memory (operaciones.c:405), and here nothing is  *)
(* said of files; MapasArchivo states the promise, which does not hold.     *)
(***************************************************************************)
EXTENDS Integers

CONSTANTS
  Programas,
  Imagenes,       \* what programs may map
  Tamanio,        \* Tamanio[i]: the bytes of image i
  Valores,        \* what a program may copy
  Nada

VARIABLES
  imagen,         \* imagen[p]: the one that p maps, or Nada
  bytes,          \* bytes[i]: its bytes, or Nada while nobody maps it
  devuelto        \* devuelto[p]: what a muse_get of p hands over, or Nada

visto == <<imagen, bytes, devuelto>>

(* A buffer that holds the value v: its byte k tells v and k. *)
Dato(v, k) == <<v, k>>
Cero == Dato(Nada, 0)

Init ==
  /\ imagen = [p \in Programas |-> Nada]
  /\ bytes = [i \in Imagenes |-> Nada]
  /\ devuelto = [p \in Programas |-> Nada]

Mapear(p) ==
  \E i \in Imagenes :
    /\ imagen[p] = Nada
    /\ imagen' = [imagen EXCEPT ![p] = i]
    /\ bytes' = IF bytes[i] # Nada THEN bytes
                ELSE [bytes EXCEPT ![i] = [a \in 0..(Tamanio[i] - 1) |-> Cero]]
    /\ UNCHANGED devuelto

(* What reaches past the end of the image is not written. *)
Escribir(p) ==
  /\ imagen[p] # Nada
  /\ UNCHANGED <<imagen, devuelto>>
  /\ \E v \in Valores, dir, n \in 0..Tamanio[imagen[p]] :
       bytes' = [bytes EXCEPT ![imagen[p]] =
                   [a \in DOMAIN @ |->
                      IF a \in dir..(dir + n - 1) THEN Dato(v, a - dir) ELSE @[a]]]

Leer(p) ==
  /\ imagen[p] # Nada /\ devuelto[p] = Nada
  /\ UNCHANGED <<imagen, bytes>>
  /\ \E dir, n \in 0..Tamanio[imagen[p]] :
       /\ dir + n <= Tamanio[imagen[p]]
       /\ devuelto' = [devuelto EXCEPT ![p] =
                         [k \in 1..n |-> bytes[imagen[p]][dir + k - 1]]]

Entregar(p) ==
  /\ devuelto[p] # Nada
  /\ devuelto' = [devuelto EXCEPT ![p] = Nada]
  /\ UNCHANGED <<imagen, bytes>>

Desmapear(p) ==
  /\ imagen[p] # Nada
  /\ imagen' = [imagen EXCEPT ![p] = Nada]
  /\ bytes' = IF \E q \in Programas \ {p} : imagen[q] = imagen[p] THEN bytes
              ELSE [bytes EXCEPT ![imagen[p]] = Nada]
  /\ UNCHANGED devuelto

Next ==
  \E p \in Programas :
    Mapear(p) \/ Escribir(p) \/ Leer(p) \/ Entregar(p) \/ Desmapear(p)

Spec == Init /\ [][Next]_visto
===============================================================================
