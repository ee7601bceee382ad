----------------------------- MODULE SistemaArchivos ---------------------------
(***************************************************************************)
(* What the clients of SAC are promised: a tree of files and directories   *)
(* and one outstanding call per client thread.  A call takes effect in one *)
(* step between its start and its return.  The operations are those of the *)
(* fuse_operations of src/FUSE/src/sac_cli.c, and a value is what the       *)
(* callback hands to FUSE.  Nothing is said of nodes, blocks or pointers.   *)
(***************************************************************************)
EXTENDS Integers, Sequences, FiniteSets, FiniteSetsExt, SequencesExt

CONSTANTS
  Hilos,          \* threads of the clients' FUSE drivers
  Nada            \* no call, or no value yet

(* errno.h *)
ENOENT == 2
EEXIST == 17
ENOTDIR == 20
EFBIG == 27
EDQUOT == 122

VARIABLES
  arbol,          \* path |-> [tipo, datos]; the root is not in the domain
  llamada,        \* llamada[t]: the call of t, or Nada
  valor           \* valor[t]: its result once it took effect

visto == <<arbol, llamada, valor>>

Hijos(p) ==
  {q \in DOMAIN arbol : Len(q) = Len(p) + 1 /\ SubSeq(q, 1, Len(p)) = p}

EsDirectorio(p) == p = <<>> \/ (p \in DOMAIN arbol /\ arbol[p].tipo = "dir")
EsArchivo(p) == p \in DOMAIN arbol /\ arbol[p].tipo = "archivo"

Init ==
  /\ arbol = <<>>
  /\ llamada = [t \in Hilos |-> Nada]
  /\ valor = [t \in Hilos |-> Nada]

Llamar(t) ==
  /\ llamada[t] = Nada /\ llamada'[t] # Nada
  /\ llamada' = [llamada EXCEPT ![t] = llamada'[t]]
  /\ UNCHANGED <<arbol, valor>>

Volver(t) ==
  /\ valor[t] # Nada
  /\ llamada' = [llamada EXCEPT ![t] = Nada]
  /\ valor' = [valor EXCEPT ![t] = Nada]
  /\ UNCHANGED arbol

Da(t, v) == valor' = [valor EXCEPT ![t] = v]
Entero(n) == [ret |-> n]
Pide(t, op) == llamada[t] # Nada /\ llamada[t].op = op /\ valor[t] = Nada

-------------------------------------------------------------------------------
(* Effects *)

(* A new file is empty, and so is a new directory.  It may be refused for   *)
(* lack of room.                                                            *)
Crear(t, op, tipo, sinPadre) ==
  LET p == llamada[t].path IN
  /\ Pide(t, op)
  /\ UNCHANGED llamada
  /\ \/ p \in DOMAIN arbol /\ Da(t, Entero(-EEXIST)) /\ UNCHANGED arbol
     \/ p \notin DOMAIN arbol /\ Da(t, Entero(-EDQUOT)) /\ UNCHANGED arbol
     \/ ~ EsDirectorio(Front(p)) /\ Da(t, Entero(sinPadre)) /\ UNCHANGED arbol
     \/ /\ p \notin DOMAIN arbol /\ EsDirectorio(Front(p))
        /\ arbol' = [q \in DOMAIN arbol \cup {p} |->
                       IF q = p THEN [tipo |-> tipo, datos |-> <<>>] ELSE arbol[q]]
        /\ Da(t, Entero(0))

(* Only an empty directory is removed. *)
Borrar(t, op) ==
  LET p == llamada[t].path IN
  /\ Pide(t, op)
  /\ UNCHANGED llamada
  /\ \/ p \notin DOMAIN arbol /\ Da(t, Entero(-ENOENT)) /\ UNCHANGED arbol
     \/ /\ p \in DOMAIN arbol /\ Hijos(p) = {}
        /\ arbol' = Restrict(arbol, DOMAIN arbol \ {p})
        /\ Da(t, Entero(0))

(* A rename moves the whole subtree. *)
Renombrar(t) ==
  LET viejo == llamada[t].path
      nuevo == llamada[t].new_path
      Movido(p) == IF IsPrefix(viejo, p)
                   THEN nuevo \o SubSeq(p, Len(viejo) + 1, Len(p)) ELSE p
  IN /\ Pide(t, "SAC_rename")
     /\ UNCHANGED llamada
     /\ \/ viejo \notin DOMAIN arbol /\ Da(t, Entero(-ENOENT)) /\ UNCHANGED arbol
        \/ /\ viejo \in DOMAIN arbol /\ nuevo \notin DOMAIN arbol
           /\ DOMAIN arbol' = {Movido(p) : p \in DOMAIN arbol}
           /\ \A p \in DOMAIN arbol : arbol'[Movido(p)] = arbol[p]
           /\ Da(t, Entero(0))

(* The file p gets length n and keeps what it had, up to that length, except *)
(* for the cells of fijas.  What a file grows by is unspecified: the blocks  *)
(* it gets are not cleared.                                                  *)
Rehacer(p, n, fijas) ==
  /\ DOMAIN arbol' = DOMAIN arbol
  /\ \A q \in DOMAIN arbol \ {p} : arbol'[q] = arbol[q]
  /\ arbol'[p].tipo = arbol[p].tipo
  /\ Len(arbol'[p].datos) = n
  /\ \A i \in 1..n :
       IF i \in DOMAIN fijas THEN arbol'[p].datos[i] = fijas[i]
       ELSE i <= Len(arbol[p].datos) => arbol'[p].datos[i] = arbol[p].datos[i]

Escribir(t) ==
  LET r == llamada[t]
      p == r.path
      n == Len(r.datos)
      fin == IF Len(arbol[p].datos) >= r.offset + n THEN Len(arbol[p].datos)
             ELSE r.offset + n
  IN /\ Pide(t, "SAC_write")
     /\ UNCHANGED llamada
     /\ \/ p \notin DOMAIN arbol /\ Da(t, Entero(-ENOENT)) /\ UNCHANGED arbol
        \/ /\ EsArchivo(p)
           /\ Rehacer(p, fin, [i \in (r.offset + 1)..(r.offset + n) |-> r.datos[i - r.offset]])
           /\ Da(t, Entero(n))

Truncar(t) ==
  LET p == llamada[t].path IN
  /\ Pide(t, "SAC_truncate")
  /\ UNCHANGED llamada
  /\ \/ p \notin DOMAIN arbol /\ Da(t, Entero(-ENOENT)) /\ UNCHANGED arbol
     \/ p \in DOMAIN arbol /\ Da(t, Entero(-EFBIG)) /\ UNCHANGED arbol
     \/ EsArchivo(p) /\ Rehacer(p, llamada[t].size, <<>>) /\ Da(t, Entero(0))

Tocar(t) ==
  /\ Pide(t, "SAC_utimens")
  /\ Da(t, Entero(IF llamada[t].path \in DOMAIN arbol THEN 0 ELSE -ENOENT))
  /\ UNCHANGED <<arbol, llamada>>

-------------------------------------------------------------------------------
(* Answers *)

Consultar(t) ==
  LET p == llamada[t].path IN
  /\ Pide(t, "SAC_getattr")
  /\ UNCHANGED <<arbol, llamada>>
  /\ Da(t, IF EsDirectorio(p) THEN [ret |-> 0, tipo |-> "dir", size |-> 0]
           ELSE IF EsArchivo(p)
             THEN [ret |-> 0, tipo |-> "archivo", size |-> Len(arbol[p].datos)]
           ELSE Entero(-ENOENT))

(* A listing names every child once, after "." and "..". *)
Listar(t) ==
  LET p == llamada[t].path
      v == valor'[t]
  IN /\ Pide(t, "SAC_readdir")
     /\ UNCHANGED <<arbol, llamada>>
     /\ IF EsDirectorio(p)
        THEN /\ v.ret = 0
             /\ SubSeq(v.found, 1, 2) = <<".", "..">>
             /\ Len(v.found) = 2 + Cardinality(Hijos(p))
             /\ {v.found[i] : i \in 3..Len(v.found)} = {Last(q) : q \in Hijos(p)}
        ELSE v = Entero(IF EsArchivo(p) THEN -ENOTDIR ELSE -ENOENT)
     /\ valor' = [valor EXCEPT ![t] = v]

Leer(t) ==
  LET r == llamada[t] IN
  /\ Pide(t, "SAC_read")
  /\ UNCHANGED <<arbol, llamada>>
  /\ Da(t, IF ~ EsArchivo(r.path) THEN Entero(-ENOENT)
           ELSE LET todo == arbol[r.path].datos
                    d == SubSeq(todo, r.offset + 1, Min({r.offset + r.size, Len(todo)}))
                IN [ret |-> Len(d), datos |-> d])

Efecto(t) ==
  \/ Crear(t, "SAC_mknod", "archivo", -ENOENT)
  \/ Crear(t, "SAC_mkdir", "dir", -ENOTDIR)
  \/ Borrar(t, "SAC_unlink") \/ Borrar(t, "SAC_rmdir")
  \/ Renombrar(t) \/ Escribir(t) \/ Truncar(t) \/ Tocar(t)
  \/ Consultar(t) \/ Listar(t) \/ Leer(t)

Next == \E t \in Hilos : Llamar(t) \/ Efecto(t) \/ Volver(t)

Spec == Init /\ [][Next]_visto
===============================================================================
