------------------------------- MODULE MapasVista -------------------------------
(***************************************************************************)
(* What MUSE must guarantee of mapped files: one mapping per shared file,   *)
(* frames and mappings that end with their last user and not before, and    *)
(* the images that ImagenesCompartidas describes.                           *)
(***************************************************************************)
EXTENDS MuseMapas

(* Every variable keeps its type, counts stay positive, and the semaphore is *)
(* held exactly while a get or a copy is at work.                            *)
TypeOKMapas ==
  /\ \A p \in Programas :
       /\ mapeos[p] # Nada => mapeos[p] \in t_mapAbierto(p)
                              /\ mapeos[p].cantProcesosUsando # 0
       /\ segmentos[p] # Nada => segmentos[p] \in t_segmento
  /\ marcos \subseteq Frame
  /\ tablasDePaginas \in [Frame -> (Programas \X Nat) \cup {Nada}]
  /\ contenidoFrames \in [Frame -> Contenido]
  /\ pc \in [Programas -> EnMap \cup EnUnmap \cup EnReposo \cup {"get", "copy", "sync"}]
  /\ \A p \in Programas : pc[p] \in {"get", "copy"} <=> g_mutexPaginas = p

-------------------------------------------------------------------------------

Usuarios(m) == {p \in Programas : segmentos[p] # Nada /\ segmentos[p].mapeo = m}
Vivos == {m \in Programas : mapeos[m] # Nada /\ ~ mapeos[m].liberado}
Cerrando(p) == pc[p] \in {"unmap_borrar", "unmap_pagina"}

(* "MAP_SHARED El segmento asociado al archivo es compartido": the programs  *)
(* that map one file shared have the same mapping of it.                     *)
MismoMapeo ==
  \A p, q \in Programas :
    /\ segmentos[p] # Nada /\ segmentos[q] # Nada
    /\ segmentos[p].esCompartido /\ segmentos[q].esCompartido /\ path[p] = path[q]
    => segmentos[p].mapeo = segmentos[q].mapeo

(* Each mapping counts its users, and the list that muse_map searches has,   *)
(* for each shared file that somebody maps, the one mapping that all of them *)
(* use.                                                                      *)
MapeosConsistentes ==
  /\ \A m \in Vivos : mapeos[m].cantProcesosUsando = Cardinality(Usuarios(m))
  /\ MismoMapeo
  /\ \A p \in Programas : segmentos[p] # Nada /\ segmentos[p].esCompartido /\ ~ Cerrando(p)
       => buscarMapeoAbierto(path[p]) = segmentos[p].mapeo

(* "Solo se deberá cerrar el archivo mappeado una vez que todos los hilos     *)
(* hayan liberado la misma cantidad de muse_unmap que muse_map": nobody has a *)
(* segment of a mapping that is being closed by another one or that is freed. *)
CierraElUltimo ==
  \A p \in Programas : segmentos[p] # Nada =>
    /\ ~ mapeos[segmentos[p].mapeo].liberado
    /\ \A q \in Usuarios(segmentos[p].mapeo) \ {p} : ~ Cerrando(q)

(* The pages of a mapping that are in a frame: a mapping that is being closed *)
(* has given back the first ones.                                            *)
Presentes(m) ==
  {i \in DOMAIN mapeos[m].tablaPaginas :
     /\ mapeos[m].tablaPaginas[i].flagPresencia
     /\ \A q \in Usuarios(m) : pc[q] = "unmap_pagina" => i > local[q].pagina}

(* The frames in use are those of the pages of the mappings that somebody    *)
(* uses, one each, under the name of one of its users or of a program that   *)
(* has unmapped it.                                                          *)
MarcosExactos ==
  /\ \A f \in Frame :
       LET ahi == {e \in Vivos \X (1..Max({paginasDe[path[p]] : p \in Programas})) :
                     e[2] \in Presentes(e[1]) /\ mapeos[e[1]].tablaPaginas[e[2]].nroFrame = f}
       IN IF f \in marcos THEN Cardinality(ahi) = 1
                               /\ \A e \in ahi : tablasDePaginas[f][2] = e[2] - 1
                                                 /\ path[tablasDePaginas[f][1]] = path[e[1]]
          ELSE ahi = {} /\ tablasDePaginas[f] = Nada

-------------------------------------------------------------------------------
(* The images *)

Imagen(p) ==
  IF segmentos[p] = Nada \/ pc[p] \in EnUnmap THEN Nada
  ELSE IF segmentos[p].esCompartido THEN path[p] ELSE p

Imagenes == Programas \cup {path[p] : p \in Programas}

ByteEn(m, a) ==
  LET n == a \div lengthPagina
      pag == mapeos[m].tablaPaginas[n + 1]
  IN IF pag.flagPresencia THEN contenidoFrames[pag.nroFrame][a % lengthPagina]
     ELSE mapeos[m].contenido[n][a % lengthPagina]

(* A copy takes effect when it takes the semaphore. *)
Bytes(i) ==
  LET de == {p \in Programas : Imagen(p) = i}
      m == segmentos[CHOOSE p \in de : TRUE].mapeo
      copiando == {p \in de : pc[p] = "copy"}
  IN IF de = {} THEN Nada
     ELSE [a \in 0..(Len(mapeos[m].tablaPaginas) * lengthPagina - 1) |->
             LET p == CHOOSE p \in copiando : TRUE IN
             IF copiando # {} /\ a \in local[p].dir..(local[p].dir + local[p].tam - 1)
             THEN Dato(local[p].dato, a - local[p].dir) ELSE ByteEn(m, a)]

Devuelto(p) ==
  IF pc[p] = "get" /\ local[p].pagina > UltimaPagina(p) THEN local[p].leido ELSE Nada

Mapas == INSTANCE ImagenesCompartidas
  WITH Tamanio <- [i \in Imagenes |->
                     lengthPagina * paginasDe[IF i \in Programas THEN path[i] ELSE i]],
       imagen <- [p \in Programas |-> Imagen(p)],
       bytes <- [i \in Imagenes |-> Bytes(i)],
       devuelto <- [p \in Programas |-> Devuelto(p)]

(* Programs that take turns to map and unmap, and sync only pages that are   *)
(* in, see one image under a shared name, in zeros at first whatever its     *)
(* file has, in which each reads what any other copied, until the last one   *)
(* unmaps it.                                                                *)
ImplementaImagenes == Mapas!Spec
===============================================================================
