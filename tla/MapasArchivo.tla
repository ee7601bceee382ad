------------------------------ MODULE MapasArchivo ------------------------------
(***************************************************************************)
(* What libMUSE.h promises of the files that programs map, which the code   *)
(* does not keep: an image begins with the content of its file, a get reads *)
(* what was copied, and muse_sync writes to the file.  The variables below  *)
(* follow the promise beside the steps of MuseMapas and restrict none.      *)
(***************************************************************************)
EXTENDS MapasVista

CONSTANT
  contenidoDe     \* contenidoDe[a]: the file a, up to the length of its maps

VARIABLES
  archivo,        \* the files
  prometido,      \* prometido[i]: what a get of image i is to read, or Nada
  descargado      \* descargado[a]: what the last sync of a to return 0 read

varsA == <<vars, archivo, prometido, descargado>>

InitA ==
  /\ Init
  /\ archivo = contenidoDe
  /\ prometido = [i \in Imagenes |-> Nada]
  /\ descargado = [a \in DOMAIN contenidoDe |-> <<>>]

(* mmap does not look at the descriptor of the file, because of MAP_ANON,    *)
(* and nothing else uses it: no step changes a file.                         *)
mapearArchivoMUSE == UNCHANGED archivo

ArchivoDe(i) == archivo[IF i \in Programas THEN path[i] ELSE i]

(* The image i after this step: it begins as its file, and a copy takes      *)
(* effect when it takes the semaphore.                                       *)
Prometer(i) ==
  LET antes == IF prometido[i] = Nada THEN ArchivoDe(i) ELSE prometido[i]
      copian == {p \in Programas : Imagen(p) = i /\ pc[p] # "copy" /\ pc'[p] = "copy"}
      Copia(a) == {p \in copian : a - local'[p].dir \in 0..(local'[p].tam - 1)}
  IN IF \A p \in Programas : Imagen(p)' # i THEN Nada
     ELSE [a \in DOMAIN antes |->
             IF Copia(a) = {} THEN antes[a]
             ELSE LET p == CHOOSE p \in Copia(a) : TRUE
                  IN Dato(local'[p].dato, a - local'[p].dir)]

Descargan(a) == {p \in Programas : path[p] = a /\ pc[p] = "sync" /\ pc'[p] = "libre"}

NextA ==
  /\ Next
  /\ mapearArchivoMUSE
  /\ prometido' = [i \in Imagenes |-> Prometer(i)]
  /\ descargado' =
       [a \in DOMAIN contenidoDe |->
          IF Descargan(a) = {} THEN descargado[a]
          ELSE local[CHOOSE p \in Descargan(a) : TRUE].leido]

SpecA == InitA /\ [][NextA]_varsA

-------------------------------------------------------------------------------

(* "el archivo del path dado", and "Copia una cantidad n de bytes ... a una  *)
(* dst en MUSE": what a get of a mapping hands over is the content of the    *)
(* file, changed by the copies that the programs which share it have made.   *)
LeeLoPrometido ==
  \A p \in Programas : Devuelto(p) # Nada =>
    \A k \in 1..Len(Devuelto(p)) :
      Devuelto(p)[k] = prometido[Imagen(p)][local[p].dir + k - 1]

(* "Descarga una cantidad len de bytes y lo escribe en el archivo": the file *)
(* has what the last sync of it to return 0 has read.                        *)
SyncLlegaAlArchivo ==
  \A a \in DOMAIN descargado :
    \A k \in DOMAIN descargado[a] : archivo[a][k - 1] = descargado[a][k]
===============================================================================
