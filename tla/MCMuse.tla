--------------------------------- MODULE MCMuse --------------------------------
(***************************************************************************)
(* Instances of MuseVista for TLC, with the page size and the header of     *)
(* configs/muse.cfg and MUSE.c.                                             *)
(***************************************************************************)
EXTENDS MuseVista, TLC

CONSTANTS p1, p2, v1, v2

(* The size of pruebaMuse, and one that fits in a page. *)
MCTamanios == p1 :> {4} @@ p2 :> {2}
MCTamanioUnico == p1 :> {3}
(* With the pages of 16 bytes of suseServer-stress.cfg: one that fills them  *)
(* with its header, for MusePaginaCero.cfg.                                  *)
MCTamanioOnce == p1 :> {11} @@ p2 :> {11}
(* With pages of 16 bytes: one that leaves a rest, for MuseHeap.cfg.         *)
MCTamanioTrece == p1 :> {13}
===============================================================================
