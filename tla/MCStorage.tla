--------------------------- MODULE MCStorage -----------------------------------
(* Two hosts and a drive that is on the first of them. *)
EXTENDS StorageCollector

CONSTANTS h1

MCInitialAt == {[d \in Drives |-> h1]}
===============================================================================
