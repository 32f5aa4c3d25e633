---- MODULE MCCompaction ----
(* The engine on small instances; the constants are given in the .cfg files. *)
EXTENDS Compaction
====
