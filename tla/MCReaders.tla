------------------------------ MODULE MCReaders ------------------------------
(* The engine with a reader; the constants are given in the .cfg file. *)
EXTENDS Readers
==============================================================================
