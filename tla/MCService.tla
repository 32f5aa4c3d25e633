------------------------------ MODULE MCService ------------------------------
(* Clients and servers; the constants are given in the .cfg file. *)
EXTENDS Service
==============================================================================
