---------------------------- MODULE MCReplication ----------------------------
(* Replication on small instances; the constants are given in the .cfg files. *)
EXTENDS Replication

\* The properties say nothing of a behaviour that has met a known gap: it is
\* not followed any further.
NoGap == gaps = {}
==============================================================================
