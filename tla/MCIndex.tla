------------------------------- MODULE MCIndex -------------------------------
(* Index on small instances; the constants are given in the .cfg files. *)
EXTENDS Index

\* Three keys, one of them with values of two sizes.
SomePairs == [key: Keys, size: {2}] \cup [key: {2}, size: {1}]

\* A put, its deletion, and a put of the other key.
PutDeletePut ==
  <<[key |-> 1, tomb |-> FALSE, size |-> 2], [key |-> 1, tomb |-> TRUE, size |-> 1],
    [key |-> 2, tomb |-> FALSE, size |-> 1]>>

\* A merge that lists the file writers append to is in module Compaction: such
\* a behaviour is not followed any further here.
NoMergeSetGap == "mergeset" \notin gaps
==============================================================================
