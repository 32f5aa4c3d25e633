-------------------------------- MODULE KVMap --------------------------------
(***************************************************************************)
(* What the storage engine promises its callers: a map from keys to        *)
(* values, changed by one write at a time.  A write is a sequence of       *)
(* puts and deletes that takes effect as a whole or not at all.  Between   *)
(* its start and its answer a crash may decide it either way; nothing else *)
(* a crash, a restart or the merging of files does can be seen in the map. *)
(***************************************************************************)
EXTENDS Naturals, Sequences, FiniteSetsExt

CONSTANT Keys

VARIABLES
  map,      \* key -> the number of the value it holds, 0 for none
  pending   \* the write in progress, <<>> for none

kvVars == <<map, pending>>

\* The map after a write: its last record of a key decides.
Effect(m, recs) ==
  [k \in Keys |->
     LET mine == {i \in DOMAIN recs : recs[i].key = k}
     IN  IF mine = {} THEN m[k]
         ELSE IF recs[Max(mine)].tomb THEN 0 ELSE recs[Max(mine)].seq]

KVInit == map = [k \in Keys |-> 0] /\ pending = <<>>

Start == pending = <<>> /\ pending' # <<>> /\ UNCHANGED map

Take == pending # <<>> /\ pending' = <<>> /\ map' = Effect(map, pending)

Drop == pending # <<>> /\ pending' = <<>> /\ UNCHANGED map

KVNext == Start \/ Take \/ Drop

==============================================================================
