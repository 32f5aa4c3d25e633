------------------------------- MODULE Replica -------------------------------
(***************************************************************************)
(* A store seen from the replication protocol, as a value: its data files, *)
(* the newest record the index holds of each key, and seq.  What the       *)
(* engine does to it between two frames of a stream is one step here; the  *)
(* steps inside a write or a merge are in modules Store and Compaction.    *)
(***************************************************************************)
EXTENDS Records

LOCAL INSTANCE SequencesExt

CONSTANT MaxFile   \* Options.MaxFileSize, in records

ASSUME ReplicaAssumption == MaxFile \in Nat \ {0}

\* What the index says of a key it does not hold.
NoRecord == [seq |-> 0, tomb |-> TRUE]

\* A new store.
Empty == [files |-> [id \in {0} |-> <<>>], active |-> 0, seq |-> 0,
          index |-> [k \in Keys |-> NoRecord]]

\* The map readers of the store see: 0 for a key that is not there.
View(s) == [k \in Keys |-> IF s.index[k].tomb THEN 0 ELSE s.index[k].seq]

\* indexApplyLocked for each of recs: the newest number wins.
Indexed(idx, recs) ==
  [k \in Keys |->
     LET newer == {i \in DOMAIN recs : recs[i].key = k /\ recs[i].seq > idx[k].seq}
         best == CHOOSE i \in newer : \A j \in newer : recs[i].seq >= recs[j].seq
     IN  IF newer = {} THEN idx[k] ELSE [seq |-> recs[best].seq, tomb |-> recs[best].tomb]]

NextID(s) == Max(DOMAIN s.files) + 1

\* writeLocked: recs go to the active file, or to a new one if it is full.
\* They reach the index at once, members of a batch too.
writeLocked(s, recs) ==
  LET full == Len(s.files[s.active]) # 0 /\ Len(s.files[s.active]) + Len(recs) > MaxFile
      act == IF full THEN NextID(s) ELSE s.active
      old == IF full THEN <<>> ELSE s.files[s.active]
  IN  [s EXCEPT !.files = With(s.files, act, old \o recs), !.active = act,
                !.index = Indexed(@, recs)]

Numbers(recs) == {recs[i].seq : i \in DOMAIN recs}

\* A mutation of ApplyRaw: seq is set to the last record of the frame.
ApplyRawLast(s, recs) == [writeLocked(s, recs) EXCEPT !.seq = recs[Len(recs)].seq]

\* ApplyRaw: records of another node, numbers and flags as they come.
ApplyRaw(s, recs) == [writeLocked(s, recs) EXCEPT !.seq = Max({@} \cup Numbers(recs))]

\* A client's write: appendLocked numbers the records from seq on.
appendLocked(s, recs) == [writeLocked(s, recs) EXCEPT !.seq = @ + Len(recs)]

\* The record the index of s holds of key k, as a merge or a snapshot copies
\* it: outside its batch.
Held(s, k) == [key |-> k, seq |-> s.index[k].seq, tomb |-> s.index[k].tomb, part |-> "single"]

\* Compact: every file sealed, the live records in key order in a file with an
\* id above the new active one's, the tombstones forgotten.
Compact(s) ==
  LET act == IF s.files[s.active] = <<>> THEN s.active ELSE NextID(s)
      live == {k \in Keys : ~s.index[k].tomb}
      order == SetToSortSeq(live, <)
      out == [i \in DOMAIN order |-> Held(s, order[i])]
      kept == [id \in {act} |-> <<>>]
  IN  [s EXCEPT !.files = IF live = {} THEN kept ELSE With(kept, Max(DOMAIN s.files \cup {act}) + 1, out),
                !.active = act,
                !.index = [k \in Keys |-> IF s.index[k].tomb THEN NoRecord ELSE s.index[k]]]

\* Open on the files fs, of which those in hinted have a hint file: they are
\* replayed whole, the others less what an unfinished batch leaves staged.
\* seq counts every record that was read, a discarded one too.
Recovered(fs, hinted) ==
  LET replayed(id) == IF id \in hinted THEN DOMAIN fs[id] ELSE Applied(fs[id])
      last == Max(DOMAIN fs)
      cut == IF last \in hinted THEN fs ELSE [fs EXCEPT ![last] = SubSeq(@, 1, CommitLen(@))]
      reuse == last \notin hinted /\ Len(cut[last]) < MaxFile
      read(k) == UNION {{fs[id][i] : i \in {j \in replayed(id) : fs[id][j].key = k}} : id \in DOMAIN fs}
  IN  IF DOMAIN fs = {} THEN Empty
      ELSE [files |-> IF reuse THEN cut ELSE With(cut, last + 1, <<>>),
            active |-> IF reuse THEN last ELSE last + 1,
            seq |-> Max({0} \cup UNION {Numbers(fs[id]) : id \in DOMAIN fs}),
            index |-> [k \in Keys |-> Indexed([x \in Keys |-> NoRecord], SetToSeq(read(k)))[k]]]
==============================================================================
