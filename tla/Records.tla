------------------------------- MODULE Records -------------------------------
(***************************************************************************)
(* Log records, index entries and the pure functions the storage engine    *)
(* computes from them (record.go, datafile.go, store.go).                  *)
(*                                                                         *)
(* A data file is the sequence of its records; a byte offset is a position *)
(* in that sequence and every record has size 1.  The value a record       *)
(* carries is named by its sequence number: two records of a key carry the *)
(* same value exactly when they carry the same number.  Checksums are not  *)
(* modelled: a file is what scanFile accepts of it, the longest prefix of  *)
(* intact records.                                                         *)
(***************************************************************************)
EXTENDS Naturals, Sequences, FiniteSetsExt

CONSTANT Keys   \* the keys, numbered in the order bytes.Compare gives them

ASSUME KeysAssumption == Keys \subseteq Nat

\* "single" has no batch flag, "member" has flagBatch, "last" has flagBatch
\* and flagBatchEnd.
Record == [key: Keys, seq: Nat \ {0}, tomb: BOOLEAN,
           part: {"single", "member", "last"}]

\* clearBatchFlags: a merged record is no longer part of its batch.
Unbatched(r) == [r EXCEPT !.part = "single"]

Entry == [file: Nat, pos: Nat, seq: Nat, tomb: BOOLEAN]

\* A key the index does not hold.  Sequence numbers start at 1, so "absent or
\* older" is one comparison, and an absent key reads like a deleted one.
Absent == [file |-> 0, pos |-> 0, seq |-> 0, tomb |-> TRUE]

EntryOf(r, id, i) == [file |-> id, pos |-> i, seq |-> r.seq, tomb |-> r.tomb]

\* A mutation of Applied: batch records are not staged.
AppliedUnstaged(recs) == DOMAIN recs

\* scanIntoIndex: the positions whose records reach the index.  A batch
\* record is staged until some later record of the file ends the batch.
Applied(recs) ==
  {i \in DOMAIN recs :
     \/ recs[i].part # "member"
     \/ \E j \in DOMAIN recs : j > i /\ recs[j].part = "last"}

\* scanIntoIndex: the commit offset, the end of the last record that was not
\* left staged.
CommitLen(recs) == Max({0} \cup {i \in DOMAIN recs : recs[i].part # "member"})

\* A mutation of Beats: the files decide, the last in replay order wins.
BeatsByFile(e, f) == e.file > f.file \/ (e.file = f.file /\ e.pos >= f.pos)

\* Whether e displaces f under applyRecovered and indexApplyLocked: the higher
\* number wins, and of two equal ones the first in replay order.
Beats(e, f) ==
  \/ e.seq > f.seq
  \/ /\ e.seq = f.seq
     /\ e.file < f.file \/ (e.file = f.file /\ e.pos <= f.pos)

Newest(ents) == CHOOSE e \in ents : \A f \in ents : Beats(e, f)

\* What applying the entries ents to an index that holds old leaves there.
ApplyEntries(old, ents) ==
  LET newer == {e \in ents : e.seq > old.seq}
  IN  IF newer = {} THEN old ELSE Newest(newer)

With(f, x, v) == [y \in DOMAIN f \cup {x} |-> IF y = x THEN v ELSE f[y]]
Without(f, S) == [y \in DOMAIN f \ S |-> f[y]]
==============================================================================
