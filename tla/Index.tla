-------------------------------- MODULE Index --------------------------------
(***************************************************************************)
(* The in-memory index and the space accounting of the storage engine      *)
(* (internal/engine/store.go, compact.go): the hash map and the skip list  *)
(* that must agree, and the counters live, nLive and total, which writers, *)
(* a merge and Reset update under different locks or none, and which       *)
(* decide when a merge is worth while.  What the files hold, and crashes,  *)
(* are in modules Store and Compaction: a file is its size here.           *)
(***************************************************************************)
EXTENDS SkipList

LOCAL INSTANCE SequencesExt

CONSTANTS
  Keys,       \* positive numbers
  Pairs,      \* what clients may put: a key and the encoded size of the record
  TombSize,   \* encoded size of a tombstone
  MaxFile,    \* Options.MaxFileSize
  Threshold,  \* Options.CompactionThreshold, in percent
  Log,        \* the records of a leader this store may follow, in order
  MaxBatch,   \* bound on the records of one write
  MaxWrites,  \* bound on writes
  MaxOrders,  \* bound on merges ordered by an operator, and on resets
  MaxFaults   \* bound on failed writes and abandoned merges

ASSUME IndexAssumption ==
  /\ Keys \subseteq Nat \ {0} /\ Pairs \subseteq [key: Keys, size: Nat \ {0}] /\ TombSize \in Nat \ {0}
  /\ MaxFile \in Nat \ {0} /\ Threshold \in 1..100 /\ MaxBatch \in Nat
  /\ \A n \in DOMAIN Log : Log[n].key \in Keys /\ Log[n].size \in Nat \ {0} /\ Log[n].tomb \in BOOLEAN
  /\ MaxWrites \in Nat /\ MaxOrders \in Nat /\ MaxFaults \in Nat

VARIABLES
  idx,     \* under mu: keys (key -> entry), order, and the counters live, nLive
  files,   \* the open file set: id -> size
  active, nextID, seq,
  total,   \* the counter of every byte in the data files
  writer,  \* the write holding wmu: how far it is, its file, its records
  merge,   \* the merge holding compactMu: how far it is and what it has noted
  \* history
  led,     \* clients have written to this store since it was last empty
  gaps,    \* the known gaps this behaviour has run into
  writes, orders, faults

vars == <<idx, files, active, nextID, seq, total, writer, merge, led, gaps, writes,
          orders, faults>>

NoEntries == [k \in {} |-> 0]
NewIndex == [keys |-> NoEntries, order |-> newSkiplist, live |-> 0, nLive |-> 0]
NoWrite == [pc |-> "idle", recs |-> <<>>]
NoMerge == [pc |-> "idle", active |-> 0, ids |-> {}, items |-> NoEntries, retired |-> NoEntries,
            out |-> {}, sum |-> 0, raced |-> FALSE]

Init ==
  /\ idx = NewIndex /\ files = [id \in {0} |-> 0] /\ active = 0 /\ nextID = 1 /\ seq = 0
  /\ total = 0 /\ writer = NoWrite /\ merge = NoMerge
  /\ led = FALSE /\ gaps = {} /\ writes = 0 /\ orders = 0 /\ faults = 0

With(f, x, v) == [y \in DOMAIN f \cup {x} |-> IF y = x THEN v ELSE f[y]]

Bytes(recs) == SumFunction([i \in DOMAIN recs |-> recs[i].size])

------------------------------------------------------------------------------
(* Writers *)

\* writeLocked up to the store of the file's new size, with wmu taken: the
\* active file is first replaced if the records do not fit.  A WriteAt that
\* fails leaves the sizes alone.
BeginWrite(recs) ==
  LET full == files[active] # 0 /\ files[active] + Bytes(recs) > MaxFile
      act == IF full THEN nextID ELSE active
      open == IF full THEN With(files, act, 0) ELSE files
  IN  /\ writer.pc = "idle" /\ writes < MaxWrites
      /\ writes' = writes + 1
      /\ active' = act /\ nextID' = IF full THEN nextID + 1 ELSE nextID
      /\ \/ /\ files' = [open EXCEPT ![act] = @ + Bytes(recs)]
            /\ writer' = [pc |-> "sized", recs |-> [i \in DOMAIN recs |-> recs[i] @@ [file |-> act]]]
            /\ merge' = [merge EXCEPT !.raced = @ \/ merge.pc = "summed"]
            /\ UNCHANGED faults
         \/ /\ faults < MaxFaults /\ faults' = faults + 1
            /\ files' = open /\ UNCHANGED <<writer, merge>>
      /\ UNCHANGED <<idx, total, gaps, orders>>

\* appendLocked: the records are numbered from seq on.
appendLocked(items) ==
  LET recs == [i \in DOMAIN items |-> items[i] @@ [seq |-> seq + i]]
  IN  /\ BeginWrite(recs)
      /\ seq' = seq + Len(items)
      /\ led' = TRUE

Puts == {p @@ [tomb |-> FALSE] : p \in Pairs}
Tombs == [key: Keys, tomb: {TRUE}, size: {TombSize}]

\* Put, or BatchPut when there are several.
BatchPut == \E n \in 1..MaxBatch : \E items \in [1..n -> Puts] : appendLocked(items)

Live(k) == k \in DOMAIN idx.keys /\ ~idx.keys[k].tomb

Delete == \E t \in Tombs : Live(t.key) /\ appendLocked(<<t>>)

\* ApplyRaw: a record of the leader's log, one this store has perhaps applied
\* before or one that is older than what it holds.  seq is raised when the write
\* has succeeded: see IndexWrite.
ApplyRaw ==
  /\ ~led
  /\ \E n \in DOMAIN Log : BeginWrite(<<Log[n] @@ [seq |-> n]>>)
  /\ UNCHANGED <<seq, led>>

\* writeLocked: total.Add, after the size of the file was stored.
AddTotal ==
  /\ writer.pc = "sized"
  /\ total' = total + Bytes(writer.recs)
  /\ writer' = [writer EXCEPT !.pc = "added"]
  /\ UNCHANGED <<idx, files, active, nextID, seq, merge, led, gaps, writes, orders, faults>>

\* indexApplyLocked: a record that is not newer than what the index holds is
\* dropped; the skip list changes only when the key is new.
indexApplyLocked(ix, r, lvl) ==
  LET held == r.key \in DOMAIN ix.keys
      was == held /\ ~ix.keys[r.key].tomb
  IN  IF held /\ ix.keys[r.key].seq >= r.seq THEN ix
      ELSE [keys |-> With(ix.keys, r.key, [seq |-> r.seq, tomb |-> r.tomb, size |-> r.size, file |-> r.file]),
            order |-> IF held THEN ix.order ELSE insert(ix.order, r.key, lvl),
            live |-> ix.live - (IF was THEN ix.keys[r.key].size ELSE 0) + (IF r.tomb THEN 0 ELSE r.size),
            nLive |-> ix.nLive - (IF was THEN 1 ELSE 0) + (IF r.tomb THEN 0 ELSE 1)]

\* writeLocked: the records reach the index together, under mu.  ApplyRaw, still
\* in wmu, then raises seq to the newest of them; for a client's write that
\* changes nothing.
IndexWrite ==
  /\ writer.pc = "added"
  /\ \E lvl \in [DOMAIN writer.recs -> 1..MaxLevel] :
       idx' = FoldLeft(LAMBDA ix, i : indexApplyLocked(ix, writer.recs[i], lvl[i]), idx,
                       [i \in DOMAIN writer.recs |-> i])
  /\ seq' = Max({seq} \cup {writer.recs[i].seq : i \in DOMAIN writer.recs})
  /\ writer' = NoWrite
  /\ UNCHANGED <<files, active, nextID, total, merge, led, gaps, writes, orders, faults>>

\* SyncAlways: the fsync fails, and the records stay in the file unindexed.
SyncFails ==
  /\ writer.pc = "added" /\ faults < MaxFaults
  /\ faults' = faults + 1
  /\ writer' = NoWrite
  /\ UNCHANGED <<idx, files, active, nextID, seq, total, merge, led, gaps, writes, orders>>

------------------------------------------------------------------------------
(* A merge *)

deadBytes == IF total > idx.live THEN total - idx.live ELSE 0

\* Enough of live + dead bytes is dead.
Worthwhile(live, dead) == live + dead # 0 /\ dead * 100 >= Threshold * (live + dead)

\* A mutation of shouldCompact: two files are taken to be too few.
shouldCompactOfThree == Cardinality(DOMAIN files) > 2 /\ Worthwhile(idx.live, deadBytes)

\* shouldCompact, which the background loop asks at every tick.
shouldCompact == Cardinality(DOMAIN files) >= 2 /\ Worthwhile(idx.live, deadBytes)

\* Compact: seal the active file, under wmu.
Seal ==
  LET used == files[active] > 0
      act == IF used THEN nextID ELSE active
  IN  /\ merge.pc = "idle" /\ writer.pc = "idle"
      /\ merge' = [NoMerge EXCEPT !.pc = "sealed", !.active = act]
      /\ active' = act
      /\ files' = IF used THEN With(files, act, 0) ELSE files
      /\ nextID' = IF used THEN nextID + 1 ELSE nextID
      /\ UNCHANGED <<idx, seq, total, writer, led, gaps, writes, faults>>

\* background: the tick that finds a merge worth while.
Tick == shouldCompact /\ Seal /\ UNCHANGED orders

\* An operator orders one.
OrderCompact == orders < MaxOrders /\ Seal /\ orders' = orders + 1

\* Compact: list the files to merge.  If writers have filled the new active file
\* meanwhile, the one they write to now is among them.
ListFiles ==
  /\ merge.pc = "sealed"
  /\ merge' = IF DOMAIN files = {merge.active} THEN NoMerge
              ELSE [merge EXCEPT !.pc = "listed", !.ids = DOMAIN files \ {merge.active}]
  /\ gaps' = IF active # merge.active THEN gaps \cup {"mergeset"} ELSE gaps
  /\ UNCHANGED <<idx, files, active, nextID, seq, total, writer, led, writes, orders, faults>>

\* Compact: note, in key order and under mu, what the index has in those files.
Snapshot ==
  LET mine == {k \in Range(scan(idx.order, 0, 0)) : idx.keys[k].file \in merge.ids}
  IN  /\ merge.pc = "listed"
      /\ merge' = [merge EXCEPT !.pc = "noted",
                     !.items = Restrict(idx.keys, {k \in mine : ~idx.keys[k].tomb}),
                     !.retired = Restrict(idx.keys, {k \in mine : idx.keys[k].tomb})]
      /\ UNCHANGED <<idx, files, active, nextID, seq, total, writer, led, gaps, writes, orders, faults>>

\* A mutation of Copy: the id of the output is read, and not taken.
CopyPeeksID ==
  LET some == DOMAIN merge.items # {}
  IN  /\ merge.pc = "noted" /\ (some => writer.pc = "idle")
      /\ merge' = [merge EXCEPT !.pc = "copied", !.out = IF some THEN {nextID} ELSE {}]
      /\ files' = IF some THEN With(files, nextID, Bytes(merge.items)) ELSE files
      /\ UNCHANGED <<idx, active, nextID, seq, total, writer, led, gaps, writes, orders, faults>>

\* Compact: copy the noted records out.  The output files are represented by
\* one; total does not count it yet.  allocFileID waits for wmu.
Copy ==
  LET some == DOMAIN merge.items # {}
  IN  /\ merge.pc = "noted" /\ (some => writer.pc = "idle")
      /\ merge' = [merge EXCEPT !.pc = "copied", !.out = IF some THEN {nextID} ELSE {}]
      /\ files' = IF some THEN With(files, nextID, Bytes(merge.items)) ELSE files
      /\ nextID' = IF some THEN nextID + 1 ELSE nextID
      /\ UNCHANGED <<idx, active, seq, total, writer, led, gaps, writes, orders, faults>>

\* Compact: the merge is abandoned, and its output removed.
cleanup ==
  /\ merge.pc = "copied" /\ faults < MaxFaults
  /\ faults' = faults + 1
  /\ files' = Restrict(files, DOMAIN files \ merge.out)
  /\ merge' = NoMerge
  /\ UNCHANGED <<idx, active, nextID, seq, total, writer, led, gaps, writes, orders>>

\* A mutation of StillAt: a key that was rewritten meanwhile is moved too.
StillAtAny(k, e) == k \in DOMAIN idx.keys

\* The index still has for key k what the merge noted, e.
StillAt(k, e) ==
  k \in DOMAIN idx.keys /\ idx.keys[k].seq = e.seq /\ idx.keys[k].file = e.file

\* Compact: move the index onto the output.  A chunk holds more keys than an
\* instance has.
Repoint ==
  /\ merge.pc = "copied"
  /\ idx' = [idx EXCEPT !.keys = [k \in DOMAIN @ |->
               IF k \in DOMAIN merge.items /\ StillAt(k, merge.items[k])
                 THEN [merge.items[k] EXCEPT !.file = CHOOSE id \in merge.out : TRUE] ELSE @[k]]]
  /\ merge' = [merge EXCEPT !.pc = "moved"]
  /\ UNCHANGED <<files, active, nextID, seq, total, writer, led, gaps, writes, orders, faults>>

\* Compact: forget the tombstones, in the map and in the skip list.
Retire ==
  LET gone == {k \in DOMAIN merge.retired : StillAt(k, merge.retired[k])}
  IN  /\ merge.pc = "moved"
      /\ idx' = [idx EXCEPT !.keys = Restrict(@, DOMAIN @ \ gone),
                            !.order = FoldSet(LAMBDA k, sl : remove(sl, k), @, gone)]
      /\ merge' = [merge EXCEPT !.pc = "retired"]
      /\ UNCHANGED <<files, active, nextID, seq, total, writer, led, gaps, writes, orders, faults>>

\* Compact: delete the merged files, under fmu.
RemoveFiles ==
  /\ merge.pc = "retired"
  /\ files' = Restrict(files, DOMAIN files \ merge.ids)
  /\ merge' = [merge EXCEPT !.pc = "removed"]
  /\ UNCHANGED <<idx, active, nextID, seq, total, writer, led, gaps, writes, orders, faults>>

LiveKeys == {k \in DOMAIN idx.keys : ~idx.keys[k].tomb}
LiveBytes == SumFunction([k \in LiveKeys |-> idx.keys[k].size])

\* recomputeUsage: recountLocked, under mu.
recountLocked ==
  /\ merge.pc = "removed"
  /\ idx' = [idx EXCEPT !.live = LiveBytes, !.nLive = Cardinality(LiveKeys)]
  /\ merge' = [merge EXCEPT !.pc = "recounted"]
  /\ UNCHANGED <<files, active, nextID, seq, total, writer, led, gaps, writes, orders, faults>>

\* recomputeUsage: add up the sizes of the files.  No lock keeps writers out
\* until the sum is stored; a write may also be between its two counts.
SumFiles ==
  /\ merge.pc = "recounted"
  /\ merge' = [merge EXCEPT !.pc = "summed", !.sum = SumFunction(files), !.raced = writer.pc = "sized"]
  /\ UNCHANGED <<idx, files, active, nextID, seq, total, writer, led, gaps, writes, orders, faults>>

\* A mutation of StoreTotal: the sum is added to what the counter has.
StoreTotalAdds ==
  /\ merge.pc = "summed"
  /\ total' = total + merge.sum
  /\ gaps' = IF merge.raced THEN gaps \cup {"drift"} ELSE gaps \ {"drift"}
  /\ merge' = NoMerge
  /\ UNCHANGED <<idx, files, active, nextID, seq, writer, led, writes, orders, faults>>

\* recomputeUsage: total.Store.
StoreTotal ==
  /\ merge.pc = "summed"
  /\ total' = merge.sum
  /\ gaps' = IF merge.raced THEN gaps \cup {"drift"} ELSE gaps \ {"drift"}
  /\ merge' = NoMerge
  /\ UNCHANGED <<idx, files, active, nextID, seq, writer, led, writes, orders, faults>>

\* Reset, under compactMu and wmu: nothing that changes what it changes runs
\* beside it.
Reset ==
  /\ merge.pc = "idle" /\ writer.pc = "idle" /\ orders < MaxOrders
  /\ idx' = NewIndex /\ files' = [id \in {nextID} |-> 0] /\ active' = nextID
  /\ nextID' = nextID + 1 /\ seq' = 0 /\ total' = 0 /\ led' = FALSE
  /\ gaps' = {} /\ orders' = orders + 1
  /\ UNCHANGED <<writer, merge, writes, faults>>

------------------------------------------------------------------------------

Write == BatchPut \/ Delete \/ ApplyRaw
WriteGoesOn == AddTotal \/ IndexWrite
MergeGoesOn ==
  \/ ListFiles \/ Snapshot \/ Copy \/ Repoint \/ Retire \/ RemoveFiles
  \/ recountLocked \/ SumFiles \/ StoreTotal

Next ==
  \/ Write \/ WriteGoesOn \/ SyncFails
  \/ Tick \/ OrderCompact \/ MergeGoesOn \/ cleanup \/ Reset

Spec == Init /\ [][Next]_vars

\* A write and a merge that have begun go on, and the ticker ticks.
FairSpec == Spec /\ WF_vars(WriteGoesOn) /\ WF_vars(MergeGoesOn) /\ WF_vars(Tick)
------------------------------------------------------------------------------
(* Properties *)

Entry == [seq: Nat, tomb: BOOLEAN, size: Nat, file: Nat]
Entries(f) == DOMAIN f \subseteq Keys /\ \A k \in DOMAIN f : f[k] \in Entry

\* The type of every variable.  The active file is open, and so are the files
\* a merge has noted entries of.
TypeOK ==
  /\ Entries(idx.keys) /\ idx.live \in Nat /\ idx.nLive \in Nat /\ total \in Nat /\ seq \in Nat
  /\ Range(files) \subseteq Nat /\ active \in DOMAIN files /\ nextID > Max(DOMAIN files)
  /\ writer.pc \in {"idle", "sized", "added"} /\ gaps \subseteq {"mergeset", "drift"}
  /\ Entries(merge.items) /\ Entries(merge.retired) /\ merge.raced \in BOOLEAN /\ merge.sum \in Nat

\* The two halves of the index agree: the skip list that indexApplyLocked and a
\* merge maintain beside the map has exactly its keys, counts them, and finds
\* from any start and up to any end what a sorted list of them would.
OrderMatchesKeys ==
  LET ks == DOMAIN idx.keys
      between(a, b) == {k \in ks : k >= a /\ (b = 0 \/ k <= b)}
  IN  /\ WellFormed(idx.order) /\ idx.order.n = Cardinality(ks)
      /\ \A a, b \in Keys \cup {0} :
           scan(idx.order, a, b) = SetToSortSeq(between(a, b), <)

\* The live counters are exact whenever mu is free and no Reset is at work,
\* whatever writes, stale records of a leader, merges and recounts come to pass
\* side by side: indexApplyLocked adjusts them under mu and recountLocked may
\* replace them at any point.
LiveExact == idx.live = LiveBytes /\ idx.nLive = Cardinality(LiveKeys)

\* store.go: total is every byte in the data files.  It is, between writes and
\* but for the end of a merge: the sum recomputeUsage stores also counts the
\* writes that went on beside the merge.  Outside is a write that falls between
\* the sum and its store, until the next merge.
TotalExact ==
  (writer.pc # "sized" /\ merge.pc \notin {"removed", "recounted", "summed"} /\ gaps = {})
    => total = SumFunctionOnSet(files, DOMAIN files \ merge.out)

\* A merge is due by what is really in the files.
Due ==
  LET all == SumFunction(files)
  IN  Cardinality(DOMAIN files) >= 2 /\ Worthwhile(LiveBytes, all - LiveBytes)

\* Space is reclaimed: once clients stop writing, the background loop's merges
\* leave a store in which too little is dead for another to be due.
Reclaims == <>[](gaps # {} \/ ~Due)
==============================================================================
