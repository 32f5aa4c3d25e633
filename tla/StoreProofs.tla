----------------------------- MODULE StoreProofs -----------------------------
(***************************************************************************)
(* The write path, fsync and hint building keep the inductive invariant of *)
(* the engine (EngineInv of module Compaction).                            *)
(***************************************************************************)
EXTENDS Compaction, RecordsProofs

\* The initial store satisfies the inductive invariant.
LEMMA InitInv == Init => EngineInv
<1> SUFFICES ASSUME Init PROVE EngineInv
  OBVIOUS
<1> USE DEF Init, StoreInit, MergeIdle, NoEntries
<1>0. Absent \in Entry
  BY Zenon DEF Absent, Entry
<1>1. DiskTyped
  BY DEF DiskTyped
<1>2. HintsTyped
  BY DEF HintsTyped
<1>3. MemoryTyped
  <2>1. index \in [Keys -> Entry] /\ deleting \in [Keys -> Nat]
    BY <1>0
  <2>2. wrecs \in Seq(Record)
    OBVIOUS
  <2>3. dirty \in BOOLEAN
    BY Zenon
  <2> QED
    BY <2>1, <2>2, <2>3 DEF MemoryTyped
<1>4. HistoryTyped
  BY DEF HistoryTyped
<1>5. MergeTyped
  BY DEF MergeTyped, Phases
<1>6. IdsBelowNext
  BY DEF IdsBelowNext, Absent
<1>7. LogBelowSeq
  BY DEF LogBelowSeq
<1>8. IndexTruthful
  BY DEF IndexTruthful, Absent
<1>9. HintMatchesData /\ HintsInProgress
  BY DEF HintMatchesData, HintsInProgress
<1>10. MergeShape
  BY DEF MergeShape
<1> QED
  BY <1>1, <1>2, <1>3, <1>4, <1>5, <1>6, <1>7, <1>8, <1>9, <1>10 DEF EngineInv, TypeOK

\* Each part of the invariant is kept by a step that leaves its variables alone.
LEMMA Frames ==
  /\ (DiskTyped /\ UNCHANGED <<disk, synced>>) => DiskTyped'
  /\ (HintsTyped /\ UNCHANGED <<hints, hintQ>>) => HintsTyped'
  /\ (HistoryTyped /\ UNCHANGED <<acked, gaps, crashes, merges>>) => HistoryTyped'
  /\ (MergeTyped /\ UNCHANGED compVars) => MergeTyped'
  /\ (IdsBelowNext /\ UNCHANGED <<disk, hints, hintQ, index, active, nextID, cActive, cMerge, cOuts>>)
       => IdsBelowNext'
  /\ (LogBelowSeq /\ UNCHANGED <<disk, wrecs, seq>>) => LogBelowSeq'
  /\ (IndexTruthful /\ UNCHANGED <<disk, index>>) => IndexTruthful'
  /\ (HintMatchesData /\ UNCHANGED <<disk, synced, hints, active>>) => HintMatchesData'
  /\ (HintsInProgress /\ UNCHANGED <<disk, synced, hintQ, active>>) => HintsInProgress'
  /\ (MergeShape /\ UNCHANGED <<disk, hints, hintQ, active, compVars>>) => MergeShape'
<1>1. (DiskTyped /\ UNCHANGED <<disk, synced>>) => DiskTyped'
  BY Zenon DEF DiskTyped
<1>2. (HintsTyped /\ UNCHANGED <<hints, hintQ>>) => HintsTyped'
  BY Zenon DEF HintsTyped
<1>3. (HistoryTyped /\ UNCHANGED <<acked, gaps, crashes, merges>>) => HistoryTyped'
  BY Zenon DEF HistoryTyped
<1>4. (MergeTyped /\ UNCHANGED compVars) => MergeTyped'
  BY Zenon DEF MergeTyped, compVars
<1>5. (IdsBelowNext /\ UNCHANGED <<disk, hints, hintQ, index, active, nextID, cActive, cMerge, cOuts>>)
       => IdsBelowNext'
  BY Zenon DEF IdsBelowNext
<1>6. (LogBelowSeq /\ UNCHANGED <<disk, wrecs, seq>>) => LogBelowSeq'
  BY Zenon DEF LogBelowSeq
<1>7. (IndexTruthful /\ UNCHANGED <<disk, index>>) => IndexTruthful'
  BY Zenon DEF IndexTruthful, RecordAt
<1>8. (HintMatchesData /\ UNCHANGED <<disk, synced, hints, active>>) => HintMatchesData'
  BY Zenon DEF HintMatchesData
<1>9. (HintsInProgress /\ UNCHANGED <<disk, synced, hintQ, active>>) => HintsInProgress'
  BY Zenon DEF HintsInProgress
<1>10. (MergeShape /\ UNCHANGED <<disk, hints, hintQ, active, compVars>>) => MergeShape'
  <2> SUFFICES ASSUME MergeShape, UNCHANGED <<disk, hints, hintQ, active, compVars>>
               PROVE  MergeShape'
    OBVIOUS
  <2>1. UNCHANGED <<cpc, cMerge, cItems, cMoved, cOuts>>
    BY Zenon DEF compVars
  <2>2. \A k \in DOMAIN cItems : RecordAt(k, cItems[k])'
    BY <2>1, Zenon DEF MergeShape, RecordAt
  <2>3. \A k \in DOMAIN cMoved : RecordAt(k, cMoved[k])'
    BY <2>1, Zenon DEF MergeShape, RecordAt
  <2> QED
    BY <2>1, <2>2, <2>3, Zenon DEF MergeShape
<1> QED
  BY <1>1, <1>2, <1>3, <1>4, <1>5, <1>6, <1>7, <1>8, <1>9, <1>10, Zenon

\* A step that removes and rewrites nothing: files are only added or appended to.
DiskGrows ==
  \A id \in DOMAIN disk :
    /\ id \in DOMAIN disk'
    /\ \A i \in DOMAIN disk[id] : i \in DOMAIN disk'[id] /\ disk'[id][i] = disk[id][i]

\* When files only grow, an entry that names a record keeps naming it.
LEMMA GrowKeepsRecords ==
  ASSUME DiskGrows, NEW k, NEW e, RecordAt(k, e)
  PROVE  RecordAt(k, e)'
BY DEF DiskGrows, RecordAt

\* When files only grow and new ones take ids from nextID on, the index stays
\* truthful.
LEMMA GrowKeepsTruth ==
  ASSUME DiskGrows, IndexTruthful, IdsBelowNext, MemoryTyped, index' = index,
         \A id \in DOMAIN disk' : id \in DOMAIN disk \/ id >= nextID
  PROVE  IndexTruthful'
<1> SUFFICES ASSUME NEW k \in Keys, index[k].seq > 0, index[k].file \in DOMAIN disk'
             PROVE  RecordAt(k, index[k])'
  BY DEF IndexTruthful, RecordAt
<1>1. index[k].file \in DOMAIN disk
  BY DEF IdsBelowNext, MemoryTyped, Entry
<1>2. RecordAt(k, index[k])
  BY <1>1 DEF IndexTruthful
<1> QED
  BY <1>2, GrowKeepsRecords

\* Every file anything names is below nextID, and so below what nextID grows to.
LEMMA BelowFresh ==
  ASSUME EngineInv, NEW m \in Nat, nextID <= m
  PROVE  /\ 0 < m /\ active < m /\ cActive < m
         /\ \A k \in Keys : index[k].file < m
         /\ \A id \in Nat : id < nextID => id < m
<1>1. /\ nextID \in Nat /\ active \in Nat /\ cActive \in Nat
      /\ active < nextID /\ cActive < nextID
  BY Zenon DEF EngineInv, TypeOK, MemoryTyped, MergeTyped, IdsBelowNext
<1>2. index \in [Keys -> Entry] /\ \A k \in Keys : index[k].file < nextID
  BY Zenon DEF EngineInv, TypeOK, MemoryTyped, IdsBelowNext
<1>3. \A k \in Keys : index[k].file \in Nat
  BY <1>2 DEF Entry
<1>4. \A id \in Nat : id < nextID => id < m
  BY <1>1
<1>5. 0 < m
  BY <1>1
<1> QED
  BY <1>1, <1>2, <1>3, <1>4, <1>5, Zenon

\* No file anything names has the id nextID.
LEMMA NextIsFresh ==
  ASSUME EngineInv
  PROVE  /\ nextID \in Nat /\ nextID >= nextID /\ nextID <= nextID /\ nextID < nextID + 1
         /\ nextID + 1 \in Nat /\ nextID <= nextID + 1
         /\ nextID \notin cOuts /\ nextID \notin DOMAIN hints /\ nextID \notin DOMAIN hintQ
<1>1. nextID \in Nat
  BY Zenon DEF EngineInv, TypeOK, MemoryTyped
<1>2. /\ nextID >= nextID /\ nextID <= nextID /\ nextID < nextID + 1 /\ ~(nextID < nextID)
      /\ nextID + 1 \in Nat /\ nextID <= nextID + 1
  BY <1>1
<1> QED
  BY <1>1, <1>2, Zenon DEF EngineInv, IdsBelowNext

\* Sealing the active file: it becomes durable, and an empty file with a fresh
\* id takes its place.
LEMMA SealFacts ==
  ASSUME EngineInv, active \in DOMAIN disk, openNewActive
  PROVE  /\ DiskTyped' /\ DiskGrows
         /\ DOMAIN disk' = DOMAIN disk \cup {nextID} /\ nextID \notin DOMAIN disk
         /\ disk'[nextID] = <<>>
         /\ \A id \in DOMAIN disk : disk'[id] = disk[id]
         /\ \A id \in DOMAIN disk :
              synced'[id] = IF id = active THEN Len(disk[id]) ELSE synced[id]
         /\ nextID' = nextID + 1 /\ nextID' \in Nat /\ active' = nextID /\ active' # active
<1> USE DEF EngineInv, TypeOK
<1>1. nextID \notin DOMAIN disk /\ nextID \in Nat /\ active < nextID /\ active \in Nat
  BY DEF IdsBelowNext, MemoryTyped, DiskTyped
<1>2. disk' = With(disk, nextID, <<>>) /\ nextID' = nextID + 1 /\ active' = nextID
  BY DEF openNewActive
<1>3. /\ DOMAIN disk' = DOMAIN disk \cup {nextID} /\ disk'[nextID] = <<>>
      /\ \A id \in DOMAIN disk : disk'[id] = disk[id]
  BY <1>1, <1>2 DEF With
<1>4. /\ DOMAIN synced' = DOMAIN disk \cup {nextID} /\ synced'[nextID] = 0
      /\ \A id \in DOMAIN disk :
           synced'[id] = IF id = active THEN Len(disk[id]) ELSE synced[id]
  BY <1>1 DEF openNewActive, With, DiskTyped
<1>5. DiskTyped'
  <2>1. DOMAIN disk' \subseteq Nat /\ DOMAIN synced' = DOMAIN disk'
    BY <1>1, <1>3, <1>4 DEF DiskTyped
  <2>2. ASSUME NEW id \in DOMAIN disk'
        PROVE  disk'[id] \in Seq(Record) /\ synced'[id] \in 0..Len(disk'[id])
    <3>1. CASE id = nextID
      BY <3>1, <1>3, <1>4
    <3>2. CASE id \in DOMAIN disk
      BY <3>2, <1>3, <1>4 DEF DiskTyped
    <3> QED
      BY <3>1, <3>2, <1>3
  <2> QED
    BY <2>1, <2>2 DEF DiskTyped
<1>6. DiskGrows
  BY <1>3 DEF DiskGrows
<1> QED
  BY <1>1, <1>2, <1>3, <1>4, <1>5, <1>6

\* A write that takes wmu, rotating the active file if it must, keeps the
\* invariant.
LEMMA BeginWriteInv ==
  ASSUME EngineInv, NEW recs \in Seq(Record), BeginWrite(recs),
         seq' \in Nat, seq' >= seq, \A i \in DOMAIN recs : recs[i].seq <= seq',
         deleting' \in [Keys -> Nat], UNCHANGED <<compVars, merges>>
  PROVE  EngineInv'
<1> USE DEF EngineInv, TypeOK
<1>1. /\ UNCHANGED <<hints, manifest, index, mergeSeq, acked, gaps, crashes>>
      /\ wrecs' = recs /\ active \in DOMAIN disk /\ maybeRotateLocked(Len(recs))
  BY DEF BeginWrite, histVars
<1>2. HistoryTyped' /\ MergeTyped'
  BY <1>1, Frames
<1>3. CASE MustRotate(Len(recs))
  <2>1. SealActive /\ hintQ' = With(hintQ, active, disk[active])
    BY <1>1, <1>3 DEF maybeRotateLocked
  <2> USE <2>1, <1>1
  <2>2. /\ DiskTyped' /\ DiskGrows
        /\ DOMAIN disk' = DOMAIN disk \cup {nextID} /\ nextID \notin DOMAIN disk
        /\ disk'[nextID] = <<>>
        /\ \A id \in DOMAIN disk : disk'[id] = disk[id]
        /\ \A id \in DOMAIN disk :
             synced'[id] = IF id = active THEN Len(disk[id]) ELSE synced[id]
        /\ nextID' = nextID + 1 /\ nextID' \in Nat /\ active' = nextID /\ active' # active
        /\ dirty' = FALSE
    BY SealFacts DEF SealActive
  <2>3. /\ DOMAIN hintQ' = DOMAIN hintQ \cup {active}
        /\ hintQ'[active] = disk[active]
        /\ \A id \in DOMAIN hintQ : id # active => hintQ'[id] = hintQ[id]
    BY DEF With
  <2>4. HintsTyped'
    BY <2>3 DEF HintsTyped, DiskTyped
  <2>5. MemoryTyped'
    BY <2>2, Zenon DEF MemoryTyped
  <2>6. IdsBelowNext'
    <3>1. active' < nextID' /\ cActive' < nextID' /\ nextID < nextID'
      BY <2>2, BelowFresh, NextIsFresh, Zenon DEF compVars
    <3>2. \A id \in DOMAIN disk' \cup DOMAIN hints' \cup DOMAIN hintQ' \cup cMerge' \cup cOuts' :
            id \in Nat /\ (id < nextID \/ id = nextID)
      BY <2>2, <2>3, Zenon DEF IdsBelowNext, compVars, MemoryTyped, MergeTyped, DiskTyped, HintsTyped
    <3>3. \A k \in Keys : index'[k].file < nextID'
      BY <2>2, BelowFresh, NextIsFresh, Zenon
    <3> QED
      BY <3>1, <3>2, <3>3, <2>2, BelowFresh, NextIsFresh, Zenon DEF IdsBelowNext
  <2>7. LogBelowSeq'
    <3>1. ASSUME NEW id \in DOMAIN disk', NEW i \in DOMAIN disk'[id]
          PROVE  disk'[id][i].seq <= seq'
      <4>1. id \in DOMAIN disk /\ disk'[id] = disk[id]
        BY <2>2
      <4>2. disk[id][i].seq \in Nat /\ disk[id][i].seq <= seq /\ seq \in Nat
        BY <4>1, RecordAtPosition DEF DiskTyped, LogBelowSeq, MemoryTyped
      <4> QED
        BY <4>1, <4>2
    <3> QED
      BY <3>1 DEF LogBelowSeq
  <2>8. IndexTruthful'
    BY <2>2, GrowKeepsTruth DEF MemoryTyped
  <2>9. HintMatchesData'
    BY <2>2 DEF HintMatchesData, IdsBelowNext, HintsTyped, MemoryTyped
  <2>10. HintsInProgress'
    <3> SUFFICES ASSUME NEW id \in DOMAIN hintQ' \cap DOMAIN disk'
                 PROVE  hintQ'[id] = disk'[id] /\ synced'[id] = Len(disk'[id]) /\ id # active'
      BY DEF HintsInProgress
    <3>1. id < nextID /\ id \in Nat /\ nextID \in Nat
      BY <2>3 DEF IdsBelowNext, HintsTyped, MemoryTyped
    <3>2. id \in DOMAIN disk /\ disk'[id] = disk[id] /\ id # active'
      BY <3>1, <2>2
    <3> QED
      BY <3>2, <2>2, <2>3 DEF HintsInProgress
  <2>11. MergeShape'
    <3>1. active' \notin cOuts
      BY <2>2, NextIsFresh, Zenon
    <3>2. DOMAIN disk \subseteq DOMAIN disk'
      BY <2>2, Zenon
    <3>3. UNCHANGED <<cpc, cMerge, cOuts, cItems, cMoved>>
      BY Zenon DEF compVars
    <3>4. \A k \in DOMAIN cItems : RecordAt(k, cItems[k])'
      BY <2>2, <3>3, GrowKeepsRecords, Zenon DEF MergeShape
    <3>5. \A k \in DOMAIN cMoved : RecordAt(k, cMoved[k])'
      BY <2>2, <3>3, GrowKeepsRecords, Zenon DEF MergeShape
    <3>6. hints' = hints /\ cOuts \cap DOMAIN hintQ' = {}
      BY <2>3, Zenon DEF MergeShape, SealActive
    <3>7. cMerge \subseteq DOMAIN disk => cMerge \subseteq DOMAIN disk'
      BY <3>2, Zenon
    <3>8. cOuts \subseteq DOMAIN disk => cOuts \subseteq DOMAIN disk'
      BY <3>2, Zenon
    <3>9. cpc = "copy" => cOuts \cap (DOMAIN hints' \cup DOMAIN hintQ') = {}
      BY <3>6, Zenon DEF MergeShape
    <3> QED
      BY <3>1, <3>3, <3>4, <3>5, <3>6, <3>7, <3>8, <3>9, ZenonT(30) DEF MergeShape
  <2> QED
    BY <1>2, <2>2, <2>4, <2>5, <2>6, <2>7, <2>8, <2>9, <2>10, <2>11
<1>4. CASE ~MustRotate(Len(recs))
  <2>1. UNCHANGED <<disk, synced, active, nextID, dirty, hintQ>>
    BY <1>1, <1>4, Zenon DEF maybeRotateLocked
  <2>2. LogBelowSeq'
    <3>1. ASSUME NEW id \in DOMAIN disk, NEW i \in DOMAIN disk[id]
          PROVE  disk[id][i].seq <= seq'
      <4>1. disk[id][i].seq \in Nat /\ disk[id][i].seq <= seq /\ seq \in Nat
        BY RecordAtPosition DEF DiskTyped, LogBelowSeq, MemoryTyped
      <4> QED
        BY <4>1
    <3> QED
      BY <1>1, <2>1, <3>1, Zenon DEF LogBelowSeq
  <2>3. MemoryTyped'
    BY <1>1, <2>1, Zenon DEF MemoryTyped
  <2>4. UNCHANGED <<cActive, cMerge, cOuts>>
    BY DEF compVars
  <2> QED
    BY <1>1, <1>2, <2>1, <2>2, <2>3, <2>4, Frames, Zenon
<1> QED
  BY <1>3, <1>4

\* What a client hands to appendLocked.
Item == [key: Keys, tomb: BOOLEAN, part: {"single", "member", "last"}]

\* Numbering a client's records and taking wmu keeps the invariant.
LEMMA AppendInv ==
  ASSUME EngineInv, NEW items \in Seq(Item), appendLocked(items),
         deleting' \in [Keys -> Nat], UNCHANGED <<compVars, merges>>
  PROVE  EngineInv'
<1> DEFINE recs == [i \in DOMAIN items |->
       [key |-> items[i].key, seq |-> seq + i,
        tomb |-> items[i].tomb, part |-> items[i].part]]
<1>1. seq \in Nat /\ Len(items) \in Nat /\ DOMAIN items = 1..Len(items)
  BY DEF EngineInv, TypeOK, MemoryTyped
<1>2. seq' = seq + Len(items) /\ BeginWrite(recs)
  BY DEF appendLocked
<1>3. recs \in Seq(Record)
  <2>1. \A i \in 1..Len(items) : recs[i] \in Record
    <3> TAKE i \in 1..Len(items)
    <3>1. items[i] \in Item
      OBVIOUS
    <3>2. /\ items[i].key \in Keys /\ items[i].tomb \in BOOLEAN
          /\ items[i].part \in {"single", "member", "last"}
      BY <3>1 DEF Item
    <3>3. seq + i \in Nat \ {0}
      BY <1>1
    <3>4. [key |-> items[i].key, seq |-> seq + i, tomb |-> items[i].tomb,
           part |-> items[i].part] \in Record
      BY <3>2, <3>3, Zenon DEF Record
    <3> QED
      BY <3>4, <1>1
  <2> QED
    BY <2>1, <1>1
<1>4. \A i \in DOMAIN recs : recs[i].seq <= seq'
  BY <1>1, <1>2
<1>5. seq' \in Nat /\ seq' >= seq
  BY <1>1, <1>2
<1> HIDE DEF recs
<1> QED
  BY <1>2, <1>3, <1>4, <1>5, BeginWriteInv

\* A write by Put, BatchPut or Delete keeps the invariant.
LEMMA ClientWriteInv ==
  ASSUME EngineInv, UNCHANGED <<compVars, merges>>,
         \/ \E k \in Keys : Put(k) \/ DeleteWrite(k)
         \/ \E ks \in Batches : BatchPut(ks)
  PROVE  EngineInv'
<1>0. deleting \in [Keys -> Nat]
  BY DEF EngineInv, TypeOK, MemoryTyped
<1>1. ASSUME NEW k \in Keys, Put(k) PROVE EngineInv'
  <2>1. <<[key |-> k, tomb |-> FALSE, part |-> "single"]>> \in Seq(Item)
    <3>1. [key |-> k, tomb |-> FALSE, part |-> "single"] \in Item
      BY Zenon DEF Item
    <3> QED
      BY <3>1
  <2>2. appendLocked(<<[key |-> k, tomb |-> FALSE, part |-> "single"]>>) /\ deleting' = deleting
    BY <1>1 DEF Put
  <2> QED
    BY <2>1, <2>2, <1>0, AppendInv, Zenon
<1>2. ASSUME NEW k \in Keys, DeleteWrite(k) PROVE EngineInv'
  <2>1. <<[key |-> k, tomb |-> TRUE, part |-> "single"]>> \in Seq(Item)
    <3>1. [key |-> k, tomb |-> TRUE, part |-> "single"] \in Item
      BY Zenon DEF Item
    <3> QED
      BY <3>1
  <2>2. appendLocked(<<[key |-> k, tomb |-> TRUE, part |-> "single"]>>)
    BY <1>2 DEF DeleteWrite
  <2>3. deleting' \in [Keys -> Nat]
    BY <1>0, <1>2 DEF DeleteWrite
  <2> QED
    BY <2>1, <2>2, <2>3, AppendInv, Zenon
<1>3. ASSUME NEW ks \in Batches, BatchPut(ks) PROVE EngineInv'
  <2> DEFINE items == [i \in DOMAIN ks |->
       [key |-> ks[i], tomb |-> FALSE,
        part |-> IF i = Len(ks) THEN "last" ELSE "member"]]
  <2>1. PICK n \in 1..MaxBatch : ks \in [1..n -> Keys]
    BY DEF Batches
  <2>2. n \in Nat /\ ks \in Seq(Keys) /\ DOMAIN ks = 1..n
    BY <2>1, StoreAssumption
  <2>3. \A i \in 1..n : items[i] \in Item
    <3> TAKE i \in 1..n
    <3>1. ks[i] \in Keys /\ (IF i = Len(ks) THEN "last" ELSE "member") \in {"single", "member", "last"}
      BY <2>1
    <3>2. [key |-> ks[i], tomb |-> FALSE, part |-> IF i = Len(ks) THEN "last" ELSE "member"] \in Item
      BY <3>1, Zenon DEF Item
    <3> QED
      BY <3>2, <2>2
  <2>4. items \in Seq(Item)
    BY <2>2, <2>3
  <2>5. appendLocked(items) /\ deleting' = deleting
    BY <1>3 DEF BatchPut
  <2> HIDE DEF items
  <2> QED
    BY <2>4, <2>5, <1>0, AppendInv
<1> QED
  BY <1>1, <1>2, <1>3

\* Steps that leave files, hints, index and the merge alone keep the invariant.
LEMMA QuietInv ==
  ASSUME EngineInv, MemoryTyped', HistoryTyped',
         UNCHANGED <<disk, synced, hints, hintQ, index, active, nextID, seq, compVars>>,
         wrecs' \in {wrecs, <<>>}
  PROVE  EngineInv'
<1> USE DEF EngineInv, TypeOK
<1>1. UNCHANGED <<cActive, cMerge, cOuts>>
  BY DEF compVars
<1>2. LogBelowSeq'
  BY DEF LogBelowSeq
<1> QED
  BY <1>1, <1>2, Frames

\* A rotation that fails once the new file is the active one keeps the
\* invariant.
LEMMA RotateFailsInv ==
  ASSUME EngineInv, UNCHANGED <<compVars, merges>>, NEW n \in Nat, RotateFails(n)
  PROVE  EngineInv'
<1> USE DEF EngineInv, TypeOK
<1>1. /\ UNCHANGED <<hints, manifest, index, mergeSeq, dirty, hintQ, wrecs, acked, gaps, crashes>>
      /\ UNCHANGED <<cpc, cActive, cMerge, cOuts, cItems, cMoved>>
      /\ active \in DOMAIN disk /\ openNewActive /\ seq' = seq + n
  BY Zenon DEF RotateFails, histVars, compVars
<1>2. /\ DiskTyped' /\ DiskGrows
      /\ DOMAIN disk' = DOMAIN disk \cup {nextID} /\ nextID \notin DOMAIN disk
      /\ disk'[nextID] = <<>>
      /\ \A id \in DOMAIN disk : disk'[id] = disk[id]
      /\ \A id \in DOMAIN disk :
           synced'[id] = IF id = active THEN Len(disk[id]) ELSE synced[id]
      /\ nextID' = nextID + 1 /\ nextID' \in Nat /\ active' = nextID /\ active' # active
  BY <1>1, SealFacts
<1>3. HistoryTyped' /\ MergeTyped' /\ HintsTyped'
  BY <1>1, Frames
<1>4. seq \in Nat /\ seq' \in Nat /\ seq' >= seq /\ nextID \in Nat
  BY <1>1 DEF MemoryTyped
<1>5. deleting' \in [Keys -> Nat]
  BY DEF RotateFails, Refused, MemoryTyped
<1>6. MemoryTyped'
  BY <1>1, <1>2, <1>4, <1>5, Zenon DEF MemoryTyped
<1>7. IdsBelowNext'
  <2>1. \A id \in DOMAIN disk' \cup DOMAIN hints' \cup DOMAIN hintQ' \cup cMerge' \cup cOuts' :
          id \in Nat /\ (id < nextID \/ id = nextID)
    BY <1>1, <1>2, <1>4, Zenon DEF IdsBelowNext, MergeTyped, DiskTyped, HintsTyped
  <2>2. \A k \in Keys : index'[k].file < nextID'
    BY <1>1, <1>2, BelowFresh, NextIsFresh, Zenon
  <2>3. cActive' < nextID' /\ active' < nextID'
    BY <1>1, <1>2, BelowFresh, NextIsFresh, Zenon
  <2> QED
    BY <1>2, <2>1, <2>2, <2>3, BelowFresh, NextIsFresh, Zenon DEF IdsBelowNext
<1>8. LogBelowSeq'
  <2>1. ASSUME NEW id \in DOMAIN disk', NEW i \in DOMAIN disk'[id]
        PROVE  disk'[id][i].seq <= seq'
    <3>1. id \in DOMAIN disk /\ disk'[id] = disk[id]
      BY <1>2
    <3>2. disk[id][i].seq \in Nat /\ disk[id][i].seq <= seq
      BY <3>1, RecordAtPosition DEF DiskTyped, LogBelowSeq
    <3> QED
      BY <1>4, <3>1, <3>2
  <2>2. ASSUME NEW i \in DOMAIN wrecs PROVE wrecs[i].seq <= seq'
    BY <1>4, RecordAtPosition DEF MemoryTyped, LogBelowSeq
  <2> QED
    BY <1>1, <2>1, <2>2, Zenon DEF LogBelowSeq
<1>9. IndexTruthful'
  <2>1. \A id \in DOMAIN disk' : id \in DOMAIN disk \/ id >= nextID
    BY <1>2, NextIsFresh, Zenon
  <2> QED
    BY <1>1, <1>2, <2>1, GrowKeepsTruth, Zenon
<1>10. HintMatchesData' /\ HintsInProgress'
  <2>1. nextID \notin DOMAIN hints /\ nextID \notin DOMAIN hintQ
    BY NextIsFresh, Zenon
  <2> QED
    BY <1>1, <1>2, <2>1, Zenon DEF HintMatchesData, HintsInProgress
<1>11. MergeShape'
  <2>1. active' \notin cOuts
    BY <1>2, NextIsFresh, Zenon
  <2>2. DOMAIN disk \subseteq DOMAIN disk'
    BY <1>2, Zenon
  <2>3. \A k \in DOMAIN cItems : RecordAt(k, cItems[k])'
    BY <1>1, <1>2, GrowKeepsRecords, Zenon DEF MergeShape
  <2>4. \A k \in DOMAIN cMoved : RecordAt(k, cMoved[k])'
    BY <1>1, <1>2, GrowKeepsRecords, Zenon DEF MergeShape
  <2> QED
    BY <1>1, <2>1, <2>2, <2>3, <2>4, Zenon DEF MergeShape
<1> QED
  BY <1>2, <1>3, <1>6, <1>7, <1>8, <1>9, <1>10, <1>11

\* DeleteCheck, FailWrite and a refused write keep the invariant.
LEMMA NoWriteInv ==
  ASSUME EngineInv, UNCHANGED <<compVars, merges>>,
         \/ \E k \in Keys : DeleteCheck(k)
         \/ FailWrite
         \/ \E n \in 1..MaxBatch : RefuseWrite(n)
  PROVE  EngineInv'
<1> USE DEF EngineInv, TypeOK, diskVars, histVars
<1>0. HistoryTyped'
  <2>1. UNCHANGED <<acked, gaps, crashes, merges>>
    BY DEF DeleteCheck, FailWrite, RefuseWrite
  <2> QED
    BY <2>1, Frames
<1>1. ASSUME NEW k \in Keys, DeleteCheck(k) PROVE EngineInv'
  <2>1. MemoryTyped'
    BY <1>1, SMTT(30) DEF DeleteCheck, MemoryTyped
  <2> QED
    BY <1>0, <1>1, <2>1, QuietInv DEF DeleteCheck
<1>2. ASSUME FailWrite PROVE EngineInv'
  <2>1. MemoryTyped'
    BY <1>2 DEF FailWrite, MemoryTyped
  <2> QED
    BY <1>0, <1>2, <2>1, QuietInv, Zenon DEF FailWrite
<1>3. ASSUME NEW n \in 1..MaxBatch, RefuseWrite(n) PROVE EngineInv'
  <2>1. n \in Nat /\ seq' = seq + n /\ seq \in Nat
    BY <1>3, StoreAssumption, SMTT(30) DEF RefuseWrite, MemoryTyped
  <2>2. UNCHANGED <<disk, synced, hints, manifest, index, nextID, active, mergeSeq, dirty, hintQ, wrecs>>
    BY <1>3 DEF RefuseWrite
  <2>3. deleting' \in [Keys -> Nat]
    BY <1>3 DEF RefuseWrite, Refused, MemoryTyped
  <2>4. MemoryTyped'
    BY <2>1, <2>2, <2>3 DEF MemoryTyped
  <2>5. LogBelowSeq'
    <3>1. ASSUME NEW id \in DOMAIN disk, NEW i \in DOMAIN disk[id]
          PROVE  disk[id][i].seq <= seq'
      <4>1. disk[id] \in Seq(Record) /\ disk[id][i].seq <= seq
        BY Zenon DEF DiskTyped, LogBelowSeq
      <4>2. disk[id][i].seq \in Nat
        BY <4>1, RecordAtPosition, Zenon
      <4> QED
        BY <2>1, <4>1, <4>2
    <3>2. ASSUME NEW i \in DOMAIN wrecs PROVE wrecs[i].seq <= seq'
      BY <2>1, RecordAtPosition DEF MemoryTyped, LogBelowSeq
    <3> QED
      BY <2>2, <3>1, <3>2, Zenon DEF LogBelowSeq
  <2>6. UNCHANGED <<cActive, cMerge, cOuts>>
    BY DEF compVars
  <2> QED
    BY <1>0, <2>2, <2>4, <2>5, <2>6, Frames
<1> QED
  BY <1>1, <1>2, <1>3, Zenon
\* Appending the write in flight to the active file disturbs nothing else.
LEMMA GrowActive ==
  ASSUME EngineInv, active \in DOMAIN disk,
         disk' = [disk EXCEPT ![active] = @ \o wrecs],
         DOMAIN synced' = DOMAIN disk,
         \A id \in DOMAIN disk : id # active => synced'[id] = synced[id],
         synced'[active] \in 0..Len(disk'[active]),
         seq' = seq, wrecs' = <<>>,
         UNCHANGED <<hints, nextID, active, hintQ, compVars>>
  PROVE  /\ DiskTyped' /\ HintsTyped' /\ MergeTyped' /\ LogBelowSeq' /\ DiskGrows
         /\ HintMatchesData' /\ HintsInProgress' /\ MergeShape'
         /\ DOMAIN disk' = DOMAIN disk
         /\ \A i \in DOMAIN wrecs :
              /\ Len(disk[active]) + i \in DOMAIN disk'[active]
              /\ disk'[active][Len(disk[active]) + i] = wrecs[i]
<1> USE DEF EngineInv, TypeOK
<1>1. disk[active] \in Seq(Record) /\ wrecs \in Seq(Record)
  BY Zenon DEF DiskTyped, MemoryTyped
<1>2. /\ DOMAIN disk' = DOMAIN disk /\ disk'[active] = disk[active] \o wrecs
      /\ \A id \in DOMAIN disk : id # active => disk'[id] = disk[id]
  OBVIOUS
<1>3. /\ disk'[active] \in Seq(Record)
      /\ Len(disk'[active]) = Len(disk[active]) + Len(wrecs)
      /\ \A i \in 1..Len(disk[active]) : disk'[active][i] = disk[active][i]
      /\ \A i \in 1..Len(wrecs) : disk'[active][Len(disk[active]) + i] = wrecs[i]
  BY <1>1, <1>2, SMTT(30)
<1>4. DiskGrows
  <2> SUFFICES ASSUME NEW id \in DOMAIN disk, NEW i \in DOMAIN disk[id]
               PROVE  i \in DOMAIN disk'[id] /\ disk'[id][i] = disk[id][i]
    BY <1>2, Zenon DEF DiskGrows
  <2>1. CASE id = active
    BY <2>1, <1>1, <1>3
  <2>2. CASE id # active
    BY <2>2, <1>2
  <2> QED
    BY <2>1, <2>2
<1>5. DiskTyped'
  <2>1. DOMAIN disk' \subseteq Nat /\ DOMAIN synced' = DOMAIN disk'
    BY <1>2 DEF DiskTyped
  <2>2. ASSUME NEW id \in DOMAIN disk'
        PROVE  disk'[id] \in Seq(Record) /\ synced'[id] \in 0..Len(disk'[id])
    <3>1. CASE id = active
      BY <3>1, <1>3
    <3>2. CASE id # active
      BY <3>2, <1>2 DEF DiskTyped
    <3> QED
      BY <3>1, <3>2
  <2> QED
    BY <2>1, <2>2, Zenon DEF DiskTyped
<1>6. LogBelowSeq'
  <2> SUFFICES ASSUME NEW id \in DOMAIN disk', NEW i \in DOMAIN disk'[id]
               PROVE  disk'[id][i].seq <= seq
    BY SMTT(30) DEF LogBelowSeq
  <2>1. CASE id # active
    BY <2>1, <1>2 DEF LogBelowSeq
  <2>2. CASE id = active /\ i <= Len(disk[active])
    <3>1. i \in DOMAIN disk[active] /\ disk'[active][i] = disk[active][i]
      BY <2>2, <1>1, <1>3
    <3> QED
      BY <3>1, <2>2 DEF LogBelowSeq
  <2>3. CASE id = active /\ ~(i <= Len(disk[active]))
    <3>1. i \in Nat /\ i <= Len(disk[active]) + Len(wrecs) /\ Len(disk[active]) \in Nat /\ Len(wrecs) \in Nat
      BY <2>3, <1>1, <1>3
    <3>2. i - Len(disk[active]) \in 1..Len(wrecs)
      BY <2>3, <3>1
    <3>3. disk'[active][Len(disk[active]) + (i - Len(disk[active]))] = wrecs[i - Len(disk[active])]
      BY <3>2, <1>3, Zenon
    <3>4. disk'[active][i] = wrecs[i - Len(disk[active])] /\ i - Len(disk[active]) \in DOMAIN wrecs
      BY <3>1, <3>2, <3>3, <1>1, SMTT(30)
    <3> QED
      BY <3>4, <2>3 DEF LogBelowSeq
  <2> QED
    BY <2>1, <2>2, <2>3, Zenon
<1>7. HintMatchesData'
  BY <1>2, Zenon DEF HintMatchesData
<1>8. HintsInProgress'
  BY <1>2 DEF HintsInProgress
<1>9. MergeShape'
  BY <1>2, <1>4, GrowKeepsRecords, Zenon DEF MergeShape, compVars
<1>10. HintsTyped' /\ MergeTyped'
  BY Frames, Zenon
<1>11. \A i \in DOMAIN wrecs :
         /\ Len(disk[active]) + i \in DOMAIN disk'[active]
         /\ disk'[active][Len(disk[active]) + i] = wrecs[i]
  BY <1>1, <1>3
<1> QED
  BY <1>2, <1>4, <1>5, <1>6, <1>7, <1>8, <1>9, <1>10, <1>11

\* indexApplyLocked leaves each key its old entry or one of the write's.
LEMMA IndexWriteResult ==
  ASSUME MemoryTyped, LogBelowSeq, NEW base \in Nat, IndexWrite(base)
  PROVE  /\ index' \in [Keys -> Entry]
         /\ \A k \in Keys :
              \/ index'[k] = index[k]
              \/ \E i \in DOMAIN wrecs :
                   wrecs[i].key = k /\ index'[k] = EntryOf(wrecs[i], active, base + i)
<1>1. ASSUME NEW k \in Keys
      PROVE  index'[k] \in {index[k]} \cup WrittenEntries(k, base)
             /\ WrittenEntries(k, base) \subseteq Entry
  <2>1. \A i \in DOMAIN wrecs :
          /\ EntryOf(wrecs[i], active, base + i) \in Entry
          /\ EntryOf(wrecs[i], active, base + i).seq <= seq
    <3> TAKE i \in DOMAIN wrecs
    <3>1. wrecs[i].seq \in Nat /\ wrecs[i].tomb \in BOOLEAN /\ i \in Nat /\ active \in Nat
      BY RecordAtPosition DEF MemoryTyped
    <3>2. base + i \in Nat
      BY <3>1
    <3>3. EntryOf(wrecs[i], active, base + i) \in Entry
      BY <3>1, <3>2, Zenon DEF EntryOf, Entry
    <3>4. EntryOf(wrecs[i], active, base + i).seq = wrecs[i].seq
      BY DEF EntryOf
    <3> QED
      BY <3>3, <3>4 DEF LogBelowSeq
  <2>2. WrittenEntries(k, base) \in SUBSET Entry /\ \A e \in WrittenEntries(k, base) : e.seq <= seq
    BY <2>1 DEF WrittenEntries
  <2>3. index[k] \in Entry /\ seq \in Nat
    BY DEF MemoryTyped
  <2>4. ApplyEntries(index[k], WrittenEntries(k, base)) \in {index[k]} \cup WrittenEntries(k, base)
    BY <2>2, <2>3, ApplyEntriesResult
  <2> QED
    BY <2>2, <2>4, Zenon DEF IndexWrite
<1>2. index' \in [Keys -> Entry]
  <2>1. \A k \in Keys : index'[k] \in Entry
    BY <1>1 DEF MemoryTyped
  <2>2. index' = [k \in Keys |-> index'[k]]
    BY DEF IndexWrite
  <2> QED
    BY <2>1, <2>2, Zenon
<1> QED
  BY <1>1, <1>2, Zenon DEF WrittenEntries

\* What Acknowledge records is a number and a kind per key.
LEMMA AcknowledgeTyped ==
  ASSUME MemoryTyped, HistoryTyped, Acknowledge
  PROVE  acked' \in [Keys -> [seq: Nat, tomb: BOOLEAN]]
<1> DEFINE mine(k) == {i \in DOMAIN wrecs : wrecs[i].key = k}
<1> DEFINE val(k) == IF mine(k) = {} THEN acked[k]
                     ELSE [seq |-> wrecs[Max(mine(k))].seq, tomb |-> wrecs[Max(mine(k))].tomb]
<1>1. acked' = [k \in Keys |-> val(k)]
  BY Zenon DEF Acknowledge
<1>2. ASSUME NEW k \in Keys PROVE val(k) \in [seq: Nat, tomb: BOOLEAN]
  <2>1. CASE mine(k) = {}
    BY <2>1 DEF HistoryTyped
  <2>2. CASE mine(k) # {}
    <3>0. Len(wrecs) \in Nat /\ DOMAIN wrecs = 1..Len(wrecs) /\ wrecs \in Seq(Record)
      BY DEF MemoryTyped
    <3>1. mine(k) \in SUBSET Nat /\ \A x \in mine(k) : x <= Len(wrecs)
      BY <3>0
    <3>2. Max(mine(k)) \in mine(k)
      <4> HIDE DEF mine
      <4> QED
        BY <2>2, <3>0, <3>1, MaxOfBounded, Zenon
    <3>3. Max(mine(k)) \in DOMAIN wrecs
      BY <3>2
    <3> HIDE DEF mine
    <3>4. wrecs[Max(mine(k))].seq \in Nat /\ wrecs[Max(mine(k))].tomb \in BOOLEAN
      BY <3>0, <3>3, RecordAtPosition
    <3> QED
      BY <2>2, <3>4, Zenon
  <2> QED
    BY <2>1, <2>2, Zenon
<1> HIDE DEF val
<1> QED
  BY <1>1, <1>2, Zenon

\* A write that completes, with or without its fsync, keeps the invariant.
LEMMA FinishWriteInv ==
  ASSUME EngineInv, FinishWrite, UNCHANGED <<compVars, merges>>
  PROVE  EngineInv'
<1> USE DEF EngineInv, TypeOK
<1>1. /\ active \in DOMAIN disk /\ disk' = [disk EXCEPT ![active] = @ \o wrecs] /\ wrecs' = <<>>
      /\ UNCHANGED <<hints, manifest, nextID, active, mergeSeq, hintQ, deleting, gaps, crashes>>
      /\ IndexWrite(Len(disk[active])) /\ Acknowledge
  BY Zenon DEF FinishWrite
<1>2. seq' = seq
  <2> DEFINE S == {seq} \cup {wrecs[i].seq : i \in DOMAIN wrecs}
  <2>1. S \in SUBSET Nat /\ S # {} /\ seq \in Nat /\ \A x \in S : x <= seq
    BY RecordAtPosition, SMTT(30) DEF MemoryTyped, LogBelowSeq
  <2>2. seq \in S /\ seq' = Max(S)
    BY DEF FinishWrite
  <2> HIDE DEF S
  <2>3. Max(S) \in S /\ \A x \in S : x <= Max(S)
    BY <2>1, MaxOfBounded, Zenon
  <2>4. Max(S) \in Nat /\ Max(S) <= seq /\ seq <= Max(S)
    BY <2>1, <2>2, <2>3, Zenon
  <2> QED
    BY <2>1, <2>2, <2>4
<1>3. Len(disk[active]) \in Nat /\ Len(disk'[active]) \in Nat /\ Len(disk'[active]) >= Len(disk[active])
  BY <1>1 DEF DiskTyped, MemoryTyped
<1>4. /\ DOMAIN synced' = DOMAIN disk
      /\ \A id \in DOMAIN disk : id # active => synced'[id] = synced[id]
      /\ synced'[active] \in 0..Len(disk'[active])
      /\ dirty' \in BOOLEAN
  <2>1. CASE SyncMode = "always"
    <3>1. synced' = [synced EXCEPT ![active] = Len(disk'[active])] /\ dirty' = FALSE
      BY <2>1 DEF FinishWrite
    <3>2. DOMAIN synced = DOMAIN disk
      BY DEF DiskTyped
    <3>3. synced'[active] = Len(disk'[active]) /\ dirty' \in BOOLEAN
      BY <3>1, <3>2, <1>1, Zenon
    <3>4. DOMAIN synced' = DOMAIN disk /\ \A id \in DOMAIN disk : id # active => synced'[id] = synced[id]
      BY <3>1, <3>2
    <3>5. Len(disk'[active]) \in 0..Len(disk'[active])
      BY <1>3
    <3> QED
      BY <3>3, <3>4, <3>5
  <2>2. CASE SyncMode # "always"
    BY <2>2, <1>1, <1>3 DEF FinishWrite, DiskTyped
  <2> QED
    BY <2>1, <2>2
<1>5. /\ DiskTyped' /\ HintsTyped' /\ MergeTyped' /\ LogBelowSeq' /\ DiskGrows
      /\ HintMatchesData' /\ HintsInProgress' /\ MergeShape'
      /\ DOMAIN disk' = DOMAIN disk
      /\ \A i \in DOMAIN wrecs :
           /\ Len(disk[active]) + i \in DOMAIN disk'[active]
           /\ disk'[active][Len(disk[active]) + i] = wrecs[i]
  BY <1>1, <1>2, <1>4, GrowActive, Zenon
<1>6. /\ index' \in [Keys -> Entry]
      /\ \A k \in Keys :
           \/ index'[k] = index[k]
           \/ \E i \in DOMAIN wrecs :
                wrecs[i].key = k /\ index'[k] = EntryOf(wrecs[i], active, Len(disk[active]) + i)
  BY <1>1, <1>3, IndexWriteResult
<1>7. MemoryTyped'
  BY <1>1, <1>2, <1>4, <1>6 DEF MemoryTyped
<1>8. HistoryTyped'
  BY <1>1, AcknowledgeTyped DEF HistoryTyped
<1>9. IdsBelowNext'
  <2>1. UNCHANGED <<cActive, cMerge, cOuts>>
    BY DEF compVars
  <2>2. \A k \in Keys : index'[k].file < nextID
    BY <1>6 DEF IdsBelowNext, EntryOf
  <2> QED
    BY <1>1, <1>5, <2>1, <2>2 DEF IdsBelowNext
<1>10. IndexTruthful'
  <2> SUFFICES ASSUME NEW k \in Keys, index'[k].seq > 0, index'[k].file \in DOMAIN disk'
               PROVE  RecordAt(k, index[k])'
    BY Zenon DEF IndexTruthful
  <2>1. CASE index'[k] = index[k]
    <3>1. index[k].seq > 0 /\ index[k].file \in DOMAIN disk
      BY <2>1, <1>5, Zenon
    <3>2. RecordAt(k, index[k])
      BY <3>1, Zenon DEF IndexTruthful
    <3> QED
      BY <2>1, <3>2, <1>5, ZenonT(30) DEF RecordAt, DiskGrows
  <2>2. ASSUME NEW i \in DOMAIN wrecs, wrecs[i].key = k,
               index'[k] = EntryOf(wrecs[i], active, Len(disk[active]) + i)
        PROVE  RecordAt(k, index[k])'
    <3>1. /\ index'[k].file = active /\ index'[k].pos = Len(disk[active]) + i
          /\ index'[k].seq = wrecs[i].seq /\ index'[k].tomb = wrecs[i].tomb
      BY <2>2 DEF EntryOf
    <3>2. /\ active \in DOMAIN disk' /\ Len(disk[active]) + i \in DOMAIN disk'[active]
          /\ disk'[active][Len(disk[active]) + i] = wrecs[i]
      BY <2>2, <1>1, <1>5, Zenon
    <3> QED
      BY <2>2, <3>1, <3>2, Zenon DEF RecordAt
  <2> QED
    BY <2>1, <2>2, <1>6, Zenon
<1> QED
  BY <1>5, <1>7, <1>8, <1>9, <1>10, Zenon

\* A write whose fsync failed keeps the invariant.
LEMMA FailSyncInv ==
  ASSUME EngineInv, FailSync, UNCHANGED <<compVars, merges>>
  PROVE  EngineInv'
<1> USE DEF EngineInv, TypeOK
<1>1. /\ active \in DOMAIN disk /\ disk' = [disk EXCEPT ![active] = @ \o wrecs] /\ wrecs' = <<>>
      /\ UNCHANGED <<synced, hints, manifest, index, seq, nextID, active, mergeSeq, hintQ,
                     deleting, acked, crashes>>
      /\ dirty' = TRUE /\ gaps' = gaps \cup {"fsync"}
  BY DEF FailSync
<1>2. /\ DOMAIN synced' = DOMAIN disk
      /\ \A id \in DOMAIN disk : id # active => synced'[id] = synced[id]
      /\ synced'[active] \in 0..Len(disk'[active])
  <2>1. disk'[active] = disk[active] \o wrecs
    BY <1>1
  <2>2. Len(disk'[active]) = Len(disk[active]) + Len(wrecs) /\ Len(disk[active]) \in Nat /\ Len(wrecs) \in Nat
    BY <1>1, <2>1 DEF DiskTyped, MemoryTyped
  <2>3. synced[active] \in 0..Len(disk[active])
    BY <1>1 DEF DiskTyped
  <2> QED
    BY <1>1, <2>2, <2>3 DEF DiskTyped
<1>3. /\ DiskTyped' /\ HintsTyped' /\ MergeTyped' /\ LogBelowSeq' /\ DiskGrows
      /\ HintMatchesData' /\ HintsInProgress' /\ MergeShape' /\ DOMAIN disk' = DOMAIN disk
  BY <1>1, <1>2, GrowActive
<1>4. MemoryTyped'
  BY <1>1 DEF MemoryTyped
<1>5. HistoryTyped'
  BY <1>1 DEF HistoryTyped
<1>6. IdsBelowNext'
  BY <1>1, <1>3 DEF IdsBelowNext, compVars
<1>7. IndexTruthful'
  BY <1>1, <1>3, GrowKeepsTruth
<1> QED
  BY <1>3, <1>4, <1>5, <1>6, <1>7, Zenon

\* A write that was overtaken by the removal of its file keeps the invariant.
LEMMA StrandedInv ==
  ASSUME EngineInv, FinishWriteStranded, UNCHANGED <<compVars, merges>>
  PROVE  EngineInv'
<1> USE DEF EngineInv, TypeOK
<1>1. /\ active \notin DOMAIN disk /\ wrecs' = <<>>
      /\ UNCHANGED <<disk, synced, hints, manifest, seq, nextID, active, mergeSeq, hintQ,
                     deleting, gaps, crashes>>
  BY DEF FinishWriteStranded, diskVars
<1>2. UNCHANGED <<cActive, cMerge, cOuts>>
  BY DEF compVars
<1>3. /\ index' \in [Keys -> Entry]
      /\ \A k \in Keys : index'[k] = index[k] \/ index'[k].file = active
      /\ dirty' \in BOOLEAN
      /\ acked' \in [Keys -> [seq: Nat, tomb: BOOLEAN]]
  <2>1. CASE SyncMode = "always"
    BY <2>1 DEF FinishWriteStranded, MemoryTyped, HistoryTyped
  <2>2. CASE SyncMode # "always"
    <3>1. IndexWrite(0) /\ Acknowledge /\ dirty' = TRUE
      BY <2>2 DEF FinishWriteStranded
    <3>2. /\ index' \in [Keys -> Entry]
          /\ \A k \in Keys :
               \/ index'[k] = index[k]
               \/ \E i \in DOMAIN wrecs :
                    wrecs[i].key = k /\ index'[k] = EntryOf(wrecs[i], active, 0 + i)
      BY <3>1, IndexWriteResult, Zenon
    <3>3. acked' \in [Keys -> [seq: Nat, tomb: BOOLEAN]]
      BY <3>1, AcknowledgeTyped
    <3> QED
      BY <3>1, <3>2, <3>3, SMTT(30) DEF EntryOf
  <2> QED
    BY <2>1, <2>2, Zenon
<1>4. MemoryTyped'
  BY <1>1, <1>3 DEF MemoryTyped
<1>5. HistoryTyped'
  BY <1>1, <1>3 DEF HistoryTyped
<1>6. IdsBelowNext'
  BY <1>1, <1>2, <1>3, Zenon DEF IdsBelowNext
<1>7. IndexTruthful'
  BY <1>1, <1>3, ZenonT(30) DEF IndexTruthful, RecordAt
<1>8. LogBelowSeq'
  <2>1. LogBelowSeq
    OBVIOUS
  <2> HIDE DEF EngineInv, TypeOK
  <2> QED
    BY <1>1, <2>1, SMTT(30) DEF LogBelowSeq
<1> QED
  BY <1>1, <1>4, <1>5, <1>6, <1>7, <1>8, Frames, Zenon

\* The interval fsync and the hint builders keep the invariant.
LEMMA BackgroundInv ==
  ASSUME EngineInv, Background, UNCHANGED <<compVars, merges>>
  PROVE  EngineInv'
<1> USE DEF EngineInv, TypeOK
<1>1. /\ UNCHANGED <<disk, manifest, index, seq, nextID, active, mergeSeq, wrecs, deleting,
                     acked, gaps, crashes>>
      /\ dirty' \in BOOLEAN
  BY Zenon DEF Background, Sync, buildHint, FailHint, diskVars, histVars, MemoryTyped
<1>2. MemoryTyped' /\ HistoryTyped'
  BY <1>1 DEF MemoryTyped, HistoryTyped
<1>3. UNCHANGED <<cActive, cMerge, cOuts>>
  BY DEF compVars
<1>4. CASE Sync
  <2>1. /\ active \in DOMAIN disk /\ synced' = [synced EXCEPT ![active] = Len(disk[active])]
        /\ UNCHANGED <<hints, hintQ>>
    BY <1>4, Zenon DEF Sync
  <2>2. Len(disk[active]) \in Nat /\ DOMAIN synced = DOMAIN disk
    BY <2>1 DEF DiskTyped
  <2>3. DiskTyped'
    <3> SUFFICES ASSUME NEW id \in DOMAIN disk PROVE synced'[id] \in 0..Len(disk[id])
      BY <1>1, <2>1 DEF DiskTyped
    <3> QED
      BY <2>1, <2>2 DEF DiskTyped
  <2>4. HintMatchesData' /\ HintsInProgress'
    BY <1>1, <2>1, <2>2, Zenon DEF HintMatchesData, HintsInProgress
  <2> QED
    BY <1>1, <1>2, <1>3, <2>1, <2>3, <2>4, Frames, Zenon
<1>5. ASSUME NEW id \in DOMAIN hintQ, buildHint(id) PROVE EngineInv'
  <2>1. /\ hints' = With(hints, id, hintQ[id]) /\ hintQ' = Without(hintQ, {id})
        /\ synced' = synced
    BY <1>5, Zenon DEF buildHint
  <2>2. /\ DOMAIN hints' = DOMAIN hints \cup {id} /\ DOMAIN hintQ' = DOMAIN hintQ \ {id}
        /\ hints'[id] = hintQ[id] /\ \A x \in DOMAIN hints : x # id => hints'[x] = hints[x]
        /\ \A x \in DOMAIN hintQ' : hintQ'[x] = hintQ[x]
    BY <2>1, Zenon DEF With, Without
  <2>3. HintsTyped'
    BY <2>2 DEF HintsTyped
  <2>4. IdsBelowNext'
    BY <1>1, <1>3, <2>2, Zenon DEF IdsBelowNext
  <2>5. HintMatchesData' /\ HintsInProgress'
    BY <1>1, <2>1, <2>2, ZenonT(30) DEF HintMatchesData, HintsInProgress
  <2>6. MergeShape'
    <3>1. MergeShape /\ UNCHANGED <<disk, active, cpc, cMerge, cOuts, cItems, cMoved>>
      BY <1>1 DEF compVars
    <3>2. cpc = "copy" => cOuts \cap (DOMAIN hints' \cup DOMAIN hintQ') = {}
      <4> HIDE DEF EngineInv, TypeOK
      <4>1. cpc = "copy" => cOuts \cap (DOMAIN hints \cup DOMAIN hintQ) = {}
        BY <3>1, Zenon DEF MergeShape
      <4> QED
        BY <2>2, <4>1, Zenon
    <3>3. cOuts \cap DOMAIN hintQ' = {}
      <4> HIDE DEF EngineInv, TypeOK
      <4>1. cOuts \cap DOMAIN hintQ = {}
        BY <3>1, Zenon DEF MergeShape
      <4> QED
        BY <2>2, <4>1, Zenon
    <3> HIDE DEF EngineInv, TypeOK
    <3> QED
      BY <3>1, <3>2, <3>3, Zenon DEF MergeShape, RecordAt
  <2> QED
    BY <1>1, <1>2, <2>1, <2>3, <2>4, <2>5, <2>6, Frames, Zenon
<1>6. ASSUME NEW id \in DOMAIN hintQ, FailHint(id) PROVE EngineInv'
  <2>1. hintQ' = Without(hintQ, {id}) /\ UNCHANGED <<synced, hints>>
    BY <1>6, Zenon DEF FailHint, diskVars
  <2>2. DOMAIN hintQ' = DOMAIN hintQ \ {id} /\ \A x \in DOMAIN hintQ' : hintQ'[x] = hintQ[x]
    BY <2>1 DEF Without
  <2>3. HintsTyped'
    BY <2>1, <2>2, Zenon DEF HintsTyped
  <2>4. IdsBelowNext'
    BY <1>1, <1>3, <2>1, <2>2, Zenon DEF IdsBelowNext
  <2>5. HintsInProgress'
    BY <1>1, <2>1, <2>2, Zenon DEF HintsInProgress
  <2>6. MergeShape'
    BY <1>1, <2>1, <2>2, ZenonT(30) DEF MergeShape, RecordAt, compVars
  <2> QED
    BY <1>1, <1>2, <2>1, <2>3, <2>4, <2>5, <2>6, Frames, Zenon
<1> QED
  BY <1>4, <1>5, <1>6 DEF Background
==============================================================================
