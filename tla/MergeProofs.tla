----------------------------- MODULE MergeProofs -----------------------------
(***************************************************************************)
(* Every step of Compact keeps the inductive invariant of the engine.      *)
(***************************************************************************)
EXTENDS StoreProofs

\* A merge that ends, for whatever reason, leaves nothing behind in memory.
LEMMA EndMergeFacts ==
  ASSUME EndMerge
  PROVE  /\ MergeTyped' /\ MergeShape'
         /\ cActive' = 0 /\ cMerge' = {} /\ cOuts' = {}
<1> USE DEF EndMerge, NoEntries
<1>1. MergeTyped'
  BY DEF MergeTyped, Phases
<1>2. MergeShape'
  BY DEF MergeShape
<1> QED
  BY <1>1, <1>2

\* Sealing the active file at the start of a merge keeps the invariant.
LEMMA CompactSealInv ==
  ASSUME EngineInv, CompactSeal
  PROVE  EngineInv'
<1> USE DEF EngineInv, TypeOK
<1>1. /\ cpc = "idle" /\ cpc' = "list" /\ active \in DOMAIN disk
      /\ cBarrier' = seq /\ cActive' = active' /\ merges' = merges + 1
      /\ UNCHANGED <<hints, manifest, index, seq, mergeSeq, hintQ, wrecs, deleting, acked, gaps, crashes,
                     cMerge, cItems, cRetired, cMoved, cOuts, cSafe>>
  BY DEF CompactSeal, histVars
<1>2. HistoryTyped' /\ HintsTyped'
  BY <1>1 DEF HistoryTyped, HintsTyped
<1>3. cOuts = {} /\ DOMAIN cItems = {} /\ DOMAIN cMoved = {}
  BY <1>1, Zenon DEF MergeShape
<1>4. MergeShape'
  BY <1>1, <1>3 DEF MergeShape
<1>5. CASE disk[active] # <<>>
  <2>1. SealActive
    BY <1>5 DEF CompactSeal
  <2>2. /\ DiskTyped' /\ DiskGrows
        /\ DOMAIN disk' = DOMAIN disk \cup {nextID} /\ nextID \notin DOMAIN disk
        /\ disk'[nextID] = <<>>
        /\ \A id \in DOMAIN disk : disk'[id] = disk[id]
        /\ \A id \in DOMAIN disk :
             synced'[id] = IF id = active THEN Len(disk[id]) ELSE synced[id]
        /\ nextID' = nextID + 1 /\ nextID' \in Nat /\ active' = nextID /\ active' # active
        /\ dirty' = FALSE
    BY <1>1, <2>1, SealFacts DEF SealActive
  <2>3. nextID \in Nat
    BY DEF MemoryTyped
  <2>4. MemoryTyped'
    BY <1>1, <2>2, <2>3, Zenon DEF MemoryTyped
  <2>5. MergeTyped'
    BY <1>1, <2>2, <2>3 DEF MergeTyped, MemoryTyped, Phases
  <2>6. IdsBelowNext'
    <3>1. \A id \in DOMAIN disk' \cup DOMAIN hints' \cup DOMAIN hintQ' \cup cMerge' \cup cOuts' :
            id \in Nat /\ (id < nextID \/ id = nextID)
      BY <1>1, <2>2, <2>3, Zenon DEF IdsBelowNext, MergeTyped, DiskTyped, HintsTyped
    <3>2. \A k \in Keys : index'[k].file < nextID'
      BY <1>1, <2>2, BelowFresh, NextIsFresh, Zenon
    <3> QED
      BY <1>1, <2>2, <3>1, <3>2, BelowFresh, NextIsFresh, Zenon DEF IdsBelowNext
  <2>7. LogBelowSeq'
    BY <1>1, <2>2 DEF LogBelowSeq
  <2>8. IndexTruthful'
    BY <1>1, <2>2, <2>3, GrowKeepsTruth
  <2>9. HintMatchesData' /\ HintsInProgress'
    <3>1. nextID \notin DOMAIN hints /\ nextID \notin DOMAIN hintQ
      BY <2>3 DEF IdsBelowNext, HintsTyped
    <3> QED
      BY <1>1, <2>2, <3>1 DEF HintMatchesData, HintsInProgress
  <2> QED
    BY <1>2, <1>4, <2>2, <2>4, <2>5, <2>6, <2>7, <2>8, <2>9
<1>6. CASE disk[active] = <<>>
  <2>1. UNCHANGED <<disk, synced, active, nextID, dirty>>
    BY <1>6 DEF CompactSeal
  <2>2. MemoryTyped'
    BY <1>1, <2>1 DEF MemoryTyped
  <2>3. MergeTyped'
    BY <1>1, <2>1 DEF MergeTyped, MemoryTyped, Phases
  <2>4. IdsBelowNext'
    BY <1>1, <2>1 DEF IdsBelowNext
  <2> QED
    BY <1>1, <1>2, <1>4, <2>1, <2>2, <2>3, <2>4, Frames
<1> QED
  BY <1>5, <1>6

\* Listing the merge set keeps the invariant.
LEMMA CompactListInv ==
  ASSUME EngineInv, CompactList
  PROVE  EngineInv'
<1> USE DEF EngineInv, TypeOK
<1>1. /\ cpc = "list" /\ UNCHANGED <<disk, synced, hints, manifest, index, seq, nextID, active, mergeSeq,
                                      dirty, hintQ, wrecs, deleting, acked, crashes, merges>>
      /\ gaps' \subseteq gaps \cup {"live_merge"}
  BY DEF CompactList, diskVars, memVars
<1>2. MemoryTyped'
  BY <1>1 DEF MemoryTyped
<1>3. HistoryTyped'
  BY <1>1 DEF HistoryTyped
<1>4. CASE EndMerge
  <2>1. /\ MergeTyped' /\ MergeShape' /\ cActive' = 0 /\ cMerge' = {} /\ cOuts' = {}
    BY <1>4, EndMergeFacts
  <2>2. IdsBelowNext'
    BY <1>1, <2>1 DEF IdsBelowNext, MemoryTyped
  <2> QED
    BY <1>1, <1>2, <1>3, <2>1, <2>2, Frames
<1>5. CASE /\ cMerge' = DOMAIN disk \ {cActive} /\ cpc' = "snapshot"
           /\ UNCHANGED <<cActive, cBarrier, cItems, cRetired, cMoved, cOuts, cSafe>>
  <2>1. MergeTyped'
    BY <1>5 DEF MergeTyped, Phases, DiskTyped
  <2>2. IdsBelowNext'
    BY <1>1, <1>5, Zenon DEF IdsBelowNext
  <2>3. MergeShape'
    BY <1>1, <1>5, Zenon DEF MergeShape
  <2> QED
    BY <1>1, <1>2, <1>3, <2>1, <2>2, <2>3, Frames
<1> QED
  BY <1>4, <1>5 DEF CompactList

\* The snapshot of the index keeps the invariant.
LEMMA CompactSnapshotInv ==
  ASSUME EngineInv, CompactSnapshot
  PROVE  EngineInv'
<1> USE DEF EngineInv, TypeOK
<1> DEFINE held == {k \in Keys : index[k].seq > 0 /\ index[k].file \in cMerge}
<1>1. /\ cpc = "snapshot" /\ cpc' = "copy"
      /\ UNCHANGED <<disk, synced, hints, manifest, index, seq, nextID, active, mergeSeq,
                     dirty, hintQ, wrecs, deleting, acked, gaps, crashes, merges,
                     cActive, cBarrier, cMerge, cMoved, cOuts, cSafe>>
  BY Zenon DEF CompactSnapshot, storeVars
<1>2. /\ cItems' = [k \in {x \in held : ~index[x].tomb} |-> index[k]]
      /\ cRetired' = [k \in {x \in held : index[x].tomb} |-> index[k]]
  BY DEF CompactSnapshot
<1>3. MemoryTyped' /\ HistoryTyped'
  BY <1>1 DEF MemoryTyped, HistoryTyped
<1>4. MergeTyped'
  <2>1. DOMAIN cItems' \subseteq Keys /\ \A k \in DOMAIN cItems' : cItems'[k] \in Entry
    BY <1>2 DEF MemoryTyped
  <2>2. DOMAIN cRetired' \subseteq Keys /\ \A k \in DOMAIN cRetired' : cRetired'[k] \in Entry
    BY <1>2 DEF MemoryTyped
  <2> QED
    BY <1>1, <2>1, <2>2 DEF MergeTyped, Phases
<1>5. IdsBelowNext'
  BY <1>1 DEF IdsBelowNext
<1>6. MergeShape'
  <2>1. cOuts = {} /\ DOMAIN cMoved = {} /\ cMerge \subseteq DOMAIN disk
    BY <1>1, Zenon DEF MergeShape
  <2>2. \A k \in DOMAIN cItems' :
          cItems'[k].file \in cMerge /\ RecordAt(k, cItems'[k]) /\ ~cItems'[k].tomb
    BY <1>2, <2>1 DEF IndexTruthful
  <2> QED
    BY <1>1, <2>1, <2>2, Zenon DEF MergeShape, RecordAt
<1> QED
  BY <1>1, <1>3, <1>4, <1>5, <1>6, Frames, Zenon

\* Copying one record to a merged file keeps the invariant.
LEMMA CompactCopyInv ==
  ASSUME EngineInv, CompactCopy
  PROVE  EngineInv'
<1> USE DEF EngineInv, TypeOK
<1> DEFINE k == Min(ToCopy)
           rec == disk[cItems[k].file][cItems[k].pos]
           old == IF NeedsOut THEN <<>> ELSE disk[OutID]
           moved == [file |-> OutID, pos |-> Len(old) + 1, seq |-> rec.seq, tomb |-> FALSE]
<1>1. /\ cpc = "copy" /\ ToCopy # {}
      /\ disk' = With(disk, OutID, Append(old, Unbatched(rec)))
      /\ synced' = IF NeedsOut THEN With(synced, OutID, 0) ELSE synced
      /\ nextID' = IF NeedsOut THEN nextID + 1 ELSE nextID
      /\ cOuts' = cOuts \cup {OutID}
      /\ cMoved' = With(cMoved, k, moved)
  BY Zenon DEF CompactCopy
<1>2. /\ UNCHANGED <<hints, manifest, index, seq, active, mergeSeq, dirty, hintQ, wrecs,
                     deleting, acked, gaps, crashes, merges>>
      /\ UNCHANGED <<cpc, cActive, cBarrier, cMerge, cItems, cRetired, cSafe>>
  BY Zenon DEF CompactCopy, histVars
<1>3. k \in DOMAIN cItems /\ k \notin DOMAIN cMoved /\ k \in Keys
  <2>1. ToCopy \in SUBSET Nat
    BY KeysAssumption, Zenon DEF ToCopy, MergeTyped
  <2>2. Min(ToCopy) \in ToCopy
    BY <1>1, <2>1, MinOfNaturals, Zenon
  <2> QED
    BY <2>2 DEF ToCopy, MergeTyped
<1>4. /\ rec \in Record /\ rec.key = k /\ rec.seq = cItems[k].seq /\ rec.tomb = FALSE
      /\ rec.seq \in Nat /\ rec.seq <= seq
  <2>1. RecordAt(k, cItems[k]) /\ ~cItems[k].tomb /\ cItems[k] \in Entry
    BY <1>3, Zenon DEF MergeShape, MergeTyped
  <2>2. disk[cItems[k].file] \in Seq(Record) /\ cItems[k].pos \in DOMAIN disk[cItems[k].file]
    <3>1. cItems[k].file \in DOMAIN disk /\ cItems[k].pos \in DOMAIN disk[cItems[k].file]
      BY <2>1, Zenon DEF RecordAt
    <3> QED
      BY <3>1, Zenon DEF DiskTyped
  <2>3. rec \in Record /\ rec.seq \in Nat /\ rec.tomb \in BOOLEAN
    BY <2>2, RecordAtPosition, Zenon
  <2>4. rec.key = k /\ rec.seq = cItems[k].seq /\ rec.tomb = cItems[k].tomb
    BY <2>1, Zenon DEF RecordAt
  <2>5. rec.seq <= seq
    BY <2>1 DEF RecordAt, LogBelowSeq
  <2> QED
    BY <2>1, <2>3, <2>4, <2>5, Zenon
<1>5. /\ OutID \in Nat /\ OutID \notin DOMAIN hints /\ OutID \notin DOMAIN hintQ /\ OutID # active
      /\ OutID < nextID' /\ nextID <= nextID' /\ nextID \in Nat /\ nextID' \in Nat
      /\ NeedsOut => OutID = nextID /\ OutID \notin DOMAIN disk
      /\ ~NeedsOut => OutID \in cOuts /\ OutID \in DOMAIN disk
  <2>1. nextID \in Nat
    BY DEF MemoryTyped
  <2>2. CASE NeedsOut
    <3>1. OutID = nextID /\ nextID' = nextID + 1
      BY <2>2, <1>1, Zenon DEF OutID
    <3> QED
      BY <2>1, <2>2, <3>1 DEF IdsBelowNext, DiskTyped, HintsTyped, MemoryTyped
  <2>3. CASE ~NeedsOut
    <3>1. OutID = Max(cOuts) /\ cOuts # {} /\ nextID' = nextID
      BY <2>3, <1>1, Zenon DEF OutID, NeedsOut
    <3>2. cOuts \in SUBSET Nat /\ \A x \in cOuts : x < nextID
      BY DEF MergeTyped, IdsBelowNext
    <3>3. \A x \in cOuts : x <= nextID
      BY <2>1, <3>2
    <3>4. Max(cOuts) \in cOuts
      BY <2>1, <3>1, <3>2, <3>3, MaxOfBounded, Zenon
    <3>5. cpc = "copy"
      BY <1>1, Zenon
    <3>6. /\ cOuts \subseteq DOMAIN disk /\ active \notin cOuts
          /\ cOuts \cap (DOMAIN hints \cup DOMAIN hintQ) = {}
      BY <3>5 DEF MergeShape
    <3>7. OutID \in Nat /\ OutID < nextID /\ OutID \in cOuts
      BY <3>1, <3>2, <3>4, Zenon
    <3> HIDE DEF k, rec, old, moved
    <3> QED
      BY <2>1, <2>3, <3>1, <3>6, <3>7
  <2> QED
    BY <2>2, <2>3
<1>6. /\ old \in Seq(Record) /\ Unbatched(rec) \in Record
      /\ Unbatched(rec).key = k /\ Unbatched(rec).seq = rec.seq /\ Unbatched(rec).tomb = FALSE
  <2>1. old \in Seq(Record)
    BY <1>5 DEF DiskTyped
  <2>2. /\ Unbatched(rec).key = k /\ Unbatched(rec).seq = rec.seq /\ Unbatched(rec).tomb = FALSE
        /\ Unbatched(rec) \in Record
    <3> HIDE DEF rec, k
    <3> QED
      BY <1>4 DEF Unbatched, Record
  <2> QED
    BY <2>1, <2>2, Zenon
<1> HIDE DEF k, rec, old
<1>7. /\ DOMAIN disk' = DOMAIN disk \cup {OutID}
      /\ disk'[OutID] = Append(old, Unbatched(rec))
      /\ \A id \in DOMAIN disk : id # OutID => disk'[id] = disk[id]
  BY <1>1 DEF With
<1>8. /\ disk'[OutID] \in Seq(Record) /\ Len(old) \in Nat
      /\ Len(disk'[OutID]) = Len(old) + 1
      /\ disk'[OutID][Len(old) + 1] = Unbatched(rec)
      /\ \A i \in 1..Len(old) : disk'[OutID][i] = old[i]
  BY <1>6, <1>7
<1>9. DiskGrows
  <2> SUFFICES ASSUME NEW id \in DOMAIN disk, NEW i \in DOMAIN disk[id]
               PROVE  i \in DOMAIN disk'[id] /\ disk'[id][i] = disk[id][i]
    BY <1>7 DEF DiskGrows
  <2>1. CASE id = OutID
    <3>1. old = disk[id] /\ disk[id] \in Seq(Record)
      BY <2>1, <1>5 DEF old, DiskTyped
    <3> QED
      BY <2>1, <3>1, <1>8
  <2>2. CASE id # OutID
    BY <2>2, <1>7
  <2> QED
    BY <2>1, <2>2
<1>10. DiskTyped'
  <2>1. DOMAIN disk' \subseteq Nat
    BY <1>5, <1>7 DEF DiskTyped
  <2>2. /\ DOMAIN synced' = DOMAIN disk'
        /\ \A id \in DOMAIN disk : id # OutID => synced'[id] = synced[id]
        /\ synced'[OutID] = IF NeedsOut THEN 0 ELSE synced[OutID]
    <3>1. CASE NeedsOut
      BY <3>1, <1>1, <1>5, <1>7 DEF DiskTyped, With
    <3>2. CASE ~NeedsOut
      BY <3>2, <1>1, <1>5, <1>7, Zenon DEF DiskTyped
    <3> QED
      BY <3>1, <3>2
  <2>3. ASSUME NEW id \in DOMAIN disk'
        PROVE  disk'[id] \in Seq(Record) /\ synced'[id] \in 0..Len(disk'[id])
    <3>1. CASE id # OutID
      BY <3>1, <2>2, <1>7 DEF DiskTyped
    <3>2. CASE id = OutID /\ NeedsOut
      BY <3>2, <2>2, <1>8
    <3>3. CASE id = OutID /\ ~NeedsOut
      <4>1. old = disk[id] /\ synced[id] \in 0..Len(disk[id])
        BY <3>3, <1>5 DEF old, DiskTyped
      <4> QED
        BY <3>3, <4>1, <2>2, <1>8
    <3> QED
      BY <3>1, <3>2, <3>3, Zenon
  <2> QED
    BY <2>1, <2>2, <2>3 DEF DiskTyped
<1>11. MemoryTyped' /\ HistoryTyped' /\ HintsTyped'
  BY <1>2, <1>5 DEF MemoryTyped, HistoryTyped, HintsTyped
<1>12. /\ DOMAIN cMoved' = DOMAIN cMoved \cup {k} /\ cMoved'[k] = moved
       /\ \A x \in DOMAIN cMoved : cMoved'[x] = cMoved[x]
  BY <1>1, <1>3 DEF With
<1>13. moved \in Entry
  <2>1. Len(old) + 1 \in Nat
    BY <1>8
  <2> QED
    BY <2>1, <1>4, <1>5, Zenon DEF Entry
<1>14. MergeTyped'
  <2>1. DOMAIN cMoved' \subseteq Keys /\ \A x \in DOMAIN cMoved' : cMoved'[x] \in Entry
    <3> HIDE DEF moved
    <3> QED
      BY <1>3, <1>12, <1>13, Zenon DEF MergeTyped
  <2> QED
    BY <1>1, <1>2, <1>5, <2>1, Zenon DEF MergeTyped
<1>15. IdsBelowNext'
  <2>1. \A id \in DOMAIN disk' \cup DOMAIN hints' \cup DOMAIN hintQ' \cup cMerge' \cup cOuts' :
          id \in Nat /\ (id < nextID \/ id = OutID)
    BY <1>1, <1>2, <1>5, <1>7, Zenon DEF IdsBelowNext, MergeTyped, DiskTyped, HintsTyped
  <2>2. \A x \in Keys : index'[x].file < nextID'
    BY <1>2, <1>5, BelowFresh, Zenon
  <2>3. active' < nextID' /\ cActive' < nextID'
    BY <1>2, <1>5, BelowFresh, Zenon
  <2> QED
    BY <1>5, <2>1, <2>2, <2>3, BelowFresh, Zenon DEF IdsBelowNext
<1>16. LogBelowSeq'
  <2> SUFFICES ASSUME NEW id \in DOMAIN disk', NEW i \in DOMAIN disk'[id]
               PROVE  disk'[id][i].seq <= seq
    BY <1>2, Zenon DEF LogBelowSeq
  <2>1. CASE id # OutID
    BY <2>1, <1>7 DEF LogBelowSeq
  <2>2. CASE id = OutID /\ i = Len(old) + 1
    BY <2>2, <1>4, <1>6, <1>8
  <2>3. CASE id = OutID /\ i # Len(old) + 1
    <3>1. i \in 1..Len(old) /\ disk'[id][i] = old[i]
      BY <2>3, <1>8
    <3>2. ~NeedsOut /\ old = disk[id] /\ id \in DOMAIN disk /\ i \in DOMAIN disk[id]
      BY <2>3, <3>1, <1>5, <1>6, SMTT(30) DEF old
    <3> QED
      BY <3>1, <3>2 DEF LogBelowSeq
  <2> QED
    BY <2>1, <2>2, <2>3
<1>17. IndexTruthful'
  <2>1. \A id \in DOMAIN disk' : id \in DOMAIN disk \/ id >= nextID
    BY <1>5, <1>7, NextIsFresh, Zenon
  <2> QED
    BY <1>2, <1>9, <2>1, GrowKeepsTruth, Zenon
<1>18. HintMatchesData' /\ HintsInProgress'
  <2>1. \A id \in DOMAIN disk : id # OutID => synced'[id] = synced[id]
    BY <1>1, Zenon DEF With, DiskTyped
  <2> QED
    BY <1>2, <1>5, <1>7, <2>1, ZenonT(30) DEF HintMatchesData, HintsInProgress
<1>19. MergeShape'
  <2>1. /\ cMerge' \subseteq DOMAIN disk' /\ cOuts' \subseteq DOMAIN disk'
        /\ cOuts' \cap (DOMAIN hints' \cup DOMAIN hintQ') = {} /\ active' \notin cOuts'
    BY <1>1, <1>2, <1>5, <1>7, ZenonT(30) DEF MergeShape
  <2>2. \A x \in DOMAIN cItems' :
          cItems'[x].file \in cMerge' /\ RecordAt(x, cItems[x])' /\ ~cItems'[x].tomb
    BY <1>2, <1>9, GrowKeepsRecords, ZenonT(30) DEF MergeShape
  <2>3. ASSUME NEW x \in DOMAIN cMoved'
        PROVE  /\ x \in DOMAIN cItems' /\ cMoved'[x].seq = cItems'[x].seq
               /\ cMoved'[x].file \in cOuts' /\ RecordAt(x, cMoved[x])'
    <3>1. CASE x = k
      <4>1. cMoved'[x] = moved /\ moved.file = OutID /\ moved.pos = Len(old) + 1
            /\ moved.seq = rec.seq /\ moved.tomb = FALSE
        BY <3>1, <1>12, Zenon
      <4> HIDE DEF moved
      <4>2. OutID \in DOMAIN disk' /\ Len(old) + 1 \in DOMAIN disk'[OutID]
        BY <1>7, <1>8, SMTT(30)
      <4>3. RecordAt(x, cMoved[x])'
        BY <3>1, <4>1, <4>2, <1>6, <1>8, Zenon DEF RecordAt
      <4> QED
        BY <3>1, <4>1, <4>3, <1>1, <1>2, <1>3, <1>4, Zenon
    <3>2. CASE x # k
      <4>1. x \in DOMAIN cMoved /\ cMoved'[x] = cMoved[x]
        BY <3>2, <1>12, Zenon
      <4>2. x \in DOMAIN cItems /\ cMoved[x].seq = cItems[x].seq /\ cMoved[x].file \in cOuts
            /\ RecordAt(x, cMoved[x])
        BY <4>1, Zenon DEF MergeShape
      <4>3. RecordAt(x, cMoved[x])'
        BY <4>1, <4>2, <1>9, Zenon DEF RecordAt, DiskGrows
      <4> QED
        BY <4>1, <4>2, <4>3, <1>1, <1>2, Zenon
    <3> QED
      BY <3>1, <3>2, Zenon
  <2> QED
    BY <1>1, <1>2, <2>1, <2>2, <2>3, Zenon DEF MergeShape
<1> QED
  BY <1>10, <1>11, <1>14, <1>15, <1>16, <1>17, <1>18, <1>19

\* Publishing the merged files' hints keeps the invariant.
LEMMA CompactPublishInv ==
  ASSUME EngineInv, CompactPublish
  PROVE  EngineInv'
<1> USE DEF EngineInv, TypeOK
<1>1. /\ cpc = "copy" /\ cpc' = "repoint" /\ ToCopy = {}
      /\ UNCHANGED <<disk, manifest, index, seq, nextID, active, mergeSeq, dirty, hintQ, wrecs,
                     deleting, acked, gaps, crashes, merges,
                     cActive, cBarrier, cMerge, cItems, cRetired, cMoved, cOuts, cSafe>>
  BY ZenonT(30) DEF CompactPublish, memVars, histVars
<1>2. /\ cOuts \subseteq DOMAIN disk /\ active \notin cOuts /\ cOuts \cap DOMAIN hintQ = {}
  BY <1>1, Zenon DEF MergeShape
<1>3. /\ DOMAIN hints' = DOMAIN hints \cup cOuts
      /\ \A id \in cOuts : hints'[id] = disk[id]
      /\ \A id \in DOMAIN hints : id \notin cOuts => hints'[id] = hints[id]
  BY Zenon DEF CompactPublish, OutHints
<1>4. /\ DOMAIN synced' = DOMAIN disk
      /\ \A id \in cOuts : synced'[id] = Len(disk[id])
      /\ \A id \in DOMAIN disk : id \notin cOuts => synced'[id] = synced[id]
  BY <1>2 DEF CompactPublish, DiskTyped
<1>5. DiskTyped'
  BY <1>1, <1>4 DEF DiskTyped
<1>6. HintsTyped'
  BY <1>1, <1>2, <1>3, Zenon DEF HintsTyped, DiskTyped
<1>7. MemoryTyped' /\ HistoryTyped' /\ MergeTyped'
  BY <1>1, Zenon DEF MemoryTyped, HistoryTyped, MergeTyped, Phases
<1>8. IdsBelowNext'
  BY <1>1, <1>3, Zenon DEF IdsBelowNext
<1>9. HintMatchesData'
  BY <1>1, <1>2, <1>3, <1>4, Zenon DEF HintMatchesData
<1>10. HintsInProgress'
  BY <1>1, <1>2, <1>4, Zenon DEF HintsInProgress
<1>11. MergeShape'
  BY <1>1, ZenonT(30) DEF MergeShape, RecordAt, ToCopy
<1> QED
  BY <1>1, <1>5, <1>6, <1>7, <1>8, <1>9, <1>10, <1>11, Frames, Zenon

\* Removing files no hint builder or seal is about to touch keeps what is said
\* of the files and of the index.
LEMMA RemoveFacts ==
  ASSUME EngineInv, NEW gone, disk' = Without(disk, gone), synced' = Without(synced, gone),
         UNCHANGED <<index, seq, active, hintQ, wrecs>>,
         \A id \in DOMAIN hints' : id \notin gone => id \in DOMAIN hints /\ hints'[id] = hints[id]
  PROVE  DiskTyped' /\ LogBelowSeq' /\ IndexTruthful' /\ HintMatchesData' /\ HintsInProgress'
         /\ DOMAIN disk' \subseteq DOMAIN disk
<1> USE DEF EngineInv, TypeOK
<1>1. /\ DOMAIN disk' = DOMAIN disk \ gone /\ \A id \in DOMAIN disk' : disk'[id] = disk[id]
      /\ DOMAIN synced' = DOMAIN disk \ gone /\ \A id \in DOMAIN synced' : synced'[id] = synced[id]
  BY Zenon DEF Without, DiskTyped
<1>2. DiskTyped'
  BY <1>1 DEF DiskTyped
<1>3. LogBelowSeq'
  BY <1>1 DEF LogBelowSeq
<1>4. IndexTruthful'
  <2>1. ASSUME NEW k \in Keys, index[k].seq > 0, index[k].file \in DOMAIN disk'
        PROVE  RecordAt(k, index[k])'
    <3>1. index[k].file \in DOMAIN disk /\ disk'[index[k].file] = disk[index[k].file]
      BY <1>1, <2>1, Zenon
    <3>2. RecordAt(k, index[k])
      BY <2>1, <3>1, Zenon DEF IndexTruthful
    <3> QED
      BY <2>1, <3>1, <3>2, Zenon DEF RecordAt
  <2> QED
    BY <2>1, Zenon DEF IndexTruthful
<1>5. HintMatchesData'
  BY <1>1, ZenonT(30) DEF HintMatchesData
<1>6. HintsInProgress'
  BY <1>1 DEF HintsInProgress
<1> QED
  BY <1>1, <1>2, <1>3, <1>4, <1>5, <1>6, Zenon

\* Abandoning a merge keeps the invariant.
LEMMA CompactAbortInv ==
  ASSUME EngineInv, CompactAbort
  PROVE  EngineInv'
<1> USE DEF EngineInv, TypeOK
<1>1. /\ cpc = "copy" /\ disk' = Without(disk, cOuts) /\ synced' = Without(synced, cOuts) /\ EndMerge
      /\ UNCHANGED <<manifest, index, seq, nextID, active, mergeSeq, dirty, hintQ, wrecs,
                     deleting, acked, gaps, crashes, merges>>
  BY DEF CompactAbort, memVars, histVars
<1>2. PICK done \in SUBSET cOuts : hints' = OutHints(done)
  BY DEF CompactAbort
<1>3. cOuts \subseteq DOMAIN disk
  BY <1>1, Zenon DEF MergeShape
<1>4. /\ DOMAIN hints' = DOMAIN hints \cup done
      /\ \A id \in done : hints'[id] = disk[id]
      /\ \A id \in DOMAIN hints : id \notin done => hints'[id] = hints[id]
  BY <1>2 DEF OutHints
<1>5. /\ MergeTyped' /\ MergeShape' /\ cActive' = 0 /\ cMerge' = {} /\ cOuts' = {}
  BY <1>1, EndMergeFacts
<1>6. /\ DiskTyped' /\ LogBelowSeq' /\ IndexTruthful' /\ HintMatchesData' /\ HintsInProgress'
      /\ DOMAIN disk' \subseteq DOMAIN disk
  <2>1. \A id \in DOMAIN hints' : id \notin cOuts => id \in DOMAIN hints /\ hints'[id] = hints[id]
    BY <1>2, <1>4
  <2> QED
    BY <1>1, <2>1, RemoveFacts, Zenon
<1>7. HintsTyped'
  BY <1>1, <1>2, <1>3, <1>4 DEF HintsTyped, DiskTyped
<1>8. MemoryTyped' /\ HistoryTyped'
  BY <1>1, Zenon DEF MemoryTyped, HistoryTyped
<1>9. IdsBelowNext'
  <2>1. 0 < nextID
    BY BelowFresh, NextIsFresh, Zenon
  <2> QED
    BY <1>1, <1>2, <1>4, <1>5, <1>6, <2>1, Zenon DEF IdsBelowNext
<1> QED
  BY <1>5, <1>6, <1>7, <1>8, <1>9

\* Removing a merged-away file keeps the invariant.
LEMMA CompactRemoveInv ==
  ASSUME EngineInv, CompactRemove
  PROVE  EngineInv'
<1> USE DEF EngineInv, TypeOK
<1> DEFINE id == Min(cMerge)
<1>1. /\ cpc = "remove" /\ disk' = Without(disk, {id}) /\ synced' = Without(synced, {id})
      /\ hints' = Without(hints, {id})
      /\ UNCHANGED <<manifest, index, seq, nextID, active, mergeSeq, dirty, hintQ, wrecs,
                     deleting, acked, gaps, crashes, merges>>
  BY DEF CompactRemove, memVars, histVars
<1>2. \/ EndMerge
      \/ /\ cMerge' = cMerge \ {id}
         /\ UNCHANGED <<cpc, cActive, cBarrier, cItems, cRetired, cMoved, cOuts, cSafe>>
  BY DEF CompactRemove
<1> HIDE DEF id
<1>3. /\ DOMAIN hints' = DOMAIN hints \ {id} /\ \A x \in DOMAIN hints' : hints'[x] = hints[x]
  BY <1>1, Zenon DEF Without
<1>4. /\ DiskTyped' /\ LogBelowSeq' /\ IndexTruthful' /\ HintMatchesData' /\ HintsInProgress'
      /\ DOMAIN disk' \subseteq DOMAIN disk
  BY <1>1, <1>3, RemoveFacts, Zenon
<1>5. HintsTyped' /\ MemoryTyped' /\ HistoryTyped'
  BY <1>1, <1>3, Zenon DEF HintsTyped, MemoryTyped, HistoryTyped
<1>6. CASE EndMerge
  <2>1. /\ MergeTyped' /\ MergeShape' /\ cActive' = 0 /\ cMerge' = {} /\ cOuts' = {}
    BY <1>6, EndMergeFacts
  <2>2. IdsBelowNext'
    <3>1. active < nextID /\ 0 < nextID /\ UNCHANGED <<index, active, nextID, hintQ>>
      BY <1>1, BelowFresh, NextIsFresh, Zenon DEF IdsBelowNext
    <3>2. DOMAIN hints' \subseteq DOMAIN hints
      BY <1>3
    <3> QED
      BY <1>4, <2>1, <3>1, <3>2 DEF IdsBelowNext
  <2> QED
    BY <1>4, <1>5, <2>1, <2>2
<1>7. CASE /\ cMerge' = cMerge \ {id}
           /\ UNCHANGED <<cpc, cActive, cBarrier, cItems, cRetired, cMoved, cOuts, cSafe>>
  <2>1. MergeTyped'
    BY <1>7, Zenon DEF MergeTyped
  <2>2. IdsBelowNext'
    BY <1>1, <1>3, <1>4, <1>7, Zenon DEF IdsBelowNext
  <2>3. MergeShape'
    BY <1>1, <1>7, Zenon DEF MergeShape
  <2> QED
    BY <1>4, <1>5, <2>1, <2>2, <2>3, Zenon
<1> QED
  BY <1>2, <1>6, <1>7, ZenonT(30)

\* Repointing a key, retiring a tombstone and raising the watermark keep the
\* invariant.
LEMMA CompactIndexInv ==
  ASSUME EngineInv, CompactRepoint \/ CompactRetire \/ CompactMark
  PROVE  EngineInv'
<1> USE DEF EngineInv, TypeOK
<1>1. /\ cpc = "repoint"
      /\ UNCHANGED <<disk, synced, hints, seq, nextID, active, dirty, hintQ, wrecs, deleting,
                     acked, crashes, merges, cActive, cBarrier, cMerge, cOuts>>
  BY Zenon DEF CompactRepoint, CompactRetire, CompactMark, writeManifest, diskVars, histVars
<1>2. DOMAIN cItems = DOMAIN cMoved /\ cOuts \subseteq DOMAIN disk /\ nextID \in Nat /\ 0 < nextID
  BY <1>1, BelowFresh, NextIsFresh, Zenon DEF MergeShape
<1>3. CASE CompactRepoint
  <2> DEFINE k == Min(DOMAIN cItems)
  <2>1. /\ DOMAIN cItems # {}
        /\ index' = IF StillAt(k, cItems[k]) THEN [index EXCEPT ![k] = cMoved[k]] ELSE index
        /\ cItems' = Without(cItems, {k}) /\ cMoved' = Without(cMoved, {k})
        /\ UNCHANGED <<manifest, mergeSeq, gaps, cpc, cRetired, cSafe>>
    BY <1>3, Zenon DEF CompactRepoint, diskVars, histVars
  <2>2. k \in DOMAIN cItems /\ k \in Keys
    <3>1. DOMAIN cItems \in SUBSET Nat
      BY KeysAssumption, Zenon DEF MergeTyped
    <3> QED
      BY <2>1, <3>1, MinOfNaturals, Zenon DEF MergeTyped
  <2> HIDE DEF k
  <2>3. cMoved[k] \in Entry /\ RecordAt(k, cMoved[k]) /\ cMoved[k].file \in cOuts
    BY <1>2, <2>2, Zenon DEF MergeShape, MergeTyped
  <2>4. /\ index' \in [Keys -> Entry]
        /\ \A x \in Keys : index'[x] = index[x] \/ (x = k /\ index'[x] = cMoved[k])
    BY <2>1, <2>2, <2>3, ZenonT(30) DEF MemoryTyped
  <2>5. /\ DOMAIN cItems' = DOMAIN cItems \ {k} /\ \A x \in DOMAIN cItems' : cItems'[x] = cItems[x]
        /\ DOMAIN cMoved' = DOMAIN cMoved \ {k} /\ \A x \in DOMAIN cMoved' : cMoved'[x] = cMoved[x]
    BY <2>1, Zenon DEF Without
  <2>6. MemoryTyped' /\ HistoryTyped'
    BY <1>1, <2>1, <2>4, Zenon DEF MemoryTyped, HistoryTyped
  <2>7. MergeTyped'
    BY <1>1, <2>1, <2>5, Zenon DEF MergeTyped
  <2>8. IdsBelowNext'
    <3>1. cMoved[k].file < nextID /\ \A x \in Keys : index[x].file < nextID
      BY <2>3, Zenon DEF IdsBelowNext
    <3>2. \A x \in Keys : index'[x].file < nextID
      BY <2>4, <3>1, Zenon
    <3> QED
      BY <1>1, <3>2, Zenon DEF IdsBelowNext
  <2>9. IndexTruthful'
    BY <1>1, <2>3, <2>4, ZenonT(30) DEF IndexTruthful, RecordAt
  <2>10. MergeShape'
    <3>1. ASSUME NEW x \in DOMAIN cItems'
          PROVE  cItems'[x].file \in cMerge' /\ RecordAt(x, cItems[x])' /\ ~cItems'[x].tomb
      <4>1. x \in DOMAIN cItems /\ cItems'[x] = cItems[x]
        BY <2>5
      <4>2. cItems[x].file \in cMerge /\ RecordAt(x, cItems[x]) /\ ~cItems[x].tomb
        BY <4>1, Zenon DEF MergeShape
      <4> QED
        BY <1>1, <4>1, <4>2, ZenonT(30) DEF RecordAt
    <3>2. ASSUME NEW x \in DOMAIN cMoved'
          PROVE  /\ x \in DOMAIN cItems' /\ cMoved'[x].seq = cItems'[x].seq
                 /\ cMoved'[x].file \in cOuts' /\ RecordAt(x, cMoved[x])'
      <4>1. x \in DOMAIN cMoved /\ cMoved'[x] = cMoved[x] /\ x \in DOMAIN cItems' /\ cItems'[x] = cItems[x]
        BY <1>2, <2>5, Zenon
      <4>2. cMoved[x].seq = cItems[x].seq /\ cMoved[x].file \in cOuts /\ RecordAt(x, cMoved[x])
        BY <4>1, Zenon DEF MergeShape
      <4> QED
        BY <1>1, <4>1, <4>2, Zenon DEF RecordAt
    <3>3. DOMAIN cItems' = DOMAIN cMoved'
      BY <1>2, <2>5, Zenon
    <3> QED
      BY <1>1, <2>1, <3>1, <3>2, <3>3, Zenon DEF MergeShape
  <2> QED
    BY <1>1, <2>6, <2>7, <2>8, <2>9, <2>10, Frames, Zenon
<1>4. CASE CompactRetire
  <2> DEFINE k == Min(DOMAIN cRetired)
  <2>1. /\ DOMAIN cItems = {}
        /\ index' = IF StillAt(k, cRetired[k]) THEN [index EXCEPT ![k] = Absent] ELSE index
        /\ cRetired' = Without(cRetired, {k})
        /\ UNCHANGED <<manifest, mergeSeq, gaps, cpc, cItems, cMoved, cSafe>>
    BY <1>4, Zenon DEF CompactRetire, diskVars, histVars
  <2> HIDE DEF k
  <2>2. Absent \in Entry
    BY Zenon DEF Absent, Entry
  <2>3. Absent.file = 0 /\ Absent.seq = 0
    BY DEF Absent
  <2>4. /\ index' \in [Keys -> Entry]
        /\ \A x \in Keys : index'[x] = index[x] \/ index'[x] = Absent
    BY <2>1, <2>2, Zenon DEF MemoryTyped
  <2>5. /\ DOMAIN cRetired' = DOMAIN cRetired \ {k}
        /\ \A x \in DOMAIN cRetired' : cRetired'[x] = cRetired[x]
    BY <2>1, Zenon DEF Without
  <2>6. MemoryTyped' /\ HistoryTyped'
    BY <1>1, <2>1, <2>4, Zenon DEF MemoryTyped, HistoryTyped
  <2>7. MergeTyped'
    BY <1>1, <2>1, <2>5, Zenon DEF MergeTyped
  <2>8. IdsBelowNext'
    BY <1>1, <1>2, <2>3, <2>4, Zenon DEF IdsBelowNext
  <2>9. IndexTruthful'
    <3>1. \A x \in Keys : index'[x].seq > 0 => index'[x] = index[x]
      <4> HIDE DEF EngineInv, TypeOK
      <4> QED
        BY <2>3, <2>4, SMT
    <3> QED
      BY <1>1, <3>1, ZenonT(30) DEF IndexTruthful, RecordAt
  <2>10. MergeShape'
    BY <1>1, <2>1, Zenon DEF MergeShape, RecordAt
  <2> QED
    BY <1>1, <2>6, <2>7, <2>8, <2>9, <2>10, Frames
<1>5. CASE CompactMark
  <2>1. /\ DOMAIN cItems = {} /\ mergeSeq' = cBarrier /\ cpc' = "remove"
        /\ manifest' \in {manifest, cBarrier} /\ gaps' \subseteq gaps \cup {"manifest", "watermark"}
        /\ UNCHANGED <<index, cItems, cRetired, cMoved>>
    BY <1>5, Zenon DEF CompactMark, writeManifest, SetBack
  <2>2. cSafe' \in BOOLEAN
    BY <1>5, Zenon DEF CompactMark, writeManifest, SetBack, TombsLast
  <2>3. MemoryTyped' /\ HistoryTyped'
    BY <1>1, <2>1, Zenon DEF MemoryTyped, HistoryTyped, MergeTyped
  <2>4. MergeTyped'
    BY <1>1, <2>1, <2>2, Zenon DEF MergeTyped, Phases
  <2>5. IdsBelowNext'
    BY <1>1, <2>1, Zenon DEF IdsBelowNext
  <2>6. MergeShape'
    BY <1>1, <1>2, <2>1, Zenon DEF MergeShape
  <2> QED
    BY <1>1, <2>1, <2>3, <2>4, <2>5, <2>6, Frames, ZenonT(30)
<1> QED
  BY <1>3, <1>4, <1>5, Zenon
==============================================================================
