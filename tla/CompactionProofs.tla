-------------------------- MODULE CompactionProofs ---------------------------
(***************************************************************************)
(* Recovery keeps the inductive invariant of the engine, and the theorems  *)
(* that follow about every reachable state.                                *)
(***************************************************************************)
EXTENDS MergeProofs

\* A data directory the engine may find when it starts: the files it had, with
\* records it knew, and every file that has a hint as that hint describes it.
Startable(d, dur) ==
  /\ DOMAIN d = DOMAIN disk
  /\ \A id \in DOMAIN d : d[id] \in Seq(Record) /\ dur[id] \in 0..Len(d[id])
  /\ \A id \in DOMAIN d : \A i \in DOMAIN d[id] : d[id][i].seq <= seq
  /\ \A id \in DOMAIN d \cap DOMAIN hints : d[id] = hints[id] /\ dur[id] = Len(d[id])

\* The record a recovered index entry came from is in the file recovery keeps.
LEMMA RecoveredEntry ==
  ASSUME EngineInv, NEW d, NEW dur, Startable(d, dur), NEW h,
         h = removeOrphanHints(d, hints), NEW k \in Keys
  PROVE  /\ RecoveredIndex(d, h)[k] \in Entry
         /\ \/ RecoveredIndex(d, h)[k] = Absent
            \/ \E id \in DOMAIN d : \E i \in DOMAIN d[id] :
                 /\ d[id][i].key = k /\ RecoveredIndex(d, h)[k] = EntryOf(d[id][i], id, i)
                 /\ id \in DOMAIN h \/ i <= CommitLen(d[id])
<1> USE DEF EngineInv, TypeOK
<1> DEFINE all == UNION {Replayed(d, h, id) : id \in DOMAIN d}
           ents == {r.ent : r \in {a \in all : a.key = k}}
<1>1. /\ DOMAIN h \subseteq DOMAIN d /\ \A id \in DOMAIN h : h[id] = d[id]
      /\ DOMAIN d \subseteq Nat /\ seq \in Nat
  BY DEF removeOrphanHints, Startable, DiskTyped, MemoryTyped
<1>2. ASSUME NEW e \in ents
      PROVE  /\ e \in Entry /\ e.seq <= seq
             /\ \E id \in DOMAIN d : \E i \in DOMAIN d[id] :
                  /\ d[id][i].key = k /\ e = EntryOf(d[id][i], id, i)
                  /\ id \in DOMAIN h \/ i <= CommitLen(d[id])
  <2>1. PICK id \in DOMAIN d : \E r \in Replayed(d, h, id) : r.key = k /\ e = r.ent
    OBVIOUS
  <2>2. d[id] \in Seq(Record) /\ id \in Nat
    BY <1>1 DEF Startable
  <2>3. PICK i \in DOMAIN d[id] :
          /\ d[id][i].key = k /\ e = EntryOf(d[id][i], id, i)
          /\ id \in DOMAIN h \/ i \in Applied(d[id])
    <3>1. CASE id \in DOMAIN h
      BY <2>1, <3>1, <1>1 DEF Replayed
    <3>2. CASE id \notin DOMAIN h
      <4>1. Replayed(d, h, id) =
              {[key |-> d[id][i].key, ent |-> EntryOf(d[id][i], id, i)] : i \in Applied(d[id])}
        BY <3>2 DEF Replayed
      <4>2. Applied(d[id]) \subseteq DOMAIN d[id]
        BY DEF Applied
      <4> QED
        BY <2>1, <4>1, <4>2
    <3> QED
      BY <3>1, <3>2
  <2>4. d[id][i].seq \in Nat /\ d[id][i].tomb \in BOOLEAN /\ i \in Nat
    BY <2>2, RecordAtPosition
  <2>5. e \in Entry
    BY <2>2, <2>3, <2>4, Zenon DEF EntryOf, Entry
  <2>6. e.seq = d[id][i].seq /\ d[id][i].seq <= seq
    BY <2>3 DEF EntryOf, Startable
  <2>7. i \in Applied(d[id]) => i <= CommitLen(d[id])
    BY <2>2, CommitCoversApplied
  <2> QED
    BY <2>3, <2>5, <2>6, <2>7
<1>3. RecoveredIndex(d, h)[k] = ApplyEntries(Absent, ents)
  BY DEF RecoveredIndex
<1>4. Absent \in Entry
  BY Zenon DEF Absent, Entry
<1> HIDE DEF ents
<1>5. ents \in SUBSET Entry /\ \A e \in ents : e.seq <= seq
  BY <1>2
<1>6. ApplyEntries(Absent, ents) \in {Absent} \cup ents
  BY <1>1, <1>4, <1>5, ApplyEntriesResult
<1> QED
  BY <1>2, <1>3, <1>4, <1>6

\* The number recovery resumes at covers every record it found.
LEMMA RecoveredSeqCovers ==
  ASSUME EngineInv, NEW d, NEW dur, Startable(d, dur), NEW h,
         h = removeOrphanHints(d, hints)
  PROVE  /\ RecoveredSeq(d, h) \in Nat
         /\ \A id \in DOMAIN d : \A i \in DOMAIN d[id] : d[id][i].seq <= RecoveredSeq(d, h)
<1> USE DEF EngineInv, TypeOK
<1> DEFINE recs(id) == IF id \in DOMAIN h THEN h[id] ELSE d[id]
           S == {0} \cup UNION {{recs(id)[i].seq : i \in DOMAIN recs(id)} : id \in DOMAIN d}
<1>1. \A id \in DOMAIN d : recs(id) = d[id]
  BY DEF removeOrphanHints, Startable
<1>2. \A id \in DOMAIN d : \A i \in DOMAIN d[id] : d[id][i].seq \in Nat /\ d[id][i].seq <= seq
  BY RecordAtPosition DEF Startable
<1>3. seq \in Nat
  BY DEF MemoryTyped
<1>4. RecoveredSeq(d, h) = Max(S)
  BY DEF RecoveredSeq
<1>5. \A id \in DOMAIN d : \A i \in DOMAIN d[id] : d[id][i].seq \in S
  BY <1>1
<1> HIDE DEF recs
<1>6. \A x \in S : x \in Nat /\ x <= seq
  <2> TAKE x \in S
  <2>1. CASE x = 0
    BY <2>1, <1>3
  <2>2. CASE x # 0
    <3>1. PICK id \in DOMAIN d : x \in {recs(id)[i].seq : i \in DOMAIN recs(id)}
      BY <2>2
    <3> QED
      BY <3>1, <1>1, <1>2
  <2> QED
    BY <2>1, <2>2
<1>7. S # {}
  OBVIOUS
<1> HIDE DEF S
<1>8. Max(S) \in S /\ \A x \in S : x <= Max(S)
  BY <1>3, <1>6, <1>7, MaxOfBounded, Zenon
<1> QED
  BY <1>4, <1>5, <1>6, <1>8

\* Recovery cuts the last file back to its commit offset at most, and leaves
\* every file that has a hint alone.
LEMMA TruncatedFacts ==
  ASSUME EngineInv, NEW d, NEW dur, Startable(d, dur), NEW h,
         h = removeOrphanHints(d, hints)
  PROVE  /\ DOMAIN Truncated(d, h) = DOMAIN d
         /\ \A id \in DOMAIN d :
              /\ Truncated(d, h)[id] \in Seq(Record)
              /\ Len(Truncated(d, h)[id]) <= Len(d[id])
              /\ \A i \in DOMAIN Truncated(d, h)[id] :
                   i \in DOMAIN d[id] /\ Truncated(d, h)[id][i] = d[id][i]
              /\ id \in DOMAIN h => Truncated(d, h)[id] = d[id]
              /\ \A i \in DOMAIN d[id] :
                   i <= CommitLen(d[id]) => i \in DOMAIN Truncated(d, h)[id]
<1>1. DOMAIN Truncated(d, h) = DOMAIN d
  BY DEF Truncated
<1>2. ASSUME NEW id \in DOMAIN d
      PROVE  /\ Truncated(d, h)[id] \in Seq(Record)
             /\ Len(Truncated(d, h)[id]) <= Len(d[id])
             /\ \A i \in DOMAIN Truncated(d, h)[id] :
                  i \in DOMAIN d[id] /\ Truncated(d, h)[id][i] = d[id][i]
             /\ id \in DOMAIN h => Truncated(d, h)[id] = d[id]
             /\ \A i \in DOMAIN d[id] :
                  i <= CommitLen(d[id]) => i \in DOMAIN Truncated(d, h)[id]
  <2>1. d[id] \in Seq(Record) /\ CommitLen(d[id]) \in 0..Len(d[id])
    BY CommitCoversApplied DEF Startable
  <2>2. CASE id = Max(DOMAIN d) /\ id \notin DOMAIN h
    <3>1. Truncated(d, h)[id] = SubSeq(d[id], 1, CommitLen(d[id]))
      BY <2>2, Zenon DEF Truncated
    <3> QED
      BY <2>1, <2>2, <3>1
  <2>3. CASE ~(id = Max(DOMAIN d) /\ id \notin DOMAIN h)
    <3>1. Truncated(d, h)[id] = d[id]
      BY <2>3 DEF Truncated
    <3> QED
      BY <2>1, <3>1
  <2> QED
    BY <2>2, <2>3
<1> QED
  BY <1>1, <1>2

\* Opening the store on any directory a crash can leave establishes the
\* invariant again.
LEMMA RecoverInv ==
  ASSUME EngineInv, NEW d, NEW dur, Startable(d, dur), Recover(d, dur), EndMerge, UNCHANGED merges
  PROVE  EngineInv'
<1> USE DEF EngineInv, TypeOK
<1> DEFINE h == removeOrphanHints(d, hints)
           kept == Truncated(d, h)
           keptDur == [id \in DOMAIN d |->
                         IF Len(kept[id]) < Len(d[id]) THEN Len(kept[id]) ELSE dur[id]]
           next == Max({0} \cup {id + 1 : id \in DOMAIN d})
           last == Max(DOMAIN d)
<1>1. /\ index' = RecoveredIndex(d, h) /\ seq' = RecoveredSeq(d, h) /\ hints' = h
      /\ mergeSeq' = manifest /\ dirty' = FALSE /\ hintQ' = [id \in {} |-> <<>>] /\ wrecs' = <<>>
      /\ deleting' = [k \in Keys |-> 0] /\ crashes' = crashes + 1
      /\ UNCHANGED <<manifest, acked, gaps>>
  BY ZenonT(30) DEF Recover
<1>2. \/ /\ Reuse(d, h) /\ disk' = kept /\ synced' = keptDur
         /\ active' = last /\ nextID' = next
      \/ /\ disk' = With(kept, next, <<>>) /\ synced' = With(keptDur, next, 0)
         /\ active' = next /\ nextID' = next + 1
  BY DEF Recover
<1>3. /\ DOMAIN kept = DOMAIN d
      /\ \A id \in DOMAIN d :
           /\ kept[id] \in Seq(Record) /\ Len(kept[id]) <= Len(d[id])
           /\ \A i \in DOMAIN kept[id] : i \in DOMAIN d[id] /\ kept[id][i] = d[id][i]
           /\ id \in DOMAIN h => kept[id] = d[id]
           /\ \A i \in DOMAIN d[id] : i <= CommitLen(d[id]) => i \in DOMAIN kept[id]
  BY TruncatedFacts
<1>4. /\ DOMAIN h = DOMAIN hints \cap DOMAIN d /\ \A id \in DOMAIN h : h[id] = d[id] /\ dur[id] = Len(d[id])
      /\ DOMAIN d \subseteq Nat /\ nextID \in Nat /\ \A id \in DOMAIN d : id < nextID
  BY DEF removeOrphanHints, Startable, DiskTyped, MemoryTyped, IdsBelowNext
<1>5. \A k \in Keys :
        /\ RecoveredIndex(d, h)[k] \in Entry
        /\ \/ RecoveredIndex(d, h)[k] = Absent
           \/ \E id \in DOMAIN d : \E i \in DOMAIN d[id] :
                /\ d[id][i].key = k /\ RecoveredIndex(d, h)[k] = EntryOf(d[id][i], id, i)
                /\ id \in DOMAIN h \/ i <= CommitLen(d[id])
  BY RecoveredEntry
<1>6. /\ RecoveredSeq(d, h) \in Nat
      /\ \A id \in DOMAIN d : \A i \in DOMAIN d[id] : d[id][i].seq <= RecoveredSeq(d, h)
  BY RecoveredSeqCovers
<1>7. index' = [k \in Keys |-> index'[k]]
  BY <1>1 DEF RecoveredIndex
<1>8. next \in Nat /\ \A id \in DOMAIN d : id < next
  <2> DEFINE S == {0} \cup {id + 1 : id \in DOMAIN d}
  <2>1. S \in SUBSET Nat /\ S # {} /\ \A x \in S : x <= nextID
    BY <1>4
  <2>2. \A id \in DOMAIN d : id + 1 \in S
    OBVIOUS
  <2> HIDE DEF S
  <2>3. Max(S) \in S /\ \A x \in S : x <= Max(S)
    BY <1>4, <2>1, MaxOfBounded, Zenon
  <2>4. next = Max(S)
    BY DEF S
  <2> HIDE DEF next
  <2>5. next \in Nat
    BY <2>1, <2>3, <2>4, Zenon
  <2>6. \A id \in DOMAIN d : id + 1 <= next /\ id \in Nat
    BY <1>4, <2>2, <2>3, <2>4
  <2> QED
    BY <2>5, <2>6
<1>9. Reuse(d, h) => last \in DOMAIN d /\ last \notin DOMAIN h
  <2> SUFFICES ASSUME Reuse(d, h) PROVE last \in DOMAIN d /\ last \notin DOMAIN h
    OBVIOUS
  <2>1. DOMAIN d # {} /\ DOMAIN d \in SUBSET Nat /\ \A x \in DOMAIN d : x <= nextID
    BY <1>4 DEF Reuse
  <2>2. Max(DOMAIN d) \in DOMAIN d
    BY <2>1, <1>4, MaxOfBounded, Zenon
  <2> QED
    BY <2>2 DEF Reuse
<1>10. \A id \in DOMAIN d :
         /\ keptDur[id] \in 0..Len(kept[id])
         /\ id \in DOMAIN h => keptDur[id] = Len(kept[id])
  <2> TAKE id \in DOMAIN d
  <2>1. dur[id] \in 0..Len(d[id]) /\ d[id] \in Seq(Record)
    BY DEF Startable
  <2>2. keptDur[id] = IF Len(kept[id]) < Len(d[id]) THEN Len(kept[id]) ELSE dur[id]
    OBVIOUS
  <2>3. kept[id] \in Seq(Record) /\ Len(kept[id]) <= Len(d[id]) /\ (id \in DOMAIN h => kept[id] = d[id])
    BY <1>3
  <2>4. Len(kept[id]) \in Nat /\ Len(d[id]) \in Nat
    BY <2>1, <2>3
  <2>5. id \in DOMAIN h => dur[id] = Len(d[id])
    BY <1>4
  <2> HIDE DEF kept, keptDur, h
  <2> QED
    BY <2>1, <2>2, <2>3, <2>4, <2>5
<1>11. DOMAIN keptDur = DOMAIN d
  OBVIOUS
<1> HIDE DEF h, kept, keptDur, next, last
<1>12. /\ DOMAIN disk' \in {DOMAIN d, DOMAIN d \cup {next}} /\ DOMAIN synced' = DOMAIN disk'
       /\ \A id \in DOMAIN d : disk'[id] = kept[id] /\ synced'[id] = keptDur[id]
       /\ \A id \in DOMAIN disk' : id \notin DOMAIN d => id = next /\ disk'[id] = <<>> /\ synced'[id] = 0
       /\ \A id \in DOMAIN disk' : id < nextID'
       /\ active' \in Nat /\ nextID' \in Nat /\ active' < nextID' /\ next <= nextID'
       /\ active' \notin DOMAIN h
  <2>1. CASE Reuse(d, h) /\ disk' = kept /\ synced' = keptDur /\ active' = last /\ nextID' = next
    <3>1. DOMAIN disk' = DOMAIN d /\ DOMAIN synced' = DOMAIN d
      BY <2>1, <1>3, <1>11, Zenon
    <3>2. last \in DOMAIN d /\ last \notin DOMAIN h
      BY <2>1, <1>9, Zenon
    <3>3. last \in Nat /\ last < next /\ next <= next
      BY <1>4, <1>8, <3>2
    <3> QED
      BY <2>1, <3>1, <3>2, <3>3, <1>8, Zenon
  <2>2. CASE /\ disk' = With(kept, next, <<>>) /\ synced' = With(keptDur, next, 0)
             /\ active' = next /\ nextID' = next + 1
    <3>1. next \notin DOMAIN d
      BY <1>8, SMTT(30)
    <3>2. /\ DOMAIN disk' = DOMAIN d \cup {next} /\ DOMAIN synced' = DOMAIN d \cup {next}
          /\ disk'[next] = <<>> /\ synced'[next] = 0
          /\ \A id \in DOMAIN d : disk'[id] = kept[id] /\ synced'[id] = keptDur[id]
      BY <2>2, <3>1, <1>3, <1>11 DEF With
    <3>3. \A id \in DOMAIN d \cup {next} : id < nextID'
      BY <2>2, <1>4, <1>8
    <3> QED
      BY <2>2, <3>1, <3>2, <3>3, <1>4, <1>8, SMTT(30)
  <2> QED
    BY <1>2, <2>1, <2>2
<1>13. /\ MergeTyped' /\ MergeShape' /\ cActive' = 0 /\ cMerge' = {} /\ cOuts' = {}
  BY EndMergeFacts
<1>14. DiskTyped'
  <2>1. DOMAIN disk' \subseteq Nat
    BY <1>4, <1>8, <1>12
  <2>2. ASSUME NEW id \in DOMAIN disk'
        PROVE  disk'[id] \in Seq(Record) /\ synced'[id] \in 0..Len(disk'[id])
    <3>1. CASE id \in DOMAIN d
      BY <3>1, <1>3, <1>10, <1>12
    <3>2. CASE id \notin DOMAIN d
      <4>1. disk'[id] = <<>> /\ synced'[id] = 0
        BY <3>2, <1>12
      <4>2. <<>> \in Seq(Record) /\ Len(<<>>) = 0
        OBVIOUS
      <4> QED
        BY <4>1, <4>2
    <3> QED
      BY <3>1, <3>2
  <2> QED
    BY <1>12, <2>1, <2>2 DEF DiskTyped
<1>15. HintsTyped'
  <2>1. \A id \in DOMAIN h : h[id] \in Seq(Record) /\ id \in Nat
    BY <1>4 DEF Startable
  <2> QED
    BY <1>1, <2>1 DEF HintsTyped
<1>16. MemoryTyped'
  <2>1. index' \in [Keys -> Entry]
    BY <1>1, <1>5, <1>7, ZenonT(30)
  <2>2. wrecs' \in Seq(Record)
    <3>1. wrecs' = <<>> /\ <<>> \in Seq(Record)
      BY <1>1
    <3> QED
      BY <3>1
  <2>3. deleting' \in [Keys -> Nat]
    <3>1. deleting' = [k \in Keys |-> 0]
      BY <1>1
    <3> QED
      BY <3>1
  <2>4. dirty' \in BOOLEAN
    <3>1. dirty' = FALSE
      BY <1>1
    <3> QED
      BY <3>1, Zenon
  <2> QED
    BY <1>1, <1>6, <1>12, <2>1, <2>2, <2>3, <2>4 DEF MemoryTyped
<1>17. HistoryTyped'
  BY <1>1 DEF HistoryTyped
<1>18. IdsBelowNext'
  <2>1. ASSUME NEW k \in Keys PROVE index'[k].file < nextID'
    <3>1. CASE index'[k] = Absent
      BY <3>1, <1>12 DEF Absent
    <3>2. ASSUME NEW id \in DOMAIN d, NEW i \in DOMAIN d[id], index'[k] = EntryOf(d[id][i], id, i)
          PROVE  index'[k].file < nextID'
      <4>1. index'[k].file = id /\ id \in DOMAIN disk'
        BY <3>2, <1>12 DEF EntryOf
      <4> QED
        BY <4>1, <1>12
    <3> QED
      BY <1>1, <1>5, <3>1, <3>2, Zenon
  <2>2. DOMAIN hints' \subseteq DOMAIN disk' /\ DOMAIN hintQ' = {}
    BY <1>1, <1>4, <1>12
  <2> QED
    BY <1>12, <1>13, <2>1, <2>2 DEF IdsBelowNext
<1>19. LogBelowSeq'
  <2>1. ASSUME NEW id \in DOMAIN disk', NEW i \in DOMAIN disk'[id] PROVE disk'[id][i].seq <= seq'
    <3>1. id \in DOMAIN d
      <4>1. id \notin DOMAIN d => disk'[id] = <<>>
        BY <1>12, Zenon
      <4>2. DOMAIN <<>> = {}
        OBVIOUS
      <4> QED
        BY <4>1, <4>2, Zenon
    <3>2. disk'[id] = kept[id]
      BY <3>1, <1>12, Zenon
    <3>3. i \in DOMAIN d[id] /\ disk'[id][i] = d[id][i]
      BY <3>1, <3>2, <1>3, Zenon
    <3>4. seq' = RecoveredSeq(d, h)
      BY <1>1, Zenon
    <3> QED
      BY <3>1, <3>3, <3>4, <1>6, Zenon
  <2> QED
    BY <1>1, <2>1 DEF LogBelowSeq
<1>20. IndexTruthful'
  <2> SUFFICES ASSUME NEW k \in Keys, index'[k].seq > 0 PROVE RecordAt(k, index[k])'
    BY Zenon DEF IndexTruthful
  <2>1. index'[k] # Absent
    BY DEF Absent
  <2>2. PICK id \in DOMAIN d : \E i \in DOMAIN d[id] :
          /\ d[id][i].key = k /\ index'[k] = EntryOf(d[id][i], id, i)
          /\ id \in DOMAIN h \/ i <= CommitLen(d[id])
    BY <2>1, <1>1, <1>5
  <2>3. PICK i \in DOMAIN d[id] :
          /\ d[id][i].key = k /\ index'[k] = EntryOf(d[id][i], id, i)
          /\ id \in DOMAIN h \/ i <= CommitLen(d[id])
    BY <2>2, Zenon
  <2>4. i \in DOMAIN kept[id] /\ kept[id][i] = d[id][i]
    BY <2>3, <1>3, Zenon
  <2>5. id \in DOMAIN disk' /\ disk'[id] = kept[id]
    BY <1>12, Zenon
  <2>6. /\ index'[k].file = id /\ index'[k].pos = i
        /\ index'[k].seq = d[id][i].seq /\ index'[k].tomb = d[id][i].tomb
    BY <2>3 DEF EntryOf
  <2>7. i \in DOMAIN disk'[id] /\ disk'[id][i] = d[id][i] /\ d[id][i].key = k
    BY <2>3, <2>4, <2>5, Zenon
  <2> QED
    BY <2>5, <2>6, <2>7, Zenon DEF RecordAt
<1>21. HintMatchesData'
  <2> SUFFICES ASSUME NEW id \in DOMAIN h
               PROVE  h[id] = disk'[id] /\ synced'[id] = Len(disk'[id]) /\ id # active'
    BY <1>1, ZenonT(30) DEF HintMatchesData
  <2> QED
    BY <1>3, <1>4, <1>10, <1>12, Zenon
<1>22. HintsInProgress'
  BY <1>1, Zenon DEF HintsInProgress
<1> QED
  BY <1>13, <1>14, <1>15, <1>16, <1>17, <1>18, <1>19, <1>20, <1>21, <1>22

\* What a file holds when the process dies with n records of a write out.
LEMMA TornFacts ==
  ASSUME EngineInv, NEW n \in 0..Len(wrecs)
  PROVE  /\ DOMAIN Torn(n) = DOMAIN disk
         /\ \A id \in DOMAIN disk :
              /\ Torn(n)[id] \in Seq(Record) /\ Len(Torn(n)[id]) >= Len(disk[id])
              /\ \A i \in DOMAIN Torn(n)[id] : Torn(n)[id][i].seq <= seq
              /\ id \in DOMAIN hints => Torn(n)[id] = hints[id] /\ Torn(n)[id] = disk[id]
<1> USE DEF EngineInv, TypeOK
<1>1. DOMAIN Torn(n) = DOMAIN disk
  BY DEF Torn
<1>2. ASSUME NEW id \in DOMAIN disk
      PROVE  /\ Torn(n)[id] \in Seq(Record) /\ Len(Torn(n)[id]) >= Len(disk[id])
             /\ \A i \in DOMAIN Torn(n)[id] : Torn(n)[id][i].seq <= seq
             /\ id \in DOMAIN hints => Torn(n)[id] = hints[id] /\ Torn(n)[id] = disk[id]
  <2>1. disk[id] \in Seq(Record) /\ wrecs \in Seq(Record)
    BY DEF DiskTyped, MemoryTyped
  <2>2. CASE id # active
    <3>1. Torn(n)[id] = disk[id]
      BY <2>2 DEF Torn
    <3> QED
      BY <2>1, <3>1 DEF LogBelowSeq, HintMatchesData
  <2>3. CASE id = active
    <3> DEFINE cut == SubSeq(wrecs, 1, n)
    <3>1. Torn(n)[id] = disk[id] \o cut
      BY <2>3 DEF Torn
    <3>2. cut \in Seq(Record) /\ Len(cut) = n /\ \A i \in 1..n : cut[i] = wrecs[i]
      BY <2>1
    <3> HIDE DEF cut
    <3>3. /\ Torn(n)[id] \in Seq(Record) /\ Len(Torn(n)[id]) = Len(disk[id]) + n
          /\ \A i \in 1..Len(disk[id]) : Torn(n)[id][i] = disk[id][i]
          /\ \A i \in 1..n : Torn(n)[id][Len(disk[id]) + i] = cut[i]
      <4> DEFINE s == disk[id]
      <4>1. s \in Seq(Record) /\ cut \in Seq(Record) /\ Len(cut) = n
        BY <2>1, <3>2
      <4> HIDE DEF s
      <4>2. /\ s \o cut \in Seq(Record) /\ Len(s \o cut) = Len(s) + n
            /\ \A i \in 1..Len(s) : (s \o cut)[i] = s[i]
            /\ \A i \in 1..n : (s \o cut)[Len(s) + i] = cut[i]
        BY <4>1
      <4> QED
        BY <3>1, <4>2 DEF s
    <3>4. ASSUME NEW i \in DOMAIN Torn(n)[id] PROVE Torn(n)[id][i].seq <= seq
      <4>0. i \in 1..(Len(disk[id]) + n) /\ Len(disk[id]) \in Nat /\ n \in Nat
        BY <2>1, <3>3
      <4>1. CASE i <= Len(disk[id])
        <5>1. i \in DOMAIN disk[id] /\ Torn(n)[id][i] = disk[id][i]
          BY <2>1, <4>0, <4>1, <3>3
        <5> QED
          BY <5>1 DEF LogBelowSeq
      <4>2. CASE ~(i <= Len(disk[id]))
        <5> DEFINE j == i - Len(disk[id])
        <5>1. j \in 1..n /\ i = Len(disk[id]) + j
          BY <4>0, <4>2
        <5> HIDE DEF j
        <5>2. Torn(n)[id][i] = wrecs[j] /\ j \in DOMAIN wrecs
          BY <5>1, <3>2, <3>3, <2>1, SMTT(30)
        <5> QED
          BY <5>2 DEF LogBelowSeq
      <4> QED
        BY <4>1, <4>2
    <3>5. id \notin DOMAIN hints
      BY <2>3 DEF HintMatchesData
    <3> QED
      BY <2>1, <3>3, <3>4, <3>5
  <2> QED
    BY <2>2, <2>3, Zenon
<1> QED
  BY <1>1, <1>2

\* A crash, of the process or of the machine, followed by recovery keeps the
\* invariant.
LEMMA CrashInv ==
  ASSUME EngineInv, Crash
  PROVE  EngineInv'
<1> USE DEF EngineInv, TypeOK
<1>0. EndMerge /\ UNCHANGED merges
  BY DEF Crash
<1>1. CASE Kill
  <2>1. PICK n \in 0..Len(wrecs) : Recover(Torn(n), synced)
    BY <1>1 DEF Kill
  <2>2. /\ DOMAIN Torn(n) = DOMAIN disk
        /\ \A id \in DOMAIN disk :
             /\ Torn(n)[id] \in Seq(Record) /\ Len(Torn(n)[id]) >= Len(disk[id])
             /\ \A i \in DOMAIN Torn(n)[id] : Torn(n)[id][i].seq <= seq
             /\ id \in DOMAIN hints => Torn(n)[id] = hints[id] /\ Torn(n)[id] = disk[id]
    BY TornFacts
  <2>3. \A id \in DOMAIN disk : synced[id] \in 0..Len(Torn(n)[id])
    <3> TAKE id \in DOMAIN disk
    <3>1. synced[id] \in 0..Len(disk[id]) /\ Len(disk[id]) \in Nat
      BY DEF DiskTyped
    <3>2. Len(Torn(n)[id]) \in Nat /\ Len(Torn(n)[id]) >= Len(disk[id])
      BY <2>2
    <3> QED
      BY <3>1, <3>2
  <2>4. Startable(Torn(n), synced)
    BY <2>2, <2>3, SMTT(30) DEF Startable, HintMatchesData
  <2> QED
    BY <1>0, <2>1, <2>4, RecoverInv
<1>2. CASE PowerLoss
  <2> DEFINE torn == Torn(Len(wrecs))
             atRisk == {id \in DOMAIN disk : synced[id] < Len(torn[id])}
             left(cut) == [id \in DOMAIN disk |-> IF id \in atRisk THEN cut[id] ELSE Len(torn[id])]
             d(cut) == [id \in DOMAIN disk |-> SubSeq(torn[id], 1, left(cut)[id])]
  <2>1. PICK cut : /\ \A id \in atRisk : cut[id] \in synced[id]..Len(torn[id])
                   /\ Recover(d(cut), left(cut))
    BY <1>2, ZenonT(30) DEF PowerLoss
  <2>2. Len(wrecs) \in 0..Len(wrecs)
    BY DEF MemoryTyped
  <2>3. /\ DOMAIN torn = DOMAIN disk
        /\ \A id \in DOMAIN disk :
             /\ torn[id] \in Seq(Record) /\ Len(torn[id]) >= Len(disk[id])
             /\ \A i \in DOMAIN torn[id] : torn[id][i].seq <= seq
             /\ id \in DOMAIN hints => torn[id] = hints[id] /\ torn[id] = disk[id]
    BY <2>2, TornFacts
  <2> HIDE DEF torn
  <2>4. ASSUME NEW id \in DOMAIN disk
        PROVE  /\ d(cut)[id] \in Seq(Record) /\ left(cut)[id] \in 0..Len(d(cut)[id])
               /\ \A i \in DOMAIN d(cut)[id] : d(cut)[id][i].seq <= seq
               /\ id \in DOMAIN hints => d(cut)[id] = hints[id] /\ left(cut)[id] = Len(d(cut)[id])
    <3> DEFINE m == left(cut)[id]
    <3>1. torn[id] \in Seq(Record) /\ Len(torn[id]) \in Nat /\ synced[id] \in Nat
      BY <2>3, SMTT(30) DEF DiskTyped
    <3>2. m \in 0..Len(torn[id])
      <4>1. CASE id \in atRisk
        <5>1. cut[id] \in synced[id]..Len(torn[id]) /\ m = cut[id]
          BY <4>1, <2>1, Zenon
        <5> QED
          BY <5>1, <3>1, SMTT(30)
      <4>2. CASE id \notin atRisk
        BY <4>2, <3>1
      <4> QED
        BY <4>1, <4>2, Zenon
    <3>3. d(cut)[id] = SubSeq(torn[id], 1, m)
      BY Zenon
    <3>4. id \in DOMAIN hints => m = Len(torn[id]) /\ torn[id] = hints[id]
      <4> SUFFICES ASSUME id \in DOMAIN hints PROVE m = Len(torn[id]) /\ torn[id] = hints[id]
        OBVIOUS
      <4>1. torn[id] = hints[id] /\ torn[id] = disk[id]
        BY <2>3
      <4>2. synced[id] = Len(torn[id])
        BY <4>1 DEF HintMatchesData
      <4>3. id \notin atRisk
        BY <3>1, <4>2
      <4> QED
        BY <4>1, <4>3
    <3> HIDE DEF m, left, d
    <3>5. /\ SubSeq(torn[id], 1, m) \in Seq(Record) /\ Len(SubSeq(torn[id], 1, m)) = m
          /\ \A i \in 1..m : i \in DOMAIN torn[id] /\ SubSeq(torn[id], 1, m)[i] = torn[id][i]
      BY <3>1, <3>2
    <3>6. m = Len(torn[id]) => SubSeq(torn[id], 1, m) = torn[id]
      BY <3>1, <3>5
    <3>7. \A i \in DOMAIN SubSeq(torn[id], 1, m) : SubSeq(torn[id], 1, m)[i].seq <= seq
      BY <2>3, <3>5
    <3>8. m \in 0..m
      BY <3>1, <3>2
    <3> QED
      BY <3>3, <3>4, <3>5, <3>6, <3>7, <3>8, Zenon DEF m
  <2>5. DOMAIN d(cut) = DOMAIN disk
    OBVIOUS
  <2> HIDE DEF d, left
  <2>6. Startable(d(cut), left(cut))
    BY <2>4, <2>5, Zenon DEF Startable
  <2> QED
    BY <1>0, <2>1, <2>6, RecoverInv, Zenon
<1> QED
  BY <1>1, <1>2 DEF Crash

\* Every step of the engine keeps the invariant.
LEMMA NextInv ==
  ASSUME EngineInv, [Next]_vars
  PROVE  EngineInv'
<1>1. CASE Writer /\ UNCHANGED <<compVars, merges>>
  <2>1. CASE \/ \E n \in 1..MaxBatch : RotateFails(n)
             \/ RotateFails(0)
    BY <1>1, <2>1, RotateFailsInv, StoreAssumption
  <2>2. CASE ~ \/ \E n \in 1..MaxBatch : RotateFails(n)
               \/ RotateFails(0)
    BY <1>1, <2>2, ClientWriteInv, NoWriteInv, FinishWriteInv, FailSyncInv, StrandedInv DEF Writer
  <2> QED
    BY <2>1, <2>2
<1>2. CASE Background /\ UNCHANGED <<compVars, merges>>
  BY <1>2, BackgroundInv
<1>3. CASE Merge
  BY <1>3, CompactSealInv, CompactListInv, CompactSnapshotInv, CompactCopyInv, CompactPublishInv,
     CompactAbortInv, CompactIndexInv, CompactRemoveInv DEF Merge
<1>4. CASE Crash
  BY <1>4, CrashInv, Zenon
<1>5. CASE UNCHANGED vars
  <2>1. /\ UNCHANGED <<disk, synced, hints, manifest, index, seq, nextID, active, mergeSeq, dirty,
                       hintQ, wrecs, deleting, acked, gaps, crashes, merges>>
        /\ UNCHANGED compVars /\ UNCHANGED <<cActive, cMerge, cOuts>>
    BY <1>5, Zenon DEF vars, compVars
  <2>2. MemoryTyped'
    BY <2>1, SMTT(30) DEF EngineInv, TypeOK, MemoryTyped
  <2> QED
    BY <2>1, <2>2, Frames, Zenon DEF EngineInv, TypeOK
<1> QED
  BY <1>1, <1>2, <1>3, <1>4, <1>5 DEF Next

\* The inductive invariant holds in every reachable state of the engine.
THEOREM EngineInvariant == Spec => []EngineInv
<1>1. Init => EngineInv
  BY InitInv
<1>2. EngineInv /\ [Next]_vars => EngineInv'
  BY NextInv
<1> QED
  BY <1>1, <1>2, PTL DEF Spec

\* Every variable keeps its type: in particular fsync never covers more of a
\* file than it holds and file ids stay naturals through merges and restarts.
THEOREM TypeCorrect == Spec => []TypeOK
<1>1. EngineInv => TypeOK
  BY DEF EngineInv
<1> QED
  BY <1>1, EngineInvariant, PTL

\* An index entry never names the wrong record, however writers, rotation,
\* hint building, merging, failures and crashes interleave: readValue returns
\* the value of the key it was asked for.
THEOREM IndexNeverLies == Spec => []IndexTruthful
<1>1. EngineInv => IndexTruthful
  BY DEF EngineInv
<1> QED
  BY <1>1, EngineInvariant, PTL

\* A hint file beside a data file lists exactly that file's records, all of
\* them durable, although ids of removed files are used again after a restart.
THEOREM HintsNeverStale == Spec => []HintMatchesData
<1>1. EngineInv => HintMatchesData
  BY DEF EngineInv
<1> QED
  BY <1>1, EngineInvariant, PTL
==============================================================================
