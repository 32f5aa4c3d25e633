----------------------------- MODULE Compaction ------------------------------
(***************************************************************************)
(* The storage engine with its merge (internal/engine/compact.go) running  *)
(* beside writers, hint builders and crashes.                              *)
(*                                                                         *)
(* compactMu lets one merge run at a time: it is held while cpc # "idle".  *)
(* The merge takes wmu to seal the active file and to draw file ids, mu    *)
(* for each chunk of keys it repoints or retires (a chunk is one key here, *)
(* the finest interleaving), and fmu exclusively while it removes the old  *)
(* files: nobody can open a new active file then.                          *)
(***************************************************************************)
EXTENDS Store

CONSTANT MaxMerges   \* bound on the merges a run starts

ASSUME MergeAssumption == MaxMerges \in Nat

VARIABLES
  cpc,       \* where Compact is
  cActive, cBarrier,
  cMerge,    \* mergeIDs, less the files already removed
  cItems,    \* items still to be repointed: key -> entry
  cRetired,  \* tombstones still to be retired: key -> entry
  cMoved,    \* moved: key -> its entry in the merged files
  cOuts,     \* ids of the merged files
  cSafe,     \* history: removing the files in id order keeps deletions deleted
  merges

compVars == <<cpc, cActive, cBarrier, cMerge, cItems, cRetired, cMoved, cOuts, cSafe>>
vars == <<disk, synced, hints, manifest,
          index, seq, nextID, active, mergeSeq, dirty, hintQ, wrecs, deleting,
          acked, gaps, crashes,
          cpc, cActive, cBarrier, cMerge, cItems, cRetired, cMoved, cOuts, cSafe, merges>>

NoEntries == [k \in {} |-> Absent]

MergeIdle ==
  /\ cpc = "idle" /\ cActive = 0 /\ cBarrier = 0 /\ cMerge = {}
  /\ cItems = NoEntries /\ cRetired = NoEntries /\ cMoved = NoEntries
  /\ cOuts = {} /\ cSafe = TRUE

Init == StoreInit /\ MergeIdle /\ merges = 0

EndMerge ==
  /\ cpc' = "idle" /\ cActive' = 0 /\ cBarrier' = 0 /\ cMerge' = {}
  /\ cItems' = NoEntries /\ cRetired' = NoEntries /\ cMoved' = NoEntries
  /\ cOuts' = {} /\ cSafe' = TRUE

------------------------------------------------------------------------------
(* Compact, step by step *)

\* Seal the active file, if it holds anything, and note where the log stands.
CompactSeal ==
  /\ cpc = "idle" /\ merges < MaxMerges
  /\ wrecs = <<>> /\ active \in DOMAIN disk
  /\ IF disk[active] # <<>> THEN SealActive
     ELSE UNCHANGED <<disk, synced, active, nextID, dirty>>
  /\ cBarrier' = seq /\ cActive' = active'
  /\ cpc' = "list" /\ merges' = merges + 1
  /\ UNCHANGED <<hints, manifest, index, seq, mergeSeq, hintQ, wrecs, deleting, histVars,
                 cMerge, cItems, cRetired, cMoved, cOuts, cSafe>>

\* List the merge set: every file but the one that was active at the seal.
\* wmu was released in between, so a writer may have rotated.
CompactList ==
  /\ cpc = "list"
  /\ LET ids == DOMAIN disk \ {cActive}
     IN  IF ids = {} THEN EndMerge
         ELSE /\ cMerge' = ids /\ cpc' = "snapshot"
              /\ UNCHANGED <<cActive, cBarrier, cItems, cRetired, cMoved, cOuts, cSafe>>
  /\ gaps' = IF active = cActive THEN gaps ELSE gaps \cup {"live_merge"}
  /\ UNCHANGED <<diskVars, memVars, acked, crashes, merges>>

\* Snapshot the index entries that point into the merge set, under mu.
CompactSnapshot ==
  LET held == {k \in Keys : index[k].seq > 0 /\ index[k].file \in cMerge}
  IN  /\ cpc = "snapshot"
      /\ cItems' = [k \in {x \in held : ~index[x].tomb} |-> index[k]]
      /\ cRetired' = [k \in {x \in held : index[x].tomb} |-> index[k]]
      /\ cpc' = "copy"
      /\ UNCHANGED <<storeVars, cActive, cBarrier, cMerge, cMoved, cOuts, cSafe, merges>>

\* The keys still to be copied.
ToCopy == DOMAIN cItems \ DOMAIN cMoved

\* The merged file a record goes to, and whether it is a new one.
NeedsOut == cOuts = {} \/ Len(disk[Max(cOuts)]) + 1 > MaxFile
OutID == IF NeedsOut THEN nextID ELSE Max(cOuts)

\* Phase one: copy the next live record, in key order, to the merged file.
CompactCopy ==
  /\ cpc = "copy" /\ ToCopy # {}
  /\ LET k == Min(ToCopy)
         rec == disk[cItems[k].file][cItems[k].pos]
         old == IF NeedsOut THEN <<>> ELSE disk[OutID]
     IN  /\ NeedsOut => wrecs = <<>>          \* allocFileID takes wmu
         /\ disk' = With(disk, OutID, Append(old, Unbatched(rec)))
         /\ synced' = IF NeedsOut THEN With(synced, OutID, 0) ELSE synced
         /\ nextID' = IF NeedsOut THEN nextID + 1 ELSE nextID
         /\ cOuts' = cOuts \cup {OutID}
         /\ cMoved' = With(cMoved, k, [file |-> OutID, pos |-> Len(old) + 1,
                                       seq |-> rec.seq, tomb |-> FALSE])
  /\ UNCHANGED <<hints, manifest, index, seq, active, mergeSeq, dirty, hintQ, wrecs,
                 deleting, histVars, cpc, cActive, cBarrier, cMerge, cItems, cRetired,
                 cSafe, merges>>

\* The merged files' contents, as their hint files list them.
OutHints(ids) == [id \in DOMAIN hints \cup ids |-> IF id \in ids THEN disk[id] ELSE hints[id]]

\* fsync the merged files and commit their hints.
CompactPublish ==
  /\ cpc = "copy" /\ ToCopy = {}
  /\ synced' = [id \in DOMAIN synced |-> IF id \in cOuts THEN Len(disk[id]) ELSE synced[id]]
  /\ hints' = OutHints(cOuts)
  /\ cpc' = "repoint"
  /\ UNCHANGED <<disk, manifest, memVars, histVars, cActive, cBarrier, cMerge, cItems,
                 cRetired, cMoved, cOuts, cSafe, merges>>

\* cleanup after an I/O error of phase one.  Hints already committed, the
\* first of them in id order, stay.
CompactAbort ==
  /\ cpc = "copy"
  /\ disk' = Without(disk, cOuts) /\ synced' = Without(synced, cOuts)
  /\ \E done \in SUBSET cOuts :
       /\ ToCopy # {} => done = {}
       /\ \A x \in done, y \in cOuts : y < x => y \in done
       /\ hints' = OutHints(done)
  /\ EndMerge
  /\ UNCHANGED <<manifest, memVars, histVars, merges>>

\* Two mutations of StillAt: the check is left out; it is inverted.
StillAtUnchecked(k, e) == TRUE
StillAtInverted(k, e) == index[k].file # e.file

\* The key's index entry is still the one the snapshot took.
StillAt(k, e) == index[k].seq = e.seq /\ index[k].file = e.file

\* Phase two: point a key at its merged record, unless it was rewritten.
CompactRepoint ==
  /\ cpc = "repoint" /\ DOMAIN cItems # {}
  /\ LET k == Min(DOMAIN cItems)
     IN  /\ index' = IF StillAt(k, cItems[k]) THEN [index EXCEPT ![k] = cMoved[k]] ELSE index
         /\ cItems' = Without(cItems, {k}) /\ cMoved' = Without(cMoved, {k})
  /\ UNCHANGED <<diskVars, seq, nextID, active, mergeSeq, dirty, hintQ, wrecs, deleting,
                 histVars, cpc, cActive, cBarrier, cMerge, cRetired, cOuts, cSafe, merges>>

\* Forget a tombstone, unless the key was written again.
CompactRetire ==
  /\ cpc = "repoint" /\ DOMAIN cItems = {} /\ DOMAIN cRetired # {}
  /\ LET k == Min(DOMAIN cRetired)
     IN  /\ index' = IF StillAt(k, cRetired[k]) THEN [index EXCEPT ![k] = Absent] ELSE index
         /\ cRetired' = Without(cRetired, {k})
  /\ UNCHANGED <<diskVars, seq, nextID, active, mergeSeq, dirty, hintQ, wrecs, deleting,
                 histVars, cpc, cActive, cBarrier, cMerge, cItems, cMoved, cOuts, cSafe, merges>>

\* In every file of ids, a tombstone's older records sit in files with lower
\* ids or in its own: removing the files in id order never leaves one behind.
TombsLast(ids) ==
  \A a, b \in ids : \A i \in DOMAIN disk[a], j \in DOMAIN disk[b] :
     ( /\ disk[a][i].key = disk[b][j].key
       /\ disk[a][i].tomb /\ disk[a][i].seq > disk[b][j].seq ) => b <= a

\* The gap a merge falls into that sets the watermark to n: a restart may have
\* recovered a seq below the watermark, and the merge then sets it back.
SetBack(n) == IF n < mergeSeq THEN {"watermark"} ELSE {}

\* writeManifest: the new file is renamed into place, or the old one stays.
writeManifest(n) ==
  \/ manifest' = n /\ gaps' = gaps \cup SetBack(n)
  \/ UNCHANGED manifest /\ gaps' = gaps \cup SetBack(n) \cup {"manifest"}

\* A mutation of CompactMark: the watermark is left where it was.
CompactMarkNothing ==
  /\ cpc = "repoint" /\ DOMAIN cItems = {} /\ DOMAIN cRetired = {}
  /\ UNCHANGED <<mergeSeq, manifest, gaps>>
  /\ cpc' = "remove" /\ cSafe' = TombsLast(cMerge)
  /\ UNCHANGED <<disk, synced, hints, index, seq, nextID, active, dirty, hintQ, wrecs,
                 deleting, acked, crashes, cActive, cBarrier, cMerge, cItems, cRetired,
                 cMoved, cOuts, merges>>

\* Raise the watermark and persist it; a failure to persist is only logged.
CompactMark ==
  /\ cpc = "repoint" /\ DOMAIN cItems = {} /\ DOMAIN cRetired = {}
  /\ mergeSeq' = cBarrier
  /\ writeManifest(cBarrier)
  /\ cpc' = "remove" /\ cSafe' = TombsLast(cMerge)
  /\ UNCHANGED <<disk, synced, hints, index, seq, nextID, active, dirty, hintQ, wrecs,
                 deleting, acked, crashes, cActive, cBarrier, cMerge, cItems, cRetired,
                 cMoved, cOuts, merges>>

\* Remove the merged-away files and their hints, lowest id first.  os.Remove is
\* taken to succeed.
CompactRemove ==
  /\ cpc = "remove"
  /\ LET id == Min(cMerge)
     IN  /\ disk' = Without(disk, {id}) /\ synced' = Without(synced, {id})
         /\ hints' = Without(hints, {id})
         /\ IF cMerge = {id} THEN EndMerge
            ELSE /\ cMerge' = cMerge \ {id}
                 /\ UNCHANGED <<cpc, cActive, cBarrier, cItems, cRetired, cMoved, cOuts, cSafe>>
  /\ UNCHANGED <<manifest, memVars, histVars, merges>>

------------------------------------------------------------------------------
(* The rest of the engine beside the merge *)

\* A write that was in flight when the merge removed the active file under it:
\* the bytes are gone.  SyncAlways notices (fsync of a closed file), otherwise
\* the index now points into a file that does not exist, and at which position
\* of it no longer matters.
FinishWriteStranded ==
  /\ wrecs # <<>> /\ active \notin DOMAIN disk
  /\ IF SyncMode = "always" THEN UNCHANGED <<index, acked>>
     ELSE IndexWrite(0) /\ Acknowledge
  /\ dirty' = TRUE /\ wrecs' = <<>>
  /\ UNCHANGED <<diskVars, seq, nextID, active, mergeSeq, hintQ, deleting, gaps, crashes>>

Batches == UNION {[1..n -> Keys] : n \in 1..MaxBatch}

Writer ==
  \/ \E k \in Keys : Put(k) \/ DeleteCheck(k) \/ DeleteWrite(k)
  \/ \E ks \in Batches : BatchPut(ks)
  \/ \E n \in 1..MaxBatch : RefuseWrite(n) \/ RotateFails(n)
  \/ cpc = "idle" /\ RotateFails(0)
  \/ FinishWrite \/ FinishWriteStranded \/ FailWrite \/ FailSync

Background ==
  \/ Sync
  \/ \E id \in DOMAIN hintQ : buildHint(id) \/ FailHint(id)

Merge ==
  \/ CompactSeal \/ CompactList \/ CompactSnapshot \/ CompactCopy \/ CompactPublish
  \/ CompactAbort \/ CompactRepoint \/ CompactRetire \/ CompactMark \/ CompactRemove

Crash == (Kill \/ PowerLoss) /\ EndMerge /\ UNCHANGED merges

Next ==
  \/ (Writer \/ Background) /\ (cpc = "remove" => active' = active) /\ UNCHANGED <<compVars, merges>>
  \/ Merge
  \/ Crash

Spec == Init /\ [][Next]_vars
------------------------------------------------------------------------------
(* Properties *)

Phases == {"idle", "list", "snapshot", "copy", "repoint", "remove"}

DiskTyped ==
  /\ DOMAIN disk \subseteq Nat /\ \A id \in DOMAIN disk : disk[id] \in Seq(Record)
  /\ DOMAIN synced = DOMAIN disk /\ \A id \in DOMAIN disk : synced[id] \in 0..Len(disk[id])

HintsTyped ==
  /\ DOMAIN hints \subseteq Nat /\ \A id \in DOMAIN hints : hints[id] \in Seq(Record)
  /\ DOMAIN hintQ \subseteq Nat /\ \A id \in DOMAIN hintQ : hintQ[id] \in Seq(Record)

MemoryTyped ==
  /\ index \in [Keys -> Entry] /\ wrecs \in Seq(Record) /\ deleting \in [Keys -> Nat]
  /\ manifest \in Nat /\ seq \in Nat /\ nextID \in Nat /\ active \in Nat
  /\ mergeSeq \in Nat /\ dirty \in BOOLEAN

HistoryTyped ==
  /\ acked \in [Keys -> [seq: Nat, tomb: BOOLEAN]]
  /\ gaps \subseteq {"live_merge", "fsync", "manifest", "watermark"}
  /\ crashes \in Nat /\ merges \in Nat

MergeTyped ==
  /\ cpc \in Phases /\ cActive \in Nat /\ cBarrier \in Nat
  /\ cMerge \subseteq Nat /\ cOuts \subseteq Nat /\ cSafe \in BOOLEAN
  /\ DOMAIN cItems \subseteq Keys /\ \A k \in DOMAIN cItems : cItems[k] \in Entry
  /\ DOMAIN cRetired \subseteq Keys /\ \A k \in DOMAIN cRetired : cRetired[k] \in Entry
  /\ DOMAIN cMoved \subseteq Keys /\ \A k \in DOMAIN cMoved : cMoved[k] \in Entry

\* The type of every variable: files and hints hold records, the index holds
\* entries, ids and numbers are naturals, fsync never covers more than the
\* file holds, and Compact is in one of its phases.
TypeOK == DiskTyped /\ HintsTyped /\ MemoryTyped /\ HistoryTyped /\ MergeTyped

\* Entry e names a record of key k that is there.
RecordAt(k, e) ==
  /\ e.file \in DOMAIN disk /\ e.pos \in DOMAIN disk[e.file]
  /\ disk[e.file][e.pos].key = k
  /\ disk[e.file][e.pos].seq = e.seq /\ disk[e.file][e.pos].tomb = e.tomb

\* An index entry never names the wrong record: if its file still exists, the
\* record at its position is of that key, that number and that kind.  readValue
\* then never returns another key's value and never meets the mismatch it
\* reports as a corrupt index.
IndexTruthful ==
  \A k \in Keys : (index[k].seq > 0 /\ index[k].file \in DOMAIN disk) => RecordAt(k, index[k])

\* Unless a merge took in the live active file, every index entry names a file
\* that exists: Compact removes a file only when nothing points into it, and
\* an abandoned merge strands no entry.
IndexResolves ==
  "live_merge" \notin gaps =>
    \A k \in Keys : index[k].seq > 0 => index[k].file \in DOMAIN disk

\* The map the engine's readers see.
View == [k \in Keys |-> IF index[k].tomb THEN 0 ELSE index[k].seq]

\* The index a restart would build from the files as they are, and its map.
RestartIndex == RecoveredIndex(disk, removeOrphanHints(disk, hints))

RestartView ==
  LET idx == RestartIndex
  IN  [k \in Keys |-> IF idx[k].tomb THEN 0 ELSE idx[k].seq]

\* At every moment the files alone determine the map readers see: replaying
\* them, through hints where there are any, gives the map in memory.  This
\* holds through every phase of a merge.  Outside it: a merge that took in the
\* live active file, a record left behind by a failed fsync, and the removal
\* of files whose id order is not the age order of their tombstones.
RecoverySeesIndex ==
  ( /\ gaps \cap {"live_merge", "fsync"} = {}
    /\ cpc = "remove" => cSafe ) => RestartView = View

\* A restart never takes a key back to an older write than the one in memory,
\* although merged files give old records new ids.  This includes a failed
\* fsync: what it left in the file can only make a key read the write that was
\* reported failed.
RestartKeepsNewest ==
  ("live_merge" \notin gaps /\ (cpc = "remove" => cSafe)) =>
    LET idx == RestartIndex
    IN  \A k \in Keys : idx[k].seq >= index[k].seq

\* A hint file lists exactly the records of the data file it stands beside,
\* all of them durable; a hint left by a file that was merged away can never
\* be taken for the index of a later file that is given the same id.
HintMatchesData ==
  \A id \in DOMAIN hints \cap DOMAIN disk :
    hints[id] = disk[id] /\ synced[id] = Len(disk[id]) /\ id # active

\* The deletions the disk no longer tells of are covered by the watermark: a
\* replica that has not seen one is told to take a full snapshot.
DeletesCovered ==
  \A k \in Keys :
    \/ ~acked[k].tomb \/ acked[k].seq = 0
    \/ acked[k].seq <= mergeSeq
    \/ \E id \in DOMAIN disk : \E i \in DOMAIN disk[id] :
          disk[id][i].key = k /\ disk[id][i].seq >= acked[k].seq

\* A deletion that compaction has erased from the disk is covered by the merge
\* watermark, over restarts and later merges, as long as every merge could
\* write MANIFEST and no merge set the watermark back: Compact assigns it the
\* seq of the moment, and after a restart that may be lower.
ForgottenDeletesCovered ==
  (gaps = {} /\ (SyncMode = "always" \/ "power" \notin CrashKinds)) => DeletesCovered

\* File ids are handed out once per life of the process: every id in use is
\* below nextID.
IdsBelowNext ==
  /\ active < nextID /\ cActive < nextID
  /\ \A id \in DOMAIN disk \cup DOMAIN hints \cup DOMAIN hintQ \cup cMerge \cup cOuts : id < nextID
  /\ \A k \in Keys : index[k].file < nextID

\* No record, in a file or in flight, has a number above seq.
LogBelowSeq ==
  /\ \A id \in DOMAIN disk : \A i \in DOMAIN disk[id] : disk[id][i].seq <= seq
  /\ \A i \in DOMAIN wrecs : wrecs[i].seq <= seq

\* What a hint under construction will list is what its file holds.
HintsInProgress ==
  \A id \in DOMAIN hintQ \cap DOMAIN disk :
    hintQ[id] = disk[id] /\ synced[id] = Len(disk[id]) /\ id # active

\* What holds of a merge in each phase: its files are there until it removes
\* them, what it means to copy is where the snapshot says, and what it copied
\* is a record of the same key and number in a merged file.
MergeShape ==
  /\ cpc \in {"snapshot", "copy", "repoint"} => cMerge \subseteq DOMAIN disk
  /\ cpc \in {"idle", "list", "snapshot"} => cOuts = {}
  /\ cpc \in {"copy", "repoint"} => cOuts \subseteq DOMAIN disk
  /\ cpc = "copy" => cOuts \cap (DOMAIN hints \cup DOMAIN hintQ) = {}
  /\ cOuts \cap DOMAIN hintQ = {} /\ active \notin cOuts
  /\ cpc \notin {"copy", "repoint"} => DOMAIN cItems = {}
  /\ cpc = "repoint" => DOMAIN cItems = DOMAIN cMoved
  /\ \A k \in DOMAIN cItems : cItems[k].file \in cMerge /\ RecordAt(k, cItems[k]) /\ ~cItems[k].tomb
  /\ \A k \in DOMAIN cMoved :
       /\ k \in DOMAIN cItems /\ cMoved[k].seq = cItems[k].seq
       /\ cMoved[k].file \in cOuts /\ RecordAt(k, cMoved[k])

\* The inductive invariant behind TypeOK, IndexTruthful and HintMatchesData.
EngineInv ==
  TypeOK /\ IdsBelowNext /\ LogBelowSeq /\ IndexTruthful
    /\ HintMatchesData /\ HintsInProgress /\ MergeShape

KV == INSTANCE KVMap WITH map <- View, pending <- wrecs

\* A crash whose outcome the engine does not answer for: see RecoverySeesIndex.
\* A power failure is answered for when every write was fsynced first.
UnsafeCrash ==
  /\ crashes' # crashes
  /\ \/ gaps \cap {"live_merge", "fsync"} # {}
     \/ cpc = "remove" /\ ~cSafe
     \/ "power" \in CrashKinds

\* Every step is a step of the abstract map or invisible in it: rotation, hint
\* building and all of a merge never change what any key reads, a failed write
\* changes nothing, and a crash takes the write in flight as a whole or drops
\* it as a whole and loses nothing else.
StepsImplementKVMap == [][UnsafeCrash \/ KV!KVNext \/ UNCHANGED KV!kvVars]_vars

\* With SyncAlways no crash, power failure included, takes back a write the
\* caller was told is done: a key that reads its last acknowledged write reads
\* it after the crash too, unless the write in flight replaced it.
AckedSurvivesCrash ==
  [][ ( /\ crashes' # crashes /\ SyncMode = "always" /\ gaps \cap {"live_merge", "fsync"} = {}
        /\ cpc = "remove" => cSafe ) =>
      \A k \in Keys :
        LET promised == IF acked[k].tomb THEN 0 ELSE acked[k].seq
        IN  View[k] = promised =>
              \/ View'[k] = promised
              \/ \E i \in DOMAIN wrecs : wrecs[i].key = k ]_vars

\* As long as the process has not died, an engine whose dirty flag is down has
\* everything on stable storage: rotation and the seal fsync the file they
\* retire, so the interval timer need only ever sync the active one.
CleanMeansDurable ==
  (crashes = 0 /\ gaps = {} /\ SyncMode # "never" /\ ~dirty) =>
    \A id \in DOMAIN disk \ cOuts : synced[id] = Len(disk[id])

------------------------------------------------------------------------------
(* What comments and docs of the repository say, taken at their word.  Each  *)
(* of these fails: see the README.                                           *)

\* compact.go:86: dropping tombstones is safe because the whole immutable set
\* is merged, and SOLUTION.md:95: a merge cut short by a crash is harmless.
\* So a kill during a merge, with no write in flight, leaves every key as it was.
MergeCrashHarmless ==
  [][(crashes' # crashes /\ cpc # "idle" /\ wrecs = <<>>) => View' = View]_vars

\* manifest.go:11-15: a replica older than the watermark is sent a snapshot,
\* because the tombstones it still needs have been reclaimed, and that survives a
\* restart of the leader.  So no restart and no later merge uncovers a deletion.
WatermarkSurvives == gaps \cap {"live_merge", "fsync", "manifest"} = {} => DeletesCovered

\* compact.go:102: the active file is sealed so that the merge set is
\* unambiguous; then no merge can remove a file the index points into.
MergeSetUnambiguous == \A k \in Keys : index[k].seq > 0 => index[k].file \in DOMAIN disk
==============================================================================
