-------------------------------- MODULE Store --------------------------------
(***************************************************************************)
(* The write path, hint files, fsync policy and crash recovery of the      *)
(* storage engine (internal/engine/store.go, datafile.go).  Compaction is  *)
(* added by module Compaction.                                             *)
(*                                                                         *)
(* The locks: wmu serialises writers, so at most one write is in flight;   *)
(* it is held from BeginWrite to the step that ends the write.  mu makes   *)
(* the index update of a write one step.  A write in flight is wrecs: how  *)
(* much of it has reached the file is only decided, and only observable,   *)
(* when the process dies.                                                  *)
(***************************************************************************)
EXTENDS Records

CONSTANTS
  MaxFile,      \* Options.MaxFileSize, in records
  SyncMode,     \* Options.SyncMode: "always", "interval" or "never"
  CrashKinds,   \* subset of {"kill", "power"}: how the process may die
  MaxSeq,       \* bound on the sequence numbers a run assigns
  MaxBatch,     \* bound on the pairs of one BatchPut
  MaxDeleters,  \* bound on concurrent Deletes of one key
  MaxCrashes    \* bound on crashes

ASSUME StoreAssumption ==
  /\ MaxFile \in Nat \ {0}
  /\ SyncMode \in {"always", "interval", "never"}
  /\ CrashKinds \subseteq {"kill", "power"}
  /\ MaxSeq \in Nat /\ MaxBatch \in Nat /\ MaxDeleters \in Nat
  /\ MaxCrashes \in Nat

VARIABLES
  \* on disk
  disk,      \* data files: id -> sequence of records (as the OS holds them)
  synced,    \* id -> how many of the file's records fsync has made durable
  hints,     \* hint files: id -> the records they list
  manifest,  \* the watermark in MANIFEST
  \* in memory
  index,     \* keys/order: key -> entry (Absent when not held)
  seq, nextID, active, mergeSeq, dirty,
  hintQ,     \* buildHint goroutines: id -> the records they will list
  wrecs,     \* the write holding wmu, <<>> when wmu is free
  deleting,  \* key -> Deletes past their liveness check, not yet in wmu
  \* history
  acked,     \* key -> number and kind of the last acknowledged write
  gaps,      \* the known gaps this behaviour has run into
  crashes

diskVars == <<disk, synced, hints, manifest>>
memVars == <<index, seq, nextID, active, mergeSeq, dirty, hintQ, wrecs, deleting>>
histVars == <<acked, gaps, crashes>>
storeVars == <<disk, synced, hints, manifest,
               index, seq, nextID, active, mergeSeq, dirty, hintQ, wrecs,
               deleting, acked, gaps, crashes>>

StoreInit ==
  /\ disk = [id \in {0} |-> <<>>] /\ synced = [id \in {0} |-> 0]
  /\ hints = [id \in {} |-> <<>>] /\ manifest = 0
  /\ index = [k \in Keys |-> Absent]
  /\ seq = 0 /\ nextID = 1 /\ active = 0 /\ mergeSeq = 0 /\ dirty = FALSE
  /\ hintQ = [id \in {} |-> <<>>]
  /\ wrecs = <<>> /\ deleting = [k \in Keys |-> 0]
  /\ acked = [k \in Keys |-> [seq |-> 0, tomb |-> TRUE]]
  /\ gaps = {} /\ crashes = 0

------------------------------------------------------------------------------
(* Write path *)

\* A mutation of openNewActive: the old active file was not fsynced.
openNewActiveUnsynced ==
  /\ disk' = With(disk, nextID, <<>>)
  /\ synced' = With(synced, nextID, 0)
  /\ active' = nextID /\ nextID' = nextID + 1

\* openNewActive, after the old active file was fsynced.
openNewActive ==
  /\ disk' = With(disk, nextID, <<>>)
  /\ synced' = With([synced EXCEPT ![active] = Len(disk[active])], nextID, 0)
  /\ active' = nextID /\ nextID' = nextID + 1

SealActive == openNewActive /\ dirty' = FALSE

MustRotate(n) ==
  Len(disk[active]) # 0 /\ Len(disk[active]) + n > MaxFile

\* maybeRotateLocked: seal a full active file and start building its hint.
maybeRotateLocked(n) ==
  IF MustRotate(n)
    THEN SealActive /\ hintQ' = With(hintQ, active, disk[active])
    ELSE UNCHANGED <<disk, synced, active, nextID, dirty, hintQ>>

\* writeLocked up to the WriteAt, with wmu taken.
BeginWrite(recs) ==
  /\ wrecs = <<>> /\ active \in DOMAIN disk
  /\ wrecs' = recs
  /\ maybeRotateLocked(Len(recs))
  /\ UNCHANGED <<hints, manifest, index, mergeSeq, histVars>>

\* A mutation of appendLocked: the number is read before it is incremented.
appendLockedOffByOne(items) ==
  /\ seq + Len(items) <= MaxSeq
  /\ seq' = seq + Len(items)
  /\ BeginWrite([i \in DOMAIN items |->
       [key |-> items[i].key, seq |-> (seq + i) - 1,
        tomb |-> items[i].tomb, part |-> items[i].part]])

\* appendLocked: number the records of a client's write.  items is a sequence
\* of [key, tomb, part].
appendLocked(items) ==
  /\ seq + Len(items) <= MaxSeq
  /\ seq' = seq + Len(items)
  /\ BeginWrite([i \in DOMAIN items |->
       [key |-> items[i].key, seq |-> seq + i,
        tomb |-> items[i].tomb, part |-> items[i].part]])

Put(k) ==
  /\ appendLocked(<<[key |-> k, tomb |-> FALSE, part |-> "single"]>>)
  /\ UNCHANGED deleting

BatchPut(ks) ==
  /\ appendLocked([i \in DOMAIN ks |->
       [key |-> ks[i], tomb |-> FALSE,
        part |-> IF i = Len(ks) THEN "last" ELSE "member"]])
  /\ UNCHANGED deleting

\* Delete looks the key up under mu, lets go of it, and only then queues for
\* wmu.  (A key that is not live is ErrKeyNotFound: nothing changes.)
DeleteCheck(k) ==
  /\ ~index[k].tomb
  /\ deleting[k] < MaxDeleters
  /\ deleting' = [deleting EXCEPT ![k] = @ + 1]
  /\ UNCHANGED <<diskVars, index, seq, nextID, active, mergeSeq, dirty, hintQ,
                 wrecs, histVars>>

DeleteWrite(k) ==
  /\ deleting[k] > 0
  /\ deleting' = [deleting EXCEPT ![k] = @ - 1]
  /\ appendLocked(<<[key |-> k, tomb |-> TRUE, part |-> "single"]>>)

\* The writer that gets an error may have been a Delete.
Refused(n) ==
  \/ UNCHANGED deleting
  \/ /\ n = 1
     /\ \E k \in Keys : deleting[k] > 0 /\ deleting' = [deleting EXCEPT ![k] = @ - 1]

\* A write that ends before the WriteAt, or in it because the file was closed:
\* the fsync of a rotation failed, or the active file was merged away.  The
\* numbers stay used.
RefuseWrite(n) ==
  /\ wrecs = <<>> /\ seq + n <= MaxSeq
  /\ active \in DOMAIN disk => MustRotate(n)
  /\ seq' = seq + n
  /\ Refused(n)
  /\ UNCHANGED <<diskVars, index, nextID, active, mergeSeq, dirty, hintQ, wrecs,
                 histVars>>

\* openNewActive fails in its syncDir, when the new file is already the active
\* one: the caller gives up and the retired file never gets a hint.  The caller
\* is a write of n records or, for n = 0, the seal of a merge.
RotateFails(n) ==
  /\ wrecs = <<>> /\ seq + n <= MaxSeq
  /\ active \in DOMAIN disk /\ disk[active] # <<>> /\ (n = 0 \/ MustRotate(n))
  /\ openNewActive
  /\ seq' = seq + n
  /\ Refused(n)
  /\ UNCHANGED <<hints, manifest, index, mergeSeq, dirty, hintQ, wrecs, histVars>>

\* The entries the write in flight gives key k, when it starts at position
\* base + 1 of the active file.
WrittenEntries(k, base) ==
  {EntryOf(wrecs[i], active, base + i) : i \in {j \in DOMAIN wrecs : wrecs[j].key = k}}

\* A mutation of IndexWrite: positions are counted from the end of the write.
IndexWriteFromEnd(base) ==
  index' = [k \in Keys |-> ApplyEntries(index[k], WrittenEntries(k, base + Len(wrecs)))]

\* indexApplyLocked, once per record, under one hold of mu.
IndexWrite(base) ==
  index' = [k \in Keys |-> ApplyEntries(index[k], WrittenEntries(k, base))]

\* What the client of the write in flight has been promised.
Acknowledge ==
  acked' = [k \in Keys |->
    LET mine == {i \in DOMAIN wrecs : wrecs[i].key = k}
    IN  IF mine = {} THEN acked[k]
        ELSE [seq |-> wrecs[Max(mine)].seq, tomb |-> wrecs[Max(mine)].tomb]]

\* A mutation of FinishWrite: SyncAlways answers without the fsync.
FinishWriteUnsynced ==
  /\ wrecs # <<>> /\ active \in DOMAIN disk
  /\ disk' = [disk EXCEPT ![active] = @ \o wrecs]
  /\ dirty' = (SyncMode # "always") /\ UNCHANGED synced
  /\ IndexWrite(Len(disk[active]))
  /\ seq' = Max({seq} \cup {wrecs[i].seq : i \in DOMAIN wrecs})
  /\ Acknowledge
  /\ wrecs' = <<>>
  /\ UNCHANGED <<hints, manifest, nextID, active, mergeSeq, hintQ, deleting, gaps, crashes>>

\* writeLocked from the WriteAt on: the file grows, SyncAlways fsyncs, the
\* index follows, the observers are told and the caller gets its answer.
\* ApplyRaw then raises seq to the newest record it was given; for a client's
\* write that changes nothing.
FinishWrite ==
  /\ wrecs # <<>> /\ active \in DOMAIN disk
  /\ disk' = [disk EXCEPT ![active] = @ \o wrecs]
  /\ IF SyncMode = "always"
       THEN synced' = [synced EXCEPT ![active] = Len(disk'[active])] /\ dirty' = FALSE
       ELSE dirty' = TRUE /\ UNCHANGED synced
  /\ IndexWrite(Len(disk[active]))
  /\ seq' = Max({seq} \cup {wrecs[i].seq : i \in DOMAIN wrecs})
  /\ Acknowledge
  /\ wrecs' = <<>>
  /\ UNCHANGED <<hints, manifest, nextID, active, mergeSeq, hintQ, deleting, gaps, crashes>>

\* A mutation of FailWrite: the file is not truncated back.
FailWriteUntruncated ==
  /\ wrecs # <<>> /\ active \in DOMAIN disk
  /\ disk' = [disk EXCEPT ![active] = @ \o wrecs]
  /\ wrecs' = <<>>
  /\ UNCHANGED <<synced, hints, manifest, index, seq, nextID, active, mergeSeq, dirty,
                 hintQ, deleting, histVars>>

\* WriteAt failed and the file was truncated back (the code does not look at
\* what Truncate returns; it is taken to succeed).  The numbers stay used.
FailWrite ==
  /\ wrecs # <<>>
  /\ wrecs' = <<>>
  /\ UNCHANGED <<diskVars, index, seq, nextID, active, mergeSeq, dirty, hintQ,
                 deleting, histVars>>

\* SyncAlways and the fsync failed: the write is reported failed and is not
\* indexed, yet its records stay in the file.
FailSync ==
  /\ SyncMode = "always"
  /\ wrecs # <<>> /\ active \in DOMAIN disk
  /\ disk' = [disk EXCEPT ![active] = @ \o wrecs]
  /\ dirty' = TRUE
  /\ wrecs' = <<>>
  /\ gaps' = gaps \cup {"fsync"}
  /\ UNCHANGED <<synced, hints, manifest, index, seq, nextID, active, mergeSeq, hintQ,
                 deleting, acked, crashes>>

\* Sync, called by the interval timer.
Sync ==
  /\ SyncMode = "interval" /\ dirty
  /\ wrecs = <<>> /\ active \in DOMAIN disk
  /\ synced' = [synced EXCEPT ![active] = Len(disk[active])]
  /\ dirty' = FALSE
  /\ UNCHANGED <<disk, hints, manifest, index, seq, nextID, active, mergeSeq, hintQ,
                 wrecs, deleting, histVars>>

\* buildHint: the sidecar of a rotated file is renamed into place.  The file
\* was scanned earlier, and may have been merged away since.
buildHint(id) ==
  /\ id \in DOMAIN hintQ
  /\ hints' = With(hints, id, hintQ[id])
  /\ hintQ' = Without(hintQ, {id})
  /\ UNCHANGED <<disk, synced, manifest, index, seq, nextID, active, mergeSeq, dirty,
                 wrecs, deleting, histVars>>

\* buildHint gives up: an I/O error, or the data file is already gone.
FailHint(id) ==
  /\ id \in DOMAIN hintQ
  /\ hintQ' = Without(hintQ, {id})
  /\ UNCHANGED <<diskVars, index, seq, nextID, active, mergeSeq, dirty, wrecs,
                 deleting, histVars>>
------------------------------------------------------------------------------
(* Crash and recovery.  d is what the data directory holds when the process  *)
(* starts again, h the hint files.                                           *)

\* A mutation of removeOrphanHints: nothing is removed.
KeepOrphanHints(d, h) == h

\* removeOrphanHints.  It is taken to remove every orphan: Open goes on when it
\* fails, and it ignores what os.Remove returns.
removeOrphanHints(d, h) == [id \in DOMAIN h \cap DOMAIN d |-> h[id]]

\* recover reads a file through its hint when there is one: every record the
\* hint lists is applied.  Without one the file is scanned.
Replayed(d, h, id) ==
  IF id \in DOMAIN h
    THEN {[key |-> h[id][i].key, ent |-> EntryOf(h[id][i], id, i)] : i \in DOMAIN h[id]}
    ELSE {[key |-> d[id][i].key, ent |-> EntryOf(d[id][i], id, i)] : i \in Applied(d[id])}

RecoveredIndex(d, h) ==
  LET all == UNION {Replayed(d, h, id) : id \in DOMAIN d}
  IN  [k \in Keys |-> ApplyEntries(Absent, {r.ent : r \in {a \in all : a.key = k}})]

\* maxSeq counts every record it meets, those of a discarded batch included.
RecoveredSeq(d, h) ==
  LET recs(id) == IF id \in DOMAIN h THEN h[id] ELSE d[id]
  IN  Max({0} \cup UNION {{recs(id)[i].seq : i \in DOMAIN recs(id)} : id \in DOMAIN d})

\* Only the last file is cut back to its commit offset, and only if scanned.
Truncated(d, h) ==
  [id \in DOMAIN d |->
     IF id = Max(DOMAIN d) /\ id \notin DOMAIN h
       THEN SubSeq(d[id], 1, CommitLen(d[id])) ELSE d[id]]

\* The last file takes the next writes if it was scanned and has room.
Reuse(d, h) ==
  /\ DOMAIN d # {}
  /\ Max(DOMAIN d) \notin DOMAIN h
  /\ Len(Truncated(d, h)[Max(DOMAIN d)]) < MaxFile

\* Open: recover from d, of which fsync has made dur[id] records durable.
Recover(d, dur) ==
  LET h == removeOrphanHints(d, hints)
      kept == Truncated(d, h)
      keptDur == [id \in DOMAIN d |->
                    IF Len(kept[id]) < Len(d[id]) THEN Len(kept[id]) ELSE dur[id]]
      next == Max({0} \cup {id + 1 : id \in DOMAIN d})
  IN  /\ index' = RecoveredIndex(d, h)
      /\ seq' = RecoveredSeq(d, h)
      /\ hints' = h
      /\ mergeSeq' = manifest
      /\ IF Reuse(d, h)
           THEN /\ disk' = kept /\ synced' = keptDur
                /\ active' = Max(DOMAIN d) /\ nextID' = next
           ELSE /\ disk' = With(kept, next, <<>>) /\ synced' = With(keptDur, next, 0)
                /\ active' = next /\ nextID' = next + 1
      /\ dirty' = FALSE
      /\ hintQ' = [id \in {} |-> <<>>] /\ wrecs' = <<>>
      /\ deleting' = [k \in Keys |-> 0]
      /\ crashes' = crashes + 1
      /\ UNCHANGED <<manifest, acked, gaps>>

\* The files when the first n records of the write in flight got to the file.
Torn(n) ==
  [id \in DOMAIN disk |->
     IF id = active THEN disk[id] \o SubSeq(wrecs, 1, n) ELSE disk[id]]

\* The process dies and is started again; the page cache survives.
Kill ==
  /\ "kill" \in CrashKinds /\ crashes < MaxCrashes
  /\ \E n \in 0..Len(wrecs) : Recover(Torn(n), synced)

\* The machine dies: each file keeps what was fsynced and any part of the rest.
PowerLoss ==
  LET torn == Torn(Len(wrecs))
      atRisk == {id \in DOMAIN disk : synced[id] < Len(torn[id])}
  IN  /\ "power" \in CrashKinds /\ crashes < MaxCrashes
      /\ \E cut \in [atRisk -> 0..Max({0} \cup {Len(torn[id]) : id \in atRisk})] :
           LET left == [id \in DOMAIN disk |-> IF id \in atRisk THEN cut[id] ELSE Len(torn[id])]
           IN  /\ \A id \in atRisk : cut[id] \in synced[id]..Len(torn[id])
               /\ Recover([id \in DOMAIN disk |-> SubSeq(torn[id], 1, left[id])], left)
==============================================================================
