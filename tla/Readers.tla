------------------------------- MODULE Readers -------------------------------
(***************************************************************************)
(* Get, Scan and SnapshotRecords of the engine (internal/engine/store.go   *)
(* and compact.go) beside writers, a merge and crashes.                    *)
(*                                                                         *)
(* A reader takes entries from the index under mu, lets go of it, and      *)
(* reads the records under fmu; the merge holds fmu exclusively while it   *)
(* removes files.  An entry whose file is gone is looked up again, up to a *)
(* number of times.  One reader is in the model: readers do not affect     *)
(* each other.  A scan covers all keys, in chunks that may end at any key. *)
(***************************************************************************)
EXTENDS Compaction, Integers

VARIABLES
  rop,      \* the call in progress: "none", "get", "scan" or "snapshot"
  rcursor,  \* the last key a chunk has covered
  rrefs,    \* refs: key -> the entry under which it is to be read
  rtries,   \* reads of the current ref that found its file gone
  rout,     \* key -> the number of the value returned, 0 for a tombstone
  rfailed,  \* the call ended in an error
  rseen     \* history: key the call is about -> what it read as since the call began

readVars == <<rop, rcursor, rrefs, rtries, rout, rfailed, rseen>>

NoNumbers == [k \in {} |-> 0]
NoSets == [k \in {} |-> {}]

ReaderIdle ==
  /\ rop = "none" /\ rcursor = 0 /\ rrefs = NoEntries /\ rtries = 0
  /\ rout = NoNumbers /\ rfailed = FALSE /\ rseen = NoSets

EndRead ==
  /\ rop' = "none" /\ rcursor' = 0 /\ rrefs' = NoEntries /\ rtries' = 0
  /\ rout' = NoNumbers /\ rfailed' = FALSE /\ rseen' = NoSets

\* How often a record is looked for: the loop of Get, readValue and reread in
\* Scan, the loop of rawRecord in SnapshotRecords.
Attempts == [get |-> 4, scan |-> 2, snapshot |-> 3]

\* A call that is about the keys ks begins.
Begin(op, ks) ==
  /\ rop = "none" /\ rop' = op
  /\ rseen' = [k \in ks |-> {View[k]}]
  /\ rtries' = 0 /\ rout' = NoNumbers /\ rfailed' = FALSE

\* Get up to the first read: the key is looked up under mu.
Get(k) ==
  /\ Begin("get", {k})
  /\ rcursor' = Max(Keys)
  /\ rrefs' = [x \in {y \in {k} : ~index[y].tomb} |-> index[x]]

StartScan(op) ==
  /\ Begin(op, Keys)
  /\ rcursor' = 0 /\ rrefs' = NoEntries

\* The keys in the index after the cursor.
Ahead == {k \in Keys : k > rcursor /\ index[k].seq > 0}

\* Scan and SnapshotRecords: the live entries of the next chunk, under mu.  The
\* cursor moves over tombstones as well.
TakeChunk ==
  /\ rop \in {"scan", "snapshot"} /\ rrefs = NoEntries /\ Ahead # {}
  /\ \E last \in Ahead :
       /\ rrefs' = [k \in {x \in Ahead : x <= last /\ ~index[x].tomb} |-> index[k]]
       /\ rcursor' = last
  /\ rtries' = 0
  /\ UNCHANGED <<rop, rout, rfailed, rseen>>

\* The ref that is read next, and the file it names.
Current == Min(DOMAIN rrefs)
FileThere == rrefs[Current].file \in DOMAIN disk

\* readValue and rawRecord: the record is read.  A record that is not the one
\* the entry names is an error for readValue.
ReadRecord ==
  /\ DOMAIN rrefs # {} /\ cpc # "remove" /\ FileThere
  /\ LET e == rrefs[Current]
         rec == disk[e.file][e.pos]
     IN  IF rop # "snapshot" /\ rec.seq # e.seq
           THEN /\ rfailed' = TRUE /\ rrefs' = NoEntries /\ rcursor' = Max(Keys)
                /\ UNCHANGED rout
           ELSE /\ rout' = With(rout, Current, IF rec.tomb THEN 0 ELSE rec.seq)
                /\ rrefs' = Without(rrefs, {Current})
                /\ UNCHANGED <<rfailed, rcursor>>
  /\ rtries' = 0
  /\ UNCHANGED <<rop, rseen>>

\* A mutation of FileGone: Scan gives a moved record up at once.
FileGoneOnce ==
  /\ DOMAIN rrefs # {} /\ rtries >= 0 /\ cpc # "remove" /\ ~FileThere
  /\ IF rtries + 1 < Attempts[rop] /\ rop # "scan"
       THEN rtries' = -(rtries + 1) /\ UNCHANGED <<rrefs, rfailed>>
       ELSE rtries' = 0 /\ rrefs' = Without(rrefs, {Current}) /\ rfailed' = (rop = "get")
  /\ UNCHANGED <<rop, rcursor, rout, rseen>>

\* errFileGone: the record is looked up again, or given up after the last
\* attempt.  A Get then fails; a scan goes on without the key.  rtries is
\* negative between the failed read and the look-up.
FileGone ==
  /\ DOMAIN rrefs # {} /\ rtries >= 0 /\ cpc # "remove" /\ ~FileThere
  /\ IF rtries + 1 < Attempts[rop]
       THEN rtries' = -(rtries + 1) /\ UNCHANGED <<rrefs, rfailed>>
       ELSE rtries' = 0 /\ rrefs' = Without(rrefs, {Current}) /\ rfailed' = (rop = "get")
  /\ UNCHANGED <<rop, rcursor, rout, rseen>>

\* A mutation of LookUpAgain: the entry that was stale is tried again.
LookUpAgainStale ==
  /\ rtries < 0
  /\ LET e == index[Current]
     IN  IF e.seq = 0 \/ (e.tomb /\ rop # "snapshot")
           THEN rtries' = 0 /\ rrefs' = Without(rrefs, {Current})
           ELSE rtries' = -rtries /\ UNCHANGED rrefs
  /\ UNCHANGED <<rop, rcursor, rout, rfailed, rseen>>

\* Look the key up again, under mu.  A key that is gone is passed over; a
\* tombstone is not an answer for Get and Scan, but SnapshotRecords sends it.
LookUpAgain ==
  /\ rtries < 0
  /\ LET e == index[Current]
     IN  IF e.seq = 0 \/ (e.tomb /\ rop # "snapshot")
           THEN rtries' = 0 /\ rrefs' = Without(rrefs, {Current})
           ELSE rtries' = -rtries /\ rrefs' = [rrefs EXCEPT ![Current] = e]
  /\ UNCHANGED <<rop, rcursor, rout, rfailed, rseen>>

\* The call has covered every key and has an answer.
Answered == rop # "none" /\ DOMAIN rrefs = {} /\ (rop = "get" \/ rfailed \/ Ahead = {})

Return == Answered /\ EndRead

Reader ==
  \/ \E k \in Keys : Get(k)
  \/ \E op \in {"scan", "snapshot"} : StartScan(op)
  \/ TakeChunk \/ ReadRecord \/ FileGone \/ LookUpAgain \/ Return

\* What a step of the engine means for the call in progress.
Witness ==
  rseen' = [k \in DOMAIN rseen |-> rseen[k] \cup {View'[k]}]

ReadersInit == Init /\ ReaderIdle

ReadersNext ==
  \/ Reader /\ UNCHANGED vars
  \/ /\ (Writer \/ Background) /\ (cpc = "remove" => active' = active) /\ UNCHANGED <<compVars, merges>>
     /\ Witness /\ UNCHANGED <<rop, rcursor, rrefs, rtries, rout, rfailed>>
  \/ Merge /\ Witness /\ UNCHANGED <<rop, rcursor, rrefs, rtries, rout, rfailed>>
  \/ Crash /\ EndRead

ReadersSpec == ReadersInit /\ [][ReadersNext]_<<vars, readVars>>
------------------------------------------------------------------------------
(* Properties *)

\* What the call says of key k: a value, or nothing.
Says(k) == IF k \in DOMAIN rout THEN rout[k] ELSE 0

\* What a call says of a key was true of it at some moment of the call: a Get
\* returns a value the key had while it ran, a key that is there all the time
\* is in every Scan and every snapshot, and a key that is not is in none,
\* however a merge moves the records under it.  It holds as long as there are
\* fewer merges than the call makes attempts (after the last a scan goes on
\* without the key), and no merge took in the live active file.
ReadsCurrent ==
  (Answered /\ ~rfailed /\ merges < Attempts[rop] /\ "live_merge" \notin gaps) =>
    \A k \in DOMAIN rseen : Says(k) \in rseen[k]

\* A Get loses its race with compaction only if as many merges as it makes
\* attempts finish while it runs, and readValue never meets a record the index
\* does not mean.
ReadsSucceed == (rfailed /\ merges < Attempts["get"]) => "live_merge" \in gaps
==============================================================================
