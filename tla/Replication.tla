----------------------------- MODULE Replication -----------------------------
(***************************************************************************)
(* Log shipping from a leader to one follower (internal/node/replication.go *)
(* over RecordsSince, SnapshotRecords, ApplyRaw and Reset of the engine).  *)
(*                                                                         *)
(* The leader writes, merges, and serves one replication stream: a bounded *)
(* queue the writers fan out into, and a goroutine that first replays the  *)
(* log or a snapshot and then drains the queue onto the connection.  The   *)
(* follower applies what it reads, merges, dies and comes back.  Frames    *)
(* without data (heartbeats, StatusLive) are left out: module Election     *)
(* has what they do.                                                       *)
(***************************************************************************)
EXTENDS Replica

CONSTANTS
  StreamBuffer,  \* streamBuffer
  MaxSeq,        \* bound on the records clients write
  MaxBatch,      \* bound on the pairs of one BatchPut
  MaxFaults,     \* bound on broken connections and crashes of the follower
  MaxMerges      \* bound on the merges of each node

ASSUME ReplicationAssumption ==
  /\ StreamBuffer \in Nat \ {0} /\ MaxSeq \in Nat /\ MaxBatch \in Nat
  /\ MaxFaults \in Nat /\ MaxMerges \in Nat

VARIABLES
  lead, fol,   \* the two stores
  mergeSeq,    \* the leader's watermark
  stream,      \* the replStream: its queue ch and whether done is closed
  serve,       \* serveReplication: where it is and what it still has to send
  wire,        \* frames the leader has sent and the follower has not read
  attached,    \* replicateFrom has a connection
  \* history
  wrote,       \* every record clients wrote, by number
  owed,        \* frames the follower must still read to complete a full resync
  gaps,        \* the known gaps this behaviour has run into
  faults, merges

leaderVars == <<lead, mergeSeq, wrote>>
streamVars == <<stream, serve, wire, attached, owed>>
counters == <<faults, merges>>
vars == <<lead, fol, mergeSeq, stream, serve, wire, attached, wrote, owed, gaps,
          faults, merges>>

NoStream == [ch |-> <<>>, done |-> FALSE]
NotServing == [pc |-> "none", from |-> 0, ids |-> {}, cursor |-> 0, refs |-> [k \in {} |-> NoRecord]]

Init ==
  /\ lead = Empty /\ fol = Empty /\ mergeSeq = 0
  /\ stream = NoStream /\ serve = NotServing /\ wire = <<>> /\ attached = FALSE
  /\ wrote = <<>> /\ owed = 0 /\ gaps = {}
  /\ faults = 0 /\ merges = [n \in {"lead", "fol"} |-> 0]

Data(recs) == [kind |-> "data", recs |-> recs]
FullSync == [kind |-> "full", recs |-> <<>>]
Frames(s) == [i \in DOMAIN s |-> Data(<<s[i]>>)]

------------------------------------------------------------------------------
(* The leader's store *)

\* A mutation of fanout: a stream only counts once its catch-up is over.
fanoutLiveOnly(recs) ==
  /\ stream' = IF serve.pc # "live" \/ Len(stream.ch) >= StreamBuffer THEN stream
               ELSE [stream EXCEPT !.ch = Append(@, recs)]
  /\ UNCHANGED gaps

\* fanout: queue the records of one write, or give the stream up if its queue
\* is full.  The stream stays registered until serveReplication notices, so a
\* later write can still be queued behind the one that was dropped.
fanout(recs) ==
  IF serve.pc = "none" THEN UNCHANGED <<stream, gaps>>
  ELSE IF Len(stream.ch) < StreamBuffer
    THEN /\ stream' = [stream EXCEPT !.ch = Append(@, recs)]
         /\ gaps' = IF stream.done THEN gaps \cup {"dropped"} ELSE gaps
    ELSE stream' = [stream EXCEPT !.done = TRUE] /\ UNCHANGED gaps

\* A client's write: items is a sequence of [key, tomb, part].
Write(items) ==
  LET recs == [i \in DOMAIN items |->
                 [key |-> items[i].key, seq |-> lead.seq + i, tomb |-> items[i].tomb,
                  part |-> items[i].part]]
  IN  /\ lead.seq + Len(items) <= MaxSeq
      /\ lead' = appendLocked(lead, recs)
      /\ wrote' = wrote \o recs
      /\ fanout(recs)
      /\ UNCHANGED <<fol, mergeSeq, serve, wire, attached, owed, counters>>

Put(k) == Write(<<[key |-> k, tomb |-> FALSE, part |-> "single"]>>)

Delete(k) ==
  /\ ~lead.index[k].tomb
  /\ Write(<<[key |-> k, tomb |-> TRUE, part |-> "single"]>>)

BatchPut(ks) ==
  Write([i \in DOMAIN ks |-> [key |-> ks[i], tomb |-> FALSE,
                              part |-> IF i = Len(ks) THEN "last" ELSE "member"]])

\* The leader merges.  RecordsSince holds no lock while it walks the files.
LeaderMerge ==
  /\ merges["lead"] < MaxMerges
  /\ lead' = Compact(lead) /\ mergeSeq' = lead.seq
  /\ merges' = [merges EXCEPT !["lead"] = @ + 1]
  /\ gaps' = IF serve.pc \in {"list", "scan"} THEN gaps \cup {"merged"} ELSE gaps
  /\ UNCHANGED <<fol, streamVars, wrote, faults>>

------------------------------------------------------------------------------
(* serveReplication at the leader *)

\* replicateFrom dials and sends the number it holds; serveReplication adds the
\* stream before anything else.
Attach ==
  /\ ~attached
  /\ attached' = TRUE
  /\ serve' = [NotServing EXCEPT !.pc = "check", !.from = fol.seq]
  /\ stream' = NoStream /\ wire' = <<>> /\ owed' = 0
  /\ UNCHANGED <<leaderVars, fol, gaps, counters>>

\* A mutation of NeedFullSync: a follower exactly one record short of the
\* watermark is taken to be covered.
NeedFullSyncLate(from) == from = 0 \/ from + 1 < mergeSeq

\* catchUp, and the check at the start of RecordsSince.
NeedFullSync(from) == from = 0 \/ from < mergeSeq

\* catchUp: order a full resync, or read the log.
StartCatchUp ==
  /\ serve.pc = "check"
  /\ IF NeedFullSync(serve.from)
       THEN serve' = [serve EXCEPT !.pc = "chunk"] /\ wire' = Append(wire, FullSync)
       ELSE serve' = [serve EXCEPT !.pc = "list"] /\ UNCHANGED wire
  /\ UNCHANGED <<leaderVars, fol, stream, attached, owed, gaps, counters>>

\* RecordsSince: list the files.
ListFiles ==
  /\ serve.pc = "list"
  /\ serve' = [serve EXCEPT !.pc = "scan", !.ids = DOMAIN lead.files]
  /\ UNCHANGED <<leaderVars, fol, stream, wire, attached, owed, gaps, counters>>

\* RecordsSince: send a file's newer records, one frame each and batch flags
\* included, lowest id first.  A file that is gone is passed over.
ScanFile ==
  /\ serve.pc = "scan"
  /\ IF serve.ids = {} THEN serve' = [serve EXCEPT !.pc = "live"] /\ UNCHANGED wire
     ELSE LET id == Min(serve.ids)
              recs == IF id \in DOMAIN lead.files
                        THEN SelectSeq(lead.files[id], LAMBDA r : r.seq > serve.from) ELSE <<>>
          IN  /\ serve' = [serve EXCEPT !.ids = @ \ {id}]
              /\ wire' = wire \o Frames(recs)
  /\ UNCHANGED <<leaderVars, fol, stream, attached, owed, gaps, counters>>

\* The file that holds what the leader's index says of k.
Located(k) ==
  CHOOSE id \in DOMAIN lead.files :
    \E i \in DOMAIN lead.files[id] :
      lead.files[id][i].key = k /\ lead.files[id][i].seq = lead.index[k].seq

\* SnapshotRecords: note where the live keys of the next chunk are.  A chunk
\* may end at any key.  After the last key the catch-up is over, even if the
\* stream was given up while it ran.
TakeChunk ==
  LET ahead == {k \in Keys : k > serve.cursor /\ lead.index[k].seq > 0}
  IN  /\ serve.pc = "chunk"
      /\ IF ahead = {}
           THEN /\ serve' = [serve EXCEPT !.pc = "live"]
                /\ owed' = Len(wire) + Len(stream.ch)
                /\ gaps' = IF stream.done THEN gaps \cup {"dropped"} ELSE gaps
           ELSE /\ \E last \in ahead :
                     LET live == {k \in ahead : k <= last /\ ~lead.index[k].tomb}
                     IN  serve' = [serve EXCEPT !.pc = "send", !.cursor = last,
                           !.refs = [k \in live |-> [seq |-> lead.index[k].seq, file |-> Located(k)]]]
                /\ UNCHANGED <<owed, gaps>>
      /\ UNCHANGED <<leaderVars, fol, stream, wire, attached, counters>>

\* rawRecord: the record where it was noted or, when that file is gone, what
\* the index holds now, a tombstone perhaps.
rawRecord(k, ref) ==
  IF ref.file \in DOMAIN lead.files
    THEN <<[key |-> k, seq |-> ref.seq, tomb |-> FALSE, part |-> "single"]>>
    ELSE IF lead.index[k].seq = 0 THEN <<>> ELSE <<Held(lead, k)>>

\* SnapshotRecords: send the next record of the chunk.
SendRecord ==
  /\ serve.pc = "send"
  /\ IF DOMAIN serve.refs = {} THEN serve' = [serve EXCEPT !.pc = "chunk"] /\ UNCHANGED wire
     ELSE LET k == Min(DOMAIN serve.refs)
          IN  /\ serve' = [serve EXCEPT !.refs = Without(@, {k})]
              /\ wire' = wire \o Frames(rawRecord(k, serve.refs[k]))
  /\ UNCHANGED <<leaderVars, fol, stream, attached, owed, gaps, counters>>

\* serveReplication once it is live: pass on a queued write.  Neither the
\* select nor the drain loop prefers done to ch.
ServeLive ==
  /\ serve.pc = "live" /\ stream.ch # <<>>
  /\ wire' = Append(wire, Data(Head(stream.ch)))
  /\ stream' = [stream EXCEPT !.ch = Tail(@)]
  /\ UNCHANGED <<leaderVars, fol, serve, attached, owed, gaps, counters>>

\* serveReplication notices that the stream was given up and closes the
\* connection.  What was sent can still be read.
ServeEnds ==
  /\ serve.pc = "live" /\ stream.done
  /\ serve' = NotServing /\ stream' = NoStream
  /\ UNCHANGED <<leaderVars, fol, wire, attached, owed, gaps, counters>>

------------------------------------------------------------------------------
(* replicateFrom at the follower *)

\* A full resync has begun at the follower, has brought its seq to n, and is
\* not complete.
Unsettled(n) ==
  /\ serve.pc \in {"chunk", "send"} \/ owed > 0
  /\ n # 0 /\ \A i \in DOMAIN wire : wire[i].kind # "full"

\* The connection is over for both ends, and the follower's seq is n.
Detached(n, more) ==
  /\ attached' = FALSE /\ serve' = NotServing /\ stream' = NoStream /\ wire' = <<>> /\ owed' = 0
  /\ gaps' = gaps \cup more \cup (IF Unsettled(n) THEN {"snapshot"} ELSE {})

Next1 == wire' = Tail(wire) /\ owed' = IF owed > 0 THEN owed - 1 ELSE 0

\* StatusFullSync: Reset.
Reset ==
  /\ attached /\ wire # <<>> /\ Head(wire).kind = "full"
  /\ fol' = Empty /\ Next1
  /\ UNCHANGED <<leaderVars, stream, serve, attached, gaps, counters>>

\* StatusReplData: ApplyRaw.
ReplData ==
  /\ attached /\ wire # <<>> /\ Head(wire).kind = "data"
  /\ fol' = ApplyRaw(fol, Head(wire).recs) /\ Next1
  /\ UNCHANGED <<leaderVars, stream, serve, attached, gaps, counters>>

\* The leader closed the connection and everything it sent has been read.
EndOfStream ==
  /\ attached /\ serve.pc = "none" /\ wire = <<>>
  /\ Detached(fol.seq, {})
  /\ UNCHANGED <<leaderVars, fol, counters>>

\* The connection breaks, or the read deadline passes.
Break ==
  /\ attached /\ faults < MaxFaults
  /\ faults' = faults + 1
  /\ Detached(fol.seq, {})
  /\ UNCHANGED <<leaderVars, fol, merges>>

\* Records still on their way to the follower.
Coming == UNION {{wire[i].recs[j] : j \in DOMAIN wire[i].recs} : i \in DOMAIN wire}
          \cup UNION {{stream.ch[i][j] : j \in DOMAIN stream.ch[i]} : i \in DOMAIN stream.ch}

\* The follower merges.  It may forget a deletion it is about to be sent an
\* older record of.
FollowerMerge ==
  /\ merges["fol"] < MaxMerges
  /\ fol' = Compact(fol)
  /\ merges' = [merges EXCEPT !["fol"] = @ + 1]
  /\ gaps' = IF \E r \in Coming : fol.index[r.key].tomb /\ r.seq < fol.index[r.key].seq
               THEN gaps \cup {"retired"} ELSE gaps
  /\ UNCHANGED <<leaderVars, streamVars, faults>>

\* The files a crash leaves when n records of the frame being applied got to
\* the file.
Torn(recs, n) ==
  LET w == writeLocked(fol, recs)
  IN  IF n = 0 THEN fol.files
      ELSE [w.files EXCEPT ![w.active] = SubSeq(@, 1, Len(@) - (Len(recs) - n))]

\* What the follower's directory may hold when it dies: inside ApplyRaw, inside
\* Reset, which removes the files in no particular order, or at rest.
Leftovers ==
  IF ~attached \/ wire = <<>> THEN {fol.files}
  ELSE IF Head(wire).kind = "full" THEN {Without(fol.files, S) : S \in SUBSET DOMAIN fol.files}
  ELSE {Torn(Head(wire).recs, n) : n \in 0..Len(Head(wire).recs)}

\* The follower dies and is started again.
Crash ==
  /\ faults < MaxFaults
  /\ faults' = faults + 1
  /\ \E fs \in Leftovers : \E hinted \in SUBSET (DOMAIN fs \ {fol.active}) :
       /\ fol' = Recovered(fs, hinted)
       /\ Detached(fol'.seq, {g \in {"reset"} : DOMAIN fol.files \ DOMAIN fs # {} /\ fol'.seq # 0}
                   \cup {g \in {"batch"} : \E id \in DOMAIN fs \ hinted : Applied(fs[id]) # DOMAIN fs[id]})
  /\ UNCHANGED <<leaderVars, merges>>

------------------------------------------------------------------------------

Batches == UNION {[1..n -> Keys] : n \in 2..MaxBatch}

Leader ==
  \/ \E k \in Keys : Put(k) \/ Delete(k)
  \/ \E ks \in Batches : BatchPut(ks)
  \/ LeaderMerge

Serve == StartCatchUp \/ ListFiles \/ ScanFile \/ TakeChunk \/ SendRecord \/ ServeLive
Follow == Attach \/ Reset \/ ReplData \/ EndOfStream

Next == Leader \/ Serve \/ ServeEnds \/ Follow \/ FollowerMerge \/ Break \/ Crash

Spec == Init /\ [][Next]_vars

\* The goroutine of the stream and the follow loop run; a select that could
\* take done is not passed over for ever.
FairSpec == Spec /\ WF_vars(Serve) /\ WF_vars(ServeEnds) /\ WF_vars(Follow)
------------------------------------------------------------------------------
(* Properties *)

\* The map after the first n records clients wrote.
MapAt(n) ==
  [k \in Keys |->
     LET mine == {i \in 1..n : wrote[i].key = k}
     IN  IF mine = {} \/ wrote[Max(mine)].tomb THEN 0 ELSE Max(mine)]

\* A follower that asks for the records after number n (replicateFrom sends
\* Seq) has everything up to n: every key reads as it did on the leader at n
\* or later.
HoldsUpTo(n) == \A k \in Keys : \E m \in n..lead.seq : View(fol)[k] = MapAt(m)[k]

Store1 == [files: SUBSET Nat, active: Nat, seq: Nat, index: [Keys -> [seq: Nat, tomb: BOOLEAN]]]

\* The type of every variable: the stores are stores whose index is not ahead
\* of seq and whose active file is there, frames hold records, the queue is
\* within its bound, and serveReplication is in one of its places.
TypeOK ==
  /\ \A s \in {lead, fol} :
       /\ [s EXCEPT !.files = DOMAIN @] \in Store1 /\ s.active \in DOMAIN s.files
       /\ \A id \in DOMAIN s.files : s.files[id] \in Seq(Record)
       /\ \A k \in Keys : s.index[k].seq <= s.seq
  /\ mergeSeq \in 0..lead.seq /\ wrote \in Seq(Record) /\ lead.seq = Len(wrote)
  /\ Len(stream.ch) <= StreamBuffer /\ stream.done \in BOOLEAN
  /\ \A i \in DOMAIN stream.ch : stream.ch[i] \in Seq(Record)
  /\ \A i \in DOMAIN wire : wire[i].kind \in {"full", "data"} /\ wire[i].recs \in Seq(Record)
  /\ serve.pc \in {"none", "check", "list", "scan", "chunk", "send", "live"}
  /\ (serve.pc # "none" => attached) /\ attached \in BOOLEAN /\ owed \in Nat
  /\ gaps \subseteq {"dropped", "merged", "snapshot", "retired", "reset", "batch"}

\* Reconnect-and-resume loses nothing: whenever the follower is about to
\* reconnect, whatever broke the stream, it holds every record up to the number
\* it asks to resume from.  Outside it are the gaps the README lists.
ResumesComplete == (~attached /\ gaps = {}) => HoldsUpTo(fol.seq)

\* The follower comes to hold what the leader holds once clients stop writing.
Converges == <>[](gaps # {} \/ View(fol) = View(lead))

\* replication.go:20: replay is insensitive to ordering, which makes
\* reconnect-and-resume cheap; replication.go:28: dropping a stream is safe,
\* the follower reconnects and catches up from the log.
ResumeIsSafe == ~attached => HoldsUpTo(fol.seq)
==============================================================================
