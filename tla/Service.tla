------------------------------- MODULE Service -------------------------------
(***************************************************************************)
(* Requests and shutdown: a client (client/client.go), the connections it  *)
(* and the follow loops open, the handlers that serve them and Close of a  *)
(* node and of its store (internal/node/node.go, engine/store.go).         *)
(*                                                                         *)
(* The database is one key; the value of a Put is the number of its call,  *)
(* 0 stands for no value.  What elections do to role and leader, and       *)
(* replication to the data, is reduced to its outcome: modules Election    *)
(* and Replication have the steps.                                         *)
(***************************************************************************)
EXTENDS Naturals, Sequences, FiniteSetsExt

CONSTANTS
  Nodes,        \* the addresses the client is given, in their order
  Ops,          \* the calls it makes
  MaxAttempts,  \* Options.MaxAttempts
  MaxEvents     \* bound on calls, deadlines that pass, changes of leader, accept
                \* loops that give up and nodes shut down, together

ASSUME ServiceAssumption ==
  /\ IsFiniteSet(Nodes) /\ Nodes = 1..Cardinality(Nodes) /\ Nodes # {}
  /\ Ops \subseteq {"put", "get", "delete", "range", "compact"}
  /\ MaxAttempts \in Nat \ {0} /\ MaxEvents \in Nat

VARIABLES
  node,      \* address -> the node's fields and the places of its goroutines
  conn,      \* the connections: id -> both ends, their handler, what is in flight
  client,
  events,    \* event -> how often it happened
  \* history
  seen,      \* node -> the values it held since the client's call began
  applied    \* call -> how often a node applied its write

vars == <<node, conn, client, events, seen, applied>>

NoReq == [op |-> "none", call |-> 0]
NoReply == [st |-> "none", val |-> 0, call |-> 0, from |-> 0]

\* Node 1 leads and the others stream from it.  serving is the followers whose
\* streams a node serves.
New(n) ==
  [role |-> IF n = 1 THEN "leader" ELSE "follower", leader |-> 1, epoch |-> 1, val |-> 0,
   cpc |-> "running", accepting |-> TRUE, hand |-> 0, merge |-> "idle",
   follow |-> IF n = 1 THEN "top" ELSE "stream", serving |-> IF n = 1 THEN Nodes \ {1} ELSE {}]

Init ==
  /\ node = [n \in Nodes |-> New(n)]
  /\ conn = [i \in {} |-> NoReq]
  /\ client = [pc |-> "idle", op |-> "none", call |-> 0, attempt |-> 0, prefer |-> 0,
               todo |-> <<>>, conn |-> 0, next |-> 0, got |-> NoReply]
  /\ events = [e \in {"call", "timeout", "promote", "accept", "close"} |-> 0]
  /\ seen = [n \in Nodes |-> {}] /\ applied = [c \in 1..MaxEvents |-> 0]

closing(n) == node[n].cpc # "running"
Listening(n) == node[n].cpc \in {"running", "listener"}
StoreClosed(n) == node[n].cpc \in {"merge", "closed"}

\* An event, within the bound.
Happens(e) ==
  /\ events["call"] + events["timeout"] + events["promote"] + events["accept"]
       + events["close"] < MaxEvents
  /\ events' = [events EXCEPT ![e] = @ + 1]

------------------------------------------------------------------------------
(* Connections *)

NewId == Min((1..(Cardinality(DOMAIN conn) + 1)) \ DOMAIN conn)

\* The client dials n and sends req.
Dialled(n, req) ==
  [i \in DOMAIN conn \cup {NewId} |->
     IF i = NewId THEN [to |-> n, srv |-> "backlog", open |-> TRUE, shut |-> FALSE,
                        req |-> NoReq, in |-> <<req>>, out |-> <<>>]
     ELSE conn[i]]

\* The connections less those that are over at both ends.
Kept(cs) == [i \in {j \in DOMAIN cs : cs[j].open \/ cs[j].srv # "gone"} |-> cs[i]]

\* A mutation of Hangup: the connection is forgotten and not closed.
HangupLeaks(i) == conn

\* The client closes connection i, if there is one.
Hangup(i) == Kept([j \in DOMAIN conn |-> IF j = i THEN [conn[j] EXCEPT !.open = FALSE] ELSE conn[j]])

\* The handler of connection i goes to pc, or closes it and ends.
Goto(i, pc) == conn' = [conn EXCEPT ![i].srv = pc]
End(i) == conn' = Kept([conn EXCEPT ![i].srv = "gone"])

\* A write to connection i fails.
Cut(i) == conn[i].shut \/ ~conn[i].open

\* n's store holds v from now on.
Holds(n, v) ==
  /\ node' = [node EXCEPT ![n].val = v]
  /\ seen' = [seen EXCEPT ![n] = @ \cup {x \in {v} : client.pc # "idle"}]

------------------------------------------------------------------------------
(* acceptLoop and serveConn *)

Accept(n) ==
  /\ node[n].accepting /\ node[n].hand = 0 /\ Listening(n)
  /\ \E i \in DOMAIN conn :
       /\ conn[i].to = n /\ conn[i].srv = "backlog"
       /\ Goto(i, "accepted") /\ node' = [node EXCEPT ![n].hand = i]
  /\ UNCHANGED <<client, events, seen, applied>>

\* The listener was closed.
AcceptFails(n) ==
  /\ node[n].accepting /\ node[n].hand = 0 /\ ~Listening(n)
  /\ node' = [node EXCEPT ![n].accepting = FALSE]
  /\ UNCHANGED <<conn, client, events, seen, applied>>

\* Accept fails for another reason, such as too many open files: acceptLoop
\* returns, and the node runs on with its listener open.
AcceptGivesUp(n) ==
  /\ node[n].accepting /\ node[n].hand = 0 /\ Listening(n) /\ Happens("accept")
  /\ node' = [node EXCEPT ![n].accepting = FALSE]
  /\ UNCHANGED <<conn, client, seen, applied>>

\* A mutation of trackConn: the connection that came too late is not closed.
trackConnLeaks(n) ==
  /\ node[n].hand # 0
  /\ IF closing(n) THEN UNCHANGED conn ELSE Goto(node[n].hand, "read")
  /\ node' = [node EXCEPT ![n].hand = 0, ![n].accepting = ~closing(n)]
  /\ UNCHANGED <<client, events, seen, applied>>

\* acceptLoop after Accept: register the connection and start its handler, or
\* close it and stop if the node is closing.
trackConn(n) ==
  /\ node[n].hand # 0
  /\ IF closing(n) THEN End(node[n].hand) ELSE Goto(node[n].hand, "read")
  /\ node' = [node EXCEPT ![n].hand = 0, ![n].accepting = ~closing(n)]
  /\ UNCHANGED <<client, events, seen, applied>>

\* serveConn: a request is read, and redirectIfNotLeader looks at the role before
\* a write.  No change of role fits in between that could not come before.
ReadFrame(i) ==
  LET req == Head(conn[i].in)
      refuse == req.op \in {"put", "delete"} /\ node[conn[i].to].role # "leader"
  IN  /\ conn[i].srv = "read" /\ ~conn[i].shut /\ conn[i].in # <<>>
      /\ conn' = [conn EXCEPT ![i].in = Tail(@), ![i].req = req,
                              ![i].srv = IF refuse THEN "redirect" ELSE "apply"]
      /\ UNCHANGED <<node, client, events, seen, applied>>

ReadFails(i) ==
  /\ conn[i].srv = "read" /\ (conn[i].shut \/ (conn[i].in = <<>> /\ ~conn[i].open))
  /\ End(i)
  /\ UNCHANGED <<node, client, events, seen, applied>>

Reply(i, st, v) == [st |-> st, val |-> v, call |-> conn[i].req.call, from |-> conn[i].to]

\* serveConn: the frames rep are written and flushed, unless the connection is
\* gone, and the loop goes round if the node is not closing.
Answers(i, rep) ==
  IF Cut(i) THEN End(i)
  ELSE conn' = [conn EXCEPT ![i].out = @ \o rep, ![i].req = NoReq,
         ![i].srv = IF closing(conn[i].to) THEN "gone" ELSE "read"]

\* A mutation of Redirect: the write is done before the client is sent away.
RedirectAfterWrite(i) ==
  /\ conn[i].srv = "redirect"
  /\ Answers(i, <<Reply(i, "redirect", node[conn[i].to].leader)>>)
  /\ applied' = [applied EXCEPT ![conn[i].req.call] = @ + 1]
  /\ UNCHANGED <<node, client, events, seen>>

\* A redirect carries the leader the node knows by then, which may be itself.
Redirect(i) ==
  /\ conn[i].srv = "redirect"
  /\ Answers(i, <<Reply(i, "redirect", node[conn[i].to].leader)>>)
  /\ UNCHANGED <<node, client, events, seen, applied>>

------------------------------------------------------------------------------
(* handle: one call of the store *)

\* Put.  Close waits for the handlers before it closes the store, so that the
\* refusal of a closed store is not met here: StoreOutlivesUsers.
ServePut(i) ==
  LET n == conn[i].to
      c == conn[i].req.call
  IN  /\ conn[i].srv = "apply" /\ conn[i].req.op = "put"
      /\ Answers(i, <<Reply(i, "ok", 0)>>) /\ Holds(n, c)
      /\ applied' = [applied EXCEPT ![c] = @ + 1]
      /\ UNCHANGED <<client, events>>

ServeDelete(i) ==
  LET n == conn[i].to
  IN  /\ conn[i].srv = "apply" /\ conn[i].req.op = "delete"
      /\ IF node[n].val = 0
           THEN Answers(i, <<Reply(i, "notfound", 0)>>) /\ UNCHANGED <<node, seen, applied>>
           ELSE /\ Answers(i, <<Reply(i, "ok", 0)>>) /\ Holds(n, 0)
                /\ applied' = [applied EXCEPT ![conn[i].req.call] = @ + 1]
      /\ UNCHANGED <<client, events>>

\* Get, and serveRange up to the chunk it found.  A chunk is flushed when it is
\* full, and the handler goes on to the end of the range.
ServeRead(i) ==
  LET v == node[conn[i].to].val
  IN  /\ conn[i].srv = "apply"
      /\ \/ /\ conn[i].req.op = "get"
            /\ Answers(i, <<IF v = 0 THEN Reply(i, "notfound", 0) ELSE Reply(i, "ok", v)>>)
         \/ /\ conn[i].req.op = "range"
            /\ IF v = 0 THEN Answers(i, <<Reply(i, "end", 0)>>)
               ELSE IF Cut(i) THEN End(i)
               ELSE conn' = [conn EXCEPT ![i].out = Append(@, Reply(i, "chunk", v)), ![i].srv = "range"]
      /\ UNCHANGED <<node, client, events, seen, applied>>

\* serveRange: the end of the range.
ServeRangeEnd(i) ==
  /\ conn[i].srv = "range" /\ Answers(i, <<Reply(i, "end", 0)>>)
  /\ UNCHANGED <<node, client, events, seen, applied>>

\* StartCompaction: acknowledged, not awaited.
ServeCompact(i) ==
  LET n == conn[i].to
  IN  /\ conn[i].srv = "apply" /\ conn[i].req.op = "compact"
      /\ node' = [node EXCEPT ![n].merge = IF @ = "idle" THEN "started" ELSE @]
      /\ Answers(i, <<Reply(i, "ok", 0)>>)
      /\ UNCHANGED <<client, events, seen, applied>>

Handler(i) ==
  \/ ReadFrame(i) \/ ReadFails(i) \/ Redirect(i)
  \/ ServePut(i) \/ ServeDelete(i) \/ ServeRead(i) \/ ServeRangeEnd(i) \/ ServeCompact(i)

------------------------------------------------------------------------------
(* followLoop, elections and replication, by what they do to this module *)

\* followLoop and serveReplication: n attaches to its leader.
Attach(n) ==
  /\ node[n].follow = "top" /\ ~closing(n) /\ node[n].role = "follower"
  /\ LET l == node[n].leader
     IN  /\ l # n /\ ~closing(l) /\ node[l].accepting /\ node[l].role = "leader"
         /\ node' = [node EXCEPT ![n].follow = "stream", ![l].serving = @ \cup {n}]
  /\ UNCHANGED <<conn, client, events, seen, applied>>

\* serveReplication of n's stream to m ends: n.stop is closed, n stepped down, or
\* the follower is gone.
ServeEnds(n, m) ==
  /\ m \in node[n].serving
  /\ closing(n) \/ node[n].role # "leader" \/ node[m].follow # "stream"
  /\ node' = [node EXCEPT ![n].serving = @ \ {m}]
  /\ UNCHANGED <<conn, client, events, seen, applied>>

\* replicateFrom returns: the stream was closed at the other end.
FollowEnds(n) ==
  /\ node[n].follow = "stream" /\ \A l \in Nodes : n \notin node[l].serving
  /\ node' = [node EXCEPT ![n].follow = "top"]
  /\ UNCHANGED <<conn, client, events, seen, applied>>

\* n.stop is noticed: between two rounds, or in replicateFrom after the next
\* frame or the read deadline.
FollowStops(n) ==
  /\ node[n].follow # "gone" /\ closing(n)
  /\ node' = [node EXCEPT ![n].follow = "gone"]
  /\ UNCHANGED <<conn, client, events, seen, applied>>

\* promoteTo.
Promote(n) ==
  /\ Happens("promote") /\ ~closing(n) /\ node[n].role = "follower"
  /\ node' = [node EXCEPT ![n].role = "leader", ![n].leader = n, ![n].epoch = @ + 1]
  /\ UNCHANGED <<conn, client, seen, applied>>

\* handleAnnounce at m, from n.
Announce(n, m) ==
  /\ node[n].role = "leader" /\ node[m].epoch < node[n].epoch
  /\ ~closing(m) /\ node[m].accepting
  /\ node' = [node EXCEPT ![m].role = "follower", ![m].leader = n, ![m].epoch = node[n].epoch]
  /\ UNCHANGED <<conn, client, events, seen, applied>>

------------------------------------------------------------------------------
(* Close *)

CloseAt(n, pc, next) == node[n].cpc = pc /\ node' = [node EXCEPT ![n].cpc = next]

\* closing is set and stop closed.
Close(n) ==
  /\ Happens("close") /\ CloseAt(n, "running", "listener")
  /\ UNCHANGED <<conn, client, seen, applied>>

\* The listener is closed; connections nobody accepted are refused.
CloseListener(n) ==
  /\ CloseAt(n, "listener", "conns")
  /\ conn' = Kept([i \in DOMAIN conn |-> IF conn[i].to = n /\ conn[i].srv = "backlog"
                     THEN [conn[i] EXCEPT !.srv = "gone"] ELSE conn[i]])
  /\ UNCHANGED <<client, events, seen, applied>>

\* A mutation of closeAllConns: connections without a request are left open.
closeAllConnsBusy(n) ==
  /\ CloseAt(n, "conns", "wait")
  /\ conn' = [i \in DOMAIN conn |->
                IF conn[i].to = n /\ conn[i].srv \notin {"accepted", "gone", "read"}
                  THEN [conn[i] EXCEPT !.shut = TRUE] ELSE conn[i]]
  /\ UNCHANGED <<client, events, seen, applied>>

\* closeAllStreams, whose handlers n.stop ends as well, and closeAllConns: every
\* tracked connection is closed under its handler.
closeAllConns(n) ==
  /\ CloseAt(n, "conns", "wait")
  /\ conn' = [i \in DOMAIN conn |->
                IF conn[i].to = n /\ conn[i].srv \notin {"accepted", "gone"}
                  THEN [conn[i] EXCEPT !.shut = TRUE] ELSE conn[i]]
  /\ UNCHANGED <<client, events, seen, applied>>

\* wg.Wait: acceptLoop, followLoop and every handler are over.  Close of the
\* store follows; its background loop and hint builders only end.
CloseWait(n) ==
  /\ ~node[n].accepting /\ node[n].follow = "gone" /\ node[n].serving = {}
  /\ \A i \in DOMAIN conn : conn[i].to = n => conn[i].srv = "gone"
  /\ CloseAt(n, "wait", "merge")
  /\ UNCHANGED <<conn, client, events, seen, applied>>

\* A mutation of CloseMerge: the merge is not waited for.
CloseMergeUnlocked(n) ==
  /\ CloseAt(n, "merge", "closed")
  /\ UNCHANGED <<conn, client, events, seen, applied>>

\* compactMu, which a merge at work holds; then the files are closed.
CloseMerge(n) ==
  /\ node[n].merge # "merging" /\ CloseAt(n, "merge", "closed")
  /\ UNCHANGED <<conn, client, events, seen, applied>>

CloseStep(n) ==
  \/ CloseListener(n) \/ closeAllConns(n)
  \/ CloseWait(n) \/ CloseMerge(n)

\* The goroutine of StartCompaction: Compact takes compactMu and looks at closed.
StartMerge(n) ==
  /\ node[n].merge = "started"
  /\ node' = [node EXCEPT ![n].merge = IF StoreClosed(n) THEN "idle" ELSE "merging"]
  /\ UNCHANGED <<conn, client, events, seen, applied>>

Merged(n) ==
  /\ node[n].merge = "merging" /\ node' = [node EXCEPT ![n].merge = "idle"]
  /\ UNCHANGED <<conn, client, events, seen, applied>>

------------------------------------------------------------------------------
(* The client *)

Call(op) ==
  /\ client.pc = "idle" /\ Happens("call")
  /\ client' = [client EXCEPT !.pc = "connect", !.op = op, !.call = @ + 1,
                              !.attempt = 0, !.prefer = 0]
  /\ seen' = [n \in Nodes |-> {node[n].val}]
  /\ UNCHANGED <<node, conn, applied>>

Current == conn[client.conn]
Turn(k) == (k % Cardinality(Nodes)) + 1

Request == [op |-> client.op, call |-> client.call]

\* connectLocked: keep the connection, and exchange writes the request; or drop
\* it and list the candidates.
connectLocked ==
  /\ client.pc = "connect"
  /\ IF client.conn # 0 /\ client.prefer \in {0, Current.to}
       THEN /\ client' = [client EXCEPT !.pc = "wait", !.prefer = 0]
            /\ conn' = [conn EXCEPT ![client.conn].in = Append(@, Request)]
       ELSE /\ client' = [client EXCEPT !.pc = "dial", !.conn = 0, !.prefer = 0,
                 !.todo = (IF client.prefer = 0 THEN <<>> ELSE <<client.prefer>>)
                          \o [i \in 1..Cardinality(Nodes) |-> Turn(client.next + i - 1)]]
            /\ conn' = Hangup(client.conn)
  /\ UNCHANGED <<node, events, seen, applied>>

\* The call ends with the reply r.
Returns(c, r) == [c EXCEPT !.pc = "done", !.got = r]
Failed == [NoReply EXCEPT !.st = "failed"]

\* connectLocked: one candidate; after the last the call fails.
Dial ==
  /\ client.pc = "dial"
  /\ IF client.todo = <<>>
       THEN client' = Returns(client, Failed) /\ UNCHANGED conn
     ELSE IF Listening(Head(client.todo))
       THEN /\ conn' = Dialled(Head(client.todo), Request)
            /\ client' = [client EXCEPT !.pc = "wait", !.conn = NewId, !.todo = <<>>]
       ELSE /\ client' = [client EXCEPT !.todo = Tail(@), !.next = Turn(@) % Cardinality(Nodes)]
            /\ UNCHANGED conn
  /\ UNCHANGED <<node, events, seen, applied>>

\* call: another attempt, if one is left.
Again(c) ==
  IF c.attempt + 1 < MaxAttempts THEN [c EXCEPT !.pc = "connect", !.attempt = @ + 1]
  ELSE Returns(c, Failed)

\* dropLocked and the next address.
Dropped(c) == [c EXCEPT !.conn = 0, !.next = Turn(@) % Cardinality(Nodes)]

\* call: exchange failed, because the connection broke or the deadline passed.
\* Inside a range the call fails and poisons the connection.
Lost ==
  /\ conn' = Hangup(client.conn)
  /\ client' = IF client.pc = "wait" THEN Again(Dropped(client))
               ELSE Returns([client EXCEPT !.conn = 0], Failed)

Broken ==
  /\ client.pc \in {"wait", "more"} /\ Current.out = <<>> /\ Current.srv = "gone"
  /\ Lost
  /\ UNCHANGED <<node, events, seen, applied>>

Timeout ==
  /\ client.pc \in {"wait", "more"} /\ Happens("timeout")
  /\ Lost
  /\ UNCHANGED <<node, seen, applied>>

\* The deadline of a call whose connection nobody is left to accept passes.
Unheard ==
  /\ client.pc = "wait" /\ Current.srv = "backlog"
  /\ ~closing(Current.to) /\ ~node[Current.to].accepting
  /\ Lost
  /\ UNCHANGED <<node, events, seen, applied>>

Taken == [conn EXCEPT ![client.conn].out = Tail(@)]

\* call: follow a redirect, or try the next address if the node knows no leader
\* but itself.
Redirected ==
  /\ client.pc = "wait" /\ Current.out # <<>> /\ Head(Current.out).st = "redirect"
  /\ IF Head(Current.out).val = Current.to
       THEN client' = Again(Dropped(client)) /\ conn' = Hangup(client.conn)
       ELSE client' = Again([client EXCEPT !.prefer = Head(Current.out).val]) /\ conn' = Taken
  /\ UNCHANGED <<node, events, seen, applied>>

\* call: the answer, an error of the server too.  A range goes on with its next
\* frame.
Receive ==
  /\ client.pc \in {"wait", "more"} /\ Current.out # <<>>
  /\ Head(Current.out).st # "redirect"
  /\ client' = IF Head(Current.out).st = "chunk" THEN [client EXCEPT !.pc = "more", !.got = Head(Current.out)]
               ELSE IF client.pc = "more" THEN [client EXCEPT !.pc = "done"]
               ELSE Returns(client, Head(Current.out))
  /\ conn' = Taken
  /\ UNCHANGED <<node, events, seen, applied>>

\* A mutation of GiveUp: the connection is kept.
GiveUpKeeps ==
  /\ client.pc = "more"
  /\ client' = [client EXCEPT !.pc = "done"]
  /\ UNCHANGED <<node, conn, events, seen, applied>>

\* ScanKeyRange: the caller gives up inside the range; the connection is
\* poisoned and call drops it.
GiveUp ==
  /\ client.pc = "more"
  /\ client' = [client EXCEPT !.pc = "done", !.conn = 0]
  /\ conn' = Hangup(client.conn)
  /\ UNCHANGED <<node, events, seen, applied>>

Return ==
  /\ client.pc = "done"
  /\ client' = [client EXCEPT !.pc = "idle", !.op = "none", !.attempt = 0, !.got = NoReply]
  /\ seen' = [n \in Nodes |-> {}]
  /\ UNCHANGED <<node, conn, events, applied>>

\* Close of the client.
ClientClose ==
  /\ client.pc = "idle"
  /\ client' = [client EXCEPT !.pc = "closed", !.conn = 0]
  /\ conn' = Hangup(client.conn)
  /\ UNCHANGED <<node, events, seen, applied>>

------------------------------------------------------------------------------

ClientStep == connectLocked \/ Dial \/ Broken \/ Unheard \/ Redirected \/ Receive \/ Return
AcceptLoop(n) == Accept(n) \/ AcceptFails(n) \/ trackConn(n)
FollowLoop(n) == Attach(n) \/ FollowEnds(n) \/ FollowStops(n)
Background(n) == StartMerge(n) \/ Merged(n)

Next ==
  \/ \E op \in Ops : Call(op)
  \/ ClientStep \/ Timeout \/ GiveUp \/ ClientClose
  \/ \E i \in DOMAIN conn : Handler(i)
  \/ \E n \in Nodes :
       \/ AcceptLoop(n) \/ AcceptGivesUp(n) \/ FollowLoop(n) \/ Promote(n)
       \/ Close(n) \/ CloseStep(n) \/ Background(n)
  \/ \E n, m \in Nodes : Announce(n, m) \/ ServeEnds(n, m)

Spec == Init /\ [][Next]_vars

\* What goroutines do once they can, in nodes and client.
Progress ==
  \/ ClientStep \/ \E i \in DOMAIN conn : Handler(i)
  \/ \E n \in Nodes : AcceptLoop(n) \/ FollowStops(n) \/ CloseStep(n) \/ Background(n)
  \/ \E n, m \in Nodes : ServeEnds(n, m)

\* As long as a goroutine can run, some goroutine does: the least a scheduler
\* gives.  Two of the steps rest on a deadline the code sets: FollowStops on that
\* of the follow loop's reads, Unheard on that of the client's exchange.  No other
\* deadline of a client has to pass.
FairSpec == Spec /\ WF_vars(Progress)
------------------------------------------------------------------------------
(* Properties *)

\* The type of every variable.  The client's connection is the only one that is
\* open at its end.
TypeOK ==
  /\ \A n \in Nodes :
       /\ node[n].role \in {"leader", "follower"} /\ {node[n].leader} \subseteq Nodes
       /\ node[n].cpc \in {"running", "listener", "conns", "wait", "merge", "closed"}
       /\ node[n].merge \in {"idle", "started", "merging"}
       /\ node[n].val \in 0..MaxEvents /\ node[n].epoch \in 1..(MaxEvents + 1)
       /\ node[n].accepting \in BOOLEAN
       /\ node[n].follow \in {"top", "stream", "gone"} /\ node[n].serving \subseteq Nodes \ {n}
       /\ node[n].hand # 0 => conn[node[n].hand].srv = "accepted"
  /\ {i \in DOMAIN conn : conn[i].open} = {client.conn} \ {0}
  /\ client.pc \in {"idle", "connect", "dial", "wait", "more", "done", "closed"}
  /\ client.call = events["call"] /\ client.attempt \in 0..(MaxAttempts - 1)
  /\ \A e \in DOMAIN events : events[e] \in 0..MaxEvents

\* An answer is the answer to the call that gets it, and was true of the node
\* that gave it at some moment of the call: a write that is reported done was
\* in that node's store, and what was read was there, however many earlier
\* answers were still on their way when the client gave up on them.
AnswerIsTrue ==
  LET r == client.got
      was == seen[r.from]
  IN  (client.pc = "done" /\ r.st \notin {"failed", "error"}) =>
        /\ r.call = client.call
        /\ CASE client.op = "put" -> client.call \in was
             [] client.op = "delete" -> 0 \in was
             [] client.op = "get" -> r.val \in was
             [] client.op = "range" -> r.val \in was
             [] OTHER -> TRUE

\* call repeats a write only when it cannot know what became of it: as long as
\* no request timed out and no node was shut down, redirects and changes of
\* leader included, every write is applied once at most.
AppliedOnce ==
  (events["timeout"] = 0 /\ events["close"] = 0) => \A c \in DOMAIN applied : applied[c] <= 1

\* The files of a store are closed only when nobody uses them any more: no
\* handler is left and no merge (the order of steps in Close of
\* the node and of the store).
StoreOutlivesUsers ==
  \A n \in Nodes : node[n].cpc = "closed" =>
    /\ node[n].merge # "merging"
    /\ \A i \in DOMAIN conn : conn[i].to = n => conn[i].srv = "gone"

\* Every call returns.  It waits for its deadline only at a node that runs on
\* without its accept loop; a node that is shutting down answers it or closes its
\* connection, wherever the request is.
CallsReturn == client.pc \notin {"idle", "closed"} ~> client.pc = "idle"

\* Close of a node ends, with clients and followers that stay connected and say
\* nothing, and with both nodes closing at once.
CloseReturns == \A n \in Nodes : closing(n) ~> node[n].cpc = "closed"
==============================================================================
