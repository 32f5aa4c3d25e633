------------------------------ MODULE Election -------------------------------
(***************************************************************************)
(* Failover: how the nodes of a cluster lose, elect and follow a leader    *)
(* (internal/node/election.go, and from replication.go the loop that       *)
(* attaches a follower to its leader and decides to call an election).     *)
(*                                                                         *)
(* Each node runs one follow loop, whose place is pc, beside the handlers  *)
(* of its connections.  n.mu makes each read or update of role, leader and *)
(* epoch one step; nothing is held between two of them.  The data a node   *)
(* holds is represented by the number of its newest record.                *)
(***************************************************************************)
EXTENDS Naturals, FiniteSetsExt

CONSTANTS
  Nodes,     \* the cluster; the order of ids is the order of the numbers
  Scenarios  \* how the cluster is started and what may befall it

\* leader: who each node is told to follow, 0 for none, itself when it is
\* started with -bootstrap.  lossy: connections to a live node may fail or
\* stall.  restartedAs: the leaders an operator gives a node that is restarted.
\* The others bound the promotions the operator orders, the epochs, the records
\* clients write, the crashes and the restarts.
Scenario == [leader: [Nodes -> Nodes \cup {0}], lossy: BOOLEAN,
             restartedAs: SUBSET (Nodes \cup {0}), promotions: Nat, epochs: Nat,
             records: Nat, crashes: Nat, restarts: Nat]

ASSUME ElectionAssumption ==
  /\ Nodes \subseteq Nat \ {0} /\ IsFiniteSet(Nodes)
  /\ IsFiniteSet(Scenarios) /\ Scenarios # {} /\ Scenarios \subseteq Scenario

VARIABLES
  node,       \* node -> its fields and the state of its follow loop
  poll,       \* node -> the election it is holding
  announced,  \* announcements on their way
  orders,     \* promotions an operator ordered, with the epoch computed for them
  alone,      \* history: the nodes that accepted a write nobody has taken from them
  scenario,   \* the scenario, chosen at the start
  crashes, restarts, promotions  \* how many there were

happened == <<scenario, crashes, restarts, promotions>>

vars == <<node, poll, announced, orders, alone, happened>>

NoReply == [role |-> "none", from |-> 0, epoch |-> 0, seq |-> 0, leader |-> 0, alive |-> FALSE]

NoPoll == [todo |-> {}, seq |-> 0, epoch |-> 0, answers |-> 0, best |-> TRUE, reply |-> NoReply]

\* New: epoch 1, and the role and leader the node is started with.  The store,
\* and with it seq, is what the disk holds.  fresh stands for "the last contact
\* is at most ElectionTimeout ago".
New(n, lead, s) ==
  [up |-> TRUE, role |-> IF lead = n THEN "leader" ELSE "follower", leader |-> lead,
   epoch |-> 1, fresh |-> TRUE, wasLeader |-> FALSE, seq |-> s,
   pc |-> "top", target |-> 0, owed |-> FALSE]

Init ==
  /\ scenario \in Scenarios
  /\ node = [n \in Nodes |-> New(n, scenario.leader[n], 0)]
  /\ poll = [n \in Nodes |-> NoPoll]
  /\ announced = {} /\ orders = {} /\ alone = {}
  /\ crashes = 0 /\ restarts = 0 /\ promotions = 0

\* The loop of n is at pc.
At(n, pc) == node[n].up /\ node[n].pc = pc

\* The peer n has dialled or streams from.
Peer(n) == node[node[n].target]

\* n streams, and the other end of its connection is there.
Connected(n) == At(n, "stream") /\ node[n].target # 0 /\ Peer(n).up

\* The node states nd when the streams n served are closed at its end: their
\* followers will read the end of the stream and nothing more.
Closed(nd, n) ==
  [p \in Nodes |-> IF nd[p].pc = "stream" /\ nd[p].target = n
                     THEN [nd[p] EXCEPT !.target = 0] ELSE nd[p]]

------------------------------------------------------------------------------
(* The follow loop *)

\* Time passes without a frame.  On a working connection to a live leader the
\* heartbeats prevent it.
Silence(n) ==
  /\ node[n].up /\ node[n].role = "follower" /\ node[n].fresh
  /\ scenario.lossy \/ ~(Connected(n) /\ Peer(n).role = "leader")
  /\ node' = [node EXCEPT ![n].fresh = FALSE]
  /\ UNCHANGED <<poll, announced, orders, alone, happened>>

\* followLoop: a follower with a leader to stream from dials it.
Dial(n) ==
  /\ At(n, "top") /\ node[n].role = "follower" /\ node[n].leader \notin {0, n}
  /\ node' = [node EXCEPT ![n].pc = "dial", ![n].target = node[n].leader]
  /\ UNCHANGED <<poll, announced, orders, alone, happened>>


\* followLoop: a follower with none stands for election once it is overdue.
StandAlone(n) ==
  /\ At(n, "top") /\ node[n].role = "follower" /\ node[n].leader \in {0, n}
  /\ ~node[n].fresh
  /\ node' = [node EXCEPT ![n].pc = "elect"]
  /\ UNCHANGED <<poll, announced, orders, alone, happened>>

\* followLoop after replicateFrom returned: stand for election, or go round.
Returned(st) ==
  [st EXCEPT !.pc = IF st.role = "follower" /\ ~st.fresh THEN "elect" ELSE "top",
             !.target = 0, !.owed = FALSE]

\* replicateFrom reaches a leader: serveReplication takes the stream on.  The
\* leader orders a full resync when asked from 0 or when its log does not
\* reach back far enough.
Attach(n) ==
  /\ At(n, "dial") /\ Peer(n).up /\ Peer(n).role = "leader"
  /\ \E full \in {TRUE, node[n].wasLeader \/ node[n].seq = 0} :
       node' = [node EXCEPT ![n].pc = "stream", ![n].owed = full, ![n].wasLeader = FALSE]
  /\ UNCHANGED <<poll, announced, orders, alone, happened>>

\* replicateFrom reaches a node that does not lead and is pointed elsewhere.
\* The redirect counts as contact.
Redirected(n) ==
  /\ At(n, "dial") /\ Peer(n).up /\ Peer(n).role = "follower"
  /\ LET told == Peer(n).leader
         next == IF told \in {0, node[n].target} THEN node[n].leader ELSE told
     IN  node' = [node EXCEPT ![n] =
           Returned([@ EXCEPT !.leader = next, !.fresh = TRUE, !.wasLeader = FALSE])]
  /\ UNCHANGED <<poll, announced, orders, alone, happened>>

\* replicateFrom fails: the dial is refused or times out, or the connection
\* breaks or stalls after wasLeader was consumed.
DialFails(n) ==
  /\ At(n, "dial") /\ (scenario.lossy \/ ~Peer(n).up)
  /\ \E was \in {node[n].wasLeader, FALSE} :
       node' = [node EXCEPT ![n] = Returned([@ EXCEPT !.wasLeader = was])]
  /\ UNCHANGED <<poll, announced, orders, alone, happened>>

\* A mutation of adoptEpoch: any epoch is taken, a lower one too.
AdoptAnyEpoch(me, h) ==
  IF me.role = "follower"
    THEN [me EXCEPT !.epoch = h.epoch, !.leader = IF h.leader # 0 THEN h.leader ELSE @]
    ELSE me

\* adoptEpoch: what node state me learns from a heartbeat of h.
adoptEpoch(me, h) ==
  IF h.epoch >= me.epoch /\ me.role = "follower"
    THEN [me EXCEPT !.epoch = h.epoch, !.leader = IF h.leader # 0 THEN h.leader ELSE @]
    ELSE me

\* A heartbeat arrives.
Heartbeat(n) ==
  /\ Connected(n)
  /\ node' = [node EXCEPT ![n] = adoptEpoch([@ EXCEPT !.fresh = TRUE], Peer(n))]
  /\ UNCHANGED <<poll, announced, orders, alone, happened>>

\* The leader's order to discard everything arrives: Reset.
FullSync(n) ==
  /\ Connected(n) /\ node[n].owed
  /\ node' = [node EXCEPT ![n].fresh = TRUE, ![n].owed = FALSE, ![n].seq = 0]
  /\ alone' = alone \ {n}
  /\ UNCHANGED <<poll, announced, orders, happened>>

\* Records arrive: ApplyRaw.  Once n has all its peer has, the peer is no longer
\* the only one to hold what it accepted.
ReplData(n) ==
  /\ Connected(n) /\ ~node[n].owed
  /\ \E s \in (node[n].seq + 1)..Peer(n).seq :
       /\ node' = [node EXCEPT ![n].fresh = TRUE, ![n].seq = s]
       /\ alone' = alone \ {p \in {node[n].target} : s = node[p].seq}
  /\ UNCHANGED <<poll, announced, orders, happened>>

\* The stream ends: the leader died or stepped down, dropped the stream, or
\* nothing came before the read deadline.
StreamEnds(n) ==
  /\ At(n, "stream") /\ (scenario.lossy \/ ~(Connected(n) /\ Peer(n).role = "leader"))
  /\ node' = [node EXCEPT ![n] = Returned(@)]
  /\ UNCHANGED <<poll, announced, orders, alone, happened>>

------------------------------------------------------------------------------
(* The election *)

\* startElection up to the first request.
startElection(n) ==
  /\ At(n, "elect")
  /\ IF node[n].role = "leader"
       THEN node' = [node EXCEPT ![n].pc = "top"] /\ UNCHANGED poll
       ELSE /\ node' = [node EXCEPT ![n].pc = "poll"]
            /\ poll' = [poll EXCEPT ![n] =
                 [todo |-> Nodes \ {n}, seq |-> node[n].seq, epoch |-> node[n].epoch,
                  answers |-> 1, best |-> TRUE, reply |-> NoReply]]
  /\ UNCHANGED <<announced, orders, alone, happened>>

\* The peer n is asking, in the order of the peer list.
Asked(n) == Min(poll[n].todo)

Waiting(n) == At(n, "poll") /\ poll[n].reply = NoReply /\ poll[n].todo # {}

\* handleVote at the peer n asks.
handleVote(n) ==
  /\ Waiting(n) /\ node[Asked(n)].up
  /\ LET p == node[Asked(n)]
     IN  poll' = [poll EXCEPT ![n].reply =
           [role |-> p.role, from |-> Asked(n), epoch |-> p.epoch, seq |-> p.seq,
            leader |-> p.leader, alive |-> p.role = "leader" \/ p.fresh]]
  /\ UNCHANGED <<node, announced, orders, alone, happened>>

\* requestVote fails: the peer is down, or did not answer in time.
NoAnswer(n) ==
  /\ Waiting(n) /\ (scenario.lossy \/ ~node[Asked(n)].up)
  /\ poll' = [poll EXCEPT ![n].todo = @ \ {Asked(n)}]
  /\ UNCHANGED <<node, announced, orders, alone, happened>>

\* adoptLeader, and the election is over.
adoptLeader(n, l, e) ==
  /\ node' = [node EXCEPT ![n].leader = l, ![n].fresh = TRUE, ![n].pc = "top",
                          ![n].epoch = IF e > @ THEN e ELSE @]
  /\ poll' = [poll EXCEPT ![n] = NoPoll]

\* Two mutations of Ahead: of two equal candidates neither is preferred; only
\* the ids are compared.
AheadWithoutTies(r, n) == r.seq > poll[n].seq
AheadById(r, n) == r.from < n

\* The peer that answered r is a better candidate than n.
Ahead(r, n) == r.seq > poll[n].seq \/ (r.seq = poll[n].seq /\ r.from < n)

\* startElection, the body of the loop over the peers.
TakeReply(n) ==
  LET r == poll[n].reply
      mine == poll[n]
  IN  /\ At(n, "poll") /\ r # NoReply
      /\ \/ /\ r.role = "leader" /\ r.epoch >= mine.epoch
            /\ adoptLeader(n, r.from, r.epoch)
         \/ /\ ~(r.role = "leader" /\ r.epoch >= mine.epoch)
            /\ r.alive /\ r.leader # 0
            /\ adoptLeader(n, r.leader, Max({r.epoch, mine.epoch}))
         \/ /\ ~(r.role = "leader" /\ r.epoch >= mine.epoch) /\ ~(r.alive /\ r.leader # 0)
            /\ poll' = [poll EXCEPT ![n] =
                 [@ EXCEPT !.todo = @ \ {r.from}, !.answers = @ + 1,
                           !.best = @ /\ ~Ahead(r, n),
                           !.epoch = Max({@, r.epoch}),
                           !.reply = NoReply]]
            /\ UNCHANGED node
      /\ UNCHANGED <<announced, orders, alone, happened>>

\* promoteTo, with the loop of n left at pc.  What streams n still had from an
\* earlier time as leader, handleAnnounce has closed.
promoteTo(n, e, pc) ==
  IF node[n].role = "leader" /\ node[n].epoch >= e
    THEN /\ node' = [node EXCEPT ![n].pc = pc]
         /\ UNCHANGED announced
    ELSE /\ e <= scenario.epochs
         /\ LET others == IF node[n].role = "leader" THEN node ELSE Closed(node, n)
            IN  node' = [others EXCEPT ![n].pc = pc, ![n].role = "leader", ![n].leader = n,
                                       ![n].epoch = e, ![n].fresh = TRUE]
         /\ announced' = announced \cup {[to |-> p, from |-> n, epoch |-> e] : p \in Nodes \ {n}}

\* A majority answered, and nobody who did is a better candidate.
Elected(n) == poll[n].answers * 2 > Cardinality(Nodes) /\ poll[n].best

\* A mutation of Decide: the election is never marked as over.
DecideWithoutEnd(n) ==
  /\ At(n, "poll") /\ poll[n].todo = {} /\ poll[n].reply = NoReply
  /\ IF Elected(n) THEN promoteTo(n, poll[n].epoch + 1, "top")
     ELSE node' = [node EXCEPT ![n].pc = "top"] /\ UNCHANGED announced
  /\ UNCHANGED <<poll, orders, alone, happened>>

\* startElection, after the last peer.
Decide(n) ==
  /\ At(n, "poll") /\ poll[n].todo = {} /\ poll[n].reply = NoReply
  /\ IF Elected(n) THEN promoteTo(n, poll[n].epoch + 1, "top")
     ELSE node' = [node EXCEPT ![n].pc = "top"] /\ UNCHANGED announced
  /\ poll' = [poll EXCEPT ![n] = NoPoll]
  /\ UNCHANGED <<orders, alone, happened>>

\* Two mutations of SteppedDown: the node goes on leading; a demoted leader
\* does not remember that it led.
FollowsButLeads(me, m) ==
  [me EXCEPT !.leader = m.from, !.epoch = m.epoch, !.fresh = TRUE,
             !.wasLeader = @ \/ me.role = "leader"]

\* What an announcement m of a higher epoch makes of the node state me.
SteppedDown(me, m) ==
  [me EXCEPT !.role = "follower", !.leader = m.from, !.epoch = m.epoch, !.fresh = TRUE,
             !.wasLeader = @ \/ me.role = "leader"]

\* handleAnnounce at the node an announcement was sent to.
handleAnnounce(m) ==
  LET me == node[m.to]
  IN  /\ me.up /\ announced' = announced \ {m}
      /\ node' = IF m.epoch <= me.epoch THEN node ELSE [node EXCEPT ![m.to] = SteppedDown(me, m)]
      /\ UNCHANGED <<poll, orders, alone, happened>>

\* announceTo fails: an end of the connection is down, or it stalls.  It is
\* not tried again.
AnnounceLost(m) ==
  /\ scenario.lossy \/ ~node[m.to].up \/ ~node[m.from].up
  /\ announced' = announced \ {m}
  /\ UNCHANGED <<node, poll, orders, alone, happened>>

\* Promote, ordered by an operator, runs in a handler of its own beside the
\* loop.  It reads the epoch, and takes n.mu again in promoteTo.
Promote(n) ==
  /\ node[n].up /\ promotions < scenario.promotions
  /\ orders' = orders \cup {[to |-> n, epoch |-> node[n].epoch + 1]}
  /\ promotions' = promotions + 1
  /\ UNCHANGED <<node, poll, announced, alone, scenario, crashes, restarts>>

CarryOut(o) ==
  /\ promoteTo(o.to, o.epoch, node[o.to].pc)
  /\ orders' = orders \ {o}
  /\ UNCHANGED <<poll, alone, happened>>

------------------------------------------------------------------------------
(* Clients and failures *)

\* A client's write is accepted by a node that leads.
Write(n) ==
  /\ node[n].up /\ node[n].role = "leader" /\ node[n].seq < scenario.records
  /\ node' = [node EXCEPT ![n].seq = @ + 1]
  /\ alone' = alone \cup {n}
  /\ UNCHANGED <<poll, announced, orders, happened>>

\* A node dies; its store survives, and nothing else: neither the epoch nor
\* wasLeader is on disk.
Crash(n) ==
  /\ node[n].up /\ crashes < scenario.crashes
  /\ node' = [Closed(node, n) EXCEPT ![n] = [New(n, 0, node[n].seq) EXCEPT !.up = FALSE]]
  /\ poll' = [poll EXCEPT ![n] = NoPoll]
  /\ orders' = {o \in orders : o.to # n}
  /\ crashes' = crashes + 1
  /\ UNCHANGED <<announced, alone, scenario, restarts, promotions>>

Restart(n) ==
  /\ ~node[n].up /\ restarts < scenario.restarts
  /\ \E lead \in scenario.restartedAs : node' = [node EXCEPT ![n] = New(n, lead, node[n].seq)]
  /\ restarts' = restarts + 1
  /\ UNCHANGED <<poll, announced, orders, alone, scenario, crashes, promotions>>

Loop(n) ==
  \/ Dial(n) \/ StandAlone(n) \/ Attach(n) \/ Redirected(n) \/ DialFails(n)
  \/ FullSync(n) \/ ReplData(n) \/ StreamEnds(n)
  \/ startElection(n) \/ handleVote(n) \/ NoAnswer(n) \/ TakeReply(n) \/ Decide(n)

Next ==
  \/ \E n \in Nodes :
       Silence(n) \/ Loop(n) \/ Heartbeat(n) \/ Promote(n) \/ Write(n) \/ Crash(n) \/ Restart(n)
  \/ \E m \in announced : handleAnnounce(m) \/ AnnounceLost(m)
  \/ \E o \in orders : CarryOut(o)

Spec == Init /\ [][Next]_vars

\* The scheduler runs every loop and the handlers, the clock advances,
\* heartbeats are sent and announcements handled or given up.
Fairness ==
  /\ \A n \in Nodes : WF_vars(Loop(n)) /\ WF_vars(Silence(n)) /\ WF_vars(Heartbeat(n))
  /\ WF_vars(\E m \in announced : handleAnnounce(m) \/ AnnounceLost(m))
  /\ WF_vars(\E o \in orders : CarryOut(o))

FairSpec == Spec /\ Fairness
------------------------------------------------------------------------------
(* Properties *)

Fields == [up: BOOLEAN, role: {"leader", "follower"}, leader: Nodes \cup {0},
           epoch: Nat, fresh: BOOLEAN, wasLeader: BOOLEAN, seq: Nat,
           pc: {"top", "dial", "stream", "elect", "poll"}, target: Nodes \cup {0}, owed: BOOLEAN]

Replies == [role: {"none", "leader", "follower"}, from: Nodes \cup {0}, epoch: Nat,
            seq: Nat, leader: Nodes \cup {0}, alive: BOOLEAN]

\* The type of every variable.  A node has a target while it dials, and may
\* have one while it streams; it has an election only while it polls.
TypeOK ==
  /\ node \in [Nodes -> Fields]
  /\ poll \in [Nodes -> [todo: SUBSET Nodes, seq: Nat, epoch: Nat, answers: Nat,
                         best: BOOLEAN, reply: Replies]]
  /\ announced \subseteq [to: Nodes, from: Nodes, epoch: Nat]
  /\ orders \subseteq [to: Nodes, epoch: Nat] /\ alone \subseteq Nodes
  /\ scenario \in Scenarios /\ crashes \in Nat /\ restarts \in Nat /\ promotions \in Nat
  /\ \A n \in Nodes : node[n].target # 0 => node[n].pc \in {"dial", "stream"}
  /\ \A n \in Nodes : node[n].pc = "dial" => node[n].target # 0
  /\ \A n \in Nodes : node[n].pc # "poll" => poll[n] = NoPoll

Leaders == {n \in Nodes : node[n].up /\ node[n].role = "leader"}

\* Nodes start once, nobody is promoted by hand and no call between live nodes
\* is lost: the elections alone decide who leads.
Undisturbed == ~scenario.lossy /\ promotions = 0 /\ restarts = 0

\* At most one node wins a round: while the elections alone decide, no two
\* nodes that are up lead at the same epoch.  startElection leaves it to the
\* answers it counted, promoteTo takes the epoch without asking again.
OneLeaderPerEpoch ==
  Undisturbed => \A a, b \in Leaders : a # b => node[a].epoch # node[b].epoch

\* Each promotion bumps an epoch: the epoch a node takes over with (promoteTo)
\* is higher than the one it has reached by then, although it was computed
\* from what the node knew before it polled its peers.
PromotionBumpsEpoch ==
  [][\A n \in Nodes :
       (node[n].up /\ n \notin Leaders /\ n \in Leaders') => node'[n].epoch > node[n].epoch]_vars

\* A node that does not take over never goes back in epochs, whatever the
\* order in which the heartbeats of an old and a new leader (adoptEpoch),
\* announcements (handleAnnounce), the answers to its elections (adoptLeader)
\* and an operator's order reach it.  A follower that takes over may: promoteTo
\* stores the epoch it is given.
EpochKept ==
  [][\A n \in Nodes : (node[n].up /\ node'[n].up /\ n \notin Leaders' \ Leaders)
                        => node'[n].epoch >= node[n].epoch]_vars

\* While the elections alone decide, a node that wins one holds at least as
\* much as every node that is up when it takes over, not only when
\* startElection asked.
ElectedIsUpToDate ==
  [][\A n \in Nodes : (Undisturbed /\ Decide(n) /\ n \in Leaders') =>
       \A p \in Nodes : node[p].up => node[p].seq <= node[n].seq]_vars

\* A node that leads has left replicateFrom and startElection, so nothing
\* resets its store or points its clients elsewhere, and the address it puts
\* in heartbeats and redirects is its own.  A promotion by hand does not wait
\* for that.
LeaderOnlyLeads ==
  promotions = 0 => \A n \in Leaders : node[n].leader = n /\ node[n].pc = "top"

\* A former leader that accepted writes alone discards them before it takes
\* records from another leader: it holds such writes on a stream only while
\* the order to discard everything is still on its way (replicateFrom).
RejoinDiscards == \A n \in alone \ Leaders : node[n].pc = "stream" => node[n].owed


\* n leads and every other node streams from it.
FollowedByAll(n) ==
  n \in Leaders /\ \A p \in Nodes \ {n} : node[p].pc = "stream" /\ node[p].target = n


MajorityUp ==
  \E M \in SUBSET Nodes : Cardinality(M) * 2 > Cardinality(Nodes) /\ \A n \in M : node[n].up

SomeoneLeads == \E n \in Nodes : n \in Leaders

\* A majority that outlives its leader elects another: it is never leaderless
\* for good (startElection, adoptLeader).
MajorityElects == []<>(MajorityUp => SomeoneLeads)
==============================================================================
