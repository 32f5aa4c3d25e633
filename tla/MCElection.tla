------------------------------ MODULE MCElection -----------------------------
(***************************************************************************)
(* Election on three nodes.                                                *)
(***************************************************************************)
EXTENDS Election

\* Node 1 is started with -bootstrap, the others with -leader 1; two nodes die.
Bootstrapped ==
  [leader |-> [n \in Nodes |-> 1], lossy |-> FALSE, restartedAs |-> {}, promotions |-> 0,
   epochs |-> 4, records |-> 2, crashes |-> 2, restarts |-> 0]

\* The same on connections that fail, and a node that died is restarted.
Unreliable == [Bootstrapped EXCEPT !.lossy = TRUE, !.restartedAs = {2}, !.epochs = 2,
                                   !.records = 0, !.crashes = 1, !.restarts = 1]

\* Nobody is told of a leader.
Leaderless == [Bootstrapped EXCEPT !.leader = [n \in Nodes |-> 0], !.epochs = 3,
                                   !.records = 1, !.crashes = 0]

\* The operator promotes a node, of a cluster that has a leader or of one that
\* has yet to elect one.
Handover == [Bootstrapped EXCEPT !.promotions = 1, !.epochs = 3, !.records = 1, !.crashes = 0]
Takeover == [Leaderless EXCEPT !.promotions = 1, !.records = 0]

\* A leader that accepted writes dies, and stays away or comes back.
LeaderDies == [Bootstrapped EXCEPT !.epochs = 2, !.records = 1, !.crashes = 1]
LeaderReturns == [LeaderDies EXCEPT !.restartedAs = {2}, !.restarts = 1]

SafetyScenarios == {Bootstrapped, Unreliable, Handover, Takeover}
HandoverScenarios == {Handover, Leaderless}
TakeoverScenarios == {Takeover}
FailoverScenarios == {LeaderDies}
RejoinScenarios == {LeaderReturns}
==============================================================================
