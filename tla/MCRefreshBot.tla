---------------------------- MODULE MCRefreshBot ----------------------------
(* RefreshBot over two small instances in one run: one pull request, two    *)
(* overlapping runs and two moves of its author; or two pull requests and   *)
(* one run that both share.                                                 *)
EXTENDS RefreshBot

VARIABLE scenario

Overlap == [pulls |-> {"p1"}, pushes |-> 2, moves |-> 2]

Matrix == [pulls |-> {"p1", "p2"}, pushes |-> 1, moves |-> 1]

MCInit ==
  /\ scenario \in {Overlap, Matrix}
  /\ Init
  /\ opted = scenario.pulls

MCNext ==
  /\ Next
  /\ UNCHANGED scenario
  /\ main' <= scenario.pushes
  /\ moves' <= scenario.moves
  /\ \A b \in PullRequests \ scenario.pulls : b \notin opted' /\ head'[b] = head[b]

MCFairSpec == MCInit /\ [][MCNext]_<<vars, scenario>> /\ Fairness

=============================================================================
