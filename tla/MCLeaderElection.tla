---------------------------- MODULE MCLeaderElection ----------------------------
EXTENDS LeaderElection
CONSTANTS c1, c2, c3, p1, p2, p3, m1, x1
=============================================================================
