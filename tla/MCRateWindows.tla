---------------------------- MODULE MCRateWindows ----------------------------
(* An instance of RateWindows for TLC: an account with two sessions, two visitors *)
(* of the demo.                                                                    *)
EXTENDS RateWindows, TLC

CONSTANTS owner, demo, home, phone, first, second, feed

MCCallers ==
  {[account |-> owner, demo |-> FALSE, session |-> s] : s \in {home, phone}}
    \cup {[account |-> demo, demo |-> TRUE, session |-> s] : s \in {first, second}}

MCRoutes == {feed}
MCLimit == [r \in MCRoutes |-> 2]
MCTtl == [r \in MCRoutes |-> 3]

Sessions == Permutations({first, second}) \cup Permutations({home, phone})
=============================================================================
