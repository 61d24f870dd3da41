---------------------------- MODULE MCDuelRunner ----------------------------
(***************************************************************************)
(* A small instance of DuelRunner for TLC: one pair of agents, a market    *)
(* that rises and falls, a spectator who can afford every injection.       *)
(***************************************************************************)
EXTENDS DuelRunnerProps, TLC

CONSTANTS a1, a2, p1, p2

Field == <<<<a1, a2>>>>
Purses == (p1 :> 2) @@ (p2 :> 4)
Terms ==
  [treasury |-> p2, itemPrice |-> [i \in Items |-> 2], stakeRequirement |-> 1,
   operatorCutBps |-> 5000, failureThreshold |-> 1, shieldMinScore |-> 0]
Prices_ == [c \in 0 .. Horizon |-> IF c % 2 = 1 THEN 1 ELSE -1]
Scores == {-2, -1, 1}
Durations == [m \in Modes |-> IF m = "cli" THEN 1 ELSE 3]

=============================================================================
