---------------------------- MODULE MCColosseum -----------------------------
(***************************************************************************)
(* Small instances of Colosseum for TLC.  Each run names the purses, the   *)
(* settings the contract starts with and the inputs that are tried.        *)
(***************************************************************************)
EXTENDS ColosseumProps, TLC

CONSTANTS p1, p2, p3, p4

\* Betting: three bettors, and a developer who alone can afford the two
\* stakes and has nothing left to bet once they are paid.
BettingUsdc == (p1 :> 2) @@ (p2 :> 3) @@ (p3 :> 2) @@ (p4 :> 8)
BettingDefaults ==
  [treasury |-> p4, itemPrice |-> [i \in Items |-> 0], stakeRequirement |-> 4,
   operatorCutBps |-> 1000, failureThreshold |-> 3, shieldMinScore |-> 0]

\* Arena: two duels that may share their agents, stakes, forfeits, sponsors.
ArenaUsdc == (p1 :> 2) @@ (p2 :> 2)
ArenaDefaults ==
  [treasury |-> p2, itemPrice |-> [i \in Items |-> 0], stakeRequirement |-> 1,
   operatorCutBps |-> 1000, failureThreshold |-> 1, shieldMinScore |-> 0]

\* Chaos: two duels, injections whose price splits into a cut and an escrow.
ChaosUsdc == (p1 :> 2) @@ (p2 :> 4)
ChaosDefaults ==
  [treasury |-> p1, itemPrice |-> [i \in Items |-> IF i = 0 THEN 2 ELSE 0],
   stakeRequirement |-> 1, operatorCutBps |-> 5000, failureThreshold |-> 1,
   shieldMinScore |-> 0]

\* Tuning: one duel while the recorder changes every setting.
TuningUsdc == (p1 :> 3) @@ (p2 :> 0)
TuningDefaults ==
  [treasury |-> p1, itemPrice |-> [i \in Items |-> IF i = 0 THEN 1 ELSE 0],
   stakeRequirement |-> 1, operatorCutBps |-> 0, failureThreshold |-> 1,
   shieldMinScore |-> 0]

=============================================================================
