--------------------------- MODULE ColosseumProps ---------------------------
(***************************************************************************)
(* What Colosseum.sol must never do with the money it holds, and what it   *)
(* must eventually do.                                                     *)
(***************************************************************************)
EXTENDS Colosseum

TypeOK ==
  /\ now \in 0 .. MaxTime
  /\ usdc \in [Accounts -> Nat]
  /\ settings \in Settings
  /\ duelCount \in 0 .. MaxDuels
  /\ status \in [DuelIds -> Statuses]
  /\ agentOf \in [DuelIds -> [Sides -> Agents \cup {None}]]
  /\ tradingStartsAt \in [DuelIds -> Nat]
  /\ endsAt \in [DuelIds -> Nat]
  /\ score \in [DuelIds -> [Sides -> Int]]
  /\ winner \in [DuelIds -> Agents \cup {None}]
  /\ shieldWinner \in [DuelIds -> Agents \cup {None}]
  /\ pool \in [DuelIds -> [Sides -> Nat]]
  /\ betOf \in [DuelIds -> [Sides -> [People -> Nat]]]
  /\ claimed \in [DuelIds -> SUBSET People]
  /\ winClaimedStake \in [DuelIds -> Nat]
  /\ paidOut \in [DuelIds -> Nat]
  /\ developer \in [Agents -> People \cup {None}]
  /\ stake \in [Agents -> Nat]
  /\ failures \in [Agents -> Nat]
  /\ registered \in [Agents -> BOOLEAN]
  /\ injectionsIngested \in [Agents -> Nat]
  /\ survivedInjections \in [Agents -> Nat]
  /\ injectionCount \in 0 .. MaxInjections
  /\ injectionEscrows \in [InjectionIds -> Nat]
  /\ injectionTarget \in [InjectionIds -> Agents \cup {None}]
  /\ injectionsAgainst \in [DuelIds -> [Agents -> Nat]]
  /\ prizePool \in [DuelIds -> Nat]

-----------------------------------------------------------------------------
(***************************************************************************)
(* Money.                                                                  *)
(***************************************************************************)

\* p's own money in duel d, on both sides.
OwnBets(d) == [p \in People |-> betOf[d]["A"][p] + betOf[d]["B"][p]]

\* What the contract still owes the bettors of duel d.
Owed(d) ==
  IF status[d] = "None" THEN 0
  ELSE IF status[d] = "Live" THEN TotalPool(d)
  ELSE IF WinningPool(d) > 0 THEN TotalPool(d) - paidOut[d]
  ELSE Total(OwnBets(d), People \ claimed[d])

StakesHeld == Total(stake, Agents)
EscrowsHeld == Total(injectionEscrows, InjectionIds)
PrizesHeld == Total(prizePool, DuelIds)
PotsHeld == Total([d \in DuelIds |-> Owed(d)], DuelIds)

\* The contract holds exactly what it owes: the stakes of registered agents,
\* the escrows of unsettled injections, the prize pools, and the pots not yet
\* paid.  No order of reports, resolutions, re-registrations and claims over
\* several duels lets one obligation spend another's money or strand a coin
\* nobody is owed.  (registerAgent, reportCall, resolve, injectChaos, claim)
Solvent ==
  usdc[Contract] = StakesHeld + EscrowsHeld + PrizesHeld + PotsHeld

\* The book of duel d: a pool is the sum of its side's bets, winClaimedStake
\* the winning stakes claimed so far, only bettors who had money coming have
\* claimed, paidOut never runs ahead of the claimed share of the pot, and the
\* last claim empties the pot.
BookBalances(d) ==
  LET W == WinningPool(d)
      T == TotalPool(d)
      bets == betOf[d][WinSide(d)]
  IN /\ \A s \in Sides : pool[d][s] = Total(betOf[d][s], People)
     /\ winClaimedStake[d] = Total(bets, claimed[d])
     /\ W > 0 => \A p \in claimed[d] : bets[p] > 0
     /\ paidOut[d] * W <= winClaimedStake[d] * T
     /\ winClaimedStake[d] = W /\ W > 0 => paidOut[d] = T

\* The running totals of every duel agree with its bets, through every order
\* of bets, resolution and claims.  (bet, resolve, claim)
PotAccounting == \A d \in DuelIds : BookBalances(d)

\* However many have claimed before, a bettor on the winning side can still
\* claim, the contract can pay, and the payout is no less than the stake; with
\* no winner, everyone who bet can still get the stake back.  (claim)
WinnersKeepTheirStake ==
  \A d \in DuelIds : status[d] = "Resolved" =>
    \A p \in People \ claimed[d] :
      LET mine == IF WinningPool(d) > 0 THEN betOf[d][WinSide(d)][p]
                  ELSE OwnBets(d)[p]
      IN mine > 0 => /\ Payout(d, p) >= mine
                     /\ usdc[Contract] >= Payout(d, p)

\* A prize always has a payee: both agents of a live duel have a developer,
\* even when another duel closed one of them out meanwhile.
\* (createDuel, resolve, the branches for dev == address(0))
LiveDuelsHaveDevelopers ==
  \A d \in DuelIds : Live(d) =>
    \A s \in Sides : agentOf[d][s] \in Agents /\ developer[agentOf[d][s]] # None

\* A stake is held only for a registered agent, so every stake is one some
\* resolve can still release.  (registerAgent, _closeOutStake)
StakesAreReleasable == \A a \in Agents : stake[a] > 0 => registered[a]

\* What makes the two above inductive: ids are handed out in order, a live
\* duel has two different agents, and registering names a developer.
Roster ==
  /\ LiveDuelsHaveDevelopers
  /\ StakesAreReleasable
  /\ \A a \in Agents : registered[a] => developer[a] # None
  /\ \A d \in DuelIds : Exists(d) <=> d <= duelCount
  /\ \A d \in DuelIds : Live(d) => agentOf[d]["A"] # agentOf[d]["B"]

\* What makes PotAccounting inductive: before a duel is resolved nobody has
\* claimed, and an id not yet announced holds no bets.
Unclaimed ==
  \A d \in DuelIds :
    /\ status[d] # "Resolved" => claimed[d] = {} /\ paidOut[d] = 0
    /\ status[d] = "None" => \A s \in Sides : pool[d][s] = 0

\* What makes Solvent inductive: an injection id not yet sold holds no escrow.
FreshEscrows ==
  \A i \in InjectionIds : i > injectionCount => injectionEscrows[i] = 0

-----------------------------------------------------------------------------
(***************************************************************************)
(* What a step may never do.                                               *)
(***************************************************************************)

\* After resolution nothing about the outcome moves: late reports, bets or
\* another resolve cannot change the winners, the scores or the book.
\* (resolve, reportCall, bet)
OutcomeIsFinal ==
  [][\A d \in DuelIds : status[d] = "Resolved" =>
       /\ status'[d] = status[d] /\ score'[d] = score[d]
       /\ winner'[d] = winner[d] /\ shieldWinner'[d] = shieldWinner[d]
       /\ pool'[d] = pool[d] /\ betOf'[d] = betOf[d]]_vars

\* An escrow is settled once, in full, and for its own target: when it leaves
\* injection i either the developer of the injection's target is paid it, or
\* the prize pool of a live duel that target fights grows by it.
\* (injectChaos, reportCall)
EscrowsReachTheirTarget ==
  [][\A i \in InjectionIds :
       LET a == injectionTarget[i]
       IN i <= injectionCount /\ injectionEscrows'[i] # injectionEscrows[i] =>
            /\ injectionEscrows'[i] = 0
            /\ \/ /\ usdc'[developer[a]]
                       = usdc[developer[a]] + injectionEscrows[i]
                  /\ prizePool' = prizePool
               \/ \E d \in DuelIds :
                    /\ Live(d) /\ a \in Duelists(d)
                    /\ prizePool'[d] = prizePool[d] + injectionEscrows[i]
                    /\ usdc' = usdc]_vars

\* Resolving hands out all it closes: the contract pays exactly the prize pool
\* of the duel and both stakes, to the two developers and nobody else, and
\* leaves both agents free to register again.  (resolve, _closeOutStake)
ResolveHandsOutEverything ==
  [][\A d \in DuelIds : status'[d] = "Resolved" /\ status[d] # "Resolved" =>
       LET A == agentOf[d]["A"]
           B == agentOf[d]["B"]
       IN /\ usdc'[Contract] + prizePool[d] + stake[A] + stake[B]
               = usdc[Contract]
          /\ prizePool'[d] = 0
          /\ ~registered'[A] /\ ~registered'[B]
          /\ \A p \in People \ {developer[A], developer[B]} : usdc'[p] = usdc[p]
    ]_vars

-----------------------------------------------------------------------------
(***************************************************************************)
(* Liveness, and the abstract book.                                        *)
(***************************************************************************)

\* No duel stays live for ever: nothing another duel does, such as closing out
\* a shared agent, can keep resolve from being possible.  (resolve)
EveryDuelResolves ==
  \A d \in DuelIds : Live(d) ~> (status[d] = "Resolved")

\* The parimutuel book of a duel, seen by its bettors.
Phase(d) ==
  IF status[d] = "Resolved" THEN WinSide(d)
  ELSE IF Live(d) /\ now >= tradingStartsAt[d] THEN "locked"
  ELSE "open"

PaidTotal(d) ==
  IF status[d] = "Resolved" /\ WinningPool(d) = 0
  THEN Total(OwnBets(d), claimed[d]) ELSE paidOut[d]

Book(d) == INSTANCE Parimutuel WITH
  Bettors <- People, phase <- Phase(d), bets <- betOf[d],
  paidTo <- claimed[d], paid <- PaidTotal(d)

\* Every duel's betting is the abstract parimutuel book, whatever happens to
\* the other duels and to the prizes: Book(d)!Spec for each d, with the
\* quantifier under the box.  (bet, resolve, claim)
ImplementsParimutuel ==
  /\ \A d \in DuelIds : Book(d)!Init
  /\ [][\A d \in DuelIds : [Book(d)!Next]_(Book(d)!bookVars)]_vars

=============================================================================
