----------------------------- MODULE Colosseum ------------------------------
(***************************************************************************)
(* contracts/src/Colosseum.sol: the arena contract.  Developers stake to   *)
(* register agents, the recorder announces duels and reports scored calls, *)
(* spectators bet before the trading window and buy chaos injections in    *)
(* it, anyone may resolve a duel that is over, and bettors claim.          *)
(*                                                                         *)
(* One action per external function; a transaction is atomic, so an action *)
(* is the whole transaction and a revert is a guard.  The USDC token is    *)
(* external: it is its balances, and a transfer reverts when the payer's   *)
(* balance is too small (allowances are taken as granted).  Events,        *)
(* reportReasoning (which only emits one) and Duel.startAt (written once,  *)
(* never read) are left out.                                               *)
(*                                                                         *)
(* Some definitions are preceded by plausible mistakes in the same code    *)
(* (LiveAsExisting before Live, PayoutWithoutSweep before Payout): nothing *)
(* uses them, they are there to be put in the place of the definition and  *)
(* show that a property notices (README, "Mutations").                     *)
(***************************************************************************)
EXTENDS Integers, FiniteSets, Coins

CONSTANTS
  Agents,          \* agent wallet addresses, used as keys only
  People,          \* everyone who pays or is paid: developers, bettors, treasury
  Contract,        \* the contract's own account
  None,            \* address(0)
  InitialUsdc,     \* what each person holds at deployment
  Defaults,        \* the settings the constructor leaves
  ItemCount,       \* ITEM_COUNT, 3 in the contract
  BettingPeriods, TradingPeriods, BetAmounts, FundAmounts, Returns,
  Prices, Stakes, Cuts, Thresholds, MinScores, Treasuries,   \* inputs tried
  MaxDuels, MaxInjections, MaxTime, MaxScore,
  MaxReports, MaxFailures   \* bounds

Items == 0 .. ItemCount - 1
Sides == {"A", "B"}
DuelIds == 1 .. MaxDuels
InjectionIds == 1 .. MaxInjections
Accounts == People \cup {Contract}
Statuses == {"None", "Live", "Resolved"}

\* The recorder-set economic parameters.
Settings ==
  [treasury : People, itemPrice : [Items -> Nat], stakeRequirement : Nat,
   operatorCutBps : 0 .. 10000, failureThreshold : Nat \ {0},
   shieldMinScore : Int]

ASSUME NamesAssumption ==
  /\ IsFiniteSet(Agents) /\ IsFiniteSet(People)
  /\ Contract \notin People
  /\ None \notin People \cup Agents

ASSUME BoundsAssumption ==
  /\ MaxDuels \in Nat /\ MaxInjections \in Nat /\ MaxTime \in Nat
  /\ MaxScore \in Nat /\ MaxReports \in Nat /\ MaxFailures \in Nat

ASSUME InputsAssumption ==
  /\ ItemCount \in Nat
  /\ BettingPeriods \subseteq Nat /\ TradingPeriods \subseteq Nat
  /\ BetAmounts \subseteq Nat /\ FundAmounts \subseteq Nat
  /\ Returns \subseteq Int /\ MinScores \subseteq Int
  /\ Prices \subseteq Nat /\ Stakes \subseteq Nat
  /\ Cuts \subseteq Nat /\ Thresholds \subseteq Nat
  /\ Treasuries \subseteq People

ASSUME DeploymentAssumption ==
  /\ InitialUsdc \in [People -> Nat]
  /\ Defaults \in Settings

VARIABLES
  now,                  \* block.timestamp
  usdc,                 \* balances of the USDC token
  settings,             \* treasury, itemPrice, stakeRequirement, ...
  duelCount, status, agentOf, tradingStartsAt, endsAt, score,
  winner, shieldWinner, pool,                         \* struct Duel, by field
  betOf, claimed, winClaimedStake, paidOut,           \* parimutuel book
  developer, stake, failures, registered,             \* struct AgentInfo
  injectionsIngested, survivedInjections,             \* lifetime resilience
  injectionCount, injectionEscrows, injectionTarget, injectionsAgainst,
  prizePool

duelVars == <<duelCount, status, agentOf, tradingStartsAt, endsAt, score,
              winner, shieldWinner>>
bookVars == <<pool, betOf, claimed, winClaimedStake, paidOut>>
agentVars == <<developer, stake, failures, registered>>
resilienceVars == <<injectionsIngested, survivedInjections>>
chaosVars == <<injectionCount, injectionEscrows, injectionTarget,
               injectionsAgainst>>
vars == <<now, usdc, settings, duelVars, bookVars, agentVars, resilienceVars,
          chaosVars, prizePool>>

-----------------------------------------------------------------------------
(***************************************************************************)
(* The token, and what the functions compute.                              *)
(***************************************************************************)

\* n coins go from one account to another.
Moved(from, to, n) == [usdc EXCEPT ![from] = @ - n, ![to] = @ + n]

Exists(d) == status[d] # "None"

LiveAsExisting(d) == Exists(d)
Live(d) == status[d] = "Live"

BettingOpenTooLong(d) == now <= tradingStartsAt[d]
BettingOpen(d) == now < tradingStartsAt[d]

OverOnceRegistered(d) ==
  now >= endsAt[d] /\ registered[agentOf[d]["A"]] /\ registered[agentOf[d]["B"]]
Over(d) == now >= endsAt[d]

Duelists(d) == {agentOf[d]["A"], agentOf[d]["B"]}
SideOf(d, a) == IF a = agentOf[d]["A"] THEN "A" ELSE "B"

\* The side that takes the pot; a tie is agent A's.
WinSide(d) == IF winner[d] = agentOf[d]["A"] THEN "A" ELSE "B"
TotalPool(d) == pool[d]["A"] + pool[d]["B"]
WinningPool(d) == pool[d][WinSide(d)]

_resilienceRatio(a) ==
  IF injectionsIngested[a] = 0 THEN 0
  ELSE (survivedInjections[a] * 10000) \div injectionsIngested[a]

\* An agent competes for the shield once it faced an injection and kept its
\* score up.
Shielded(d, s) ==
  /\ injectionsIngested[agentOf[d][s]] > 0
  /\ score[d][s] >= settings.shieldMinScore

_ironShieldWinner(d) ==
  LET A == agentOf[d]["A"]
      B == agentOf[d]["B"]
  IN IF Shielded(d, "A") /\ Shielded(d, "B")
     THEN IF _resilienceRatio(A) >= _resilienceRatio(B) THEN A ELSE B
     ELSE IF Shielded(d, "A") THEN A
     ELSE IF Shielded(d, "B") THEN B
     ELSE None

\* _closeOutStake: a chronic failure forfeits its stake to the pool, any
\* other agent gets it back.
Forfeited(a) == IF failures[a] >= settings.failureThreshold THEN stake[a] ELSE 0

RefundedAtCurrentRate(a) ==
  IF Forfeited(a) = stake[a] THEN 0 ELSE settings.stakeRequirement
Refunded(a) == stake[a] - Forfeited(a)

\* Without an eligible shield winner its half rolls to the alpha developer.
ShieldHalfNotRolled(shieldDev, alphaDev) == shieldDev
ShieldPayee(shieldDev, alphaDev) ==
  IF shieldDev # None THEN shieldDev ELSE alphaDev

\* injectChaos: the treasury's cut, and the escrow that remains.
OperatorCut(price) == (price * settings.operatorCutBps) \div 10000

Escrow(price) == price - OperatorCut(price)

\* reportCall: an injection is settled by a report on its own target.
AnyTarget(i, a) == TRUE
IsTarget(i, a) == injectionTarget[i] = a

\* claim: what the caller is paid out of duel d.
Share(d, p) == (betOf[d][WinSide(d)][p] * TotalPool(d)) \div WinningPool(d)
Sweeps(d, p) ==
  winClaimedStake[d] + betOf[d][WinSide(d)][p] = WinningPool(d)

PayoutWithoutSweep(d, p) ==
  IF WinningPool(d) = 0 THEN betOf[d]["A"][p] + betOf[d]["B"][p] ELSE Share(d, p)
PayoutOfWinnings(d, p) ==
  LET mine == betOf[d][WinSide(d)][p]
  IN IF WinningPool(d) = 0 THEN betOf[d]["A"][p] + betOf[d]["B"][p]
     ELSE IF Sweeps(d, p) THEN TotalPool(d) - paidOut[d]
     ELSE (mine * (TotalPool(d) - WinningPool(d))) \div WinningPool(d)
Payout(d, p) ==
  IF WinningPool(d) = 0 THEN betOf[d]["A"][p] + betOf[d]["B"][p]
  ELSE IF Sweeps(d, p) THEN TotalPool(d) - paidOut[d]
  ELSE Share(d, p)

-----------------------------------------------------------------------------
(***************************************************************************)
(* The initial state: the constructor, and mappings that read as zero.     *)
(***************************************************************************)
Init ==
  /\ now = 0
  /\ usdc = [x \in Accounts |-> IF x = Contract THEN 0 ELSE InitialUsdc[x]]
  /\ settings = Defaults
  /\ duelCount = 0
  /\ status = [d \in DuelIds |-> "None"]
  /\ agentOf = [d \in DuelIds |-> [s \in Sides |-> None]]
  /\ tradingStartsAt = [d \in DuelIds |-> 0]
  /\ endsAt = [d \in DuelIds |-> 0]
  /\ score = [d \in DuelIds |-> [s \in Sides |-> 0]]
  /\ winner = [d \in DuelIds |-> None]
  /\ shieldWinner = [d \in DuelIds |-> None]
  /\ pool = [d \in DuelIds |-> [s \in Sides |-> 0]]
  /\ betOf = [d \in DuelIds |-> [s \in Sides |-> [p \in People |-> 0]]]
  /\ claimed = [d \in DuelIds |-> {}]
  /\ winClaimedStake = [d \in DuelIds |-> 0]
  /\ paidOut = [d \in DuelIds |-> 0]
  /\ developer = [a \in Agents |-> None]
  /\ stake = [a \in Agents |-> 0]
  /\ failures = [a \in Agents |-> 0]
  /\ registered = [a \in Agents |-> FALSE]
  /\ injectionsIngested = [a \in Agents |-> 0]
  /\ survivedInjections = [a \in Agents |-> 0]
  /\ injectionCount = 0
  /\ injectionEscrows = [i \in InjectionIds |-> 0]
  /\ injectionTarget = [i \in InjectionIds |-> None]
  /\ injectionsAgainst = [d \in DuelIds |-> [a \in Agents |-> 0]]
  /\ prizePool = [d \in DuelIds |-> 0]

-----------------------------------------------------------------------------
(***************************************************************************)
(* Developers.                                                             *)
(***************************************************************************)
registerAgent(p, a) ==
  LET bond == settings.stakeRequirement
  IN /\ ~registered[a]
     /\ usdc[p] >= bond
     /\ usdc' = Moved(p, Contract, bond)
     /\ developer' = [developer EXCEPT ![a] = p]
     /\ stake' = [stake EXCEPT ![a] = bond]
     /\ failures' = [failures EXCEPT ![a] = 0]
     /\ registered' = [registered EXCEPT ![a] = TRUE]
     /\ UNCHANGED <<now, settings, duelVars, bookVars, resilienceVars,
                    chaosVars, prizePool>>

(***************************************************************************)
(* The recorder's duel lifecycle and scoring.                              *)
(***************************************************************************)
createDuel(a, b, betting, trading) ==
  LET d == duelCount + 1
  IN /\ a # b
     /\ trading # 0
     /\ registered[a] /\ registered[b]
     /\ d <= MaxDuels                                \* bound
     /\ now + betting + trading <= MaxTime           \* bound
     /\ duelCount' = d
     /\ status' = [status EXCEPT ![d] = "Live"]
     /\ agentOf' = [agentOf EXCEPT ![d] = [s \in Sides |->
                                             IF s = "A" THEN a ELSE b]]
     /\ tradingStartsAt' = [tradingStartsAt EXCEPT ![d] = now + betting]
     /\ endsAt' = [endsAt EXCEPT ![d] = now + betting + trading]
     /\ UNCHANGED <<now, usdc, settings, score, winner, shieldWinner, bookVars,
                    agentVars, resilienceVars, chaosVars, prizePool>>

\* Injection id 0 is a clean cycle; an id whose escrow is gone settles nothing.
Settles(i) == i # 0 /\ injectionEscrows[i] > 0

\* The escrow of injection i leaves it: to the defender's developer when the
\* agent survived, into the prize pool of the reported duel when it was fooled.
SettleInjection(d, a, i, survived) ==
  LET escrow == injectionEscrows[i]
      dev == developer[a]
  IN /\ IsTarget(i, a)
     /\ injectionEscrows' = [injectionEscrows EXCEPT ![i] = 0]
     /\ \/ /\ survived /\ dev # None
           /\ usdc[Contract] >= escrow
           /\ usdc' = Moved(Contract, dev, escrow)
           /\ UNCHANGED prizePool
        \/ /\ ~(survived /\ dev # None)
           /\ prizePool' = [prizePool EXCEPT ![d] = @ + escrow]
           /\ UNCHANGED usdc

reportCall(d, a, i, rBps, ingested, survived, failed) ==
  LET s == SideOf(d, a)
      one(b) == IF b THEN 1 ELSE 0
  IN /\ Live(d)
     /\ a \in Duelists(d)
     /\ score[d][s] + rBps \in (-MaxScore) .. MaxScore              \* bound
     /\ injectionsIngested[a] + one(ingested) <= MaxReports         \* bound
     /\ failures[a] + one(failed) <= MaxFailures                    \* bound
     /\ score' = [score EXCEPT ![d][s] = @ + rBps]
     /\ injectionsIngested' = [injectionsIngested EXCEPT ![a] = @ + one(ingested)]
     /\ survivedInjections' =
          [survivedInjections EXCEPT ![a] = @ + one(ingested /\ survived)]
     /\ failures' = [failures EXCEPT ![a] = @ + one(failed)]
     /\ IF Settles(i) THEN SettleInjection(d, a, i, survived)
        ELSE UNCHANGED <<usdc, injectionEscrows, prizePool>>
     /\ UNCHANGED <<now, settings, duelCount, status, agentOf, tradingStartsAt,
                    endsAt, winner, shieldWinner, bookVars, developer, stake,
                    registered, injectionCount, injectionTarget,
                    injectionsAgainst>>

\* Both agents leave the arena; the developer stays on file.
CloseOutByDelete(A, B) ==
  /\ stake' = [stake EXCEPT ![A] = 0, ![B] = 0]
  /\ failures' = [failures EXCEPT ![A] = 0, ![B] = 0]
  /\ registered' = [registered EXCEPT ![A] = FALSE, ![B] = FALSE]
  /\ developer' = [developer EXCEPT ![A] = None, ![B] = None]
CloseOut(A, B) ==
  /\ stake' = [stake EXCEPT ![A] = 0, ![B] = 0]
  /\ failures' = [failures EXCEPT ![A] = 0, ![B] = 0]
  /\ registered' = [registered EXCEPT ![A] = FALSE, ![B] = FALSE]
  /\ UNCHANGED developer

\* The prize: half of it for the leader's developer, half for the shield's.
Prize(d) ==
  prizePool[d] + Forfeited(agentOf[d]["A"]) + Forfeited(agentOf[d]["B"])
AlphaHalf(d) == Prize(d) \div 2
ShieldHalf(d) == Prize(d) - Prize(d) \div 2

Leader(d) ==
  IF score[d]["A"] >= score[d]["B"] THEN agentOf[d]["A"] ELSE agentOf[d]["B"]
AlphaDev(d) == developer[Leader(d)]
ShieldTaker(d) ==
  LET shield == _ironShieldWinner(d)
  IN ShieldPayee(IF shield = None THEN None ELSE developer[shield], AlphaDev(d))

\* All that leaves the contract when duel d is resolved.
HandedOut(d) ==
  LET paid(payee, n) == IF payee = None THEN 0 ELSE n
  IN Refunded(agentOf[d]["A"]) + Refunded(agentOf[d]["B"])
     + paid(AlphaDev(d), AlphaHalf(d)) + paid(ShieldTaker(d), ShieldHalf(d))

\* What resolve asks of the state, its transfers included.
MayBeResolved(d) ==
  /\ Live(d)
  /\ Over(d)
  /\ \A a \in Duelists(d) :                 \* the token refuses address(0)
       Refunded(a) = 0 \/ developer[a] # None
  /\ usdc[Contract] >= HandedOut(d)

\* Both stakes are closed out, the pool and the forfeits are split between the
\* alpha and the shield developer, and both agents leave the arena.
resolve(d) ==
  LET A == agentOf[d]["A"]
      B == agentOf[d]["B"]
      due(x, payee, n) == IF x = payee THEN n ELSE 0
      received(x) == due(x, developer[A], Refunded(A))
                     + due(x, developer[B], Refunded(B))
                     + due(x, AlphaDev(d), AlphaHalf(d))
                     + due(x, ShieldTaker(d), ShieldHalf(d))
  IN /\ MayBeResolved(d)
     /\ status' = [status EXCEPT ![d] = "Resolved"]
     /\ winner' = [winner EXCEPT ![d] = Leader(d)]
     /\ shieldWinner' = [shieldWinner EXCEPT ![d] = _ironShieldWinner(d)]
     /\ prizePool' = [prizePool EXCEPT ![d] = 0]
     /\ CloseOut(A, B)
     /\ usdc' = [x \in Accounts |-> IF x = Contract THEN usdc[x] - HandedOut(d)
                                    ELSE usdc[x] + received(x)]
     /\ UNCHANGED <<now, settings, duelCount, agentOf, tradingStartsAt, endsAt,
                    score, bookVars, resilienceVars, chaosVars>>

(***************************************************************************)
(* Spectators.                                                             *)
(***************************************************************************)
bet(p, d, s, amount) ==
  /\ Live(d)
  /\ BettingOpen(d)
  /\ amount # 0
  /\ usdc[p] >= amount
  /\ usdc' = Moved(p, Contract, amount)
  /\ betOf' = [betOf EXCEPT ![d][s][p] = @ + amount]
  /\ pool' = [pool EXCEPT ![d][s] = @ + amount]
  /\ UNCHANGED <<now, settings, duelVars, claimed, winClaimedStake, paidOut,
                 agentVars, resilienceVars, chaosVars, prizePool>>

\* The treasury's cut leaves at once; the rest is escrowed under a new id.
injectChaos(p, d, a, item) ==
  LET price == settings.itemPrice[item]
      operatorCut == OperatorCut(price)
      i == injectionCount + 1
      charged == Moved(p, Contract, price)
  IN /\ Live(d)
     /\ now >= tradingStartsAt[d]
     /\ a \in Duelists(d)
     /\ price # 0
     /\ usdc[p] >= price
     /\ i <= MaxInjections                           \* bound
     /\ injectionCount' = i
     /\ injectionEscrows' = [injectionEscrows EXCEPT ![i] = Escrow(price)]
     /\ injectionTarget' = [injectionTarget EXCEPT ![i] = a]
     /\ injectionsAgainst' = [injectionsAgainst EXCEPT ![d][a] = @ + 1]
     /\ usdc' = [charged EXCEPT ![Contract] = @ - operatorCut,
                                ![settings.treasury] = @ + operatorCut]
     /\ UNCHANGED <<now, settings, duelVars, bookVars, agentVars,
                    resilienceVars, prizePool>>

fundPrizePool(p, d, amount) ==
  /\ Exists(d)
  /\ amount # 0
  /\ usdc[p] >= amount
  /\ usdc' = Moved(p, Contract, amount)
  /\ prizePool' = [prizePool EXCEPT ![d] = @ + amount]
  /\ UNCHANGED <<now, settings, duelVars, bookVars, agentVars, resilienceVars,
                 chaosVars>>

\* One claim per bettor and duel.
MarkClaimed(p, d) == claimed' = [claimed EXCEPT ![d] = @ \cup {p}]

claim(p, d) ==
  LET mine == betOf[d][WinSide(d)][p]
      payout == Payout(d, p)
  IN /\ status[d] = "Resolved"
     /\ p \notin claimed[d]
     /\ payout > 0         \* zero reverts, and so does an underflow
     /\ usdc[Contract] >= payout
     /\ \/ /\ WinningPool(d) = 0
           /\ UNCHANGED <<winClaimedStake, paidOut>>
        \/ /\ WinningPool(d) # 0
           /\ mine # 0
           /\ winClaimedStake' = [winClaimedStake EXCEPT ![d] = @ + mine]
           /\ paidOut' = [paidOut EXCEPT ![d] = @ + payout]
     /\ MarkClaimed(p, d)
     /\ usdc' = Moved(Contract, p, payout)
     /\ UNCHANGED <<now, settings, duelVars, pool, betOf, agentVars,
                    resilienceVars, chaosVars, prizePool>>

(***************************************************************************)
(* The recorder's settings.                                                *)
(***************************************************************************)
Set(new) ==
  /\ settings' = new
  /\ UNCHANGED <<now, usdc, duelVars, bookVars, agentVars, resilienceVars,
                 chaosVars, prizePool>>

setItemPrice(item, v) == Set([settings EXCEPT !.itemPrice[item] = v])
setTreasury(p) == Set([settings EXCEPT !.treasury = p])
setStakeRequirement(v) == Set([settings EXCEPT !.stakeRequirement = v])
setOperatorCutBps(v) ==
  v <= 10000 /\ Set([settings EXCEPT !.operatorCutBps = v])
setAnyFailureThreshold(v) == Set([settings EXCEPT !.failureThreshold = v])
setFailureThreshold(v) ==
  v # 0 /\ Set([settings EXCEPT !.failureThreshold = v])
setShieldMinScore(v) == Set([settings EXCEPT !.shieldMinScore = v])

\* Time passes between blocks.
Tick ==
  /\ now < MaxTime                                   \* bound
  /\ now' = now + 1
  /\ UNCHANGED <<usdc, settings, duelVars, bookVars, agentVars,
                 resilienceVars, chaosVars, prizePool>>

-----------------------------------------------------------------------------
Develop == \E p \in People, a \in Agents : registerAgent(p, a)

Announce ==
  \E a, b \in Agents, betting \in BettingPeriods, trading \in TradingPeriods :
    createDuel(a, b, betting, trading)

Report ==
  \E d \in DuelIds, a \in Agents, i \in 0 .. MaxInjections, r \in Returns,
     ingested, survived, failed \in BOOLEAN :
    reportCall(d, a, i, r, ingested, survived, failed)

Resolve == \E d \in DuelIds : resolve(d)

Wager ==
  \E p \in People, d \in DuelIds, s \in Sides, n \in BetAmounts : bet(p, d, s, n)

Inject ==
  \E p \in People, d \in DuelIds, a \in Agents, item \in Items :
    injectChaos(p, d, a, item)

Sponsor ==
  \E p \in People, d \in DuelIds, n \in FundAmounts : fundPrizePool(p, d, n)

Collect == \E p \in People, d \in DuelIds : claim(p, d)

Tune ==
  \/ \E item \in Items, v \in Prices : setItemPrice(item, v)
  \/ \E p \in Treasuries : setTreasury(p)
  \/ \E v \in Stakes : setStakeRequirement(v)
  \/ \E v \in Cuts : setOperatorCutBps(v)
  \/ \E v \in Thresholds : setFailureThreshold(v)
  \/ \E v \in MinScores : setShieldMinScore(v)

Next ==
  \/ Develop \/ Announce \/ Report \/ Resolve \/ Wager \/ Inject
  \/ Sponsor \/ Collect \/ Tune \/ Tick

Spec == Init /\ [][Next]_vars

\* Blocks keep coming, and resolve is permissionless: someone who wants the
\* duel over keeps calling it.
FairSpec == Spec /\ WF_vars(Tick) /\ \A d \in DuelIds : WF_vars(resolve(d))

=============================================================================
