------------------------- MODULE ColosseumTheorems --------------------------
(***************************************************************************)
(* Theorems about Colosseum for any agents, people, bounds and inputs: the *)
(* duels first, then the money (every book is consistent, the contract     *)
(* holds exactly what it owes, no winner is paid less than the stake, the  *)
(* betting implements Parimutuel, escrows arrive whole).                   *)
(***************************************************************************)
EXTENDS ColosseumProps, BasicLemmas

-----------------------------------------------------------------------------
(***************************************************************************)
(* Updating a mapping of mappings.                                         *)
(***************************************************************************)
LEMMA Update2 ==
  ASSUME NEW S, NEW T, NEW V, NEW f \in [S -> [T -> V]],
         NEW x \in S, NEW y \in T, NEW v \in V
  PROVE  /\ [f EXCEPT ![x][y] = v] \in [S -> [T -> V]]
         /\ [f EXCEPT ![x][y] = v][x] = [f[x] EXCEPT ![y] = v]
         /\ \A z \in S \ {x} : [f EXCEPT ![x][y] = v][z] = f[z]
OBVIOUS

LEMMA Update3 ==
  ASSUME NEW S, NEW T, NEW U, NEW V, NEW f \in [S -> [T -> [U -> V]]],
         NEW x \in S, NEW y \in T, NEW z \in U, NEW v \in V
  PROVE  /\ [f EXCEPT ![x][y][z] = v] \in [S -> [T -> [U -> V]]]
         /\ [f EXCEPT ![x][y][z] = v][x] = [f[x] EXCEPT ![y][z] = v]
         /\ \A w \in S \ {x} : [f EXCEPT ![x][y][z] = v][w] = f[w]
OBVIOUS

-----------------------------------------------------------------------------
(***************************************************************************)
(* Type correctness, one lemma per action.                                 *)
(***************************************************************************)

\* Moving money that is there keeps balances natural.
LEMMA MovedType ==
  ASSUME TypeOK, NEW from \in Accounts, NEW to \in Accounts, from # to,
         NEW n \in Nat, usdc[from] >= n
  PROVE  /\ Moved(from, to, n) \in [Accounts -> Nat]
         /\ Moved(from, to, n)[from] = usdc[from] - n
         /\ Moved(from, to, n)[to] = usdc[to] + n
<1>1. usdc \in [Accounts -> Nat]
  BY DEF TypeOK
<1>2. usdc[from] - n \in Nat /\ usdc[to] + n \in Nat
  BY <1>1
<1>3. [usdc EXCEPT ![from] = usdc[from] - n, ![to] = usdc[to] + n]
        \in [Accounts -> Nat]
  BY <1>1, <1>2
<1> QED BY <1>1, <1>3 DEF Moved

\* The settings are natural where amounts are.
\* The ranges of the settings, by name.
PriceLists == [Items -> Nat]
Shares == 0 .. 10000
Counts == Nat \ {0}

LEMMA SettingsAre ==
  Settings = [treasury : People, itemPrice : PriceLists, stakeRequirement : Nat,
              operatorCutBps : Shares, failureThreshold : Counts,
              shieldMinScore : Int]
BY DEF Settings, PriceLists, Shares, Counts

LEMMA SharesAre == ASSUME NEW n \in Shares PROVE n \in Nat /\ n <= 10000
BY DEF Shares

LEMMA IsShare == ASSUME NEW n \in Nat, n <= 10000 PROVE n \in Shares
BY SMTT(60) DEF Shares

LEMMA SettingsType ==
  ASSUME settings \in Settings
  PROVE  /\ settings.stakeRequirement \in Nat /\ settings.treasury \in People
         /\ settings.failureThreshold \in Nat
         /\ settings.itemPrice \in [Items -> Nat]
         /\ settings.operatorCutBps \in Shares
<1>1. /\ settings.stakeRequirement \in Nat /\ settings.treasury \in People
      /\ settings.operatorCutBps \in Shares
  BY SettingsAre
<1>2. settings.failureThreshold \in Counts
  BY SettingsAre
<1>3. settings.itemPrice \in PriceLists
  BY SettingsAre
<1>4. settings.failureThreshold \in Nat
  BY <1>2 DEF Counts
<1>5. settings.itemPrice \in [Items -> Nat]
  BY <1>3 DEF PriceLists
<1> QED BY <1>1, <1>4, <1>5

LEMMA TypeInit == Init => TypeOK
<1> SUFFICES ASSUME Init PROVE TypeOK
  OBVIOUS
<1>1. usdc \in [Accounts -> Nat]
  BY DeploymentAssumption DEF Init, Accounts
<1>2. now \in 0 .. MaxTime /\ duelCount \in 0 .. MaxDuels
      /\ injectionCount \in 0 .. MaxInjections
  BY BoundsAssumption DEF Init
<1> QED BY <1>1, <1>2, DeploymentAssumption DEF Init, TypeOK, Statuses

LEMMA TypeRegister ==
  ASSUME TypeOK, NEW p \in People, NEW a \in Agents, registerAgent(p, a)
  PROVE  TypeOK'
<1> DEFINE bond == settings.stakeRequirement
<1>0. settings \in Settings
  BY DEF TypeOK
<1>1. bond \in Nat /\ usdc[p] >= bond /\ p # Contract
  BY <1>0, SettingsType, NamesAssumption DEF registerAgent
<1>2. usdc' \in [Accounts -> Nat]
  BY <1>1, MovedType DEF registerAgent, Accounts
<1> QED
  BY <1>1, <1>2 DEF TypeOK, registerAgent, duelVars, bookVars, resilienceVars,
     chaosVars

LEMMA TypeCreate ==
  ASSUME TypeOK, NEW a \in Agents, NEW b \in Agents,
         NEW betting \in BettingPeriods, NEW trading \in TradingPeriods,
         createDuel(a, b, betting, trading)
  PROVE  TypeOK'
<1>1. duelCount + 1 \in DuelIds /\ duelCount' = duelCount + 1
  BY BoundsAssumption DEF TypeOK, createDuel, DuelIds
<1>2. now + betting \in Nat /\ now + betting + trading \in Nat
  BY InputsAssumption DEF TypeOK
<1>3. status' \in [DuelIds -> Statuses]
  BY <1>1 DEF TypeOK, createDuel, Statuses
<1>4. agentOf' \in [DuelIds -> [Sides -> Agents \cup {None}]]
  BY <1>1 DEF TypeOK, createDuel
<1>5. tradingStartsAt' \in [DuelIds -> Nat] /\ endsAt' \in [DuelIds -> Nat]
  BY <1>1, <1>2 DEF TypeOK, createDuel
<1>6. duelCount' \in 0 .. MaxDuels
  BY <1>1 DEF DuelIds
<1> QED
  BY <1>3, <1>4, <1>5, <1>6 DEF TypeOK, createDuel, bookVars, resilienceVars,
     chaosVars, agentVars

LEMMA TypeReport ==
  ASSUME TypeOK, NEW d \in DuelIds, NEW a \in Agents, NEW i \in 0 .. MaxInjections,
         NEW r \in Returns, NEW ingested \in BOOLEAN, NEW survived \in BOOLEAN,
         NEW failed \in BOOLEAN,
         reportCall(d, a, i, r, ingested, survived, failed)
  PROVE  TypeOK'
<1> DEFINE one(b) == IF b THEN 1 ELSE 0
<1>1. one(ingested) \in Nat /\ one(ingested /\ survived) \in Nat
      /\ one(failed) \in Nat /\ r \in Int
  BY InputsAssumption
<1>2. score' \in [DuelIds -> [Sides -> Int]]
  <2>1. score' = [score EXCEPT ![d][SideOf(d, a)] = @ + r]
    BY DEF reportCall
  <2>2. SideOf(d, a) \in Sides
    BY DEF SideOf, Sides
  <2>3. score \in [DuelIds -> [Sides -> Int]]
    BY DEF TypeOK
  <2>4. score[d][SideOf(d, a)] + r \in Int
    BY <1>1, <2>2, <2>3
  <2> QED BY <2>1, <2>2, <2>3, <2>4, Update2
<1>3. injectionsIngested' \in [Agents -> Nat]
  <2>1. injectionsIngested'
          = [injectionsIngested EXCEPT ![a] = @ + one(ingested)]
    BY DEF reportCall
  <2> HIDE DEF one
  <2> QED BY <1>1, <2>1 DEF TypeOK
<1>4. survivedInjections' \in [Agents -> Nat]
  <2>1. survivedInjections'
          = [survivedInjections EXCEPT ![a] = @ + one(ingested /\ survived)]
    BY DEF reportCall
  <2> HIDE DEF one
  <2> QED BY <1>1, <2>1 DEF TypeOK
<1>5. failures' \in [Agents -> Nat]
  <2>1. failures' = [failures EXCEPT ![a] = @ + one(failed)]
    BY DEF reportCall
  <2> HIDE DEF one
  <2> QED BY <1>1, <2>1 DEF TypeOK
<1>6. /\ usdc' \in [Accounts -> Nat]
      /\ injectionEscrows' \in [InjectionIds -> Nat]
      /\ prizePool' \in [DuelIds -> Nat]
  <2>1. CASE Settles(i)
    <3> DEFINE escrow == injectionEscrows[i]
               dev == developer[a]
    <3>1. i \in InjectionIds /\ escrow \in Nat
      BY <2>1, BoundsAssumption DEF Settles, TypeOK, InjectionIds
    <3>2. SettleInjection(d, a, i, survived)
      BY <2>1 DEF reportCall
    <3>3. injectionEscrows' \in [InjectionIds -> Nat]
      BY <3>1, <3>2 DEF SettleInjection, TypeOK
    <3>4. CASE survived /\ dev # None
      <4>1. dev \in People /\ dev # Contract
        BY <3>4, NamesAssumption DEF TypeOK
      <4>2. usdc' = Moved(Contract, dev, escrow) /\ usdc[Contract] >= escrow
            /\ prizePool' = prizePool
        BY <3>2, <3>4 DEF SettleInjection
      <4>3. usdc' \in [Accounts -> Nat]
        BY <3>1, <4>1, <4>2, MovedType DEF Accounts
      <4> QED BY <3>3, <4>2, <4>3 DEF TypeOK
    <3>5. CASE ~(survived /\ dev # None)
      <4>1. prizePool' = [prizePool EXCEPT ![d] = @ + escrow] /\ usdc' = usdc
        BY <3>2, <3>5 DEF SettleInjection
      <4> HIDE DEF escrow
      <4> QED BY <3>1, <3>3, <4>1 DEF TypeOK
    <3> QED BY <3>4, <3>5
  <2>2. CASE ~Settles(i)
    BY <2>2 DEF reportCall, TypeOK
  <2> QED BY <2>1, <2>2
<1> QED
  BY <1>2, <1>3, <1>4, <1>5, <1>6 DEF TypeOK, reportCall, bookVars

LEMMA TypeBet ==
  ASSUME TypeOK, NEW p \in People, NEW d \in DuelIds, NEW s \in Sides,
         NEW n \in BetAmounts, bet(p, d, s, n)
  PROVE  TypeOK'
<1>1. n \in Nat /\ usdc[p] >= n /\ p # Contract
  BY InputsAssumption, NamesAssumption DEF bet
<1>2. usdc' \in [Accounts -> Nat]
  BY <1>1, MovedType DEF bet, Accounts
<1>3. pool' \in [DuelIds -> [Sides -> Nat]]
  <2>1. pool \in [DuelIds -> [Sides -> Nat]]
    BY DEF TypeOK
  <2>2. pool[d][s] + n \in Nat
    BY <1>1, <2>1
  <2>3. pool' = [pool EXCEPT ![d][s] = pool[d][s] + n]
    BY DEF bet
  <2> QED BY <2>1, <2>2, <2>3, Update2
<1>4. betOf' \in [DuelIds -> [Sides -> [People -> Nat]]]
  <2>1. betOf \in [DuelIds -> [Sides -> [People -> Nat]]]
    BY DEF TypeOK
  <2>2. betOf[d][s][p] + n \in Nat
    BY <1>1, <2>1
  <2>3. betOf' = [betOf EXCEPT ![d][s][p] = betOf[d][s][p] + n]
    BY DEF bet
  <2> QED BY <2>1, <2>2, <2>3, Update3
<1> QED
  BY <1>2, <1>3, <1>4 DEF TypeOK, bet, duelVars, agentVars, resilienceVars,
     chaosVars

LEMMA TypeFund ==
  ASSUME TypeOK, NEW p \in People, NEW d \in DuelIds, NEW n \in FundAmounts,
         fundPrizePool(p, d, n)
  PROVE  TypeOK'
<1>1. n \in Nat /\ usdc[p] >= n /\ p # Contract
  BY InputsAssumption, NamesAssumption DEF fundPrizePool
<1>2. usdc' \in [Accounts -> Nat]
  BY <1>1, MovedType DEF fundPrizePool, Accounts
<1> QED
  BY <1>1, <1>2 DEF TypeOK, fundPrizePool, duelVars, bookVars, agentVars,
     resilienceVars, chaosVars

\* Settling a claim: a payout that is there leaves the balance natural.
LEMMA PayoutType ==
  ASSUME TypeOK, NEW d \in DuelIds, NEW p \in People
  PROVE  Payout(d, p) \in Int
<1>1. WinSide(d) \in Sides /\ "A" \in Sides /\ "B" \in Sides
  BY DEF WinSide, Sides
<1>2. pool \in [DuelIds -> [Sides -> Nat]] /\ paidOut \in [DuelIds -> Nat]
      /\ betOf \in [DuelIds -> [Sides -> [People -> Nat]]]
  BY DEF TypeOK
<1>3. WinningPool(d) \in Nat /\ TotalPool(d) \in Nat
  BY <1>1, <1>2 DEF WinningPool, TotalPool
<1>4. betOf[d]["A"][p] \in Nat /\ betOf[d]["B"][p] \in Nat
      /\ betOf[d][WinSide(d)][p] \in Nat
  BY <1>1, <1>2
<1>5. betOf[d][WinSide(d)][p] * TotalPool(d) \in Nat
  BY <1>3, <1>4
<1>6. WinningPool(d) # 0 => Share(d, p) \in Nat
  BY <1>3, <1>5 DEF Share
<1> QED BY <1>2, <1>3, <1>4, <1>6 DEF Payout

LEMMA TypeClaim ==
  ASSUME TypeOK, NEW p \in People, NEW d \in DuelIds, claim(p, d)
  PROVE  TypeOK'
<1> DEFINE n == Payout(d, p)
           mine == betOf[d][WinSide(d)][p]
<1>1. n \in Nat /\ usdc[Contract] >= n /\ p # Contract
  BY PayoutType, NamesAssumption DEF claim
<1>2. usdc' \in [Accounts -> Nat]
  <2> HIDE DEF n
  <2>1. usdc' = Moved(Contract, p, n)
    BY DEF claim, n
  <2> QED BY <1>1, <2>1, MovedType DEF Accounts
<1>3. mine \in Nat
  BY DEF TypeOK, WinSide, Sides
<1>4. claimed' \in [DuelIds -> SUBSET People]
  BY DEF claim, MarkClaimed, TypeOK
<1>5. winClaimedStake' \in [DuelIds -> Nat] /\ paidOut' \in [DuelIds -> Nat]
  <2> HIDE DEF n, mine
  <2>1. \/ UNCHANGED <<winClaimedStake, paidOut>>
        \/ /\ winClaimedStake' = [winClaimedStake EXCEPT ![d] = @ + mine]
           /\ paidOut' = [paidOut EXCEPT ![d] = @ + n]
    BY DEF claim, n, mine
  <2>2. winClaimedStake \in [DuelIds -> Nat] /\ paidOut \in [DuelIds -> Nat]
    BY DEF TypeOK
  <2>3. winClaimedStake[d] + mine \in Nat /\ paidOut[d] + n \in Nat
    BY <1>1, <1>3, <2>2
  <2> QED BY <2>1, <2>2, <2>3
<1> QED
  BY <1>2, <1>4, <1>5 DEF TypeOK, claim, duelVars, agentVars, resilienceVars,
     chaosVars

\* The cut never exceeds the price.
LEMMA CutOfPrice ==
  ASSUME settings \in Settings, NEW price \in Nat
  PROVE  /\ OperatorCut(price) \in 0 .. price
         /\ Escrow(price) \in 0 .. price
         /\ Escrow(price) = price - OperatorCut(price)
<1> DEFINE bps == settings.operatorCutBps
<1>1. bps \in Nat /\ bps <= 10000
  BY SettingsType, SharesAre
<1> HIDE DEF bps
<1>2. price * bps <= price * 10000 /\ price * bps \in Nat
  BY <1>1
<1>3. (price * bps) \div 10000 \in 0 .. price
  <2> DEFINE x == price * bps
  <2>1. x \in Nat /\ x <= price * 10000
    BY <1>2
  <2> HIDE DEF x
  <2>2. x \div 10000 \in 0 .. price
    BY <2>1
  <2> QED BY <2>2 DEF x
<1> QED BY <1>3 DEF OperatorCut, Escrow, bps

LEMMA TypeInject ==
  ASSUME TypeOK, NEW p \in People, NEW d \in DuelIds, NEW a \in Agents,
         NEW item \in Items, injectChaos(p, d, a, item)
  PROVE  TypeOK'
<1> DEFINE price == settings.itemPrice[item]
           cut == OperatorCut(price)
           i == injectionCount + 1
           charged == Moved(p, Contract, price)
           treasury == settings.treasury
<1>0. settings \in Settings
  BY DEF TypeOK
<1>1. settings \in Settings /\ price \in Nat /\ treasury \in People
  BY <1>0, SettingsType
<1>2. cut \in 0 .. price /\ Escrow(price) \in Nat
  BY <1>1, CutOfPrice
<1>3. i \in InjectionIds /\ injectionCount' = i
  <2>1. injectionCount \in 0 .. MaxInjections
    BY DEF TypeOK
  <2>2. i <= MaxInjections /\ injectionCount' = i
    BY DEF injectChaos
  <2> QED BY <2>1, <2>2, BoundsAssumption DEF InjectionIds
<1>4. usdc' \in [Accounts -> Nat]
  <2>1. usdc[p] >= price /\ p \in Accounts /\ Contract \in Accounts
        /\ p # Contract /\ treasury \in Accounts /\ treasury # Contract
    BY <1>1, NamesAssumption DEF injectChaos, Accounts
  <2>2. charged \in [Accounts -> Nat] /\ charged[Contract] = usdc[Contract] + price
    BY <1>1, <2>1, MovedType
  <2>3. usdc' = [charged EXCEPT ![Contract] = @ - cut, ![treasury] = @ + cut]
    BY DEF injectChaos
  <2>4. usdc[Contract] \in Nat
    BY <2>1 DEF TypeOK
  <2> HIDE DEF charged, cut, treasury, price
  <2>5. charged[Contract] - cut \in Nat /\ charged[treasury] + cut \in Nat
    BY <1>1, <1>2, <2>1, <2>2, <2>4
  <2> QED BY <2>1, <2>2, <2>3, <2>5
<1>5. injectionEscrows' \in [InjectionIds -> Nat]
  BY <1>2, <1>3 DEF injectChaos, TypeOK
<1>6. injectionTarget' \in [InjectionIds -> Agents \cup {None}]
  BY <1>3 DEF injectChaos, TypeOK
<1>7. injectionsAgainst' \in [DuelIds -> [Agents -> Nat]]
  <2>1. injectionsAgainst \in [DuelIds -> [Agents -> Nat]]
    BY DEF TypeOK
  <2>2. injectionsAgainst[d][a] + 1 \in Nat
    BY <2>1
  <2>3. injectionsAgainst'
          = [injectionsAgainst EXCEPT ![d][a] = injectionsAgainst[d][a] + 1]
    BY DEF injectChaos
  <2> QED BY <2>1, <2>2, <2>3, Update2
<1>8. injectionCount' \in 0 .. MaxInjections
  BY <1>3 DEF InjectionIds
<1> QED
  BY <1>4, <1>5, <1>6, <1>7, <1>8 DEF TypeOK, injectChaos, duelVars, bookVars,
     agentVars, resilienceVars

LEMMA TypeTick == ASSUME TypeOK, Tick PROVE TypeOK'
BY BoundsAssumption DEF TypeOK, Tick, duelVars, bookVars, agentVars,
   resilienceVars, chaosVars

LEMMA TypeSet ==
  ASSUME TypeOK, NEW new \in Settings, Set(new) PROVE TypeOK'
BY DEF Set, TypeOK, duelVars, bookVars, agentVars, resilienceVars, chaosVars

LEMMA TypeTune == ASSUME TypeOK, Tune PROVE TypeOK'
<1>1. settings \in Settings
  BY DEF TypeOK
<1>2. ASSUME NEW item \in Items, NEW v \in Prices, setItemPrice(item, v)
      PROVE  TypeOK'
  <2>1. v \in Nat /\ settings.itemPrice \in [Items -> Nat]
    BY <1>1, InputsAssumption, SettingsType
  <2>2. [settings.itemPrice EXCEPT ![item] = v] \in PriceLists
    BY <2>1 DEF PriceLists
  <2>3. [settings EXCEPT !.itemPrice = [settings.itemPrice EXCEPT ![item] = v]]
          \in Settings
    BY <1>1, <2>2, SettingsAre
  <2>4. [settings EXCEPT !.itemPrice[item] = v]
          = [settings EXCEPT !.itemPrice = [settings.itemPrice EXCEPT ![item] = v]]
    BY <1>1, SettingsAre
  <2> QED BY <1>2, <2>3, <2>4, TypeSet DEF setItemPrice
<1>3. ASSUME NEW p \in Treasuries, setTreasury(p) PROVE TypeOK'
  <2>1. p \in People
    BY InputsAssumption
  <2>2. [settings EXCEPT !.treasury = p] \in Settings
    BY <1>1, <2>1, SettingsAre
  <2> QED BY <1>3, <2>2, TypeSet DEF setTreasury
<1>4. ASSUME NEW v \in Stakes, setStakeRequirement(v) PROVE TypeOK'
  <2>1. v \in Nat
    BY InputsAssumption
  <2>2. [settings EXCEPT !.stakeRequirement = v] \in Settings
    BY <1>1, <2>1, SettingsAre
  <2> QED BY <1>4, <2>2, TypeSet DEF setStakeRequirement
<1>5. ASSUME NEW v \in Cuts, setOperatorCutBps(v) PROVE TypeOK'
  <2>1. v \in Nat /\ v <= 10000
    BY <1>5, InputsAssumption DEF setOperatorCutBps
  <2>2. v \in Shares
    BY <2>1, IsShare
  <2>3. [settings EXCEPT !.operatorCutBps = v] \in Settings
    BY <1>1, <2>2, SettingsAre
  <2> QED BY <1>5, <2>3, TypeSet DEF setOperatorCutBps
<1>6. ASSUME NEW v \in Thresholds, setFailureThreshold(v) PROVE TypeOK'
  <2>1. v \in Counts
    BY <1>6, InputsAssumption DEF setFailureThreshold, Counts
  <2>2. [settings EXCEPT !.failureThreshold = v] \in Settings
    BY <1>1, <2>1, SettingsAre
  <2> QED BY <1>6, <2>2, TypeSet DEF setFailureThreshold
<1>7. ASSUME NEW v \in MinScores, setShieldMinScore(v) PROVE TypeOK'
  <2>1. v \in Int
    BY InputsAssumption
  <2>2. [settings EXCEPT !.shieldMinScore = v] \in Settings
    BY <1>1, <2>1, SettingsAre
  <2> QED BY <1>7, <2>2, TypeSet DEF setShieldMinScore
<1> QED BY <1>2, <1>3, <1>4, <1>5, <1>6, <1>7 DEF Tune

\* What _closeOutStake returns to the developer and to the pool is the stake.
LEMMA StakeSplits ==
  ASSUME TypeOK, NEW a \in Agents
  PROVE  /\ Forfeited(a) \in Nat /\ Refunded(a) \in Nat
         /\ Forfeited(a) + Refunded(a) = stake[a]
<1>1. stake[a] \in Nat
  BY DEF TypeOK
<1>2. Forfeited(a) = stake[a] \/ Forfeited(a) = 0
  BY DEF Forfeited
<1> QED BY <1>1, <1>2 DEF Refunded

LEMMA HalfPrize ==
  ASSUME NEW n \in Nat
  PROVE  n \div 2 \in Nat /\ n - n \div 2 \in Nat
OBVIOUS

\* All that leaves the contract with a duel: the two stakes and the prize pool,
\* for the two developers.
LEMMA HandsOutItsMoney ==
  ASSUME TypeOK, Roster, NEW d \in DuelIds, Live(d)
  PROVE  LET A == agentOf[d]["A"]
             B == agentOf[d]["B"]
         IN /\ A \in Agents /\ B \in Agents /\ A # B
            /\ developer[A] \in People /\ developer[B] \in People
            /\ developer[A] # None /\ developer[B] # None
            /\ AlphaDev(d) \in {developer[A], developer[B]}
            /\ ShieldTaker(d) \in {developer[A], developer[B]}
            /\ AlphaHalf(d) \in Nat /\ ShieldHalf(d) \in Nat
            /\ HandedOut(d) = stake[A] + stake[B] + prizePool[d]
            /\ HandedOut(d) \in Nat
<1> DEFINE A == agentOf[d]["A"]
           B == agentOf[d]["B"]
<1>1. /\ A \in Agents /\ B \in Agents /\ A # B
      /\ developer[A] # None /\ developer[B] # None
      /\ developer[A] \in People /\ developer[B] \in People
  BY DEF Roster, LiveDuelsHaveDevelopers, Sides, TypeOK
<1>2. AlphaDev(d) \in {developer[A], developer[B]}
  BY DEF AlphaDev, Leader
<1>3. ShieldTaker(d) \in {developer[A], developer[B]}
  BY <1>2, NamesAssumption DEF NamesAssumption, ShieldTaker, ShieldPayee, _ironShieldWinner
<1>4. /\ Refunded(A) \in Nat /\ Forfeited(A) \in Nat
      /\ Forfeited(A) + Refunded(A) = stake[A]
      /\ Refunded(B) \in Nat /\ Forfeited(B) \in Nat
      /\ Forfeited(B) + Refunded(B) = stake[B]
      /\ stake[A] \in Nat /\ stake[B] \in Nat
  BY <1>1, StakeSplits DEF TypeOK
<1>5. prizePool[d] \in Nat
  BY DEF TypeOK
<1>6. Prize(d) = prizePool[d] + Forfeited(A) + Forfeited(B) /\ Prize(d) \in Nat
  BY <1>4, <1>5 DEF Prize
<1>7. /\ AlphaHalf(d) \in Nat /\ ShieldHalf(d) \in Nat
      /\ AlphaHalf(d) + ShieldHalf(d) = Prize(d)
  <2>1. Prize(d) \div 2 \in Nat /\ Prize(d) - Prize(d) \div 2 \in Nat
    BY <1>6, HalfPrize
  <2>2. AlphaHalf(d) = Prize(d) \div 2 /\ ShieldHalf(d) = Prize(d) - AlphaHalf(d)
    BY DEF AlphaHalf, ShieldHalf
  <2> QED BY <1>6, <2>1, <2>2
<1>8. HandedOut(d) = Refunded(A) + Refunded(B) + AlphaHalf(d) + ShieldHalf(d)
  <2>1. AlphaDev(d) # None /\ ShieldTaker(d) # None
    BY <1>1, <1>2, <1>3
  <2> QED BY <2>1 DEF HandedOut
<1>9. HandedOut(d) = stake[A] + stake[B] + prizePool[d] /\ HandedOut(d) \in Nat
  BY <1>4, <1>5, <1>6, <1>7, <1>8
<1> QED BY <1>1, <1>2, <1>3, <1>7, <1>9

\* The money resolve moves: the contract's balance falls by the two stakes and
\* the prize pool, and nobody else's falls.
LEMMA ResolvePays ==
  ASSUME TypeOK, Roster, NEW d \in DuelIds, resolve(d)
  PROVE  /\ usdc' \in [Accounts -> Nat]
         /\ usdc'[Contract] = usdc[Contract] - prizePool[d]
                - stake[agentOf[d]["A"]] - stake[agentOf[d]["B"]]
         /\ \A x \in People \ {developer[agentOf[d]["A"]],
                                developer[agentOf[d]["B"]]} : usdc'[x] = usdc[x]
<1> DEFINE A == agentOf[d]["A"]
           B == agentOf[d]["B"]
           devA == developer[A]
           devB == developer[B]
           due(x, q, n) == IF x = q THEN n ELSE 0
           received(x) == due(x, devA, Refunded(A)) + due(x, devB, Refunded(B))
                          + due(x, AlphaDev(d), AlphaHalf(d))
                          + due(x, ShieldTaker(d), ShieldHalf(d))
           out == HandedOut(d)
<1>1. Live(d)
  BY DEF resolve, MayBeResolved
<1>2. /\ A \in Agents /\ B \in Agents
      /\ AlphaDev(d) \in {devA, devB} /\ ShieldTaker(d) \in {devA, devB}
      /\ AlphaHalf(d) \in Nat /\ ShieldHalf(d) \in Nat
      /\ out = stake[A] + stake[B] + prizePool[d] /\ out \in Nat
  BY <1>1, HandsOutItsMoney
<1>3. Refunded(A) \in Nat /\ Refunded(B) \in Nat
  BY <1>2, StakeSplits
<1>7. /\ usdc[Contract] >= out
      /\ usdc' = [x \in Accounts |-> IF x = Contract THEN usdc[x] - out
                                     ELSE usdc[x] + received(x)]
  BY DEF resolve, MayBeResolved
<1>10. ASSUME NEW x \in Accounts PROVE received(x) \in Nat
  <2> HIDE DEF devA, devB
  <2> QED BY <1>2, <1>3
<1>11. usdc \in [Accounts -> Nat] /\ Contract \in Accounts
  BY DEF TypeOK, Accounts
<1>12. usdc' \in [Accounts -> Nat]
  <2> HIDE DEF out, received
  <2> QED BY <1>2, <1>7, <1>10, <1>11
<1>13. usdc'[Contract] = usdc[Contract] - out
  <2> HIDE DEF out, received
  <2> QED BY <1>7, <1>11
<1>14. ASSUME NEW x \in People \ {devA, devB} PROVE usdc'[x] = usdc[x]
  <2>1. received(x) = 0
    BY <1>2
  <2>2. x \in Accounts /\ x # Contract
    BY NamesAssumption DEF Accounts
  <2> HIDE DEF out, received
  <2> QED BY <1>7, <1>11, <2>1, <2>2
<1>15. usdc[Contract] \in Nat /\ stake[A] \in Nat /\ stake[B] \in Nat /\ prizePool[d] \in Nat
  BY <1>2, <1>11 DEF TypeOK
<1> QED
  <2> HIDE DEF out
  <2> QED BY <1>2, <1>12, <1>13, <1>14, <1>15

LEMMA TypeResolve ==
  ASSUME TypeOK, Roster, NEW d \in DuelIds, resolve(d)
  PROVE  TypeOK'
<1> DEFINE A == agentOf[d]["A"]
           B == agentOf[d]["B"]
<1>1. Live(d) /\ A \in Agents /\ B \in Agents
  BY DEF resolve, MayBeResolved, Roster, LiveDuelsHaveDevelopers, Sides
<1>2. usdc' \in [Accounts -> Nat]
  BY ResolvePays
<1>3. status' \in [DuelIds -> Statuses]
  BY DEF resolve, MayBeResolved, TypeOK, Statuses
<1>4. winner' \in [DuelIds -> Agents \cup {None}]
  BY <1>1 DEF resolve, Leader, TypeOK
<1>5. _ironShieldWinner(d) \in Agents \cup {None}
  BY <1>1 DEF _ironShieldWinner
<1>6. shieldWinner' \in [DuelIds -> Agents \cup {None}]
  BY <1>5 DEF resolve, MayBeResolved, TypeOK
<1>7. prizePool' \in [DuelIds -> Nat]
  BY DEF resolve, MayBeResolved, TypeOK
<1>8. /\ stake' \in [Agents -> Nat] /\ failures' \in [Agents -> Nat]
      /\ registered' \in [Agents -> BOOLEAN]
      /\ developer' \in [Agents -> People \cup {None}]
  BY DEF resolve, MayBeResolved, CloseOut, TypeOK
<1> QED
  BY <1>2, <1>3, <1>4, <1>6, <1>7, <1>8 DEF TypeOK, resolve, MayBeResolved, bookVars,
     resilienceVars, chaosVars

-----------------------------------------------------------------------------
(***************************************************************************)
(* The roster.                                                             *)
(***************************************************************************)
LEMMA RosterInit == Init => Roster
<1> SUFFICES ASSUME Init PROVE Roster
  OBVIOUS
<1>1. \A d \in DuelIds : ~Exists(d) /\ ~Live(d) /\ ~(d <= duelCount)
  BY BoundsAssumption DEF Init, Exists, Live, DuelIds
<1>2. \A a \in Agents : stake[a] = 0 /\ ~registered[a]
  BY DEF Init
<1> QED
  BY <1>1, <1>2 DEF Roster, LiveDuelsHaveDevelopers, StakesAreReleasable

\* Steps that touch neither the agents' records nor the duels' lives.
LEMMA RosterKept ==
  ASSUME Roster,
         UNCHANGED <<developer, stake, registered, status, duelCount, agentOf>>
  PROVE  Roster'
BY DEF Roster, LiveDuelsHaveDevelopers, StakesAreReleasable, Exists, Live

LEMMA RosterRegister ==
  ASSUME TypeOK, Roster, NEW p \in People, NEW a \in Agents, registerAgent(p, a)
  PROVE  Roster'
<1>1. /\ UNCHANGED <<status, duelCount, agentOf>>
      /\ developer' = [developer EXCEPT ![a] = p]
      /\ registered' = [registered EXCEPT ![a] = TRUE]
  BY DEF registerAgent, duelVars
<1>2. p # None
  BY NamesAssumption
<1>3. \A b \in Agents : developer'[b] = developer[b] \/ developer'[b] # None
  BY <1>1, <1>2 DEF TypeOK
<1>4. LiveDuelsHaveDevelopers'
  BY <1>1, <1>3 DEF LiveDuelsHaveDevelopers, Live, Roster
<1>5. StakesAreReleasable'
  BY <1>1 DEF registerAgent, Roster, StakesAreReleasable, TypeOK
<1>6. \A b \in Agents : registered'[b] => developer'[b] # None
  BY <1>1, <1>2 DEF Roster, TypeOK
<1> QED BY <1>1, <1>4, <1>5, <1>6 DEF Roster, Exists, Live

LEMMA RosterCreate ==
  ASSUME TypeOK, Roster, NEW a \in Agents, NEW b \in Agents,
         NEW betting \in BettingPeriods, NEW trading \in TradingPeriods,
         createDuel(a, b, betting, trading)
  PROVE  Roster'
<1> DEFINE d == duelCount + 1
<1>1. /\ a # b /\ registered[a] /\ registered[b]
      /\ duelCount' = d
      /\ status' = [status EXCEPT ![d] = "Live"]
      /\ agentOf' = [agentOf EXCEPT ![d] = [s \in Sides |->
                                              IF s = "A" THEN a ELSE b]]
      /\ UNCHANGED <<developer, stake, registered>>
  BY DEF createDuel, agentVars
<1>2. duelCount \in Nat /\ d \in DuelIds
  BY BoundsAssumption DEF TypeOK, createDuel, DuelIds
<1>3. \A e \in DuelIds \ {d} : status'[e] = status[e] /\ agentOf'[e] = agentOf[e]
  BY <1>1 DEF TypeOK
<1>4. status'[d] = "Live" /\ agentOf'[d]["A"] = a /\ agentOf'[d]["B"] = b
  BY <1>1, <1>2 DEF TypeOK, Sides
<1>5. LiveDuelsHaveDevelopers'
  BY <1>1, <1>3, <1>4 DEF Roster, LiveDuelsHaveDevelopers, Live, Sides
<1>6. StakesAreReleasable'
  BY <1>1 DEF Roster, StakesAreReleasable
<1>7. \A e \in DuelIds : (Exists(e) <=> e <= duelCount)'
  <2> SUFFICES ASSUME NEW e \in DuelIds PROVE (Exists(e) <=> e <= duelCount)'
    OBVIOUS
  <2>1. e \in Int
    BY DEF DuelIds
  <2>2. CASE e = d
    BY <1>1, <1>2, <1>4, <2>2 DEF Exists
  <2>3. CASE e # d
    BY <1>1, <1>2, <1>3, <2>1, <2>3 DEF Exists, Roster
  <2> QED BY <2>2, <2>3
<1>8. \A e \in DuelIds : (Live(e) => agentOf[e]["A"] # agentOf[e]["B"])'
  BY <1>1, <1>3, <1>4 DEF Roster, Live
<1> QED BY <1>1, <1>5, <1>6, <1>7, <1>8 DEF Roster

LEMMA RosterResolve ==
  ASSUME TypeOK, Roster, NEW d \in DuelIds, resolve(d)
  PROVE  Roster'
<1> DEFINE A == agentOf[d]["A"]
           B == agentOf[d]["B"]
<1>1. /\ Live(d)
      /\ status' = [status EXCEPT ![d] = "Resolved"]
      /\ stake' = [stake EXCEPT ![A] = 0, ![B] = 0]
      /\ registered' = [registered EXCEPT ![A] = FALSE, ![B] = FALSE]
      /\ UNCHANGED <<duelCount, agentOf, developer>>
  BY DEF resolve, MayBeResolved, CloseOut
<1>2. \A e \in DuelIds : Live(e)' => Live(e)
  BY <1>1 DEF TypeOK, Live
<1>3. \A e \in DuelIds : Exists(e)' <=> Exists(e)
  BY <1>1 DEF TypeOK, Exists, Live
<1>4. LiveDuelsHaveDevelopers'
  BY <1>1, <1>2 DEF Roster, LiveDuelsHaveDevelopers
<1>5. \A a \in Agents : /\ registered'[a] => registered[a]
                        /\ stake'[a] > 0 => stake[a] > 0 /\ a # A /\ a # B
                        /\ a # A /\ a # B => registered'[a] = registered[a]
  <2>1. A \in Agents /\ B \in Agents
    BY <1>1 DEF Roster, LiveDuelsHaveDevelopers, Sides
  <2>2. stake \in [Agents -> Nat] /\ registered \in [Agents -> BOOLEAN]
    BY DEF TypeOK
  <2> SUFFICES ASSUME NEW a \in Agents
      PROVE  /\ registered'[a] => registered[a]
             /\ stake'[a] > 0 => stake[a] > 0 /\ a # A /\ a # B
             /\ a # A /\ a # B => registered'[a] = registered[a]
    OBVIOUS
  <2>3. CASE a = A \/ a = B
    <3>1. registered'[a] = FALSE /\ stake'[a] = 0
      BY <1>1, <2>1, <2>2, <2>3
    <3> QED BY <3>1, <2>3
  <2>4. CASE a # A /\ a # B
    <3>1. registered'[a] = registered[a] /\ stake'[a] = stake[a]
      BY <1>1, <2>1, <2>2, <2>4
    <3> QED BY <3>1, <2>4
  <2> QED BY <2>3, <2>4
<1>6. StakesAreReleasable'
  BY <1>5 DEF Roster, StakesAreReleasable
<1> QED BY <1>1, <1>2, <1>3, <1>4, <1>5, <1>6 DEF Roster

-----------------------------------------------------------------------------
TypeInv == TypeOK /\ Roster

LEMMA TypeInvStep == TypeInv /\ [Next]_vars => TypeInv'
<1> SUFFICES ASSUME TypeOK, Roster, [Next]_vars PROVE TypeOK' /\ Roster'
  BY DEF TypeInv
<1> USE DEF duelVars, bookVars, agentVars, resilienceVars, chaosVars
<1>1. CASE Develop
  BY <1>1, TypeRegister, RosterRegister DEF Develop
<1>2. CASE Announce
  BY <1>2, TypeCreate, RosterCreate DEF Announce
<1>3. CASE Report
  <2> PICK d \in DuelIds, a \in Agents, i \in 0 .. MaxInjections, r \in Returns,
           ingested \in BOOLEAN, survived \in BOOLEAN, failed \in BOOLEAN :
        reportCall(d, a, i, r, ingested, survived, failed)
    BY <1>3 DEF Report
  <2>1. TypeOK'
    BY TypeReport
  <2>2. UNCHANGED <<developer, stake, registered, status, duelCount, agentOf>>
    BY DEF reportCall
  <2> QED BY <2>1, <2>2, RosterKept
<1>4. CASE Resolve
  BY <1>4, TypeResolve, RosterResolve DEF Resolve
<1>5. CASE Wager
  <2> PICK p \in People, d \in DuelIds, s \in Sides, n \in BetAmounts :
        bet(p, d, s, n)
    BY <1>5 DEF Wager
  <2>1. TypeOK'
    BY TypeBet
  <2>2. UNCHANGED <<developer, stake, registered, status, duelCount, agentOf>>
    BY DEF bet
  <2> QED BY <2>1, <2>2, RosterKept
<1>6. CASE Inject
  <2> PICK p \in People, d \in DuelIds, a \in Agents, item \in Items :
        injectChaos(p, d, a, item)
    BY <1>6 DEF Inject
  <2>1. TypeOK'
    BY TypeInject
  <2>2. UNCHANGED <<developer, stake, registered, status, duelCount, agentOf>>
    BY DEF injectChaos
  <2> QED BY <2>1, <2>2, RosterKept
<1>7. CASE Sponsor
  <2> PICK p \in People, d \in DuelIds, n \in FundAmounts : fundPrizePool(p, d, n)
    BY <1>7 DEF Sponsor
  <2>1. TypeOK'
    BY TypeFund
  <2>2. UNCHANGED <<developer, stake, registered, status, duelCount, agentOf>>
    BY DEF fundPrizePool
  <2> QED BY <2>1, <2>2, RosterKept
<1>8. CASE Collect
  <2> PICK p \in People, d \in DuelIds : claim(p, d)
    BY <1>8 DEF Collect
  <2>1. TypeOK'
    BY TypeClaim
  <2>2. UNCHANGED <<developer, stake, registered, status, duelCount, agentOf>>
    BY DEF claim
  <2> QED BY <2>1, <2>2, RosterKept
<1>9. CASE Tune
  <2>1. TypeOK'
    BY <1>9, TypeTune
  <2>2. UNCHANGED <<developer, stake, registered, status, duelCount, agentOf>>
    BY <1>9 DEF Tune, setItemPrice, setTreasury, setStakeRequirement,
       setOperatorCutBps, setFailureThreshold, setShieldMinScore, Set
  <2> QED BY <2>1, <2>2, RosterKept
<1>10. CASE Tick
  BY <1>10, TypeTick, RosterKept DEF Tick
<1>11. CASE UNCHANGED vars
  <2>1. TypeOK'
    BY <1>11 DEF vars, TypeOK
  <2> QED BY <1>11, <2>1, RosterKept DEF vars
<1> QED
  BY <1>1, <1>2, <1>3, <1>4, <1>5, <1>6, <1>7, <1>8, <1>9, <1>10, <1>11 DEF Next

\* Every reachable state is well typed, and in every live duel both agents
\* have a developer to pay, whatever the other duels did to them.
\* (the whole contract)
THEOREM TypeCorrect == Spec => [](TypeOK /\ Roster)
<1>1. Init => TypeInv
  BY TypeInit, RosterInit DEF TypeInv
<1>2. TypeInv => TypeOK /\ Roster
  BY DEF TypeInv
<1> QED BY <1>1, <1>2, TypeInvStep, PTL DEF Spec

\* Every live duel's prize has a payee and every stake can still be released.
\* (createDuel, registerAgent, resolve)
THEOREM PrizesHavePayees ==
  Spec => [](LiveDuelsHaveDevelopers /\ StakesAreReleasable)
<1>1. Init => TypeInv
  BY TypeInit, RosterInit DEF TypeInv
<1>2. TypeInv => LiveDuelsHaveDevelopers /\ StakesAreReleasable
  BY DEF TypeInv, Roster
<1> QED BY <1>1, <1>2, TypeInvStep, PTL DEF Spec

-----------------------------------------------------------------------------
(***************************************************************************)
(* What steps never do.                                                    *)
(***************************************************************************)
OutcomeKept(d) ==
  /\ status'[d] = status[d] /\ score'[d] = score[d]
  /\ winner'[d] = winner[d] /\ shieldWinner'[d] = shieldWinner[d]
  /\ pool'[d] = pool[d] /\ betOf'[d] = betOf[d]

LEMMA OutcomeStep ==
  ASSUME TypeInv, [Next]_vars, NEW d \in DuelIds, status[d] = "Resolved"
  PROVE  OutcomeKept(d)
<1>1. CASE Announce
  <2> PICK a \in Agents, b \in Agents, betting \in BettingPeriods,
           trading \in TradingPeriods : createDuel(a, b, betting, trading)
    BY <1>1 DEF Announce
  <2>1. d <= duelCount /\ duelCount \in Nat
    BY DEF TypeInv, TypeOK, Roster, Exists
  <2>2. d # duelCount + 1
    BY <2>1
  <2>3. status'[d] = status[d]
    BY <2>2 DEF createDuel, TypeInv, TypeOK
  <2> QED BY <2>3 DEF createDuel, bookVars, OutcomeKept
<1>2. CASE Report
  <2> PICK e \in DuelIds, a \in Agents, i \in 0 .. MaxInjections, r \in Returns,
           ingested \in BOOLEAN, survived \in BOOLEAN, failed \in BOOLEAN :
        reportCall(e, a, i, r, ingested, survived, failed)
    BY <1>2 DEF Report
  <2>1. e # d
    BY DEF reportCall, Live
  <2>2. score'[d] = score[d]
    BY <2>1 DEF reportCall, TypeInv, TypeOK
  <2> QED BY <2>2 DEF reportCall, bookVars, OutcomeKept
<1>3. CASE Resolve
  <2> PICK e \in DuelIds : resolve(e)
    BY <1>3 DEF Resolve
  <2>1. e # d
    BY DEF resolve, MayBeResolved, Live
  <2>2. status'[d] = status[d] /\ winner'[d] = winner[d]
        /\ shieldWinner'[d] = shieldWinner[d]
    BY <2>1 DEF resolve, MayBeResolved, TypeInv, TypeOK
  <2> QED BY <2>2 DEF resolve, MayBeResolved, bookVars, OutcomeKept
<1>4. CASE Wager
  <2> PICK p \in People, e \in DuelIds, s \in Sides, n \in BetAmounts :
        bet(p, e, s, n)
    BY <1>4 DEF Wager
  <2>1. e # d
    BY DEF bet, Live
  <2>2. pool'[d] = pool[d] /\ betOf'[d] = betOf[d]
    BY <2>1 DEF bet, TypeInv, TypeOK
  <2> QED BY <2>2 DEF bet, duelVars, OutcomeKept
<1>5. CASE Develop \/ Inject \/ Sponsor
  BY <1>5 DEF Develop, registerAgent, Inject, injectChaos, Sponsor, fundPrizePool,
     duelVars, bookVars, OutcomeKept
<1>6. CASE Collect
  BY <1>6 DEF Collect, claim, duelVars, OutcomeKept
<1>7. CASE Tune
  BY <1>7 DEF Tune, setItemPrice, setTreasury, setStakeRequirement,
     setOperatorCutBps, setFailureThreshold, setShieldMinScore, Set, duelVars,
     bookVars, OutcomeKept
<1>8. CASE Tick \/ UNCHANGED vars
  BY <1>8 DEF Tick, vars, duelVars, bookVars, OutcomeKept
<1> QED
  BY <1>1, <1>2, <1>3, <1>4, <1>5, <1>6, <1>7, <1>8 DEF Next

\* Once a duel is resolved its winners, scores and bets never move again.
\* (resolve, reportCall, bet)
THEOREM OutcomesAreFinal == Spec => OutcomeIsFinal
<1> DEFINE Kept == \A d \in DuelIds : status[d] = "Resolved" =>
              /\ status'[d] = status[d] /\ score'[d] = score[d]
              /\ winner'[d] = winner[d] /\ shieldWinner'[d] = shieldWinner[d]
              /\ pool'[d] = pool[d] /\ betOf'[d] = betOf[d]
<1>1. Init => TypeInv
  BY TypeInit, RosterInit DEF TypeInv
<1>2. TypeInv /\ [Next]_vars => [Kept]_vars
  BY OutcomeStep DEF OutcomeKept
<1> QED BY <1>1, <1>2, TypeInvStep, PTL DEF Spec, OutcomeIsFinal

HandsOut(d) ==
  LET A == agentOf[d]["A"]
      B == agentOf[d]["B"]
  IN /\ usdc'[Contract] + prizePool[d] + stake[A] + stake[B] = usdc[Contract]
     /\ prizePool'[d] = 0
     /\ ~registered'[A] /\ ~registered'[B]
     /\ \A p \in People \ {developer[A], developer[B]} : usdc'[p] = usdc[p]

LEMMA ResolveStep ==
  ASSUME TypeInv, NEW d \in DuelIds, resolve(d)
  PROVE  HandsOut(d)
<1> DEFINE A == agentOf[d]["A"]
           B == agentOf[d]["B"]
<1>1. A \in Agents /\ B \in Agents
  BY DEF resolve, MayBeResolved, TypeInv, Roster, LiveDuelsHaveDevelopers, Sides
<1>2. ~registered'[A] /\ ~registered'[B]
  BY <1>1 DEF resolve, MayBeResolved, CloseOut, TypeInv, TypeOK
<1>3. prizePool'[d] = 0
  BY DEF resolve, MayBeResolved, TypeInv, TypeOK
<1>4. /\ usdc'[Contract] = usdc[Contract] - prizePool[d] - stake[A] - stake[B]
      /\ \A x \in People \ {developer[A], developer[B]} : usdc'[x] = usdc[x]
  BY ResolvePays DEF TypeInv
<1>5. usdc[Contract] \in Nat /\ prizePool[d] \in Nat /\ stake[A] \in Nat
      /\ stake[B] \in Nat
  BY <1>1 DEF TypeInv, TypeOK, Accounts
<1>6. usdc'[Contract] + prizePool[d] + stake[A] + stake[B] = usdc[Contract]
  <2> HIDE DEF A, B
  <2> QED BY <1>4, <1>5
<1> QED BY <1>2, <1>3, <1>4, <1>6 DEF HandsOut

LEMMA OnlyResolveResolves ==
  ASSUME TypeInv, [Next]_vars, NEW d \in DuelIds,
         status'[d] = "Resolved", status[d] # "Resolved"
  PROVE  resolve(d)
<1>1. CASE Resolve
  <2> PICK e \in DuelIds : resolve(e)
    BY <1>1 DEF Resolve
  <2>1. e = d
    BY DEF resolve, MayBeResolved, TypeInv, TypeOK
  <2> QED BY <2>1
<1>2. CASE Announce
  BY <1>2 DEF Announce, createDuel, TypeInv, TypeOK
<1>3. CASE Develop \/ Report \/ Wager \/ Inject \/ Sponsor \/ Collect
  BY <1>3 DEF Develop, registerAgent, Report, reportCall, Wager, bet, Inject,
     injectChaos, Sponsor, fundPrizePool, Collect, claim, duelVars
<1>4. CASE Tune
  BY <1>4 DEF Tune, setItemPrice, setTreasury, setStakeRequirement,
     setOperatorCutBps, setFailureThreshold, setShieldMinScore, Set, duelVars
<1>5. CASE Tick \/ UNCHANGED vars
  BY <1>5 DEF Tick, vars, duelVars
<1> QED BY <1>1, <1>2, <1>3, <1>4, <1>5 DEF Next

\* A resolution pays out exactly the two stakes and the prize pool, to the two
\* developers only, and frees both agents.  (resolve, _closeOutStake)
THEOREM ResolutionHandsOutEverything == Spec => ResolveHandsOutEverything
<1> DEFINE Done ==
      \A d \in DuelIds : status'[d] = "Resolved" /\ status[d] # "Resolved" =>
        LET A == agentOf[d]["A"]
            B == agentOf[d]["B"]
        IN /\ usdc'[Contract] + prizePool[d] + stake[A] + stake[B]
                = usdc[Contract]
           /\ prizePool'[d] = 0
           /\ ~registered'[A] /\ ~registered'[B]
           /\ \A p \in People \ {developer[A], developer[B]} : usdc'[p] = usdc[p]
<1>1. Init => TypeInv
  BY TypeInit, RosterInit DEF TypeInv
<1>2. TypeInv /\ [Next]_vars => [Done]_vars
  BY OnlyResolveResolves, ResolveStep DEF HandsOut
<1> QED BY <1>1, <1>2, TypeInvStep, PTL DEF Spec, ResolveHandsOutEverything

-----------------------------------------------------------------------------
(***************************************************************************)
(* Arithmetic of shares.                                                   *)
(***************************************************************************)
LEMMA FloorShare ==
  ASSUME NEW x \in Nat, NEW W \in Nat, W > 0
  PROVE  x \div W \in Nat /\ (x \div W) * W <= x /\ x < (x \div W + 1) * W
OBVIOUS

LEMMA TimesSum ==
  ASSUME NEW a \in Int, NEW b \in Int, NEW c \in Int
  PROVE  (a + b) * c = a * c + b * c
OBVIOUS

LEMMA TimesMono ==
  ASSUME NEW a \in Nat, NEW b \in Nat, NEW c \in Nat, a <= b
  PROVE  a * c <= b * c
OBVIOUS

LEMMA TimesCancel ==
  ASSUME NEW a \in Int, NEW b \in Int, NEW W \in Nat, W > 0, a * W <= b * W
  PROVE  a <= b
<1>1. (a - b) * W <= 0
  OBVIOUS
<1>2. SUFFICES ASSUME a - b > 0 PROVE FALSE
  OBVIOUS
<1>3. (a - b) * W > 0
  BY <1>2
<1> QED BY <1>1, <1>3

LEMMA TimesComm ==
  ASSUME NEW a \in Int, NEW b \in Int PROVE a * b = b * a
OBVIOUS

\* One claim, in numbers: W is the winning pool, T the whole pot, wc the
\* winning stake already claimed, po what was paid for it, m the claimant's.
LEMMA ClaimArithmetic ==
  ASSUME NEW W \in Nat, NEW T \in Nat, NEW wc \in Nat, NEW po \in Nat,
         NEW m \in Nat, W > 0, W <= T, wc + m <= W, po * W <= wc * T
  PROVE  /\ (m * T) \div W \in Nat
         /\ (po + (m * T) \div W) * W <= (wc + m) * T
         /\ po + (m * T) \div W <= T
         /\ m <= (m * T) \div W
         /\ wc + m = W => m <= T - po
<1> DEFINE fl == (m * T) \div W
<1>0. m * T \in Nat /\ wc * T \in Nat /\ po * W \in Nat
  OBVIOUS
<1>1. fl \in Nat /\ fl * W <= m * T /\ m * T < (fl + 1) * W
  <2> DEFINE x == m * T
  <2>1. x \in Nat
    BY <1>0
  <2> HIDE DEF x
  <2>2. x \div W \in Nat /\ (x \div W) * W <= x /\ x < (x \div W + 1) * W
    BY <2>1, FloorShare
  <2> QED BY <2>2 DEF x
<1> HIDE DEF fl
<1>2. (po + fl) * W = po * W + fl * W /\ (wc + m) * T = wc * T + m * T
  BY <1>1, TimesSum
<1>3. fl * W \in Nat
  BY <1>1
<1>4. (po + fl) * W <= (wc + m) * T
  BY <1>0, <1>1, <1>2, <1>3
<1>5. (wc + m) * T <= W * T
  <2>1. wc + m \in Nat
    OBVIOUS
  <2> QED BY <2>1, TimesMono
<1>6. W * T = T * W
  BY TimesComm
<1>7. po + fl <= T
  <2>1. (po + fl) * W <= T * W
    BY <1>1, <1>4, <1>5, <1>6
  <2> QED BY <1>1, <2>1, TimesCancel
<1>8. m * W <= m * T
  <2>1. W * m <= T * m /\ W * m = m * W /\ T * m = m * T
    BY TimesMono, TimesComm
  <2> QED BY <2>1
<1>9. m <= fl
  <2>1. m * W < (fl + 1) * W
    BY <1>0, <1>1, <1>8
  <2>2. ~(fl + 1 <= m)
    <3> SUFFICES ASSUME fl + 1 <= m PROVE FALSE
      OBVIOUS
    <3>1. (fl + 1) * W <= m * W
      BY <1>1, TimesMono
    <3> QED BY <2>1, <3>1, <1>1
  <2> QED BY <1>1, <2>2
<1>10. ASSUME wc + m = W PROVE m <= T - po
  <2>1. po * W + m * T <= T * W
    BY <1>0, <1>2, <1>5, <1>6
  <2>2. (po + m) * W = po * W + m * W
    BY TimesSum
  <2>3. (po + m) * W <= T * W
    BY <1>0, <1>8, <2>1, <2>2
  <2>4. po + m <= T
    BY <2>3, TimesCancel
  <2> QED BY <2>4
<1> QED BY <1>1, <1>4, <1>7, <1>9, <1>10 DEF fl

-----------------------------------------------------------------------------
(***************************************************************************)
(* The parimutuel book.                                                    *)
(***************************************************************************)
BookInv == PotAccounting /\ Unclaimed

LEMMA SidesAre == "A" \in Sides /\ "B" \in Sides
                  /\ \A d \in DuelIds : WinSide(d) \in Sides
BY DEF Sides, WinSide

\* The facts about one duel's book that the lemmas below draw on.
LEMMA BookFacts ==
  ASSUME TypeOK, BookInv, NEW d \in DuelIds
  PROVE  /\ WinningPool(d) \in Nat /\ TotalPool(d) \in Nat
         /\ WinningPool(d) <= TotalPool(d)
         /\ winClaimedStake[d] \in Nat /\ paidOut[d] \in Nat
         /\ claimed[d] \in SUBSET People
         /\ \A s \in Sides : betOf[d][s] \in [People -> Nat]
         /\ \A s \in Sides : pool[d][s] \in Nat
         /\ \A s \in Sides : pool[d][s] = Total(betOf[d][s], People)
         /\ winClaimedStake[d] = Total(betOf[d][WinSide(d)], claimed[d])
         /\ winClaimedStake[d] <= WinningPool(d)
         /\ paidOut[d] * WinningPool(d) <= winClaimedStake[d] * TotalPool(d)
         /\ WinningPool(d) > 0 => paidOut[d] <= TotalPool(d)
<1>1. /\ pool \in [DuelIds -> [Sides -> Nat]]
      /\ betOf \in [DuelIds -> [Sides -> [People -> Nat]]]
      /\ winClaimedStake[d] \in Nat /\ paidOut[d] \in Nat
      /\ claimed[d] \in SUBSET People
  BY DEF TypeOK
<1>2. \A s \in Sides : betOf[d][s] \in [People -> Nat] /\ pool[d][s] \in Nat
  BY <1>1
<1>3. WinningPool(d) \in Nat /\ TotalPool(d) \in Nat
      /\ WinningPool(d) <= TotalPool(d)
  BY <1>2, SidesAre DEF WinningPool, TotalPool, WinSide
<1>4. /\ \A s \in Sides : pool[d][s] = Total(betOf[d][s], People)
      /\ winClaimedStake[d] = Total(betOf[d][WinSide(d)], claimed[d])
      /\ paidOut[d] * WinningPool(d) <= winClaimedStake[d] * TotalPool(d)
  BY DEF BookInv, PotAccounting, BookBalances
<1>5. winClaimedStake[d] <= WinningPool(d)
  <2> DEFINE f == betOf[d][WinSide(d)]
  <2>1. f \in [People -> Nat] /\ IsFiniteSet(People)
    BY <1>2, SidesAre, NamesAssumption
  <2>2. Total(f, claimed[d]) <= Total(f, People)
    <3> HIDE DEF f
    <3> QED BY <1>1, <2>1, TotalSubset
  <2> QED BY <1>4, <2>2, SidesAre DEF WinningPool
<1>6. ASSUME WinningPool(d) > 0 PROVE paidOut[d] <= TotalPool(d)
  <2> DEFINE W == WinningPool(d)
             T == TotalPool(d)
             wc == winClaimedStake[d]
             po == paidOut[d]
  <2>1. W \in Nat /\ T \in Nat /\ wc \in Nat /\ po \in Nat /\ W > 0 /\ W <= T
        /\ wc <= W /\ po * W <= wc * T
    BY <1>1, <1>3, <1>4, <1>5, <1>6
  <2> HIDE DEF W, T, wc, po
  <2>2. 0 \in Nat /\ wc + 0 <= W
    BY <2>1
  <2>3. po + (0 * T) \div W <= T /\ 0 <= (0 * T) \div W /\ (0 * T) \div W \in Nat
    BY <2>1, <2>2, ClaimArithmetic
  <2>4. po <= T
    BY <2>1, <2>3
  <2> QED BY <2>4 DEF po, T
<1> QED BY <1>1, <1>2, <1>3, <1>4, <1>5, <1>6

LEMMA BookInit == Init => BookInv
<1> SUFFICES ASSUME Init PROVE BookInv
  OBVIOUS
<1>1. IsFiniteSet(People)
  BY NamesAssumption
<1>2. ASSUME NEW d \in DuelIds, NEW s \in Sides
      PROVE  pool[d][s] = 0 /\ betOf[d][s] = [p \in People |-> 0]
  BY DEF Init
<1>3. Total([p \in People |-> 0], People) = 0
  BY <1>1, TotalZero
<1>4. \A d \in DuelIds : /\ claimed[d] = {} /\ paidOut[d] = 0
                         /\ winClaimedStake[d] = 0
  BY DEF Init
<1>5. Unclaimed
  BY <1>2, <1>4 DEF Unclaimed
<1>6. PotAccounting
  <2> SUFFICES ASSUME NEW d \in DuelIds PROVE BookBalances(d)
    BY DEF PotAccounting
  <2>1. WinningPool(d) = 0 /\ TotalPool(d) = 0
    BY <1>2, SidesAre DEF WinningPool, TotalPool
  <2>2. Total(betOf[d][WinSide(d)], claimed[d]) = 0
    BY <1>4, TotalEmpty
  <2> QED BY <1>2, <1>3, <1>4, <2>1, <2>2 DEF BookBalances
<1> QED BY <1>5, <1>6 DEF BookInv

\* A step that leaves one duel's book and outcome alone leaves it balanced.
LEMMA BookOfOther ==
  ASSUME NEW d \in DuelIds, BookBalances(d),
         pool'[d] = pool[d], betOf'[d] = betOf[d], claimed'[d] = claimed[d],
         winClaimedStake'[d] = winClaimedStake[d], paidOut'[d] = paidOut[d],
         winner'[d] = winner[d], agentOf'[d] = agentOf[d]
  PROVE  /\ BookBalances(d)'
         /\ WinSide(d)' = WinSide(d)
         /\ WinningPool(d)' = WinningPool(d)
         /\ TotalPool(d)' = TotalPool(d)
<1>1. WinSide(d)' = WinSide(d)
  BY DEF WinSide
<1>2. WinningPool(d)' = WinningPool(d) /\ TotalPool(d)' = TotalPool(d)
  BY <1>1 DEF WinningPool, TotalPool
<1> QED BY <1>1, <1>2 DEF BookBalances

\* A duel nobody has claimed from is balanced whoever its winner is.
LEMMA FreshBook ==
  ASSUME TypeOK, BookInv, NEW d \in DuelIds, status[d] # "Resolved",
         pool'[d] = pool[d], betOf'[d] = betOf[d], claimed'[d] = claimed[d],
         winClaimedStake'[d] = winClaimedStake[d], paidOut'[d] = paidOut[d]
  PROVE  BookBalances(d)'
<1>1. claimed[d] = {} /\ paidOut[d] = 0
  BY DEF BookInv, Unclaimed
<1>2. winClaimedStake[d] = 0
  BY <1>1, BookFacts, TotalEmpty
<1>3. \A s \in Sides : (pool[d][s] = Total(betOf[d][s], People))'
  BY BookFacts
<1>4. (WinSide(d) \in Sides)'
  BY DEF WinSide, Sides
<1>5. /\ WinningPool(d)' \in Nat /\ TotalPool(d)' \in Nat
      /\ (WinningPool(d) = Total(betOf[d][WinSide(d)], People))'
  BY <1>3, <1>4, BookFacts, SidesAre DEF WinningPool, TotalPool
<1>6. Total(betOf'[d][WinSide(d)'], claimed'[d]) = 0
  BY <1>1, TotalEmpty
<1> QED BY <1>1, <1>2, <1>3, <1>5, <1>6 DEF BookBalances

LEMMA BookKept ==
  ASSUME BookInv, UNCHANGED <<bookVars, winner, agentOf, status>>
  PROVE  BookInv'
<1>1. \A d \in DuelIds : BookBalances(d)'
  BY BookOfOther DEF BookInv, PotAccounting, bookVars
<1>2. Unclaimed'
  BY DEF BookInv, Unclaimed, bookVars
<1> QED BY <1>1, <1>2 DEF BookInv, PotAccounting

LEMMA BookCreate ==
  ASSUME TypeInv, BookInv, NEW a \in Agents, NEW b \in Agents,
         NEW betting \in BettingPeriods, NEW trading \in TradingPeriods,
         createDuel(a, b, betting, trading)
  PROVE  BookInv'
<1>0. duelCount + 1 \in DuelIds /\ duelCount \in Int
  BY BoundsAssumption DEF TypeInv, TypeOK, createDuel, DuelIds
<1> PICK d \in DuelIds : d = duelCount + 1
  BY <1>0
<1>1. /\ UNCHANGED <<bookVars, winner>>
      /\ status' = [status EXCEPT ![d] = "Live"]
      /\ \A e \in DuelIds \ {d} : agentOf'[e] = agentOf[e]
  BY DEF createDuel, TypeInv, TypeOK
<1>2. d \in DuelIds
  OBVIOUS
<1>3. status[d] = "None"
  <2>1. ~(d <= duelCount)
    BY <1>0
  <2> QED BY <1>2, <2>1 DEF TypeInv, Roster, Exists
<1>4. BookBalances(d)'
  <2>1. /\ pool'[d] = pool[d] /\ betOf'[d] = betOf[d] /\ claimed'[d] = claimed[d]
        /\ winClaimedStake'[d] = winClaimedStake[d] /\ paidOut'[d] = paidOut[d]
    BY <1>1 DEF bookVars
  <2> QED BY <1>2, <1>3, <2>1, FreshBook DEF TypeInv
<1>5. ASSUME NEW e \in DuelIds \ {d} PROVE BookBalances(e)'
  BY <1>1, BookOfOther DEF BookInv, PotAccounting, bookVars
<1>6. Unclaimed'
  <2>1. \A e \in DuelIds : /\ status'[e] # "Resolved" => status[e] # "Resolved"
                           /\ status'[e] = "None" => status[e] = "None"
    BY <1>1, <1>2, <1>3 DEF TypeInv, TypeOK
  <2> QED BY <1>1, <2>1 DEF BookInv, Unclaimed, bookVars
<1> QED BY <1>4, <1>5, <1>6 DEF BookInv, PotAccounting

LEMMA BookResolve ==
  ASSUME TypeInv, BookInv, NEW d \in DuelIds, resolve(d)
  PROVE  BookInv'
<1>1. /\ UNCHANGED <<bookVars, agentOf>>
      /\ Live(d)
      /\ status' = [status EXCEPT ![d] = "Resolved"]
      /\ \A e \in DuelIds \ {d} : winner'[e] = winner[e]
  BY DEF resolve, MayBeResolved, TypeInv, TypeOK
<1>2. BookBalances(d)'
  BY <1>1, FreshBook DEF TypeInv, bookVars, Live
<1>3. ASSUME NEW e \in DuelIds \ {d} PROVE BookBalances(e)'
  BY <1>1, BookOfOther DEF BookInv, PotAccounting, bookVars
<1>4. Unclaimed'
  <2>1. \A e \in DuelIds : /\ status'[e] # "Resolved" => status[e] # "Resolved"
                           /\ status'[e] = "None" => status[e] = "None"
    BY <1>1 DEF TypeInv, TypeOK, Live
  <2> QED BY <1>1, <2>1 DEF BookInv, Unclaimed, bookVars
<1> QED BY <1>2, <1>3, <1>4 DEF BookInv, PotAccounting

LEMMA BookBet ==
  ASSUME TypeInv, BookInv, NEW p \in People, NEW d \in DuelIds, NEW s \in Sides,
         NEW n \in BetAmounts, bet(p, d, s, n)
  PROVE  BookInv'
<1>1. /\ Live(d) /\ n \in Nat
      /\ pool' = [pool EXCEPT ![d][s] = pool[d][s] + n]
      /\ betOf' = [betOf EXCEPT ![d][s][p] = betOf[d][s][p] + n]
      /\ UNCHANGED <<duelVars, claimed, winClaimedStake, paidOut>>
  BY InputsAssumption DEF bet
<1>2. /\ pool \in [DuelIds -> [Sides -> Nat]]
      /\ betOf \in [DuelIds -> [Sides -> [People -> Nat]]]
  BY DEF TypeInv, TypeOK
<1>3. /\ pool'[d] = [pool[d] EXCEPT ![s] = pool[d][s] + n]
      /\ \A e \in DuelIds \ {d} : pool'[e] = pool[e]
  <2>1. pool[d][s] + n \in Nat
    BY <1>1, <1>2
  <2> QED BY <1>1, <1>2, <2>1, Update2
<1>4. /\ betOf'[d] = [betOf[d] EXCEPT ![s][p] = betOf[d][s][p] + n]
      /\ \A e \in DuelIds \ {d} : betOf'[e] = betOf[e]
  <2>1. betOf[d][s][p] + n \in Nat
    BY <1>1, <1>2
  <2> QED BY <1>1, <1>2, <2>1, Update3
<1>5. ASSUME NEW e \in DuelIds \ {d} PROVE BookBalances(e)'
  BY <1>1, <1>3, <1>4, BookOfOther DEF BookInv, PotAccounting, duelVars
<1>6. \A t \in Sides : pool'[d][t] = Total(betOf'[d][t], People)
  <2> SUFFICES ASSUME NEW t \in Sides
      PROVE  pool'[d][t] = Total(betOf'[d][t], People)
    OBVIOUS
  <2>0. pool[d][t] = Total(betOf[d][t], People)
    BY BookFacts DEF TypeInv
  <2>1. CASE t = s
    <3>1. betOf[d][s] \in [People -> Nat] /\ pool[d][s] \in Nat
      BY <1>2
    <3>2. betOf'[d][s] = [betOf[d][s] EXCEPT ![p] = betOf[d][s][p] + n]
      BY <1>2, <1>4
    <3> DEFINE f == betOf[d][s]
               g == [f EXCEPT ![p] = f[p] + n]
    <3> HIDE DEF f
    <3>3. f \in [People -> Nat]
      BY <3>1 DEF f
    <3>4. g[p] = f[p] + n /\ f[p] \in Nat
          /\ \A y \in People \ {p} : f[y] = g[y]
      BY <3>3
    <3>5. \A y \in People : f[y] \in Nat /\ g[y] \in Nat
      BY <1>1, <3>3, <3>4
    <3> HIDE DEF g
    <3>6. Total(g, People) = Total(f, People) + g[p] - f[p]
      BY <3>4, <3>5, NamesAssumption, TotalChange
    <3>7. Total(f, People) \in Nat
      BY <3>5, NamesAssumption, PurseFinite
    <3>8. Total(g, People) = Total(f, People) + n
      BY <1>1, <3>4, <3>6, <3>7
    <3>9. pool'[d][s] = pool[d][s] + n
      BY <1>2, <1>3
    <3> QED BY <2>0, <2>1, <3>2, <3>8, <3>9 DEF f, g
  <2>2. CASE t # s
    <3>1. pool'[d][t] = pool[d][t] /\ betOf'[d][t] = betOf[d][t]
      BY <1>2, <1>3, <1>4, <2>2
    <3> QED BY <2>0, <3>1
  <2> QED BY <2>1, <2>2
<1>7. BookBalances(d)'
  <2>1. claimed[d] = {} /\ paidOut[d] = 0
    BY <1>1 DEF BookInv, Unclaimed, Live
  <2>2. winClaimedStake[d] = 0
    BY <2>1, BookFacts, TotalEmpty DEF TypeInv
  <2>3. \A t \in Sides : pool'[d][t] \in Nat
    BY <1>1, <1>2, <1>3
  <2>4. /\ WinningPool(d)' \in Nat /\ TotalPool(d)' \in Nat
    <3>1. WinSide(d)' \in Sides
      BY DEF WinSide, Sides
    <3> QED BY <2>3, <3>1, SidesAre DEF WinningPool, TotalPool
  <2>5. /\ Total(betOf'[d][WinSide(d)'], claimed'[d]) = 0
        /\ claimed'[d] = {} /\ paidOut'[d] = 0 /\ winClaimedStake'[d] = 0
    BY <1>1, <2>1, <2>2, TotalEmpty
  <2> QED BY <1>6, <2>4, <2>5 DEF BookBalances
<1>8. Unclaimed'
  <2>1. ASSUME NEW e \in DuelIds, status'[e] = "None"
        PROVE  \A t \in Sides : pool'[e][t] = 0
    <3>1. e # d /\ status[e] = "None"
      BY <1>1, <2>1 DEF duelVars, Live
    <3> QED BY <1>3, <3>1 DEF BookInv, Unclaimed
  <2> QED BY <1>1, <2>1 DEF BookInv, Unclaimed, duelVars
<1> QED BY <1>5, <1>7, <1>8 DEF BookInv, PotAccounting

\* In a refunding duel nobody has a bet on the side that won.
LEMMA NoWinners ==
  ASSUME TypeOK, BookInv, NEW d \in DuelIds, WinningPool(d) = 0, NEW p \in People
  PROVE  betOf[d][WinSide(d)][p] = 0
<1> DEFINE f == betOf[d][WinSide(d)]
<1>1. f \in [People -> Nat] /\ Total(f, People) = 0
  BY BookFacts, SidesAre DEF WinningPool
<1> HIDE DEF f
<1>2. f[p] = 0
  BY <1>1, NamesAssumption, TotalZero
<1> QED BY <1>2 DEF f

\* An unclaimed bettor's winning stake is not among the claimed ones.
LEMMA MineIsLeft ==
  ASSUME TypeOK, BookInv, NEW d \in DuelIds, NEW p \in People \ claimed[d]
  PROVE  LET mine == betOf[d][WinSide(d)][p]
         IN /\ mine \in Nat
            /\ winClaimedStake[d] + mine <= WinningPool(d)
            /\ Total(betOf[d][WinSide(d)], claimed[d] \cup {p})
                 = winClaimedStake[d] + mine
<1> DEFINE f == betOf[d][WinSide(d)]
           C == claimed[d]
           D == C \cup {p}
<1>1. /\ f \in [People -> Nat] /\ C \in SUBSET People
      /\ winClaimedStake[d] = Total(f, C) /\ WinningPool(d) = Total(f, People)
  BY BookFacts, SidesAre DEF WinningPool
<1>2. p \notin C /\ p \in People
  OBVIOUS
<1> HIDE DEF f, C
<1>3. IsFiniteSet(People) /\ IsFiniteSet(D) /\ D \in SUBSET People /\ D \ {p} = C
      /\ p \in D
  <2>1. D \in SUBSET People
    BY <1>1, <1>2
  <2> QED BY <1>2, <2>1, NamesAssumption, FS_Subset
<1> HIDE DEF D
<1>4. \A y \in D : f[y] \in Nat
  BY <1>1, <1>3
<1>5. Total(f, D) = f[p] + Total(f, D \ {p})
  BY <1>3, <1>4, TotalRemove
<1>6. Total(f, D) <= Total(f, People)
  BY <1>1, <1>3, TotalSubset
<1>7. f[p] \in Nat /\ winClaimedStake[d] \in Nat
  BY <1>1, <1>2 DEF TypeOK
<1>8. Total(f, D) = winClaimedStake[d] + f[p]
  <2>1. Total(f, D \ {p}) = winClaimedStake[d]
    BY <1>1, <1>3, Zenon
  <2> QED BY <1>5, <1>7, <2>1
<1> QED BY <1>1, <1>6, <1>7, <1>8 DEF f, C, D

LEMMA BookClaim ==
  ASSUME TypeInv, BookInv, NEW p \in People, NEW d \in DuelIds, claim(p, d)
  PROVE  BookInv'
<1> DEFINE W == WinningPool(d)
           T == TotalPool(d)
           f == betOf[d][WinSide(d)]
           wc == winClaimedStake[d]
           po == paidOut[d]
           mine == f[p]
<1>1. /\ status[d] = "Resolved" /\ p \notin claimed[d]
      /\ claimed' = [claimed EXCEPT ![d] = @ \cup {p}]
      /\ UNCHANGED <<duelVars, pool, betOf>>
  BY DEF claim, MarkClaimed
<1>2. /\ claimed'[d] = claimed[d] \cup {p}
      /\ \A e \in DuelIds \ {d} : claimed'[e] = claimed[e]
  BY <1>1 DEF TypeInv, TypeOK
<1>3. /\ W \in Nat /\ T \in Nat /\ W <= T /\ wc \in Nat /\ po \in Nat
      /\ po * W <= wc * T /\ wc <= W
      /\ mine \in Nat /\ wc + mine <= W
      /\ Total(f, claimed'[d]) = wc + mine
  <2>1. TypeOK /\ p \in People \ claimed[d]
    BY <1>1 DEF TypeInv
  <2>2. /\ W \in Nat /\ T \in Nat /\ W <= T /\ wc \in Nat /\ po \in Nat
        /\ po * W <= wc * T /\ wc <= W
    BY <2>1, BookFacts
  <2>3. /\ mine \in Nat /\ wc + mine <= W
        /\ Total(f, claimed[d] \cup {p}) = wc + mine
    BY <2>1, MineIsLeft
  <2>4. Total(f, claimed'[d]) = Total(f, claimed[d] \cup {p})
    BY <1>2, Zenon
  <2> QED BY <2>2, <2>3, <2>4
<1>4. /\ WinSide(d)' = WinSide(d) /\ WinningPool(d)' = W /\ TotalPool(d)' = T
      /\ betOf'[d][WinSide(d)'] = f
  BY <1>1 DEF WinSide, WinningPool, TotalPool, duelVars
<1>5. /\ \A s \in Sides : pool'[d][s] = Total(betOf'[d][s], People)
      /\ W > 0 => \A q \in claimed[d] : f[q] > 0
  BY <1>1 DEF BookInv, PotAccounting, BookBalances
<1>6. CASE W = 0
  <2>1. winClaimedStake'[d] = wc /\ paidOut'[d] = po
        /\ UNCHANGED <<winClaimedStake, paidOut>>
    BY <1>6 DEF claim
  <2>2. mine = 0
    BY <1>6, NoWinners DEF TypeInv
  <2>3. BookBalances(d)'
    <3>1. winClaimedStake'[d] = Total(f, claimed'[d])
      BY <1>3, <2>1, <2>2
    <3>2. paidOut'[d] * W <= winClaimedStake'[d] * T
      BY <1>3, <2>1
    <3> QED BY <1>4, <1>5, <1>6, <3>1, <3>2 DEF BookBalances
  <2>4. ASSUME NEW e \in DuelIds \ {d} PROVE BookBalances(e)'
    BY <1>1, <1>2, <2>1, BookOfOther DEF BookInv, PotAccounting, duelVars
  <2>5. Unclaimed'
    BY <1>1, <1>2, <2>1 DEF BookInv, Unclaimed, duelVars
  <2> QED BY <2>3, <2>4, <2>5 DEF BookInv, PotAccounting
<1>7. CASE W > 0
  <2> DEFINE n == Payout(d, p)
  <2>1. /\ mine # 0
        /\ winClaimedStake' = [winClaimedStake EXCEPT ![d] = @ + mine]
        /\ paidOut' = [paidOut EXCEPT ![d] = @ + n]
    BY <1>7 DEF claim
  <2>2. /\ winClaimedStake'[d] = wc + mine /\ paidOut'[d] = po + n
        /\ \A e \in DuelIds \ {d} : /\ winClaimedStake'[e] = winClaimedStake[e]
                                    /\ paidOut'[e] = paidOut[e]
    <3> HIDE DEF n, mine, f
    <3> QED BY <2>1 DEF TypeInv, TypeOK
  <2>3. n = IF wc + mine = W THEN T - po ELSE (mine * T) \div W
    BY <1>7 DEF Payout, Sweeps, Share
  <2>4. /\ (mine * T) \div W \in Nat
        /\ (po + (mine * T) \div W) * W <= (wc + mine) * T
    <3> HIDE DEF mine, W, T, po, wc
    <3> QED BY <1>3, <1>7, ClaimArithmetic
  <2>5. /\ paidOut'[d] * W <= winClaimedStake'[d] * T
        /\ winClaimedStake'[d] = W => paidOut'[d] = T
    <3> HIDE DEF mine, W, T, po, wc, n
    <3>1. CASE wc + mine = W
      <4>1. paidOut'[d] = T /\ winClaimedStake'[d] = W
        BY <1>3, <2>2, <2>3, <3>1
      <4> QED BY <1>3, <4>1, TimesComm
    <3>2. CASE wc + mine # W
      <4>1. paidOut'[d] = po + (mine * T) \div W /\ winClaimedStake'[d] = wc + mine
        BY <2>2, <2>3, <3>2
      <4> QED BY <2>4, <3>2, <4>1
    <3> QED BY <3>1, <3>2
  <2>6. \A q \in claimed'[d] : f[q] > 0
    BY <1>2, <1>3, <1>5, <1>7, <2>1
  <2>7. BookBalances(d)'
    <3>1. winClaimedStake'[d] = Total(f, claimed'[d])
      BY <1>3, <2>2
    <3> QED BY <1>4, <1>5, <2>5, <2>6, <3>1 DEF BookBalances
  <2>8. ASSUME NEW e \in DuelIds \ {d} PROVE BookBalances(e)'
    BY <1>1, <1>2, <2>2, BookOfOther DEF BookInv, PotAccounting, duelVars
  <2>9. Unclaimed'
    BY <1>1, <1>2, <2>2 DEF BookInv, Unclaimed, duelVars
  <2> QED BY <2>7, <2>8, <2>9 DEF BookInv, PotAccounting
<1> QED BY <1>3, <1>6, <1>7

LEMMA BookStep == TypeInv /\ BookInv /\ [Next]_vars => BookInv'
<1> SUFFICES ASSUME TypeInv, BookInv, [Next]_vars PROVE BookInv'
  OBVIOUS
<1>1. CASE Announce
  BY <1>1, BookCreate DEF Announce
<1>2. CASE Resolve
  BY <1>2, BookResolve DEF Resolve
<1>3. CASE Wager
  BY <1>3, BookBet DEF Wager
<1>4. CASE Collect
  BY <1>4, BookClaim DEF Collect
<1>5. CASE Develop
  BY <1>5, BookKept DEF Develop, registerAgent, duelVars
<1>6. CASE Report
  BY <1>6, BookKept DEF Report, reportCall
<1>7. CASE Inject
  BY <1>7, BookKept DEF Inject, injectChaos, duelVars
<1>8. CASE Sponsor
  BY <1>8, BookKept DEF Sponsor, fundPrizePool, duelVars
<1>9. CASE Tune
  <2>1. UNCHANGED <<duelVars, bookVars>>
    BY <1>9 DEF Tune, setItemPrice, setTreasury, setStakeRequirement,
       setOperatorCutBps, setFailureThreshold, setShieldMinScore, Set
  <2> QED BY <2>1, BookKept DEF duelVars
<1>10. CASE Tick \/ UNCHANGED vars
  BY <1>10, BookKept DEF Tick, vars, duelVars
<1> QED
  BY <1>1, <1>2, <1>3, <1>4, <1>5, <1>6, <1>7, <1>8, <1>9, <1>10 DEF Next

\* In every reachable state the running totals of every duel agree with its
\* bets.  (bet, resolve, claim)
THEOREM BookIsBalanced == Spec => []PotAccounting
<1>1. Init => TypeInv /\ BookInv
  BY TypeInit, RosterInit, BookInit DEF TypeInv
<1>2. TypeInv /\ BookInv /\ [Next]_vars => (TypeInv /\ BookInv)'
  BY TypeInvStep, BookStep
<1>3. TypeInv /\ BookInv => PotAccounting
  BY DEF BookInv
<1> QED BY <1>1, <1>2, <1>3, PTL DEF Spec

-----------------------------------------------------------------------------
(***************************************************************************)
(* The money the contract holds is exactly what it owes.                   *)
(***************************************************************************)

\* The inductive invariant of the contract's money.
MoneyInv == Solvent /\ FreshEscrows

PotsAreNatural == \A d \in DuelIds : Owed(d) \in Nat

LEMMA FiniteKeys ==
  IsFiniteSet(Agents) /\ IsFiniteSet(People) /\ IsFiniteSet(DuelIds)
  /\ IsFiniteSet(InjectionIds)
<1>1. MaxDuels \in Int /\ MaxInjections \in Int /\ 1 \in Int
  BY BoundsAssumption
<1> QED BY <1>1, NamesAssumption, FS_Interval DEF DuelIds, InjectionIds

LEMMA OwnBetsType ==
  ASSUME TypeOK, NEW d \in DuelIds
  PROVE  /\ OwnBets(d) \in [People -> Nat]
         /\ \A p \in People : OwnBets(d)[p] = betOf[d]["A"][p] + betOf[d]["B"][p]
<1>1. betOf[d]["A"] \in [People -> Nat] /\ betOf[d]["B"] \in [People -> Nat]
  BY SidesAre DEF TypeOK
<1> QED BY <1>1 DEF OwnBets

LEMMA OwedTypes == TypeOK /\ BookInv => PotsAreNatural
<1> SUFFICES ASSUME TypeOK, BookInv, NEW d \in DuelIds PROVE Owed(d) \in Nat
  BY DEF PotsAreNatural
<1>1. WinningPool(d) \in Nat /\ TotalPool(d) \in Nat /\ paidOut[d] \in Nat
      /\ (WinningPool(d) > 0 => paidOut[d] <= TotalPool(d))
  BY BookFacts
<1>2. WinningPool(d) > 0 => TotalPool(d) - paidOut[d] \in Nat
  <2> DEFINE t == TotalPool(d)
             q == paidOut[d]
             w == WinningPool(d)
  <2> HIDE DEF t, q, w
  <2>1. w > 0 => t - q \in Nat
    BY <1>1 DEF t, q, w
  <2> QED BY <2>1 DEF t, q, w
<1>3. Total(OwnBets(d), People \ claimed[d]) \in Nat
  <2>1. IsFiniteSet(People \ claimed[d])
    BY FiniteKeys, FS_Difference
  <2> QED BY <2>1, OwnBetsType, PurseFinite
<1> QED BY <1>1, <1>2, <1>3 DEF Owed

LEMMA OwedTypesNext == TypeOK' /\ BookInv' => PotsAreNatural'
BY OwedTypes, PTL

LEMMA HeldTypes ==
  ASSUME TypeOK, BookInv
  PROVE  /\ StakesHeld \in Nat /\ EscrowsHeld \in Nat
         /\ PrizesHeld \in Nat /\ PotsHeld \in Nat
         /\ usdc[Contract] \in Nat
<1>1. StakesHeld \in Nat
  BY FiniteKeys, PurseFinite DEF TypeOK, StakesHeld
<1>2. EscrowsHeld \in Nat
  BY FiniteKeys, PurseFinite DEF TypeOK, EscrowsHeld
<1>3. PrizesHeld \in Nat
  BY FiniteKeys, PurseFinite DEF TypeOK, PrizesHeld
<1>4. PotsHeld \in Nat
  <2> DEFINE f == [d \in DuelIds |-> Owed(d)]
  <2>1. \A d \in DuelIds : f[d] \in Nat
    BY OwedTypes DEF PotsAreNatural
  <2> HIDE DEF f
  <2>2. Total(f, DuelIds) \in Nat
    BY <2>1, FiniteKeys, PurseFinite
  <2> QED BY <2>2 DEF f, PotsHeld
<1>5. usdc[Contract] \in Nat
  BY DEF TypeOK, Accounts
<1> QED BY <1>1, <1>2, <1>3, <1>4, <1>5

-----------------------------------------------------------------------------
(***************************************************************************)
(* How each holding changes.                                               *)
(***************************************************************************)

\* A step that leaves a duel's book and outcome alone leaves its debt alone.
LEMMA OwedSame ==
  ASSUME NEW d \in DuelIds, status'[d] = status[d],
         pool'[d] = pool[d], betOf'[d] = betOf[d], claimed'[d] = claimed[d],
         paidOut'[d] = paidOut[d], winner'[d] = winner[d],
         agentOf'[d] = agentOf[d]
  PROVE  Owed(d)' = Owed(d)
<1>1. WinSide(d)' = WinSide(d)
  BY DEF WinSide
<1>2. WinningPool(d)' = WinningPool(d) /\ TotalPool(d)' = TotalPool(d)
  BY <1>1 DEF WinningPool, TotalPool
<1>3. OwnBets(d)' = OwnBets(d)
  BY DEF OwnBets
<1>4. Total(OwnBets(d)', People \ claimed'[d])
        = Total(OwnBets(d), People \ claimed[d])
  BY <1>3, Zenon
<1> QED BY <1>2, <1>4 DEF Owed

LEMMA PotsSame ==
  ASSUME \A d \in DuelIds : Owed(d)' = Owed(d)
  PROVE  PotsHeld' = PotsHeld
<1>1. [d \in DuelIds |-> Owed(d)'] = [d \in DuelIds |-> Owed(d)]
  OBVIOUS
<1> QED BY <1>1 DEF PotsHeld

\* A step that moves one duel's debt moves the pots by as much.
LEMMA PotsChange ==
  ASSUME PotsAreNatural, PotsAreNatural', NEW d \in DuelIds,
         \A e \in DuelIds \ {d} : Owed(e)' = Owed(e)
  PROVE  PotsHeld' = PotsHeld + Owed(d)' - Owed(d)
<1> DEFINE f == [e \in DuelIds |-> Owed(e)]
           g == [e \in DuelIds |-> Owed(e)']
<1>1. \A e \in DuelIds : f[e] = Owed(e) /\ g[e] = Owed(e)'
  OBVIOUS
<1>2. \A e \in DuelIds : f[e] \in Nat /\ g[e] \in Nat
  BY DEF PotsAreNatural
<1>3. \A e \in DuelIds \ {d} : f[e] = g[e]
  OBVIOUS
<1>4. PotsHeld = Total(f, DuelIds) /\ PotsHeld' = Total(g, DuelIds)
  BY DEF PotsHeld
<1> HIDE DEF f, g
<1>5. Total(g, DuelIds) = Total(f, DuelIds) + g[d] - f[d]
  BY <1>2, <1>3, FiniteKeys, TotalChange
<1> QED BY <1>1, <1>4, <1>5

\* A mapping updated at one key.
LEMMA HeldChange ==
  ASSUME NEW S, IsFiniteSet(S), NEW f \in [S -> Nat], NEW x \in S, NEW v \in Nat
  PROVE  Total([f EXCEPT ![x] = v], S) = Total(f, S) + v - f[x]
<1> DEFINE g == [f EXCEPT ![x] = v]
<1>1. \A y \in S : f[y] \in Nat /\ g[y] \in Nat
  OBVIOUS
<1>2. g[x] = v /\ \A y \in S \ {x} : f[y] = g[y]
  OBVIOUS
<1> HIDE DEF g
<1>3. Total(g, S) = Total(f, S) + g[x] - f[x]
  BY <1>1, <1>2, TotalChange
<1> QED BY <1>2, <1>3 DEF g

-----------------------------------------------------------------------------
(***************************************************************************)
(* Every action keeps the contract solvent.                                *)
(***************************************************************************)
LEMMA MoneyInit == Init => MoneyInv
<1> SUFFICES ASSUME Init PROVE MoneyInv
  OBVIOUS
<1>1. StakesHeld = 0 /\ EscrowsHeld = 0 /\ PrizesHeld = 0
  <2>1. /\ \A a \in Agents : stake[a] = 0
        /\ \A i \in InjectionIds : injectionEscrows[i] = 0
        /\ \A d \in DuelIds : prizePool[d] = 0
    BY DEF Init
  <2> QED BY <2>1, FiniteKeys, TotalZero DEF StakesHeld, EscrowsHeld, PrizesHeld
<1>2. PotsHeld = 0
  <2> DEFINE f == [d \in DuelIds |-> Owed(d)]
  <2>1. \A d \in DuelIds : f[d] = 0
    BY DEF Init, Owed
  <2> HIDE DEF f
  <2>2. Total(f, DuelIds) = 0
    BY <2>1, FiniteKeys, TotalZero
  <2> QED BY <2>2 DEF f, PotsHeld
<1>3. usdc[Contract] = 0
  BY DEF Init, Accounts
<1>4. FreshEscrows
  BY DEF Init, FreshEscrows
<1> QED BY <1>1, <1>2, <1>3, <1>4 DEF MoneyInv, Solvent

\* A step that moves no coin and no obligation.
LEMMA MoneyKept ==
  ASSUME MoneyInv, usdc'[Contract] = usdc[Contract],
         UNCHANGED <<stake, injectionEscrows, injectionCount, prizePool>>,
         PotsHeld' = PotsHeld
  PROVE  MoneyInv'
<1>1. StakesHeld' = StakesHeld /\ EscrowsHeld' = EscrowsHeld
      /\ PrizesHeld' = PrizesHeld
  BY DEF StakesHeld, EscrowsHeld, PrizesHeld
<1> QED BY <1>1 DEF MoneyInv, Solvent, FreshEscrows

LEMMA PotsUntouched ==
  ASSUME UNCHANGED <<status, pool, betOf, claimed, paidOut, winner, agentOf>>
  PROVE  PotsHeld' = PotsHeld
<1>1. \A d \in DuelIds : Owed(d)' = Owed(d)
  BY OwedSame
<1> QED BY <1>1, PotsSame

LEMMA MoneyRegister ==
  ASSUME TypeInv, BookInv, MoneyInv, NEW p \in People, NEW a \in Agents,
         registerAgent(p, a)
  PROVE  MoneyInv'
<1> DEFINE bond == settings.stakeRequirement
<1>1. bond \in Nat /\ usdc[p] >= bond /\ p \in Accounts /\ Contract \in Accounts
      /\ p # Contract
  <2>1. settings \in Settings
    BY DEF TypeInv, TypeOK
  <2> QED BY <2>1, SettingsType, NamesAssumption DEF Accounts, registerAgent
<1>2. stake[a] = 0 /\ stake \in [Agents -> Nat]
  <2>1. stake \in [Agents -> Nat]
    BY DEF TypeInv, TypeOK
  <2>2. ~(stake[a] > 0)
    BY DEF TypeInv, Roster, StakesAreReleasable, registerAgent
  <2> QED BY <2>1, <2>2
<1>3. usdc' = Moved(p, Contract, bond) /\ stake' = [stake EXCEPT ![a] = bond]
  BY DEF registerAgent
<1> HIDE DEF bond
<1>4. usdc'[Contract] = usdc[Contract] + bond
  BY <1>1, <1>3, MovedType DEF TypeInv
<1>5. StakesHeld' = StakesHeld + bond
  <2>1. Total([stake EXCEPT ![a] = bond], Agents) = StakesHeld + bond - stake[a]
    BY <1>1, <1>2, FiniteKeys, HeldChange DEF StakesHeld
  <2> QED BY <1>1, <1>2, <1>3, <2>1, HeldTypes DEF StakesHeld, TypeInv
<1>6. /\ EscrowsHeld' = EscrowsHeld /\ PrizesHeld' = PrizesHeld
      /\ injectionCount' = injectionCount
      /\ injectionEscrows' = injectionEscrows
  BY DEF registerAgent, EscrowsHeld, PrizesHeld, chaosVars
<1>7. PotsHeld' = PotsHeld
  BY PotsUntouched DEF registerAgent, duelVars, bookVars
<1>8. /\ StakesHeld \in Nat /\ EscrowsHeld \in Nat /\ PrizesHeld \in Nat
      /\ PotsHeld \in Nat /\ usdc[Contract] \in Nat
  BY HeldTypes DEF TypeInv
<1> QED BY <1>1, <1>4, <1>5, <1>6, <1>7, <1>8 DEF MoneyInv, Solvent, FreshEscrows

LEMMA MoneyCreate ==
  ASSUME TypeInv, BookInv, MoneyInv, NEW a \in Agents, NEW b \in Agents,
         NEW betting \in BettingPeriods, NEW trading \in TradingPeriods,
         createDuel(a, b, betting, trading)
  PROVE  MoneyInv'
<1>0. duelCount + 1 \in DuelIds /\ duelCount \in Int
  BY BoundsAssumption DEF TypeInv, TypeOK, createDuel, DuelIds
<1> PICK d \in DuelIds : d = duelCount + 1
  BY <1>0
<1>1. /\ UNCHANGED <<bookVars, winner, usdc, prizePool, stake>>
      /\ UNCHANGED <<injectionEscrows, injectionCount>>
      /\ status'[d] = "Live"
      /\ \A e \in DuelIds \ {d} : agentOf'[e] = agentOf[e] /\ status'[e] = status[e]
  BY DEF createDuel, TypeInv, TypeOK, agentVars, chaosVars
<1>2. status[d] = "None"
  <2>1. ~(d <= duelCount)
    BY <1>0
  <2> QED BY <2>1 DEF TypeInv, Roster, Exists
<1>3. Owed(d) = 0 /\ Owed(d)' = 0
  <2>1. pool[d]["A"] = 0 /\ pool[d]["B"] = 0
    BY <1>2, SidesAre DEF BookInv, Unclaimed
  <2>2. TotalPool(d)' = 0
    BY <1>1, <2>1 DEF TotalPool, bookVars
  <2> QED BY <1>1, <1>2, <2>2 DEF Owed
<1>4. \A e \in DuelIds \ {d} : Owed(e)' = Owed(e)
  BY <1>1, OwedSame DEF bookVars
<1>5. PotsHeld' = PotsHeld
  BY <1>3, <1>4, PotsSame
<1> QED BY <1>1, <1>5, MoneyKept

LEMMA MoneyBet ==
  ASSUME TypeInv, BookInv, MoneyInv, TypeOK', BookInv',
         NEW p \in People, NEW d \in DuelIds,
         NEW s \in Sides, NEW n \in BetAmounts, bet(p, d, s, n)
  PROVE  MoneyInv'
<1>1. /\ Live(d) /\ n \in Nat /\ usdc[p] >= n
      /\ pool' = [pool EXCEPT ![d][s] = pool[d][s] + n]
      /\ betOf' = [betOf EXCEPT ![d][s][p] = betOf[d][s][p] + n]
      /\ usdc' = Moved(p, Contract, n)
      /\ UNCHANGED <<status, winner, agentOf, claimed, paidOut>>
      /\ UNCHANGED <<stake, injectionEscrows, injectionCount, prizePool>>
  BY InputsAssumption DEF bet, duelVars, agentVars, chaosVars
<1>2. usdc'[Contract] = usdc[Contract] + n
  BY <1>1, MovedType, NamesAssumption DEF TypeInv, Accounts
<1>3. /\ pool \in [DuelIds -> [Sides -> Nat]]
      /\ betOf \in [DuelIds -> [Sides -> [People -> Nat]]]
  BY DEF TypeInv, TypeOK
<1>4. /\ pool'[d] = [pool[d] EXCEPT ![s] = pool[d][s] + n]
      /\ \A e \in DuelIds \ {d} : pool'[e] = pool[e]
  <2>1. pool[d][s] + n \in Nat
    BY <1>1, <1>3
  <2> QED BY <1>1, <1>3, <2>1, Update2
<1>5. \A e \in DuelIds \ {d} : betOf'[e] = betOf[e]
  <2>1. betOf[d][s][p] + n \in Nat
    BY <1>1, <1>3
  <2> QED BY <1>1, <1>3, <2>1, Update3
<1>6. Owed(d)' = Owed(d) + n /\ Owed(d) \in Nat
  <2>1. pool[d] \in [Sides -> Nat] /\ s \in {"A", "B"}
    BY <1>3 DEF Sides
  <2>2. TotalPool(d)' = TotalPool(d) + n /\ TotalPool(d) \in Nat
    BY <1>1, <1>3, <1>4, <2>1, SidesAre DEF TotalPool
  <2> QED BY <1>1, <2>2 DEF Owed, Live
<1>7. \A e \in DuelIds \ {d} : Owed(e)' = Owed(e)
  BY <1>1, <1>4, <1>5, OwedSame
<1>8. PotsHeld' = PotsHeld + n
  <2>1. PotsHeld' = PotsHeld + Owed(d)' - Owed(d)
    BY <1>7, OwedTypes, OwedTypesNext, PotsChange DEF TypeInv
  <2> QED BY <1>1, <1>6, <2>1, HeldTypes DEF TypeInv
<1>9. StakesHeld' = StakesHeld /\ EscrowsHeld' = EscrowsHeld
      /\ PrizesHeld' = PrizesHeld
  BY <1>1 DEF StakesHeld, EscrowsHeld, PrizesHeld
<1>10. /\ StakesHeld \in Nat /\ EscrowsHeld \in Nat /\ PrizesHeld \in Nat
       /\ PotsHeld \in Nat /\ usdc[Contract] \in Nat
  BY HeldTypes DEF TypeInv
<1> QED BY <1>1, <1>2, <1>8, <1>9, <1>10 DEF MoneyInv, Solvent, FreshEscrows

LEMMA MoneyFund ==
  ASSUME TypeInv, BookInv, MoneyInv, NEW p \in People, NEW d \in DuelIds,
         NEW n \in FundAmounts, fundPrizePool(p, d, n)
  PROVE  MoneyInv'
<1>1. /\ n \in Nat /\ usdc[p] >= n
      /\ usdc' = Moved(p, Contract, n)
      /\ prizePool' = [prizePool EXCEPT ![d] = prizePool[d] + n]
      /\ UNCHANGED <<stake, injectionEscrows, injectionCount>>
  BY InputsAssumption DEF fundPrizePool, agentVars, chaosVars
<1>2. usdc'[Contract] = usdc[Contract] + n
  BY <1>1, MovedType, NamesAssumption DEF TypeInv, Accounts
<1>3. PrizesHeld' = PrizesHeld + n
  <2>1. prizePool \in [DuelIds -> Nat] /\ prizePool[d] \in Nat
        /\ prizePool[d] + n \in Nat
    BY <1>1 DEF TypeInv, TypeOK
  <2>2. PrizesHeld' = PrizesHeld + (prizePool[d] + n) - prizePool[d]
    BY <1>1, <2>1, FiniteKeys, HeldChange DEF PrizesHeld
  <2> QED BY <1>1, <2>1, <2>2, HeldTypes DEF TypeInv
<1>4. PotsHeld' = PotsHeld
  BY PotsUntouched DEF fundPrizePool, duelVars, bookVars
<1>5. StakesHeld' = StakesHeld /\ EscrowsHeld' = EscrowsHeld
  BY <1>1 DEF StakesHeld, EscrowsHeld
<1>6. /\ StakesHeld \in Nat /\ EscrowsHeld \in Nat /\ PrizesHeld \in Nat
      /\ PotsHeld \in Nat /\ usdc[Contract] \in Nat
  BY HeldTypes DEF TypeInv
<1> QED BY <1>1, <1>2, <1>3, <1>4, <1>5, <1>6 DEF MoneyInv, Solvent, FreshEscrows

LEMMA EscrowLeaves ==
  ASSUME TypeInv, BookInv, NEW i \in InjectionIds,
         \A j \in InjectionIds : injectionEscrows'[j]
                                  = IF j = i THEN 0 ELSE injectionEscrows[j]
  PROVE  EscrowsHeld' = EscrowsHeld - injectionEscrows[i]
<1> DEFINE f == injectionEscrows
           g == injectionEscrows'
<1>0. IsFiniteSet(InjectionIds)
  BY FiniteKeys
<1>1. f \in [InjectionIds -> Nat]
  BY DEF TypeInv, TypeOK
<1>2. \A j \in InjectionIds : f[j] \in Nat /\ g[j] \in Nat
  BY <1>1
<1>3. \A j \in InjectionIds \ {i} : f[j] = g[j]
  OBVIOUS
<1>4. g[i] = 0 /\ f[i] \in Nat
  BY <1>1
<1>5. EscrowsHeld = Total(f, InjectionIds) /\ EscrowsHeld' = Total(g, InjectionIds)
  BY DEF EscrowsHeld
<1> HIDE DEF f, g
<1>6. Total(g, InjectionIds) = Total(f, InjectionIds) + g[i] - f[i]
  BY <1>0, <1>2, <1>3, TotalChange
<1>7. EscrowsHeld' = EscrowsHeld - f[i]
  BY <1>4, <1>5, <1>6, HeldTypes DEF TypeInv
<1> QED BY <1>7 DEF f

LEMMA MoneyReport ==
  ASSUME TypeInv, BookInv, MoneyInv, NEW d \in DuelIds, NEW a \in Agents,
         NEW i \in 0 .. MaxInjections, NEW r \in Returns,
         NEW ingested \in BOOLEAN, NEW survived \in BOOLEAN,
         NEW failed \in BOOLEAN,
         reportCall(d, a, i, r, ingested, survived, failed)
  PROVE  MoneyInv'
<1>1. /\ UNCHANGED <<status, pool, betOf, claimed, paidOut, winner, agentOf>>
      /\ UNCHANGED <<stake, injectionCount>>
  BY DEF reportCall, bookVars
<1>2. PotsHeld' = PotsHeld
  BY <1>1, PotsUntouched
<1>3. CASE ~Settles(i)
  <2>1. UNCHANGED <<usdc, injectionEscrows, prizePool>>
    BY <1>3 DEF reportCall
  <2> QED BY <1>1, <1>2, <2>1, MoneyKept
<1>4. CASE Settles(i)
  <2> DEFINE escrow == injectionEscrows[i]
             dev == developer[a]
  <2>1. i \in InjectionIds
    BY <1>4, BoundsAssumption DEF Settles, InjectionIds
  <2>2. escrow \in Nat /\ injectionEscrows \in [InjectionIds -> Nat]
    BY <2>1 DEF TypeInv, TypeOK
  <2>3. /\ injectionEscrows' = [injectionEscrows EXCEPT ![i] = 0]
        /\ \/ /\ dev # None
              /\ usdc[Contract] >= escrow
              /\ usdc' = Moved(Contract, dev, escrow)
              /\ UNCHANGED prizePool
           \/ /\ prizePool' = [prizePool EXCEPT ![d] = prizePool[d] + escrow]
              /\ UNCHANGED usdc
    BY <1>4 DEF reportCall, SettleInjection
  <2>4. EscrowsHeld' = EscrowsHeld - escrow
    <3> HIDE DEF dev
    <3>1. \A j \in InjectionIds : injectionEscrows'[j]
                                    = IF j = i THEN 0 ELSE injectionEscrows[j]
      BY <2>2, <2>3
    <3> QED BY <2>1, <3>1, EscrowLeaves
  <2>5. \/ usdc'[Contract] = usdc[Contract] - escrow /\ PrizesHeld' = PrizesHeld
        \/ usdc'[Contract] = usdc[Contract] /\ PrizesHeld' = PrizesHeld + escrow
    <3>1. CASE /\ dev # None
               /\ usdc[Contract] >= escrow
               /\ usdc' = Moved(Contract, dev, escrow)
               /\ UNCHANGED prizePool
      <4>1. dev \in Accounts /\ Contract \in Accounts /\ dev # Contract
        BY <3>1, NamesAssumption DEF Accounts, TypeInv, TypeOK
      <4> HIDE DEF escrow, dev
      <4>2. usdc'[Contract] = usdc[Contract] - escrow
        BY <2>2, <3>1, <4>1, MovedType DEF TypeInv
      <4>3. PrizesHeld' = PrizesHeld
        BY <3>1 DEF PrizesHeld
      <4> QED BY <4>2, <4>3
    <3>2. CASE /\ prizePool' = [prizePool EXCEPT ![d] = prizePool[d] + escrow]
               /\ UNCHANGED usdc
      <4> HIDE DEF escrow, dev
      <4>1. prizePool \in [DuelIds -> Nat] /\ prizePool[d] \in Nat
            /\ prizePool[d] + escrow \in Nat
        BY <2>2 DEF TypeInv, TypeOK
      <4>2. PrizesHeld' = PrizesHeld + (prizePool[d] + escrow) - prizePool[d]
        BY <3>2, <4>1, FiniteKeys, HeldChange DEF PrizesHeld
      <4>3. PrizesHeld' = PrizesHeld + escrow
        BY <2>2, <4>1, <4>2, HeldTypes DEF TypeInv
      <4> QED BY <3>2, <4>3
    <3> QED BY <2>3, <3>1, <3>2
  <2>6. StakesHeld' = StakesHeld
    BY <1>1 DEF StakesHeld
  <2>7. FreshEscrows'
    BY <1>1, <2>2, <2>3 DEF MoneyInv, FreshEscrows
  <2>8. Solvent'
    <3> HIDE DEF escrow
    <3> QED BY <1>2, <2>2, <2>4, <2>5, <2>6, HeldTypes
            DEF MoneyInv, Solvent, TypeInv
  <2> QED BY <2>7, <2>8 DEF MoneyInv
<1> QED BY <1>3, <1>4

LEMMA MoneyInject ==
  ASSUME TypeInv, BookInv, MoneyInv, NEW p \in People, NEW d \in DuelIds,
         NEW a \in Agents, NEW item \in Items, injectChaos(p, d, a, item)
  PROVE  MoneyInv'
<1> DEFINE price == settings.itemPrice[item]
           cut == OperatorCut(price)
           charged == Moved(p, Contract, price)
           treasury == settings.treasury
<1>0. injectionCount + 1 \in InjectionIds /\ injectionCount \in Nat
  BY BoundsAssumption DEF TypeInv, TypeOK, injectChaos, InjectionIds
<1> PICK i \in InjectionIds : i = injectionCount + 1
  BY <1>0
<1>1. settings \in Settings /\ price \in Nat /\ treasury \in People
  <2>1. settings \in Settings
    BY DEF TypeInv, TypeOK
  <2> QED BY <2>1, SettingsType
<1>2. cut \in 0 .. price /\ Escrow(price) \in Nat /\ Escrow(price) = price - cut
  BY <1>1, CutOfPrice
<1>3. usdc'[Contract] = usdc[Contract] + price - cut
  <2>1. usdc[p] >= price /\ p \in Accounts /\ Contract \in Accounts
        /\ p # Contract /\ treasury \in Accounts /\ treasury # Contract
    BY <1>1, NamesAssumption DEF injectChaos, Accounts
  <2>2. charged \in [Accounts -> Nat] /\ charged[Contract] = usdc[Contract] + price
    BY <1>1, <2>1, MovedType DEF TypeInv
  <2>3. usdc' = [charged EXCEPT ![Contract] = @ - cut, ![treasury] = @ + cut]
    BY DEF injectChaos
  <2> HIDE DEF charged, cut, treasury, price
  <2>4. usdc'[Contract] = charged[Contract] - cut
    BY <2>1, <2>2, <2>3
  <2>5. usdc[Contract] \in Nat /\ cut \in Int
    BY <1>1, <1>2, HeldTypes DEF TypeInv
  <2> QED BY <1>1, <2>2, <2>4, <2>5
<1>4. /\ injectionEscrows' = [injectionEscrows EXCEPT ![i] = Escrow(price)]
      /\ injectionCount' = i
      /\ UNCHANGED <<stake, prizePool>>
  BY DEF injectChaos, agentVars
<1>5. injectionEscrows[i] = 0 /\ injectionEscrows \in [InjectionIds -> Nat]
  <2>1. i > injectionCount
    BY <1>0
  <2> QED BY <2>1 DEF MoneyInv, FreshEscrows, TypeInv, TypeOK
<1>6. EscrowsHeld' = EscrowsHeld + price - cut
  <2>1. EscrowsHeld' = EscrowsHeld + Escrow(price) - injectionEscrows[i]
    BY <1>2, <1>4, <1>5, FiniteKeys, HeldChange DEF EscrowsHeld
  <2> HIDE DEF cut, price
  <2> QED BY <1>1, <1>2, <1>5, <2>1, HeldTypes DEF TypeInv
<1>7. StakesHeld' = StakesHeld /\ PrizesHeld' = PrizesHeld
  BY <1>4 DEF StakesHeld, PrizesHeld
<1>8. PotsHeld' = PotsHeld
  BY PotsUntouched DEF injectChaos, duelVars, bookVars
<1>9. FreshEscrows'
  <2> SUFFICES ASSUME NEW j \in InjectionIds, j > i
      PROVE  injectionEscrows'[j] = 0
    BY <1>4 DEF FreshEscrows
  <2>1. j > injectionCount /\ j # i
    BY <1>0 DEF InjectionIds
  <2>2. injectionEscrows[j] = 0
    BY <2>1 DEF MoneyInv, FreshEscrows
  <2> QED BY <1>4, <1>5, <2>1, <2>2
<1>10. Solvent'
  <2> HIDE DEF price, cut
  <2> QED BY <1>1, <1>2, <1>3, <1>6, <1>7, <1>8, HeldTypes
          DEF MoneyInv, Solvent, TypeInv
<1> QED BY <1>9, <1>10 DEF MoneyInv

LEMMA MoneyResolve ==
  ASSUME TypeInv, BookInv, MoneyInv, TypeOK', BookInv', NEW d \in DuelIds,
         resolve(d)
  PROVE  MoneyInv'
<1> DEFINE A == agentOf[d]["A"]
           B == agentOf[d]["B"]
<1>1. /\ Live(d) /\ status'[d] = "Resolved"
      /\ \A e \in DuelIds \ {d} : status'[e] = status[e] /\ winner'[e] = winner[e]
      /\ UNCHANGED <<agentOf, bookVars, injectionCount, injectionEscrows>>
      /\ prizePool' = [prizePool EXCEPT ![d] = 0]
      /\ stake' = [stake EXCEPT ![A] = 0, ![B] = 0]
  <2>1. Live(d) /\ UNCHANGED <<agentOf, bookVars, injectionCount, injectionEscrows>>
    BY DEF resolve, MayBeResolved, chaosVars
  <2>2. /\ prizePool' = [prizePool EXCEPT ![d] = 0]
        /\ stake' = [stake EXCEPT ![A] = 0, ![B] = 0]
    BY DEF resolve, MayBeResolved, CloseOut
  <2>3. status \in [DuelIds -> Statuses] /\ winner \in [DuelIds -> Agents \cup {None}]
    BY DEF TypeInv, TypeOK
  <2>4. /\ status' = [status EXCEPT ![d] = "Resolved"]
        /\ \E win : winner' = [winner EXCEPT ![d] = win]
    BY DEF resolve, MayBeResolved
  <2>5. /\ status'[d] = "Resolved"
        /\ \A e \in DuelIds \ {d} : status'[e] = status[e] /\ winner'[e] = winner[e]
    BY <2>3, <2>4
  <2> QED BY <2>1, <2>2, <2>5
<1>2. A \in Agents /\ B \in Agents /\ A # B
  BY <1>1, SidesAre DEF TypeInv, Roster, LiveDuelsHaveDevelopers
<1>3. usdc'[Contract] = usdc[Contract] - prizePool[d] - stake[A] - stake[B]
  BY ResolvePays DEF TypeInv
<1>4. StakesHeld' = StakesHeld - stake[A] - stake[B]
  <2> DEFINE f == [stake EXCEPT ![A] = 0]
  <2> HIDE DEF A, B
  <2>1. stake \in [Agents -> Nat]
    BY DEF TypeInv, TypeOK
  <2>2. /\ \A x \in Agents \ {A} : stake[x] = f[x]
        /\ \A x \in Agents \ {B} : f[x] = stake'[x]
        /\ \A x \in Agents : f[x] \in Nat /\ stake[x] \in Nat /\ stake'[x] \in Nat
    BY <1>1, <1>2, <2>1 DEF A, B
  <2>3. f[A] = 0 /\ stake'[B] = 0
    BY <1>1, <1>2, <2>1 DEF A, B
  <2> HIDE DEF f
  <2>4. Total(f, Agents) = Total(stake, Agents) + f[A] - stake[A]
    BY <1>2, <2>2, FiniteKeys, TotalChange
  <2>5. Total(stake', Agents) = Total(f, Agents) + stake'[B] - f[B]
    BY <1>2, <2>2, FiniteKeys, TotalChange
  <2>6. f[B] = stake[B] /\ stake[B] \in Nat /\ stake[A] \in Nat
    BY <1>2, <2>2
  <2> QED BY <2>3, <2>4, <2>5, <2>6, HeldTypes DEF StakesHeld, TypeInv
<1>5. PrizesHeld' = PrizesHeld - prizePool[d]
  <2>1. prizePool \in [DuelIds -> Nat]
    BY DEF TypeInv, TypeOK
  <2>2. prizePool' \in [DuelIds -> Nat]
        /\ \A e \in DuelIds \ {d} : prizePool[e] = prizePool'[e]
    BY <1>1, <2>1
  <2>3. PrizesHeld' = PrizesHeld + prizePool'[d] - prizePool[d]
    BY <2>1, <2>2, FiniteKeys, TotalChange DEF PrizesHeld
  <2>4. prizePool'[d] = 0 /\ prizePool[d] \in Nat
    BY <1>1, <2>1
  <2> QED BY <2>3, <2>4, HeldTypes DEF TypeInv
<1>6. Owed(d)' = Owed(d)
  <2>1. Owed(d) = TotalPool(d) /\ TotalPool(d)' = TotalPool(d)
        /\ TotalPool(d) = pool[d]["A"] + pool[d]["B"]
    BY <1>1 DEF Owed, Live, TotalPool, bookVars
  <2>2. claimed'[d] = {} /\ paidOut'[d] = 0
    BY <1>1 DEF BookInv, Unclaimed, Live, bookVars
  <2>3. \A s \in Sides : /\ pool[d][s] \in Nat
                         /\ betOf[d][s] \in [People -> Nat]
                         /\ pool[d][s] = Total(betOf[d][s], People)
    BY BookFacts DEF TypeInv
  <2>4. PICK s \in Sides : s = WinSide(d)'
    BY DEF WinSide, Sides
  <2>5. PICK t \in Sides : t # s /\ TotalPool(d) = pool[d][s] + pool[d][t]
    <3>1. CASE s = "A"
      BY <2>1, <3>1, SidesAre
    <3>2. CASE s = "B"
      <4>1. TotalPool(d) = pool[d]["B"] + pool[d]["A"]
        BY <2>1, <2>3, SidesAre
      <4> QED BY <3>2, <4>1, SidesAre
    <3> QED BY <3>1, <3>2 DEF Sides
  <2>6. WinningPool(d)' = pool[d][s]
    BY <1>1, <2>4 DEF WinningPool, bookVars
  <2>7. CASE pool[d][s] > 0
    <3>1. Owed(d)' = TotalPool(d) - 0
      BY <1>1, <2>1, <2>2, <2>6, <2>7 DEF Owed
    <3> QED BY <2>1, <2>3, <3>1, SidesAre
  <2>8. CASE pool[d][s] = 0
    <3>1. \A p \in People : betOf[d][s][p] = 0
      BY <2>3, <2>8, FiniteKeys, TotalZero
    <3>2. \A p \in People : OwnBets(d)[p] = betOf[d][t][p]
      BY <2>3, <2>5, <3>1, OwnBetsType, SidesAre DEF Sides, TypeInv
    <3>3. Total(OwnBets(d), People) = pool[d][t]
      BY <2>3, <3>2, TotalEq
    <3>4. OwnBets(d)' = OwnBets(d) /\ People \ claimed'[d] = People
      BY <1>1, <2>2 DEF OwnBets, bookVars
    <3>5. Total(OwnBets(d)', People \ claimed'[d]) = Total(OwnBets(d), People)
      BY <3>4, Zenon
    <3>6. Owed(d)' = Total(OwnBets(d)', People \ claimed'[d])
      BY <1>1, <2>6, <2>8 DEF Owed
    <3>7. TotalPool(d) = pool[d][t]
      BY <2>3, <2>5, <2>8
    <3> QED BY <2>1, <3>3, <3>5, <3>6, <3>7
  <2> QED BY <2>3, <2>7, <2>8
<1>7. \A e \in DuelIds \ {d} : Owed(e)' = Owed(e)
  BY <1>1, OwedSame DEF bookVars
<1>8. PotsHeld' = PotsHeld
  BY <1>6, <1>7, PotsSame
<1>9. EscrowsHeld' = EscrowsHeld
  BY <1>1 DEF EscrowsHeld
<1>10. prizePool[d] \in Nat /\ stake[A] \in Nat /\ stake[B] \in Nat
  BY <1>2 DEF TypeInv, TypeOK
<1>11. Solvent'
  <2> HIDE DEF A, B
  <2> QED BY <1>3, <1>4, <1>5, <1>8, <1>9, <1>10, HeldTypes
          DEF MoneyInv, Solvent, TypeInv
<1>12. FreshEscrows'
  BY <1>1 DEF MoneyInv, FreshEscrows
<1> QED BY <1>11, <1>12 DEF MoneyInv

\* A step that pays out of the pots alone.
LEMMA MoneyPaid ==
  ASSUME TypeInv, BookInv, MoneyInv, NEW n \in Nat,
         usdc'[Contract] = usdc[Contract] - n, PotsHeld' = PotsHeld - n,
         UNCHANGED <<stake, injectionEscrows, injectionCount, prizePool>>
  PROVE  MoneyInv'
<1>1. StakesHeld' = StakesHeld /\ EscrowsHeld' = EscrowsHeld
      /\ PrizesHeld' = PrizesHeld
  BY DEF StakesHeld, EscrowsHeld, PrizesHeld
<1>2. FreshEscrows'
  BY DEF MoneyInv, FreshEscrows
<1> QED BY <1>1, <1>2, HeldTypes DEF MoneyInv, Solvent, TypeInv

LEMMA MoneyClaim ==
  ASSUME TypeInv, BookInv, MoneyInv, TypeOK', BookInv',
         NEW p \in People, NEW d \in DuelIds, claim(p, d)
  PROVE  MoneyInv'
<1> DEFINE n == Payout(d, p)
<1>1. /\ status[d] = "Resolved" /\ p \notin claimed[d]
      /\ n > 0 /\ usdc[Contract] >= n
      /\ usdc' = Moved(Contract, p, n)
      /\ claimed' = [claimed EXCEPT ![d] = claimed[d] \cup {p}]
      /\ UNCHANGED <<status, pool, betOf, winner, agentOf>>
      /\ UNCHANGED <<stake, injectionEscrows, injectionCount, prizePool>>
  BY DEF claim, MarkClaimed, duelVars, agentVars, chaosVars
<1>2. n \in Nat
  BY <1>1, PayoutType DEF TypeInv
<1>3. usdc'[Contract] = usdc[Contract] - n
  <2>1. p # Contract /\ p \in Accounts /\ Contract \in Accounts
    BY NamesAssumption DEF Accounts
  <2> HIDE DEF n
  <2> QED BY <1>1, <1>2, <2>1, MovedType DEF TypeInv
<1>4. /\ claimed'[d] = claimed[d] \cup {p}
      /\ \A e \in DuelIds \ {d} : claimed'[e] = claimed[e]
  BY <1>1 DEF TypeInv, TypeOK
<1>5. WinSide(d)' = WinSide(d) /\ WinningPool(d)' = WinningPool(d)
      /\ TotalPool(d)' = TotalPool(d) /\ OwnBets(d)' = OwnBets(d)
  BY <1>1 DEF WinSide, WinningPool, TotalPool, OwnBets
<1>6. CASE WinningPool(d) = 0
  <2>1. paidOut' = paidOut
    BY <1>6 DEF claim
  <2>2. n = OwnBets(d)[p]
    BY <1>6, OwnBetsType DEF Payout, TypeInv
  <2>3. Owed(d) = Total(OwnBets(d), People \ claimed[d])
    BY <1>1, <1>6 DEF Owed
  <2>4. Owed(d)' = Total(OwnBets(d), People \ claimed'[d])
    <3>1. Owed(d)' = Total(OwnBets(d)', People \ claimed'[d])
      BY <1>1, <1>5, <1>6 DEF Owed
    <3>2. Total(OwnBets(d)', People \ claimed'[d])
            = Total(OwnBets(d), People \ claimed'[d])
      BY <1>5, Zenon
    <3> QED BY <3>1, <3>2
  <2>5. Owed(d) = n + Owed(d)'
    <3> DEFINE f == OwnBets(d)
               S == People \ claimed[d]
    <3>1. S \ {p} = People \ claimed'[d] /\ p \in S /\ IsFiniteSet(S)
      BY <1>1, <1>4, FiniteKeys, FS_Difference
    <3>2. \A y \in S : f[y] \in Nat
      BY OwnBetsType DEF TypeInv
    <3> HIDE DEF f, S, n
    <3>3. Total(f, S) = f[p] + Total(f, S \ {p})
      BY <3>1, <3>2, TotalRemove
    <3>4. Total(f, S \ {p}) = Owed(d)'
      BY <2>4, <3>1, Zenon DEF f
    <3> QED BY <2>2, <2>3, <3>3, <3>4 DEF f, S
  <2> HIDE DEF n
  <2>6. \A e \in DuelIds \ {d} : Owed(e)' = Owed(e)
    BY <1>1, <1>4, <2>1, OwedSame
  <2>7. PotsHeld' = PotsHeld + Owed(d)' - Owed(d)
    BY <2>6, OwedTypes, OwedTypesNext, PotsChange DEF TypeInv
  <2>8. Owed(d)' \in Nat
    BY OwedTypesNext DEF PotsAreNatural
  <2>9. PotsHeld' = PotsHeld - n
    BY <1>2, <2>5, <2>7, <2>8, HeldTypes DEF TypeInv
  <2> QED BY <1>1, <1>2, <1>3, <2>9, MoneyPaid
<1>7. CASE WinningPool(d) # 0
  <2> HIDE DEF n
  <2>1. paidOut' = [paidOut EXCEPT ![d] = paidOut[d] + n]
    BY <1>7 DEF claim, n
  <2>2. paidOut'[d] = paidOut[d] + n /\ paidOut[d] \in Nat
        /\ \A e \in DuelIds \ {d} : paidOut'[e] = paidOut[e]
    BY <2>1 DEF TypeInv, TypeOK
  <2>3. WinningPool(d) > 0 /\ TotalPool(d) \in Nat
    BY <1>7, BookFacts DEF TypeInv
  <2>4. Owed(d) = TotalPool(d) - paidOut[d]
    BY <1>1, <2>3 DEF Owed
  <2>5. Owed(d)' = TotalPool(d) - paidOut'[d]
    BY <1>1, <1>5, <2>3 DEF Owed
  <2>6. Owed(d) = n + Owed(d)'
    <3> DEFINE t == TotalPool(d)
               q == paidOut[d]
               q1 == paidOut'[d]
    <3> HIDE DEF t, q, q1
    <3>1. t \in Nat /\ q \in Nat /\ q1 = q + n
      BY <2>2, <2>3 DEF t, q, q1
    <3>2. t - q = n + (t - q1)
      BY <1>2, <3>1
    <3> QED BY <2>4, <2>5, <3>2 DEF t, q, q1
  <2>7. \A e \in DuelIds \ {d} : Owed(e)' = Owed(e)
    BY <1>1, <1>4, <2>2, OwedSame
  <2>8. PotsHeld' = PotsHeld + Owed(d)' - Owed(d)
    BY <2>7, OwedTypes, OwedTypesNext, PotsChange DEF TypeInv
  <2>9. Owed(d)' \in Nat
    BY OwedTypesNext DEF PotsAreNatural
  <2>10. PotsHeld' = PotsHeld - n
    BY <1>2, <2>6, <2>8, <2>9, HeldTypes DEF TypeInv
  <2> QED BY <1>1, <1>2, <1>3, <2>10, MoneyPaid
<1> QED BY <1>6, <1>7

LEMMA MoneyStep == TypeInv /\ BookInv /\ MoneyInv /\ [Next]_vars => MoneyInv'
<1> SUFFICES ASSUME TypeInv, BookInv, MoneyInv, [Next]_vars PROVE MoneyInv'
  OBVIOUS
<1>0. TypeOK' /\ BookInv'
  BY TypeInvStep, BookStep DEF TypeInv
<1>1. CASE Develop
  BY <1>1, MoneyRegister DEF Develop
<1>2. CASE Announce
  BY <1>2, MoneyCreate DEF Announce
<1>3. CASE Report
  BY <1>3, MoneyReport DEF Report
<1>4. CASE Resolve
  BY <1>0, <1>4, MoneyResolve DEF Resolve
<1>5. CASE Wager
  BY <1>0, <1>5, MoneyBet DEF Wager
<1>6. CASE Inject
  BY <1>6, MoneyInject DEF Inject
<1>7. CASE Sponsor
  BY <1>7, MoneyFund DEF Sponsor
<1>8. CASE Collect
  BY <1>0, <1>8, MoneyClaim DEF Collect
<1>9. CASE Tune
  <2>1. UNCHANGED <<usdc, duelVars, bookVars, agentVars, chaosVars, prizePool>>
    BY <1>9 DEF Tune, setItemPrice, setTreasury, setStakeRequirement,
       setOperatorCutBps, setFailureThreshold, setShieldMinScore, Set
  <2> QED BY <2>1, MoneyKept, PotsUntouched
          DEF duelVars, bookVars, agentVars, chaosVars
<1>10. CASE Tick \/ UNCHANGED vars
  <2>1. UNCHANGED <<usdc, duelVars, bookVars, agentVars, chaosVars, prizePool>>
    BY <1>10 DEF Tick, vars
  <2> QED BY <2>1, MoneyKept, PotsUntouched
          DEF duelVars, bookVars, agentVars, chaosVars
<1> QED
  BY <1>1, <1>2, <1>3, <1>4, <1>5, <1>6, <1>7, <1>8, <1>9, <1>10 DEF Next

\* In every reachable state the contract holds exactly what it owes to
\* developers, sponsors, chaos buyers and bettors.  (the whole contract)
THEOREM ContractIsSolvent == Spec => []Solvent
<1>1. Init => TypeInv /\ BookInv /\ MoneyInv
  BY TypeInit, RosterInit, BookInit, MoneyInit DEF TypeInv
<1>2. TypeInv /\ BookInv /\ MoneyInv /\ [Next]_vars
        => (TypeInv /\ BookInv /\ MoneyInv)'
  BY TypeInvStep, BookStep, MoneyStep
<1>3. TypeInv /\ BookInv /\ MoneyInv => Solvent
  BY DEF MoneyInv
<1> QED BY <1>1, <1>2, <1>3, PTL DEF Spec

-----------------------------------------------------------------------------
(***************************************************************************)
(* No winner loses.                                                        *)
(***************************************************************************)

\* What one duel owes is there to be paid.
LEMMA OwedIsHeld ==
  ASSUME TypeInv, BookInv, MoneyInv, NEW d \in DuelIds
  PROVE  Owed(d) \in Nat /\ Owed(d) <= usdc[Contract]
<1> DEFINE f == [e \in DuelIds |-> Owed(e)]
<1>1. \A e \in DuelIds : f[e] \in Nat /\ f[e] = Owed(e)
  BY OwedTypes DEF PotsAreNatural, TypeInv
<1>2. PotsHeld = Total(f, DuelIds)
  BY DEF PotsHeld
<1> HIDE DEF f
<1>3. f[d] <= PotsHeld
  BY <1>1, <1>2, FiniteKeys, TotalMember
<1>4. Owed(d) \in Nat /\ Owed(d) <= PotsHeld
  BY <1>1, <1>3
<1> QED BY <1>4, HeldTypes DEF MoneyInv, Solvent, TypeInv

LEMMA WinnersAreSafe ==
  ASSUME TypeInv, BookInv, MoneyInv
  PROVE  WinnersKeepTheirStake
<1> SUFFICES ASSUME NEW d \in DuelIds, status[d] = "Resolved",
                    NEW p \in People \ claimed[d]
    PROVE  LET mine == IF WinningPool(d) > 0 THEN betOf[d][WinSide(d)][p]
                       ELSE OwnBets(d)[p]
           IN mine > 0 => /\ Payout(d, p) >= mine
                          /\ usdc[Contract] >= Payout(d, p)
  BY DEF WinnersKeepTheirStake
<1>0. WinningPool(d) \in Nat
  BY BookFacts DEF TypeInv
<1>1. CASE WinningPool(d) > 0
  <2> DEFINE W == WinningPool(d)
             T == TotalPool(d)
             wc == winClaimedStake[d]
             po == paidOut[d]
             m == betOf[d][WinSide(d)][p]
  <2>1. W \in Nat /\ T \in Nat /\ W <= T /\ wc \in Nat /\ po \in Nat
        /\ po * W <= wc * T
    BY BookFacts DEF TypeInv
  <2>2. m \in Nat /\ wc + m <= W
    BY MineIsLeft DEF TypeInv
  <2>3. Payout(d, p) = IF wc + m = W THEN T - po ELSE (m * T) \div W
    BY <1>1 DEF Payout, Sweeps, Share
  <2>4. Owed(d) = T - po
    BY <1>1 DEF Owed
  <2>5. usdc[Contract] \in Nat /\ T - po <= usdc[Contract]
    BY <2>4, OwedIsHeld, HeldTypes DEF TypeInv
  <2>6. W > 0
    BY <1>1
  <2>7. Payout(d, p) >= m /\ usdc[Contract] >= Payout(d, p)
    <3> HIDE DEF W, T, wc, po, m
    <3>1. /\ (m * T) \div W \in Nat
          /\ po + (m * T) \div W <= T
          /\ m <= (m * T) \div W
          /\ wc + m = W => m <= T - po
      BY <2>1, <2>2, <2>6, ClaimArithmetic
    <3>2. CASE wc + m = W
      BY <2>1, <2>2, <2>3, <2>5, <3>1, <3>2
    <3>3. CASE wc + m # W
      BY <2>1, <2>2, <2>3, <2>5, <3>1, <3>3
    <3> QED BY <3>2, <3>3
  <2> QED BY <1>1, <2>7
<1>2. CASE WinningPool(d) = 0
  <2>1. Payout(d, p) = OwnBets(d)[p]
    BY <1>2, OwnBetsType DEF Payout, TypeInv
  <2>2. Owed(d) = Total(OwnBets(d), People \ claimed[d])
    BY <1>2 DEF Owed
  <2>3. OwnBets(d)[p] \in Nat /\ OwnBets(d)[p] <= Owed(d)
    <3>1. IsFiniteSet(People \ claimed[d])
      BY FiniteKeys, FS_Difference
    <3>2. \A y \in People \ claimed[d] : OwnBets(d)[y] \in Nat
      BY OwnBetsType DEF TypeInv
    <3> QED BY <2>2, <3>1, <3>2, TotalMember
  <2>4. usdc[Contract] >= OwnBets(d)[p]
    BY <2>3, OwedIsHeld, HeldTypes DEF TypeInv
  <2> QED BY <1>2, <2>1, <2>3, <2>4
<1> QED BY <1>0, <1>1, <1>2

\* However many claimed before, every winner still gets at least the stake
\* back, and every bettor of a duel nobody won is refunded.  (claim)
THEOREM WinnersNeverLose == Spec => []WinnersKeepTheirStake
<1>1. Init => TypeInv /\ BookInv /\ MoneyInv
  BY TypeInit, RosterInit, BookInit, MoneyInit DEF TypeInv
<1>2. TypeInv /\ BookInv /\ MoneyInv /\ [Next]_vars
        => (TypeInv /\ BookInv /\ MoneyInv)'
  BY TypeInvStep, BookStep, MoneyStep
<1>3. TypeInv /\ BookInv /\ MoneyInv => WinnersKeepTheirStake
  BY WinnersAreSafe
<1> QED BY <1>1, <1>2, <1>3, PTL DEF Spec

-----------------------------------------------------------------------------
(***************************************************************************)
(* The contract's betting is the abstract parimutuel book: every step maps *)
(* to a step of the book of each duel, or leaves that book alone.          *)
(***************************************************************************)

\* Sums in the book are sums here.
LEMMA BookTotal ==
  ASSUME NEW d, NEW f, NEW S
  PROVE  Book(d)!Total(f, S) = Total(f, S)
BY DEF Book!Total, Book!Purse, Book!CoinsOf, Total, Purse, CoinsOf,
       Cardinality, Book!Cardinality, Book!IsFiniteSet, IsFiniteSet

\* What makes resolving a step of a locked book: no duel ends before betting
\* on it has closed.
Timed == \A d \in DuelIds : tradingStartsAt[d] <= endsAt[d]

LEMMA TimedStep == TypeInv /\ Timed /\ [Next]_vars => Timed'
<1> SUFFICES ASSUME TypeInv, Timed, [Next]_vars PROVE Timed'
  OBVIOUS
<1>1. CASE Announce
  <2>1. PICK a, b \in Agents, betting \in BettingPeriods,
             trading \in TradingPeriods : createDuel(a, b, betting, trading)
    BY <1>1 DEF Announce
  <2>2. /\ tradingStartsAt' = [tradingStartsAt EXCEPT
             ![duelCount + 1] = now + betting]
        /\ endsAt' = [endsAt EXCEPT ![duelCount + 1] = now + betting + trading]
    BY <2>1 DEF createDuel
  <2>3. now \in Nat /\ betting \in Nat /\ trading \in Nat
    BY InputsAssumption, BoundsAssumption DEF TypeInv, TypeOK
  <2>4. /\ tradingStartsAt \in [DuelIds -> Nat] /\ endsAt \in [DuelIds -> Nat]
    BY DEF TypeInv, TypeOK
  <2> QED BY <2>2, <2>3, <2>4 DEF Timed
<1>2. CASE ~Announce
  <2>1. CASE Develop \/ Report \/ Resolve \/ Wager
    BY <2>1 DEF Timed, Develop, registerAgent, Report, reportCall, Resolve,
       resolve, Wager, bet, duelVars
  <2>2. CASE Inject \/ Sponsor \/ Collect
    BY <2>2 DEF Timed, Inject, injectChaos, Sponsor, fundPrizePool, Collect,
       claim, duelVars
  <2>3. CASE Tune \/ Tick \/ UNCHANGED vars
    BY <2>3 DEF Timed, Tune, setItemPrice, setTreasury, setStakeRequirement,
       setOperatorCutBps, setFailureThreshold, setShieldMinScore, Set, Tick,
       duelVars, vars
  <2> QED BY <1>2, <2>1, <2>2, <2>3 DEF Next
<1> QED BY <1>1, <1>2

\* A duel whose betting and outcome a step leaves alone.
LEMMA BookRests ==
  ASSUME NEW d \in DuelIds,
         status'[d] = status[d], winner'[d] = winner[d],
         agentOf'[d] = agentOf[d], tradingStartsAt'[d] = tradingStartsAt[d],
         pool'[d] = pool[d], betOf'[d] = betOf[d], claimed'[d] = claimed[d],
         paidOut'[d] = paidOut[d]
  PROVE  /\ PaidTotal(d)' = PaidTotal(d)
         /\ now' = now => Phase(d)' = Phase(d)
         /\ now' = now => [Book(d)!Next]_(Book(d)!bookVars)
<1>1. WinSide(d)' = WinSide(d)
  BY DEF WinSide
<1>2. WinningPool(d)' = WinningPool(d) /\ OwnBets(d)' = OwnBets(d)
  BY <1>1 DEF WinningPool, OwnBets
<1>3. PaidTotal(d)' = PaidTotal(d)
  BY <1>2 DEF PaidTotal
<1>4. now' = now => Phase(d)' = Phase(d)
  BY <1>1 DEF Phase, Live
<1> QED BY <1>3, <1>4 DEF Book!bookVars

\* A step that leaves all of that alone, for every duel, at the same time.
LEMMA BooksRest ==
  ASSUME UNCHANGED <<now, status, winner, agentOf, tradingStartsAt, bookVars>>
  PROVE  \A d \in DuelIds : [Book(d)!Next]_(Book(d)!bookVars)
BY BookRests DEF bookVars

\* Betting may close, with the clock or for want of a betting period.
LEMMA BookLocks ==
  ASSUME NEW d \in DuelIds, UNCHANGED <<betOf[d], claimed[d], PaidTotal(d)>>,
         \/ Phase(d)' = Phase(d)
         \/ Phase(d) = "open" /\ Phase(d)' = "locked"
  PROVE  [Book(d)!Next]_(Book(d)!bookVars)
BY DEF Book!bookVars, Book!Next, Book!Lock

LEMMA TickMaps ==
  ASSUME TypeInv, Tick, NEW d \in DuelIds
  PROVE  [Book(d)!Next]_(Book(d)!bookVars)
<1>1. /\ now' = now + 1 /\ now \in Int /\ tradingStartsAt[d] \in Int
      /\ UNCHANGED <<status, winner, agentOf, tradingStartsAt, bookVars>>
  BY DEF Tick, TypeInv, TypeOK, duelVars
<1>2. PaidTotal(d)' = PaidTotal(d)
  BY <1>1, BookRests DEF bookVars
<1>3. \/ Phase(d)' = Phase(d)
      \/ Phase(d) = "open" /\ Phase(d)' = "locked"
  BY <1>1 DEF Phase, Live, WinSide
<1> QED BY <1>1, <1>2, <1>3, BookLocks DEF bookVars

LEMMA AnnounceMaps ==
  ASSUME TypeInv, BookInv, NEW a \in Agents, NEW b \in Agents,
         NEW betting \in BettingPeriods, NEW trading \in TradingPeriods,
         createDuel(a, b, betting, trading), NEW e \in DuelIds
  PROVE  [Book(e)!Next]_(Book(e)!bookVars)
<1>0. duelCount + 1 \in DuelIds /\ duelCount \in Int
  BY BoundsAssumption DEF TypeInv, TypeOK, createDuel, DuelIds
<1> PICK d \in DuelIds : d = duelCount + 1
  BY <1>0
<1>1. /\ UNCHANGED <<bookVars, winner, now>>
      /\ status' = [status EXCEPT ![d] = "Live"]
      /\ \A c \in DuelIds \ {d} : /\ agentOf'[c] = agentOf[c]
                                  /\ tradingStartsAt'[c] = tradingStartsAt[c]
                                  /\ status'[c] = status[c]
  BY DEF createDuel, TypeInv, TypeOK
<1>2. status[d] = "None" /\ status'[d] = "Live"
  <2>1. ~(d <= duelCount)
    BY <1>0
  <2> QED BY <1>1, <2>1 DEF TypeInv, Roster, Exists, TypeOK
<1>3. CASE e # d
  BY <1>1, <1>3, BookRests DEF bookVars
<1>4. CASE e = d
  <2>1. PaidTotal(d)' = PaidTotal(d)
    BY <1>1, <1>2 DEF PaidTotal, bookVars
  <2>2. Phase(d) = "open" /\ Phase(d)' \in {"open", "locked"}
    BY <1>2 DEF Phase, Live
  <2> QED BY <1>1, <1>4, <2>1, <2>2, BookLocks DEF bookVars
<1> QED BY <1>3, <1>4

LEMMA ResolveMaps ==
  ASSUME TypeInv, BookInv, Timed, NEW d \in DuelIds, resolve(d),
         NEW e \in DuelIds
  PROVE  [Book(e)!Next]_(Book(e)!bookVars)
<1>1. /\ UNCHANGED <<bookVars, agentOf, tradingStartsAt, now>>
      /\ Live(d) /\ Over(d)
      /\ status' = [status EXCEPT ![d] = "Resolved"]
      /\ \A c \in DuelIds \ {d} : winner'[c] = winner[c] /\ status'[c] = status[c]
  BY DEF resolve, MayBeResolved, TypeInv, TypeOK
<1>2. CASE e # d
  BY <1>1, <1>2, BookRests DEF bookVars
<1>3. CASE e = d
  <2>1. Phase(d) = "locked"
    <3>1. now \in Int /\ tradingStartsAt[d] \in Int /\ endsAt[d] \in Int
      BY DEF TypeInv, TypeOK
    <3>2. now >= tradingStartsAt[d]
      BY <1>1, <3>1 DEF Over, Timed
    <3> QED BY <1>1, <3>2 DEF Phase, Live
  <2>2. status'[d] = "Resolved" /\ status[d] = "Live"
    BY <1>1 DEF TypeInv, TypeOK, Live
  <2>3. Phase(d)' \in {"A", "B"}
    BY <2>2 DEF Phase, WinSide
  <2>4. PaidTotal(d)' = PaidTotal(d)
    <3>1. claimed[d] = {} /\ paidOut[d] = 0
      BY <2>2 DEF BookInv, Unclaimed
    <3>2. claimed'[d] = {} /\ paidOut'[d] = 0
      BY <1>1, <3>1 DEF bookVars
    <3>3. PaidTotal(d) = 0
      BY <2>2, <3>1 DEF PaidTotal
    <3>4. PaidTotal(d)' = 0
      <4>1. Total(OwnBets(d)', claimed'[d]) = 0
        BY <3>2, TotalEmpty
      <4> QED BY <3>2, <4>1 DEF PaidTotal
    <3> QED BY <3>3, <3>4
  <2>5. betOf'[d] = betOf[d] /\ claimed'[d] = claimed[d]
    BY <1>1 DEF bookVars
  <2>6. \E s \in {"A", "B"} : Book(d)!Decide(s)
    BY <2>1, <2>3, <2>4, <2>5 DEF Book!Decide
  <2> QED BY <1>3, <2>6 DEF Book!Next
<1> QED BY <1>2, <1>3

LEMMA WagerMaps ==
  ASSUME TypeInv, BookInv, NEW p \in People, NEW d \in DuelIds, NEW s \in Sides,
         NEW n \in BetAmounts, bet(p, d, s, n), NEW e \in DuelIds
  PROVE  [Book(e)!Next]_(Book(e)!bookVars)
<1>1. /\ Live(d) /\ BettingOpen(d) /\ n \in Nat \ {0}
      /\ pool' = [pool EXCEPT ![d][s] = pool[d][s] + n]
      /\ betOf' = [betOf EXCEPT ![d][s][p] = betOf[d][s][p] + n]
      /\ UNCHANGED <<now, duelVars, claimed, paidOut>>
  BY InputsAssumption DEF bet
<1>2. /\ pool \in [DuelIds -> [Sides -> Nat]]
      /\ betOf \in [DuelIds -> [Sides -> [People -> Nat]]]
  BY DEF TypeInv, TypeOK
<1>3. /\ betOf'[d] = [betOf[d] EXCEPT ![s][p] = betOf[d][s][p] + n]
      /\ \A c \in DuelIds \ {d} : betOf'[c] = betOf[c]
  <2>1. betOf[d][s][p] + n \in Nat
    BY <1>1, <1>2
  <2> QED BY <1>1, <1>2, <2>1, Update3
<1>4. \A c \in DuelIds \ {d} : pool'[c] = pool[c]
  <2>1. pool[d][s] + n \in Nat
    BY <1>1, <1>2
  <2> QED BY <1>1, <1>2, <2>1, Update2
<1>5. CASE e # d
  BY <1>1, <1>3, <1>4, <1>5, BookRests DEF duelVars
<1>6. CASE e = d
  <2>1. Phase(d) = "open" /\ Phase(d)' = "open"
    <3>1. now \in Int /\ tradingStartsAt[d] \in Int
      BY DEF TypeInv, TypeOK
    <3> QED BY <1>1, <3>1 DEF Phase, Live, BettingOpen, duelVars
  <2>2. PaidTotal(d)' = PaidTotal(d) /\ claimed'[d] = claimed[d]
    BY <1>1 DEF PaidTotal, Live, duelVars
  <2>3. /\ betOf[d][s] \in [People -> Nat] /\ betOf[d][s][p] \in Nat
        /\ DOMAIN betOf[d] = Sides
    BY <1>2
  <2>4. betOf'[d][s][p] = betOf[d][s][p] + n
    <3>1. betOf'[d][s] = [betOf[d][s] EXCEPT ![p] = betOf[d][s][p] + n]
      BY <1>3, <2>3
    <3> QED BY <2>3, <3>1
  <2>5. betOf'[d][s][p] > betOf[d][s][p]
    BY <1>1, <2>3, <2>4
  <2>6. betOf'[d] = [betOf[d] EXCEPT ![s][p] = betOf'[d][s][p]]
    BY <1>3, <2>4
  <2>7. Book(d)!Place(p, s)
    BY <2>1, <2>2, <2>5, <2>6 DEF Book!Place
  <2> QED BY <1>6, <2>7 DEF Book!Next, Sides
<1> QED BY <1>5, <1>6

\* What the abstract book makes of the pools of a resolved duel.
LEMMA BookIs ==
  ASSUME TypeOK, BookInv, NEW d \in DuelIds, status[d] = "Resolved"
  PROVE  /\ Phase(d) = WinSide(d) /\ Book(d)!Decided
         /\ Book(d)!Staked(Phase(d)) = WinningPool(d)
         /\ Book(d)!Pot = TotalPool(d)
         /\ Book(d)!Refunding <=> WinningPool(d) = 0
<1>1. Phase(d) = WinSide(d) /\ WinSide(d) \in {"A", "B"}
  BY DEF Phase, WinSide
<1>2. \A s \in Sides : Book(d)!Staked(s) = pool[d][s]
  BY BookFacts, BookTotal DEF Book!Staked
<1>3. Book(d)!Staked(WinSide(d)) = WinningPool(d) /\ Book(d)!Pot = TotalPool(d)
  BY <1>2, SidesAre DEF WinningPool, TotalPool, Book!Pot
<1> QED BY <1>1, <1>3 DEF Book!Decided, Book!Refunding

\* Nobody won: the claimant is refunded.
LEMMA RefundMaps ==
  ASSUME TypeInv, BookInv, NEW p \in People, NEW d \in DuelIds, claim(p, d),
         WinningPool(d) = 0
  PROVE  Book(d)!Pay(p)
<1>1. /\ status[d] = "Resolved" /\ p \notin claimed[d] /\ Payout(d, p) > 0
      /\ claimed' = [claimed EXCEPT ![d] = @ \cup {p}]
      /\ UNCHANGED <<now, duelVars, pool, betOf, winClaimedStake, paidOut>>
  BY DEF claim, MarkClaimed
<1>2. claimed'[d] = claimed[d] \cup {p} /\ claimed[d] \in SUBSET People
  BY <1>1 DEF TypeInv, TypeOK
<1>3. /\ Phase(d)' = Phase(d) /\ OwnBets(d)' = OwnBets(d)
      /\ WinningPool(d)' = WinningPool(d) /\ status'[d] = "Resolved"
  BY <1>1 DEF Phase, Live, WinSide, OwnBets, WinningPool, duelVars
<1>4. /\ Book(d)!Decided /\ Book(d)!Refunding
  BY <1>1, BookIs DEF TypeInv
<1>5. /\ \A q \in People :
           OwnBets(d)[q] = betOf[d]["A"][q] + betOf[d]["B"][q]
           /\ OwnBets(d)[q] \in Nat
      /\ Payout(d, p) = OwnBets(d)[p]
  BY OwnBetsType DEF Payout, TypeInv
<1>6. PaidTotal(d)' = PaidTotal(d) + OwnBets(d)[p]
  <2> DEFINE f == OwnBets(d)
             C == claimed[d]
             D == C \cup {p}
  <2>1. /\ PaidTotal(d) = Total(f, C)
        /\ PaidTotal(d)' = Total(OwnBets(d)', claimed'[d])
    BY <1>1, <1>3 DEF PaidTotal
  <2>2. Total(OwnBets(d)', claimed'[d]) = Total(f, D)
    BY <1>2, <1>3, Zenon
  <2>3. /\ IsFiniteSet(C) /\ IsFiniteSet(D) /\ D \ {p} = C /\ p \in D
        /\ \A y \in D : f[y] \in Nat
    <3>1. D \in SUBSET People /\ C \in SUBSET People
      BY <1>2
    <3> QED BY <1>1, <1>5, <3>1, FiniteKeys, FS_Subset
  <2> HIDE DEF f, C, D
  <2>4. Total(f, D) = f[p] + Total(f, D \ {p})
    BY <2>3, TotalRemove
  <2>5. Total(f, C) \in Nat /\ f[p] \in Nat
    BY <2>3, PurseFinite
  <2>6. Total(f, D \ {p}) = Total(f, C)
    BY <2>3, Zenon
  <2>7. PaidTotal(d)' = PaidTotal(d) + f[p]
    BY <2>1, <2>2, <2>4, <2>5, <2>6
  <2> QED BY <2>7 DEF f
<1>7. Book(d)!Entitled(p)
  BY <1>1, <1>4, <1>5 DEF Book!Entitled
<1>8. Book(d)!Refund(p)
  <2>1. PaidTotal(d) \in Nat
    <3>1. PaidTotal(d) = Total(OwnBets(d), claimed[d])
      BY <1>1 DEF PaidTotal
    <3>2. IsFiniteSet(claimed[d])
      BY <1>2, FiniteKeys, FS_Subset
    <3>3. \A y \in claimed[d] : OwnBets(d)[y] \in Nat
      BY <1>2, <1>5
    <3> QED BY <3>1, <3>2, <3>3, PurseFinite
  <2>2. betOf[d]["A"][p] \in Nat /\ betOf[d]["B"][p] \in Nat
    BY SidesAre DEF TypeInv, TypeOK
  <2> QED BY <1>4, <1>5, <1>6, <2>1, <2>2 DEF Book!Refund
<1>9. betOf'[d] = betOf[d]
  BY <1>1
<1> QED BY <1>1, <1>2, <1>3, <1>4, <1>7, <1>8, <1>9 DEF Book!Pay

\* A winner is paid a share of the pot, and the last one what is left of it.
LEMMA ShareMaps ==
  ASSUME TypeInv, BookInv, BookInv', NEW p \in People, NEW d \in DuelIds,
         claim(p, d), WinningPool(d) # 0
  PROVE  Book(d)!Pay(p)
<1> DEFINE W == WinningPool(d)
           T == TotalPool(d)
           f == betOf[d][WinSide(d)]
           wc == winClaimedStake[d]
           po == paidOut[d]
           m == f[p]
           n == Payout(d, p)
           fl == (m * T) \div W
<1>1. /\ status[d] = "Resolved" /\ p \notin claimed[d]
      /\ claimed' = [claimed EXCEPT ![d] = @ \cup {p}]
      /\ UNCHANGED <<now, duelVars, pool, betOf>>
      /\ m # 0
      /\ winClaimedStake' = [winClaimedStake EXCEPT ![d] = @ + m]
      /\ paidOut' = [paidOut EXCEPT ![d] = @ + n]
  BY DEF claim, MarkClaimed
<1>2. /\ claimed'[d] = claimed[d] \cup {p} /\ claimed[d] \in SUBSET People
      /\ winClaimedStake'[d] = wc + m /\ paidOut'[d] = po + n
  <2>1. claimed'[d] = claimed[d] \cup {p} /\ claimed[d] \in SUBSET People
    BY <1>1 DEF TypeInv, TypeOK
  <2> HIDE DEF m, n
  <2>2. winClaimedStake'[d] = wc + m /\ paidOut'[d] = po + n
    BY <1>1 DEF TypeInv, TypeOK
  <2> QED BY <2>1, <2>2
<1>3. /\ Phase(d)' = Phase(d) /\ status'[d] = "Resolved"
      /\ WinSide(d)' = WinSide(d)
      /\ WinningPool(d)' = W /\ TotalPool(d)' = T /\ betOf'[d] = betOf[d]
  BY <1>1 DEF Phase, Live, WinSide, WinningPool, TotalPool, duelVars
<1>4. /\ Book(d)!Decided /\ ~Book(d)!Refunding /\ Phase(d) = WinSide(d)
      /\ Book(d)!Staked(Phase(d)) = W /\ Book(d)!Pot = T
  BY <1>1, BookIs DEF TypeInv
<1>5. /\ W \in Nat /\ T \in Nat /\ W <= T /\ wc \in Nat /\ po \in Nat
      /\ po * W <= wc * T /\ m \in Nat /\ wc + m <= W
      /\ Total(f, claimed[d] \cup {p}) = wc + m
      /\ f \in [People -> Nat] /\ W = Total(f, People)
  <2>1. TypeOK /\ p \in People \ claimed[d]
    BY <1>1 DEF TypeInv
  <2>2. /\ W \in Nat /\ T \in Nat /\ W <= T /\ wc \in Nat /\ po \in Nat
        /\ po * W <= wc * T /\ f \in [People -> Nat] /\ W = Total(f, People)
    BY <2>1, BookFacts, SidesAre DEF WinningPool
  <2>3. /\ m \in Nat /\ wc + m <= W
        /\ Total(f, claimed[d] \cup {p}) = wc + m
    BY <2>1, MineIsLeft
  <2> QED BY <2>2, <2>3
<1>6. n = IF wc + m = W THEN T - po ELSE fl
  BY DEF Payout, Sweeps, Share
<1>7. PaidTotal(d) = po /\ PaidTotal(d)' = po + n
  BY <1>2, <1>3 DEF PaidTotal
<1>8. Book(d)!Entitled(p)
  BY <1>1, <1>4, <1>5 DEF Book!Entitled
<1>9. po + fl <= T /\ fl \in Nat
  <2>1. W > 0
    BY <1>5
  <2> HIDE DEF W, T, wc, po, m
  <2> QED BY <1>5, <2>1, ClaimArithmetic
<1>10. po + n >= po + fl /\ po + n <= T
  <2> HIDE DEF W, T, wc, po, m, n, fl
  <2> QED BY <1>5, <1>6, <1>9
<1>11. ASSUME \A q \in People : Book(d)!Entitled(q) => q \in claimed[d] \cup {p}
       PROVE  po + n = T
  <2>1. \A q \in People \ (claimed[d] \cup {p}) : f[q] = 0
    <3> SUFFICES ASSUME NEW q \in People \ (claimed[d] \cup {p}) PROVE f[q] = 0
      OBVIOUS
    <3>1. ~Book(d)!Entitled(q)
      BY <1>11
    <3>2. ~(f[q] > 0) /\ f[q] \in Nat
      BY <1>4, <1>5, <3>1 DEF Book!Entitled
    <3> QED BY <3>2
  <2>2. Total(f, People) = Total(f, claimed[d] \cup {p})
    <3>1. claimed[d] \cup {p} \in SUBSET People
      BY <1>2
    <3> HIDE DEF f
    <3> QED BY <2>1, <3>1, TotalSupport
  <2>3. wc + m = W
    BY <1>5, <2>2
  <2> HIDE DEF W, T, wc, po, m, n, fl
  <2> QED BY <1>5, <1>6, <2>3
<1>12. Book(d)!Share(p)
  <2>1. (betOf[d][Phase(d)][p] * Book(d)!Pot) \div Book(d)!Staked(Phase(d)) = fl
    BY <1>4
  <2> HIDE DEF f, m, W, T, po, n, fl
  <2> QED BY <1>4, <1>7, <1>10, <1>11, <2>1 DEF Book!Share
<1> QED BY <1>1, <1>2, <1>3, <1>4, <1>8, <1>12 DEF Book!Pay

LEMMA CollectMaps ==
  ASSUME TypeInv, BookInv, BookInv', NEW p \in People, NEW d \in DuelIds,
         claim(p, d), NEW e \in DuelIds
  PROVE  [Book(e)!Next]_(Book(e)!bookVars)
<1>1. CASE e = d
  <2>1. Book(d)!Pay(p)
    BY RefundMaps, ShareMaps
  <2> QED BY <1>1, <2>1 DEF Book!Next
<1>2. CASE e # d
  <2>1. /\ UNCHANGED <<now, duelVars, pool, betOf>>
        /\ claimed' = [claimed EXCEPT ![d] = @ \cup {p}]
        /\ \/ paidOut' = paidOut
           \/ paidOut' = [paidOut EXCEPT ![d] = @ + Payout(d, p)]
    BY DEF claim, MarkClaimed
  <2>2. claimed'[e] = claimed[e] /\ paidOut'[e] = paidOut[e]
    BY <1>2, <2>1 DEF TypeInv, TypeOK
  <2> QED BY <2>1, <2>2, BookRests DEF duelVars
<1> QED BY <1>1, <1>2

LEMMA BooksStart == Init => Timed /\ \A d \in DuelIds : Book(d)!Init
<1> SUFFICES ASSUME Init PROVE Timed /\ \A d \in DuelIds : Book(d)!Init
  OBVIOUS
<1>1. Timed
  BY DEF Init, Timed
<1>2. ASSUME NEW d \in DuelIds PROVE Book(d)!Init
  <2>1. /\ status[d] = "None" /\ claimed[d] = {} /\ paidOut[d] = 0
        /\ betOf[d] = [s \in {"A", "B"} |-> [p \in People |-> 0]]
    BY DEF Init, Sides
  <2> QED BY <2>1 DEF Book!Init, Phase, Live, PaidTotal
<1> QED BY <1>1, <1>2

LEMMA BooksStep ==
  ASSUME TypeInv, BookInv, Timed, Next, NEW d \in DuelIds
  PROVE  [Book(d)!Next]_(Book(d)!bookVars)
<1>0. BookInv'
  BY BookStep
<1>1. CASE Announce
  BY <1>1, AnnounceMaps DEF Announce
<1>2. CASE Resolve
  BY <1>2, ResolveMaps DEF Resolve
<1>3. CASE Wager
  BY <1>3, WagerMaps DEF Wager
<1>4. CASE Collect
  BY <1>0, <1>4, CollectMaps DEF Collect
<1>5. CASE Tick
  BY <1>5, TickMaps
<1>6. CASE Develop \/ Report \/ Inject \/ Sponsor \/ Tune
  <2>1. UNCHANGED <<now, status, winner, agentOf, tradingStartsAt, bookVars>>
    BY <1>6 DEF Develop, registerAgent, Report, reportCall, Inject, injectChaos,
       Sponsor, fundPrizePool, Tune, setItemPrice, setTreasury,
       setStakeRequirement, setOperatorCutBps, setFailureThreshold,
       setShieldMinScore, Set, duelVars
  <2> QED BY <2>1, BooksRest
<1> QED BY <1>1, <1>2, <1>3, <1>4, <1>5, <1>6 DEF Next

\* Whatever happens to the other duels, the prizes and the agents, the betting
\* on each duel is the abstract book: bets while it is open, one decision, and
\* fair payments that never exceed the pot and empty it.  (bet, resolve, claim)
THEOREM BettingIsParimutuel == Spec => ImplementsParimutuel
<1>1. Init => TypeInv /\ BookInv /\ Timed /\ \A d \in DuelIds : Book(d)!Init
  BY TypeInit, RosterInit, BookInit, BooksStart DEF TypeInv
<1>2. TypeInv /\ BookInv /\ Timed /\ [Next]_vars
        => (TypeInv /\ BookInv /\ Timed)'
  BY TypeInvStep, BookStep, TimedStep
<1>3. TypeInv /\ BookInv /\ Timed /\ [Next]_vars =>
        [\A d \in DuelIds : [Book(d)!Next]_(Book(d)!bookVars)]_vars
  BY BooksStep
<1> QED BY <1>1, <1>2, <1>3, PTL DEF Spec, ImplementsParimutuel

-----------------------------------------------------------------------------
(***************************************************************************)
(* Escrows.                                                                *)
(***************************************************************************)
LEMMA OnlyReportsSettle ==
  ASSUME TypeInv, Next, NEW i \in InjectionIds, i <= injectionCount,
         injectionEscrows'[i] # injectionEscrows[i]
  PROVE  Report
<1>1. ASSUME Inject PROVE FALSE
  <2>1. PICK p \in People, d \in DuelIds, a \in Agents, item \in Items :
          injectChaos(p, d, a, item)
    BY <1>1 DEF Inject
  <2> DEFINE n == Escrow(settings.itemPrice[item])
  <2>2. injectionEscrows' = [injectionEscrows EXCEPT ![injectionCount + 1] = n]
    BY <2>1 DEF injectChaos
  <2>3. i # injectionCount + 1
    BY DEF TypeInv, TypeOK, InjectionIds
  <2> HIDE DEF n
  <2> QED BY <2>2, <2>3 DEF TypeInv, TypeOK
<1>2. CASE Develop \/ Announce \/ Resolve \/ Wager
  BY <1>2 DEF Develop, registerAgent, Announce, createDuel, Resolve, resolve, MayBeResolved,
     Wager, bet, chaosVars
<1>3. CASE Sponsor \/ Collect \/ Tune \/ Tick
  BY <1>3 DEF Sponsor, fundPrizePool, Collect, claim, Tune, setItemPrice,
     setTreasury, setStakeRequirement, setOperatorCutBps, setFailureThreshold,
     setShieldMinScore, Set, Tick, chaosVars
<1> QED BY <1>1, <1>2, <1>3 DEF Next

LEMMA SettlesRight ==
  ASSUME TypeInv, NEW d \in DuelIds, NEW a \in Agents,
         NEW j \in 0 .. MaxInjections, NEW r \in Returns,
         NEW ingested \in BOOLEAN, NEW survived \in BOOLEAN,
         NEW failed \in BOOLEAN,
         reportCall(d, a, j, r, ingested, survived, failed),
         NEW i \in InjectionIds, injectionEscrows'[i] # injectionEscrows[i]
  PROVE  /\ injectionTarget[i] = a /\ injectionEscrows'[i] = 0
         /\ \/ /\ usdc'[developer[a]] = usdc[developer[a]] + injectionEscrows[i]
               /\ prizePool' = prizePool
            \/ /\ Live(d) /\ a \in Duelists(d)
               /\ prizePool'[d] = prizePool[d] + injectionEscrows[i]
               /\ usdc' = usdc
<1>1. Settles(j) /\ SettleInjection(d, a, j, survived)
  BY DEF reportCall
<1>2. /\ injectionEscrows' = [injectionEscrows EXCEPT ![j] = 0]
      /\ injectionTarget[j] = a
  BY <1>1 DEF SettleInjection, IsTarget
<1>3. i = j
  BY <1>2 DEF TypeInv, TypeOK
<1>4. injectionEscrows'[i] = 0
  BY <1>2, <1>3 DEF TypeInv, TypeOK
<1>5. Live(d) /\ a \in Duelists(d)
  BY DEF reportCall
<1>6. CASE survived /\ developer[a] # None
  <2>1. /\ usdc' = Moved(Contract, developer[a], injectionEscrows[i])
        /\ prizePool' = prizePool
    BY <1>1, <1>3, <1>6 DEF SettleInjection
  <2>2. /\ developer[a] \in People /\ developer[a] # Contract
        /\ developer[a] \in Accounts /\ usdc \in [Accounts -> Nat]
    BY <1>6, NamesAssumption DEF TypeInv, TypeOK, Accounts
  <2>3. usdc'[developer[a]] = usdc[developer[a]] + injectionEscrows[i]
    BY <2>1, <2>2 DEF Moved
  <2> QED BY <1>2, <1>3, <1>4, <2>1, <2>3
<1>7. CASE ~(survived /\ developer[a] # None)
  <2>1. /\ prizePool' = [prizePool EXCEPT ![d] = @ + injectionEscrows[i]]
        /\ usdc' = usdc
    BY <1>1, <1>3, <1>7 DEF SettleInjection
  <2>2. prizePool'[d] = prizePool[d] + injectionEscrows[i]
    BY <2>1 DEF TypeInv, TypeOK
  <2> QED BY <1>2, <1>3, <1>4, <1>5, <2>1, <2>2
<1> QED BY <1>6, <1>7

\* Chaos money leaves its escrow once, in full, to the developer of the
\* injection's own target or into the prize of a live duel that target fights.
\* (injectChaos, reportCall)
THEOREM EscrowsArriveWhole == Spec => EscrowsReachTheirTarget
<1>1. Init => TypeInv
  BY TypeInit, RosterInit DEF TypeInv
<1>2. TypeInv /\ [Next]_vars => TypeInv'
  BY TypeInvStep
<1> DEFINE Settled(i) ==
      LET a == injectionTarget[i]
      IN i <= injectionCount /\ injectionEscrows'[i] # injectionEscrows[i] =>
           /\ injectionEscrows'[i] = 0
           /\ \/ /\ usdc'[developer[a]] = usdc[developer[a]] + injectionEscrows[i]
                 /\ prizePool' = prizePool
              \/ \E d \in DuelIds :
                   /\ Live(d) /\ a \in Duelists(d)
                   /\ prizePool'[d] = prizePool[d] + injectionEscrows[i]
                   /\ usdc' = usdc
<1>3. TypeInv /\ [Next]_vars => [\A i \in InjectionIds : Settled(i)]_vars
  <2> SUFFICES ASSUME TypeInv, Next, NEW i \in InjectionIds,
                      i <= injectionCount,
                      injectionEscrows'[i] # injectionEscrows[i]
               PROVE  Settled(i)
    OBVIOUS
  <2>1. PICK d \in DuelIds, a \in Agents, j \in 0 .. MaxInjections, r \in Returns,
             ingested, survived, failed \in BOOLEAN :
          reportCall(d, a, j, r, ingested, survived, failed)
    BY OnlyReportsSettle DEF Report
  <2>2. /\ injectionTarget[i] = a /\ injectionEscrows'[i] = 0
        /\ \/ /\ usdc'[developer[a]] = usdc[developer[a]] + injectionEscrows[i]
              /\ prizePool' = prizePool
           \/ /\ Live(d) /\ a \in Duelists(d)
              /\ prizePool'[d] = prizePool[d] + injectionEscrows[i]
              /\ usdc' = usdc
    BY <2>1, SettlesRight
  <2> QED BY <2>2
<1> QED BY <1>1, <1>2, <1>3, PTL DEF Spec, EscrowsReachTheirTarget

-----------------------------------------------------------------------------
(***************************************************************************)
(* The contract never has to refuse for lack of money or of a payee: the   *)
(* safety under EveryDuelResolves.  What a call pays is one of the         *)
(* obligations the balance is the sum of.                                  *)
(***************************************************************************)

\* A duel that is over can be resolved, and the escrow of every injection is
\* there to be settled.
PayoutsAreCovered ==
  /\ \A d \in DuelIds : Live(d) /\ Over(d) => MayBeResolved(d)
  /\ \A i \in InjectionIds : injectionEscrows[i] <= usdc[Contract]

\* Two stakes and one prize pool are in the balance together.
LEMMA BalanceCovers ==
  ASSUME TypeInv, BookInv, MoneyInv, NEW A \in Agents, NEW B \in Agents, A # B,
         NEW d \in DuelIds
  PROVE  stake[A] + stake[B] + prizePool[d] <= usdc[Contract]
<1>1. stake \in [Agents -> Nat] /\ prizePool \in [DuelIds -> Nat]
  BY DEF TypeInv, TypeOK
<1>2. /\ StakesHeld \in Nat /\ EscrowsHeld \in Nat /\ PrizesHeld \in Nat /\ PotsHeld \in Nat
      /\ usdc[Contract] = StakesHeld + EscrowsHeld + PrizesHeld + PotsHeld
  BY HeldTypes DEF MoneyInv, Solvent, TypeInv
<1>3. stake[A] + stake[B] <= StakesHeld
  <2>1. IsFiniteSet(Agents) /\ IsFiniteSet(Agents \ {A}) /\ B \in Agents \ {A}
    BY FiniteKeys, FS_RemoveElement
  <2>2. Total(stake, Agents) = stake[A] + Total(stake, Agents \ {A})
    BY <1>1, <2>1, TotalRemove
  <2>3. stake[B] <= Total(stake, Agents \ {A})
    BY <1>1, <2>1, TotalMember
  <2>4. Total(stake, Agents \ {A}) \in Nat
    BY <1>1, <2>1, PurseFinite
  <2> QED BY <1>1, <2>2, <2>3, <2>4 DEF StakesHeld
<1>4. prizePool[d] <= PrizesHeld
  BY <1>1, FiniteKeys, TotalMember DEF PrizesHeld
<1>5. stake[A] \in Nat /\ stake[B] \in Nat /\ prizePool[d] \in Nat
  BY <1>1
<1> QED BY <1>2, <1>3, <1>4, <1>5

LEMMA CoveredWhenSolvent ==
  TypeInv /\ BookInv /\ MoneyInv => PayoutsAreCovered
<1> SUFFICES ASSUME TypeInv, BookInv, MoneyInv PROVE PayoutsAreCovered
  OBVIOUS
<1>1. ASSUME NEW d \in DuelIds, Live(d), Over(d) PROVE MayBeResolved(d)
  <2> DEFINE A == agentOf[d]["A"]
             B == agentOf[d]["B"]
  <2>1. /\ A \in Agents /\ B \in Agents /\ A # B
        /\ developer[A] # None /\ developer[B] # None
        /\ HandedOut(d) = stake[A] + stake[B] + prizePool[d]
    BY <1>1, HandsOutItsMoney DEF TypeInv
  <2>2. stake[A] + stake[B] + prizePool[d] <= usdc[Contract]
    BY <2>1, BalanceCovers
  <2>3. HandedOut(d) <= usdc[Contract] /\ HandedOut(d) \in Nat /\ usdc[Contract] \in Nat
    BY <1>1, <2>1, <2>2, HandsOutItsMoney DEF TypeInv, TypeOK, Accounts
  <2>4. \A a \in Duelists(d) : developer[a] # None
    BY <2>1 DEF Duelists
  <2> QED BY <1>1, <2>3, <2>4 DEF MayBeResolved
<1>2. ASSUME NEW i \in InjectionIds PROVE injectionEscrows[i] <= usdc[Contract]
  <2>1. /\ StakesHeld \in Nat /\ EscrowsHeld \in Nat /\ PrizesHeld \in Nat /\ PotsHeld \in Nat
        /\ usdc[Contract] = StakesHeld + EscrowsHeld + PrizesHeld + PotsHeld
    BY HeldTypes DEF MoneyInv, Solvent, TypeInv
  <2>2. injectionEscrows \in [InjectionIds -> Nat]
    BY DEF TypeInv, TypeOK
  <2>3. injectionEscrows[i] <= EscrowsHeld /\ injectionEscrows[i] \in Nat
    BY <2>2, FiniteKeys, TotalMember DEF EscrowsHeld
  <2> QED BY <2>1, <2>3
<1> QED BY <1>1, <1>2 DEF PayoutsAreCovered

\* Nothing that happens to other duels, to shared agents, to the settings or to
\* the bettors' claims can keep a duel that is over from being resolved: both
\* payees are there, and the balance covers both stakes and the prize.
\* (resolve, _closeOutStake, reportCall)
THEOREM NothingBlocksAResolve == Spec => []PayoutsAreCovered
<1> DEFINE Inv == TypeInv /\ BookInv /\ MoneyInv
<1>1. Init => Inv
  BY TypeInit, RosterInit, BookInit, MoneyInit DEF TypeInv
<1>2. Inv /\ [Next]_vars => Inv'
  BY TypeInvStep, BookStep, MoneyStep
<1>3. Inv => PayoutsAreCovered
  BY CoveredWhenSolvent
<1> QED BY <1>1, <1>2, <1>3, PTL DEF Spec

\* And only resolve(d) ends duel d, whose end no call can put off.
LiveUntilResolved ==
  [][\A d \in DuelIds : Live(d) =>
       endsAt'[d] = endsAt[d] /\ (Live(d)' \/ resolve(d))]_vars

EndsInTime == \A d \in DuelIds : Live(d) => endsAt[d] <= MaxTime

LEMMA LiveStays ==
  ASSUME TypeInv, [Next]_vars, NEW d \in DuelIds, Live(d)
  PROVE  endsAt'[d] = endsAt[d] /\ (Live(d)' \/ resolve(d))
<1>1. status \in [DuelIds -> Statuses] /\ endsAt \in [DuelIds -> Nat]
  BY DEF TypeInv, TypeOK
<1>2. CASE Announce
  <2>1. PICK a, b \in Agents, betting \in BettingPeriods,
             trading \in TradingPeriods : createDuel(a, b, betting, trading)
    BY <1>2 DEF Announce
  <2>2. d # duelCount + 1
    <3>1. d <= duelCount /\ duelCount \in Nat
      BY DEF TypeInv, TypeOK, Roster, Exists, Live
    <3> QED BY <3>1
  <2>3. \E n : /\ status' = [status EXCEPT ![duelCount + 1] = "Live"]
               /\ endsAt' = [endsAt EXCEPT ![duelCount + 1] = n]
    BY <2>1 DEF createDuel
  <2> QED BY <1>1, <2>2, <2>3 DEF Live
<1>3. CASE Resolve
  <2>1. PICK e \in DuelIds : resolve(e)
    BY <1>3 DEF Resolve
  <2>2. endsAt' = endsAt /\ status' = [status EXCEPT ![e] = "Resolved"]
    BY <2>1 DEF resolve
  <2>3. CASE e = d
    BY <2>1, <2>2, <2>3
  <2>4. CASE e # d
    BY <1>1, <2>2, <2>4 DEF Live
  <2> QED BY <2>3, <2>4
<1>4. CASE ~Announce /\ ~Resolve
  <2>1. endsAt' = endsAt /\ status' = status
    BY <1>4 DEF Next, Develop, registerAgent, Report, reportCall, Wager, bet, Inject,
       injectChaos, Sponsor, fundPrizePool, Collect, claim, Tune, setItemPrice,
       setTreasury, setStakeRequirement, setOperatorCutBps, setFailureThreshold,
       setShieldMinScore, Set, Tick, duelVars, vars
  <2> QED BY <2>1 DEF Live
<1> QED BY <1>2, <1>3, <1>4

LEMMA EndsStep == TypeInv /\ EndsInTime /\ [Next]_vars => EndsInTime'
<1> SUFFICES ASSUME TypeInv, EndsInTime, [Next]_vars, NEW d \in DuelIds, Live(d)'
             PROVE  endsAt'[d] <= MaxTime
  BY DEF EndsInTime
<1>1. CASE Live(d)
  BY <1>1, LiveStays DEF EndsInTime
<1>2. CASE ~Live(d)
  <2>1. status \in [DuelIds -> Statuses] /\ endsAt \in [DuelIds -> Nat]
    BY DEF TypeInv, TypeOK
  <2>2. Announce
    <3>1. status' # status
      BY <1>2 DEF Live
    <3>2. ~Resolve
      <4>1. ASSUME NEW e \in DuelIds, resolve(e) PROVE FALSE
        <5>1. status' = [status EXCEPT ![e] = "Resolved"]
          BY <4>1 DEF resolve
        <5> QED BY <1>2, <2>1, <5>1 DEF Live
      <4> QED BY <4>1 DEF Resolve
    <3> QED BY <3>1, <3>2 DEF Next, Develop, registerAgent, Report, reportCall, Wager, bet,
         Inject, injectChaos, Sponsor, fundPrizePool, Collect, claim, Tune, setItemPrice,
         setTreasury, setStakeRequirement, setOperatorCutBps, setFailureThreshold,
         setShieldMinScore, Set, Tick, duelVars, vars
  <2>3. PICK a, b \in Agents, betting \in BettingPeriods,
             trading \in TradingPeriods : createDuel(a, b, betting, trading)
    BY <2>2 DEF Announce
  <2> DEFINE n == now + betting + trading
  <2>4. /\ status' = [status EXCEPT ![duelCount + 1] = "Live"]
        /\ endsAt' = [endsAt EXCEPT ![duelCount + 1] = n]
        /\ n <= MaxTime
    BY <2>3 DEF createDuel
  <2> HIDE DEF n
  <2>5. d = duelCount + 1
    BY <1>2, <2>1, <2>4 DEF Live
  <2> QED BY <2>1, <2>4, <2>5
<1> QED BY <1>1, <1>2

\* Once announced, a duel comes to its end and waits there for whoever resolves
\* it: no call moves its end or takes it out of the arena in another way.
\* With NothingBlocksAResolve, all that EveryDuelResolves asks beyond this is
\* that time passes and someone calls.  (createDuel, resolve)
THEOREM DuelsWaitForAResolve == Spec => LiveUntilResolved /\ []EndsInTime
<1> DEFINE Inv == TypeInv /\ EndsInTime
           Stays == \A d \in DuelIds : Live(d) =>
                      endsAt'[d] = endsAt[d] /\ (Live(d)' \/ resolve(d))
<1>1. Init => Inv
  BY TypeInit, RosterInit DEF TypeInv, EndsInTime, Init, Live
<1>2. Inv /\ [Next]_vars => Inv'
  BY TypeInvStep, EndsStep
<1>3. Inv /\ [Next]_vars => [Stays]_vars
  BY LiveStays
<1>4. Inv => EndsInTime
  OBVIOUS
<1> QED BY <1>1, <1>2, <1>3, <1>4, PTL DEF Spec, LiveUntilResolved

=============================================================================
