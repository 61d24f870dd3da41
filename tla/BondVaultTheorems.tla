------------------------- MODULE BondVaultTheorems --------------------------
(***************************************************************************)
(* Theorems about BondVault, alone and composed with PerformanceOracle:    *)
(* types, solvency, that nobody profits from a slash, and what a verdict   *)
(* may do.  Every step is one of five kinds: it moves no money, it moves   *)
(* an agent's own money in or out of its bond, it moves a slasher's own    *)
(* money in or out of its counter-bond, or it burns equal parts of a bond  *)
(* and of the slasher's counter-bond, or of its money in hand.             *)
(***************************************************************************)
EXTENDS PerformanceOracleProps, BasicLemmas

\* Coins by which the token balances of x and y change, all others staying.
Shifts(x, dx, y, dy) ==
  /\ usdc'[x] = usdc[x] + dx
  /\ usdc'[y] = usdc[y] + dy
  /\ \A z \in Accounts \ {x, y} : usdc'[z] = usdc[z]

BondShifts(a, d) ==
  /\ balance'[a] = balance[a] + d
  /\ \A b \in Agents \ {a} : balance'[b] = balance[b]

CounterBondShifts(s, d) ==
  /\ counterBonds'[s] = counterBonds[s] + d
  /\ \A t \in Holders \ {s} : counterBonds'[t] = counterBonds[t]

Quiet == UNCHANGED <<usdc, balance, counterBonds>>

MovesBond(a, d) ==
  Shifts(a, -d, Vault, d) /\ BondShifts(a, d) /\ UNCHANGED counterBonds

MovesCollateral(s, d) ==
  Shifts(s, -d, Vault, d) /\ CounterBondShifts(s, d) /\ UNCHANGED balance

BurnsBoth(s, a, n) ==
  Shifts(Vault, -(2 * n), Burn, 2 * n) /\ BondShifts(a, -n)
  /\ CounterBondShifts(s, -n)

\* What a verdict does in one transaction: the counter-bond it posts is burned
\* at once.
BurnsInHand(s, a, n) ==
  /\ usdc'[s] = usdc[s] - n
  /\ usdc'[Vault] = usdc[Vault] - n
  /\ usdc'[Burn] = usdc[Burn] + 2 * n
  /\ \A z \in Accounts \ {s, Vault, Burn} : usdc'[z] = usdc[z]
  /\ BondShifts(a, -n)
  /\ UNCHANGED counterBonds

MoneyStep ==
  \/ Quiet
  \/ \E a \in Agents, d \in Int : MovesBond(a, d)
  \/ \E s \in Holders, d \in Int : MovesCollateral(s, d)
  \/ \E s \in Slashers, a \in Agents, n \in Nat : n > 0 /\ BurnsBoth(s, a, n)
  \/ \E s \in Slashers \ Agents, a \in Agents, n \in Nat :
       n > 0 /\ BurnsInHand(s, a, n)

-----------------------------------------------------------------------------
LEMMA AccountsAre ==
  /\ Agents \subseteq Holders /\ Slashers \subseteq Holders
  /\ Holders \subseteq Accounts /\ Vault \in Accounts /\ Burn \in Accounts
  /\ Vault \notin Holders /\ Burn \notin Holders /\ Vault # Burn
  /\ None \notin Accounts
BY VaultAccounts DEF Holders, Accounts

LEMMA FiniteOwners == IsFiniteSet(Agents) /\ IsFiniteSet(Holders)
BY VaultAccounts, FS_Subset, AccountsAre

\* A transfer the payer can afford.
LEMMA MovedFacts ==
  ASSUME NEW tok \in [Accounts -> Nat], NEW from \in Accounts,
         NEW to \in Accounts, from # to, NEW n \in Nat, tok[from] >= n
  PROVE  /\ Moved(tok, from, to, n) \in [Accounts -> Nat]
         /\ Moved(tok, from, to, n)[from] = tok[from] - n
         /\ Moved(tok, from, to, n)[to] = tok[to] + n
         /\ \A z \in Accounts \ {from, to} : Moved(tok, from, to, n)[z] = tok[z]
<1>1. tok[from] \in Nat /\ tok[to] \in Nat
  OBVIOUS
<1>2. tok[from] - n \in Nat /\ tok[to] + n \in Nat
  BY <1>1
<1> QED BY <1>2 DEF Moved

\* One entry of a purse changes.
LEMMA EntryFacts ==
  ASSUME NEW S, NEW f \in [S -> Nat], NEW x \in S, NEW v \in Nat
  PROVE  /\ [f EXCEPT ![x] = v] \in [S -> Nat]
         /\ [f EXCEPT ![x] = v][x] = v
         /\ \A y \in S \ {x} : [f EXCEPT ![x] = v][y] = f[y]
OBVIOUS

LEMMA TypeInit == VaultInit => VaultTypeOK /\ SelfFunded
<1> SUFFICES ASSUME VaultInit PROVE VaultTypeOK /\ SelfFunded
  OBVIOUS
<1>1. usdc \in [Accounts -> Nat]
  BY VaultAccounts DEF VaultInit
<1>2. SelfFunded
  BY DEF VaultInit, SelfFunded
<1> QED
  BY <1>1, <1>2, VaultAccounts, VaultInputs DEF VaultInit, VaultTypeOK

LEMMA SolventInit == VaultInit => VaultSolvent
<1> SUFFICES ASSUME VaultInit PROVE VaultSolvent
  OBVIOUS
<1>1. (\A a \in Agents : balance[a] = 0) /\ \A s \in Holders : counterBonds[s] = 0
  BY DEF VaultInit
<1>2. BondsHeld = 0
  BY <1>1, FiniteOwners, TotalZero DEF BondsHeld
<1>3. CounterBondsHeld = 0
  BY <1>1, FiniteOwners, TotalZero DEF CounterBondsHeld
<1>4. usdc[Vault] = 0
  BY AccountsAre DEF VaultInit
<1> QED BY <1>2, <1>3, <1>4 DEF VaultSolvent

-----------------------------------------------------------------------------
(***************************************************************************)
(* Each operation: it keeps the types, and it is one of the five kinds.    *)
(***************************************************************************)
LEMMA PostStep ==
  ASSUME VaultTypeOK, SelfFunded, NEW a \in Agents, NEW n \in Amounts, post(a, n)
  PROVE  VaultTypeOK' /\ SelfFunded' /\ MoneyStep
<1>1. n \in Nat /\ a \in Accounts /\ a # Vault /\ Vault \in Accounts
  BY AccountsAre, VaultInputs
<1>2. usdc \in [Accounts -> Nat] /\ usdc[a] >= n /\ usdc' = Moved(usdc, a, Vault, n)
  BY DEF VaultTypeOK, post
<1>3. /\ usdc' \in [Accounts -> Nat]
      /\ usdc'[a] = usdc[a] - n /\ usdc'[Vault] = usdc[Vault] + n
      /\ \A z \in Accounts \ {a, Vault} : usdc'[z] = usdc[z]
  BY <1>1, <1>2, MovedFacts
<1>4. balance[a] + n \in Nat
  BY <1>1 DEF VaultTypeOK
<1>5. balance' \in [Agents -> Nat] /\ BondShifts(a, n)
  BY <1>4, EntryFacts DEF VaultTypeOK, post, BondShifts
<1>6. Shifts(a, -n, Vault, n)
  <2>1. usdc[a] \in Nat
    BY <1>1, <1>2
  <2>2. usdc[a] - n = usdc[a] + (-n)
    BY <1>1, <2>1
  <2> QED BY <1>3, <2>2 DEF Shifts
<1>7. MovesBond(a, n)
  BY <1>5, <1>6 DEF MovesBond, post
<1>8. MoneyStep
  BY <1>1, <1>7 DEF MoneyStep
<1>9. VaultTypeOK'
  BY <1>3, <1>5 DEF VaultTypeOK, post, adminVars
<1>10. SelfFunded'
  BY DEF SelfFunded, post, VaultTypeOK
<1> QED BY <1>8, <1>9, <1>10

\* A whole bond goes home, by release or by rescue.
LEMMA PaidOutStep ==
  ASSUME VaultTypeOK, NEW a \in Agents, PaidOut(a, a), UNCHANGED counterBonds
  PROVE  /\ usdc' \in [Accounts -> Nat] /\ balance' \in [Agents -> Nat]
         /\ MoneyStep
<1> DEFINE n == balance[a]
<1>1. n \in Nat /\ a \in Accounts /\ a # Vault /\ Vault \in Accounts
  BY AccountsAre DEF VaultTypeOK
<1>2. /\ usdc \in [Accounts -> Nat] /\ usdc[Vault] >= n
      /\ usdc' = Moved(usdc, Vault, a, n)
  BY DEF VaultTypeOK, PaidOut
<1>3. balance' \in [Agents -> Nat] /\ balance'[a] = 0
      /\ \A b \in Agents \ {a} : balance'[b] = balance[b]
  <2>1. balance \in [Agents -> Nat] /\ balance' = [balance EXCEPT ![a] = 0]
    BY DEF VaultTypeOK, PaidOut
  <2>2. 0 \in Nat
    OBVIOUS
  <2> QED BY <2>1, <2>2, EntryFacts
<1> HIDE DEF n
<1>4. /\ usdc' \in [Accounts -> Nat]
      /\ usdc'[Vault] = usdc[Vault] - n /\ usdc'[a] = usdc[a] + n
      /\ \A z \in Accounts \ {a, Vault} : usdc'[z] = usdc[z]
  BY <1>1, <1>2, MovedFacts
<1>5. -n \in Int /\ 0 = n + (-n) /\ -(-n) = n
  BY <1>1
<1>6. BondShifts(a, -n)
  BY <1>3, <1>5 DEF BondShifts, n
<1>7. Shifts(a, -(-n), Vault, -n)
  <2>1. usdc[Vault] \in Nat
    BY <1>1, <1>2
  <2>2. usdc[Vault] - n = usdc[Vault] + (-n)
    BY <1>1, <2>1
  <2> QED BY <1>4, <1>5, <2>2 DEF Shifts
<1>8. MovesBond(a, -n)
  BY <1>6, <1>7 DEF MovesBond
<1> QED BY <1>3, <1>4, <1>5, <1>8 DEF MoneyStep

LEMMA ReleaseStep ==
  ASSUME VaultTypeOK, SelfFunded, NEW a \in Agents, release(a)
  PROVE  VaultTypeOK' /\ SelfFunded' /\ MoneyStep
<1>1. PaidOut(a, a) /\ UNCHANGED counterBonds
  BY DEF release
<1>2. usdc' \in [Accounts -> Nat] /\ balance' \in [Agents -> Nat] /\ MoneyStep
  BY <1>1, PaidOutStep
<1>3. VaultTypeOK'
  BY <1>2 DEF VaultTypeOK, release, adminVars, clockVars
<1>4. SelfFunded'
  BY DEF SelfFunded, release, clockVars
<1> QED BY <1>2, <1>3, <1>4

LEMMA RescueStep ==
  ASSUME VaultTypeOK, SelfFunded, NEW caller \in Holders, NEW a \in Agents,
         releaseToOperator(caller, a)
  PROVE  VaultTypeOK' /\ SelfFunded' /\ MoneyStep
<1>1. PaidOut(a, a) /\ UNCHANGED counterBonds
  <2>1. operator[a] = a
    BY DEF releaseToOperator, SelfFunded
  <2> QED BY <2>1 DEF releaseToOperator, Rescued
<1>2. usdc' \in [Accounts -> Nat] /\ balance' \in [Agents -> Nat] /\ MoneyStep
  BY <1>1, PaidOutStep
<1>3. VaultTypeOK'
  BY <1>2 DEF VaultTypeOK, releaseToOperator, adminVars, clockVars
<1>4. SelfFunded'
  BY DEF SelfFunded, releaseToOperator, clockVars
<1> QED BY <1>2, <1>3, <1>4

LEMMA PostCounterBondStep ==
  ASSUME VaultTypeOK, SelfFunded, NEW s \in Holders, NEW n \in Amounts,
         postCounterBond(s, n)
  PROVE  VaultTypeOK' /\ SelfFunded' /\ MoneyStep
<1>1. n \in Nat /\ s \in Accounts /\ s # Vault /\ Vault \in Accounts
  BY AccountsAre, VaultInputs
<1>2. usdc \in [Accounts -> Nat] /\ usdc[s] >= n /\ usdc' = Moved(usdc, s, Vault, n)
  BY DEF VaultTypeOK, postCounterBond
<1>3. /\ usdc' \in [Accounts -> Nat]
      /\ usdc'[s] = usdc[s] - n /\ usdc'[Vault] = usdc[Vault] + n
      /\ \A z \in Accounts \ {s, Vault} : usdc'[z] = usdc[z]
  BY <1>1, <1>2, MovedFacts
<1>4. counterBonds[s] + n \in Nat
  BY <1>1 DEF VaultTypeOK
<1>5. counterBonds' \in [Holders -> Nat] /\ CounterBondShifts(s, n)
  BY <1>4, EntryFacts DEF VaultTypeOK, postCounterBond, CounterBondShifts
<1>6. Shifts(s, -n, Vault, n)
  <2>1. usdc[s] \in Nat
    BY <1>1, <1>2
  <2>2. usdc[s] - n = usdc[s] + (-n)
    BY <1>1, <2>1
  <2> QED BY <1>3, <2>2 DEF Shifts
<1>7. MovesCollateral(s, n)
  BY <1>5, <1>6 DEF MovesCollateral, postCounterBond, bondVars
<1>8. MoneyStep
  BY <1>1, <1>7 DEF MoneyStep
<1>9. VaultTypeOK'
  BY <1>3, <1>5 DEF VaultTypeOK, postCounterBond, adminVars, bondVars, clockVars
<1>10. SelfFunded'
  BY DEF SelfFunded, postCounterBond, bondVars, clockVars
<1> QED BY <1>8, <1>9, <1>10

LEMMA WithdrawCounterBondStep ==
  ASSUME VaultTypeOK, SelfFunded, NEW s \in Holders, NEW n \in Amounts,
         withdrawCounterBond(s, n)
  PROVE  VaultTypeOK' /\ SelfFunded' /\ MoneyStep
<1>1. n \in Nat /\ s \in Accounts /\ s # Vault /\ Vault \in Accounts
      /\ -n \in Int /\ -(-n) = n
  BY AccountsAre, VaultInputs
<1>2. /\ usdc \in [Accounts -> Nat] /\ usdc[Vault] >= n
      /\ usdc' = Moved(usdc, Vault, s, n)
  BY DEF VaultTypeOK, withdrawCounterBond
<1>3. /\ usdc' \in [Accounts -> Nat]
      /\ usdc'[Vault] = usdc[Vault] - n /\ usdc'[s] = usdc[s] + n
      /\ \A z \in Accounts \ {s, Vault} : usdc'[z] = usdc[z]
  BY <1>1, <1>2, MovedFacts
<1>4. counterBonds[s] - n \in Nat /\ counterBonds[s] - n = counterBonds[s] + (-n)
  BY <1>1 DEF VaultTypeOK, withdrawCounterBond
<1>5. counterBonds' \in [Holders -> Nat] /\ CounterBondShifts(s, -n)
  BY <1>4, EntryFacts DEF VaultTypeOK, withdrawCounterBond, CounterBondShifts
<1>6. Shifts(s, -(-n), Vault, -n)
  <2>1. usdc[Vault] \in Nat
    BY <1>1, <1>2
  <2>2. usdc[Vault] - n = usdc[Vault] + (-n)
    BY <1>1, <2>1
  <2> QED BY <1>1, <1>3, <2>2 DEF Shifts
<1>7. MovesCollateral(s, -n)
  BY <1>5, <1>6 DEF MovesCollateral, withdrawCounterBond, bondVars
<1>8. MoneyStep
  BY <1>1, <1>7 DEF MoneyStep
<1>9. VaultTypeOK'
  BY <1>3, <1>5 DEF VaultTypeOK, withdrawCounterBond, adminVars, bondVars, clockVars
<1>10. SelfFunded'
  BY DEF SelfFunded, withdrawCounterBond, bondVars, clockVars
<1> QED BY <1>8, <1>9, <1>10

LEMMA SlashStep ==
  ASSUME VaultTypeOK, SelfFunded, NEW s \in Slashers, NEW a \in Agents,
         NEW n \in Amounts, slash(s, a, n)
  PROVE  VaultTypeOK' /\ SelfFunded' /\ MoneyStep
<1>1. n \in Nat /\ n > 0 /\ 2 * n \in Nat /\ s \in Holders
  BY AccountsAre, VaultInputs DEF slash, MaySlash, Slashed
<1>2. /\ usdc \in [Accounts -> Nat] /\ usdc[Vault] >= 2 * n
      /\ usdc' = Moved(usdc, Vault, Burn, 2 * n)
  BY DEF VaultTypeOK, slash, MaySlash, Slashed
<1>3. /\ usdc' \in [Accounts -> Nat]
      /\ usdc'[Vault] = usdc[Vault] - 2 * n /\ usdc'[Burn] = usdc[Burn] + 2 * n
      /\ \A z \in Accounts \ {Vault, Burn} : usdc'[z] = usdc[z]
  BY <1>1, <1>2, AccountsAre, MovedFacts
<1>4. balance[a] - n \in Nat /\ balance[a] - n = balance[a] + (-n)
  BY <1>1 DEF VaultTypeOK, slash, MaySlash, Slashed
<1>5. balance' \in [Agents -> Nat] /\ BondShifts(a, -n)
  BY <1>4, EntryFacts DEF VaultTypeOK, slash, MaySlash, Slashed, BondShifts
<1>6. counterBonds[s] - n \in Nat /\ counterBonds[s] - n = counterBonds[s] + (-n)
  BY <1>1 DEF VaultTypeOK, slash, MaySlash, Slashed
<1>7. counterBonds' \in [Holders -> Nat] /\ CounterBondShifts(s, -n)
  BY <1>1, <1>6, EntryFacts
     DEF VaultTypeOK, slash, MaySlash, Slashed, Burned, CounterBondShifts
<1>8. Shifts(Vault, -(2 * n), Burn, 2 * n)
  <2>1. usdc[Vault] \in Nat
    BY <1>2, AccountsAre
  <2>2. usdc[Vault] - 2 * n = usdc[Vault] + (-(2 * n))
    BY <1>1, <2>1
  <2> QED BY <1>3, <2>2 DEF Shifts
<1>9. BurnsBoth(s, a, n)
  BY <1>5, <1>7, <1>8 DEF BurnsBoth
<1>10. MoneyStep
  BY <1>1, <1>9 DEF MoneyStep
<1>11. VaultTypeOK'
  BY <1>3, <1>5, <1>7 DEF VaultTypeOK, slash, MaySlash, Slashed, adminVars, clockVars
<1>12. SelfFunded'
  BY DEF SelfFunded, slash, Slashed, clockVars
<1> QED BY <1>10, <1>11, <1>12

LEMMA ApproveStep ==
  ASSUME VaultTypeOK, SelfFunded, NEW s \in Slashers, NEW a \in Agents,
         approveRelease(s, a)
  PROVE  VaultTypeOK' /\ SelfFunded' /\ MoneyStep
<1>1. Quiet
  BY DEF Quiet, approveRelease, Approved
<1>2. VaultTypeOK'
  BY DEF VaultTypeOK, approveRelease, Approved, adminVars, clockVars
<1>3. SelfFunded'
  BY DEF SelfFunded, approveRelease, Approved, clockVars
<1> QED BY <1>1, <1>2, <1>3 DEF MoneyStep

LEMMA PokeStep ==
  ASSUME VaultTypeOK, SelfFunded, NEW a \in Agents, NEW alive \in BOOLEAN,
         pokeActivity(a, alive)
  PROVE  VaultTypeOK' /\ SelfFunded' /\ MoneyStep
<1>1. Quiet
  BY DEF Quiet, pokeActivity
<1>2. VaultTypeOK'
  BY DEF VaultTypeOK, pokeActivity, adminVars
<1>3. SelfFunded'
  BY DEF SelfFunded, pokeActivity
<1> QED BY <1>1, <1>2, <1>3 DEF MoneyStep

LEMMA AdministerStep ==
  ASSUME VaultTypeOK, SelfFunded, Administer
  PROVE  VaultTypeOK' /\ SelfFunded' /\ MoneyStep
<1>1. Quiet
  BY DEF Quiet, Administer, bondVars
<1>2. SelfFunded'
  BY DEF SelfFunded, Administer, bondVars, clockVars
<1>3. /\ oracle' \in Slashers \cup {None}
      /\ activityChecker' \in BOOLEAN /\ paused' \in BOOLEAN
      /\ releaseWindow' \in Nat /\ livenessTimeout' \in Nat
  BY VaultAccounts, VaultInputs
     DEF Administer, setOracle, setActivityChecker, setReleaseWindow,
         setLivenessTimeout, Pause, VaultTypeOK
<1>4. VaultTypeOK'
  BY <1>3 DEF VaultTypeOK, Administer, bondVars, clockVars
<1> QED BY <1>1, <1>2, <1>4 DEF MoneyStep

LEMMA TickStep ==
  ASSUME VaultTypeOK, SelfFunded, Tick
  PROVE  VaultTypeOK' /\ SelfFunded' /\ MoneyStep
<1>1. Quiet
  BY DEF Quiet, Tick, bondVars
<1>2. VaultTypeOK'
  BY DEF VaultTypeOK, Tick, adminVars, bondVars, clockVars
<1>3. SelfFunded'
  BY DEF SelfFunded, Tick, bondVars, clockVars
<1> QED BY <1>1, <1>2, <1>3 DEF MoneyStep

LEMMA EveryStep ==
  ASSUME VaultTypeOK, SelfFunded, [VaultNext]_vaultVars
  PROVE  VaultTypeOK' /\ SelfFunded' /\ MoneyStep
<1>1. CASE Post
  BY <1>1, PostStep DEF Post
<1>2. CASE Release
  BY <1>2, ReleaseStep DEF Release
<1>3. CASE Collateral(Agents \cup Slashers)
  BY <1>3, PostCounterBondStep, WithdrawCounterBondStep DEF Collateral, Holders
<1>4. CASE Judge(Slashers)
  BY <1>4, SlashStep, ApproveStep DEF Judge
<1>5. CASE Poke
  BY <1>5, PokeStep DEF Poke
<1>6. CASE Rescue
  BY <1>6, RescueStep DEF Rescue
<1>7. CASE Administer
  BY <1>7, AdministerStep
<1>8. CASE Tick
  BY <1>8, TickStep
<1>9. CASE UNCHANGED vaultVars
  <2>1. Quiet
    BY <1>9 DEF Quiet, vaultVars, bondVars
  <2>2. VaultTypeOK'
    BY <1>9 DEF VaultTypeOK, vaultVars, adminVars, bondVars, clockVars
  <2>3. SelfFunded'
    BY <1>9 DEF SelfFunded, vaultVars, bondVars, clockVars
  <2> QED BY <2>1, <2>2, <2>3 DEF MoneyStep
<1> QED
  BY <1>1, <1>2, <1>3, <1>4, <1>5, <1>6, <1>7, <1>8, <1>9
     DEF VaultNext, VaultNextBy

-----------------------------------------------------------------------------
(***************************************************************************)
(* What the five kinds do to the totals and to each owner's wealth.        *)
(***************************************************************************)

LEMMA BondsChange ==
  ASSUME VaultTypeOK, VaultTypeOK', NEW a \in Agents, NEW d \in Int,
         BondShifts(a, d)
  PROVE  BondsHeld' = BondsHeld + d /\ BondsHeld \in Nat
<1>1. /\ \A b \in Agents : balance[b] \in Nat /\ balance'[b] \in Nat
      /\ \A b \in Agents \ {a} : balance[b] = balance'[b]
      /\ balance'[a] = balance[a] + d
  BY DEF VaultTypeOK, BondShifts
<1>2. Total(balance', Agents) = Total(balance, Agents) + balance'[a] - balance[a]
  <2> DEFINE f == balance
             g == balance'
  <2> HIDE DEF f, g
  <2>1. \A b \in Agents : f[b] \in Nat /\ g[b] \in Nat
    BY <1>1 DEF f, g
  <2>2. \A b \in Agents \ {a} : f[b] = g[b]
    BY <1>1 DEF f, g
  <2>3. Total(g, Agents) = Total(f, Agents) + g[a] - f[a]
    BY <2>1, <2>2, FiniteOwners, TotalChange
  <2> QED BY <2>3 DEF f, g
<1>3. Total(balance, Agents) \in Nat
  BY <1>1, FiniteOwners, PurseFinite
<1> QED BY <1>1, <1>2, <1>3 DEF BondsHeld

LEMMA CounterBondsChange ==
  ASSUME VaultTypeOK, VaultTypeOK', NEW s \in Holders, NEW d \in Int,
         CounterBondShifts(s, d)
  PROVE  CounterBondsHeld' = CounterBondsHeld + d /\ CounterBondsHeld \in Nat
<1>1. /\ \A t \in Holders : counterBonds[t] \in Nat /\ counterBonds'[t] \in Nat
      /\ \A t \in Holders \ {s} : counterBonds[t] = counterBonds'[t]
      /\ counterBonds'[s] = counterBonds[s] + d
  BY DEF VaultTypeOK, CounterBondShifts
<1>2. Total(counterBonds', Holders)
        = Total(counterBonds, Holders) + counterBonds'[s] - counterBonds[s]
  <2> DEFINE f == counterBonds
             g == counterBonds'
  <2> HIDE DEF f, g
  <2>1. \A t \in Holders : f[t] \in Nat /\ g[t] \in Nat
    BY <1>1 DEF f, g
  <2>2. \A t \in Holders \ {s} : f[t] = g[t]
    BY <1>1 DEF f, g
  <2>3. Total(g, Holders) = Total(f, Holders) + g[s] - f[s]
    BY <2>1, <2>2, FiniteOwners, TotalChange
  <2> QED BY <2>3 DEF f, g
<1>3. Total(counterBonds, Holders) \in Nat
  BY <1>1, FiniteOwners, PurseFinite
<1> QED BY <1>1, <1>2, <1>3 DEF CounterBondsHeld

LEMMA HeldAreNatural ==
  ASSUME VaultTypeOK
  PROVE  BondsHeld \in Nat /\ CounterBondsHeld \in Nat /\ usdc[Vault] \in Nat
<1>1. BondsHeld \in Nat
  BY FiniteOwners, PurseFinite DEF VaultTypeOK, BondsHeld
<1>2. CounterBondsHeld \in Nat
  BY FiniteOwners, PurseFinite DEF VaultTypeOK, CounterBondsHeld
<1> QED BY <1>1, <1>2, AccountsAre DEF VaultTypeOK

LEMMA SolventNext ==
  ASSUME VaultTypeOK, VaultTypeOK', VaultSolvent, MoneyStep
  PROVE  VaultSolvent'
<1> USE HeldAreNatural
<1>1. CASE Quiet
  BY <1>1 DEF Quiet, VaultSolvent, BondsHeld, CounterBondsHeld
<1>2. ASSUME NEW a \in Agents, NEW d \in Int, MovesBond(a, d)
      PROVE  VaultSolvent'
  <2>1. BondsHeld' = BondsHeld + d
    BY <1>2, BondsChange DEF MovesBond
  <2>2. CounterBondsHeld' = CounterBondsHeld
    BY <1>2 DEF MovesBond, CounterBondsHeld
  <2>3. usdc'[Vault] = usdc[Vault] + d
    BY <1>2 DEF MovesBond, Shifts
  <2> QED BY <2>1, <2>2, <2>3 DEF VaultSolvent
<1>3. ASSUME NEW s \in Holders, NEW d \in Int, MovesCollateral(s, d)
      PROVE  VaultSolvent'
  <2>1. CounterBondsHeld' = CounterBondsHeld + d
    BY <1>3, CounterBondsChange DEF MovesCollateral
  <2>2. BondsHeld' = BondsHeld
    BY <1>3 DEF MovesCollateral, BondsHeld
  <2>3. usdc'[Vault] = usdc[Vault] + d
    BY <1>3 DEF MovesCollateral, Shifts
  <2> QED BY <2>1, <2>2, <2>3 DEF VaultSolvent
<1>4. ASSUME NEW s \in Slashers, NEW a \in Agents, NEW n \in Nat,
             BurnsBoth(s, a, n)
      PROVE  VaultSolvent'
  <2>1. -n \in Int /\ s \in Holders
    BY AccountsAre
  <2>2. BondsHeld' = BondsHeld + (-n)
    BY <1>4, <2>1, BondsChange DEF BurnsBoth
  <2>3. CounterBondsHeld' = CounterBondsHeld + (-n)
    BY <1>4, <2>1, CounterBondsChange DEF BurnsBoth
  <2>4. usdc'[Vault] = usdc[Vault] + (-(2 * n))
    BY <1>4 DEF BurnsBoth, Shifts
  <2> QED BY <2>2, <2>3, <2>4 DEF VaultSolvent
<1>5. ASSUME NEW s \in Slashers, NEW a \in Agents, NEW n \in Nat,
             BurnsInHand(s, a, n)
      PROVE  VaultSolvent'
  <2>1. BondsHeld' = BondsHeld + (-n)
    BY <1>5, BondsChange DEF BurnsInHand
  <2>2. CounterBondsHeld' = CounterBondsHeld
    BY <1>5 DEF BurnsInHand, CounterBondsHeld
  <2>3. usdc'[Vault] = usdc[Vault] - n
    BY <1>5 DEF BurnsInHand
  <2> QED BY <2>1, <2>2, <2>3 DEF VaultSolvent
<1> QED BY <1>1, <1>2, <1>3, <1>4, <1>5 DEF MoneyStep

LEMMA WealthIs ==
  ASSUME VaultTypeOK, NEW x \in Holders
  PROVE  /\ usdc[x] \in Nat /\ counterBonds[x] \in Nat /\ BondOf(x) \in Nat
         /\ usdc[Burn] \in Nat
BY AccountsAre DEF VaultTypeOK, BondOf

LEMMA WealthChange ==
  ASSUME VaultTypeOK, VaultTypeOK', NEW x \in Holders, NEW d \in Int
  PROVE  /\ usdc'[x] = usdc[x] - d /\ BondOf(x)' = BondOf(x) + d
            /\ counterBonds'[x] = counterBonds[x] => Wealth(x) - Wealth(x)' = 0
         /\ usdc'[x] = usdc[x] - d /\ BondOf(x)' = BondOf(x)
            /\ counterBonds'[x] = counterBonds[x] + d
            => Wealth(x) - Wealth(x)' = 0
<1> DEFINE u == usdc[x]
           b == BondOf(x)
           c == counterBonds[x]
           u2 == usdc'[x]
           b2 == BondOf(x)'
           c2 == counterBonds'[x]
<1>1. u \in Nat /\ b \in Nat /\ c \in Nat
  BY WealthIs
<1>2. u2 \in Nat /\ b2 \in Nat /\ c2 \in Nat
  BY AccountsAre DEF VaultTypeOK, BondOf
<1>3. Wealth(x) = u + b + c /\ Wealth(x)' = u2 + b2 + c2
  BY DEF Wealth
<1> HIDE DEF u, b, c, u2, b2, c2
<1>4. /\ u2 = u - d /\ b2 = b + d /\ c2 = c => (u + b + c) - (u2 + b2 + c2) = 0
      /\ u2 = u - d /\ b2 = b /\ c2 = c + d => (u + b + c) - (u2 + b2 + c2) = 0
  BY <1>1, <1>2
<1> QED BY <1>3, <1>4 DEF u, b, c, u2, b2, c2

\* A holder none of whose balances move keeps its wealth.
LEMMA WealthSame ==
  ASSUME VaultTypeOK, NEW x \in Holders, usdc'[x] = usdc[x],
         x \in Agents => balance'[x] = balance[x],
         counterBonds'[x] = counterBonds[x]
  PROVE  Wealth(x) - Wealth(x)' = 0
<1>1. Wealth(x)' = Wealth(x)
  BY DEF Wealth, BondOf
<1>2. Wealth(x) \in Int
  BY WealthIs DEF Wealth
<1> QED BY <1>1, <1>2

LEMMA ProfitNext ==
  ASSUME VaultTypeOK, VaultTypeOK', MoneyStep
  PROVE  LET burned == usdc'[Burn] - usdc[Burn]
             loss(x) == Wealth(x) - Wealth(x)'
         IN IF burned = 0 THEN \A x \in Holders : loss(x) = 0
            ELSE \E s \in Slashers, a \in Agents :
                   /\ \A x \in Holders \ {s, a} : loss(x) = 0
                   /\ burned > 0
                   /\ IF s = a THEN loss(s) = burned
                      ELSE 2 * loss(s) = burned /\ 2 * loss(a) = burned
<1> DEFINE burned == usdc'[Burn] - usdc[Burn]
           loss(x) == Wealth(x) - Wealth(x)'
           Kept == burned = 0 /\ \A x \in Holders : loss(x) = 0
<1>0. usdc[Burn] \in Nat
  BY AccountsAre DEF VaultTypeOK
<1>1. CASE Quiet
  <2>1. \A x \in Holders : loss(x) = 0
    BY <1>1, WealthSame DEF Quiet
  <2>2. burned = 0
    BY <1>0, <1>1 DEF Quiet
  <2> QED BY <2>1, <2>2
<1>2. ASSUME NEW a \in Agents, NEW d \in Int, MovesBond(a, d) PROVE Kept
  <2>1. burned = 0
    <3>1. usdc'[Burn] = usdc[Burn]
      BY <1>2, AccountsAre DEF MovesBond, Shifts
    <3> QED BY <1>0, <3>1
  <2>2. ASSUME NEW x \in Holders, x # a PROVE loss(x) = 0
    <3>1. usdc'[x] = usdc[x] /\ (x \in Agents => balance'[x] = balance[x])
          /\ counterBonds'[x] = counterBonds[x]
      BY <1>2, <2>2, AccountsAre DEF MovesBond, Shifts, BondShifts
    <3> QED BY <3>1, WealthSame
  <2>3. loss(a) = 0
    <3>1. a \in Holders /\ usdc[a] \in Nat
      BY AccountsAre DEF VaultTypeOK
    <3>2. usdc[a] + (-d) = usdc[a] - d
      BY <3>1
    <3>3. usdc'[a] = usdc[a] - d /\ BondOf(a)' = BondOf(a) + d
          /\ counterBonds'[a] = counterBonds[a]
      BY <1>2, <3>2 DEF MovesBond, Shifts, BondShifts, BondOf
    <3> QED BY <3>1, <3>3, WealthChange
  <2> QED BY <2>1, <2>2, <2>3
<1>3. ASSUME NEW s \in Holders, NEW d \in Int, MovesCollateral(s, d) PROVE Kept
  <2>1. burned = 0
    <3>1. usdc'[Burn] = usdc[Burn]
      BY <1>3, AccountsAre DEF MovesCollateral, Shifts
    <3> QED BY <1>0, <3>1
  <2>2. ASSUME NEW x \in Holders, x # s PROVE loss(x) = 0
    <3>1. usdc'[x] = usdc[x] /\ (x \in Agents => balance'[x] = balance[x])
          /\ counterBonds'[x] = counterBonds[x]
      BY <1>3, <2>2, AccountsAre DEF MovesCollateral, Shifts, CounterBondShifts
    <3> QED BY <3>1, WealthSame
  <2>3. loss(s) = 0
    <3>1. usdc[s] \in Nat
      BY AccountsAre DEF VaultTypeOK
    <3>2. usdc[s] + (-d) = usdc[s] - d
      BY <3>1
    <3>3. usdc'[s] = usdc[s] - d /\ BondOf(s)' = BondOf(s)
          /\ counterBonds'[s] = counterBonds[s] + d
      BY <1>3, <3>2 DEF MovesCollateral, Shifts, CounterBondShifts, BondOf
    <3> QED BY <3>3, WealthChange
  <2> QED BY <2>1, <2>2, <2>3
<1>4. ASSUME NEW s \in Slashers, NEW a \in Agents, NEW n \in Nat, n > 0,
             BurnsBoth(s, a, n)
      PROVE  /\ \A x \in Holders \ {s, a} : loss(x) = 0
             /\ burned > 0
             /\ IF s = a THEN loss(s) = burned
                ELSE 2 * loss(s) = burned /\ 2 * loss(a) = burned
  <2>1. burned = 2 * n
    <3>1. usdc'[Burn] = usdc[Burn] + 2 * n
      BY <1>4 DEF BurnsBoth, Shifts
    <3> QED BY <1>0, <3>1
  <2>2. \A x \in Holders : usdc'[x] = usdc[x]
    BY <1>4, AccountsAre DEF BurnsBoth, Shifts
  <2>3. ASSUME NEW x \in Holders \ {s, a} PROVE loss(x) = 0
    <3>1. (x \in Agents => balance'[x] = balance[x])
          /\ counterBonds'[x] = counterBonds[x]
      BY <1>4, <2>3 DEF BurnsBoth, BondShifts, CounterBondShifts
    <3> QED BY <2>2, <3>1, WealthSame
  <2>4. s \in Holders /\ a \in Holders
    BY AccountsAre
  <2>5. /\ balance'[a] = balance[a] + (-n)
        /\ (s # a /\ s \in Agents => balance'[s] = balance[s])
        /\ counterBonds'[s] = counterBonds[s] + (-n)
        /\ (s # a => counterBonds'[a] = counterBonds[a])
    BY <1>4, <2>4 DEF BurnsBoth, BondShifts, CounterBondShifts
  <2>6. CASE s = a
    <3>1. BondOf(s)' = BondOf(s) + (-n)
      BY <2>5, <2>6 DEF BondOf
    <3>2. loss(s) = 2 * n
      BY <2>2, <2>4, <2>5, <3>1, WealthIs DEF Wealth
    <3> QED BY <1>4, <2>1, <2>3, <2>6, <3>2
  <2>7. CASE s # a
    <3>1. BondOf(s)' = BondOf(s) /\ BondOf(a)' = BondOf(a) + (-n)
      BY <2>5, <2>7 DEF BondOf
    <3>2. loss(s) = n
      BY <2>2, <2>4, <2>5, <3>1, WealthIs DEF Wealth
    <3>3. loss(a) = n
      BY <2>2, <2>4, <2>5, <2>7, <3>1, WealthIs DEF Wealth
    <3> QED BY <1>4, <2>1, <2>3, <2>7, <3>2, <3>3
  <2> QED BY <2>6, <2>7
<1>5. CASE Kept
  BY <1>5
<1>6. CASE \E s \in Slashers, a \in Agents, n \in Nat : n > 0 /\ BurnsBoth(s, a, n)
  <2>1. PICK s \in Slashers, a \in Agents, n \in Nat : n > 0 /\ BurnsBoth(s, a, n)
    BY <1>6
  <2>2. /\ \A x \in Holders \ {s, a} : loss(x) = 0
        /\ burned > 0
        /\ IF s = a THEN loss(s) = burned
           ELSE 2 * loss(s) = burned /\ 2 * loss(a) = burned
    BY <1>4, <2>1
  <2>3. burned # 0
    BY <2>2
  <2> HIDE DEF burned, loss
  <2>4. IF burned = 0 THEN \A x \in Holders : loss(x) = 0
        ELSE \E s1 \in Slashers, a1 \in Agents :
               /\ \A x \in Holders \ {s1, a1} : loss(x) = 0
               /\ burned > 0
               /\ IF s1 = a1 THEN loss(s1) = burned
                  ELSE 2 * loss(s1) = burned /\ 2 * loss(a1) = burned
    BY <2>2, <2>3
  <2> QED BY <2>4 DEF burned, loss
<1>7. CASE \E s \in Slashers \ Agents, a \in Agents, n \in Nat :
             n > 0 /\ BurnsInHand(s, a, n)
  <2>1. PICK s \in Slashers \ Agents, a \in Agents, n \in Nat :
               n > 0 /\ BurnsInHand(s, a, n)
    BY <1>7
  <2>2. burned = 2 * n
    <3>1. usdc'[Burn] = usdc[Burn] + 2 * n
      BY <2>1 DEF BurnsInHand
    <3> QED BY <1>0, <3>1
  <2>3. s \in Holders /\ a \in Holders /\ s # a
    BY AccountsAre
  <2>4. ASSUME NEW x \in Holders \ {s, a} PROVE loss(x) = 0
    <3>1. usdc'[x] = usdc[x] /\ (x \in Agents => balance'[x] = balance[x])
          /\ counterBonds'[x] = counterBonds[x]
      BY <2>1, <2>4, AccountsAre DEF BurnsInHand, BondShifts
    <3> QED BY <3>1, WealthSame
  <2>5. /\ usdc'[s] = usdc[s] - n /\ usdc'[a] = usdc[a]
        /\ balance'[a] = balance[a] + (-n)
        /\ counterBonds'[s] = counterBonds[s]
        /\ counterBonds'[a] = counterBonds[a]
    BY <2>1, <2>3, AccountsAre DEF BurnsInHand, BondShifts
  <2>6. BondOf(s)' = BondOf(s) /\ BondOf(a)' = BondOf(a) + (-n)
    BY <2>5 DEF BondOf
  <2>7. loss(s) = n
    BY <2>3, <2>5, <2>6, WealthIs DEF Wealth
  <2>8. loss(a) = n
    BY <2>3, <2>5, <2>6, WealthIs DEF Wealth
  <2>9. burned > 0 /\ burned # 0 /\ 2 * loss(s) = burned /\ 2 * loss(a) = burned
    BY <2>1, <2>2, <2>7, <2>8
  <2> HIDE DEF burned, loss
  <2>10. IF burned = 0 THEN \A x \in Holders : loss(x) = 0
         ELSE \E s1 \in Slashers, a1 \in Agents :
                /\ \A x \in Holders \ {s1, a1} : loss(x) = 0
                /\ burned > 0
                /\ IF s1 = a1 THEN loss(s1) = burned
                   ELSE 2 * loss(s1) = burned /\ 2 * loss(a1) = burned
    BY <2>3, <2>4, <2>9
  <2> QED BY <2>10 DEF burned, loss
<1> QED BY <1>1, <1>2, <1>3, <1>5, <1>6, <1>7 DEF MoneyStep

-----------------------------------------------------------------------------
\* Every reachable state of the vault is well typed, and a bond can only go
\* back to the agent that posted it.  (every operation of BondVault.sol)
THEOREM VaultTypeCorrect == VaultSpec => [](VaultTypeOK /\ SelfFunded)
<1>1. (VaultTypeOK /\ SelfFunded) /\ [VaultNext]_vaultVars
        => (VaultTypeOK /\ SelfFunded)'
  BY EveryStep
<1> QED BY <1>1, TypeInit, PTL DEF VaultSpec

\* The vault holds exactly the bonds and the counter-bonds, for any number of
\* agents, slashers and amounts.  (post, release, slash, withdrawCounterBond)
THEOREM VaultIsSolvent == VaultSpec => []VaultSolvent
<1>1. VaultTypeOK /\ SelfFunded /\ VaultTypeOK' /\ VaultSolvent
      /\ [VaultNext]_vaultVars => VaultSolvent'
  BY EveryStep, SolventNext
<1> QED BY <1>1, SolventInit, VaultTypeCorrect, PTL DEF VaultSpec

\* No step of the vault makes anybody richer, and only a slash makes anybody
\* poorer: agent and slasher by the same amount.  (slash, releaseToOperator)
THEOREM NobodyEverProfits == VaultSpec => NobodyProfits
<1>1. VaultTypeOK /\ SelfFunded /\ VaultTypeOK' /\ [VaultNext]_vaultVars
        => [LET burned == usdc'[Burn] - usdc[Burn]
                loss(x) == Wealth(x) - Wealth(x)'
            IN IF burned = 0 THEN \A x \in Holders : loss(x) = 0
               ELSE \E s \in Slashers, a \in Agents :
                      /\ \A x \in Holders \ {s, a} : loss(x) = 0
                      /\ burned > 0
                      /\ IF s = a THEN loss(s) = burned
                         ELSE 2 * loss(s) = burned /\ 2 * loss(a) = burned]_vaultVars
  BY EveryStep, ProfitNext
<1> QED BY <1>1, VaultTypeCorrect, PTL DEF VaultSpec, NobodyProfits

-----------------------------------------------------------------------------
(***************************************************************************)
(* The vault composed with PerformanceOracle, which posts a counter-bond   *)
(* only inside resolve and burns it there.                                 *)
(***************************************************************************)
Advised ==
  [direction : {1, -1}, p0 : Int, expo : Int, recordedAt : Nat,
   horizonSecs : Nat, slashThresholdBps : Nat, slashAmount : Nat,
   exists : BOOLEAN, resolved : BOOLEAN, slashed : BOOLEAN]

\* The contract never leaves a counter-bond in the vault.
NothingPosted == counterBonds[PerfOracle] = 0

\* The inductive invariant of the composed specification.
VerdictInv ==
  /\ VaultTypeOK /\ SelfFunded
  /\ advice \in [Agents -> Advised]
  /\ NothingPosted

LEMMA PerfOracleIs ==
  /\ PerfOracle \in Slashers \ Agents /\ PerfOracle \in Holders
  /\ PerfOracle \in Accounts /\ PerfOracle # Vault /\ PerfOracle # Burn
BY OracleAssumption, AccountsAre

\* The top-up is the whole slash, and the slash takes all of it.
LEMMA SlashAsOracleStep ==
  ASSUME VerdictInv, NEW a \in Agents, MaySlashAsOracle(a), SlashAsOracle(a),
         UNCHANGED <<now, adminVars>>
  PROVE  /\ advice[a].slashAmount \in Nat /\ advice[a].slashAmount > 0
         /\ BurnsInHand(PerfOracle, a, advice[a].slashAmount)
         /\ VaultTypeOK' /\ SelfFunded'
<1> DEFINE n == advice[a].slashAmount
           cb == [counterBonds EXCEPT ![PerfOracle] = @ + n]
           tok == Moved(usdc, PerfOracle, Vault, n)
<1>1. /\ advice[a] \in Advised /\ counterBonds[PerfOracle] = 0 /\ VaultTypeOK
      /\ SelfFunded
  BY DEF VerdictInv, NothingPosted
<1>2. n \in Nat
  BY <1>1 DEF Advised
<1>3. n # 0
  BY DEF MaySlashAsOracle, MaySlash
<1>4. n > 0 /\ 0 < n /\ n - 0 = n
  BY <1>2, <1>3
<1>5. Shortfall(a) = n
  BY <1>1, <1>4 DEF Shortfall
<1>6. /\ usdc[PerfOracle] >= n
      /\ MaySlash(cb, tok, PerfOracle, a, n)
      /\ Slashed(cb, tok, PerfOracle, a, n)
  BY <1>4, <1>5 DEF MaySlashAsOracle, SlashAsOracle, ToppedUp, PaidIn
<1> HIDE DEF n
<1>7. /\ balance[a] >= n /\ tok[Vault] >= 2 * n
      /\ balance' = [balance EXCEPT ![a] = @ - n]
      /\ counterBonds' = [cb EXCEPT ![PerfOracle] = @ - n]
      /\ usdc' = Moved(tok, Vault, Burn, 2 * n)
      /\ UNCHANGED <<clockVars, oracleApprovedRelease>>
  BY <1>6 DEF MaySlash, Slashed, Burned
<1>8. /\ usdc \in [Accounts -> Nat] /\ balance \in [Agents -> Nat]
      /\ counterBonds \in [Holders -> Nat]
  BY <1>1 DEF VaultTypeOK
<1>9. /\ tok \in [Accounts -> Nat]
      /\ tok[PerfOracle] = usdc[PerfOracle] - n /\ tok[Vault] = usdc[Vault] + n
      /\ \A z \in Accounts \ {PerfOracle, Vault} : tok[z] = usdc[z]
  BY <1>2, <1>6, <1>8, PerfOracleIs, AccountsAre, MovedFacts
<1> HIDE DEF tok
<1>10. 2 * n \in Nat
  BY <1>2
<1>11. /\ usdc' \in [Accounts -> Nat]
       /\ usdc'[Vault] = tok[Vault] - 2 * n /\ usdc'[Burn] = tok[Burn] + 2 * n
       /\ \A z \in Accounts \ {Vault, Burn} : usdc'[z] = tok[z]
  BY <1>7, <1>9, <1>10, AccountsAre, MovedFacts
<1>12. counterBonds' = counterBonds
  <2>1. cb = [counterBonds EXCEPT ![PerfOracle] = 0 + n]
    BY <1>1
  <2>2. 0 + n = n /\ n - n = 0
    BY <1>2
  <2>3. cb = [counterBonds EXCEPT ![PerfOracle] = n] /\ cb[PerfOracle] = n
    BY <1>8, <2>1, <2>2, PerfOracleIs
  <2>4. counterBonds' = [cb EXCEPT ![PerfOracle] = 0]
    BY <1>7, <2>2, <2>3
  <2> QED BY <1>1, <1>8, <2>3, <2>4, PerfOracleIs
<1>13. balance[a] - n \in Nat /\ balance[a] - n = balance[a] + (-n)
  BY <1>2, <1>7, <1>8
<1>14. balance' \in [Agents -> Nat] /\ BondShifts(a, -n)
  BY <1>7, <1>8, <1>13, EntryFacts DEF BondShifts
<1>15. usdc'[Vault] = usdc[Vault] - n
  <2>1. usdc[Vault] \in Nat
    BY <1>8, AccountsAre
  <2> QED BY <1>2, <1>9, <1>11, <2>1
<1>16. BurnsInHand(PerfOracle, a, n)
  BY <1>9, <1>11, <1>12, <1>14, <1>15, PerfOracleIs, AccountsAre DEF BurnsInHand
<1>17. VaultTypeOK'
  BY <1>1, <1>7, <1>8, <1>11, <1>12, <1>14 DEF VaultTypeOK, adminVars, clockVars
<1>18. SelfFunded'
  BY <1>1, <1>7 DEF SelfFunded, clockVars
<1> QED BY <1>2, <1>4, <1>16, <1>17, <1>18 DEF n

LEMMA ApprovedStep ==
  ASSUME VaultTypeOK, SelfFunded, NEW a \in Agents, Approved(a),
         UNCHANGED <<now, adminVars>>
  PROVE  VaultTypeOK' /\ SelfFunded' /\ Quiet
<1>1. Quiet
  BY DEF Quiet, Approved
<1>2. VaultTypeOK'
  BY DEF VaultTypeOK, Approved, adminVars, clockVars
<1>3. SelfFunded'
  BY DEF SelfFunded, Approved, clockVars
<1> QED BY <1>1, <1>2, <1>3

LEMMA ResolveDoes ==
  ASSUME NEW a \in Agents, NEW q \in Quotes, resolve(a, q)
  PROVE  /\ advice' = [advice EXCEPT ![a].resolved = TRUE,
                                    ![a].slashed = Slashes(advice[a], q)]
         /\ isResolvable(a) /\ advice[a].p0 # 0
         /\ IF Slashes(advice[a], q) THEN MaySlashAsOracle(a) /\ SlashAsOracle(a)
            ELSE MayApprove(PerfOracle, a) /\ Approved(a)
         /\ UNCHANGED <<now, adminVars>>
<1>1. MayResolve(a, q)
  BY DEF resolve
<1>2. /\ isResolvable(a) /\ advice[a].p0 # 0
      /\ IF Slashes(advice[a], q) THEN MaySlashAsOracle(a)
         ELSE MayApprove(PerfOracle, a)
  BY Zenon, <1>1 DEF MayResolve
<1>3. /\ advice' = [advice EXCEPT ![a].resolved = TRUE,
                                 ![a].slashed = Slashes(advice[a], q)]
      /\ IF Slashes(advice[a], q) THEN SlashAsOracle(a) ELSE Approved(a)
      /\ UNCHANGED <<now, adminVars>>
  BY Zenon DEF resolve
<1> QED BY <1>2, <1>3

LEMMA ResolveStep ==
  ASSUME VerdictInv, NEW a \in Agents, NEW q \in Quotes, resolve(a, q)
  PROVE  VaultTypeOK' /\ SelfFunded' /\ MoneyStep /\ UNCHANGED counterBonds
<1>1. /\ UNCHANGED <<now, adminVars>>
      /\ \/ MaySlashAsOracle(a) /\ SlashAsOracle(a)
         \/ Approved(a)
  BY ResolveDoes
<1>2. CASE MaySlashAsOracle(a) /\ SlashAsOracle(a)
  <2>1. /\ BurnsInHand(PerfOracle, a, advice[a].slashAmount)
        /\ advice[a].slashAmount \in Nat /\ advice[a].slashAmount > 0
        /\ VaultTypeOK' /\ SelfFunded'
    BY <1>1, <1>2, SlashAsOracleStep
  <2> QED BY <2>1, PerfOracleIs DEF MoneyStep, BurnsInHand
<1>3. CASE Approved(a)
  <2>1. VaultTypeOK' /\ SelfFunded' /\ Quiet
    BY <1>1, <1>3, ApprovedStep DEF VerdictInv
  <2> QED BY <2>1 DEF MoneyStep, Quiet
<1> QED BY <1>1, <1>2, <1>3

\* The other callers of the vault leave the contract's counter-bond alone.
LEMMA VaultingKeepsNothingPosted ==
  ASSUME VaultTypeOK, VaultNextBy(Slashers \ {PerfOracle})
  PROVE  counterBonds'[PerfOracle] = counterBonds[PerfOracle]
<1> DEFINE Others == Agents \cup (Slashers \ {PerfOracle})
<1>1. counterBonds \in [Holders -> Nat] /\ PerfOracle \notin Others
  BY PerfOracleIs DEF VaultTypeOK
<1>2. CASE Collateral(Others)
  BY <1>1, <1>2, PerfOracleIs
     DEF Collateral, postCounterBond, withdrawCounterBond
<1>3. CASE Judge(Slashers \ {PerfOracle})
  BY <1>1, <1>3, PerfOracleIs
     DEF Judge, approveRelease, Approved, slash, Slashed, Burned
<1>4. CASE UNCHANGED counterBonds
  BY <1>4
<1> QED BY <1>2, <1>3, <1>4
  DEF VaultNextBy, Post, post, Release, release, Poke, pokeActivity, Rescue,
      releaseToOperator, Administer, Tick

LEMMA AdviceTyped ==
  ASSUME advice \in [Agents -> Advised], VaultTypeOK, [Next]_vars
  PROVE  advice' \in [Agents -> Advised]
<1>1. ASSUME NEW a \in Agents, NEW direction \in {1, -1}, NEW h \in Horizons,
             NEW t \in Thresholds, NEW n \in SlashAmounts, NEW q \in Quotes,
             recordAdvice(a, direction, h, t, n, q)
      PROVE  advice' \in [Agents -> Advised]
  <2>1. /\ h \in Nat /\ t \in Nat /\ n \in Nat /\ now \in Nat
        /\ q.price \in Int /\ q.expo \in Int
    BY OracleInputs DEF VaultTypeOK
  <2> DEFINE ad == [direction |-> direction, p0 |-> q.price, expo |-> q.expo,
        recordedAt |-> now, horizonSecs |-> h, slashThresholdBps |-> t,
        slashAmount |-> n, exists |-> TRUE, resolved |-> FALSE,
        slashed |-> FALSE]
  <2>2. ad \in Advised
    BY <2>1 DEF Advised
  <2>3. advice' = [advice EXCEPT ![a] = ad]
    BY <1>1 DEF recordAdvice
  <2> HIDE DEF ad
  <2> QED BY <2>2, <2>3
<1>2. ASSUME NEW a \in Agents, NEW q \in Quotes, resolve(a, q)
      PROVE  advice' \in [Agents -> Advised]
  <2> DEFINE b == Slashes(advice[a], q)
  <2>1. b \in BOOLEAN
    BY DEF Slashes, _shouldSlash
  <2>2. advice' = [advice EXCEPT ![a].resolved = TRUE, ![a].slashed = b]
    BY <1>2, ResolveDoes
  <2> HIDE DEF b
  <2> QED BY <2>1, <2>2 DEF Advised
<1>3. CASE UNCHANGED advice
  BY <1>3
<1> QED BY <1>1, <1>2, <1>3 DEF Next, Vaulting, Advise, ResolveFor, vars

LEMMA VerdictInit == Init => VerdictInv /\ VaultSolvent
<1> SUFFICES ASSUME Init PROVE VerdictInv /\ VaultSolvent
  OBVIOUS
<1>1. VaultTypeOK /\ SelfFunded /\ VaultSolvent
  BY TypeInit, SolventInit DEF Init
<1>2. NothingPosted
  BY PerfOracleIs DEF Init, VaultInit, NothingPosted
<1>3. NoAdvice \in Advised
  BY DEF NoAdvice, Advised
<1>4. advice \in [Agents -> Advised]
  BY <1>3 DEF Init
<1> QED BY <1>1, <1>2, <1>4 DEF VerdictInv

LEMMA VerdictNext ==
  ASSUME VerdictInv, [Next]_vars
  PROVE  VerdictInv' /\ MoneyStep
<1>1. /\ VaultTypeOK /\ SelfFunded /\ counterBonds[PerfOracle] = 0
      /\ advice \in [Agents -> Advised]
  BY DEF VerdictInv, NothingPosted
<1>2. advice' \in [Agents -> Advised]
  BY <1>1, AdviceTyped
<1>3. CASE Vaulting
  <2>1. VaultNext
    BY <1>3 DEF Vaulting, VaultNext, VaultNextBy, Collateral, Judge
  <2>2. VaultTypeOK' /\ SelfFunded' /\ MoneyStep
    BY <1>1, <2>1, EveryStep
  <2>3. counterBonds'[PerfOracle] = 0
    BY <1>1, <1>3, VaultingKeepsNothingPosted DEF Vaulting
  <2> QED BY <1>2, <2>2, <2>3 DEF VerdictInv, NothingPosted
<1>4. CASE UNCHANGED vaultVars
  <2>1. VaultTypeOK' /\ SelfFunded' /\ MoneyStep
    BY <1>1, <1>4, EveryStep
  <2>2. UNCHANGED counterBonds
    BY <1>4 DEF vaultVars
  <2> QED BY <1>1, <1>2, <2>1, <2>2 DEF VerdictInv, NothingPosted
<1>5. ASSUME NEW a \in Agents, NEW q \in Quotes, resolve(a, q)
      PROVE  VerdictInv' /\ MoneyStep
  <2>1. VaultTypeOK' /\ SelfFunded' /\ MoneyStep /\ UNCHANGED counterBonds
    BY <1>5, ResolveStep
  <2> QED BY <1>1, <1>2, <2>1 DEF VerdictInv, NothingPosted
<1> QED BY <1>3, <1>4, <1>5 DEF Next, Advise, recordAdvice, ResolveFor, vars

-----------------------------------------------------------------------------
(***************************************************************************)
(* The verdict's arithmetic.                                               *)
(***************************************************************************)

\* Rounding down.
LEMMA FloorIs ==
  ASSUME NEW n \in Int, NEW d \in Int, d > 0
  PROVE  /\ n \div d \in Int
         /\ (n \div d) * d <= n /\ n < (n \div d) * d + d
OBVIOUS

LEMMA MagnitudeIs ==
  ASSUME NEW p \in Int, p # 0
  PROVE  Magnitude(p) \in Int /\ Magnitude(p) > 0
BY DEF Magnitude

\* Both roundings go the agent's way: a truncated return beyond threshold and
\* truncated band is beyond them in exact arithmetic, and one that is not is
\* within them but for one bps.
LEMMA RoundingIsFair ==
  ASSUME NEW L \in Int, NEW m \in Int, m > 0, NEW t \in Nat, NEW c \in Nat
  PROVE  LET slashes == /\ Quotient(L, m) < 0
                        /\ Quotient(L, m) < -(t + c \div m)
         IN IF slashes THEN -L > t * m + c ELSE -L < t * m + c + m
<1> DEFINE k == c \div m
           r == (-L) \div m
<1>1. -L \in Int /\ c \in Int /\ t \in Int
  OBVIOUS
<1>2. k \in Int /\ k * m <= c /\ c < k * m + m
  BY <1>1, FloorIs
<1>3. r \in Int /\ r * m <= -L /\ -L < r * m + m
  BY <1>1, FloorIs
<1>4. Quotient(L, m) = IF L >= 0 THEN L \div m ELSE -r
  BY DEF Quotient
<1>5. L >= 0 => L \div m >= 0
  <2>1. L \div m \in Int /\ L < (L \div m) * m + m
    BY FloorIs
  <2> DEFINE j == L \div m
  <2> HIDE DEF j
  <2>2. ASSUME L >= 0, j \in Int, L < j * m + m, ~(j >= 0) PROVE FALSE
    <3>1. j + 1 <= 0 /\ j + 1 \in Int
      BY <2>2
    <3>2. (j + 1) * m <= 0
      BY <3>1
    <3>3. j * m + m = (j + 1) * m
      BY <2>2
    <3> QED BY <2>2, <3>2, <3>3
  <2> QED BY <2>1, <2>2 DEF j
<1>6. k >= 0
  <2> HIDE DEF k
  <2> SUFFICES ASSUME ~(k >= 0) PROVE FALSE
    BY <1>2
  <2>1. k + 1 <= 0 /\ k + 1 \in Int
    BY <1>2
  <2>2. (k + 1) * m <= 0
    BY <2>1
  <2>3. k * m + m = (k + 1) * m
    BY <1>2
  <2> QED BY <1>2, <2>2, <2>3
<1> HIDE DEF k, r
<1>7. /\ t * m \in Int /\ k * m \in Int /\ r * m \in Int
      /\ (t + k) * m = t * m + k * m
      /\ (t + k + 1) * m = t * m + k * m + m
  BY <1>2, <1>3
<1>8. CASE L >= 0
  <2>1. ~(Quotient(L, m) < 0)
    BY <1>4, <1>5, <1>8, FloorIs
  <2>2. t * m >= 0
    OBVIOUS
  <2>3. -L < t * m + c + m
    BY <1>7, <1>8, <2>2
  <2> QED BY <2>1, <2>3
<1>9. CASE L < 0
  <2>1. Quotient(L, m) = -r
    BY <1>4, <1>9
  <2>2. CASE -r < -(t + k)
    <3>1. t + k + 1 <= r
      BY <1>2, <1>3, <2>2
    <3>2. (t + k + 1) * m <= r * m
      BY <1>2, <1>3, <3>1
    <3>3. -L > t * m + c
      BY <1>2, <1>3, <1>7, <3>2
    <3>4. -r < 0
      BY <1>2, <1>3, <1>6, <3>1
    <3> QED BY <2>1, <2>2, <3>3, <3>4 DEF k
  <2>3. CASE ~(-r < -(t + k))
    <3>1. r <= t + k
      BY <1>2, <1>3, <2>3
    <3>2. r * m <= (t + k) * m
      BY <1>2, <1>3, <3>1
    <3>3. -L < t * m + c + m
      BY <1>2, <1>3, <1>7, <3>2
    <3> QED BY <2>1, <2>3, <3>3 DEF k
  <2> QED BY <2>2, <2>3
<1> QED BY <1>8, <1>9

\* The same, in the words of the contract.
LEMMA VerdictIsFair ==
  ASSUME NEW ad \in Advised, NEW q \in Quotes, ad.p0 # 0
  PROVE  IF Slashes(ad, q) THEN Failed(ad, q) ELSE PassedRoughly(ad, q)
<1> DEFINE L == ad.direction * (q.price - ad.p0) * 10000
           m == Magnitude(ad.p0)
           t == ad.slashThresholdBps
           c == q.conf * 10000
<1>1. /\ ad.direction \in Int /\ ad.p0 \in Int /\ t \in Nat
      /\ q.price \in Int /\ q.conf \in Nat
  BY OracleInputs DEF Advised
<1>2. L \in Int /\ c \in Nat
  BY <1>1
<1>3. m \in Int /\ m > 0
  BY <1>1, MagnitudeIs
<1>4. Slashes(ad, q) <=> /\ Quotient(L, m) < 0
                         /\ Quotient(L, m) < -(t + c \div m)
  BY DEF Slashes, _shouldSlash, _returnBps
<1>5. Failed(ad, q) <=> -L > t * m + c
  BY DEF Failed, LossBps, BandBps
<1>6. PassedRoughly(ad, q) <=> -L < t * m + c + m
  BY DEF PassedRoughly, LossBps, BandBps
<1> HIDE DEF L, m, t, c
<1>7. IF Quotient(L, m) < 0 /\ Quotient(L, m) < -(t + c \div m)
      THEN -L > t * m + c ELSE -L < t * m + c + m
  BY <1>1, <1>2, <1>3, RoundingIsFair
<1> QED BY <1>4, <1>5, <1>6, <1>7

\* Only a verdict on a touches advice to a that awaits its verdict.
LEMMA OnlyResolveTouches ==
  ASSUME advice \in [Agents -> Advised], NEW a \in Agents, Outstanding(a),
         [Next]_vars, advice'[a] # advice[a]
  PROVE  \E q \in Quotes : resolve(a, q)
<1>1. ASSUME NEW b \in Agents, NEW direction \in {1, -1}, NEW h \in Horizons,
             NEW t \in Thresholds, NEW n \in SlashAmounts, NEW q \in Quotes,
             recordAdvice(b, direction, h, t, n, q)
      PROVE  FALSE
  <2>1. ~Outstanding(b)
    BY <1>1 DEF recordAdvice, MayRecord
  <2>2. a # b
    BY <2>1
  <2> QED BY <1>1, <2>2 DEF recordAdvice
<1>2. ASSUME NEW b \in Agents, NEW q \in Quotes, resolve(b, q)
      PROVE  \E r \in Quotes : resolve(a, r)
  <2>1. advice' = [advice EXCEPT ![b].resolved = TRUE,
                                 ![b].slashed = Slashes(advice[b], q)]
    BY <1>2, ResolveDoes
  <2>2. a = b
    BY <2>1
  <2> QED BY <1>2, <2>2
<1>3. ~ UNCHANGED advice
  OBVIOUS
<1> QED BY <1>1, <1>2, <1>3 DEF Next, Vaulting, Advise, ResolveFor, vars

\* What resolve leaves in the advice it judges.
LEMMA ResolvedAdvice ==
  ASSUME advice \in [Agents -> Advised], NEW a \in Agents, NEW q \in Quotes,
         resolve(a, q)
  PROVE  /\ advice'[a].slashed = Slashes(advice[a], q)
         /\ advice'[a] = [advice[a] EXCEPT !.resolved = TRUE,
                                           !.slashed = advice'[a].slashed]
<1>1. advice' = [advice EXCEPT ![a].resolved = TRUE,
                               ![a].slashed = Slashes(advice[a], q)]
  BY ResolveDoes
<1> DEFINE s == Slashes(advice[a], q)
<1> HIDE DEF s
<1>2. advice'[a] = [advice[a] EXCEPT !.resolved = TRUE, !.slashed = s]
  BY <1>1 DEF s
<1>3. advice'[a].slashed = s
  <2>1. advice[a] \in Advised
    OBVIOUS
  <2> QED BY <1>2, <2>1 DEF Advised
<1> QED BY <1>2, <1>3 DEF s

LEMMA VerdictsMatchNext ==
  ASSUME VerdictInv, [Next]_vars, NEW a \in Agents, Outstanding(a),
         advice'[a] # advice[a]
  PROVE  LET ad == advice[a]
             slashed == advice'[a].slashed
         IN /\ advice'[a] = [ad EXCEPT !.resolved = TRUE, !.slashed = slashed]
            /\ now >= ad.recordedAt + ad.horizonSecs
            /\ \A q \in Quotes : resolve(a, q) =>
                 IF slashed THEN Failed(ad, q) ELSE PassedRoughly(ad, q)
<1>1. advice \in [Agents -> Advised] /\ advice[a] \in Advised
  BY DEF VerdictInv
<1>2. PICK r \in Quotes : resolve(a, r)
  BY <1>1, OnlyResolveTouches
<1>3. advice'[a] = [advice[a] EXCEPT !.resolved = TRUE,
                                     !.slashed = advice'[a].slashed]
  BY <1>1, <1>2, ResolvedAdvice
<1>4. now >= advice[a].recordedAt + advice[a].horizonSecs
  BY <1>2, ResolveDoes DEF isResolvable
<1>5. ASSUME NEW q \in Quotes, resolve(a, q)
      PROVE  IF advice'[a].slashed THEN Failed(advice[a], q)
             ELSE PassedRoughly(advice[a], q)
  <2>1. advice'[a].slashed = Slashes(advice[a], q) /\ advice[a].p0 # 0
    BY <1>1, <1>5, ResolvedAdvice, ResolveDoes
  <2>2. IF Slashes(advice[a], q) THEN Failed(advice[a], q)
        ELSE PassedRoughly(advice[a], q)
    BY <1>1, <2>1, VerdictIsFair
  <2> QED BY <2>1, <2>2
<1> QED BY <1>3, <1>4, <1>5

LEMMA VerdictsMoveNext ==
  ASSUME VerdictInv, VerdictInv', [Next]_vars, NEW a \in Agents,
         Outstanding(a), advice'[a].resolved
  PROVE  LET lost == IF advice'[a].slashed THEN advice[a].slashAmount ELSE 0
         IN /\ balance'[a] = balance[a] - lost
            /\ usdc'[PerfOracle] = usdc[PerfOracle] - lost
            /\ counterBonds'[PerfOracle] = 0
            /\ usdc'[Burn] = usdc[Burn] + 2 * lost
            /\ ~advice'[a].slashed =>
                 oracleApprovedRelease'[a] /\ balance'[a] > 0
<1>1. /\ advice \in [Agents -> Advised] /\ advice[a] \in Advised
      /\ counterBonds'[PerfOracle] = 0
      /\ balance[a] \in Nat /\ balance'[a] \in Nat
      /\ usdc[PerfOracle] \in Nat /\ usdc[Burn] \in Nat
      /\ oracleApprovedRelease \in [Agents -> BOOLEAN]
  BY PerfOracleIs, AccountsAre DEF VerdictInv, NothingPosted, VaultTypeOK
<1>2. advice'[a] # advice[a]
  BY DEF Outstanding
<1>3. PICK q \in Quotes : resolve(a, q)
  BY <1>1, <1>2, OnlyResolveTouches
<1>4. /\ IF advice'[a].slashed THEN MaySlashAsOracle(a) /\ SlashAsOracle(a)
         ELSE MayApprove(PerfOracle, a) /\ Approved(a)
      /\ UNCHANGED <<now, adminVars>>
  <2>1. advice'[a].slashed = Slashes(advice[a], q)
    BY <1>1, <1>3, ResolvedAdvice
  <2> QED BY <1>3, <2>1, ResolveDoes
<1>5. CASE advice'[a].slashed
  <2> DEFINE n == advice[a].slashAmount
  <2>1. n \in Nat /\ BurnsInHand(PerfOracle, a, n)
    BY <1>4, <1>5, SlashAsOracleStep
  <2> HIDE DEF n
  <2>2. /\ balance'[a] = balance[a] + (-n)
        /\ usdc'[PerfOracle] = usdc[PerfOracle] - n
        /\ usdc'[Burn] = usdc[Burn] + 2 * n
    BY <2>1 DEF BurnsInHand, BondShifts
  <2>3. balance'[a] = balance[a] - n
    BY <1>1, <2>1, <2>2
  <2> QED BY <1>1, <1>5, <2>2, <2>3 DEF n
<1>6. CASE ~advice'[a].slashed
  <2>1. /\ balance' = balance /\ usdc' = usdc /\ balance[a] # 0
        /\ oracleApprovedRelease' = [oracleApprovedRelease EXCEPT ![a] = TRUE]
    BY <1>4, <1>6 DEF MayApprove, Approved
  <2>2. balance'[a] > 0 /\ oracleApprovedRelease'[a]
    BY <1>1, <2>1
  <2>3. balance[a] - 0 = balance[a] /\ usdc[PerfOracle] - 0 = usdc[PerfOracle]
        /\ usdc[Burn] + 2 * 0 = usdc[Burn]
    BY <1>1
  <2> QED BY <1>1, <1>6, <2>1, <2>2, <2>3
<1> QED BY <1>5, <1>6

-----------------------------------------------------------------------------
\* In the composed system too: the types, a bond that can only go back to its
\* poster, and no counter-bond of the verdict contract between transactions.
\* (every operation of BondVault.sol and PerformanceOracle.sol)
THEOREM VerdictsAreTyped == Spec => []VerdictInv
<1>1. VerdictInv /\ [Next]_vars => VerdictInv'
  BY VerdictNext
<1> QED BY <1>1, VerdictInit, PTL DEF Spec

\* Verdicts that post and burn in one transaction leave the vault with exactly
\* the bonds and the counter-bonds.  (resolve, postCounterBond, slash)
THEOREM VerdictsKeepTheVaultSolvent == Spec => []VaultSolvent
<1>1. VerdictInv /\ VerdictInv' /\ VaultSolvent /\ [Next]_vars => VaultSolvent'
  BY VerdictNext, SolventNext DEF VerdictInv
<1> QED BY <1>1, VerdictInit, VerdictsAreTyped, PTL DEF Spec

\* Nobody profits from a verdict either: agent and contract lose the same, and
\* the burn sink receives both.  (resolve, slash)
THEOREM NobodyProfitsFromVerdicts == Spec => NobodyProfits
<1>1. VerdictInv /\ VerdictInv' /\ [Next]_vars
        => [LET burned == usdc'[Burn] - usdc[Burn]
                loss(x) == Wealth(x) - Wealth(x)'
            IN IF burned = 0 THEN \A x \in Holders : loss(x) = 0
               ELSE \E s \in Slashers, a \in Agents :
                      /\ \A x \in Holders \ {s, a} : loss(x) = 0
                      /\ burned > 0
                      /\ IF s = a THEN loss(s) = burned
                         ELSE 2 * loss(s) = burned /\ 2 * loss(a) = burned]_vaultVars
  BY VerdictNext, ProfitNext DEF VerdictInv
<1> QED BY <1>1, VerdictsAreTyped, PTL DEF Spec, NobodyProfits

\* For every price, confidence, threshold and scale of p0: the verdict that
\* falls is the one exact arithmetic gives, up to one bps in the agent's
\* favour, once and after the horizon.  (recordAdvice, resolve, _returnBps,
\* _shouldSlash)
THEOREM VerdictsAreFair == Spec => VerdictsMatchThePrice
<1>1. VerdictInv /\ [Next]_vars
        => [\A a \in Agents : Outstanding(a) /\ advice'[a] # advice[a] =>
              LET ad == advice[a]
                  slashed == advice'[a].slashed
              IN /\ advice'[a] = [ad EXCEPT !.resolved = TRUE,
                                            !.slashed = slashed]
                 /\ now >= ad.recordedAt + ad.horizonSecs
                 /\ \A q \in Quotes : resolve(a, q) =>
                      IF slashed THEN Failed(ad, q)
                      ELSE PassedRoughly(ad, q)]_vars
  BY VerdictsMatchNext
<1> QED BY <1>1, VerdictsAreTyped, PTL DEF Spec, VerdictsMatchThePrice

\* A failure burns slashAmount of the bond and of the contract's own money, to
\* the coin; a pass burns nothing and frees a bond that is still there.
\* (resolve, postCounterBond, slash, approveRelease)
THEOREM VerdictsMoveExactly == Spec => VerdictsMoveTheMoney
<1>1. VerdictInv /\ VerdictInv' /\ [Next]_vars
        => [\A a \in Agents : Outstanding(a) /\ advice'[a].resolved =>
              LET lost == IF advice'[a].slashed THEN advice[a].slashAmount
                          ELSE 0
              IN /\ balance'[a] = balance[a] - lost
                 /\ usdc'[PerfOracle] = usdc[PerfOracle] - lost
                 /\ counterBonds'[PerfOracle] = 0
                 /\ usdc'[Burn] = usdc[Burn] + 2 * lost
                 /\ ~advice'[a].slashed =>
                      oracleApprovedRelease'[a] /\ balance'[a] > 0]_vars
  BY VerdictsMoveNext
<1> QED BY <1>1, VerdictsAreTyped, PTL DEF Spec, VerdictsMoveTheMoney

-----------------------------------------------------------------------------
(***************************************************************************)
(* What the vault and the verdict contract never refuse: the safety under  *)
(* BondsComeHome and BondedAdviceGetsVerdict.  No transfer out of the      *)
(* vault lacks the coins, so the guards that remain are the ones a reader  *)
(* of the contracts sees.                                                  *)
(***************************************************************************)

\* Any bond and any counter-bond are in the vault together.
ClaimsAreCovered ==
  \A a \in Agents, s \in Holders : usdc[Vault] >= balance[a] + counterBonds[s]

LEMMA SolventCovers ==
  ASSUME VaultTypeOK, VaultSolvent
  PROVE  ClaimsAreCovered
<1> SUFFICES ASSUME NEW a \in Agents, NEW s \in Holders
             PROVE  usdc[Vault] >= balance[a] + counterBonds[s]
  BY DEF ClaimsAreCovered
<1>1. /\ \A b \in Agents : balance[b] \in Nat
      /\ \A t \in Holders : counterBonds[t] \in Nat
  BY DEF VaultTypeOK
<1>2. balance[a] <= BondsHeld
  BY <1>1, FiniteOwners, TotalMember DEF BondsHeld
<1>3. counterBonds[s] <= CounterBondsHeld
  BY <1>1, FiniteOwners, TotalMember DEF CounterBondsHeld
<1> QED BY <1>1, <1>2, <1>3, HeldAreNatural DEF VaultSolvent

\* Advice that stands was recorded with something to slash.
AdviceHasStakes == \A a \in Agents : advice[a].exists => advice[a].slashAmount > 0

LEMMA StakesInit == Init => AdviceHasStakes
BY DEF Init, NoAdvice, AdviceHasStakes

LEMMA StakesNext ==
  ASSUME VerdictInv, AdviceHasStakes, [Next]_vars
  PROVE  AdviceHasStakes'
<1>1. advice \in [Agents -> Advised]
  BY DEF VerdictInv
<1> SUFFICES ASSUME NEW b \in Agents, advice'[b].exists
             PROVE  advice'[b].slashAmount > 0
  BY DEF AdviceHasStakes
<1>2. CASE advice'[b] = advice[b]
  BY <1>2 DEF AdviceHasStakes
<1>3. ASSUME NEW a \in Agents, NEW direction \in {1, -1}, NEW h \in Horizons,
             NEW t \in Thresholds, NEW n \in SlashAmounts, NEW q \in Quotes,
             recordAdvice(a, direction, h, t, n, q), advice'[b] # advice[b]
      PROVE  advice'[b].slashAmount > 0
  <2>1. n \in Nat /\ n # 0
    BY <1>3, OracleInputs DEF recordAdvice
  <2> DEFINE ad == [direction |-> direction, p0 |-> q.price, expo |-> q.expo,
        recordedAt |-> now, horizonSecs |-> h, slashThresholdBps |-> t,
        slashAmount |-> n, exists |-> TRUE, resolved |-> FALSE,
        slashed |-> FALSE]
  <2>2. advice' = [advice EXCEPT ![a] = ad]
    BY <1>3 DEF recordAdvice
  <2>3. ad.slashAmount = n
    OBVIOUS
  <2> HIDE DEF ad
  <2>4. advice'[b] = ad
    BY <1>1, <1>3, <2>2
  <2> QED BY <2>1, <2>3, <2>4
<1>4. ASSUME NEW a \in Agents, NEW q \in Quotes, resolve(a, q)
      PROVE  advice'[b].slashAmount > 0
  <2> DEFINE v == Slashes(advice[a], q)
  <2>1. advice' = [advice EXCEPT ![a].resolved = TRUE, ![a].slashed = v]
    BY <1>4, ResolveDoes
  <2> HIDE DEF v
  <2>2. /\ advice'[b].exists = advice[b].exists
        /\ advice'[b].slashAmount = advice[b].slashAmount
    BY <1>1, <2>1 DEF Advised
  <2> QED BY <2>2 DEF AdviceHasStakes
<1>5. CASE UNCHANGED advice
  BY <1>5 DEF AdviceHasStakes
<1> QED BY <1>2, <1>3, <1>4, <1>5 DEF Next, Vaulting, Advise, ResolveFor, vars

\* Exactly what a verdict waits for: the horizon, a price on the scale of a p0
\* that is not zero, the contract's being the oracle of a vault not paused,
\* and what the verdict takes: the slash twice over, or a bond to free.
VerdictsWaitForNothingElse ==
  \A a \in Agents, q \in Quotes :
    LET ad == advice[a]
    IN MayResolve(a, q) <=>
         /\ isResolvable(a) /\ q.expo = ad.expo /\ ad.p0 # 0
         /\ oracle = PerfOracle /\ ~paused
         /\ IF Slashes(ad, q)
            THEN balance[a] >= ad.slashAmount /\ usdc[PerfOracle] >= ad.slashAmount
            ELSE balance[a] # 0

\* FundedVerdictsGoThrough, with the guard of resolve for ENABLED.
FundedVerdictsAreAllowed ==
  \A a \in Agents, q \in Quotes :
    LET ad == advice[a]
    IN /\ Outstanding(a) /\ now >= ad.recordedAt + ad.horizonSecs
       /\ oracle = PerfOracle /\ ~paused
       /\ q.expo = ad.expo /\ ad.p0 # 0
       /\ balance[a] >= ad.slashAmount
       /\ usdc[PerfOracle] >= ad.slashAmount
       => MayResolve(a, q)

\* With the top-up the counter-bond suffices and both legs are in the vault.
LEMMA ToppedUpSuffices ==
  ASSUME VerdictInv, VaultSolvent, AdviceHasStakes, NEW a \in Agents,
         advice[a].exists
  PROVE  MaySlashAsOracle(a) <=>
           /\ oracle = PerfOracle /\ ~paused
           /\ balance[a] >= advice[a].slashAmount
           /\ usdc[PerfOracle] >= advice[a].slashAmount
<1> DEFINE n == advice[a].slashAmount
           cb == [counterBonds EXCEPT ![PerfOracle] = @ + n]
           tok == Moved(usdc, PerfOracle, Vault, n)
<1>1. /\ advice[a] \in Advised /\ counterBonds[PerfOracle] = 0
      /\ usdc \in [Accounts -> Nat] /\ balance[a] \in Nat
      /\ counterBonds \in [Holders -> Nat]
  BY DEF VerdictInv, NothingPosted, VaultTypeOK
<1>2. n \in Nat /\ n > 0
  BY <1>1 DEF Advised, AdviceHasStakes
<1>3. Shortfall(a) = n
  BY <1>1, <1>2 DEF Shortfall
<1>4. MaySlashAsOracle(a) <=>
        /\ ~paused /\ usdc[PerfOracle] >= n
        /\ MaySlash(cb, tok, PerfOracle, a, n)
  BY <1>2, <1>3 DEF MaySlashAsOracle, ToppedUp, PaidIn
<1> HIDE DEF n
<1>5. cb[PerfOracle] = n
  BY <1>1, <1>2, PerfOracleIs
<1>6. ASSUME usdc[PerfOracle] >= n, balance[a] >= n PROVE tok[Vault] >= 2 * n
  <2>1. tok[Vault] = usdc[Vault] + n
    BY <1>1, <1>2, <1>6, PerfOracleIs, AccountsAre, MovedFacts
  <2>2. usdc[Vault] >= balance[a] + counterBonds[PerfOracle]
    BY SolventCovers, PerfOracleIs DEF ClaimsAreCovered, VerdictInv
  <2>3. usdc[Vault] \in Nat
    BY <1>1, AccountsAre
  <2> QED BY <1>1, <1>2, <1>6, <2>1, <2>2, <2>3
<1>7. cb[PerfOracle] >= n /\ n # 0
  BY <1>2, <1>5
<1> HIDE DEF cb, tok
<1>8. MaySlash(cb, tok, PerfOracle, a, n) <=>
        oracle = PerfOracle /\ ~paused /\ balance[a] >= n /\ tok[Vault] >= 2 * n
  BY <1>7 DEF MaySlash
<1> QED BY <1>4, <1>6, <1>8 DEF n

LEMMA WhatAVerdictTakes ==
  ASSUME VerdictInv, VaultSolvent, AdviceHasStakes
  PROVE  VerdictsWaitForNothingElse /\ FundedVerdictsAreAllowed
<1>1. VerdictsWaitForNothingElse
  <2> SUFFICES ASSUME NEW a \in Agents, NEW q \in Quotes
               PROVE  MayResolve(a, q) <=>
                 /\ isResolvable(a) /\ q.expo = advice[a].expo
                 /\ advice[a].p0 # 0 /\ oracle = PerfOracle /\ ~paused
                 /\ IF Slashes(advice[a], q)
                    THEN /\ balance[a] >= advice[a].slashAmount
                         /\ usdc[PerfOracle] >= advice[a].slashAmount
                    ELSE balance[a] # 0
    BY Zenon DEF VerdictsWaitForNothingElse
  <2>1. CASE ~isResolvable(a)
    BY <2>1 DEF MayResolve
  <2>2. CASE isResolvable(a) /\ Slashes(advice[a], q)
    <3>1. advice[a].exists
      BY <2>2 DEF isResolvable, Outstanding
    <3>2. MaySlashAsOracle(a) <=>
            /\ oracle = PerfOracle /\ ~paused
            /\ balance[a] >= advice[a].slashAmount
            /\ usdc[PerfOracle] >= advice[a].slashAmount
      BY <3>1, ToppedUpSuffices
    <3> QED BY Zenon, <2>2, <3>2 DEF MayResolve
  <2>3. CASE isResolvable(a) /\ ~Slashes(advice[a], q)
    BY Zenon, <2>3 DEF MayResolve, MayApprove
  <2> QED BY <2>1, <2>2, <2>3
<1>2. FundedVerdictsAreAllowed
  <2> SUFFICES ASSUME NEW a \in Agents, NEW q \in Quotes,
                      isResolvable(a), oracle = PerfOracle, ~paused,
                      q.expo = advice[a].expo, advice[a].p0 # 0,
                      balance[a] >= advice[a].slashAmount,
                      usdc[PerfOracle] >= advice[a].slashAmount
               PROVE  MayResolve(a, q)
    BY DEF FundedVerdictsAreAllowed, isResolvable
  <2>1. advice[a].exists /\ advice[a] \in Advised /\ balance[a] \in Nat
    BY DEF isResolvable, Outstanding, VerdictInv, VaultTypeOK
  <2>2. balance[a] # 0
    BY <2>1 DEF Advised, AdviceHasStakes
  <2> QED BY <1>1, <2>2 DEF VerdictsWaitForNothingElse
<1> QED BY <1>1, <1>2

\* The vault alone, whoever is the oracle and whatever the owner sets: no
\* release, rescue or withdrawal ever fails for lack of coins, and a slash has
\* both legs.  (release, releaseToOperator, withdrawCounterBond, slash)
THEOREM TheVaultAlwaysPays == VaultSpec => []ClaimsAreCovered
<1>1. VaultTypeOK /\ VaultSolvent => ClaimsAreCovered
  BY SolventCovers
<1> QED BY <1>1, VaultTypeCorrect, VaultIsSolvent, PTL

\* Verdicts that move their own money through the vault leave that so.
\* (resolve, postCounterBond, slash, release)
THEOREM TheVaultAlwaysPaysUnderVerdicts == Spec => []ClaimsAreCovered
<1>1. VerdictInv /\ VaultSolvent => ClaimsAreCovered
  BY SolventCovers DEF VerdictInv
<1> QED BY <1>1, VerdictsAreTyped, VerdictsKeepTheVaultSolvent, PTL

\* In every reachable state, resolve goes through exactly when its visible
\* conditions hold; so a due verdict on a bond that covers it, with slashAmount
\* in the contract's hands, cannot be blocked by any interleaving of bonds,
\* counter-bonds, slashes and earlier verdicts.  (resolve, postCounterBond,
\* slash, approveRelease)
THEOREM FundedVerdictsAreNeverBlocked ==
  Spec => [](VerdictsWaitForNothingElse /\ FundedVerdictsAreAllowed)
<1>1. VerdictInv /\ AdviceHasStakes /\ [Next]_vars => AdviceHasStakes'
  BY StakesNext
<1>2. Spec => []AdviceHasStakes
  BY <1>1, StakesInit, VerdictsAreTyped, PTL DEF Spec
<1>3. VerdictInv /\ VaultSolvent /\ AdviceHasStakes
        => VerdictsWaitForNothingElse /\ FundedVerdictsAreAllowed
  BY WhatAVerdictTakes
<1> QED BY <1>2, <1>3, VerdictsAreTyped, VerdictsKeepTheVaultSolvent, PTL

=============================================================================
