----------------------------- MODULE BondVault ------------------------------
(***************************************************************************)
(* contracts/src/BondVault.sol: the escrow of agents' bonds.  An agent     *)
(* posts a bond and takes it back after a window, after the oracle's       *)
(* approval, or, once it counts as dead, through anyone.  The oracle       *)
(* slashes a bond by burning as much of its own counter-bond.              *)
(*                                                                         *)
(* One action per external function; a revert is a guard.  The token is    *)
(* external, as in Colosseum.  So is the activity checker: pokeActivity    *)
(* takes its answer as an input, and the signal the vault only stores to   *)
(* hand back to it is left out.                                            *)
(***************************************************************************)
EXTENDS Integers, FiniteSets, Coins

CONSTANTS
  Agents,        \* who may post a bond
  Slashers,      \* who may be made the oracle
  Vault, Burn,   \* the vault's account and the burn sink
  None,          \* address(0)
  InitialUsdc, InitialOracle, InitialWindow, InitialTimeout,
  MaxUint,       \* type(uint256).max, beyond which an addition reverts
  Amounts, Oracles, Checkers, Windows, Timeouts, Pauses,   \* inputs tried
  LastPost, MaxTime             \* bounds

Holders == Agents \cup Slashers
Accounts == Holders \cup {Vault, Burn}

ASSUME VaultAccounts ==
  /\ IsFiniteSet(Holders)
  /\ Vault \notin Holders /\ Burn \notin Holders /\ Vault # Burn
  /\ None \notin Accounts
  /\ InitialUsdc \in [Holders -> Nat] /\ InitialOracle \in Slashers

ASSUME VaultInputs ==
  /\ Amounts \subseteq Nat /\ Windows \subseteq Nat /\ Timeouts \subseteq Nat
  /\ Oracles \subseteq Slashers \cup {None}
  /\ Checkers \subseteq BOOLEAN /\ Pauses \subseteq BOOLEAN
  /\ InitialWindow \in Nat /\ InitialTimeout \in Nat /\ MaxUint \in Nat
  /\ LastPost \in Nat /\ MaxTime \in Nat

VARIABLES
  now, usdc,
  oracle, activityChecker, releaseWindow, livenessTimeout, paused,
  balance, postedAt, lastActivityAt, oracleApprovedRelease, operator,
  counterBonds

adminVars == <<oracle, activityChecker, releaseWindow, livenessTimeout, paused>>
clockVars == <<postedAt, lastActivityAt, operator>>
bondVars == <<balance, clockVars, oracleApprovedRelease>>
vaultVars == <<now, usdc, adminVars, bondVars, counterBonds>>

\* n coins go from one account to another in the balances tok.
Moved(tok, from, to, n) == [tok EXCEPT ![from] = @ - n, ![to] = @ + n]

VaultInit ==
  /\ now = 0
  /\ usdc = [x \in Accounts |-> IF x \in Holders THEN InitialUsdc[x] ELSE 0]
  /\ oracle = InitialOracle
  /\ activityChecker = FALSE      \* address(0)
  /\ releaseWindow = InitialWindow
  /\ livenessTimeout = InitialTimeout
  /\ paused = FALSE
  /\ balance = [a \in Agents |-> 0]
  /\ postedAt = [a \in Agents |-> 0]
  /\ lastActivityAt = [a \in Agents |-> 0]
  /\ oracleApprovedRelease = [a \in Agents |-> FALSE]
  /\ operator = [a \in Agents |-> None]
  /\ counterBonds = [s \in Holders |-> 0]

-----------------------------------------------------------------------------
(***************************************************************************)
(* The agent.                                                              *)
(***************************************************************************)
post(a, n) ==
  /\ ~paused
  /\ n # 0
  /\ usdc[a] >= n
  /\ now <= LastPost                                 \* bound
  /\ usdc' = Moved(usdc, a, Vault, n)
  /\ balance' = [balance EXCEPT ![a] = @ + n]
  /\ postedAt' = [postedAt EXCEPT ![a] = now]
  /\ lastActivityAt' = [lastActivityAt EXCEPT ![a] = now]
  /\ oracleApprovedRelease' = [oracleApprovedRelease EXCEPT ![a] = FALSE]
  /\ operator' = [operator EXCEPT ![a] = a]
  /\ UNCHANGED <<now, adminVars, counterBonds>>

\* The end of the window is worked out before anything else is asked.
WindowFits(a) == postedAt[a] + releaseWindow <= MaxUint
WindowOpen(a) == now >= postedAt[a] + releaseWindow

\* Also while the vault is paused.
MayLeaveUnlessPaused(a) ==
  ~paused /\ (WindowOpen(a) \/ oracleApprovedRelease[a])
MayLeave(a) == WindowOpen(a) \/ oracleApprovedRelease[a]

\* The whole bond goes out.
PaidOutTwice(a, to) ==
  /\ usdc' = Moved(usdc, Vault, to, balance[a])
  /\ UNCHANGED balance
PaidOut(a, to) ==
  /\ usdc[Vault] >= balance[a]
  /\ usdc' = Moved(usdc, Vault, to, balance[a])
  /\ balance' = [balance EXCEPT ![a] = 0]

release(a) ==
  /\ balance[a] # 0
  /\ WindowFits(a)
  /\ MayLeave(a)
  /\ PaidOut(a, a)
  /\ oracleApprovedRelease' = [oracleApprovedRelease EXCEPT ![a] = FALSE]
  /\ UNCHANGED <<now, adminVars, clockVars, counterBonds>>

-----------------------------------------------------------------------------
(***************************************************************************)
(* The slasher.                                                            *)
(***************************************************************************)
postCounterBond(s, n) ==
  /\ ~paused
  /\ n # 0
  /\ usdc[s] >= n
  /\ usdc' = Moved(usdc, s, Vault, n)
  /\ counterBonds' = [counterBonds EXCEPT ![s] = @ + n]
  /\ UNCHANGED <<now, adminVars, bondVars>>

withdrawCounterBond(s, n) ==
  /\ n # 0
  /\ counterBonds[s] >= n
  /\ usdc[Vault] >= n
  /\ counterBonds' = [counterBonds EXCEPT ![s] = @ - n]
  /\ usdc' = Moved(usdc, Vault, s, n)
  /\ UNCHANGED <<now, adminVars, bondVars>>

\* Both legs go to the burn sink: the bond's, and the slasher's own.
Burned(cb, s, n) == [cb EXCEPT ![s] = @ - n]

\* slash by s of n from a, in counter-bonds cb and token balances tok: when it
\* goes through, and what it does.
MaySlash(cb, tok, s, a, n) ==
  /\ s = oracle
  /\ ~paused
  /\ n # 0
  /\ balance[a] >= n
  /\ cb[s] >= n
  /\ tok[Vault] >= 2 * n

Slashed(cb, tok, s, a, n) ==
  /\ balance' = [balance EXCEPT ![a] = @ - n]
  /\ counterBonds' = Burned(cb, s, n)
  /\ usdc' = Moved(tok, Vault, Burn, 2 * n)
  /\ UNCHANGED <<clockVars, oracleApprovedRelease>>

slash(s, a, n) ==
  /\ MaySlash(counterBonds, usdc, s, a, n)
  /\ Slashed(counterBonds, usdc, s, a, n)
  /\ UNCHANGED <<now, adminVars>>

MayApproveUnbonded(s, a) == s = oracle /\ ~paused
MayApprove(s, a) == s = oracle /\ ~paused /\ balance[a] # 0

Approved(a) ==
  /\ oracleApprovedRelease' = [oracleApprovedRelease EXCEPT ![a] = TRUE]
  /\ UNCHANGED <<usdc, balance, clockVars, counterBonds>>

approveRelease(s, a) ==
  /\ MayApprove(s, a)
  /\ Approved(a)
  /\ UNCHANGED <<now, adminVars>>

-----------------------------------------------------------------------------
(***************************************************************************)
(* Liveness.                                                               *)
(***************************************************************************)
DeadlineFits(a) == lastActivityAt[a] + livenessTimeout <= MaxUint
isAgentAlive(a) == balance[a] # 0 /\ now < lastActivityAt[a] + livenessTimeout

\* The checker says whether the agent is alive; only then does the clock move.
pokeActivity(a, alive) ==
  /\ activityChecker
  /\ balance[a] # 0
  /\ lastActivityAt' = [lastActivityAt EXCEPT ![a] = IF alive THEN now ELSE @]
  /\ UNCHANGED <<now, usdc, adminVars, balance, postedAt, operator,
                 oracleApprovedRelease, counterBonds>>

\* Anyone returns a dead agent's bond to whoever funded it.
RescuedByCaller(a, caller) == caller
Rescued(a, caller) == operator[a]

releaseToOperator(caller, a) ==
  /\ balance[a] # 0
  /\ DeadlineFits(a)
  /\ ~isAgentAlive(a)
  /\ operator[a] # None
  /\ PaidOut(a, Rescued(a, caller))
  /\ UNCHANGED <<now, adminVars, clockVars, oracleApprovedRelease, counterBonds>>

-----------------------------------------------------------------------------
(***************************************************************************)
(* The owner, and the clock.                                               *)
(***************************************************************************)
setOracle(s) ==
  /\ oracle' = s
  /\ UNCHANGED <<activityChecker, releaseWindow, livenessTimeout, paused>>
setActivityChecker(set) ==
  /\ activityChecker' = set
  /\ UNCHANGED <<oracle, releaseWindow, livenessTimeout, paused>>
setReleaseWindow(w) ==
  /\ releaseWindow' = w
  /\ UNCHANGED <<oracle, activityChecker, livenessTimeout, paused>>
setLivenessTimeout(t) ==
  /\ livenessTimeout' = t
  /\ UNCHANGED <<oracle, activityChecker, releaseWindow, paused>>
Pause(on) ==                                              \* pause, unpause
  /\ paused # on
  /\ paused' = on
  /\ UNCHANGED <<oracle, activityChecker, releaseWindow, livenessTimeout>>

Tick ==
  /\ now < MaxTime                                   \* bound
  /\ now' = now + 1
  /\ UNCHANGED <<usdc, adminVars, bondVars, counterBonds>>

Post == \E a \in Agents, n \in Amounts : post(a, n)
Release == \E a \in Agents : release(a)
Collateral(S) ==
  \E s \in S, n \in Amounts : postCounterBond(s, n) \/ withdrawCounterBond(s, n)
Judge(S) ==
  \E s \in S, a \in Agents :
    approveRelease(s, a) \/ \E n \in Amounts : slash(s, a, n)
Poke == \E a \in Agents, alive \in BOOLEAN : pokeActivity(a, alive)
Rescue == \E caller \in Holders, a \in Agents : releaseToOperator(caller, a)
Administer ==
  /\ \/ \E s \in Oracles : setOracle(s)
     \/ \E set \in Checkers : setActivityChecker(set)
     \/ \E w \in Windows : setReleaseWindow(w)
     \/ \E t \in Timeouts : setLivenessTimeout(t)
     \/ \E on \in Pauses : Pause(on)
  /\ UNCHANGED <<now, usdc, bondVars, counterBonds>>

\* S: who calls as a slasher.
VaultNextBy(S) ==
  \/ Post \/ Release \/ Collateral(Agents \cup S) \/ Judge(S) \/ Poke \/ Rescue
  \/ Administer \/ Tick
VaultNext == VaultNextBy(Slashers)

VaultSpec == VaultInit /\ [][VaultNext]_vaultVars

\* An agent takes its bond home by either way that is open to it.
Home(a) == release(a) \/ releaseToOperator(a, a)

=============================================================================
