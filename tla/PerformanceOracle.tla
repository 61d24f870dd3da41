-------------------------- MODULE PerformanceOracle --------------------------
(***************************************************************************)
(* contracts/src/PerformanceOracle.sol, composed with the vault it judges  *)
(* for.  The recorder commits an agent's advice with the price of the day; *)
(* after the horizon anyone brings a fresh price and the contract either   *)
(* slashes the bond, against a counter-bond it posts on the spot, or       *)
(* approves its release.                                                   *)
(*                                                                         *)
(* Pyth is external: the caller's update makes some quote the fresh price, *)
(* any of Quotes.  The update fee and its refund, the feed id (one feed)   *)
(* and conf0 (never read) are left out.  The recorder and resolve's        *)
(* callers need no account.                                                *)
(***************************************************************************)
EXTENDS BondVault

CONSTANTS
  PerfOracle,    \* this contract's account, one of the slashers
  Quotes,        \* Pyth answers [price, conf, expo]
  Horizons, Thresholds, SlashAmounts,   \* inputs tried
  MaxAdvice      \* bound on the time of the last recordAdvice

ASSUME OracleAssumption == PerfOracle \in Slashers /\ PerfOracle \notin Agents

ASSUME OracleInputs ==
  /\ Quotes \subseteq [price : Int, conf : Nat, expo : Int]
  /\ Horizons \subseteq Nat /\ Thresholds \subseteq Nat
  /\ SlashAmounts \subseteq Nat /\ MaxAdvice \in Nat

VARIABLE advice

vars == <<vaultVars, advice>>

NoAdvice ==
  [direction |-> 1, p0 |-> 0, expo |-> 0, recordedAt |-> 0, horizonSecs |-> 0,
   slashThresholdBps |-> 0, slashAmount |-> 0,
   exists |-> FALSE, resolved |-> FALSE, slashed |-> FALSE]

Init == VaultInit /\ advice = [a \in Agents |-> NoAdvice]

Outstanding(a) == advice[a].exists /\ ~advice[a].resolved

-----------------------------------------------------------------------------
MayRecord(a) == ~Outstanding(a)

\* Nothing asks whether the agent has a bond.
recordAdvice(a, direction, horizon, threshold, amount, q) ==
  /\ direction \in {1, -1}
  /\ horizon # 0
  /\ amount # 0
  /\ MayRecord(a)
  /\ now <= MaxAdvice                                 \* bound
  /\ advice' = [advice EXCEPT ![a] =
       [direction |-> direction, p0 |-> q.price, expo |-> q.expo,
        recordedAt |-> now, horizonSecs |-> horizon,
        slashThresholdBps |-> threshold, slashAmount |-> amount,
        exists |-> TRUE, resolved |-> FALSE, slashed |-> FALSE]]
  /\ UNCHANGED vaultVars

Magnitude(p) == IF p >= 0 THEN p ELSE -p

\* Signed division truncates towards zero.
Quotient(n, d) == IF n >= 0 THEN n \div d ELSE -((-n) \div d)

_returnBpsRoundedDown(p0, p1, direction) ==
  (direction * (p1 - p0) * 10000) \div Magnitude(p0)
_returnBps(p0, p1, direction) ==
  Quotient(direction * (p1 - p0) * 10000, Magnitude(p0))

\* A loss beyond the threshold and the confidence band, both in bps of p0.
_shouldSlash(rBps, threshold, conf1, p0) ==
  /\ rBps < 0
  /\ rBps < -(threshold + (conf1 * 10000) \div Magnitude(p0))

isResolvable(a) ==
  Outstanding(a) /\ now >= advice[a].recordedAt + advice[a].horizonSecs

\* How much the contract must add to its counter-bond before a slash.
NoShortfall(a) == 0
Shortfall(a) ==
  IF counterBonds[PerfOracle] < advice[a].slashAmount
  THEN advice[a].slashAmount - counterBonds[PerfOracle] ELSE 0

\* Both balances once the contract has posted that much.
ToppedUp(a) == [counterBonds EXCEPT ![PerfOracle] = @ + Shortfall(a)]
PaidIn(a) == Moved(usdc, PerfOracle, Vault, Shortfall(a))

MaySlashAsOracle(a) ==
  /\ Shortfall(a) > 0 => ~paused /\ usdc[PerfOracle] >= Shortfall(a)
  /\ MaySlash(ToppedUp(a), PaidIn(a), PerfOracle, a, advice[a].slashAmount)
SlashAsOracle(a) ==
  Slashed(ToppedUp(a), PaidIn(a), PerfOracle, a, advice[a].slashAmount)

\* The verdict on advice ad at quote q.
Slashes(ad, q) ==
  _shouldSlash(_returnBps(ad.p0, q.price, ad.direction),
               ad.slashThresholdBps, q.conf, ad.p0)

\* Every condition of the transaction, those of its calls into the vault with
\* it: a revert of the vault's reverts it all, and the advice stays outstanding.
MayResolve(a, q) ==
  LET ad == advice[a]
  IN /\ isResolvable(a)
     /\ q.expo = ad.expo
     /\ ad.p0 # 0
     /\ IF Slashes(ad, q) THEN MaySlashAsOracle(a) ELSE MayApprove(PerfOracle, a)

resolve(a, q) ==
  LET slashes == Slashes(advice[a], q)
  IN /\ MayResolve(a, q)
     /\ advice' = [advice EXCEPT ![a].resolved = TRUE, ![a].slashed = slashes]
     /\ \/ slashes /\ SlashAsOracle(a)
        \/ ~slashes /\ Approved(a)
     /\ UNCHANGED <<now, adminVars>>

-----------------------------------------------------------------------------
Advise ==
  \E a \in Agents, direction \in {1, -1}, h \in Horizons, t \in Thresholds,
     n \in SlashAmounts, q \in Quotes : recordAdvice(a, direction, h, t, n, q)
ResolveFor(a) == \E q \in Quotes : resolve(a, q)

\* The contract calls the vault from resolve only.
Vaulting == VaultNextBy(Slashers \ {PerfOracle}) /\ UNCHANGED advice

Next == Vaulting \/ Advise \/ (\E a \in Agents : ResolveFor(a))

Spec == Init /\ [][Next]_vars

\* Blocks keep coming, and an agent takes its bond home when it may.
FairRelease ==
  Spec /\ WF_vars(Tick /\ UNCHANGED advice)
       /\ \A a \in Agents : WF_vars(Home(a) /\ UNCHANGED advice)

\* resolve is permissionless: someone keeps calling it with a fresh price.
FairSpec ==
  Spec /\ WF_vars(Tick /\ UNCHANGED advice)
       /\ \A a \in Agents : WF_vars(ResolveFor(a))

=============================================================================
