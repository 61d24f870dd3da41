--------------------------- MODULE BondVaultProps ---------------------------
(***************************************************************************)
(* What BondVault.sol promises the agents and slashers whose money it      *)
(* holds.                                                                  *)
(***************************************************************************)
EXTENDS BondVault

VaultTypeOK ==
  /\ now \in Nat
  /\ usdc \in [Accounts -> Nat]
  /\ oracle \in Slashers \cup {None}
  /\ activityChecker \in BOOLEAN /\ paused \in BOOLEAN
  /\ releaseWindow \in Nat /\ livenessTimeout \in Nat
  /\ balance \in [Agents -> Nat]
  /\ postedAt \in [Agents -> Nat]
  /\ lastActivityAt \in [Agents -> Nat]
  /\ oracleApprovedRelease \in [Agents -> BOOLEAN]
  /\ operator \in [Agents -> Agents \cup {None}]
  /\ counterBonds \in [Holders -> Nat]

\* What makes the two money properties inductive: a bond is rescued to the
\* agent itself, the only one who can have funded it.
SelfFunded == \A a \in Agents : operator[a] \in {a, None}

BondsHeld == Total(balance, Agents)
CounterBondsHeld == Total(counterBonds, Holders)

\* The vault holds exactly the bonds and the counter-bonds: no order of posts,
\* releases, rescues, slashes and withdrawals of several agents and slashers
\* pays one out of the other.  (post, release, slash, withdrawCounterBond)
VaultSolvent == usdc[Vault] = BondsHeld + CounterBondsHeld

\* All that x owns, in hand or in the vault.
BondOf(x) == IF x \in Agents THEN balance[x] ELSE 0
Wealth(x) == usdc[x] + BondOf(x) + counterBonds[x]

\* "neither party can ever profit from a slash": nobody's wealth ever grows,
\* and it falls only when the burn sink receives twice what the slashed agent
\* loses, the other half being the slasher's: moving bonds in and out, rescues
\* by third parties and changes of oracle never shift money between owners.
\* (post, release, slash, releaseToOperator)
NobodyProfits ==
  [][LET burned == usdc'[Burn] - usdc[Burn]
         loss(x) == Wealth(x) - Wealth(x)'
     IN IF burned = 0 THEN \A x \in Holders : loss(x) = 0
        ELSE \E s \in Slashers, a \in Agents :
               /\ \A x \in Holders \ {s, a} : loss(x) = 0
               /\ burned > 0
               /\ IF s = a THEN loss(s) = burned
                  ELSE 2 * loss(s) = burned /\ 2 * loss(a) = burned]_vaultVars

\* What it takes to keep a bond: a window longer than the first, where the oracle
\* has not approved or where not even its end can be worked out, and on top of it
\* a longer timeout or an agent that was found alive after it posted.  "Longer"
\* stands for longer than anyone waits.
KeptBack(a) ==
  /\ releaseWindow > InitialWindow
  /\ oracleApprovedRelease[a] => ~WindowFits(a)
  /\ livenessTimeout > InitialTimeout \/ lastActivityAt[a] > postedAt[a]

\* "pausing is a circuit breaker ... NOT against agents trying to rescue their
\* funds": once the agent stops adding to it, a bond comes home through release or
\* through its rescue, whatever the owner pauses or rewires and whatever the
\* oracle does, unless the owner raises the window and the rescue is out of reach
\* as well: neither a raised window nor a raised timeout is enough alone, and an
\* approval beats a raised window unless that is so long that the addition in
\* release overflows.  (release, releaseToOperator, isAgentAlive, setReleaseWindow)
BondsComeHome ==
  \A a \in Agents : balance[a] > 0 ~> (balance[a] = 0 \/ KeptBack(a))

=============================================================================
