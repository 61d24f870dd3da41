----------------------- MODULE PerformanceOracleProps -----------------------
(***************************************************************************)
(* What the performance verdict promises agents, the oracle and whoever    *)
(* waits for the verdict.                                                  *)
(***************************************************************************)
EXTENDS PerformanceOracle, BondVaultProps

\* The realised return of advice ad at quote q, times |p0|, in bps.
LossBps(ad, q) == -(ad.direction * (q.price - ad.p0) * 10000)
BandBps(ad, q) ==
  ad.slashThresholdBps * Magnitude(ad.p0) + q.conf * 10000

\* In exact arithmetic, a loss beyond threshold and confidence band; and one
\* that is within them, give or take the one bps that rounding may cost.
Failed(ad, q) == LossBps(ad, q) > BandBps(ad, q)
PassedRoughly(ad, q) == LossBps(ad, q) < BandBps(ad, q) + Magnitude(ad.p0)

\* "price noise within the reported uncertainty never triggers a slash": a
\* verdict falls once, after the horizon, and in exact arithmetic, not in
\* truncated bps, the price it falls on deserves it, so no rounding of returns
\* or of the confidence band burns an honest bond; nothing else touches advice
\* that awaits its verdict.  (recordAdvice, resolve, _returnBps, _shouldSlash)
VerdictsMatchThePrice ==
  [][\A a \in Agents : Outstanding(a) /\ advice'[a] # advice[a] =>
       LET ad == advice[a]
           slashed == advice'[a].slashed
       IN /\ advice'[a] = [ad EXCEPT !.resolved = TRUE, !.slashed = slashed]
          /\ now >= ad.recordedAt + ad.horizonSecs
          /\ \A q \in Quotes : resolve(a, q) =>
               IF slashed THEN Failed(ad, q) ELSE PassedRoughly(ad, q)]_vars

\* A failure burns slashAmount of the agent's bond and as much of the
\* contract's own money, to the last coin, and leaves no counter-bond behind
\* that nobody could withdraw; a pass burns nothing and frees a bond that is
\* still there.  (resolve, postCounterBond, slash, approveRelease)
VerdictsMoveTheMoney ==
  [][\A a \in Agents : Outstanding(a) /\ advice'[a].resolved =>
       LET lost == IF advice'[a].slashed THEN advice[a].slashAmount ELSE 0
       IN /\ balance'[a] = balance[a] - lost
          /\ usdc'[PerfOracle] = usdc[PerfOracle] - lost
          /\ counterBonds'[PerfOracle] = 0
          /\ usdc'[Burn] = usdc[Burn] + 2 * lost
          /\ ~advice'[a].slashed =>
               oracleApprovedRelease'[a] /\ balance'[a] > 0]_vars

\* Once due, a verdict of the vault's oracle on a bond that covers it cannot be
\* blocked by anything but a pause, a changed exponent or a zero p0, provided
\* the contract holds slashAmount in hand: the top-up always makes the
\* counter-bond suffice and the vault always has both legs to burn.
\* (resolve, postCounterBond, slash)
FundedVerdictsGoThrough ==
  \A a \in Agents, q \in Quotes :
    LET ad == advice[a]
    IN /\ Outstanding(a) /\ now >= ad.recordedAt + ad.horizonSecs
       /\ oracle = PerfOracle /\ ~paused
       /\ q.expo = ad.expo /\ ad.p0 # 0
       /\ balance[a] >= ad.slashAmount
       /\ usdc[PerfOracle] >= ad.slashAmount
       => ENABLED resolve(a, q)

\* "Resolution is PERMISSIONLESS after the horizon -- anyone can ... pull the
\* verdict on-chain": advice recorded on a bond that covers it gets its verdict
\* if someone keeps resolving.  (resolve, release)
BondedAdviceGetsVerdict ==
  \A a \in Agents :
    (Outstanding(a) /\ balance[a] >= advice[a].slashAmount)
      ~> advice[a].resolved

=============================================================================
