-------------------------- MODULE DuelRunnerProps ---------------------------
(***************************************************************************)
(* What the recorder's process promises of the duels it runs, in terms of  *)
(* what the contract ends up holding.                                      *)
(***************************************************************************)
EXTENDS DuelRunner, FiniteSetsExt

\* Injections bought against agent a so far.
Against(a) == {i \in 1 .. injectionCount : injectionTarget[i] = a}

\* An injection counts once: however polls fail, cycles run late and receipts
\* get lost, the contract never holds more ingested injections against an
\* agent than spectators bought.  The contract would accept the same id again
\* and again; only the runner's block window prevents it.
\* (poll_injections, run_cycle)
InjectionsCountOnce ==
  \A a \in Agents : injectionsIngested[a] <= Cardinality(Against(a))

\* The duel agent a fights in, and its side.
Fought(a) == {k \in DOMAIN duels : a \in {Pairs[k][1], Pairs[k][2]}}

\* Between two cycles the leaderboard says what the contract says, score for
\* score and injection for injection, of every agent whose duel has seen no
\* error.  (Arena.run, _aggregate, reportCall)
StandingsMatchTheChain ==
  phase \notin {"second", "anchor"} =>
    \A a \in Agents : \A k \in Fought(a) : k \notin faulty =>
      /\ standings[a].alpha = score[duels[k]][SideOf(duels[k], a)]
      /\ standings[a].ingested = injectionsIngested[a]
      /\ standings[a].survived = survivedInjections[a]

\* Of the injections on one target in the blocks polled so far, the latest is
\* settled or about to be reported, unless an error ended the duel's cycles:
\* the window moves on only past what is scored, and a superseded injection is
\* superseded by one that settles.  (poll_injections, Arena.run)
LatestPolledIsScored ==
  \A k \in DOMAIN duels :
    k = Len(duels) /\ k = pair /\ k \notin faulty =>
      \A s \in 1 .. 2 :
        LET seen == {i \in Against(Pairs[k][s]) :
                       minedAt[i] >= since /\ minedAt[i] < fromBlock}
        IN since > 0 /\ seen # {} =>
             injectionEscrows[Max(seen)] = 0 \/ hand[Pairs[k][s]] = Max(seen)

\* What the process waits covers duel k.  The arena's clock starts when the duel is
\* on the chain, so it always does; the cli's starts before it sends the creation
\* (main), so it does if the creation is mined within the buffer.
WaitCovers(k) ==
  mode = "cli" => endsAt[duels[k]] <= createdAt + BettingTime + Duration + Buffer

\* A duel in which nothing raised, and which is covered by the wait, is resolved
\* when its run is over: no failed poll and no lost cycle makes the runner
\* come too early.  (Arena.run, main)
CleanDuelsAreResolved ==
  \A k \in DOMAIN duels :
    (k < pair \/ phase \in {"done", "crashed"}) /\ k \notin faulty /\ WaitCovers(k) =>
      status[duels[k]] = "Resolved"

\* The process comes to an end, whatever polls and sends fail: no failure
\* makes it wait for ever.  (Arena.run, main)
RunnerFinishes == <>(phase \in {"done", "crashed"})

=============================================================================
