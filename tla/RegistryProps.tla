--------------------------- MODULE RegistryProps ----------------------------
(***************************************************************************)
(* What readers of the arena's record may rely on.                         *)
(***************************************************************************)
EXTENDS Registry, Coins

Recorded(p, kind) ==
  {call \in BagToSet(feed) : call.kind = kind /\ call.by = <<p, boots[p]>>}

\* Advice on the feed can be queried: under its id the process that published it
\* and is alive still holds its trace, also if it gave up on the receipt or its
\* transaction came late, or what was published under that id after it; never an
\* older trace, and never nothing.  (publish_advice, MemoryService.add)
PublishedIsKnown ==
  \A p \in {"api", "runner"} : pc[p] # "off" =>
    \A call \in Recorded(p, "ADVICE_PUBLISHED") :
      LET id == call.about[1]
          entries == memory[p].entries
      IN /\ id \in DOMAIN entries
         /\ entries[id].added >= call.about[3]
         /\ entries[id].added = call.about[3] => entries[id].trace = call.about[2]

\* The feed never reports more burns than there were verdicts of burning in answer
\* to the same question, that is from the oracle and on the advice that the
\* requests named, and never more releases than verdicts and silent successes.
\* Where they named the directory's oracle and the operator, that is what the
\* directory counts less what strangers pulled.  A resolve that reverted, or that
\* came after a stranger's, leaves no outcome.
\* (resolve_bond, resolve_agent, _scan_resolve_history)
Reported(kind, asked) ==
  Total(feed, {call \in BagToSet(feed) : call.kind = kind /\ call.about = asked})
OutcomesAreVerdicts ==
  /\ \A asked \in Questions :
       LET own == verdicts["own"][asked]
       IN /\ Reported("BOND_SLASHED", asked) <= own["slashed"]
          /\ Reported("BOND_RELEASED", asked) <= own["passed"] + own["ok"]
  /\ LET directory == <<"config", Operator>>
         strangers == Listed("stranger")
     IN /\ Reported("BOND_SLASHED", directory) <= Reputation.losses - strangers["slashed"]
        /\ Reported("BOND_RELEASED", directory) <= Reputation.wins - strangers["passed"]

\* However often an identity changes hands and whoever anchors by address, the
\* latest anchor, the count and the history tell the same: one record per anchor,
\* the last of them the latest.  (MemoryAnchor.anchor)
SlotOf(account) == IF account \in Identities THEN account ELSE Legacy
HistoryOf(account) ==       \* the places of its records in its slot
  {k \in DOMAIN anchors[SlotOf(account)] :
     account \in Identities \/ anchors[Legacy][k].owner = account}
AnchorsAgree ==
  \A account \in Accounts :
    /\ latest[account].sequence = Cardinality(HistoryOf(account))
    /\ \A k \in HistoryOf(account) : (\A j \in HistoryOf(account) : j <= k) =>
         latest[account].root = anchors[SlotOf(account)][k].root

\* A runner ends, and unless it was stopped it has tried every agent in every
\* cycle, whatever failed for the agents before.  (run_cycle, run_n_cycles)
RunnerServesEveryone ==
  pc["runner"] # "off" ~>
    pc["runner"] = "off"
    /\ (stop \/ run.tried = (1 .. Cycles) \X DOMAIN Ids)

=============================================================================
