------------------------- MODULE DuelRunnerTheorems -------------------------
(***************************************************************************)
(* Theorems about DuelRunner, for any pairs, windows and failures: an      *)
(* injection counts once, the standings are what the contract says, the    *)
(* latest injection a poll saw is scored, and a duel in which nothing      *)
(* raised is resolved when its run is over.                                *)
(***************************************************************************)
EXTENDS DuelRunnerProps, ColosseumTheorems

Phases == {"register", "create", "open", "poll", "first", "second", "anchor",
           "sleep", "settle", "resolve", "done", "crashed"}
Before == {"register", "create"}
Within == Phases \ {"register", "create", "done", "crashed"}

\* The types, as far as the proofs ask.
ChainTypeOK ==
  /\ now \in Nat /\ duelCount \in 0 .. MaxDuels
  /\ settings \in Settings
  /\ status \in [DuelIds -> Statuses]
  /\ agentOf \in [DuelIds -> [Sides -> Agents \cup {None}]]
  /\ endsAt \in [DuelIds -> Nat]
  /\ DOMAIN score = DuelIds /\ \A d \in DuelIds : DOMAIN score[d] = Sides
  /\ injectionsIngested \in [Agents -> Nat]
  /\ survivedInjections \in [Agents -> Nat]
  /\ injectionCount \in 0 .. MaxInjections
  /\ injectionEscrows \in [InjectionIds -> Nat]
  /\ injectionTarget \in [InjectionIds -> Agents \cup {None}]
RunnerTypeOK ==
  /\ mode \in Modes /\ phase \in Phases /\ pair \in DOMAIN Pairs
  /\ duels \in Seq(DuelIds)
  /\ hand \in [Agents -> 0 .. MaxInjections]
  /\ DOMAIN standings = Agents
  /\ fromBlock \in Nat /\ since \in Nat
  /\ createdAt \in Nat /\ wakeAt \in Nat
  /\ minedAt \in [InjectionIds -> Nat]

\* Every duel of the process is on the chain, between its pair; the current one
\* is the last.
DuelsAreOnChain ==
  /\ phase \in Before => Len(duels) = pair - 1
  /\ phase \in Within \cup {"done"} => Len(duels) = pair
  /\ phase = "crashed" => Len(duels) \in {pair - 1, pair}
  /\ \A k \in DOMAIN duels :
       /\ duels[k] <= duelCount
       /\ agentOf[duels[k]]["A"] = Pairs[k][1]
       /\ agentOf[duels[k]]["B"] = Pairs[k][2]
       /\ Pairs[k][1] # Pairs[k][2]
       /\ status[duels[k]] \in {"Live", "Resolved"}
  /\ \A j, k \in DOMAIN duels : duels[j] = duels[k] => j = k

\* Injections are held from the poll until the cycle is over.
HandsAreEmpty == phase \notin {"first", "second", "anchor"} => hand = NoInjections

RunInv == ChainTypeOK /\ RunnerTypeOK /\ DuelsAreOnChain /\ HandsAreEmpty

\* Blocks: events are mined in the order of their ids, none in a block yet to be
\* built; the polls' window opens and closes in that order, at that block at the
\* latest, and has not opened before trading begins.
BlocksInv ==
  /\ since <= fromBlock /\ fromBlock <= Building
  /\ phase = "open" => fromBlock = 0
  /\ \A i \in 1 .. injectionCount : minedAt[i] <= Building
  /\ \A i, j \in 1 .. injectionCount : i <= j => minedAt[i] <= minedAt[j]

-----------------------------------------------------------------------------
\* What the contract and the process have counted for an agent.
IsOnChain(r, k, s) ==
  /\ r.alpha = score[duels[k]][IF s = 1 THEN "A" ELSE "B"]
  /\ r.ingested = injectionsIngested[Pairs[k][s]]
  /\ r.survived = survivedInjections[Pairs[k][s]]

\* The report of the cycle that has not joined the standings yet.
Recorded(k, s) ==
  LET r == standings[Pairs[k][s]]
  IN IF k = pair /\ s = 1 /\ phase \in {"second", "anchor"} THEN Add(r, out)
     ELSE IF k = pair /\ s = 2 /\ phase = "anchor" THEN Add(r, last)
     ELSE r

StandingsInv ==
  /\ \A d \in DuelIds : d > duelCount => score[d] = [s \in Sides |-> 0]
  /\ \A a \in Agents : Fought(a) = {} =>
       /\ standings[a] = NoReport
       /\ injectionsIngested[a] = 0 /\ survivedInjections[a] = 0
  /\ \A k \in DOMAIN duels, s \in 1 .. 2 :
       k \notin faulty => IsOnChain(Recorded(k, s), k, s)

-----------------------------------------------------------------------------
\* A report that is still to be sent for an injection.
Pending(a) ==
  /\ hand[a] # 0
  /\ \/ phase = "first"
     \/ phase = "second" /\ a = AgentB

\* Injections against a that polls have covered.
Covered(a) == {i \in Against(a) : minedAt[i] < fromBlock}

IsCovered(s) ==
  LET a == Pairs[pair][s]
  IN injectionsIngested[a] + (IF Pending(a) THEN 1 ELSE 0) <= Cardinality(Covered(a))

CountInv ==
  /\ InjectionsCountOnce
  /\ phase \in Within => \A s \in 1 .. 2 : IsCovered(s)

\* Those the polls of this duel have found.
Seen(a) == {i \in Covered(a) : minedAt[i] >= since}
\* The latest injection on a that polls have covered is settled, or will be by
\* the report that is pending.
LatestIsSettled(a) ==
  since > 0 /\ Seen(a) # {} =>
    \E m \in Seen(a) :
      /\ \A j \in Seen(a) : j <= m
      /\ injectionEscrows[m] = 0 \/ (hand[a] = m /\ Pending(a))

LatestInv ==
  Len(duels) = pair /\ pair \notin faulty =>
    \A s \in 1 .. 2 : LatestIsSettled(Pairs[pair][s])

-----------------------------------------------------------------------------
CleanInv ==
  /\ CleanDuelsAreResolved
  /\ phase = "register" => duels = << >>
  /\ phase \in Within =>
       /\ mode # "cli" => endsAt[duel] = createdAt + BettingTime + Duration
       /\ endsAt[duel] <= MaxTime
  /\ pair \notin faulty /\ WaitCovers(pair) =>
       /\ phase = "settle" => wakeAt >= endsAt[duel]
       /\ phase = "resolve" => Over(duel)

-----------------------------------------------------------------------------
(***************************************************************************)
(* What the contract's functions do to what the process depends on.        *)
(***************************************************************************)
duelFacts == <<duelCount, status, agentOf, endsAt>>
counts == <<score, injectionsIngested, survivedInjections>>
chaosFacts == <<injectionCount, injectionEscrows, injectionTarget>>

LEMMA VarsFacts ==
  ASSUME UNCHANGED vars
  PROVE  UNCHANGED <<now, settings, duelFacts, counts, chaosFacts>>
BY DEF vars, duelVars, resilienceVars, chaosVars, duelFacts, counts, chaosFacts

LEMMA RegisterEffect ==
  ASSUME NEW p, NEW a, registerAgent(p, a)
  PROVE  UNCHANGED <<now, settings, duelFacts, counts, chaosFacts>>
BY DEF registerAgent, duelVars, resilienceVars, chaosVars, duelFacts, counts,
   chaosFacts

LEMMA CreateEffect ==
  ASSUME NEW a, NEW b, NEW m, NEW n, createDuel(a, b, m, n)
  PROVE  /\ a # b /\ duelCount + 1 <= MaxDuels /\ now + m + n <= MaxTime
         /\ duelCount' = duelCount + 1
         /\ status' = [status EXCEPT ![duelCount + 1] = "Live"]
         /\ agentOf' = [agentOf EXCEPT ![duelCount + 1] =
                          [s \in Sides |-> IF s = "A" THEN a ELSE b]]
         /\ endsAt' = [endsAt EXCEPT ![duelCount + 1] = now + m + n]
         /\ UNCHANGED <<now, settings, counts, chaosFacts>>
BY DEF createDuel, resilienceVars, chaosVars, counts, chaosFacts

LEMMA ResolveEffect ==
  ASSUME NEW d, resolve(d)
  PROVE  /\ Live(d) /\ Over(d)
         /\ status' = [status EXCEPT ![d] = "Resolved"]
         /\ UNCHANGED <<now, settings, duelCount, agentOf, endsAt, counts, chaosFacts>>
BY DEF resolve, MayBeResolved, resilienceVars, chaosVars, counts, chaosFacts

LEMMA InjectEffect ==
  ASSUME NEW p, NEW d, NEW a, NEW item, injectChaos(p, d, a, item)
  PROVE  /\ Live(d) /\ a \in Duelists(d)
         /\ injectionCount + 1 <= MaxInjections
         /\ injectionCount' = injectionCount + 1
         /\ injectionEscrows' = [injectionEscrows EXCEPT
              ![injectionCount + 1] = Escrow(settings.itemPrice[item])]
         /\ injectionTarget' = [injectionTarget EXCEPT ![injectionCount + 1] = a]
         /\ UNCHANGED <<now, settings, duelFacts, counts>>
BY DEF injectChaos, duelVars, resilienceVars, duelFacts, counts

LEMMA TickEffect ==
  ASSUME Tick
  PROVE  now' = now + 1 /\ UNCHANGED <<settings, duelFacts, counts, chaosFacts>>
BY DEF Tick, duelVars, resilienceVars, chaosVars, duelFacts, counts, chaosFacts

-----------------------------------------------------------------------------
(***************************************************************************)
(* What a step does to the chain, as far as the process is concerned.      *)
(***************************************************************************)
Still == UNCHANGED <<now, settings, duelFacts, counts, chaosFacts>>

Announces(a, b, m, n) ==
  /\ phase = "create"
  /\ a # b /\ duelCount + 1 <= MaxDuels /\ now + m + n <= MaxTime
  /\ duelCount' = duelCount + 1
  /\ status' = [status EXCEPT ![duelCount + 1] = "Live"]
  /\ agentOf' = [agentOf EXCEPT ![duelCount + 1] =
                   [s \in Sides |-> IF s = "A" THEN a ELSE b]]
  /\ endsAt' = [endsAt EXCEPT ![duelCount + 1] = now + m + n]
  /\ UNCHANGED <<now, settings, counts, chaosFacts>>

Reports(a, c) ==
  /\ Live(duel) /\ a \in Duelists(duel)
  /\ score' = [score EXCEPT ![duel][SideOf(duel, a)] = @ + c.r]
  /\ injectionsIngested' =
       [injectionsIngested EXCEPT ![a] = @ + IF hand[a] # 0 THEN 1 ELSE 0]
  /\ survivedInjections' =
       [survivedInjections EXCEPT
          ![a] = @ + IF hand[a] # 0 /\ c.survived THEN 1 ELSE 0]
  /\ IF Settles(hand[a])
     THEN injectionEscrows' = [injectionEscrows EXCEPT ![hand[a]] = 0]
     ELSE injectionEscrows' = injectionEscrows
  /\ UNCHANGED <<now, settings, duelFacts, injectionCount, injectionTarget>>

Resolves(d) ==
  /\ Live(d) /\ Over(d)
  /\ status' = [status EXCEPT ![d] = "Resolved"]
  /\ UNCHANGED <<now, settings, duelCount, agentOf, endsAt, counts, chaosFacts>>

Sells(a, item) ==
  /\ injectionCount + 1 <= MaxInjections
  /\ injectionCount' = injectionCount + 1
  /\ injectionEscrows' = [injectionEscrows EXCEPT
       ![injectionCount + 1] = Escrow(settings.itemPrice[item])]
  /\ injectionTarget' = [injectionTarget EXCEPT ![injectionCount + 1] = a]
  /\ minedAt' = [minedAt EXCEPT ![injectionCount + 1] = Building]
  /\ UNCHANGED <<now, settings, duelFacts, counts>>

Ticks == now' = now + 1 /\ UNCHANGED <<settings, duelFacts, counts, chaosFacts>>

\* Every report of a cycle is one of these.
LEMMA ScoreReports == ASSUME NEW a, NEW c, Score(a, c) PROVE Reports(a, c)
BY DEF Score, Reports, reportCall, SettleInjection, duelFacts

LEMMA RegisterStill == RegisterAgents => Still
BY RegisterEffect, VarsFacts DEF RegisterAgents, Still

LEMMA CreateAnnounces ==
  createDuel(AgentA, AgentB, BettingTime, Duration) /\ phase = "create"
    => Announces(AgentA, AgentB, BettingTime, Duration)
<1> SUFFICES ASSUME createDuel(AgentA, AgentB, BettingTime, Duration), phase = "create"
             PROVE  Announces(AgentA, AgentB, BettingTime, Duration)
  OBVIOUS
<1> QED BY CreateEffect DEF Announces

\* What may happen to the chain in a step.
ChainStep ==
  \/ Still
  \/ Announces(AgentA, AgentB, BettingTime, Duration)
  \/ \E a \in {AgentA, AgentB} : \E c : Reports(a, c)
  \/ \E d : Resolves(d)
  \/ \E d \in DuelIds, a \in Agents, item \in Items :
       Live(d) /\ a \in Duelists(d) /\ Sells(a, item)
  \/ Ticks

LEMMA ChainSteps == ASSUME [RunNext]_runVars PROVE ChainStep
<1>1. CASE RegisterAgents
  BY <1>1, RegisterStill DEF ChainStep
<1>2. CASE CreateDuel \/ ReceiptLost
  BY <1>2, CreateAnnounces, ResolveEffect DEF CreateDuel, ReceiptLost, ChainStep, Resolves
<1>3. CASE ReportFirst \/ ReportSecond
  BY <1>3, ScoreReports DEF ReportFirst, ReportSecond, ChainStep
<1>4. CASE ResolveDuel \/ StrangerResolves
  BY <1>4, ResolveEffect DEF ResolveDuel, StrangerResolves, Resolve, ChainStep, Resolves
<1>5. CASE Flashbang
  BY <1>5, InjectEffect DEF Flashbang, Inject, ChainStep, Sells
<1>6. CASE Elapse
  BY <1>6, TickEffect DEF Elapse, ChainStep, Ticks
<1>7. CASE TradingBegins \/ Poll \/ AnchorRoots \/ Wake \/ SendFails \/ UNCHANGED runVars
  <2>1. UNCHANGED vars
    BY <1>7 DEF TradingBegins, Poll, AfterPoll, AnchorRoots, Wake, SendFails, runVars
  <2> QED BY <2>1, VarsFacts DEF ChainStep, Still
<1> QED BY <1>1, <1>2, <1>3, <1>4, <1>5, <1>6, <1>7 DEF RunNext, Runner

-----------------------------------------------------------------------------
(***************************************************************************)
(* Types, and the duels of the process on the chain.                       *)
(***************************************************************************)
LEMMA FieldFacts ==
  /\ Len(Pairs) \in Nat /\ DOMAIN Pairs = 1 .. Len(Pairs) /\ 1 \in DOMAIN Pairs
  /\ \A k \in DOMAIN Pairs : Pairs[k][1] \in Agents /\ Pairs[k][2] \in Agents
  /\ \A k \in DOMAIN Pairs, s \in 1 .. 2 : Pairs[k][s] \in Agents
<1>1. Pairs \in Seq(Agents \X Agents) /\ Pairs # << >>
  BY DriverAssumption, FieldAssumption DEF DriverAssumption, FieldAssumption
<1>2. \A k \in DOMAIN Pairs : Pairs[k] \in Agents \X Agents
  BY <1>1
<1> QED BY <1>1, <1>2

LEMMA TimesFacts ==
  ASSUME mode \in Modes
  PROVE  /\ Duration \in Nat \ {0} /\ BettingTime \in Nat
         /\ Buffer \in Nat /\ Window = BettingTime + Duration + Buffer
         /\ Window \in Nat /\ MaxTime \in Nat
<1>1. /\ DurationOf \in [Modes -> Nat \ {0}] /\ Buffer \in Nat /\ Betting \in Nat
      /\ MaxTime \in Nat
  BY DriverAssumption, BoundsAssumption DEF DriverAssumption, BoundsAssumption
<1> QED BY <1>1 DEF Duration, BettingTime, Window

LEMMA PauseIsNat == ASSUME mode \in Modes PROVE Pause \in Nat
<1>1. /\ Cycles \in Nat \ {0} /\ Interval \in Nat /\ Duration \in Nat
  BY TimesFacts, DriverAssumption DEF DriverAssumption
<1>2. 4 * Cycles \in Nat \ {0}
  BY <1>1
<1>3. Duration \div (4 * Cycles) \in Nat
  BY <1>1, <1>2, SMTT(60)
<1> HIDE DEF Duration
<1> QED BY <1>1, <1>3 DEF Pause, Larger

LEMMA SleepIsNat ==
  ASSUME NEW t \in Nat, SleepUntil(t)
  PROVE  wakeAt' \in Nat /\ (t <= MaxTime => wakeAt' = t)
         /\ (MaxTime <= t => wakeAt' = MaxTime)
BY BoundsAssumption DEF SleepUntil, BoundsAssumption

LEMMA RunTypeInit == RunnerInit => ChainTypeOK /\ RunnerTypeOK
<1> SUFFICES ASSUME RunnerInit PROVE ChainTypeOK /\ RunnerTypeOK
  OBVIOUS
<1>1. ChainTypeOK
  BY BoundsAssumption, DeploymentAssumption DEF BoundsAssumption, DeploymentAssumption,
     RunnerInit, Init, ChainTypeOK, Statuses
<1>2. RunnerTypeOK
  <2>1. pair = 1 /\ pair \in DOMAIN Pairs
    BY FieldFacts DEF RunnerInit
  <2>2. MaxInjections \in Nat
    BY BoundsAssumption DEF BoundsAssumption
  <2> QED BY <2>1, <2>2 DEF RunnerInit, RunnerTypeOK, NoInjections, Phases
<1> QED BY <1>1, <1>2

LEMMA ChainTypeStep ==
  ASSUME ChainTypeOK, RunnerTypeOK, ChainStep
  PROVE  ChainTypeOK'
<1> USE DEF duelFacts, counts, chaosFacts
<1>0. MaxDuels \in Nat /\ MaxInjections \in Nat
  BY BoundsAssumption DEF BoundsAssumption
<1>1. CASE Still
  BY <1>1 DEF Still, ChainTypeOK
<1>2. CASE Announces(AgentA, AgentB, BettingTime, Duration)
  <2>1. AgentA \in Agents /\ AgentB \in Agents
    BY FieldFacts DEF AgentA, AgentB, RunnerTypeOK
  <2>2. BettingTime \in Nat /\ Duration \in Nat
    BY TimesFacts DEF RunnerTypeOK
  <2> HIDE DEF AgentA, AgentB, BettingTime, Duration
  <2>3. /\ now + BettingTime + Duration \in Nat
        /\ [s \in Sides |-> IF s = "A" THEN AgentA ELSE AgentB]
             \in [Sides -> Agents \cup {None}]
        /\ "Live" \in Statuses
    BY <2>1, <2>2 DEF ChainTypeOK, Statuses
  <2> DEFINE fresh == duelCount + 1
  <2>4. fresh \in DuelIds /\ fresh \in 0 .. MaxDuels
    BY <1>0, <1>2 DEF Announces, ChainTypeOK, DuelIds
  <2>5. /\ duelCount' = fresh
        /\ status' = [status EXCEPT ![fresh] = "Live"]
        /\ agentOf' = [agentOf EXCEPT ![fresh] =
                         [s \in Sides |-> IF s = "A" THEN AgentA ELSE AgentB]]
        /\ endsAt' = [endsAt EXCEPT ![fresh] = now + BettingTime + Duration]
        /\ UNCHANGED <<now, settings, counts, chaosFacts>>
    BY <1>2 DEF Announces
  <2> HIDE DEF fresh
  <2>6. /\ status' \in [DuelIds -> Statuses]
        /\ agentOf' \in [DuelIds -> [Sides -> Agents \cup {None}]]
        /\ endsAt' \in [DuelIds -> Nat]
    BY <2>3, <2>5 DEF ChainTypeOK
  <2> QED BY <2>4, <2>5, <2>6 DEF ChainTypeOK
<1>3. CASE \E a \in {AgentA, AgentB} : \E c : Reports(a, c)
  <2>1. PICK a, c : Reports(a, c)
    BY <1>3
  <2>2. /\ injectionsIngested' \in [Agents -> Nat]
        /\ survivedInjections' \in [Agents -> Nat]
    <3> DEFINE m == IF hand[a] # 0 THEN 1 ELSE 0
               n == IF hand[a] # 0 /\ c.survived THEN 1 ELSE 0
    <3>1. m \in Nat /\ n \in Nat
      OBVIOUS
    <3>2. /\ injectionsIngested' = [injectionsIngested EXCEPT ![a] = @ + m]
          /\ survivedInjections' = [survivedInjections EXCEPT ![a] = @ + n]
      BY <2>1 DEF Reports
    <3>3. injectionsIngested \in [Agents -> Nat] /\ survivedInjections \in [Agents -> Nat]
      BY DEF ChainTypeOK
    <3> HIDE DEF m, n
    <3>4. /\ \A x \in Agents : injectionsIngested[x] + m \in Nat
          /\ \A x \in Agents : survivedInjections[x] + n \in Nat
      BY <3>1, <3>3
    <3> QED BY <3>2, <3>3, <3>4
  <2>3. injectionEscrows' \in [InjectionIds -> Nat]
    BY <2>1 DEF Reports, ChainTypeOK
  <2>4. DOMAIN score' = DuelIds /\ \A d \in DuelIds : DOMAIN score'[d] = Sides
    BY <2>1 DEF Reports, ChainTypeOK
  <2> QED BY <2>1, <2>2, <2>3, <2>4 DEF Reports, ChainTypeOK
<1>4. CASE \E d : Resolves(d)
  BY <1>4 DEF Resolves, ChainTypeOK, Statuses
<1>5. CASE \E d \in DuelIds, a \in Agents, item \in Items :
             Live(d) /\ a \in Duelists(d) /\ Sells(a, item)
  <2>1. PICK a \in Agents, item \in Items : Sells(a, item)
    BY <1>5
  <2>2. settings.itemPrice[item] \in Nat
    BY SettingsType DEF ChainTypeOK
  <2>3. Escrow(settings.itemPrice[item]) \in Nat
    BY <2>2, CutOfPrice DEF ChainTypeOK
  <2> DEFINE fresh == injectionCount + 1
             escrow == Escrow(settings.itemPrice[item])
  <2>4. fresh \in InjectionIds /\ fresh \in 0 .. MaxInjections
    BY <1>0, <2>1 DEF Sells, ChainTypeOK, InjectionIds
  <2>5. /\ injectionCount' = fresh
        /\ injectionEscrows' = [injectionEscrows EXCEPT ![fresh] = escrow]
        /\ injectionTarget' = [injectionTarget EXCEPT ![fresh] = a]
        /\ UNCHANGED <<now, settings, duelFacts, counts>>
    BY <2>1 DEF Sells
  <2> HIDE DEF fresh, escrow
  <2>6. /\ injectionEscrows' \in [InjectionIds -> Nat]
        /\ injectionTarget' \in [InjectionIds -> Agents \cup {None}]
    BY <2>3, <2>5 DEF ChainTypeOK, escrow
  <2> QED BY <2>4, <2>5, <2>6 DEF ChainTypeOK
<1>6. CASE Ticks
  BY <1>6 DEF Ticks, ChainTypeOK
<1> QED BY <1>1, <1>2, <1>3, <1>4, <1>5, <1>6 DEF ChainStep

\* The latest injection on an agent that a poll finds.
FoundFor(a) == {i \in Polled : injectionTarget[i] = a}

LEMMA LatestIs ==
  ASSUME ChainTypeOK, NEW a
  PROVE  /\ FoundFor(a) = {} => LatestFor(a) = 0
         /\ FoundFor(a) # {} =>
              LatestFor(a) \in FoundFor(a) /\ \A j \in FoundFor(a) : j <= LatestFor(a)
<1>1. LatestFor(a) = IF FoundFor(a) = {} THEN 0
                     ELSE CHOOSE i \in FoundFor(a) : \A j \in FoundFor(a) : j <= i
  BY DEF LatestFor, FoundFor
<1>2. FoundFor(a) \subseteq 1 .. injectionCount
  BY DEF FoundFor, Polled, ChainTypeOK
<1>3. injectionCount \in Nat
  BY BoundsAssumption DEF ChainTypeOK, BoundsAssumption
<1>4. FoundFor(a) # {} => \E i \in FoundFor(a) : \A j \in FoundFor(a) : j <= i
  BY <1>2, <1>3, GreatestBelow
<1> QED BY <1>1, <1>4

LEMMA LatestInRange ==
  ASSUME ChainTypeOK, NEW a
  PROVE  LatestFor(a) \in 0 .. MaxInjections
<1>1. LatestFor(a) \in 0 .. injectionCount
  BY LatestIs, BoundsAssumption DEF FoundFor, Polled, ChainTypeOK, BoundsAssumption
<1> QED BY <1>1, BoundsAssumption DEF ChainTypeOK, BoundsAssumption

\* What an answered or failed poll leaves.
LEMMA PollType ==
  ASSUME ChainTypeOK, RunnerTypeOK, PollAnswer
  PROVE  /\ hand' \in [Agents -> 0 .. MaxInjections]
         /\ fromBlock' \in Nat /\ since' \in Nat
<1>1. NoInjections \in [Agents -> 0 .. MaxInjections]
  BY BoundsAssumption DEF NoInjections, BoundsAssumption
<1>2. [a \in Agents |-> LatestFor(a)] \in [Agents -> 0 .. MaxInjections]
  BY LatestInRange
<1>3. LastBlock \in Nat /\ NextBlock \in Nat
  BY DEF LastBlock, NextBlock, ChainTypeOK, RunnerTypeOK
<1> QED BY <1>1, <1>2, <1>3 DEF PollAnswer, pollVars, RunnerTypeOK

LEMMA RestType ==
  ASSUME ChainTypeOK, RunnerTypeOK, Rest
  PROVE  /\ wakeAt' \in Nat /\ phase' \in {"sleep", "settle"}
         /\ phase' = "settle" =>
              SleepUntil(createdAt + Window)
<1>1. now + Pause \in Nat /\ createdAt + Window \in Nat
  BY PauseIsNat, TimesFacts DEF ChainTypeOK, RunnerTypeOK
<1> QED BY <1>1, SleepIsNat DEF Rest

LEMMA RunnerTypeStep ==
  ASSUME ChainTypeOK, RunnerTypeOK, [RunNext]_runVars
  PROVE  RunnerTypeOK'
<1> USE DEF cycleVars, pollVars, runnerVars
<1>0. /\ NoInjections \in [Agents -> 0 .. MaxInjections]
      /\ duelCount + 1 <= MaxDuels => duelCount + 1 \in DuelIds
  BY BoundsAssumption DEF NoInjections, BoundsAssumption, ChainTypeOK, DuelIds
<1>1. CASE RegisterAgents \/ TradingBegins \/ Wake \/ ReceiptLost
  <2>1. LastBlock \in Nat /\ now \in Nat
    BY DEF LastBlock, ChainTypeOK
  <2> QED BY <1>1, <2>1 DEF RegisterAgents, TradingBegins, Wake, ReceiptLost,
             RunnerTypeOK, Phases
<1>2. CASE CreateDuel
  <2>1. now + BettingTime \in Nat
    BY TimesFacts DEF ChainTypeOK, RunnerTypeOK
  <2>2. wakeAt' \in Nat
    BY <1>2, <2>1, SleepIsNat DEF CreateDuel
  <2>3. duelCount + 1 \in DuelIds
    BY <1>0, <1>2, CreateEffect DEF CreateDuel
  <2>4. duels' \in Seq(DuelIds)
    BY <1>2, <2>3 DEF CreateDuel, RunnerTypeOK
  <2> QED BY <1>0, <1>2, <2>2, <2>4 DEF CreateDuel, RunnerTypeOK, ChainTypeOK, Phases
<1>3. CASE Poll
  <2>1. Rest => wakeAt' \in Nat /\ phase' \in Phases
    BY RestType DEF Phases
  <2> QED BY <1>3, <2>1, PollType DEF Poll, AfterPoll, RunnerTypeOK, Phases
<1>4. CASE ReportFirst
  BY <1>0, <1>4 DEF ReportFirst, Raised, RunnerTypeOK, Phases
<1>5. CASE ReportSecond \/ AnchorRoots
  <2>1. Rest => wakeAt' \in Nat /\ phase' \in Phases
    BY RestType DEF Phases
  <2>2. DOMAIN standings' = Agents /\ wakeAt' \in Nat
    BY <1>5, <2>1 DEF ReportSecond, AnchorRoots, Joined, CycleEnds, Raised, RunnerTypeOK
  <2>3. phase' \in Phases /\ hand' \in [Agents -> 0 .. MaxInjections]
    BY <1>0, <1>5, <2>1 DEF ReportSecond, AnchorRoots, CycleEnds, Raised, RunnerTypeOK, Phases
  <2> QED BY <1>5, <2>2, <2>3 DEF ReportSecond, AnchorRoots, RunnerTypeOK
<1>6. CASE ResolveDuel \/ SendFails
  <2>1. NextPair => pair' \in DOMAIN Pairs /\ phase' \in Phases
    BY FieldFacts DEF NextPair, RunnerTypeOK, Phases
  <2> QED BY <1>0, <1>6, <2>1 DEF ResolveDuel, SendFails, Raised, RunnerTypeOK, Phases
<1>7. CASE Flashbang \/ Elapse \/ StrangerResolves \/ UNCHANGED runVars
  <2>1. Building \in Nat
    BY DEF Building, ChainTypeOK
  <2>2. minedAt' \in [InjectionIds -> Nat]
    BY <1>7, <2>1 DEF Flashbang, Elapse, StrangerResolves, runVars, RunnerTypeOK
  <2> QED BY <1>7, <2>2 DEF Flashbang, Elapse, StrangerResolves, runVars, RunnerTypeOK
<1> QED BY <1>1, <1>2, <1>3, <1>4, <1>5, <1>6, <1>7 DEF RunNext, Runner

-----------------------------------------------------------------------------
(***************************************************************************)
(* Where a step takes the process: it creates the duel of its pair, goes   *)
(* on with it, turns to the next pair, or comes to an end.                 *)
(***************************************************************************)
BeginsDuel ==
  /\ phase = "create" /\ phase' \in Within /\ pair' = pair
  /\ duels' = Append(duels, duelCount + 1)
  /\ createdAt' = IF mode = "cli" THEN createdAt ELSE now
TurnsToNext ==
  /\ phase = "resolve" /\ duels' = duels
  /\ pair' = pair + 1 /\ phase' = "create"
GoesOn ==
  /\ pair' = pair /\ duels' = duels
  /\ \/ phase' = phase
     \/ phase \in Before /\ phase' \in Before
     \/ phase \in Within /\ phase' \in Within \cup {"done", "crashed"}
     \/ phase = "create" /\ phase' = "crashed"

LEMMA ControlSteps ==
  ASSUME RunnerTypeOK, [RunNext]_runVars
  PROVE  /\ mode' = mode
         /\ \/ BeginsDuel \/ createdAt' = createdAt
            \/ phase = "register" /\ phase' \in Before /\ GoesOn
         /\ phase' = "register" => phase = "register" /\ GoesOn
         /\ BeginsDuel \/ TurnsToNext \/ GoesOn
<1> USE DEF cycleVars, pollVars, runnerVars, Before, Within, Phases
<1>1. CASE RegisterAgents \/ TradingBegins \/ Wake \/ ReceiptLost
  BY <1>1 DEF RegisterAgents, TradingBegins, Wake, ReceiptLost, GoesOn
<1>2. CASE CreateDuel
  BY <1>2 DEF CreateDuel, BeginsDuel
<1>3. CASE Poll
  BY <1>3 DEF Poll, AfterPoll, Rest, GoesOn
<1>4. CASE ReportFirst
  BY <1>4 DEF ReportFirst, Raised, GoesOn
<1>5. CASE ReportSecond \/ AnchorRoots
  BY <1>5 DEF ReportSecond, AnchorRoots, CycleEnds, Rest, Raised, GoesOn
<1>6. CASE ResolveDuel \/ SendFails
  BY <1>6 DEF ResolveDuel, SendFails, Raised, NextPair, GoesOn, TurnsToNext
<1>7. CASE Flashbang \/ Elapse \/ StrangerResolves \/ UNCHANGED runVars
  BY <1>7 DEF Flashbang, Elapse, StrangerResolves, runVars, GoesOn
<1> QED BY <1>1, <1>2, <1>3, <1>4, <1>5, <1>6, <1>7 DEF RunNext, Runner

\* Only the creation of a duel announces one that is then in the list.
LEMMA BeginsByCreating ==
  ASSUME [RunNext]_runVars, BeginsDuel
  PROVE  CreateDuel
<1>1. phase' # phase /\ phase' # "crashed" /\ phase' \notin Before
  BY DEF BeginsDuel, Before, Within, Phases
<1> QED BY <1>1 DEF BeginsDuel, Before, RunNext, Runner, RegisterAgents,
     TradingBegins, Poll, ReportFirst, ReportSecond, AnchorRoots, Wake,
     ResolveDuel, SendFails, ReceiptLost, Flashbang, Elapse,
     StrangerResolves, runnerVars, runVars

LEMMA BeginAnnounces ==
  ASSUME RunnerTypeOK, [RunNext]_runVars, BeginsDuel
  PROVE  Announces(AgentA, AgentB, BettingTime, Duration)
<1>1. CreateDuel
  BY BeginsByCreating
<1> QED BY <1>1, CreateAnnounces DEF CreateDuel

LEMMA DuelsInit == RunnerInit => DuelsAreOnChain /\ HandsAreEmpty
BY DEF RunnerInit, DuelsAreOnChain, HandsAreEmpty, Before, Within, Phases

\* What is announced stays, and only a resolve changes a status.
DuelsStay ==
  /\ duelCount <= duelCount'
  /\ \A d \in DuelIds : d <= duelCount =>
       /\ agentOf'[d] = agentOf[d] /\ endsAt'[d] = endsAt[d]
       /\ status'[d] = status[d] \/ status'[d] = "Resolved"

LEMMA DuelsDoStay ==
  ASSUME ChainTypeOK, ChainStep
  PROVE  DuelsStay
<1> USE DEF duelFacts, counts, chaosFacts
<1>0. duelCount \in Nat /\ MaxDuels \in Nat
  BY BoundsAssumption DEF ChainTypeOK, BoundsAssumption
<1>1. CASE Announces(AgentA, AgentB, BettingTime, Duration)
  <2>1. duelCount' = duelCount + 1
    BY <1>1 DEF Announces
  <2>2. \A d \in DuelIds : d <= duelCount => d # duelCount + 1
    BY <1>0 DEF DuelIds
  <2>3. \A d \in DuelIds : d <= duelCount =>
          agentOf'[d] = agentOf[d] /\ endsAt'[d] = endsAt[d] /\ status'[d] = status[d]
    BY <1>1, <2>2 DEF Announces, ChainTypeOK
  <2> QED BY <1>0, <2>1, <2>3 DEF DuelsStay
<1>2. CASE ~Announces(AgentA, AgentB, BettingTime, Duration)
  <2>1. UNCHANGED <<duelCount, agentOf, endsAt>>
    BY <1>2 DEF ChainStep, Still, Reports, Resolves, Sells, Ticks
  <2>2. status' = status \/ \E d : status' = [status EXCEPT ![d] = "Resolved"]
    BY <1>2 DEF ChainStep, Still, Reports, Resolves, Sells, Ticks
  <2> QED BY <1>0, <2>1, <2>2 DEF DuelsStay, ChainTypeOK
<1> QED BY <1>1, <1>2

LEMMA DuelFacts ==
  ASSUME ChainTypeOK, RunnerTypeOK, DuelsAreOnChain, NEW k \in DOMAIN duels
  PROVE  /\ duels[k] \in DuelIds /\ duels[k] \in Nat /\ duels[k] <= duelCount
         /\ agentOf[duels[k]]["A"] = Pairs[k][1] /\ agentOf[duels[k]]["B"] = Pairs[k][2]
         /\ Pairs[k][1] # Pairs[k][2]
         /\ status[duels[k]] \in {"Live", "Resolved"}
<1>1. duels[k] \in DuelIds
  BY DEF RunnerTypeOK
<1>2. duels[k] \in Nat
  BY <1>1, BoundsAssumption DEF DuelIds, BoundsAssumption
<1> QED BY <1>1, <1>2 DEF DuelsAreOnChain

LEMMA DuelsStep ==
  ASSUME ChainTypeOK, RunnerTypeOK, DuelsAreOnChain, [RunNext]_runVars
  PROVE  DuelsAreOnChain'
<1>0. /\ duels \in Seq(DuelIds) /\ Len(duels) \in Nat /\ pair \in Nat
      /\ duelCount \in Nat /\ RunnerTypeOK' /\ pair' \in Nat
      /\ DOMAIN duels = 1 .. Len(duels)
      /\ \A k \in DOMAIN duels : duels[k] \in DuelIds
  BY RunnerTypeStep, FieldFacts, BoundsAssumption DEF RunnerTypeOK, ChainTypeOK, BoundsAssumption
<1>1. DuelsStay
  BY ChainSteps, DuelsDoStay
<1> DEFINE OnChain(list) ==
      /\ \A k \in DOMAIN list :
           /\ list[k] <= duelCount'
           /\ agentOf'[list[k]]["A"] = Pairs[k][1]
           /\ agentOf'[list[k]]["B"] = Pairs[k][2]
           /\ Pairs[k][1] # Pairs[k][2]
           /\ status'[list[k]] \in {"Live", "Resolved"}
      /\ \A j, k \in DOMAIN list : list[j] = list[k] => j = k
<1>2. OnChain(duels)
  <2>1. ASSUME NEW k \in DOMAIN duels
        PROVE  /\ duels[k] <= duelCount'
               /\ agentOf'[duels[k]]["A"] = Pairs[k][1]
               /\ agentOf'[duels[k]]["B"] = Pairs[k][2]
               /\ Pairs[k][1] # Pairs[k][2]
               /\ status'[duels[k]] \in {"Live", "Resolved"}
    <3>1. /\ duels[k] \in DuelIds /\ duels[k] <= duelCount /\ duels[k] \in Nat
          /\ agentOf[duels[k]]["A"] = Pairs[k][1] /\ agentOf[duels[k]]["B"] = Pairs[k][2]
          /\ Pairs[k][1] # Pairs[k][2]
          /\ status[duels[k]] \in {"Live", "Resolved"}
      BY DuelFacts
    <3>2. ChainTypeOK'
      BY ChainTypeStep, ChainSteps
    <3>3. duelCount' \in Nat
      BY <3>2, BoundsAssumption DEF ChainTypeOK, BoundsAssumption
    <3> QED BY <1>0, <1>1, <3>1, <3>3 DEF DuelsStay
  <2> QED BY <2>1 DEF DuelsAreOnChain
<1>3. CASE BeginsDuel
  <2> DEFINE fresh == duelCount + 1
  <2>1. Announces(AgentA, AgentB, BettingTime, Duration)
    BY <1>3, BeginAnnounces
  <2>2. /\ fresh \in DuelIds /\ duelCount' = fresh
        /\ agentOf'[fresh]["A"] = Pairs[pair][1] /\ agentOf'[fresh]["B"] = Pairs[pair][2]
        /\ Pairs[pair][1] # Pairs[pair][2] /\ status'[fresh] = "Live"
    <3>1. fresh \in DuelIds
      BY <1>0, <2>1, BoundsAssumption DEF Announces, DuelIds, BoundsAssumption
    <3>2. /\ agentOf' = [agentOf EXCEPT ![fresh] =
                           [s \in Sides |-> IF s = "A" THEN AgentA ELSE AgentB]]
          /\ status' = [status EXCEPT ![fresh] = "Live"]
          /\ duelCount' = fresh /\ AgentA # AgentB
      BY <2>1 DEF Announces
    <3>3. agentOf'[fresh] = [s \in Sides |-> IF s = "A" THEN AgentA ELSE AgentB]
      BY <3>1, <3>2 DEF ChainTypeOK
    <3>4. status'[fresh] = "Live"
      BY <3>1, <3>2 DEF ChainTypeOK
    <3>5. "A" \in Sides /\ "B" \in Sides
      BY DEF Sides
    <3> HIDE DEF fresh
    <3> QED BY <3>1, <3>2, <3>3, <3>4, <3>5 DEF AgentA, AgentB
  <2>3. \A k \in DOMAIN duels : duels[k] # fresh /\ duels[k] <= fresh
    BY <1>0, DuelFacts
  <2>4. Len(duels) = pair - 1 /\ phase' \in Within /\ pair' = pair
        /\ duels' = Append(duels, fresh)
    BY <1>3 DEF BeginsDuel, DuelsAreOnChain, Before
  <2> HIDE DEF fresh
  <2>5. /\ DOMAIN duels' = 1 .. pair /\ Len(duels') = pair
        /\ duels'[pair] = fresh
        /\ \A k \in 1 .. pair - 1 : duels'[k] = duels[k] /\ k \in DOMAIN duels
    BY <1>0, <2>2, <2>4
  <2>6. \A k \in DOMAIN duels' : k = pair \/ k \in 1 .. pair - 1
    BY <1>0, <2>5
  <2>7. fresh \in Int
    BY <2>2 DEF DuelIds
  <2>8. OnChain(duels')
    <3>1. ASSUME NEW j \in DOMAIN duels', NEW k \in DOMAIN duels', duels'[j] = duels'[k]
          PROVE  j = k
      BY <1>2, <2>3, <2>5, <2>6, <3>1
    <3>2. ASSUME NEW k \in DOMAIN duels'
          PROVE /\ duels'[k] <= duelCount'
                /\ agentOf'[duels'[k]]["A"] = Pairs[k][1]
                /\ agentOf'[duels'[k]]["B"] = Pairs[k][2]
                /\ Pairs[k][1] # Pairs[k][2]
                /\ status'[duels'[k]] \in {"Live", "Resolved"}
      <4>1. CASE k = pair
        BY <2>2, <2>5, <2>7, <4>1
      <4>2. CASE k \in 1 .. pair - 1
        BY <1>2, <2>5, <4>2
      <4> QED BY <2>6, <4>1, <4>2
    <3> QED BY <3>1, <3>2
  <2> HIDE DEF OnChain
  <2>9. OnChain(duels') => DuelsAreOnChain'
    BY <1>0, <2>4, <2>5 DEF DuelsAreOnChain, OnChain, Before, Within, Phases
  <2> QED BY <2>8, <2>9
<1>4. CASE TurnsToNext \/ GoesOn
  <2>1. duels' = duels
    BY <1>4 DEF TurnsToNext, GoesOn
  <2>2. /\ phase' \in Before => Len(duels) = pair' - 1
        /\ phase' \in Within \cup {"done"} => Len(duels) = pair'
        /\ phase' = "crashed" => Len(duels) \in {pair' - 1, pair'}
    <3>1. CASE TurnsToNext
      BY <1>0, <3>1 DEF TurnsToNext, DuelsAreOnChain, Before, Within, Phases
    <3>2. CASE GoesOn
      BY <1>0, <3>2 DEF GoesOn, DuelsAreOnChain, Before, Within, Phases
    <3> QED BY <1>4, <3>1, <3>2
  <2> QED BY <1>2, <2>1, <2>2 DEF DuelsAreOnChain
<1> QED BY <1>3, <1>4, ControlSteps

LEMMA HandsStep ==
  ASSUME HandsAreEmpty, RunnerTypeOK, [RunNext]_runVars
  PROVE  HandsAreEmpty'
<1> USE DEF cycleVars, pollVars, runnerVars, HandsAreEmpty
<1>1. CASE RegisterAgents \/ TradingBegins \/ Wake \/ ReceiptLost \/ CreateDuel
  BY <1>1 DEF RegisterAgents, TradingBegins, Wake, ReceiptLost, CreateDuel
<1>2. CASE Poll
  BY <1>2 DEF Poll, PollAnswer, AfterPoll, Scored
<1>3. CASE ReportFirst \/ ReportSecond \/ AnchorRoots
  BY <1>3 DEF ReportFirst, ReportSecond, AnchorRoots, CycleEnds, Raised
<1>4. CASE ResolveDuel \/ SendFails
  BY <1>4 DEF ResolveDuel, SendFails, Raised
<1>5. CASE Flashbang \/ Elapse \/ StrangerResolves \/ UNCHANGED runVars
  BY <1>5 DEF Flashbang, Elapse, StrangerResolves, runVars
<1> QED BY <1>1, <1>2, <1>3, <1>4, <1>5 DEF RunNext, Runner

LEMMA RunInit == RunnerInit => RunInv
BY RunTypeInit, DuelsInit DEF RunInv

LEMMA RunStep == RunInv /\ [RunNext]_runVars => RunInv'
<1> SUFFICES ASSUME RunInv, [RunNext]_runVars PROVE RunInv'
  OBVIOUS
<1> QED BY ChainSteps, ChainTypeStep, RunnerTypeStep, DuelsStep, HandsStep DEF RunInv

-----------------------------------------------------------------------------
(***************************************************************************)
(* A duel in which nothing raised is resolved: the process wakes no sooner *)
(* than its end, so that only a stranger can have been first.              *)
(***************************************************************************)
LEMMA FaultsStay ==
  ASSUME [RunNext]_runVars
  PROVE  faulty \subseteq faulty'
<1> USE DEF cycleVars, pollVars, runnerVars
<1>1. CASE Runner
  BY <1>1 DEF Runner, RegisterAgents, TradingBegins, Wake, ReceiptLost, CreateDuel, Poll,
     AfterPoll, ReportFirst, ReportSecond, AnchorRoots, Raised, ResolveDuel, SendFails
<1>2. CASE ~Runner
  BY <1>2 DEF RunNext, Flashbang, Elapse, StrangerResolves, runVars
<1> QED BY <1>1, <1>2

LEMMA CurrentDuel ==
  ASSUME RunInv, phase \in Within
  PROVE  /\ pair \in DOMAIN duels /\ Len(duels) = pair
         /\ duel = duels[pair] /\ duel \in DuelIds /\ duel <= duelCount
         /\ duel \in Nat /\ pair \in Nat
<1>1. Len(duels) = pair /\ pair \in 1 .. Len(Pairs) /\ DOMAIN duels = 1 .. Len(duels)
  BY FieldFacts DEF RunInv, DuelsAreOnChain, RunnerTypeOK
<1>2. pair \in DOMAIN duels /\ pair \in Nat
  BY <1>1
<1> QED BY <1>1, <1>2, DuelFacts DEF RunInv, duel

LEMMA ResolvedThen ==
  ASSUME ChainTypeOK, NEW d \in DuelIds, resolve(d)
  PROVE  status'[d] = "Resolved"
BY ResolveEffect DEF ChainTypeOK

\* How the process leaves a duel.
LEMMA LeavesResolved ==
  ASSUME RunInv, CleanInv, [RunNext]_runVars, phase \in Within,
         phase' \in {"create", "done", "crashed"}
  PROVE  pair \in faulty' \/ ~WaitCovers(pair) \/ status'[duel] = "Resolved"
<1> USE DEF Within, Phases
<1>0. duel \in DuelIds /\ status[duel] \in {"Live", "Resolved"} /\ ChainTypeOK
  BY CurrentDuel, DuelFacts DEF RunInv
<1>1. CASE ReportFirst \/ ReportSecond
  BY <1>1 DEF ReportFirst, ReportSecond, Raised, CycleEnds, Rest
<1>2. CASE ResolveDuel \/ ReceiptLost
  BY <1>0, <1>2, ResolvedThen DEF ResolveDuel, ReceiptLost
<1>3. CASE SendFails
  <2>1. CASE phase \in {"first", "second", "anchor"}
    BY <1>3, <2>1 DEF SendFails, Raised
  <2>2. CASE phase = "resolve"
    <3>1. pair \notin faulty /\ WaitCovers(pair) => Over(duel)
      BY <2>2 DEF CleanInv
    <3>2. /\ UNCHANGED vars
          /\ faulty' = IF Live(duel) /\ Over(duel) THEN faulty \cup {pair} ELSE faulty
      BY <1>3, <2>2 DEF SendFails
    <3>3. status' = status
      BY <3>2 DEF vars, duelVars
    <3> QED BY <1>0, <3>1, <3>2, <3>3 DEF Live
  <2> QED BY <1>3, <2>1, <2>2 DEF SendFails
<1>4. CASE Flashbang \/ Elapse \/ StrangerResolves \/ UNCHANGED runVars
  BY <1>4 DEF Flashbang, Elapse, StrangerResolves, runVars, runnerVars
<1>5. CASE RegisterAgents \/ TradingBegins \/ Wake \/ CreateDuel \/ Poll \/ AnchorRoots
  BY <1>5 DEF RegisterAgents, TradingBegins, Wake, CreateDuel, Poll, AfterPoll,
     AnchorRoots, CycleEnds, Rest
<1> QED BY <1>1, <1>2, <1>3, <1>4, <1>5 DEF RunNext, Runner

\* How it comes to wait for the end, and to think that it has come.
LEMMA Waits ==
  ASSUME RunInv, [RunNext]_runVars, phase' = "settle"
  PROVE  /\ phase \in Within
         /\ \/ phase = "settle" /\ wakeAt' = wakeAt
            \/ SleepUntil(createdAt + Window)
<1> USE DEF Within, Phases
<1>1. CASE Poll
  BY <1>1 DEF Poll, AfterPoll, Rest
<1>2. CASE ReportFirst \/ ReportSecond \/ AnchorRoots
  BY <1>2 DEF ReportFirst, ReportSecond, AnchorRoots, CycleEnds, Rest, Raised
<1>3. CASE Flashbang \/ Elapse \/ StrangerResolves \/ UNCHANGED runVars
  BY <1>3 DEF Flashbang, Elapse, StrangerResolves, runVars, runnerVars
<1>4. CASE RegisterAgents \/ TradingBegins \/ Wake \/ CreateDuel \/ ResolveDuel \/ SendFails
           \/ ReceiptLost
  BY <1>4 DEF RegisterAgents, TradingBegins, Wake, CreateDuel, ResolveDuel, SendFails,
     ReceiptLost, NextPair, Raised
<1> QED BY <1>1, <1>2, <1>3, <1>4 DEF RunNext, Runner

LEMMA ThinksItOver ==
  ASSUME RunInv, [RunNext]_runVars, phase' = "resolve"
  PROVE  \/ phase = "resolve"
         \/ phase = "settle" /\ Awake
         \/ phase \in Within /\ pair \in faulty'
<1> USE DEF Within, Phases
<1>1. CASE Poll \/ AnchorRoots
  BY <1>1 DEF Poll, AfterPoll, AnchorRoots, CycleEnds, Rest
<1>2. CASE ReportFirst \/ ReportSecond
  BY <1>2 DEF ReportFirst, ReportSecond, CycleEnds, Rest, Raised
<1>3. CASE Flashbang \/ Elapse \/ StrangerResolves \/ UNCHANGED runVars
  BY <1>3 DEF Flashbang, Elapse, StrangerResolves, runVars, runnerVars
<1>4. CASE RegisterAgents \/ TradingBegins \/ Wake \/ CreateDuel \/ ResolveDuel \/ SendFails
           \/ ReceiptLost
  BY <1>4 DEF RegisterAgents, TradingBegins, Wake, CreateDuel, ResolveDuel, SendFails,
     ReceiptLost, NextPair, Raised
<1> QED BY <1>1, <1>2, <1>3, <1>4 DEF RunNext, Runner

LEMMA CleanInit == RunnerInit => CleanInv
BY DEF RunnerInit, CleanInv, CleanDuelsAreResolved, Within, Phases

\* The list of duels only grows.
LEMMA ListGrows ==
  ASSUME RunInv, [RunNext]_runVars, NEW k \in DOMAIN duels'
  PROVE  \/ k \in DOMAIN duels /\ duels'[k] = duels[k]
         \/ BeginsDuel /\ k = pair /\ k \notin DOMAIN duels /\ duels'[k] = duelCount + 1
<1>0. /\ duels \in Seq(DuelIds) /\ Len(duels) \in Nat /\ pair \in Nat /\ RunnerTypeOK
  BY FieldFacts DEF RunInv, RunnerTypeOK
<1>1. CASE BeginsDuel
  <2>1. Len(duels) = pair - 1 /\ duels' = Append(duels, duelCount + 1)
    BY <1>1 DEF BeginsDuel, RunInv, DuelsAreOnChain, Before
  <2>2. DOMAIN duels' = 1 .. Len(duels) + 1 /\ DOMAIN duels = 1 .. Len(duels)
        /\ duels'[Len(duels) + 1] = duelCount + 1
        /\ \A j \in 1 .. Len(duels) : duels'[j] = duels[j]
    BY <1>0, <2>1
  <2> QED BY <1>0, <1>1, <2>1, <2>2
<1>2. CASE TurnsToNext \/ GoesOn
  BY <1>2 DEF TurnsToNext, GoesOn
<1> QED BY <1>0, <1>1, <1>2, ControlSteps

LEMMA CleanStep ==
  ASSUME RunInv, CleanInv, [RunNext]_runVars
  PROVE  CleanInv'
<1>0. /\ RunInv' /\ DuelsStay /\ ChainStep /\ ChainTypeOK /\ RunnerTypeOK
      /\ pair \in Nat /\ faulty \subseteq faulty' /\ mode' = mode
  BY RunStep, ChainSteps, DuelsDoStay, FaultsStay, FieldFacts, ControlSteps
     DEF RunInv, RunnerTypeOK
<1>1. CleanDuelsAreResolved'
  <2> SUFFICES ASSUME NEW k \in DOMAIN duels', k < pair' \/ phase' \in {"done", "crashed"},
                      k \notin faulty', WaitCovers(k)'
               PROVE  status'[duels'[k]] = "Resolved"
    BY DEF CleanDuelsAreResolved
  <2>1. k \in Nat
    <3>1. duels' \in Seq(DuelIds)
      BY <1>0 DEF RunInv, RunnerTypeOK
    <3> QED BY <3>1
  <2>2. CASE k \in DOMAIN duels /\ duels'[k] = duels[k]
    <3>0. WaitCovers(k)
      <4>1. duels[k] \in DuelIds /\ duels[k] <= duelCount
        BY <2>2, DuelFacts DEF RunInv
      <4>2. endsAt'[duels[k]] = endsAt[duels[k]]
        BY <1>0, <4>1 DEF DuelsStay
      <4>3. mode = "cli" => createdAt' = createdAt
        <5>1. phase # "register"
          BY <2>2 DEF CleanInv
        <5> QED BY <1>0, <5>1, ControlSteps DEF BeginsDuel
      <4> QED BY <1>0, <2>2, <4>2, <4>3 DEF WaitCovers, BettingTime, Duration
    <3>1. CASE k < pair \/ phase \in {"done", "crashed"}
      <4>1. status[duels[k]] = "Resolved"
        BY <1>0, <2>2, <3>0, <3>1 DEF CleanInv, CleanDuelsAreResolved
      <4>2. duels[k] \in DuelIds /\ duels[k] <= duelCount
        BY <2>2, DuelFacts DEF RunInv
      <4> QED BY <1>0, <2>2, <4>1, <4>2 DEF DuelsStay
    <3>2. CASE ~(k < pair) /\ phase \notin {"done", "crashed"}
      <4>1. phase \in Within /\ k = pair
        <5>1. k <= Len(duels) /\ Len(duels) <= pair /\ Len(duels) \in Nat
          <6>1. duels \in Seq(DuelIds)
            BY <1>0 DEF RunnerTypeOK
          <6> QED BY <1>0, <2>2, <3>2, <6>1
                  DEF RunInv, DuelsAreOnChain, RunnerTypeOK, Before, Within, Phases
        <5>2. k = pair
          BY <1>0, <2>1, <3>2, <5>1
        <5>3. phase \notin Before
          BY <1>0, <5>1, <5>2 DEF RunInv, DuelsAreOnChain
        <5> QED BY <1>0, <3>2, <5>2, <5>3 DEF RunnerTypeOK, Before, Within
      <4>2. phase' \in {"create", "done", "crashed"}
        BY <1>0, <2>1, <4>1, ControlSteps DEF BeginsDuel, TurnsToNext, GoesOn, Within
      <4>3. duel = duels[k]
        BY <4>1 DEF duel
      <4> QED BY <2>2, <3>0, <4>1, <4>2, <4>3, LeavesResolved
    <3> QED BY <3>1, <3>2
  <2>3. CASE BeginsDuel /\ k = pair
    BY <1>0, <2>3 DEF BeginsDuel, Within, Phases
  <2> QED BY <2>2, <2>3, ListGrows
<1>2. /\ duel' = duels'[pair']
      /\ BettingTime' = BettingTime /\ Duration' = Duration /\ Window' = Window
  BY <1>0 DEF duel, BettingTime, Duration, Window
<1>3. ASSUME phase' \in Within
      PROVE  /\ mode' # "cli" => endsAt'[duel'] = createdAt' + BettingTime + Duration
             /\ endsAt'[duel'] <= MaxTime
  <2>1. CASE BeginsDuel
    <3> DEFINE fresh == duelCount + 1
               end == now + BettingTime + Duration
    <3>1. /\ fresh <= MaxDuels /\ end <= MaxTime
          /\ endsAt' = [endsAt EXCEPT ![fresh] = end]
      BY <1>0, <2>1, BeginAnnounces DEF Announces
    <3>2. duels'[pair'] = fresh
      <4>1. pair' \in DOMAIN duels' /\ pair' = pair
        <5>1. duels' \in Seq(DuelIds) /\ Len(duels') = pair' /\ pair' \in 1 .. Len(Pairs)
          BY <1>0, <1>3, FieldFacts DEF RunInv, RunnerTypeOK, DuelsAreOnChain
        <5> QED BY <2>1, <5>1 DEF BeginsDuel
      <4>2. pair \notin DOMAIN duels
        <5>1. Len(duels) = pair - 1 /\ duels \in Seq(DuelIds)
          BY <2>1 DEF BeginsDuel, RunInv, RunnerTypeOK, DuelsAreOnChain, Before
        <5> QED BY <1>0, <5>1
      <4> QED BY <4>1, <4>2, ListGrows
    <3>3. fresh \in DuelIds
      BY <1>0, <3>1, BoundsAssumption DEF ChainTypeOK, DuelIds, BoundsAssumption
    <3> HIDE DEF fresh, end
    <3>4. endsAt'[fresh] = end
      BY <1>0, <3>1, <3>3 DEF ChainTypeOK
    <3>5. mode' # "cli" => createdAt' = now
      BY <1>0, <2>1 DEF BeginsDuel
    <3> QED BY <1>0, <1>2, <3>1, <3>2, <3>4, <3>5 DEF end
  <2>2. CASE createdAt' = createdAt /\ (TurnsToNext \/ GoesOn)
    <3>1. pair' = pair /\ duels' = duels /\ phase \in Within
      BY <1>0, <1>3, <2>2 DEF TurnsToNext, GoesOn, Before, Within, Phases
    <3>2. duel \in DuelIds /\ duel <= duelCount /\ duel' = duel
      BY <1>2, <3>1, CurrentDuel DEF duel
    <3>3. endsAt'[duel] = endsAt[duel]
      BY <1>0, <3>2 DEF DuelsStay
    <3>4. /\ mode # "cli" => endsAt[duel] = createdAt + BettingTime + Duration
          /\ endsAt[duel] <= MaxTime
      BY <3>1 DEF CleanInv
    <3> QED BY <1>0, <2>2, <3>2, <3>3, <3>4
  <2>3. ~(phase = "register" /\ phase' \in Before)
    BY <1>3 DEF Before, Within
  <2> QED BY <1>0, <2>1, <2>2, <2>3, ControlSteps
<1>4. ASSUME phase' = "settle", pair' \notin faulty', WaitCovers(pair)'
      PROVE  wakeAt' >= endsAt'[duel']
  <2>0. ~BeginsDuel => createdAt' = createdAt /\ pair' = pair /\ duels' = duels
    BY <1>0, <1>4, ControlSteps DEF TurnsToNext, GoesOn, Before
  <2>1. phase \in Within /\ ~BeginsDuel
    BY <1>4, Waits DEF BeginsDuel, Within
  <2>2. duel \in DuelIds /\ duel <= duelCount /\ duel' = duel
    BY <1>2, <2>0, <2>1, CurrentDuel DEF duel
  <2>3. endsAt'[duel] = endsAt[duel]
    BY <1>0, <2>2 DEF DuelsStay
  <2>4. /\ mode # "cli" => endsAt[duel] = createdAt + BettingTime + Duration
        /\ endsAt[duel] <= MaxTime
    BY <2>1 DEF CleanInv
  <2>w. WaitCovers(pair) /\ (mode = "cli" => endsAt[duel] <= createdAt + BettingTime + Duration + Buffer)
    BY <1>0, <1>2, <1>4, <2>0, <2>1, <2>3 DEF WaitCovers, duel
  <2>5. CASE phase = "settle" /\ wakeAt' = wakeAt
    BY <1>0, <1>4, <2>0, <2>1, <2>2, <2>3, <2>5, <2>w DEF CleanInv
  <2>6. CASE SleepUntil(createdAt + Window)
    <3>1. /\ createdAt + Window \in Nat /\ MaxTime \in Nat /\ Buffer \in Nat
          /\ Window = BettingTime + Duration + Buffer
          /\ createdAt \in Nat /\ BettingTime \in Nat /\ Duration \in Nat
      BY <1>0, TimesFacts DEF RunnerTypeOK
    <3>2. createdAt + Window >= endsAt[duel] /\ endsAt[duel] \in Nat
      <4>1. endsAt[duel] \in Nat
        BY <1>0, <2>2 DEF ChainTypeOK
      <4>2. CASE mode = "cli"
        BY <2>w, <3>1, <4>1, <4>2
      <4>3. CASE mode # "cli"
        BY <2>4, <3>1, <4>1, <4>3
      <4> QED BY <4>2, <4>3
    <3> HIDE DEF Window
    <3>3. wakeAt' = createdAt + Window \/ wakeAt' = MaxTime
      BY <2>6 DEF SleepUntil
    <3> QED BY <2>2, <2>3, <2>4, <3>1, <3>2, <3>3
  <2> QED BY <1>4, <2>5, <2>6, Waits
<1>5. ASSUME phase' = "resolve", pair' \notin faulty', WaitCovers(pair)'
      PROVE  Over(duel)'
  <2>1. phase \in Within /\ ~BeginsDuel
    <3>1. phase # "create"
      BY <1>5, ThinksItOver DEF Within
    <3> QED BY <1>5, <3>1, ThinksItOver DEF BeginsDuel, Within, Phases
  <2>2. pair' = pair /\ duels' = duels
    BY <1>0, <1>5, <2>1, ControlSteps DEF TurnsToNext, GoesOn
  <2>3. duel \in DuelIds /\ duel <= duelCount /\ duel' = duel
    BY <1>2, <2>1, <2>2, CurrentDuel DEF duel
  <2>4. endsAt'[duel] = endsAt[duel] /\ endsAt[duel] \in Nat
    BY <1>0, <2>3 DEF DuelsStay, ChainTypeOK
  <2>w. WaitCovers(pair)
    <3>1. createdAt' = createdAt
      BY <1>0, <2>1, ControlSteps DEF Within
    <3> QED BY <1>0, <1>2, <1>5, <2>2, <2>3, <2>4, <3>1 DEF WaitCovers, duel
  <2>5. Over(duel)
    BY <1>0, <1>5, <2>2, <2>4, <2>w, ThinksItOver DEF CleanInv, Over, Awake, RunnerTypeOK, ChainTypeOK
  <2>6. now' >= now /\ now \in Nat /\ now' \in Nat
    <3>1. now' = now \/ now' = now + 1
      BY <1>0 DEF ChainStep, Still, Announces, Reports, Resolves, Sells, Ticks
    <3> QED BY <1>0, <3>1 DEF ChainTypeOK
  <2> QED BY <2>3, <2>4, <2>5, <2>6 DEF Over
<1>6. phase' = "register" => duels' = << >>
  BY <1>0, ControlSteps DEF CleanInv, GoesOn
<1> QED BY <1>1, <1>2, <1>3, <1>4, <1>5, <1>6 DEF CleanInv

\* The process resolves every duel in which nothing raised and which its wait
\* covers, or a stranger did: whatever polls fail and sends are lost in it, with any
\* number of pairs, and always in the arena.
\* (Arena.run, main)
THEOREM CleanDuelsEnd == RunSpec => []CleanDuelsAreResolved
<1>1. RunnerInit => RunInv /\ CleanInv
  BY RunInit, CleanInit
<1>2. (RunInv /\ CleanInv) /\ [RunNext]_runVars => (RunInv /\ CleanInv)'
  BY RunStep, CleanStep
<1>3. RunInv /\ CleanInv => CleanDuelsAreResolved
  BY DEF CleanInv
<1> QED BY <1>1, <1>2, <1>3, PTL DEF RunSpec

-----------------------------------------------------------------------------
(***************************************************************************)
(* The standings are what the contract has counted.                        *)
(***************************************************************************)
SideAt(s) == IF s = 1 THEN "A" ELSE "B"

\* IsOnChain, after the step.
WillBeOnChain(r, k, s) ==
  /\ r.alpha = score'[duels[k]][SideAt(s)]
  /\ r.ingested = injectionsIngested'[Pairs[k][s]]
  /\ r.survived = survivedInjections'[Pairs[k][s]]

\* Who fights where: nobody twice.
LEMMA EveryoneOnce ==
  ASSUME RunInv, phase \in Within, NEW s \in 1 .. 2, NEW k \in DOMAIN duels, NEW t \in 1 .. 2
  PROVE  /\ Pairs[pair][s] \in Agents /\ Pairs[k][t] \in Agents
         /\ Pairs[k][t] = Pairs[pair][s] => k = pair /\ t = s
         /\ duels[k] = duel => k = pair
         /\ SideOf(duel, Pairs[pair][s]) = SideAt(s)
<1>1. pair \in DOMAIN duels /\ duel = duels[pair] /\ pair \in DOMAIN Pairs
  BY CurrentDuel DEF RunInv, RunnerTypeOK
<1>2. k \in DOMAIN Pairs
  <2>1. duels \in Seq(DuelIds) /\ Len(duels) = pair /\ pair \in 1 .. Len(Pairs)
        /\ Len(Pairs) \in Nat /\ DOMAIN Pairs = 1 .. Len(Pairs)
    BY CurrentDuel, FieldFacts DEF RunInv, RunnerTypeOK
  <2> QED BY <2>1
<1>3. Pairs[k][t] = Pairs[pair][s] => k = pair
  BY <1>1, <1>2, FieldAssumption DEF FieldAssumption
<1>4. /\ Pairs[pair][1] # Pairs[pair][2]
      /\ agentOf[duels[pair]]["A"] = Pairs[pair][1]
      /\ agentOf[duels[pair]]["B"] = Pairs[pair][2]
  BY <1>1, DuelFacts DEF RunInv
<1>5. s = 1 \/ s = 2
  OBVIOUS
<1>6. t = 1 \/ t = 2
  OBVIOUS
<1>7. SideOf(duel, Pairs[pair][s]) = SideAt(s)
  BY <1>1, <1>4, <1>5 DEF SideOf, SideAt
<1>8. duels[k] = duel => k = pair
  BY <1>1 DEF RunInv, DuelsAreOnChain
<1> QED BY <1>1, <1>2, <1>3, <1>4, <1>5, <1>6, <1>7, <1>8, FieldFacts

\* A report changes what is counted for its agent by its line, and nothing else.
LEMMA ReportIsCounted ==
  ASSUME RunInv, phase \in Within, NEW s \in 1 .. 2, NEW c, Reports(Pairs[pair][s], c),
         NEW k \in DOMAIN duels, NEW t \in 1 .. 2, NEW r, IsOnChain(r, k, t)
  PROVE  IF k = pair /\ t = s
         THEN WillBeOnChain(Add(r, Line(Pairs[pair][s], c)), k, t)
         ELSE WillBeOnChain(r, k, t)
<1> DEFINE a == Pairs[pair][s]
           m == IF hand[a] # 0 THEN 1 ELSE 0
           n == IF hand[a] # 0 /\ c.survived THEN 1 ELSE 0
<1>1. /\ a \in Agents /\ Pairs[k][t] \in Agents
      /\ Pairs[k][t] = a => k = pair /\ t = s
      /\ duels[k] = duel => k = pair
      /\ SideOf(duel, a) = SideAt(s) /\ SideAt(s) \in Sides /\ SideAt(t) \in Sides
      /\ duel = duels[pair] /\ duels[k] \in DuelIds /\ duel \in DuelIds
      /\ SideAt(s) = SideAt(t) => s = t
  BY EveryoneOnce, CurrentDuel, DuelFacts DEF SideAt, Sides, RunInv
<1>2. /\ score' = [score EXCEPT ![duel][SideAt(s)] = @ + c.r]
      /\ injectionsIngested' = [injectionsIngested EXCEPT ![a] = @ + m]
      /\ survivedInjections' = [survivedInjections EXCEPT ![a] = @ + n]
  BY <1>1 DEF Reports
<1>3. /\ DOMAIN score = DuelIds /\ \A d \in DuelIds : DOMAIN score[d] = Sides
      /\ injectionsIngested \in [Agents -> Nat] /\ survivedInjections \in [Agents -> Nat]
  BY DEF RunInv, ChainTypeOK
<1>4. /\ r.alpha = score[duels[k]][SideAt(t)]
      /\ r.ingested = injectionsIngested[Pairs[k][t]]
      /\ r.survived = survivedInjections[Pairs[k][t]]
  BY DEF IsOnChain, SideAt
<1>5. Line(a, c) = [alpha |-> c.r, ingested |-> m, survived |-> n]
  BY DEF Line
<1>6. CASE k = pair /\ t = s
  <2>1. /\ score'[duel][SideAt(s)] = score[duel][SideAt(s)] + c.r
        /\ injectionsIngested'[a] = injectionsIngested[a] + m
        /\ survivedInjections'[a] = survivedInjections[a] + n
    <3> HIDE DEF a, m, n
    <3> QED BY <1>1, <1>2, <1>3
  <2>2. LET q == Add(r, Line(a, c)) IN
          q.alpha = r.alpha + c.r /\ q.ingested = r.ingested + m /\ q.survived = r.survived + n
    BY <1>5 DEF Add
  <2> QED BY <1>1, <1>4, <1>6, <2>1, <2>2 DEF WillBeOnChain
<1>7. CASE ~(k = pair /\ t = s)
  <2>1. Pairs[k][t] # a /\ (duels[k] # duel \/ SideAt(t) # SideAt(s))
    BY <1>1, <1>7
  <2>2. score'[duels[k]][SideAt(t)] = score[duels[k]][SideAt(t)]
    <3>1. CASE duels[k] # duel
      BY <1>1, <1>2, <1>3, <3>1
    <3>2. CASE duels[k] = duel /\ SideAt(t) # SideAt(s)
      BY <1>1, <1>2, <1>3, <3>2
    <3> QED BY <2>1, <3>1, <3>2
  <2>3. /\ injectionsIngested'[Pairs[k][t]] = injectionsIngested[Pairs[k][t]]
        /\ survivedInjections'[Pairs[k][t]] = survivedInjections[Pairs[k][t]]
    <3> HIDE DEF a, m, n
    <3> QED BY <1>1, <1>2, <1>3, <2>1
  <2> QED BY <1>4, <1>7, <2>2, <2>3 DEF WillBeOnChain
<1> QED BY <1>6, <1>7

\* Without a report everything counted stays.
LEMMA NothingIsCounted ==
  ASSUME UNCHANGED counts, NEW k, NEW t, NEW r, IsOnChain(r, k, t)
  PROVE  WillBeOnChain(r, k, t)
BY DEF counts, IsOnChain, WillBeOnChain, SideAt

LEMMA StandingsInit == RunnerInit => StandingsInv
<1> SUFFICES ASSUME RunnerInit PROVE StandingsInv
  OBVIOUS
<1>1. DOMAIN duels = {} /\ standings = [a \in Agents |-> NoReport]
  BY DEF RunnerInit
<1>2. /\ score = [d \in DuelIds |-> [s \in Sides |-> 0]]
      /\ injectionsIngested = [a \in Agents |-> 0]
      /\ survivedInjections = [a \in Agents |-> 0]
  BY DEF RunnerInit, Init
<1> QED BY <1>1, <1>2 DEF StandingsInv

\* What the step leaves recorded of the duels that were there before it.
RecordsHold ==
  \A k \in DOMAIN duels, t \in 1 .. 2 :
    k \notin faulty' => WillBeOnChain(Recorded(k, t)', k, t)

LEMMA JoinedIs ==
  ASSUME RunInv, phase \in Within, NEW x, NEW y, Joined(x, y)
  PROVE  /\ standings'[Pairs[pair][1]] = Add(standings[Pairs[pair][1]], x)
         /\ standings'[Pairs[pair][2]] = Add(standings[Pairs[pair][2]], y)
         /\ \A a \in Agents : a \notin {Pairs[pair][1], Pairs[pair][2]} =>
              standings'[a] = standings[a]
<1>1. Pairs[pair][1] \in Agents /\ Pairs[pair][2] \in Agents /\ Pairs[pair][1] # Pairs[pair][2]
  BY EveryoneOnce, CurrentDuel, DuelFacts DEF RunInv
<1>2. DOMAIN standings = Agents
  BY DEF RunInv, RunnerTypeOK
<1> QED BY <1>1, <1>2 DEF Joined, AgentA, AgentB

LEMMA OthersJoinNot ==
  ASSUME RunInv, phase \in Within, NEW k \in DOMAIN duels, NEW t \in 1 .. 2, k # pair
  PROVE  Pairs[k][t] \in Agents /\ Pairs[k][t] \notin {Pairs[pair][1], Pairs[pair][2]}
BY EveryoneOnce

LEMMA RecordsFirst ==
  ASSUME RunInv, StandingsInv, ReportFirst
  PROVE  RecordsHold
<1>1. phase = "first" /\ phase \in Within /\ UNCHANGED <<pair, standings, duels>>
  BY DEF ReportFirst, Within, Phases
<1>2. PICK c : /\ Score(AgentA, c)
               /\ \/ out' = Line(AgentA, c) /\ phase' = "second" /\ UNCHANGED faulty
                  \/ Raised
  BY DEF ReportFirst
<1>3. Reports(Pairs[pair][1], c)
  BY <1>2, ScoreReports DEF AgentA
<1>4. SUFFICES ASSUME NEW k \in DOMAIN duels, NEW t \in 1 .. 2, k \notin faulty'
               PROVE  WillBeOnChain(Recorded(k, t)', k, t)
  BY DEF RecordsHold
<1> DEFINE r == standings[Pairs[k][t]]
<1>5. k \notin faulty /\ IsOnChain(r, k, t)
  <2>1. k \notin faulty
    BY <1>2, <1>4 DEF Raised
  <2>2. Recorded(k, t) = r
    BY <1>1 DEF Recorded
  <2> QED BY <2>1, <2>2 DEF StandingsInv
<1>6. IF k = pair /\ t = 1
      THEN WillBeOnChain(Add(r, Line(Pairs[pair][1], c)), k, t)
      ELSE WillBeOnChain(r, k, t)
  <2> HIDE DEF r
  <2> QED BY <1>1, <1>3, <1>5, ReportIsCounted
<1>7. CASE Raised
  <2>1. k # pair
    BY <1>4, <1>7 DEF Raised
  <2>2. Recorded(k, t)' = r
    BY <1>1, <2>1 DEF Recorded
  <2> QED BY <1>6, <2>1, <2>2
<1>8. CASE out' = Line(AgentA, c) /\ phase' = "second"
  <2>1. Recorded(k, t)' = IF k = pair /\ t = 1 THEN Add(r, Line(Pairs[pair][1], c)) ELSE r
    BY <1>1, <1>8 DEF Recorded, AgentA
  <2> QED BY <1>6, <2>1
<1> QED BY <1>2, <1>7, <1>8

LEMMA RecordsSecond ==
  ASSUME RunInv, StandingsInv, ReportSecond
  PROVE  RecordsHold
<1>1. phase = "second" /\ phase \in Within /\ UNCHANGED <<pair, duels>>
  BY DEF ReportSecond, Within, Phases
<1>2. PICK c : /\ Score(AgentB, c)
               /\ \/ /\ Joined(out, Line(AgentB, c))
                     /\ Rest /\ UNCHANGED faulty
                  \/ /\ phase' = "anchor" /\ last' = Line(AgentB, c)
                     /\ UNCHANGED <<out, standings, faulty>>
                  \/ Raised /\ UNCHANGED standings
  BY DEF ReportSecond, CycleEnds
<1>3. Reports(Pairs[pair][2], c)
  BY <1>2, ScoreReports DEF AgentB
<1>4. SUFFICES ASSUME NEW k \in DOMAIN duels, NEW t \in 1 .. 2, k \notin faulty'
               PROVE  WillBeOnChain(Recorded(k, t)', k, t)
  BY DEF RecordsHold
<1> DEFINE st == standings[Pairs[k][t]]
           r == IF k = pair /\ t = 1 THEN Add(st, out) ELSE st
           line == Line(Pairs[pair][2], c)
<1>5. k \notin faulty /\ IsOnChain(r, k, t)
  <2>1. k \notin faulty
    BY <1>2, <1>4 DEF Raised
  <2>2. Recorded(k, t) = r
    BY <1>1 DEF Recorded
  <2> QED BY <2>1, <2>2 DEF StandingsInv
<1>6. IF k = pair /\ t = 2 THEN WillBeOnChain(Add(r, line), k, t)
      ELSE WillBeOnChain(r, k, t)
  <2> HIDE DEF r
  <2> QED BY <1>1, <1>3, <1>5, ReportIsCounted
<1>7. CASE Raised /\ UNCHANGED standings
  <2>1. k # pair
    BY <1>4, <1>7 DEF Raised
  <2>2. Recorded(k, t)' = r
    BY <1>1, <1>7, <2>1 DEF Recorded
  <2> QED BY <1>6, <2>1, <2>2
<1>8. CASE phase' = "anchor" /\ last' = Line(AgentB, c) /\ UNCHANGED <<out, standings>>
  <2>1. Recorded(k, t)' = IF k = pair /\ t = 2 THEN Add(r, line) ELSE r
    BY <1>1, <1>8 DEF Recorded, AgentB
  <2> QED BY <1>6, <2>1
<1>9. CASE Joined(out, Line(AgentB, c)) /\ Rest
  <2>1. phase' \notin {"second", "anchor"}
    BY <1>9 DEF Rest
  <2>2. Recorded(k, t)' = standings'[Pairs[k][t]]
    BY <2>1 DEF Recorded
  <2>3. standings'[Pairs[k][t]] = IF k = pair /\ t = 2 THEN Add(r, line) ELSE r
    <3>1. CASE k = pair
      <4>1. /\ standings'[Pairs[pair][1]] = Add(standings[Pairs[pair][1]], out)
            /\ standings'[Pairs[pair][2]] = Add(standings[Pairs[pair][2]], line)
        <5> DEFINE y == Line(AgentB, c)
        <5>1. Joined(out, y) /\ y = line
          BY <1>9 DEF AgentB
        <5> HIDE DEF y, line
        <5> QED BY <1>1, <5>1, JoinedIs
      <4>2. t = 1 \/ t = 2
        OBVIOUS
      <4> QED BY <3>1, <4>1, <4>2
    <3>2. CASE k # pair
      <4> DEFINE y == Line(AgentB, c)
      <4>1. Joined(out, y)
        BY <1>9
      <4> HIDE DEF y
      <4>2. standings'[Pairs[k][t]] = standings[Pairs[k][t]]
        BY <1>1, <3>2, <4>1, JoinedIs, OthersJoinNot
      <4> QED BY <3>2, <4>2
    <3> QED BY <3>1, <3>2
  <2> QED BY <1>6, <2>2, <2>3
<1> QED BY <1>2, <1>7, <1>8, <1>9

LEMMA RecordsAnchored ==
  ASSUME RunInv, StandingsInv, AnchorRoots
  PROVE  RecordsHold
<1>1. /\ phase = "anchor" /\ phase \in Within /\ UNCHANGED <<pair, duels, faulty>>
      /\ Joined(out, last) /\ phase' \notin {"second", "anchor"}
  BY DEF AnchorRoots, CycleEnds, Rest, Within, Phases
<1>2. UNCHANGED counts
  BY VarsFacts DEF AnchorRoots
<1>3. SUFFICES ASSUME NEW k \in DOMAIN duels, NEW t \in 1 .. 2, k \notin faulty
               PROVE  WillBeOnChain(Recorded(k, t)', k, t)
  BY <1>1 DEF RecordsHold
<1>4. WillBeOnChain(Recorded(k, t), k, t)
  BY <1>2, <1>3, NothingIsCounted DEF StandingsInv
<1>5. Recorded(k, t)' = standings'[Pairs[k][t]]
  BY <1>1 DEF Recorded
<1>6. standings'[Pairs[k][t]] = Recorded(k, t)
  <2>1. CASE k = pair
    BY <1>1, <2>1, JoinedIs DEF Recorded
  <2>2. CASE k # pair
    BY <1>1, <2>2, JoinedIs, OthersJoinNot DEF Recorded
  <2> QED BY <2>1, <2>2
<1> QED BY <1>4, <1>5, <1>6

LEMMA RecordsElse ==
  ASSUME RunInv, StandingsInv, [RunNext]_runVars, ~ReportFirst, ~ReportSecond, ~AnchorRoots
  PROVE  RecordsHold /\ UNCHANGED <<counts, standings>>
<1> USE DEF cycleVars, pollVars, runnerVars
<1>1. UNCHANGED <<counts, standings>>
  <2>1. standings' = standings
    BY DEF RunNext, Runner, RegisterAgents, TradingBegins, Wake, ReceiptLost, CreateDuel,
       Poll, AfterPoll, ResolveDuel, SendFails, Flashbang, Elapse, StrangerResolves, runVars
  <2>2. CASE RegisterAgents
    BY <2>1, <2>2, RegisterStill DEF Still
  <2>3. CASE CreateDuel \/ ReceiptLost
    BY <2>3, CreateEffect, ResolveEffect DEF CreateDuel, ReceiptLost
  <2>4. CASE ResolveDuel \/ StrangerResolves
    BY <2>4, ResolveEffect DEF ResolveDuel, StrangerResolves, Resolve
  <2>5. CASE Flashbang
    BY <2>5, InjectEffect DEF Flashbang, Inject
  <2>6. CASE Elapse
    BY <2>6, TickEffect DEF Elapse
  <2>7. CASE TradingBegins \/ Poll \/ Wake \/ SendFails \/ UNCHANGED runVars
    BY <2>7, VarsFacts DEF TradingBegins, Poll, AfterPoll, Wake, SendFails, runVars
  <2> QED BY <2>1, <2>2, <2>3, <2>4, <2>5, <2>6, <2>7 DEF RunNext, Runner
<1>2. \A k \in DOMAIN duels, t \in 1 .. 2 : k \notin faulty' => Recorded(k, t)' = Recorded(k, t)
  <2>1. CASE RegisterAgents \/ TradingBegins \/ Wake \/ ReceiptLost \/ CreateDuel \/ Poll
             \/ ResolveDuel
    <3>1. phase \notin {"second", "anchor"} /\ phase' \notin {"second", "anchor"}
      BY <2>1 DEF RegisterAgents, TradingBegins, Wake, ReceiptLost, CreateDuel, Poll, AfterPoll,
         Rest, ResolveDuel, NextPair
    <3> QED BY <1>1, <3>1 DEF Recorded
  <2>2. CASE SendFails
    <3>1. /\ phase' \notin {"second", "anchor"}
          /\ phase \in {"second", "anchor"} => pair \in faulty'
      BY <2>2 DEF SendFails, Raised, NextPair
    <3> QED BY <1>1, <3>1 DEF Recorded
  <2>3. CASE Flashbang \/ Elapse \/ StrangerResolves \/ UNCHANGED runVars
    <3>1. UNCHANGED <<phase, pair, out, last, standings>>
      BY <2>3 DEF Flashbang, Elapse, StrangerResolves, runVars
    <3> QED BY <3>1 DEF Recorded
  <2> QED BY <2>1, <2>2, <2>3 DEF RunNext, Runner
<1>3. faulty \subseteq faulty'
  BY FaultsStay
<1> QED BY <1>1, <1>2, <1>3, NothingIsCounted DEF RecordsHold, StandingsInv

\* Who has not fought yet has nothing to show for it.
LEMMA UnfoughtStep ==
  ASSUME RunInv, StandingsInv, [RunNext]_runVars, NEW a \in Agents, Fought(a)' = {}
  PROVE  standings'[a] = NoReport /\ injectionsIngested'[a] = 0 /\ survivedInjections'[a] = 0
<1>1. DOMAIN duels \subseteq DOMAIN duels'
  <2>1. duels \in Seq(DuelIds)
    BY DEF RunInv, RunnerTypeOK
  <2>2. CASE BeginsDuel
    BY <2>1, <2>2 DEF BeginsDuel
  <2>3. CASE TurnsToNext \/ GoesOn
    BY <2>3 DEF TurnsToNext, GoesOn
  <2> QED BY <2>2, <2>3, ControlSteps DEF RunInv
<1>2. Fought(a) = {}
  BY <1>1 DEF Fought
<1>3. standings[a] = NoReport /\ injectionsIngested[a] = 0 /\ survivedInjections[a] = 0
  BY <1>2 DEF StandingsInv
<1>4. ASSUME phase \in Within
      PROVE  a \notin {Pairs[pair][1], Pairs[pair][2]}
  BY <1>2, <1>4, CurrentDuel DEF Fought
<1>5. ASSUME NEW s \in 1 .. 2, NEW c, phase \in Within, Reports(Pairs[pair][s], c)
      PROVE  injectionsIngested'[a] = 0 /\ survivedInjections'[a] = 0
  <2> DEFINE b == Pairs[pair][s]
             m == IF hand[b] # 0 THEN 1 ELSE 0
             n == IF hand[b] # 0 /\ c.survived THEN 1 ELSE 0
  <2>1. b # a
    BY <1>4, <1>5
  <2>2. /\ injectionsIngested' = [injectionsIngested EXCEPT ![b] = @ + m]
        /\ survivedInjections' = [survivedInjections EXCEPT ![b] = @ + n]
    BY <1>5 DEF Reports
  <2>3. injectionsIngested \in [Agents -> Nat] /\ survivedInjections \in [Agents -> Nat]
    BY DEF RunInv, ChainTypeOK
  <2> HIDE DEF b, m, n
  <2> QED BY <1>3, <2>1, <2>2, <2>3
<1>6. ASSUME NEW x, NEW y, phase \in Within, Joined(x, y)
      PROVE  standings'[a] = NoReport
  BY <1>3, <1>4, <1>6, JoinedIs
<1>7. CASE ReportFirst
  <2>1. PICK c : Score(AgentA, c)
    BY <1>7 DEF ReportFirst
  <2>2. Reports(Pairs[pair][1], c) /\ phase \in Within /\ standings' = standings
    BY <1>7, <2>1, ScoreReports DEF ReportFirst, AgentA, Within, Phases
  <2> QED BY <1>3, <1>5, <2>2
<1>8. CASE ReportSecond
  <2>1. PICK c : /\ Score(AgentB, c)
                 /\ Joined(out, Line(AgentB, c)) \/ UNCHANGED standings
    BY <1>8 DEF ReportSecond
  <2>2. Reports(Pairs[pair][2], c) /\ phase \in Within
    BY <1>8, <2>1, ScoreReports DEF ReportSecond, AgentB, Within, Phases
  <2>3. standings'[a] = NoReport
    <3> DEFINE y == Line(AgentB, c)
    <3>1. Joined(out, y) \/ UNCHANGED standings
      BY <2>1
    <3> HIDE DEF y
    <3> QED BY <1>3, <1>6, <2>2, <3>1
  <2> QED BY <1>5, <2>2, <2>3
<1>9. CASE AnchorRoots
  <2>1. UNCHANGED vars /\ phase \in Within /\ Joined(out, last)
    BY <1>9 DEF AnchorRoots, Within, Phases
  <2> QED BY <1>3, <1>6, <2>1, VarsFacts DEF counts
<1>10. CASE ~ReportFirst /\ ~ReportSecond /\ ~AnchorRoots
  BY <1>3, <1>10, RecordsElse DEF counts
<1> QED BY <1>7, <1>8, <1>9, <1>10

LEMMA FreshScores ==
  ASSUME RunInv, StandingsInv, [RunNext]_runVars, NEW d \in DuelIds, d > duelCount'
  PROVE  score'[d] = [s \in Sides |-> 0]
<1>1. ChainStep /\ DuelsStay /\ RunInv'
  BY ChainSteps, DuelsDoStay, RunStep DEF RunInv
<1>2. duelCount \in Nat /\ duelCount' \in Nat /\ d \in Nat
  BY <1>1, BoundsAssumption DEF RunInv, ChainTypeOK, DuelIds, BoundsAssumption
<1>3. d > duelCount /\ score[d] = [s \in Sides |-> 0]
  BY <1>1, <1>2 DEF DuelsStay, StandingsInv
<1>4. CASE ReportFirst \/ ReportSecond
  <2>1. phase \in Within
    BY <1>4 DEF ReportFirst, ReportSecond, Within, Phases
  <2>2. duel # d
    BY <1>2, <1>3, <2>1, CurrentDuel
  <2>3. PICK a, c : Reports(a, c)
    BY <1>4, ScoreReports DEF ReportFirst, ReportSecond
  <2>4. score' = [score EXCEPT ![duel][SideOf(duel, a)] = @ + c.r]
    BY <2>3 DEF Reports
  <2>5. score'[d] = score[d]
    BY <2>2, <2>4 DEF RunInv, ChainTypeOK
  <2> QED BY <1>3, <2>5
<1>5. CASE AnchorRoots
  BY <1>3, <1>5, VarsFacts DEF AnchorRoots, counts
<1>6. CASE ~ReportFirst /\ ~ReportSecond /\ ~AnchorRoots
  BY <1>3, <1>6, RecordsElse DEF counts
<1> QED BY <1>4, <1>5, <1>6

LEMMA NewcomersAreNew ==
  ASSUME RunInv, BeginsDuel, NEW s \in 1 .. 2
  PROVE  Fought(Pairs[pair][s]) = {} /\ Pairs[pair][s] \in Agents
<1>1. /\ Len(duels) = pair - 1 /\ duels \in Seq(DuelIds) /\ pair \in 1 .. Len(Pairs)
      /\ pair \in DOMAIN Pairs
  BY FieldFacts DEF BeginsDuel, RunInv, RunnerTypeOK, DuelsAreOnChain, Before
<1>2. ASSUME NEW j \in DOMAIN duels, Pairs[pair][s] \in {Pairs[j][1], Pairs[j][2]}
      PROVE  FALSE
  <2>1. j \in DOMAIN Pairs /\ j < pair
    BY <1>1, FieldFacts
  <2>2. pair = j
    BY <1>1, <1>2, <2>1, FieldAssumption DEF FieldAssumption
  <2> QED BY <1>1, <2>1, <2>2
<1> QED BY <1>1, <1>2, FieldFacts DEF Fought

LEMMA StandingsStep ==
  ASSUME RunInv, StandingsInv, [RunNext]_runVars
  PROVE  StandingsInv'
<1>1. RecordsHold
  BY RecordsFirst, RecordsSecond, RecordsAnchored, RecordsElse
<1>2. ASSUME NEW k \in DOMAIN duels', NEW s \in 1 .. 2, k \notin faulty'
      PROVE  IsOnChain(Recorded(k, s), k, s)'
  <2>1. CASE k \in DOMAIN duels /\ duels'[k] = duels[k]
    BY <1>1, <1>2, <2>1 DEF RecordsHold, WillBeOnChain, IsOnChain, SideAt
  <2>2. CASE BeginsDuel /\ k = pair /\ k \notin DOMAIN duels /\ duels'[k] = duelCount + 1
    <3> DEFINE fresh == duelCount + 1
               a == Pairs[k][s]
    <3>1. ~ReportFirst /\ ~ReportSecond /\ ~AnchorRoots
      BY <2>2 DEF BeginsDuel, ReportFirst, ReportSecond, AnchorRoots
    <3>2. UNCHANGED <<counts, standings>>
      BY <3>1, RecordsElse
    <3>3. k \in DOMAIN Pairs /\ a \in Agents
      BY <2>2, FieldFacts DEF RunInv, RunnerTypeOK
    <3>4. Fought(a) = {}
      BY <2>2, NewcomersAreNew
    <3>5. /\ standings[a] = NoReport
          /\ injectionsIngested[a] = 0 /\ survivedInjections[a] = 0
      BY <3>3, <3>4 DEF StandingsInv
    <3>6. score[fresh] = [x \in Sides |-> 0]
      <4>1. fresh \in DuelIds /\ fresh > duelCount
        <5>1. duelCount \in Nat /\ duelCount + 1 <= MaxDuels /\ MaxDuels \in Nat
          BY <2>2, BeginAnnounces, BoundsAssumption
             DEF Announces, RunInv, ChainTypeOK, BoundsAssumption
        <5> QED BY <5>1 DEF DuelIds
      <4> QED BY <4>1 DEF StandingsInv
    <3>7. Recorded(k, s)' = standings[a]
      <4>1. phase' \notin {"second", "anchor"}
        BY <2>2, BeginsByCreating DEF CreateDuel
      <4> QED BY <3>2, <4>1 DEF Recorded
    <3>8. SideAt(s) \in Sides /\ score'[fresh][SideAt(s)] = 0
      BY <3>2, <3>6 DEF counts, SideAt, Sides
    <3> QED BY <2>2, <3>2, <3>5, <3>7, <3>8 DEF counts, IsOnChain, NoReport, SideAt
  <2> QED BY <1>2, <2>1, <2>2, ListGrows
<1> QED BY <1>2, UnfoughtStep, FreshScores DEF StandingsInv

\* Between two cycles the leaderboard says what the contract says of every agent
\* in whose duel nothing raised, with any number of pairs.  (Arena.run,
\* _aggregate, reportCall)
THEOREM StandingsAreReal == RunSpec => []StandingsMatchTheChain
<1>1. RunnerInit => RunInv /\ StandingsInv
  BY RunInit, StandingsInit
<1>2. (RunInv /\ StandingsInv) /\ [RunNext]_runVars => (RunInv /\ StandingsInv)'
  BY RunStep, StandingsStep
<1>3. RunInv /\ StandingsInv => StandingsMatchTheChain
  <2> SUFFICES ASSUME RunInv, StandingsInv, phase \notin {"second", "anchor"},
                      NEW a \in Agents, NEW k \in Fought(a), k \notin faulty
               PROVE  /\ standings[a].alpha = score[duels[k]][SideOf(duels[k], a)]
                      /\ standings[a].ingested = injectionsIngested[a]
                      /\ standings[a].survived = survivedInjections[a]
    BY DEF StandingsMatchTheChain
  <2>1. k \in DOMAIN duels
    BY DEF Fought
  <2>2. PICK s \in 1 .. 2 : a = Pairs[k][s]
    BY DEF Fought
  <2>3. IsOnChain(standings[a], k, s)
    <3>1. Recorded(k, s) = standings[a]
      BY <2>2 DEF Recorded
    <3> QED BY <2>1, <3>1 DEF StandingsInv
  <2>4. SideOf(duels[k], a) = IF s = 1 THEN "A" ELSE "B"
    BY <2>1, <2>2, DuelFacts DEF SideOf, RunInv
  <2> QED BY <2>2, <2>3, <2>4 DEF IsOnChain
<1> QED BY <1>1, <1>2, <1>3, PTL DEF RunSpec

-----------------------------------------------------------------------------
(***************************************************************************)
(* Blocks: what polls have covered, and what is still to come.             *)
(***************************************************************************)
boughtVars == <<minedAt, injectionCount, injectionTarget>>

\* Injections are only ever added, in the block that is being built.
LEMMA WhatIsBought ==
  ASSUME [RunNext]_runVars
  PROVE  \/ UNCHANGED boughtVars
         \/ UNCHANGED runnerVars /\ \E a \in Agents, item \in Items : Sells(a, item)
<1>1. CASE Flashbang
  BY <1>1, InjectEffect DEF Flashbang, Inject, Sells
<1>2. CASE ~Flashbang
  <2>1. minedAt' = minedAt
    BY <1>2 DEF RunNext, Runner, RegisterAgents, TradingBegins, Wake, ReceiptLost, CreateDuel,
       Poll, AfterPoll, ReportFirst, ReportSecond, AnchorRoots, ResolveDuel, SendFails,
       Elapse, StrangerResolves, runVars
  <2>2. UNCHANGED <<injectionCount, injectionTarget>>
    <3>1. CASE RegisterAgents
      BY <3>1, RegisterStill DEF Still, chaosFacts
    <3>2. CASE CreateDuel \/ ReceiptLost
      BY <3>2, CreateEffect, ResolveEffect DEF CreateDuel, ReceiptLost, chaosFacts
    <3>3. CASE ResolveDuel \/ StrangerResolves
      BY <3>3, ResolveEffect DEF ResolveDuel, StrangerResolves, Resolve, chaosFacts
    <3>4. CASE ReportFirst \/ ReportSecond
      BY <3>4, ScoreReports DEF ReportFirst, ReportSecond, Reports
    <3>5. CASE Elapse
      BY <3>5, TickEffect DEF Elapse, chaosFacts
    <3>6. CASE TradingBegins \/ Poll \/ AnchorRoots \/ Wake \/ SendFails \/ UNCHANGED runVars
      BY <3>6, VarsFacts DEF TradingBegins, Poll, AfterPoll, AnchorRoots, Wake, SendFails,
         runVars, chaosFacts
    <3> QED BY <1>2, <3>1, <3>2, <3>3, <3>4, <3>5, <3>6 DEF RunNext, Runner
  <2> QED BY <2>1, <2>2 DEF boughtVars
<1> QED BY <1>1, <1>2

\* How the polls' window moves.
LEMMA WindowMoves ==
  ASSUME [RunNext]_runVars
  PROVE  \/ UNCHANGED <<fromBlock, since>>
         \/ CreateDuel /\ fromBlock' = 0 /\ since' = 0
         \/ TradingBegins /\ fromBlock' \in {0, LastBlock} /\ since' = fromBlock'
         \/ Poll /\ fromBlock <= 0 /\ fromBlock' = LastBlock /\ since' = LastBlock
         \/ Poll /\ fromBlock > 0 /\ fromBlock' = NextBlock /\ since' = since
<1> USE DEF cycleVars, pollVars, runnerVars
<1>1. CASE CreateDuel \/ TradingBegins
  BY <1>1 DEF CreateDuel, TradingBegins
<1>2. CASE Poll
  BY <1>2 DEF Poll, PollAnswer
<1>3. CASE ~CreateDuel /\ ~TradingBegins /\ ~Poll
  BY <1>3 DEF RunNext, Runner, RegisterAgents, Wake, ReceiptLost, ReportFirst, ReportSecond,
     AnchorRoots, ResolveDuel, SendFails, Flashbang, Elapse, StrangerResolves, runVars
<1> QED BY <1>1, <1>2, <1>3

LEMMA BlockTypes ==
  ASSUME RunInv
  PROVE  /\ now \in Nat /\ LastBlock \in Nat /\ Building \in Nat /\ Building = LastBlock + 1
         /\ fromBlock \in Nat /\ since \in Nat /\ NextBlock \in Nat
         /\ injectionCount \in Nat /\ injectionCount <= MaxInjections /\ MaxInjections \in Nat
         /\ \A i \in 1 .. injectionCount : i \in InjectionIds /\ minedAt[i] \in Nat
<1>1. MaxInjections \in Nat /\ injectionCount \in 0 .. MaxInjections
  BY BoundsAssumption DEF BoundsAssumption, RunInv, ChainTypeOK
<1>2. \A i \in 1 .. injectionCount : i \in InjectionIds
  BY <1>1 DEF InjectionIds
<1> QED BY <1>1, <1>2
        DEF RunInv, ChainTypeOK, RunnerTypeOK, LastBlock, Building, NextBlock

LEMMA BlocksInit == RunnerInit => BlocksInv
<1> SUFFICES ASSUME RunnerInit PROVE BlocksInv
  OBVIOUS
<1>1. now = 0 /\ injectionCount = 0 /\ fromBlock = 0 /\ since = 0
  BY DEF RunnerInit, Init
<1> QED BY <1>1 DEF BlocksInv, Building

\* A sale adds one id, mined last.
LEMMA SaleAdds ==
  ASSUME RunInv, NEW a, NEW item, Sells(a, item)
  PROVE  /\ injectionCount' = injectionCount + 1
         /\ injectionCount + 1 \in InjectionIds
         /\ minedAt'[injectionCount + 1] = Building
         /\ \A i \in 1 .. injectionCount :
              /\ minedAt'[i] = minedAt[i] /\ injectionTarget'[i] = injectionTarget[i]
              /\ injectionEscrows'[i] = injectionEscrows[i]
<1> DEFINE fresh == injectionCount + 1
           escrow == Escrow(settings.itemPrice[item])
<1>1. /\ injectionCount' = fresh /\ fresh <= MaxInjections
      /\ injectionEscrows' = [injectionEscrows EXCEPT ![fresh] = escrow]
      /\ injectionTarget' = [injectionTarget EXCEPT ![fresh] = a]
      /\ minedAt' = [minedAt EXCEPT ![fresh] = Building]
  BY DEF Sells
<1>2. fresh \in InjectionIds /\ \A i \in 1 .. injectionCount : i # fresh /\ i \in InjectionIds
  BY <1>1, BlockTypes DEF InjectionIds
<1>3. /\ DOMAIN injectionEscrows = InjectionIds /\ DOMAIN injectionTarget = InjectionIds
      /\ DOMAIN minedAt = InjectionIds
  BY DEF RunInv, ChainTypeOK, RunnerTypeOK
<1> HIDE DEF fresh, escrow
<1> QED BY <1>1, <1>2, <1>3 DEF fresh

LEMMA BlocksStep ==
  ASSUME RunInv, BlocksInv, [RunNext]_runVars
  PROVE  BlocksInv'
<1>0. /\ RunInv' /\ ChainStep
  BY RunStep, ChainSteps
<1>1. now' \in Nat /\ now' >= now
  <2>1. now' = now \/ now' = now + 1
    BY <1>0 DEF ChainStep, Still, Announces, Reports, Resolves, Sells, Ticks
  <2> QED BY <2>1, BlockTypes
<1>2. Building' >= Building /\ Building' \in Nat /\ Building \in Nat
  <2>1. \A m, n \in Nat : n >= m => n + 2 >= m + 2 /\ n + 2 \in Nat /\ m + 2 \in Nat
    OBVIOUS
  <2> QED BY <1>1, <2>1, BlockTypes DEF Building
<1>3. since' <= fromBlock' /\ fromBlock' <= Building'
  <2>1. fromBlock' \in {fromBlock, 0, LastBlock, NextBlock}
    BY WindowMoves
  <2>2. fromBlock' <= Building
    BY <2>1, BlockTypes DEF BlocksInv, NextBlock
  <2>3. since' <= fromBlock'
    BY BlockTypes, WindowMoves DEF BlocksInv, NextBlock
  <2>4. fromBlock' \in Nat
    BY <1>0 DEF RunInv, RunnerTypeOK
  <2> QED BY <1>2, <2>2, <2>3, <2>4
<1>4. phase' = "open" => fromBlock' = 0
  <2> SUFFICES ASSUME phase' = "open" PROVE fromBlock' = 0
    OBVIOUS
  <2>1. CreateDuel \/ (phase = "open" /\ UNCHANGED fromBlock)
    BY DEF RunNext, Runner, RegisterAgents, TradingBegins, Wake, ReceiptLost,
       Poll, AfterPoll, Rest, ReportFirst, ReportSecond, AnchorRoots, CycleEnds, Raised,
       ResolveDuel, SendFails, NextPair, Flashbang, Elapse, StrangerResolves, runVars,
       runnerVars, pollVars
  <2> QED BY <2>1 DEF BlocksInv, CreateDuel
<1>5. CASE UNCHANGED boughtVars
  <2>1. \A i \in 1 .. injectionCount : minedAt[i] <= Building'
    BY <1>2, BlockTypes DEF BlocksInv
  <2> QED BY <1>3, <1>4, <1>5, <2>1 DEF BlocksInv, boughtVars
<1>6. CASE UNCHANGED runnerVars /\ \E a \in Agents, item \in Items : Sells(a, item)
  <2>1. PICK a \in Agents, item \in Items : Sells(a, item)
    BY <1>6
  <2> DEFINE fresh == injectionCount + 1
  <2>2. \A i \in 1 .. injectionCount' : i \in 1 .. injectionCount \/ i = fresh
    BY <2>1, SaleAdds, BlockTypes
  <2>3. \A i \in 1 .. injectionCount' : minedAt'[i] <= Building /\ minedAt'[i] \in Nat
    BY <2>1, <2>2, SaleAdds, BlockTypes DEF BlocksInv
  <2>4. ASSUME NEW i \in 1 .. injectionCount', NEW j \in 1 .. injectionCount', i <= j
        PROVE  minedAt'[i] <= minedAt'[j]
    <3>1. CASE j = fresh
      BY <2>1, <2>3, <3>1, SaleAdds
    <3>2. CASE j # fresh
      <4>1. j \in 1 .. injectionCount /\ i \in 1 .. injectionCount
        BY <2>2, <2>4, <3>2, BlockTypes
      <4> QED BY <2>1, <2>4, <4>1, SaleAdds DEF BlocksInv
    <3> QED BY <3>1, <3>2
  <2>5. \A i \in 1 .. injectionCount' : minedAt'[i] <= Building'
    BY <1>2, <2>3
  <2> QED BY <1>3, <1>4, <2>4, <2>5 DEF BlocksInv
<1> QED BY <1>5, <1>6, WhatIsBought

-----------------------------------------------------------------------------
(***************************************************************************)
(* An injection counts once.                                               *)
(***************************************************************************)
LEMMA AgainstIsFinite ==
  ASSUME RunInv, NEW a
  PROVE  /\ IsFiniteSet(Against(a)) /\ Cardinality(Against(a)) \in Nat
         /\ IsFiniteSet(Covered(a)) /\ Cardinality(Covered(a)) \in Nat
         /\ Cardinality(Covered(a)) <= Cardinality(Against(a))
<1>1. IsFiniteSet(1 .. injectionCount)
  BY FS_Interval, BlockTypes
<1>2. Against(a) \subseteq 1 .. injectionCount /\ Covered(a) \subseteq Against(a)
  BY DEF Against, Covered
<1> QED BY <1>1, <1>2, FS_Subset, FS_CardinalityType

\* What has been bought and covered stays so.
LEMMA NothingIsLost ==
  ASSUME RunInv, [RunNext]_runVars, NEW a
  PROVE  /\ Against(a) \subseteq Against(a)'
         /\ fromBlock <= fromBlock' => Covered(a) \subseteq Covered(a)'
         /\ Cardinality(Against(a)) <= Cardinality(Against(a)')
         /\ fromBlock <= fromBlock' =>
              Cardinality(Covered(a)) <= Cardinality(Covered(a)')
         /\ Cardinality(Against(a)') \in Nat
         /\ IsFiniteSet(Covered(a)') /\ Cardinality(Covered(a)') \in Nat
<1>1. /\ \A i \in 1 .. injectionCount :
           /\ i \in 1 .. injectionCount'
           /\ minedAt'[i] = minedAt[i] /\ injectionTarget'[i] = injectionTarget[i]
  <2>1. CASE UNCHANGED boughtVars
    BY <2>1 DEF boughtVars
  <2>2. CASE \E b \in Agents, item \in Items : Sells(b, item)
    BY <2>2, SaleAdds, BlockTypes
  <2> QED BY <2>1, <2>2, WhatIsBought
<1>2. Against(a) \subseteq Against(a)'
  BY <1>1 DEF Against
<1>3. fromBlock <= fromBlock' => Covered(a) \subseteq Covered(a)'
  <2> SUFFICES ASSUME fromBlock <= fromBlock', NEW i \in Covered(a) PROVE i \in Covered(a)'
    OBVIOUS
  <2>1. i \in Against(a) /\ minedAt[i] < fromBlock /\ i \in 1 .. injectionCount
    BY DEF Covered, Against
  <2>2. fromBlock' \in Nat /\ fromBlock \in Nat /\ minedAt[i] \in Nat
    BY <2>1, BlockTypes, RunStep DEF RunInv, RunnerTypeOK
  <2>3. minedAt'[i] < fromBlock'
    BY <1>1, <2>1, <2>2
  <2> QED BY <1>2, <2>1, <2>3 DEF Covered
<1>4. IsFiniteSet(Against(a)') /\ IsFiniteSet(Covered(a)')
  <2>1. injectionCount' \in Nat
    <3>1. RunInv'
      BY RunStep
    <3> QED BY <3>1, BoundsAssumption DEF RunInv, ChainTypeOK, BoundsAssumption
  <2>2. IsFiniteSet(1 .. injectionCount')
    BY <2>1, FS_Interval
  <2>3. Against(a)' \subseteq 1 .. injectionCount' /\ Covered(a)' \subseteq Against(a)'
    BY DEF Against, Covered
  <2> QED BY <2>2, <2>3, FS_Subset
<1> QED BY <1>2, <1>3, <1>4, FS_Subset, FS_CardinalityType

\* A poll that finds an injection covers one more.
LEMMA PollCovers ==
  ASSUME RunInv, NEW a, UNCHANGED boughtVars, fromBlock' = NextBlock, FoundFor(a) # {}
  PROVE  /\ LatestFor(a) \in Covered(a)' /\ LatestFor(a) \notin Covered(a)
         /\ LatestFor(a) # 0
<1>1. LatestFor(a) \in FoundFor(a)
  BY LatestIs DEF RunInv
<1> DEFINE i == LatestFor(a)
<1>2. /\ i \in 1 .. injectionCount /\ injectionTarget[i] = a
      /\ minedAt[i] \in fromBlock .. LastBlock
  BY <1>1 DEF FoundFor, Polled
<1> HIDE DEF i
<1>3. /\ minedAt[i] \in Nat /\ fromBlock <= minedAt[i] /\ minedAt[i] <= LastBlock
      /\ fromBlock \in Nat /\ LastBlock \in Nat
  BY <1>2, BlockTypes
<1>4. NextBlock = LastBlock + 1
  BY <1>3 DEF NextBlock
<1>5. minedAt'[i] < fromBlock' /\ ~(minedAt[i] < fromBlock)
  BY <1>3, <1>4 DEF boughtVars
<1>6. i \in Against(a)'
  BY <1>2 DEF Against, boughtVars
<1> QED BY <1>2, <1>5, <1>6 DEF Covered, i

\* What the injections a report ingests are.
IngestedBy(s) ==
  LET a == Pairs[pair][s]
  IN /\ injectionsIngested' =
          [injectionsIngested EXCEPT ![a] = @ + IF Pending(a) THEN 1 ELSE 0]
     /\ ~Pending(a)'

LEMMA ReportsIngest ==
  ASSUME RunInv, ReportFirst \/ ReportSecond
  PROVE  \E s \in 1 .. 2 :
           /\ IngestedBy(s)
           /\ \A t \in 1 .. 2 : t # s /\ Pending(Pairs[pair][t])' => Pending(Pairs[pair][t])
<1>0. phase \in Within /\ pair' = pair
  BY DEF ReportFirst, ReportSecond, Within, Phases
<1>1. AgentA # AgentB /\ AgentA = Pairs[pair][1] /\ AgentB = Pairs[pair][2]
      /\ AgentA \in Agents /\ AgentB \in Agents /\ AgentA' = AgentA /\ AgentB' = AgentB
  BY <1>0, EveryoneOnce, CurrentDuel DEF AgentA, AgentB
<1>2. ASSUME ReportFirst
      PROVE  /\ IngestedBy(1)
             /\ Pending(AgentB)' => Pending(AgentB)
  <2>1. PICK c : Score(AgentA, c)
    BY <1>2 DEF ReportFirst
  <2>2. Reports(AgentA, c)
    BY <2>1, ScoreReports
  <2>3. phase = "first"
    BY <1>2 DEF ReportFirst
  <2>4. \/ phase' = "second" /\ hand' = hand
        \/ phase' \in {"resolve", "crashed"}
    BY <1>2 DEF ReportFirst, Raised
  <2>5. ~Pending(AgentA)'
    BY <1>1, <2>4 DEF Pending
  <2>6. Pending(AgentA) <=> hand[AgentA] # 0
    BY <2>3 DEF Pending
  <2>7. injectionsIngested' = [injectionsIngested EXCEPT
                                 ![AgentA] = @ + IF Pending(AgentA) THEN 1 ELSE 0]
    BY <2>2, <2>6 DEF Reports
  <2>8. Pending(AgentB)' => Pending(AgentB)
    BY <1>1, <2>3, <2>4 DEF Pending
  <2>9. IngestedBy(1)
    BY <2>5, <2>7 DEF IngestedBy, AgentA
  <2> QED BY <2>8, <2>9
<1>3. ASSUME ReportSecond
      PROVE  IngestedBy(2) /\ ~Pending(AgentA)'
  <2>1. PICK c : Score(AgentB, c)
    BY <1>3 DEF ReportSecond
  <2>2. Reports(AgentB, c)
    BY <2>1, ScoreReports
  <2>3. phase = "second"
    BY <1>3 DEF ReportSecond
  <2>4. phase' \notin {"first", "second"}
    BY <1>3 DEF ReportSecond, CycleEnds, Rest, Raised
  <2>5. ~Pending(AgentA)' /\ ~Pending(AgentB)'
    BY <2>4 DEF Pending
  <2>6. Pending(AgentB) <=> hand[AgentB] # 0
    BY <2>3 DEF Pending
  <2>7. injectionsIngested' = [injectionsIngested EXCEPT
                                 ![AgentB] = @ + IF Pending(AgentB) THEN 1 ELSE 0]
    BY <2>2, <2>6 DEF Reports
  <2>8. AgentB = Pairs[pair][2]
    BY DEF AgentB
  <2> QED BY <2>5, <2>7, <2>8 DEF IngestedBy, AgentA, AgentB
<1>4. CASE ReportFirst
  <2>1. \A t \in 1 .. 2 : t # 1 => Pairs[pair][t] = AgentB /\ Pairs[pair'][t] = AgentB'
    BY DEF AgentB
  <2>2. \A t \in 1 .. 2 :
          t # 1 /\ Pending(Pairs[pair][t])' => Pending(Pairs[pair][t])
    BY <1>2, <1>4, <2>1
  <2> QED BY <1>2, <1>4, <2>2
<1>5. CASE ReportSecond
  <2>1. \A t \in 1 .. 2 : t # 2 => Pairs[pair'][t] = AgentA'
    BY DEF AgentA
  <2>2. \A t \in 1 .. 2 : t # 2 => ~Pending(Pairs[pair][t])'
    BY <1>3, <1>5, <2>1
  <2> QED BY <1>3, <1>5, <2>2
<1> QED BY <1>4, <1>5

LEMMA CountInit == RunnerInit => CountInv
<1> SUFFICES ASSUME RunnerInit PROVE CountInv
  OBVIOUS
<1>1. injectionCount = 0 /\ phase = "register"
  BY DEF RunnerInit, Init
<1>2. \A a \in Agents : injectionsIngested[a] = 0
  BY DEF RunnerInit, Init
<1>3. \A a \in Agents : Against(a) = {}
  BY <1>1 DEF Against
<1>4. InjectionsCountOnce
  BY <1>2, <1>3, FS_EmptySet DEF InjectionsCountOnce
<1> QED BY <1>1, <1>4 DEF CountInv, Within

\* Injections are counted in reports only, and no report becomes pending but by
\* a poll.
LEMMA NoReportNoCount ==
  ASSUME RunInv, StandingsInv, [RunNext]_runVars, ~ReportFirst, ~ReportSecond
  PROVE  /\ injectionsIngested' = injectionsIngested
         /\ ~Poll => \A a : Pending(a)' /\ AgentB' = AgentB => Pending(a)
<1>1. injectionsIngested' = injectionsIngested
  <2>1. CASE AnchorRoots
    BY <2>1, VarsFacts DEF AnchorRoots, counts
  <2>2. CASE ~AnchorRoots
    BY <2>2, RecordsElse DEF counts
  <2> QED BY <2>1, <2>2
<1>2. ASSUME ~Poll, NEW a, Pending(a)', AgentB' = AgentB PROVE Pending(a)
  <2>1. phase' \in {"first", "second"} /\ hand'[a] # 0
    BY <1>2 DEF Pending
  <2>2. UNCHANGED <<phase, hand>>
    BY <1>2, <2>1 DEF RunNext, Runner, RegisterAgents, TradingBegins, Wake, ReceiptLost,
       CreateDuel, AnchorRoots, CycleEnds, Rest, ResolveDuel, NextPair, SendFails, Raised,
       Flashbang, Elapse, StrangerResolves, runVars, runnerVars, cycleVars
  <2> QED BY <1>2, <2>2 DEF Pending
<1> QED BY <1>1, <1>2

\* The step a poll takes towards the count: what it holds, it has just covered.
LEMMA PollCounts ==
  ASSUME RunInv, StandingsInv, CountInv, Poll, NEW s \in 1 .. 2
  PROVE  IsCovered(s)'
<1> PICK a : a = Pairs[pair][s]
  OBVIOUS
<1>0. /\ phase = "poll" /\ phase \in Within /\ pair' = pair /\ vars' = vars /\ minedAt' = minedAt
      /\ a \in Agents
  <2>1. phase = "poll" /\ phase \in Within /\ pair' = pair /\ vars' = vars /\ minedAt' = minedAt
    BY DEF Poll, AfterPoll, Within, Phases
  <2> QED BY <2>1, EveryoneOnce, CurrentDuel
<1>8. [RunNext]_runVars
  BY DEF RunNext, Runner
<1>1. /\ UNCHANGED boughtVars /\ injectionsIngested' = injectionsIngested
  BY <1>0, VarsFacts DEF boughtVars, chaosFacts, counts
<1>2. ~Pending(a) /\ injectionsIngested[a] <= Cardinality(Covered(a))
      /\ injectionsIngested[a] \in Nat
  <2>1. IsCovered(s) /\ ~Pending(a) /\ injectionsIngested[a] \in Nat
    BY <1>0 DEF CountInv, Pending, RunInv, ChainTypeOK
  <2> QED BY <2>1 DEF IsCovered
<1>3. fromBlock <= fromBlock'
  <2>1. fromBlock' \in {fromBlock, LastBlock, NextBlock}
        /\ (fromBlock' = LastBlock => fromBlock' = fromBlock \/ fromBlock <= 0 \/ fromBlock' = NextBlock)
    BY DEF Poll, PollAnswer, pollVars
  <2> QED BY <2>1, BlockTypes DEF NextBlock
<1>4. /\ Cardinality(Covered(a)) <= Cardinality(Covered(a)')
      /\ Cardinality(Covered(a)) \in Nat /\ Cardinality(Covered(a)') \in Nat
      /\ Covered(a) \subseteq Covered(a)' /\ IsFiniteSet(Covered(a)) /\ IsFiniteSet(Covered(a)')
  BY <1>3, <1>8, NothingIsLost, AgainstIsFinite
<1>5. CASE ~Pending(a)'
  <2>1. injectionsIngested'[a] + 0 <= Cardinality(Covered(a)')
    BY <1>1, <1>2, <1>4
  <2> QED BY <1>0, <1>5, <2>1 DEF IsCovered
<1>6. CASE Pending(a)'
  <2>1. hand'[a] # 0
    BY <1>0, <1>6 DEF Pending
  <2>2. fromBlock' = NextBlock /\ hand'[a] = LatestFor(a)
    BY <1>0, <2>1 DEF Poll, PollAnswer, NoInjections
  <2>3. FoundFor(a) # {}
    BY <2>1, <2>2, LatestIs DEF RunInv
  <2> DEFINE i == LatestFor(a)
             S == Covered(a)
             T == Covered(a)'
  <2>4. i \in T /\ i \notin S
    BY <1>1, <2>2, <2>3, PollCovers, <1>0
  <2> HIDE DEF i, S, T
  <2>5. Cardinality(S \cup {i}) = Cardinality(S) + 1
    BY <1>4, <2>4, FS_AddElement DEF S
  <2>6. S \cup {i} \subseteq T /\ IsFiniteSet(T)
    BY <1>4, <2>4 DEF S, T
  <2>7. Cardinality(S) + 1 <= Cardinality(T)
    BY <2>5, <2>6, FS_Subset
  <2>8. injectionsIngested'[a] + 1 <= Cardinality(T)
    BY <1>1, <1>2, <1>4, <2>7 DEF S, T
  <2> QED BY <1>0, <1>6, <2>8 DEF IsCovered, T
<1> QED BY <1>5, <1>6

\* What a report counts, it was covered for.
LEMMA ReportCounts ==
  ASSUME RunInv, CountInv, ReportFirst \/ ReportSecond
  PROVE  /\ pair' = pair /\ \A s \in 1 .. 2 : IsCovered(s)'
         /\ \A a \in Agents : injectionsIngested'[a] # injectionsIngested[a] =>
              injectionsIngested'[a] <= Cardinality(Covered(a))
<1>0. /\ phase \in Within /\ pair' = pair /\ fromBlock' = fromBlock /\ pair \in DOMAIN duels
      /\ [RunNext]_runVars /\ fromBlock \in Nat
  <2>1. phase \in Within /\ pair' = pair /\ fromBlock' = fromBlock
    BY DEF ReportFirst, ReportSecond, pollVars, Within, Phases
  <2> QED BY <2>1, CurrentDuel DEF RunNext, Runner, RunInv, RunnerTypeOK
<1>1. PICK s \in 1 .. 2 :
        /\ IngestedBy(s)
        /\ \A t \in 1 .. 2 : t # s /\ Pending(Pairs[pair][t])' => Pending(Pairs[pair][t])
  BY ReportsIngest
<1>2. PICK a : a = Pairs[pair][s]
  OBVIOUS
<1>3. /\ a \in Agents /\ injectionsIngested \in [Agents -> Nat]
      /\ injectionsIngested'[a] = injectionsIngested[a] + (IF Pending(a) THEN 1 ELSE 0)
      /\ \A b \in Agents : b # a => injectionsIngested'[b] = injectionsIngested[b]
      /\ ~Pending(a)'
  <2>1. a \in Agents /\ injectionsIngested \in [Agents -> Nat]
    BY <1>0, <1>2, EveryoneOnce DEF RunInv, ChainTypeOK
  <2>2. injectionsIngested' =
          [injectionsIngested EXCEPT ![a] = @ + IF Pending(a) THEN 1 ELSE 0]
    BY <1>1, <1>2 DEF IngestedBy
  <2>3. ~Pending(a)'
    BY <1>0, <1>1, <1>2 DEF IngestedBy
  <2> QED BY <2>1, <2>2, <2>3
<1>4. injectionsIngested'[a] <= Cardinality(Covered(a))
  <2>1. IsCovered(s)
    BY <1>0 DEF CountInv
  <2> QED BY <1>2, <1>3, <2>1 DEF IsCovered
<1>5. ASSUME NEW t \in 1 .. 2
      PROVE  IsCovered(t)'
  <2>1. PICK b : b = Pairs[pair][t]
    OBVIOUS
  <2>2. /\ Cardinality(Covered(b)) <= Cardinality(Covered(b)') /\ b \in Agents
        /\ Cardinality(Covered(b)) \in Nat /\ Cardinality(Covered(b)') \in Nat
    BY <1>0, <2>1, NothingIsLost, AgainstIsFinite, EveryoneOnce
  <2>3. CASE t = s
    <3>1. b = a /\ injectionsIngested'[b] \in Nat
      BY <1>2, <1>3, <2>1, <2>3
    <3>2. injectionsIngested'[b] + 0 <= Cardinality(Covered(b)')
      BY <1>4, <2>2, <3>1
    <3> QED BY <1>0, <1>3, <2>1, <3>1, <3>2 DEF IsCovered
  <2>4. CASE t # s
    <3>1. b # a
      BY <1>0, <1>2, <2>1, <2>4, EveryoneOnce
    <3>2. IsCovered(t) /\ injectionsIngested'[b] = injectionsIngested[b]
          /\ injectionsIngested[b] \in Nat
      BY <1>0, <1>3, <2>2, <3>1 DEF CountInv
    <3>3. Pending(b)' => Pending(b)
      BY <1>0, <1>1, <2>1, <2>4
    <3>4. injectionsIngested'[b] + (IF Pending(b)' THEN 1 ELSE 0) <= Cardinality(Covered(b)')
      BY <2>1, <2>2, <3>2, <3>3 DEF IsCovered
    <3> QED BY <1>0, <2>1, <3>4 DEF IsCovered
  <2> QED BY <2>3, <2>4
<1>6. \A b \in Agents : injectionsIngested'[b] # injectionsIngested[b] =>
        injectionsIngested'[b] <= Cardinality(Covered(b))
  BY <1>3, <1>4
<1> QED BY <1>0, <1>5, <1>6

LEMMA CountStep ==
  ASSUME RunInv, BlocksInv, StandingsInv, CountInv, [RunNext]_runVars
  PROVE  CountInv'
<1>1. ASSUME NEW a \in Agents
      PROVE  injectionsIngested'[a] <= Cardinality(Against(a)')
  <2>1. /\ Cardinality(Covered(a)) <= Cardinality(Against(a))
        /\ Cardinality(Against(a)) <= Cardinality(Against(a)')
        /\ Cardinality(Against(a)) \in Nat /\ Cardinality(Against(a)') \in Nat
        /\ Cardinality(Covered(a)) \in Nat
    BY AgainstIsFinite, NothingIsLost
  <2>2. /\ injectionsIngested[a] <= Cardinality(Against(a)) /\ injectionsIngested[a] \in Nat
        /\ injectionsIngested'[a] \in Nat
    <3>1. RunInv'
      BY RunStep
    <3> QED BY <3>1 DEF CountInv, InjectionsCountOnce, RunInv, ChainTypeOK
  <2>3. CASE injectionsIngested'[a] = injectionsIngested[a]
    BY <2>1, <2>2, <2>3
  <2>4. CASE injectionsIngested'[a] # injectionsIngested[a]
    <3>1. ReportFirst \/ ReportSecond
      BY <2>4, NoReportNoCount
    <3>2. injectionsIngested'[a] <= Cardinality(Covered(a))
      BY <2>4, <3>1, ReportCounts
    <3> QED BY <2>1, <2>2, <3>2
  <2> QED BY <2>3, <2>4
<1>2. ASSUME phase' \in Within, NEW s \in 1 .. 2
      PROVE  IsCovered(s)'
  <2>1. CASE ReportFirst \/ ReportSecond
    BY <2>1, ReportCounts
  <2>2. CASE Poll
    BY <2>2, PollCounts
  <2>3. CASE BeginsDuel
    <3>1. PICK a : a = Pairs[pair][s]
      OBVIOUS
    <3>2. a \in Agents /\ injectionsIngested[a] = 0 /\ pair' = pair
      BY <2>3, <3>1, NewcomersAreNew DEF StandingsInv, BeginsDuel
    <3>3. ~ReportFirst /\ ~ReportSecond /\ ~Poll
      BY <2>3 DEF BeginsDuel, ReportFirst, ReportSecond, Poll
    <3>4. injectionsIngested'[a] = 0
      BY <3>2, <3>3, NoReportNoCount
    <3>5. ~Pending(a)'
      <4>1. phase' \notin {"first", "second"}
        BY <2>3, BeginsByCreating DEF CreateDuel
      <4> QED BY <4>1 DEF Pending
    <3>6. Cardinality(Covered(a)') \in Nat
      BY NothingIsLost
    <3>7. injectionsIngested'[a] + 0 <= Cardinality(Covered(a)')
      BY <3>4, <3>6
    <3> QED BY <3>1, <3>2, <3>5, <3>7 DEF IsCovered
  <2>4. CASE ~ReportFirst /\ ~ReportSecond /\ ~Poll /\ ~BeginsDuel
    <3>1. PICK a : a = Pairs[pair][s]
      OBVIOUS
    <3>2. GoesOn /\ pair' = pair /\ phase \in Within
      <4>1. GoesOn
        BY <1>2, <2>4, ControlSteps DEF RunInv, TurnsToNext, Within, Phases
      <4> QED BY <1>2, <4>1 DEF GoesOn, Within, Phases, Before
    <3>3. AgentB' = AgentB /\ IsCovered(s) /\ a \in Agents
      BY <3>1, <3>2, EveryoneOnce, CurrentDuel DEF AgentB, CountInv
    <3>4. Pending(a)' => Pending(a)
      BY <2>4, <3>3, NoReportNoCount
    <3>5. fromBlock <= fromBlock'
      <4>1. \/ fromBlock' = fromBlock
            \/ TradingBegins /\ fromBlock' \in {0, LastBlock}
        BY <2>4, <3>2, WindowMoves DEF CreateDuel, Within, Phases
      <4>2. TradingBegins => fromBlock = 0
        BY DEF TradingBegins, BlocksInv
      <4> QED BY <4>1, <4>2, BlockTypes
    <3>6. /\ Cardinality(Covered(a)) <= Cardinality(Covered(a)')
          /\ Cardinality(Covered(a)) \in Nat /\ Cardinality(Covered(a)') \in Nat
      BY <3>5, NothingIsLost, AgainstIsFinite
    <3>7. injectionsIngested' = injectionsIngested /\ injectionsIngested[a] \in Nat
      BY <2>4, <3>3, NoReportNoCount DEF RunInv, ChainTypeOK
    <3>8. injectionsIngested'[a] + (IF Pending(a)' THEN 1 ELSE 0) <= Cardinality(Covered(a)')
      BY <3>1, <3>3, <3>4, <3>6, <3>7 DEF IsCovered
    <3> QED BY <3>1, <3>2, <3>8 DEF IsCovered
  <2> QED BY <2>1, <2>2, <2>3, <2>4
<1> QED BY <1>1, <1>2 DEF CountInv, InjectionsCountOnce

\* However polls fail and receipts get lost, the contract never holds more
\* ingested injections against an agent than spectators bought.
\* (poll_injections, run_cycle)
THEOREM InjectionsCount == RunSpec => []InjectionsCountOnce
<1> DEFINE Inv == RunInv /\ BlocksInv /\ StandingsInv /\ CountInv
<1>1. RunnerInit => Inv
  BY RunInit, BlocksInit, StandingsInit, CountInit
<1>2. Inv /\ [RunNext]_runVars => Inv'
  BY RunStep, BlocksStep, StandingsStep, CountStep
<1>3. Inv => InjectionsCountOnce
  BY DEF CountInv
<1> QED BY <1>1, <1>2, <1>3, PTL DEF RunSpec

-----------------------------------------------------------------------------
(***************************************************************************)
(* The latest injection a poll saw is scored.                              *)
(***************************************************************************)
\* Only reports settle escrows.
LEMMA EscrowsStay ==
  ASSUME RunInv, [RunNext]_runVars, ~ReportFirst, ~ReportSecond
  PROVE  \A i \in 1 .. injectionCount : injectionEscrows'[i] = injectionEscrows[i]
<1>1. CASE RegisterAgents
  BY <1>1, RegisterStill DEF Still, chaosFacts
<1>2. CASE CreateDuel \/ ReceiptLost
  BY <1>2, CreateEffect, ResolveEffect DEF CreateDuel, ReceiptLost, chaosFacts
<1>3. CASE ResolveDuel \/ StrangerResolves
  BY <1>3, ResolveEffect DEF ResolveDuel, StrangerResolves, Resolve, chaosFacts
<1>4. CASE Elapse
  BY <1>4, TickEffect DEF Elapse, chaosFacts
<1>5. CASE TradingBegins \/ Poll \/ AnchorRoots \/ Wake \/ SendFails \/ UNCHANGED runVars
  BY <1>5, VarsFacts DEF TradingBegins, Poll, AfterPoll, AnchorRoots, Wake, SendFails,
     runVars, chaosFacts
<1>6. CASE Flashbang
  <2>1. PICK a, item : Sells(a, item)
    BY <1>6, InjectEffect DEF Flashbang, Inject, Sells
  <2> QED BY <2>1, SaleAdds
<1> QED BY <1>1, <1>2, <1>3, <1>4, <1>5, <1>6 DEF RunNext, Runner

\* What is bought meanwhile is mined too late to have been seen.
LEMMA SeenStays ==
  ASSUME RunInv, BlocksInv, [RunNext]_runVars, UNCHANGED <<fromBlock, since>>, NEW a
  PROVE  Seen(a)' = Seen(a)
<1>1. CASE UNCHANGED boughtVars
  BY <1>1 DEF boughtVars, Seen, Covered, Against
<1>2. CASE \E b \in Agents, item \in Items : Sells(b, item)
  <2>1. PICK b \in Agents, item \in Items : Sells(b, item)
    BY <1>2
  <2> DEFINE fresh == injectionCount + 1
  <2>2. /\ \A i \in 1 .. injectionCount' : i \in 1 .. injectionCount \/ i = fresh
        /\ \A i \in 1 .. injectionCount : i \in 1 .. injectionCount'
        /\ minedAt'[fresh] = Building
        /\ \A i \in 1 .. injectionCount :
             minedAt'[i] = minedAt[i] /\ injectionTarget'[i] = injectionTarget[i]
    BY <2>1, SaleAdds, BlockTypes
  <2>3. ~(minedAt'[fresh] < fromBlock')
    BY <2>2, BlockTypes DEF BlocksInv
  <2> HIDE DEF fresh
  <2> QED BY <2>2, <2>3 DEF Seen, Covered, Against
<1> QED BY <1>1, <1>2, WhatIsBought

\* A poll whose window opened before it: what it finds comes after all it had
\* seen, and is held.
LEMMA PollSettles ==
  ASSUME RunInv, BlocksInv, Poll, fromBlock > 0, fromBlock' = NextBlock, since' = since,
         hand' = [b \in Agents |-> LatestFor(b)],
         NEW a \in Agents, a \in {AgentA, AgentB}, LatestIsSettled(a)
  PROVE  LatestIsSettled(a)'
<1>0. /\ phase = "poll" /\ ~Pending(a) /\ UNCHANGED boughtVars /\ UNCHANGED injectionEscrows
      /\ hand'[a] = LatestFor(a)
  <2>1. phase = "poll" /\ vars' = vars /\ minedAt' = minedAt
    BY DEF Poll, AfterPoll
  <2> QED BY <2>1, VarsFacts DEF Pending, boughtVars, chaosFacts
<1>1. \A i : i \in Seen(a)' <=> /\ i \in 1 .. injectionCount /\ injectionTarget[i] = a
                               /\ minedAt[i] < NextBlock /\ minedAt[i] >= since
  BY <1>0 DEF Seen, Covered, Against, boughtVars
<1>2. \A i : i \in Seen(a) <=> /\ i \in 1 .. injectionCount /\ injectionTarget[i] = a
                              /\ minedAt[i] < fromBlock /\ minedAt[i] >= since
  BY DEF Seen, Covered, Against
<1>3. \A i : i \in FoundFor(a) <=> /\ i \in 1 .. injectionCount /\ injectionTarget[i] = a
                                  /\ minedAt[i] \in fromBlock .. LastBlock
  BY DEF FoundFor, Polled
<1>4. /\ fromBlock \in Nat /\ LastBlock \in Nat /\ since \in Nat /\ since <= fromBlock
      /\ fromBlock <= NextBlock /\ NextBlock \in Nat
      /\ \A i \in 1 .. injectionCount : minedAt[i] \in Nat /\ i \in Nat
      /\ \A i, j \in 1 .. injectionCount : i <= j => minedAt[i] <= minedAt[j]
      /\ NextBlock = fromBlock \/ NextBlock = LastBlock + 1
  BY BlockTypes DEF BlocksInv, NextBlock
<1>5. \A i \in Seen(a)' : i \in Seen(a) \/ i \in FoundFor(a)
  BY <1>1, <1>2, <1>3, <1>4
<1>6. Seen(a) \subseteq Seen(a)'
  BY <1>1, <1>2, <1>4
<1>7. CASE FoundFor(a) = {}
  <2>1. Seen(a)' = Seen(a)
    BY <1>5, <1>6, <1>7
  <2> QED BY <1>0, <2>1 DEF LatestIsSettled
<1>8. CASE FoundFor(a) # {}
  <2> DEFINE m == LatestFor(a)
  <2>1. m \in FoundFor(a) /\ \A j \in FoundFor(a) : j <= m
    BY <1>8, LatestIs DEF RunInv
  <2> HIDE DEF m
  <2>2. /\ m \in 1 .. injectionCount /\ injectionTarget[m] = a
        /\ fromBlock <= minedAt[m] /\ minedAt[m] <= LastBlock /\ minedAt[m] \in Nat /\ m \in Nat
    BY <1>3, <1>4, <2>1
  <2>3. NextBlock = LastBlock + 1
    BY <1>4, <2>2 DEF NextBlock
  <2>4. m \in Seen(a)'
    BY <1>1, <1>4, <2>2, <2>3
  <2>5. ASSUME NEW j \in Seen(a)' PROVE j <= m
    <3>1. CASE j \in FoundFor(a)
      BY <2>1, <3>1
    <3>2. CASE j \in Seen(a)
      <4>1. j \in 1 .. injectionCount /\ minedAt[j] < fromBlock /\ j \in Nat /\ minedAt[j] \in Nat
        BY <1>2, <1>4, <3>2
      <4>2. ~(m <= j)
        BY <1>4, <2>2, <4>1
      <4> QED BY <2>2, <4>1, <4>2
    <3> QED BY <1>5, <3>1, <3>2
  <2>6. Pending(a)'
    <3>1. hand'[a] = m /\ m # 0
      BY <1>0, <2>2 DEF m
    <3>2. hand' # NoInjections
      BY <3>1 DEF NoInjections
    <3>3. phase' = "first"
      BY <3>2 DEF Poll, AfterPoll, Scored
    <3> QED BY <3>1, <3>3 DEF Pending
  <2>7. hand'[a] = m
    BY <1>0 DEF m
  <2> QED BY <2>4, <2>5, <2>6, <2>7 DEF LatestIsSettled
<1> QED BY <1>7, <1>8

\* A report settles what was held for its agent, and leaves the other one's to come.
LEMMA ReportSettles ==
  ASSUME RunInv, ReportFirst \/ ReportSecond, pair \notin faulty', NEW s \in 1 .. 2,
         NEW a, a = Pairs[pair][s], NEW m \in 1 .. injectionCount,
         injectionEscrows[m] = 0 \/ (hand[a] = m /\ Pending(a))
  PROVE  injectionEscrows'[m] = 0 \/ (hand'[a] = m /\ Pending(a)')
<1>0. /\ phase \in Within /\ pair' = pair /\ pair \in DOMAIN duels
      /\ m \in InjectionIds /\ m # 0
      /\ injectionEscrows \in [InjectionIds -> Nat]
      /\ hand \in [Agents -> 0 .. MaxInjections] /\ MaxInjections \in Nat
  <2>1. phase \in Within /\ pair' = pair
    BY DEF ReportFirst, ReportSecond, Within, Phases
  <2>2. m \in InjectionIds /\ m # 0 /\ MaxInjections \in Nat
    BY BlockTypes
  <2>3. pair \in DOMAIN duels
    BY <2>1, CurrentDuel
  <2>4. /\ injectionEscrows \in [InjectionIds -> Nat]
        /\ hand \in [Agents -> 0 .. MaxInjections]
    BY DEF RunInv, ChainTypeOK, RunnerTypeOK
  <2> QED BY <2>1, <2>2, <2>3, <2>4
<1>1. /\ AgentA = Pairs[pair][1] /\ AgentB = Pairs[pair][2] /\ AgentA # AgentB
      /\ AgentB' = AgentB /\ (a = AgentA \/ a = AgentB)
  BY <1>0, EveryoneOnce DEF AgentA, AgentB
<1>2. ASSUME NEW b, NEW c, Reports(b, c)
      PROVE  /\ injectionEscrows[m] = 0 => injectionEscrows'[m] = 0
             /\ hand[b] = m => injectionEscrows'[m] = 0
  <2>1. CASE Settles(hand[b])
    <3>1. injectionEscrows' = [injectionEscrows EXCEPT ![hand[b]] = 0]
      BY <1>2, <2>1 DEF Reports
    <3> QED BY <1>0, <3>1
  <2>2. CASE ~Settles(hand[b])
    <3>1. injectionEscrows' = injectionEscrows
      BY <1>2, <2>2 DEF Reports
    <3>2. hand[b] = m => injectionEscrows[m] = 0
      <4>1. injectionEscrows[m] \in Nat
        BY <1>0
      <4> QED BY <1>0, <2>2, <4>1 DEF Settles
    <3> QED BY <3>1, <3>2
  <2> QED BY <2>1, <2>2
<1>3. CASE ReportFirst
  <2>1. PICK c : Reports(AgentA, c)
    BY <1>3, ScoreReports DEF ReportFirst
  <2>2. phase' = "second" /\ hand' = hand
    BY <1>3 DEF ReportFirst, Raised
  <2>3. CASE a = AgentA
    BY <1>2, <2>1, <2>3
  <2>4. CASE a = AgentB
    <3>1. hand'[a] = hand[a] /\ (hand[a] = m => Pending(a)')
      BY <1>0, <1>1, <2>2, <2>4 DEF Pending
    <3> QED BY <1>2, <2>1, <3>1
  <2> QED BY <1>1, <2>3, <2>4
<1>4. CASE ReportSecond
  <2>1. PICK c : Reports(AgentB, c)
    BY <1>4, ScoreReports DEF ReportSecond
  <2>2. Pending(a) => a = AgentB
    BY <1>4 DEF Pending, ReportSecond
  <2> QED BY <1>2, <2>1, <2>2
<1> QED BY <1>3, <1>4

\* No other step but a poll touches what is held while it is pending.
LEMMA HeldStays ==
  ASSUME RunInv, [RunNext]_runVars, ~ReportFirst, ~ReportSecond, pair' = pair,
         pair \notin faulty', NEW a, Pending(a), AgentB' = AgentB
  PROVE  hand' = hand /\ Pending(a)'
<1>1. phase \in {"first", "second"}
  BY DEF Pending
<1>2. ~SendFails
  BY <1>1 DEF SendFails, Raised
<1>3. UNCHANGED <<phase, hand>>
  BY <1>1, <1>2 DEF RunNext, Runner, RegisterAgents, TradingBegins, Wake, ReceiptLost,
     CreateDuel, AnchorRoots, ResolveDuel, Poll, Flashbang, Elapse, StrangerResolves,
     runVars, runnerVars, cycleVars
<1> QED BY <1>3 DEF Pending

LEMMA LatestInit == RunnerInit => LatestInv
<1> SUFFICES ASSUME RunnerInit PROVE LatestInv
  OBVIOUS
<1>1. since = 0
  BY DEF RunnerInit
<1> QED BY <1>1 DEF LatestInv, LatestIsSettled

LEMMA LatestStep ==
  ASSUME RunInv, BlocksInv, LatestInv, [RunNext]_runVars
  PROVE  LatestInv'
<1> SUFFICES ASSUME Len(duels') = pair', pair' \notin faulty', NEW s \in 1 .. 2
             PROVE  LatestIsSettled(Pairs[pair][s])'
  BY DEF LatestInv
<1>0. since' \in Nat /\ fromBlock' \in Nat
  BY RunStep DEF RunInv, RunnerTypeOK
<1>1. CASE since' = 0
  BY <1>1 DEF LatestIsSettled
<1>2. CASE since' = fromBlock'
  <2>1. \A i \in 1 .. injectionCount' : minedAt'[i] \in Nat
    <3>1. RunInv'
      BY RunStep
    <3>2. \A i \in 1 .. injectionCount' : i \in InjectionIds
      BY <3>1, BoundsAssumption DEF RunInv, ChainTypeOK, InjectionIds, BoundsAssumption
    <3> QED BY <3>1, <3>2 DEF RunInv, RunnerTypeOK
  <2>2. PICK a : a = Pairs[pair'][s]
    OBVIOUS
  <2>3. Seen(a)' = {}
    BY <1>0, <1>2, <2>1 DEF Seen, Covered, Against
  <2> QED BY <2>2, <2>3 DEF LatestIsSettled
<1>3. CASE since' # 0 /\ since' # fromBlock'
  <2>1. ~BeginsDuel
    BY <1>3, BeginsByCreating DEF CreateDuel
  <2>2. ~TurnsToNext
    <3> SUFFICES ASSUME TurnsToNext PROVE FALSE
      OBVIOUS
    <3>1. Len(duels) = pair /\ pair \in Nat
      BY CurrentDuel DEF TurnsToNext, Within, Phases
    <3> QED BY <3>1 DEF TurnsToNext
  <2>3. GoesOn /\ pair' = pair /\ duels' = duels
    BY <2>1, <2>2, ControlSteps DEF GoesOn, RunInv
  <2>4. pair \notin faulty /\ Len(duels) = pair
    BY <2>3, FaultsStay
  <2>5. PICK a : a = Pairs[pair][s]
    OBVIOUS
  <2>6. /\ a \in Agents /\ LatestIsSettled(a) /\ AgentB' = AgentB
        /\ a \in {AgentA, AgentB}
    BY <2>3, <2>4, <2>5, FieldFacts DEF LatestInv, AgentA, AgentB, RunInv, RunnerTypeOK
  <2> SUFFICES LatestIsSettled(a)'
    BY <2>3, <2>5
  <2>7. CASE UNCHANGED <<fromBlock, since>>
    <3>1. Seen(a)' = Seen(a)
      BY <2>7, SeenStays
    <3> SUFFICES ASSUME NEW m \in Seen(a),
                        injectionEscrows[m] = 0 \/ (hand[a] = m /\ Pending(a))
                 PROVE  injectionEscrows'[m] = 0 \/ (hand'[a] = m /\ Pending(a)')
      BY <2>6, <2>7, <3>1 DEF LatestIsSettled
    <3>2. m \in 1 .. injectionCount
      BY DEF Seen, Covered, Against
    <3>3. CASE ReportFirst \/ ReportSecond
      BY <2>3, <2>5, <3>2, <3>3, ReportSettles
    <3>4. CASE ~ReportFirst /\ ~ReportSecond
      BY <2>3, <2>6, <3>2, <3>4, EscrowsStay, HeldStays
    <3> QED BY <3>3, <3>4
  <2>8. CASE ~UNCHANGED <<fromBlock, since>>
    <3>1. Poll /\ fromBlock > 0 /\ fromBlock' = NextBlock /\ since' = since
      BY <1>3, <2>8, WindowMoves
    <3>2. CASE hand' = [b \in Agents |-> LatestFor(b)]
      BY <2>6, <3>1, <3>2, PollSettles
    <3>3. CASE hand' # [b \in Agents |-> LatestFor(b)]
      <4>1. fromBlock' = fromBlock
        BY <1>3, <3>1, <3>3 DEF Poll, PollAnswer, pollVars
      <4> QED BY <2>8, <3>1, <4>1
    <3> QED BY <3>2, <3>3
  <2> QED BY <2>7, <2>8
<1> QED BY <1>1, <1>2, <1>3

\* Of the injections on one target in the blocks polled so far, the latest is
\* settled or about to be reported, unless an error ended the duel's cycles: the
\* polls skip no block and hold the latest.  (poll_injections, Arena.run)
THEOREM LatestIsScored == RunSpec => []LatestPolledIsScored
<1> DEFINE Inv == RunInv /\ BlocksInv /\ LatestInv
<1>1. RunnerInit => Inv
  BY RunInit, BlocksInit, LatestInit
<1>2. Inv /\ [RunNext]_runVars => Inv'
  BY RunStep, BlocksStep, LatestStep
<1>3. Inv => LatestPolledIsScored
  <2> SUFFICES ASSUME Inv, Len(duels) \in DOMAIN duels, Len(duels) = pair,
                      pair \notin faulty, NEW s \in 1 .. 2, since > 0,
                      Seen(Pairs[pair][s]) # {}
               PROVE  LET seen == Seen(Pairs[pair][s])
                      IN injectionEscrows[Max(seen)] = 0 \/ hand[Pairs[pair][s]] = Max(seen)
    BY DEF LatestPolledIsScored, Seen, Covered
  <2> DEFINE a == Pairs[pair][s]
             S == Seen(a)
  <2>1. PICK m \in S :
          /\ \A j \in S : j <= m
          /\ injectionEscrows[m] = 0 \/ (hand[a] = m /\ Pending(a))
    BY DEF LatestInv, LatestIsSettled
  <2>2. \A j \in S : j \in Nat
    BY BlockTypes DEF Seen, Covered, Against
  <2>3. Max(S) = m
    <3> HIDE DEF S
    <3>1. \A x \in S : (\A y \in S : x >= y) <=> x = m
      BY <2>1, <2>2
    <3> QED BY <2>1, <3>1 DEF Max
  <2> QED BY <2>1, <2>3
<1> QED BY <1>1, <1>2, <1>3, PTL DEF RunSpec

-----------------------------------------------------------------------------
(***************************************************************************)
(* The process is one client of the contract: everything it does to the    *)
(* chain, with the spectators and strangers around it, is a step of        *)
(* Colosseum, so what holds of every history of the contract holds of the  *)
(* duels it runs.                                                          *)
(***************************************************************************)

\* A duel has no more cycles than the market has moves: a straggler cycle is
\* scored once per step beyond the scheduled ones.
CycleInv ==
  /\ step \in Nat /\ extra \in Nat
  /\ step <= Cycles => extra = 0
  /\ step > Cycles => extra <= step - Cycles
  /\ phase \in {"open", "poll", "sleep"} => step < TotalSteps
  /\ phase \in {"first", "second", "anchor"} => 1 <= step /\ step <= TotalSteps

\* Rounding up to whole intervals never yields more of them than there are units.
LEMMA FewIntervals ==
  ASSUME NEW n \in Nat \ {0}, NEW i \in Nat \ {0}
  PROVE  (n + i - 1) \div i \in Nat /\ (n + i - 1) \div i <= n
<1> DEFINE x == n + i - 1
           q == x \div i
<1>1. x \in Nat /\ i \in Nat /\ i > 0
  OBVIOUS
<1> HIDE DEF x
<1>2. q \in Nat /\ q * i <= x
  BY <1>1, FloorShare
<1> HIDE DEF q
<1>3. ASSUME n + 1 <= q PROVE FALSE
  <2>1. (n + 1) * i <= q * i
    BY <1>1, <1>2, <1>3, TimesMono
  <2>2. 1 * n <= i * n /\ i * n = n * i /\ 1 * n = n
    BY <1>1, TimesMono, TimesComm
  <2>3. (n + 1) * i = n * i + 1 * i /\ 1 * i = i
    BY <1>1, TimesSum
  <2>4. n * i \in Nat /\ q * i \in Nat
    BY <1>1, <1>2
  <2> QED BY <1>1, <1>2, <2>1, <2>2, <2>3, <2>4 DEF x
<1>4. q <= n
  BY <1>2, <1>3
<1> QED BY <1>2, <1>4 DEF q, x

LEMMA StepsFacts ==
  ASSUME mode \in Modes
  PROVE  /\ Cycles \in Nat \ {0} /\ Horizon \in Nat /\ TotalSteps \in Nat
         /\ Cycles <= TotalSteps /\ TotalSteps <= Horizon /\ Cycles <= Horizon
<1>1. /\ Cycles \in Nat \ {0} /\ Interval \in Nat \ {0} /\ Horizon \in Nat
      /\ Duration \in Nat \ {0} /\ Cycles + Duration <= Horizon
  BY TimesFacts, DriverAssumption DEF DriverAssumption, Duration
<1> DEFINE n == (Duration + Interval - 1) \div Interval
<1>2. n \in Nat /\ n <= Duration
  BY <1>1, FewIntervals
<1>3. TotalSteps = IF mode = "cli" THEN Cycles ELSE IF Cycles >= n THEN Cycles ELSE n
  BY DEF TotalSteps, Larger
<1> HIDE DEF n
<1> QED BY <1>1, <1>2, <1>3

LEMMA CycleInit == RunnerInit => CycleInv
BY StepsFacts DEF RunnerInit, CycleInv

LEMMA CycleStep == RunInv /\ CycleInv /\ [RunNext]_runVars => CycleInv'
<1> SUFFICES ASSUME RunInv, CycleInv, [RunNext]_runVars PROVE CycleInv'
  OBVIOUS
<1> USE DEF cycleVars, runnerVars
<1>0. mode \in Modes
  BY DEF RunInv, RunnerTypeOK
<1>1. /\ Cycles \in Nat \ {0} /\ TotalSteps \in Nat
      /\ Cycles <= TotalSteps /\ TotalSteps' = TotalSteps
  <2>1. mode' = mode
    BY ControlSteps DEF RunInv
  <2> QED BY <1>0, <2>1, StepsFacts DEF TotalSteps, Duration
<1>2. CASE CreateDuel
  <2>1. step' = 0 /\ extra' = 0 /\ phase' \in {"open", "poll"}
    BY <1>2 DEF CreateDuel
  <2> QED BY <1>1, <2>1 DEF CycleInv
<1>3. CASE Poll
  <2>1. /\ phase = "poll" /\ step' = step + 1
        /\ extra' = IF step' > Cycles /\ Scored THEN extra + 1 ELSE extra
        /\ \/ phase' = "first"
           \/ phase' = "settle"
           \/ phase' = "sleep" /\ step' < TotalSteps
    BY <1>3 DEF Poll, AfterPoll, Rest
  <2>2. step < TotalSteps /\ step \in Nat /\ extra \in Nat
    BY <2>1 DEF CycleInv
  <2>3. extra' \in Nat /\ (step' <= Cycles => extra' = 0)
        /\ (step' > Cycles => extra' <= step' - Cycles)
    BY <1>1, <2>1, <2>2 DEF CycleInv
  <2> QED BY <1>1, <2>1, <2>2, <2>3 DEF CycleInv
<1>4. CASE \/ RegisterAgents \/ TradingBegins \/ Wake \/ ResolveDuel \/ SendFails
           \/ ReceiptLost \/ ReportFirst
  <2>1. step' = step /\ extra' = extra
    BY <1>4 DEF RegisterAgents, TradingBegins, Wake, ResolveDuel, SendFails, ReceiptLost,
       ReportFirst
  <2>2. /\ phase' \in {"open", "poll", "sleep"} => phase \in {"open", "poll", "sleep"}
        /\ phase' \in {"first", "second", "anchor"} => phase \in {"first", "second", "anchor"}
    BY <1>4 DEF RegisterAgents, TradingBegins, Wake, ResolveDuel, SendFails, ReceiptLost,
       ReportFirst, Raised, NextPair
  <2> QED BY <1>1, <2>1, <2>2 DEF CycleInv
<1>5. CASE ReportSecond \/ AnchorRoots
  <2>1. step' = step /\ extra' = extra
    BY <1>5 DEF ReportSecond, AnchorRoots
  <2>2. /\ phase \in {"second", "anchor"}
        /\ \/ phase' \in {"settle", "resolve", "crashed"}
           \/ phase' = "anchor"
           \/ phase' = "sleep" /\ step' < TotalSteps
    BY <1>5 DEF ReportSecond, AnchorRoots, CycleEnds, Rest, Raised
  <2> QED BY <1>1, <2>1, <2>2 DEF CycleInv
<1>6. CASE Flashbang \/ Elapse \/ StrangerResolves \/ UNCHANGED runVars
  <2>1. UNCHANGED <<phase, step, extra>>
    BY <1>6 DEF Flashbang, Elapse, StrangerResolves, runVars
  <2> QED BY <1>1, <2>1 DEF CycleInv
<1> QED BY <1>2, <1>3, <1>4, <1>5, <1>6 DEF RunNext, Runner

\* So every report scores a move of the market.
LEMMA CycleIsPlayed ==
  ASSUME RunInv, CycleInv, phase \in {"first", "second"}
  PROVE  Cycle \in 0 .. Horizon
<1>1. mode \in Modes /\ step \in Nat /\ extra \in Nat /\ step <= TotalSteps
  BY DEF RunInv, RunnerTypeOK, CycleInv
<1>2. /\ Cycles \in Nat /\ Horizon \in Nat /\ TotalSteps \in Nat
      /\ TotalSteps <= Horizon /\ Cycles <= Horizon
  BY <1>1, StepsFacts
<1>3. step > Cycles => extra <= step - Cycles
  BY DEF CycleInv
<1> QED BY <1>1, <1>2, <1>3 DEF Cycle

-----------------------------------------------------------------------------
\* Each call the process makes is a call of the contract.
LEMMA RegistersAsDeveloper ==
  ASSUME RegisterAgents PROVE Develop \/ UNCHANGED vars
<1>1. Operator \in People
  BY DriverAssumption DEF DriverAssumption
<1>2. CASE \E k \in DOMAIN Pairs, s \in 1 .. 2 : registerAgent(Operator, Pairs[k][s])
  <2>1. PICK k \in DOMAIN Pairs, s \in 1 .. 2 : registerAgent(Operator, Pairs[k][s])
    BY <1>2
  <2>2. Pairs[k][s] \in Agents
    BY FieldFacts
  <2> QED BY <1>1, <2>1, <2>2 DEF Develop
<1> QED BY <1>2 DEF RegisterAgents

LEMMA AnnouncesItsDuel ==
  ASSUME RunInv, createDuel(AgentA, AgentB, BettingTime, Duration)
  PROVE  Announce
<1>1. AgentA \in Agents /\ AgentB \in Agents
  BY FieldFacts DEF RunInv, RunnerTypeOK, AgentA, AgentB
<1>2. BettingTime \in BettingPeriods /\ Duration \in TradingPeriods
  BY CallsAssumption DEF CallsAssumption, RunInv, RunnerTypeOK, BettingTime, Duration
<1> HIDE DEF AgentA, AgentB, BettingTime, Duration
<1> QED BY <1>1, <1>2 DEF Announce

LEMMA ScoresAsRecorder ==
  ASSUME RunInv, CycleInv, phase \in {"first", "second"},
         NEW a \in {AgentA, AgentB}, NEW c \in Calls(a), Score(a, c)
  PROVE  Report
<1>1. duel \in DuelIds
  <2>1. phase \in Within
    BY DEF Within, Phases
  <2> QED BY <2>1, CurrentDuel
<1>2. a \in Agents /\ hand[a] \in 0 .. MaxInjections
  BY FieldFacts DEF RunInv, RunnerTypeOK, AgentA, AgentB
<1>3. c.r \in Returns /\ c.survived \in BOOLEAN /\ c.failed \in BOOLEAN
  <2>1. -Penalty \in Returns /\ \A d \in Directions : d * RealMove[Cycle] \in Returns
    BY CycleIsPlayed, CallsAssumption DEF CallsAssumption
  <2> HIDE DEF Cycle
  <2>2. CASE c = [r |-> -Penalty, survived |-> FALSE, failed |-> TRUE]
    BY <2>1, <2>2
  <2>3. CASE \E d \in Directions, s \in BOOLEAN :
               c = [r |-> d * RealMove[Cycle], survived |-> s, failed |-> FALSE]
    BY <2>1, <2>3
  <2> DEFINE T == IF hand[a] = 0 THEN {TRUE} ELSE BOOLEAN
  <2>4. Calls(a) = {[r |-> d * RealMove[Cycle], survived |-> s, failed |-> FALSE] :
                      d \in Directions, s \in T}
                   \cup {[r |-> -Penalty, survived |-> FALSE, failed |-> TRUE]}
    BY DEF Calls
  <2>5. T \subseteq BOOLEAN
    OBVIOUS
  <2> HIDE DEF T
  <2> QED BY <2>2, <2>3, <2>4, <2>5
<1>4. reportCall(duel, a, hand[a], c.r, hand[a] # 0, c.survived, c.failed)
  BY DEF Score
<1>5. (hand[a] # 0) \in BOOLEAN
  OBVIOUS
<1> HIDE DEF duel
<1> QED BY <1>1, <1>2, <1>3, <1>4, <1>5 DEF Report

LEMMA RunStepIsStep ==
  ASSUME RunInv, CycleInv, [RunNext]_runVars
  PROVE  [Next]_vars
<1>1. CASE RegisterAgents
  BY <1>1, RegistersAsDeveloper DEF Next
<1>2. CASE CreateDuel
  BY <1>2, AnnouncesItsDuel DEF CreateDuel, Next
<1>3. CASE ReportFirst
  <2>1. PICK c \in Calls(AgentA) : Score(AgentA, c)
    BY <1>3 DEF ReportFirst
  <2> QED BY <1>3, <2>1, ScoresAsRecorder DEF ReportFirst, Next
<1>4. CASE ReportSecond
  <2>1. PICK c \in Calls(AgentB) : Score(AgentB, c)
    BY <1>4 DEF ReportSecond
  <2> QED BY <1>4, <2>1, ScoresAsRecorder DEF ReportSecond, Next
<1>5. CASE ResolveDuel
  <2>1. phase \in Within /\ resolve(duel)
    BY <1>5 DEF ResolveDuel, Within, Phases
  <2>2. duel \in DuelIds
    BY <2>1, CurrentDuel
  <2> QED BY <2>1, <2>2 DEF Next, Resolve
<1>6. CASE ReceiptLost
  <2>1. CASE createDuel(AgentA, AgentB, BettingTime, Duration)
    BY <2>1, AnnouncesItsDuel DEF Next
  <2>2. CASE phase = "resolve" /\ resolve(duel)
    <3>1. duel \in DuelIds
      BY <2>2, CurrentDuel DEF Within, Phases
    <3> QED BY <2>2, <3>1 DEF Next, Resolve
  <2> QED BY <1>6, <2>1, <2>2 DEF ReceiptLost
<1>7. CASE Flashbang \/ Elapse \/ StrangerResolves
  BY <1>7 DEF Flashbang, Elapse, StrangerResolves, Next
<1>8. CASE TradingBegins \/ Poll \/ AnchorRoots \/ Wake \/ SendFails \/ UNCHANGED runVars
  BY <1>8 DEF TradingBegins, Poll, AfterPoll, AnchorRoots, Wake, SendFails, runVars
<1> QED BY <1>1, <1>2, <1>3, <1>4, <1>5, <1>6, <1>7, <1>8 DEF RunNext, Runner

\* Every history of the recorder's process is a history of the contract, whatever
\* polls and sends fail or lose their receipts: it never calls the contract with
\* a duel, an agent, an injection or a score the contract does not know.
\* (Arena.run, duel_runner.main)
THEOREM RunnerDrivesTheContract == RunSpec => Spec
<1>1. RunnerInit => Init /\ RunInv /\ CycleInv
  BY RunInit, CycleInit DEF RunnerInit
<1>2. (RunInv /\ CycleInv) /\ [RunNext]_runVars => (RunInv /\ CycleInv)'
  BY RunStep, CycleStep
<1>3. (RunInv /\ CycleInv) /\ [RunNext]_runVars => [Next]_vars
  BY RunStepIsStep
<1> QED BY <1>1, <1>2, <1>3, PTL DEF RunSpec, Spec

\* So the contract keeps its promises to everyone in the duels the process runs:
\* it stays solvent, its books balance, winners keep their stakes, outcomes are
\* final, escrows arrive whole and every duel's betting is parimutuel.
\* (Arena.run over Colosseum.sol)
THEOREM RunnerKeepsTheContractsPromises ==
  RunSpec => /\ []Solvent /\ []PotAccounting /\ []WinnersKeepTheirStake
             /\ []LiveDuelsHaveDevelopers
             /\ OutcomeIsFinal /\ ResolveHandsOutEverything
             /\ EscrowsReachTheirTarget /\ ImplementsParimutuel
<1>1. RunSpec => Spec
  BY RunnerDrivesTheContract
<1>2. Spec => /\ []Solvent /\ []PotAccounting /\ []WinnersKeepTheirStake
              /\ OutcomeIsFinal /\ ResolveHandsOutEverything
              /\ EscrowsReachTheirTarget /\ ImplementsParimutuel
  BY ContractIsSolvent, BookIsBalanced, WinnersNeverLose, OutcomesAreFinal,
     ResolutionHandsOutEverything, EscrowsArriveWhole, BettingIsParimutuel
<1>3. Spec => []LiveDuelsHaveDevelopers
  BY PrizesHavePayees, PTL
<1> QED BY <1>1, <1>2, <1>3

\* The process does not call in vain: when it resolves a duel in which nothing
\* raised and which its wait covers, the contract has the money and the payees for it, and refuses only
\* because a stranger was first.  (Arena.run, duel_runner.main, resolve)
ResolveIsAccepted ==
  phase = "resolve" /\ pair \notin faulty /\ WaitCovers(pair) /\ Live(duel) =>
    MayBeResolved(duel)

THEOREM CleanResolvesAreAccepted == RunSpec => []ResolveIsAccepted
<1>1. RunSpec => []PayoutsAreCovered
  BY RunnerDrivesTheContract, NothingBlocksAResolve, PTL
<1>2. RunnerInit => RunInv /\ CleanInv
  BY RunInit, CleanInit
<1>3. (RunInv /\ CleanInv) /\ [RunNext]_runVars => (RunInv /\ CleanInv)'
  BY RunStep, CleanStep
<1>4. RunInv /\ CleanInv /\ PayoutsAreCovered => ResolveIsAccepted
  <2> SUFFICES ASSUME RunInv, CleanInv, PayoutsAreCovered,
                      phase = "resolve", pair \notin faulty, WaitCovers(pair), Live(duel)
               PROVE  MayBeResolved(duel)
    BY DEF ResolveIsAccepted
  <2>1. duel \in DuelIds
    BY CurrentDuel DEF Within, Phases
  <2>2. Over(duel)
    BY DEF CleanInv
  <2> HIDE DEF duel
  <2> QED BY <2>1, <2>2 DEF PayoutsAreCovered
<1> QED BY <1>1, <1>2, <1>3, <1>4, PTL DEF RunSpec

\* An injection in the process's hand was bought against the agent it is held for.
HandsAreTheirs ==
  \A a \in Agents : hand[a] # 0 =>
    hand[a] \in 1 .. injectionCount /\ IsTarget(hand[a], a)

LEMMA TheirsStep ==
  ASSUME RunInv, HandsAreTheirs, [RunNext]_runVars
  PROVE  HandsAreTheirs'
<1>0. injectionCount \in Nat
  BY BlockTypes
<1>1. CASE Poll
  <2>1. injectionCount' = injectionCount /\ injectionTarget' = injectionTarget
    BY <1>1 DEF Poll, AfterPoll, vars, chaosVars
  <2>2. \A a \in Agents : hand'[a] # 0 => hand'[a] = LatestFor(a)
    BY <1>1 DEF Poll, PollAnswer, NoInjections
  <2>3. ASSUME NEW a \in Agents, LatestFor(a) # 0
        PROVE  LatestFor(a) \in 1 .. injectionCount /\ injectionTarget[LatestFor(a)] = a
    <3>1. LatestFor(a) \in FoundFor(a)
      BY <2>3, LatestIs DEF RunInv
    <3> QED BY <3>1 DEF FoundFor, Polled
  <2> QED BY <2>1, <2>2, <2>3 DEF HandsAreTheirs, IsTarget
<1>2. CASE ~Poll
  <2>1. hand' = hand \/ hand' = NoInjections
    BY <1>2 DEF RunNext, Runner, RegisterAgents, TradingBegins, Wake, ReceiptLost,
       CreateDuel, ReportFirst, ReportSecond, AnchorRoots, CycleEnds, ResolveDuel,
       SendFails, Raised, Flashbang, Elapse, StrangerResolves, runVars, runnerVars, cycleVars
  <2>2. \A i \in 1 .. injectionCount :
          i \in 1 .. injectionCount' /\ injectionTarget'[i] = injectionTarget[i]
    <3>1. CASE UNCHANGED boughtVars
      BY <3>1 DEF boughtVars
    <3>2. CASE \E a \in Agents, item \in Items : Sells(a, item)
      <4>1. PICK a \in Agents, item \in Items : Sells(a, item)
        BY <3>2
      <4>2. /\ injectionCount' = injectionCount + 1
            /\ injectionTarget' = [injectionTarget EXCEPT ![injectionCount + 1] = a]
            /\ injectionTarget \in [InjectionIds -> Agents \cup {None}]
        BY <4>1 DEF Sells, RunInv, ChainTypeOK
      <4>3. \A i \in 1 .. injectionCount : i \in InjectionIds /\ i # injectionCount + 1
        BY <1>0, BlockTypes
      <4> QED BY <1>0, <4>2, <4>3
    <3> QED BY <3>1, <3>2, WhatIsBought
  <2> QED BY <2>1, <2>2 DEF HandsAreTheirs, IsTarget, NoInjections
<1> QED BY <1>1, <1>2

\* The process does not report in vain either: while its duel is live, each of its
\* reports names an agent of that duel and an injection against that agent, whose
\* escrow is there to be settled.
ReportIsAccepted(a) ==
  /\ a \in Duelists(duel)
  /\ Settles(hand[a]) =>
       IsTarget(hand[a], a) /\ injectionEscrows[hand[a]] <= usdc[Contract]

ReportsAreAccepted ==
  Live(duel) =>
    /\ phase = "first" => ReportIsAccepted(AgentA)
    /\ phase = "second" => ReportIsAccepted(AgentB)

\* Only a stranger's resolve can make the contract refuse a report.
\* (poll_injections, run_cycle, reportCall)
THEOREM CycleReportsAreAccepted == RunSpec => []ReportsAreAccepted
<1>1. RunSpec => []PayoutsAreCovered
  BY RunnerDrivesTheContract, NothingBlocksAResolve, PTL
<1>2. RunnerInit => RunInv /\ HandsAreTheirs
  BY RunInit DEF RunnerInit, HandsAreTheirs, NoInjections
<1>3. (RunInv /\ HandsAreTheirs) /\ [RunNext]_runVars => (RunInv /\ HandsAreTheirs)'
  BY RunStep, TheirsStep
<1>4. RunInv /\ HandsAreTheirs /\ PayoutsAreCovered => ReportsAreAccepted
  <2> SUFFICES ASSUME RunInv, HandsAreTheirs, PayoutsAreCovered,
                      phase \in {"first", "second"}, NEW a \in {AgentA, AgentB}
               PROVE  ReportIsAccepted(a)
    BY DEF ReportsAreAccepted
  <2>1. pair \in DOMAIN duels /\ duel = duels[pair]
    BY CurrentDuel DEF Within, Phases
  <2>2. a \in Duelists(duel)
    BY <2>1, DuelFacts DEF Duelists, AgentA, AgentB, RunInv
  <2>3. a \in Agents
    BY FieldFacts DEF RunInv, RunnerTypeOK, AgentA, AgentB
  <2>4. hand[a] # 0 => hand[a] \in InjectionIds /\ IsTarget(hand[a], a)
    BY <2>3, BlockTypes DEF HandsAreTheirs
  <2> QED BY <2>2, <2>4 DEF ReportIsAccepted, Settles, PayoutsAreCovered
<1> QED BY <1>1, <1>2, <1>3, <1>4, PTL DEF RunSpec

=============================================================================
