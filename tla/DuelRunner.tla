----------------------------- MODULE DuelRunner -----------------------------
(***************************************************************************)
(* agents/duel_runner.py and agents/arena.py, driving the contract of      *)
(* Colosseum: the recorder's process creates the duel of each pair, polls  *)
(* the chain for chaos injections, lets both agents decide, reports the    *)
(* scored calls, waits the window out and resolves.  Spectators inject and *)
(* strangers resolve meanwhile.                                            *)
(*                                                                         *)
(* Two drivers share the runner: "arena" is Arena.run as run_arena.py      *)
(* assembles it (polled injections, anchors, no betting window, errors     *)
(* caught per duel), "cli" is duel_runner.main with --resolve (one pair,   *)
(* an error ends the process).                                             *)
(*                                                                         *)
(* A send signs, broadcasts and waits for the receipt: it takes effect and *)
(* returns, or raises - and then the transaction may have been mined, when *)
(* only its receipt was lost, or not, when it reverted or never left.      *)
(* One block is mined per unit of time.  What an agent decides is its      *)
(* direction and whether the injection flipped it; a failed agent has been *)
(* asked twice.                                                            *)
(***************************************************************************)
EXTENDS Colosseum, Sequences

CONSTANTS
  Modes,          \* the drivers tried
  Pairs,          \* Arena._pairs: the agents two by two, an odd one left out
  Operator,       \* who stakes the agents and signs as recorder
  DurationOf,     \* --duration, by driver
  Cycles, Interval, Buffer, AnchorEvery, Penalty,
  Horizon,        \* more cycles than any duel can have
  Betting,        \* --betting, used by the cli only
  Directions,     \* what an agent may call: down, flat, up
  RealMove,       \* the market's forward move of each cycle
  PollMayFail     \* whether the node may refuse a poll

ASSUME DriverAssumption ==
  /\ Modes \subseteq {"arena", "cli"}
  /\ Operator \in People
  /\ Pairs \in Seq(Agents \X Agents)
  /\ DurationOf \in [Modes -> Nat \ {0}]
  /\ Cycles \in Nat \ {0} /\ Interval \in Nat \ {0}
  /\ Buffer \in Nat /\ AnchorEvery \in Nat \ {0} /\ Penalty \in Nat
  /\ Betting \in Nat /\ PollMayFail \in BOOLEAN
  /\ Directions \subseteq Int
  /\ Horizon \in Nat /\ RealMove \in [0 .. Horizon -> Int]
  /\ \A m \in Modes : Cycles + DurationOf[m] <= Horizon

\* run_arena refuses fewer than two agents, the cli takes two; an agent is in
\* one pair, because every keystore is loaded once.
ASSUME FieldAssumption ==
  /\ Pairs # << >>
  /\ \A j, k \in DOMAIN Pairs, s, t \in 1 .. 2 :
       Pairs[j][s] = Pairs[k][t] => j = k

\* What the process asks of the contract is among the inputs of Colosseum.
ASSUME CallsAssumption ==
  /\ \A m \in Modes : /\ DurationOf[m] \in TradingPeriods
                     /\ (IF m = "cli" THEN Betting ELSE 0) \in BettingPeriods
  /\ -Penalty \in Returns
  /\ \A d \in Directions, c \in 0 .. Horizon : d * RealMove[c] \in Returns

VARIABLES
  mode,         \* the driver
  phase,        \* what the process does next
  pair,         \* index of the pair whose duel is run
  duels,        \* the duel of each pair so far, in order
  step,         \* steps of this duel, stragglers included
  extra,        \* scored straggler cycles
  fromBlock,    \* first block the next poll asks for
  hand,         \* the injections of this cycle, by target; 0 for none
  out, last,    \* the reports of this cycle, until it is done
  standings,    \* ArenaResult.standings, by agent
  faulty,       \* pairs in whose duel a cycle or a due resolve raised
  createdAt, wakeAt,   \* the process's clock
  since,        \* first block any poll of this duel covers
  minedAt       \* block of each ChaosInjected event

cycleVars == <<step, extra, hand, out, last>>
pollVars == <<fromBlock, since>>
runnerVars == <<mode, phase, pair, duels, cycleVars, pollVars, standings,
                faulty, createdAt, wakeAt>>
runVars == <<vars, runnerVars, minedAt>>

NoInjections == [a \in Agents |-> 0]
NoReport == [alpha |-> 0, ingested |-> 0, survived |-> 0]

\* The last mined block, and the one being built.
LastBlock == now + 1
Building == now + 2

AgentA == Pairs[pair][1]
AgentB == Pairs[pair][2]
duel == duels[pair]
Duration == DurationOf[mode]

\* Steps across the window: the arena goes on after its scheduled cycles.
Larger(m, n) == IF m >= n THEN m ELSE n
TotalSteps ==
  IF mode = "cli" THEN Cycles
  ELSE Larger(Cycles, (Duration + Interval - 1) \div Interval)
Pause ==
  IF mode = "cli" THEN Larger(1, Duration \div (4 * Cycles)) ELSE Interval

\* How long after createdAt the window is taken to be over.
BettingTime == IF mode = "cli" THEN Betting ELSE 0
WindowWithoutBetting == Duration + Buffer
Window == BettingTime + Duration + Buffer

\* Sleeping never outlasts MaxTime (bound); every duel is over by then.
SleepUntil(t) == wakeAt' = IF t > MaxTime THEN MaxTime ELSE t
Awake == now >= wakeAt

-----------------------------------------------------------------------------
RunnerInit ==
  /\ Init
  /\ mode \in Modes
  /\ phase = "register" /\ pair = 1 /\ duels = << >>
  /\ step = 0 /\ extra = 0 /\ hand = NoInjections /\ out = NoReport /\ last = NoReport
  /\ fromBlock = 0 /\ since = 0
  /\ standings = [a \in Agents |-> NoReport]
  /\ faulty = {} /\ createdAt = 0 /\ wakeAt = 0
  /\ minedAt = [i \in InjectionIds |-> 0]

\* Both agents are staked before the duel, by --register or by provisioning.  The
\* cli reads its clock before it sends the creation.
RegisterAgents ==
  /\ phase = "register"
  /\ \/ \E k \in DOMAIN Pairs, s \in 1 .. 2 :
          registerAgent(Operator, Pairs[k][s]) /\ UNCHANGED <<phase, createdAt>>
     \/ /\ \A k \in DOMAIN Pairs, s \in 1 .. 2 : registered[Pairs[k][s]]
        /\ phase' = "create" /\ createdAt' = now
        /\ UNCHANGED vars
  /\ UNCHANGED <<mode, pair, duels, cycleVars, pollVars, standings, faulty,
                 wakeAt, minedAt>>

\* The duel is on the chain; every counter of the loop starts afresh.  The arena
\* reads its clock when the creation has returned.
CreateDuel ==
  /\ phase = "create"
  /\ now + Window <= MaxTime                                  \* bound
  /\ createDuel(AgentA, AgentB, BettingTime, Duration)
  /\ duels' = Append(duels, duelCount + 1)
  /\ step' = 0 /\ extra' = 0 /\ hand' = NoInjections /\ out' = NoReport
  /\ last' = NoReport
  /\ fromBlock' = 0 /\ since' = 0
  /\ createdAt' = IF mode = "cli" THEN createdAt ELSE now
  /\ phase' = IF mode = "cli" THEN "open" ELSE "poll"
  /\ SleepUntil(now + BettingTime)
  /\ UNCHANGED <<mode, pair, standings, faulty, minedAt>>

\* The cli sits the betting out, then starts polling from the current head,
\* or from nowhere when it cannot read it.
TradingBegins ==
  /\ phase = "open"
  /\ Awake
  /\ \/ fromBlock' = LastBlock /\ since' = LastBlock
     \/ fromBlock' = 0 /\ since' = 0
  /\ phase' = "poll"
  /\ UNCHANGED <<vars, mode, pair, duels, cycleVars, standings, faulty,
                 createdAt, wakeAt, minedAt>>

\* poll_injections: the events in blocks fromBlock .. LastBlock of this duel (its
\* agents fight in no other), the latest per target.
Polled ==
  {i \in 1 .. injectionCount :
     minedAt[i] \in fromBlock .. LastBlock /\ injectionTarget[i] \in {AgentA, AgentB}}
EarliestFor(a) ==
  LET mine == {i \in Polled : injectionTarget[i] = a}
  IN IF mine = {} THEN 0 ELSE CHOOSE i \in mine : \A j \in mine : i <= j
LatestFor(a) ==
  LET mine == {i \in Polled : injectionTarget[i] = a}
  IN IF mine = {} THEN 0 ELSE CHOOSE i \in mine : \A j \in mine : j <= i

NextBlockUnmoved == fromBlock
NextBlock == IF LastBlock < fromBlock THEN fromBlock ELSE LastBlock + 1

\* A step is scored while cycles are scheduled, then only for an injection.
Scored == step' <= Cycles \/ hand' # NoInjections

\* One pause between two steps; after the last the rest of the window.
Rest ==
  IF step' < TotalSteps
  THEN phase' = "sleep" /\ SleepUntil(now + Pause)
  ELSE phase' = "settle" /\ SleepUntil(createdAt + Window)

\* The poll is best-effort: when it raises the cycle is clean and the window
\* stays where it was.
PollAnswer ==
  \/ /\ fromBlock <= 0                       \* a fresh duel starts at the head
     /\ hand' = NoInjections
     /\ fromBlock' = LastBlock /\ since' = LastBlock
  \/ /\ fromBlock > 0
     /\ hand' = [a \in Agents |-> LatestFor(a)]
     /\ fromBlock' = NextBlock
     /\ UNCHANGED since
  \/ PollMayFail /\ hand' = NoInjections /\ UNCHANGED pollVars

\* What follows a poll that has been answered or given up.
AfterPoll ==
  /\ extra' = IF step' > Cycles /\ Scored THEN extra + 1 ELSE extra
  /\ \/ Scored /\ phase' = "first" /\ UNCHANGED wakeAt
     \/ ~Scored /\ Rest
  /\ UNCHANGED <<vars, mode, pair, duels, out, last, standings, faulty, createdAt,
                 minedAt>>

PollCountingScoredOnly ==
  /\ phase = "poll"
  /\ PollAnswer
  /\ step' = IF step > Cycles /\ hand' = NoInjections THEN step ELSE step + 1
  /\ AfterPoll
Poll ==
  /\ phase = "poll"
  /\ PollAnswer
  /\ step' = step + 1
  /\ AfterPoll

-----------------------------------------------------------------------------
\* The number run_cycle is given.
Cycle == IF step <= Cycles THEN step ELSE Cycles + extra

\* Whatever raises inside the loop ends this duel's cycles: the arena goes
\* straight to the resolve, the cli dies.
Raised ==
  /\ phase' = IF mode = "arena" THEN "resolve" ELSE "crashed"
  /\ faulty' = faulty \cup {pair}
  /\ hand' = NoInjections /\ out' = NoReport

\* _aggregate, one report at a time.
Add(r, q) == [alpha |-> r.alpha + q.alpha, ingested |-> r.ingested + q.ingested,
              survived |-> r.survived + q.survived]

\* run_cycle for one agent: a clean agent survives, an injected one survives
\* unless the injection flips its call, one that fails twice is charged the
\* penalty and counts as fooled.
Calls(a) ==
  LET Call(d, s) == [r |-> d * RealMove[Cycle], survived |-> s, failed |-> FALSE]
  IN {Call(d, s) : d \in Directions, s \in IF hand[a] = 0 THEN {TRUE} ELSE BOOLEAN}
     \cup {[r |-> -Penalty, survived |-> FALSE, failed |-> TRUE]}

Score(a, c) ==
  reportCall(duel, a, hand[a], c.r, hand[a] # 0, c.survived, c.failed)

\* What a report adds to its agent's standing: survival counts only under an
\* injection.
LineSurvivedAlways(a, c) ==
  [alpha |-> c.r, ingested |-> IF hand[a] # 0 THEN 1 ELSE 0,
   survived |-> IF c.survived THEN 1 ELSE 0]
Line(a, c) ==
  [alpha |-> c.r, ingested |-> IF hand[a] # 0 THEN 1 ELSE 0,
   survived |-> IF hand[a] # 0 /\ c.survived THEN 1 ELSE 0]

\* The first agent's report and reasoning: both receipts arrive, or one is
\* lost after the report was mined.
ReportFirst ==
  /\ phase = "first"
  /\ \E c \in Calls(AgentA) :
       /\ Score(AgentA, c)
       /\ \/ /\ out' = Line(AgentA, c)
             /\ phase' = "second"
             /\ UNCHANGED <<hand, faulty>>
          \/ Raised
  /\ UNCHANGED <<mode, pair, duels, step, extra, last, pollVars, standings,
                 createdAt, wakeAt, minedAt>>

\* all_reports.extend: a cycle joins the standings once all of it is done.
Joined(x, y) ==
  standings' = [standings EXCEPT ![AgentA] = Add(@, x), ![AgentB] = Add(@, y)]

\* The end of a cycle: with nothing to anchor, the pause; else both memory
\* roots are anchored first, and the reports wait for it.
AnchorDue == mode = "arena" /\ Cycle % AnchorEvery = 0
CycleEnds == Rest /\ hand' = NoInjections /\ out' = NoReport

ReportSecond ==
  /\ phase = "second"
  /\ UNCHANGED step
  /\ \E c \in Calls(AgentB) :
       /\ Score(AgentB, c)
       /\ \/ /\ ~AnchorDue
             /\ Joined(out, Line(AgentB, c))
             /\ CycleEnds
             /\ UNCHANGED <<faulty, last>>
          \/ /\ AnchorDue
             /\ phase' = "anchor"
             /\ last' = Line(AgentB, c)
             /\ UNCHANGED <<hand, out, standings, faulty, wakeAt>>
          \/ Raised /\ UNCHANGED <<standings, last, wakeAt>>
  /\ UNCHANGED <<mode, pair, duels, extra, pollVars, createdAt, minedAt>>

\* Each agent anchors its memory root with its own key (MemoryAnchor).
AnchorRoots ==
  /\ phase = "anchor"
  /\ UNCHANGED step
  /\ Joined(out, last)
  /\ CycleEnds
  /\ last' = NoReport
  /\ UNCHANGED <<vars, mode, pair, duels, extra, pollVars, faulty, createdAt,
                 minedAt>>

Wake ==
  /\ Awake
  /\ \/ phase = "sleep" /\ phase' = "poll"
     \/ phase = "settle" /\ phase' = "resolve"
  /\ UNCHANGED <<vars, mode, pair, duels, cycleVars, pollVars, standings,
                 faulty, createdAt, wakeAt, minedAt>>

\* The next pair's duel, or the leaderboard.
NextPair ==
  IF mode = "arena" /\ pair < Len(Pairs)
  THEN phase' = "create" /\ pair' = pair + 1
  ELSE phase' = "done" /\ UNCHANGED pair

ResolveDuel ==
  /\ phase = "resolve"
  /\ resolve(duel)
  /\ NextPair
  /\ UNCHANGED <<mode, duels, cycleVars, pollVars, standings, faulty,
                 createdAt, wakeAt, minedAt>>

\* A send or an anchor that raises without an effect: it reverts, the node
\* refuses it, it is never mined.  The arena survives it in a duel it has
\* created, and goes on to the next pair when it is the resolve.
SendFails ==
  /\ \/ phase \in {"first", "second", "anchor"} /\ Raised /\ UNCHANGED pair
     \/ phase = "create" /\ phase' = "crashed" /\ UNCHANGED <<pair, faulty, hand, out>>
     \/ /\ phase = "resolve"
        /\ IF mode = "arena" THEN NextPair
           ELSE phase' = "crashed" /\ UNCHANGED pair
        /\ faulty' = IF Live(duel) /\ Over(duel) THEN faulty \cup {pair}
                     ELSE faulty      \* the contract refuses it, no fault
        /\ UNCHANGED <<hand, out>>
  /\ last' = NoReport
  /\ UNCHANGED <<vars, mode, duels, step, extra, pollVars, standings, createdAt,
                 wakeAt, minedAt>>

\* The receipt of a creation or of the cli's resolve is lost: the process dies
\* of it, and the duel is on the chain, or over, all the same.
ReceiptLost ==
  /\ \/ phase = "create" /\ createDuel(AgentA, AgentB, BettingTime, Duration)
     \/ phase = "resolve" /\ mode = "cli" /\ resolve(duel)
  /\ phase' = "crashed"
  /\ UNCHANGED <<mode, pair, duels, cycleVars, pollVars, standings, faulty,
                 createdAt, wakeAt, minedAt>>

-----------------------------------------------------------------------------
\* The world while the process runs (bound: what happens after its end is
\* Colosseum's own business).  Time passes and injections are bought where the
\* process can tell: not between the two reports of a cycle, whose injections
\* it already holds.  The event of an injection is in the block being built.
Running == phase \notin {"done", "crashed"}
Noticeable == Running /\ phase \notin {"register", "second", "anchor"}

Flashbang ==
  /\ Noticeable
  /\ Inject
  /\ minedAt' = [minedAt EXCEPT ![injectionCount + 1] = Building]
  /\ UNCHANGED runnerVars

Elapse == Noticeable /\ Tick /\ UNCHANGED <<runnerVars, minedAt>>

\* Anyone may resolve a duel that is over, between any two steps.
StrangerResolves == Running /\ Resolve /\ UNCHANGED <<runnerVars, minedAt>>

Runner ==
  \/ RegisterAgents \/ CreateDuel \/ TradingBegins \/ Poll \/ ReportFirst
  \/ ReportSecond \/ AnchorRoots \/ Wake \/ ResolveDuel \/ SendFails
  \/ ReceiptLost

RunNext == Runner \/ Flashbang \/ Elapse \/ StrangerResolves

RunSpec == RunnerInit /\ [][RunNext]_runVars

\* The process keeps running and time keeps passing; nobody else helps.
FairRunSpec == RunSpec /\ WF_runVars(Runner) /\ WF_runVars(Elapse)

=============================================================================
