------------------------------ MODULE Registry ------------------------------
(***************************************************************************)
(* The arena's public record and the processes that write to it with the   *)
(* operator's key: agents/registry_api.py, agents/agent_runner.py,         *)
(* scripts/seed_actions.py and scripts/anchor_memory.py over ChainSender,  *)
(* with AgentRegistry.sol and MemoryAnchor.sol.                            *)
(*                                                                         *)
(* The API blocks its event loop until an answer is ready, so it works on  *)
(* one request at a time; the runner calls the same service functions on a *)
(* memory of its own.  Memories live in the processes and die with them.   *)
(* A verdict is the business of the oracle that a request names: what the  *)
(* service sees is a resolve that reverts, burns, approves, or succeeds    *)
(* and says nothing, as a contract that is no oracle may.                  *)
(***************************************************************************)
EXTENDS ChainSender

CONSTANTS
  Operator, Stranger,
  Identities,
  Legacy,          \* not an identity: the history of the anchors by address
  Roots,           \* the pinned roots that each of the two may anchor
  Traces,          \* reasoning that clients of the API send, and its derived ids
  TraceIds,        \* the ids that they choose for it
  Questions,       \* what resolves may name: an oracle, the configured one if
                   \* nothing else, and the address whose advice it is to judge
  Ruinous,         \* a burn leaves less than the bond that registering takes
  Contested,       \* those that others, too, put to the configured oracle
  Served,          \* the agents that requests of the API are for
  Ids,             \* --agents of the runner and the seeder, in order
  agent_addrs,     \* whose advice the runner has resolved for an agent
  Cycles,          \* --run-n
  ResolveEvery,    \* --resolve-every
  Paying,          \* the runner has a pool and a key to pay for queries
  MaxStarts, MaxEvents, MaxAnchors, MaxPending    \* bounds

ASSUME RegistryAssumption ==
  /\ Processes = {"api", "runner", "seeder", "anchor"}
  /\ Keys = {Operator} /\ DOMAIN Roots = {Operator, Stranger} /\ Stranger # Operator
  /\ {Legacy, Operator, Stranger} \cap Identities = {}
  /\ Questions \subseteq {"config", "other"} \X {Operator, Stranger}
  /\ <<"config", Operator>> \in Questions /\ Served \subseteq Nat
  /\ \A q \in Contested : q \in Questions /\ q[1] = "config"
  /\ \A agent \in DOMAIN agent_addrs : <<"config", agent_addrs[agent]>> \in Questions
  /\ Len(Ids) > 0 /\ \A k \in DOMAIN Ids : Ids[k] \in Nat \ {0}
  /\ Cycles \in Nat \ {0} /\ ResolveEvery \in Nat /\ {Paying, Ruinous} \subseteq BOOLEAN
  /\ {MaxStarts, MaxEvents, MaxAnchors, MaxPending} \subseteq Nat

VARIABLES
  \* the chain
  owner, bonded,       \* of an identity; whether the operator's bond is posted
  agents,              \* AgentRegistry._agents, by id: identity and operator
  feed,                \* history: its AgentAction events, a bag
  pending,             \* advice that waits for a verdict of the service's oracle
  verdicts,            \* history: what resolves came to, by who sent them, which
                       \* oracle and whose advice they named, and what was said
  latest,              \* MemoryAnchor's latest record, by identity or address
  anchors,             \* its histories, by identity, all addresses' in one
  \* the processes
  pc,
  job,                 \* by process: the agent it works for, what it has asked of
                       \* which oracle, the outcome to record
  memory,              \* by process: the entries of its MemoryService, by id, each
                       \* with its place among all that were added
  run,                 \* the runner's place in its cycles, and whom it has tried
  stop,                \* the runner's _stop event
  boots, requests

registryVars == <<owner, bonded, agents, feed, pending, verdicts>>
anchorVars == <<latest, anchors>>
chainVars == <<registryVars, anchorVars>>
procVars == <<pc, job, memory, run, stop>>
vars == <<sendVars, chainVars, procVars, boots, requests>>

NoJob == [agent |-> 0, asked |-> << >>, outcome |-> "none"]
NoMemory == [entries |-> << >>, added |-> 0]
NoAnchor == [root |-> << >>, sequence |-> 0]
FirstTurn == [cycle |-> 1, at |-> 1, tried |-> {}]
Slots == Identities \cup {Legacy}
Accounts == Identities \cup {Operator, Stranger}
Outcomes == {"slashed", "passed"}         \* of an AdviceResolved event
Says == Outcomes \cup {"ok"}              \* "ok": success without one
Configured == {q \in Questions : q[1] = "config"}

\* The operator's identities, of which one may be registered, and advice of
\* the operator and of another, which is over once a verdict falls.
Init ==
  /\ SenderInit
  /\ owner = [i \in Identities |-> Operator] /\ bonded = TRUE
  /\ agents \in {<< >>} \cup {<<[identity |-> i, operator |-> owner[i]]>> : i \in Identities}
  /\ feed = EmptyBag /\ pending = Configured
  /\ verdicts = [by \in {"own", "stranger"} |-> [q \in Questions |-> [v \in Says |-> 0]]]
  /\ latest = [a \in Accounts |-> NoAnchor] /\ anchors = [i \in Slots |-> << >>]
  /\ pc = [p \in Processes |-> "off"] /\ job = [p \in Processes |-> NoJob]
  /\ memory = [p \in Processes |-> NoMemory]
  /\ run = FirstTurn /\ stop = FALSE
  /\ boots = [p \in Processes |-> 0] /\ requests = 0

-----------------------------------------------------------------------------
(***************************************************************************)
(* The contracts.                                                          *)
(***************************************************************************)

IsOperator(agent) == agent \in DOMAIN agents /\ agents[agent].operator = Operator
Registered(i) == \E k \in DOMAIN agents : agents[k].identity = i
MayRegister(i) == owner[i] = Operator /\ bonded /\ ~Registered(i)

\* anchor numbers the records of an identity, whoever owned it, and those of an
\* address.
Account(slot, sender) == IF slot = Legacy THEN sender ELSE slot
NextSequenceOfSender(slot, sender) ==
  Len(SelectSeq(anchors[slot], LAMBDA a : a.owner = sender)) + 1
NextSequence(slot, sender) == latest[Account(slot, sender)].sequence + 1
Anchored(slot, root, sender) ==
  /\ latest' = [latest EXCEPT ![Account(slot, sender)] =
       [root |-> root, sequence |-> NextSequence(slot, sender)]]
  /\ anchors' = [anchors EXCEPT ![slot] = Append(@, [root |-> root, owner |-> sender])]
MayAnchor(slot, sender) == slot # Legacy => owner[slot] = sender

\* What a transaction of the operator may come to when it is mined.
Results(call) ==
  CASE call.do = "register" /\ MayRegister(call.identity) -> {"ok"}
    [] call.do = "record" /\ IsOperator(call.agent) -> {"ok"}
    [] call.do = "anchor" /\ MayAnchor(call.slot, Operator) -> {"ok"}
    [] call.do = "resolve" /\ call.asked[1] = "other" -> {"reverted"} \cup Says
    [] call.do = "resolve" /\ call.asked \in pending -> {"reverted"} \cup Outcomes
    [] OTHER -> {"reverted"}

\* Only the service's oracle holds the operator's bond.
Resolved(by, asked, says) ==
  /\ verdicts' = [verdicts EXCEPT ![by][asked][says] = @ + 1]
  /\ pending' = pending \ {asked}
  /\ bonded' =
       (bonded /\ ~(Ruinous /\ says = "slashed" /\ asked = <<"config", Operator>>))

Executes(t, result) ==
  IF result = "reverted" THEN UNCHANGED chainVars
  ELSE CASE t.call.do = "resolve" ->
              /\ Resolved("own", t.call.asked, result)
              /\ UNCHANGED <<owner, agents, feed, anchorVars>>
         [] t.call.do = "register" ->
              /\ agents' = Append(agents, [identity |-> t.call.identity, operator |-> Operator])
              /\ UNCHANGED <<owner, bonded, feed, pending, verdicts, anchorVars>>
         [] t.call.do = "record" ->
              /\ feed' = feed (+) SetToBag({t.call})
              /\ UNCHANGED <<owner, bonded, agents, pending, verdicts, anchorVars>>
         [] t.call.do = "anchor" ->
              Anchored(t.call.slot, t.call.root, Operator) /\ UNCHANGED registryVars

Mine(t) ==
  \E result \in Results(t.call) :
    /\ Mined(t, result)
    /\ Executes(t, result)
    /\ UNCHANGED <<procVars, boots, requests>>

\* Others: whoever likes resolves advice, identities change
\* hands, and their new owners anchor (tried while the anchor tool runs and
\* nothing else has: bound).
AnchorsOnly == {p \in Processes : boots[p] > 0} = {"anchor"}
AnchorsLeft ==
  FoldFunction(LAMBDA a, n : a.sequence + n, 0, latest) < MaxAnchors  \* bound
StrangerResolves(asked) ==
  /\ asked \in pending
  /\ \E outcome \in Outcomes : Resolved("stranger", asked, outcome)
  /\ UNCHANGED <<sendVars, owner, agents, feed, anchorVars, procVars, boots, requests>>
StrangerAnchors(slot, root) ==
  /\ MayAnchor(slot, Stranger)
  /\ AnchorsOnly /\ AnchorsLeft
  /\ Anchored(slot, root, Stranger)
  /\ UNCHANGED <<sendVars, registryVars, procVars, boots, requests>>
Transfer(i) ==
  /\ AnchorsOnly
  /\ owner' = [owner EXCEPT ![i] = IF @ = Operator THEN Stranger ELSE Operator]
  /\ UNCHANGED <<sendVars, bonded, agents, feed, pending, verdicts, anchorVars, procVars,
                 boots, requests>>

\* The directory's reputation of the operator: the AdviceResolved events of the
\* configured oracle about it.
Listed(by) == verdicts[by][<<"config", Operator>>]
Reputation ==
  [losses |-> Listed("own")["slashed"] + Listed("stranger")["slashed"],
   wins |-> Listed("own")["passed"] + Listed("stranger")["passed"]]

-----------------------------------------------------------------------------
(***************************************************************************)
(* The service functions, each up to its send.                             *)
(***************************************************************************)

\* The chain does not see by, the process and its life, nor about: the entry in
\* memory, or the question, behind the action.
Action(p, agent, kind, about) ==
  [do |-> "record", agent |-> agent, kind |-> kind, about |-> about, by |-> <<p, boots[p]>>]

register_agent(p, i) == Sign(p, Operator, [do |-> "register", identity |-> i])

\* The trace goes into the memory first, in the place of what has its id there.
publish_advice(p, agent, id, trace) ==
  LET added == memory[p].added + 1
      old == memory[p].entries
      entries == [i \in DOMAIN old \cup {id} |->
                    IF i = id THEN [trace |-> trace, added |-> added] ELSE old[i]]
  IN /\ memory' = [memory EXCEPT ![p] = [entries |-> entries, added |-> added]]
     /\ Sign(p, Operator, Action(p, agent, "ADVICE_PUBLISHED", <<id, trace, added>>))

record_query_paid(p, agent) == Sign(p, Operator, Action(p, agent, "QUERY_PAID", << >>))

\* With a price update of its own.
resolve_bond(p, asked) == Sign(p, Operator, [do |-> "resolve", by |-> p, asked |-> asked])

\* resolve_agent, once the verdict is known.
RecordOutcome(p) ==
  /\ pc[p] = "outcome"
  /\ Sign(p, Operator, Action(p, job[p].agent, job[p].outcome, job[p].asked))
  /\ UNCHANGED <<chainVars, procVars, boots, requests>>

\* resolve_bond raises unless its receipt says success; what does not say
\* "slashed" counts as passed, also where no verdict is in the receipt.
KindOf(receipt) == IF receipt = "slashed" THEN "BOND_SLASHED" ELSE "BOND_RELEASED"
GoodUnlessRecorded(p, receipt) == pc[p] = "resolve" \/ receipt # "reverted"
Good(p, receipt) == receipt # "reverted"

-----------------------------------------------------------------------------
(***************************************************************************)
(* Starting and ending.                                                    *)
(***************************************************************************)

Goto(p, label) == pc' = [pc EXCEPT ![p] = label]
Exit(p) ==
  /\ Goto(p, "off")
  /\ job' = [job EXCEPT ![p] = NoJob]

\* A memory lasts as long as its process, whatever becomes of a call.
KeepsWhatLanded(p) ==
  LET failed == pc[p] = "advice" /\ Answer(p) # "ok" /\ sending[p].tx # {}
      Others(entries) == Restrict(entries, DOMAIN entries \ {Own(p).call.about[1]})
  IN memory' = [memory EXCEPT ![p] =
       IF pc'[p] = "off" THEN NoMemory
       ELSE IF failed THEN [@ EXCEPT !.entries = Others(@)] ELSE @]
Keeps(p) == memory' = [memory EXCEPT ![p] = IF pc'[p] = "off" THEN NoMemory ELSE @]

Starts == FoldFunction(+, 0, boots)
Start(p, label) ==
  /\ pc[p] = "off"
  /\ Starts < MaxStarts /\ Starts + requests < MaxEvents              \* bounds
  /\ boots' = [boots EXCEPT ![p] = @ + 1]
  /\ Goto(p, label)

StartApi == Start("api", "idle") /\ UNCHANGED <<sendVars, chainVars, job, memory, run, stop, requests>>
StartRunner ==
  /\ Start("runner", "advice")
  /\ run' = FirstTurn /\ stop' = FALSE
  /\ UNCHANGED <<sendVars, chainVars, job, memory, requests>>

\* main of seed_actions refuses a key that is known not to be the operator's.
StartSeeder ==
  /\ Start("seeder", "seed")
  /\ \A agent \in Range(Ids) \cap DOMAIN agents : IsOperator(agent)
  /\ job' = [job EXCEPT !["seeder"].agent = 1]
  /\ UNCHANGED <<sendVars, chainVars, memory, run, stop, requests>>

\* anchor_memory signs at once.
StartAnchor(slot, root) ==
  /\ Start("anchor", "anchor")
  /\ AnchorsLeft
  /\ Sign("anchor", Operator, [do |-> "anchor", slot |-> slot, root |-> root])
  /\ UNCHANGED <<chainVars, job, memory, run, stop, requests>>

\* SIGINT or SIGTERM sets the event that the runner looks at between calls.
Halt ==
  /\ pc["runner"] # "off" /\ ~stop
  /\ stop' = TRUE
  /\ UNCHANGED <<sendVars, chainVars, pc, job, memory, run, boots, requests>>

Crash(p) ==
  /\ pc[p] # "off"
  /\ Exit(p) /\ Keeps(p)
  /\ sending' = Dropped(p)
  /\ stop' = (stop \/ p = "runner")
  /\ UNCHANGED <<nonce, pool, chainVars, run, boots, requests>>

-----------------------------------------------------------------------------
(***************************************************************************)
(* The requests that the API takes.                                        *)
(***************************************************************************)

Accepts(label, agent, asked) ==
  /\ pc["api"] = "idle"
  /\ Starts + requests < MaxEvents                                    \* bound
  /\ requests' = requests + 1
  /\ Goto("api", label)
  /\ job' = [job EXCEPT !["api"] = [NoJob EXCEPT !.agent = agent, !.asked = asked]]
  /\ UNCHANGED <<chainVars, run, stop, boots>>

RegisterRoute(i) ==
  Accepts("register", 0, << >>) /\ register_agent("api", i) /\ UNCHANGED memory

\* A client leaves the id to the service, which derives it from the trace, or
\* chooses it, perhaps one that it was given for other advice.
AdviceRoute(agent, id, trace) ==
  /\ Accepts("advice", agent, << >>) /\ publish_advice("api", agent, id, trace)

\* The outcome is the agent's, whatever oracle and address the client names.
ResolveRoute(agent, asked) ==
  Accepts("resolve", agent, asked) /\ resolve_bond("api", asked) /\ UNCHANGED memory

-----------------------------------------------------------------------------
(***************************************************************************)
(* The runner's cycles.                                                    *)
(***************************************************************************)

\* Template, symbol and number: not every template shows the number.
_make_advice(agent, cycle) ==
  LET template == (agent + cycle) % 5
  IN <<template, (agent * 3 + cycle) % 5,
       IF template = 1 THEN 0 ELSE 8 + ((agent * 7 + cycle * 5) % 40)>>

Agent == Ids[run.at]
Due == ResolveEvery > 0 /\ run.cycle % ResolveEvery = 0

\* The next agent, the next cycle, or the end.
Turned ==
  IF run.at < Len(Ids) THEN [run EXCEPT !.at = @ + 1]
  ELSE [run EXCEPT !.at = 1, !.cycle = @ + 1]
NextTurn ==
  IF stop \/ (run.at = Len(Ids) /\ run.cycle = Cycles)
  THEN Exit("runner") /\ UNCHANGED run
  ELSE Goto("runner", "advice") /\ run' = Turned /\ UNCHANGED job
GoOn(label) ==
  /\ IF stop THEN Exit("runner") ELSE Goto("runner", label) /\ UNCHANGED job
  /\ UNCHANGED run
Rest == IF Due /\ ~stop THEN GoOn("resolve") ELSE NextTurn

\* Without its advice an agent does nothing more in this cycle.
BreakOff ==
  IF stop \/ run.cycle = Cycles THEN Exit("runner") /\ UNCHANGED run
  ELSE /\ Goto("runner", "advice")
       /\ run' = [run EXCEPT !.at = 1, !.cycle = @ + 1]
       /\ UNCHANGED job
Skip == NextTurn

\* A verdict is noted for RecordOutcome.
Note(p, receipt) ==
  /\ Goto(p, "outcome")
  /\ job' = [job EXCEPT ![p].outcome = KindOf(receipt)]
  /\ UNCHANGED run

\* A call of the runner has returned, with this receipt, or raised.
RunnerGoesOn(ok, receipt) ==
  CASE pc["runner"] = "advice" -> IF ok THEN GoOn("query") ELSE Skip
    [] pc["runner"] = "query" -> Rest
    [] pc["runner"] = "resolve" -> IF ok THEN Note("runner", receipt) ELSE NextTurn
    [] pc["runner"] = "outcome" -> NextTurn

RunnerAdvises ==
  /\ pc["runner"] = "advice"
  /\ job' = [job EXCEPT !["runner"].agent = Agent]
  /\ LET trace == _make_advice(Agent, run.cycle)
     IN publish_advice("runner", Agent, trace, trace)
  /\ run' = [run EXCEPT !.tried = @ \cup {<<run.cycle, run.at>>}]
  /\ UNCHANGED <<chainVars, pc, stop, boots, requests>>

\* The query may fail where it is paid for; it is recorded in any case else.
RunnerRecordsQuery ==
  /\ pc["runner"] = "query"
  /\ record_query_paid("runner", Agent)
  /\ UNCHANGED <<chainVars, procVars, boots, requests>>
QueryFails ==
  /\ pc["runner"] = "query" /\ sending["runner"].at = "idle"
  /\ Paying
  /\ Rest /\ Keeps("runner")
  /\ UNCHANGED <<sendVars, chainVars, stop, boots, requests>>

\* The oracle is the configured one.
RunnerResolves ==
  /\ pc["runner"] = "resolve"
  /\ Agent \in DOMAIN agent_addrs
  /\ LET asked == <<"config", agent_addrs[Agent]>>
     IN job' = [job EXCEPT !["runner"].asked = asked] /\ resolve_bond("runner", asked)
  /\ UNCHANGED <<chainVars, pc, memory, run, stop, boots, requests>>

\* Without an address (main gives none), or without a price, resolve_agent raises.
NobodyToResolve ==
  /\ pc["runner"] = "resolve" /\ sending["runner"].at = "idle"
  /\ NextTurn /\ Keeps("runner")
  /\ UNCHANGED <<sendVars, chainVars, stop, boots, requests>>

-----------------------------------------------------------------------------
(***************************************************************************)
(* The seeder, which waits for no receipt, and what a call comes to.       *)
(***************************************************************************)

Seed ==
  /\ pc["seeder"] = "seed"
  /\ Sign("seeder", Operator,
          Action("seeder", Ids[job["seeder"].agent], "ADVICE_PUBLISHED", << >>))
  /\ UNCHANGED <<chainVars, procVars, boots, requests>>

\* After a send, or an attempt at one.
SeederGoesOn ==
  IF job["seeder"].agent = Len(Ids) THEN Exit("seeder")
  ELSE job' = [job EXCEPT !["seeder"].agent = @ + 1] /\ UNCHANGED pc

Returns(p, ok, receipt) ==
  /\ CASE p = "runner" -> RunnerGoesOn(ok, receipt)
       [] p = "seeder" -> SeederGoesOn /\ UNCHANGED run
       [] p = "anchor" -> Exit(p) /\ UNCHANGED run
       [] p = "api" /\ pc[p] = "resolve" /\ ok -> Note(p, receipt)
       [] OTHER -> Goto(p, "idle") /\ job' = [job EXCEPT ![p] = NoJob] /\ UNCHANGED run
  /\ Keeps(p)

RoomLeft == Cardinality(pool) < MaxPending                            \* bound
Submit(p) ==
  /\ p # "seeder"
  /\ Broadcast(p) /\ RoomLeft
  /\ UNCHANGED <<chainVars, procVars, boots, requests>>

\* seed_actions, and anchor_memory with --no-wait, are content with the hash.
SubmitOnly(p) ==
  /\ p \in {"seeder", "anchor"}
  /\ sending[p].at = "signed"
  /\ Takes(Own(p)) /\ RoomLeft
  /\ Returns(p, TRUE, "none")
  /\ sending' = Dropped(p)
  /\ UNCHANGED <<chainVars, stop, boots, requests>>

SubmitFails(p) ==
  /\ BroadcastRaises(p)
  /\ pool' # pool => RoomLeft
  /\ Returns(p, FALSE, "none")
  /\ sending' = Dropped(p)
  /\ UNCHANGED <<chainVars, stop, boots, requests>>

Receipt(p) ==
  /\ Receives(p)
  /\ Returns(p, Good(p, Answer(p)), Answer(p))
  /\ sending' = Dropped(p)
  /\ UNCHANGED <<nonce, pool, chainVars, stop, boots, requests>>

GiveUp(p) ==
  /\ WaitRaises(p)
  /\ Returns(p, FALSE, "none")
  /\ sending' = Dropped(p)
  /\ UNCHANGED <<nonce, pool, chainVars, stop, boots, requests>>

-----------------------------------------------------------------------------
Work(p) == Submit(p) \/ SubmitOnly(p) \/ SubmitFails(p) \/ Receipt(p) \/ GiveUp(p) \/ RecordOutcome(p)
RunnerStep ==
  \/ Work("runner") \/ RunnerAdvises \/ RunnerRecordsQuery \/ QueryFails \/ NobodyToResolve
  \/ RunnerResolves

Next ==
  \/ StartApi \/ StartRunner \/ StartSeeder
  \/ \E slot \in Slots :
       \/ \E root \in Roots[Operator] : StartAnchor(slot, root)
       \/ \E root \in Roots[Stranger] : StrangerAnchors(slot, root)
  \/ \E i \in Identities : RegisterRoute(i) \/ Transfer(i)
  \/ \E agent \in Served :
       \/ \E asked \in Questions : ResolveRoute(agent, asked)
       \/ \E trace \in Traces : \E id \in TraceIds \cup {trace} : AdviceRoute(agent, id, trace)
  \/ RunnerStep \/ Seed
  \/ \E p \in Processes \ {"runner"} : Work(p)
  \/ \E p \in Processes : Crash(p)
  \/ Halt \/ \E asked \in Contested : StrangerResolves(asked)
  \/ \E t \in pool : Mine(t)

Spec == Init /\ [][Next]_vars

\* The runner, while it lives, runs on; the chain owes nobody anything.
FairSpec == Spec /\ WF_vars(RunnerStep)

=============================================================================
