----------------------------- MODULE Provision ------------------------------
(***************************************************************************)
(* scripts/run_arena.py up to its round: acquire_pool, agents/provision.py *)
(* and agents/agent_wallet.py over ChainSender.                            *)
(*                                                                         *)
(* Launchers are processes with the operator's key and one keystore        *)
(* directory.  A fresh pool is spawned, provisioned on chain in four       *)
(* transactions per agent and written down in identities.json; a reused    *)
(* one is loaded.  Whatever raises ends the process, and so may a crash at *)
(* any point; the files, the mempool and the chain stay.                   *)
(*                                                                         *)
(* The chain is what the steps see of it: balances of the agents, in coins *)
(* for gas and stake, identities in the order of minting, allowances and   *)
(* Colosseum's registrations.                                              *)
(***************************************************************************)
EXTENDS ChainSender

CONSTANTS
  Operator,       \* the key of DEPLOYER_PK
  Agents,         \* the keys that Account.create makes, in order
  PoolSize,       \* --agents
  Fund, Stake,    \* fund_units, stake_units
  Gas,            \* what an agent pays for one transaction
  Requirements,   \* values of Colosseum's stakeRequirement
  Torn,
  MaxStarts       \* bound

ASSUME ProvisionAssumption ==
  /\ Agents \in Seq(Range(Agents)) /\ Operator \notin Range(Agents)
  /\ Keys = {Operator} \cup Range(Agents)
  /\ PoolSize \in Nat /\ PoolSize >= 2
  /\ Fund \in Nat /\ Stake \in Nat /\ Gas \in Nat
  /\ Fund >= Stake                           \* provision_agents raises otherwise
  /\ Requirements \subseteq Nat /\ MaxStarts \in Nat

VARIABLES
  \* the chain
  balance, minted, allowance, requirement,
  registered,
  paid, veterans,      \* history: transfers received, agents ever registered
  \* the keystore directory
  keystore, identities,
  mixed,               \* launchers whose open file another one has written to
  \* the launchers
  pc, job,
  starts

chainVars == <<balance, minted, allowance, requirement, registered, paid, veterans>>
fileVars == <<keystore, identities, mixed>>
vars == <<sendVars, chainVars, fileVars, pc, job, starts>>

Wallets == Range(Agents)

\* wallets, number of transactions sent, identity_id, and the map to be saved
NoJob == [wallets |-> << >>, sent |-> 0, ids |-> << >>, map |-> << >>]

Init ==
  /\ SenderInit
  /\ balance = [a \in Wallets |-> 0] /\ minted = << >>
  /\ allowance = [a \in Wallets |-> 0] /\ requirement \in Requirements
  /\ registered = {} /\ paid = [a \in Wallets |-> 0] /\ veterans = {}
  /\ keystore = [a \in Wallets |-> "none"] /\ identities = << >> /\ mixed = {}
  /\ pc = [p \in Processes |-> "off"] /\ job = [p \in Processes |-> NoJob]
  /\ starts = 0

-----------------------------------------------------------------------------
(***************************************************************************)
(* A launcher's files.                                                     *)
(***************************************************************************)

\* dict.update
Overlay(new, old) ==
  [x \in DOMAIN new \cup DOMAIN old |-> IF x \in DOMAIN new THEN new[x] ELSE old[x]]

Goto(p, label) == pc' = [pc EXCEPT ![p] = label]

\* An exception nobody catches, SystemExit, or the end of the run.
Stop(p) ==
  /\ Goto(p, "off")
  /\ job' = [job EXCEPT ![p] = NoJob]
  /\ mixed' = mixed \ {p}

Start(p, label) ==
  /\ pc[p] = "off"
  /\ starts < MaxStarts                                           \* bound
  /\ starts' = starts + 1
  /\ Goto(p, label)
  /\ UNCHANGED <<sendVars, chainVars, fileVars, job>>

Unborn == {k \in DOMAIN Agents : keystore[Agents[k]] = "none"}
NewKey == Agents[CHOOSE k \in Unborn : \A j \in Unborn : k <= j]

\* spawn_keypairs, one keystore at a time.
SpawnUnchecked(p) ==
  /\ pc[p] = "spawn"
  /\ Unborn # {}
  /\ keystore' \in {[keystore EXCEPT ![NewKey] = f] : f \in {"whole", "torn"}}
  /\ job' = [job EXCEPT ![p].wallets = Append(@, NewKey)]
  /\ Goto(p, IF Len(job[p].wallets) + 1 = PoolSize THEN "provision" ELSE "spawn")
  /\ UNCHANGED <<sendVars, chainVars, identities, mixed, starts>>
Spawn(p) ==
  /\ pc[p] = "spawn"
  /\ Unborn # {}
  /\ keystore' = [keystore EXCEPT ![NewKey] = "whole"]
  /\ job' = [job EXCEPT ![p].wallets = Append(@, NewKey)]
  /\ Goto(p, IF Len(job[p].wallets) + 1 = PoolSize THEN "provision" ELSE "spawn")
  /\ UNCHANGED <<sendVars, chainVars, identities, mixed, starts>>

\* The instance has no key left for it.                           (bound)
Exhausted(p) ==
  /\ pc[p] = "spawn" /\ Unborn = {}
  /\ Stop(p)
  /\ UNCHANGED <<sendVars, chainVars, keystore, identities, starts>>

\* save_identities: read, overlay, truncate and write.  What cannot be read is
\* dropped; a write that fails costs a warning.
ReadIdentities(p) ==
  /\ pc[p] = "save"
  /\ job' = [job EXCEPT ![p].map =
       Overlay(job[p].ids, IF identities = Torn THEN << >> ELSE identities)]
  /\ Goto(p, "open")
  /\ UNCHANGED <<sendVars, chainVars, fileVars, starts>>
OpenIdentities(p) ==
  /\ pc[p] = "open"
  /\ identities' = Torn
  /\ Goto(p, "write")
  /\ UNCHANGED <<sendVars, chainVars, keystore, mixed, job, starts>>

\* Over what another one wrote since, the text may end in that one's rest.
WriteIdentities(p) ==
  /\ pc[p] = "write"
  /\ \/ identities' = job[p].map
     \/ p \in mixed /\ identities' = Torn
  /\ mixed' = (mixed \cup {q \in Processes : pc[q] = "write"}) \ {p}
  /\ Goto(p, "ready")
  /\ UNCHANGED <<sendVars, chainVars, keystore, job, starts>>
SaveFails(p) ==
  /\ pc[p] \in {"open", "write"}
  /\ mixed' = mixed \ {p}
  /\ Goto(p, "ready")
  /\ UNCHANGED <<sendVars, chainVars, keystore, identities, job, starts>>

\* acquire_pool, reusing: every keystore, each with an identity on file.
Pool == SelectSeq(Agents, LAMBDA a : keystore[a] # "none")
KnownIfFiled(a) == identities # Torn
Known(a) == identities # Torn /\ a \in DOMAIN identities
Reusable ==
  /\ Len(Pool) >= 2
  /\ \A a \in Range(Pool) : keystore[a] = "whole" /\ Known(a)
Load(p) ==
  /\ pc[p] = "load"
  /\ IF Reusable
     THEN /\ job' = [job EXCEPT ![p].wallets = Pool,
                                ![p].ids = Restrict(identities, Range(Pool) \cap DOMAIN identities)]
          /\ Goto(p, "ready") /\ UNCHANGED mixed
     ELSE Stop(p)
  /\ UNCHANGED <<sendVars, chainVars, keystore, identities, starts>>

-----------------------------------------------------------------------------
(***************************************************************************)
(* provision_agent, a transaction at a time.                               *)
(***************************************************************************)

Steps == <<"transfer", "mint", "approve", "registerAgent">>

\* The call that comes after n have succeeded.
AgentOf(p, n) == job[p].wallets[(n \div Len(Steps)) + 1]
CallOf(p, n) == [step |-> Steps[(n % Len(Steps)) + 1], agent |-> AgentOf(p, n)]
SignerOf(call) == IF call.step = "transfer" THEN Operator ELSE call.agent

Send(p) ==
  /\ pc[p] = "provision"
  /\ LET call == CallOf(p, job[p].sent) IN Sign(p, SignerOf(call), call)
  /\ UNCHANGED <<chainVars, fileVars, pc, job, starts>>

\* The node wants the gas to be there.
CanPay(t) == t.key # Operator => balance[t.key] >= Gas
Submit(p) ==
  /\ Broadcast(p)
  /\ CanPay(Own(p))
  /\ UNCHANGED <<chainVars, fileVars, pc, job, starts>>
SubmitFails(p) ==
  /\ BroadcastRaises(p)
  /\ pool' # pool => CanPay(Own(p))
  /\ Stop(p)
  /\ sending' = Dropped(p)
  /\ UNCHANGED <<chainVars, keystore, identities, starts>>

\* The receipt says success, and which identity was minted to the signer.
MintedTo(a) == CHOOSE id \in DOMAIN minted : minted[id] = a
Confirmed(p) ==
  LET call == Own(p).call
      done == job[p].sent + 1
  IN /\ job' = [job EXCEPT ![p].sent = done,
                           ![p].ids = IF call.step = "mint"
                                      THEN Overlay([a \in {call.agent} |-> MintedTo(a)], @)
                                      ELSE @]
     /\ Goto(p, IF done = PoolSize * Len(Steps) THEN "save" ELSE "provision")
     /\ UNCHANGED mixed

Receipt(p) ==
  /\ Receives(p)
  /\ IF Answer(p) = "ok" THEN Confirmed(p) ELSE Stop(p)
  /\ sending' = Dropped(p)
  /\ UNCHANGED <<nonce, pool, chainVars, keystore, identities, starts>>

\* A deadline that passes ends the launch, though the transaction may yet land.
SendAgain(p) ==
  /\ WaitRaises(p)
  /\ sending' = Dropped(p)
  /\ UNCHANGED <<nonce, pool, chainVars, fileVars, pc, job, starts>>
GiveUp(p) ==
  /\ WaitRaises(p)
  /\ Stop(p)
  /\ sending' = Dropped(p)
  /\ UNCHANGED <<nonce, pool, chainVars, keystore, identities, starts>>

-----------------------------------------------------------------------------
(***************************************************************************)
(* The chain.                                                              *)
(***************************************************************************)

\* registerAgent wants a stranger, the allowance and the stake after gas.
MayRegister(a) ==
  /\ a \notin registered
  /\ allowance[a] >= requirement
  /\ balance[a] - Gas >= requirement

Charged(a, n) == balance' = [balance EXCEPT ![a] = @ - n]
Executes(step, a) ==
  CASE step = "transfer" ->
         /\ Charged(a, -Fund)
         /\ paid' = [paid EXCEPT ![a] = @ + 1]
         /\ UNCHANGED <<minted, allowance, registered, veterans>>
    [] step = "mint" ->
         /\ Charged(a, Gas)
         /\ minted' = Append(minted, a)
         /\ UNCHANGED <<allowance, registered, paid, veterans>>
    [] step = "approve" ->
         /\ Charged(a, Gas)
         /\ allowance' = [allowance EXCEPT ![a] = Stake]
         /\ UNCHANGED <<minted, registered, paid, veterans>>
    [] step = "registerAgent" /\ MayRegister(a) ->
         /\ Charged(a, Gas + requirement)
         /\ allowance' = [allowance EXCEPT ![a] = @ - requirement]
         /\ registered' = registered \cup {a}
         /\ veterans' = veterans \cup {a}
         /\ UNCHANGED <<minted, paid>>
    [] OTHER ->
         /\ Charged(a, Gas)
         /\ UNCHANGED <<minted, allowance, registered, paid, veterans>>

Reverts(call) == call.step = "registerAgent" /\ ~MayRegister(call.agent)
Mine(t) ==
  /\ Mined(t, IF Reverts(t.call) THEN "reverted" ELSE "ok")
  /\ Executes(t.call.step, t.call.agent)
  /\ UNCHANGED <<requirement, fileVars, pc, job, starts>>

\* The round: createDuel reverts for a pair that is not registered, and a duel
\* that resolves, which it need not, closes both its agents out.
Pairs(ws) == {{ws[2 * i - 1], ws[2 * i]} : i \in 1 .. Len(ws) \div 2}
Play(p) ==
  /\ pc[p] = "ready"
  /\ \E over \in SUBSET {d \in Pairs(job[p].wallets) : d \subseteq registered} :
       registered' = registered \ UNION over
  /\ Stop(p)
  /\ UNCHANGED <<sendVars, balance, minted, allowance, requirement, paid, veterans,
                 keystore, identities, starts>>

\* A launcher dies, perhaps while it writes a keystore.
Crash(p) ==
  /\ pc[p] # "off"
  /\ Stop(p)
  /\ sending' = Dropped(p)
  /\ \/ UNCHANGED keystore
     \/ pc[p] = "spawn" /\ Unborn # {}
        /\ keystore' = [keystore EXCEPT ![NewKey] = "torn"]
  /\ UNCHANGED <<nonce, pool, chainVars, identities, starts>>

-----------------------------------------------------------------------------
Work(p) ==
  \/ Spawn(p) \/ Exhausted(p)
  \/ ReadIdentities(p) \/ OpenIdentities(p) \/ WriteIdentities(p) \/ SaveFails(p)
  \/ Load(p)
  \/ Send(p) \/ Submit(p) \/ SubmitFails(p) \/ Receipt(p) \/ GiveUp(p)
  \/ Play(p)

Next ==
  \/ \E p \in Processes : Start(p, "spawn") \/ Start(p, "load") \/ Work(p) \/ Crash(p)
  \/ \E t \in pool : Mine(t)

Spec == Init /\ [][Next]_vars

=============================================================================
