------------------------- MODULE ProvisionTheorems --------------------------
(***************************************************************************)
(* Proofs about Provision, for any number of launchers, agents and starts: *)
(* what the operator's coins, the transactions on the way, the keystores   *)
(* and identities.json have to do with each other.                         *)
(***************************************************************************)
EXTENDS ProvisionProps, BasicLemmas

(***************************************************************************)
(* The calls of a launcher.                                                *)
(***************************************************************************)
StepNames == {"transfer", "mint", "approve", "registerAgent"}
Calls == [step : StepNames, agent : Wallets]
TotalCalls == PoolSize * 4

\* The part of a pool that is being made, by the launcher that makes it.
Launching(p) == pc[p] \in {"spawn", "provision"}
Saving(p) == pc[p] \in {"save", "open", "write"}
Fresh(p) == Launching(p) \/ Saving(p)

LEMMA StepFacts ==
  /\ Len(Steps) = 4
  /\ \A k \in 1 .. 4 : Steps[k] \in StepNames
  /\ \A j, k \in 1 .. 4 : Steps[j] = Steps[k] => j = k
  BY DEF Steps, StepNames

LEMMA SizeFacts ==
  /\ PoolSize \in Nat /\ PoolSize >= 2 /\ TotalCalls \in Nat
  /\ TotalCalls = PoolSize * Len(Steps) /\ Stake \in Nat
  BY ProvisionAssumption, StepFacts DEF ProvisionAssumption, TotalCalls

LEMMA CallNumbers ==
  ASSUME NEW n \in Nat
  PROVE  /\ n \div 4 \in Nat /\ n % 4 \in 0 .. 3
         /\ n = 4 * (n \div 4) + (n % 4)
  OBVIOUS

\* A call of a pool is about one of its agents.
LEMMA CallIs ==
  ASSUME NEW p \in Processes, job[p].wallets \in Seq(Wallets), NEW n \in Nat,
         n < 4 * Len(job[p].wallets)
  PROVE  /\ (n \div 4) + 1 \in 1 .. Len(job[p].wallets)
         /\ AgentOf(p, n) = job[p].wallets[(n \div 4) + 1]
         /\ AgentOf(p, n) \in Range(job[p].wallets)
         /\ AgentOf(p, n) \in Wallets
         /\ CallOf(p, n) \in Calls
         /\ CallOf(p, n).step = Steps[(n % 4) + 1]
         /\ CallOf(p, n).agent = AgentOf(p, n)
<1>1. n \div 4 \in Nat /\ n % 4 \in 0 .. 3 /\ n = 4 * (n \div 4) + (n % 4)
  BY CallNumbers
<1>2. Len(job[p].wallets) \in Nat /\ DOMAIN job[p].wallets = 1 .. Len(job[p].wallets)
  OBVIOUS
<1>3. (n \div 4) + 1 \in 1 .. Len(job[p].wallets)
  BY <1>1, <1>2
<1>4. AgentOf(p, n) = job[p].wallets[(n \div 4) + 1]
  BY StepFacts DEF AgentOf
<1>5. AgentOf(p, n) \in Range(job[p].wallets) /\ AgentOf(p, n) \in Wallets
  BY <1>2, <1>3, <1>4 DEF Range
<1>6. (n % 4) + 1 \in 1 .. 4
  BY <1>1
<1>7. Steps[(n % 4) + 1] \in StepNames
  BY <1>6, StepFacts
<1>8. CallOf(p, n) = [step |-> Steps[(n % 4) + 1], agent |-> AgentOf(p, n)]
  BY StepFacts DEF CallOf
<1> QED BY <1>3, <1>4, <1>5, <1>7, <1>8 DEF Calls

\* The least key that nobody has is one.
LEMMA NewKeyFacts ==
  ASSUME Unborn # {}
  PROVE  NewKey \in Wallets /\ keystore[NewKey] = "none"
<1>1. DOMAIN Agents \subseteq Nat
  BY ProvisionAssumption DEF ProvisionAssumption
<1>2. Unborn \subseteq Nat
  BY <1>1 DEF Unborn
<1>3. \E k \in Unborn : \A j \in Unborn : k <= j
  BY <1>2, LeastNat
<1>4. PICK k \in Unborn : NewKey = Agents[k]
  BY <1>3 DEF NewKey
<1> QED BY <1>4 DEF Unborn, Wallets, Range

-----------------------------------------------------------------------------
(***************************************************************************)
(* Types, and what a launcher holds at each point of its life.             *)
(***************************************************************************)
Txs == [key : Keys, nonce : Nat, call : Calls]
JobFields == {"wallets", "sent", "ids", "map"}
Labels == {"off", "spawn", "provision", "save", "open", "write", "load", "ready"}

ChainTypeOK ==
  /\ nonce \in [Keys -> Nat]
  /\ IsFiniteSet(pool) /\ pool \subseteq Txs
  /\ paid \in [Wallets -> Nat] /\ allowance \in [Wallets -> Int]
  /\ minted \in Seq(Wallets) /\ veterans \subseteq Wallets
  /\ keystore \in [Wallets -> {"none", "whole", "torn"}]
  /\ requirement \in Nat

\* A send belongs to the next call of a launcher that provisions.
SendTypeOK(p) ==
  /\ pc[p] # "provision" => sending[p] = NoSend
  /\ sending[p].at = "idle" => sending[p] = NoSend
  /\ sending[p].at # "idle" =>
       /\ sending[p].tx = {Own(p)}
       /\ Own(p).call = CallOf(p, job[p].sent)

\* The keys of a fresh pool are on disk before a coin is spent on them.
JobTypeOK(p) ==
  /\ DOMAIN job[p] = JobFields
  /\ pc[p] \in {"off", "load"} => job[p] = NoJob
  /\ Fresh(p) =>
       /\ job[p].wallets \in Seq(Wallets)
       /\ \A i \in 1 .. Len(job[p].wallets) : keystore[job[p].wallets[i]] = "whole"
       /\ job[p].sent \in Nat
       /\ DOMAIN job[p].ids \subseteq Range(job[p].wallets)
  /\ pc[p] = "spawn" => Len(job[p].wallets) < PoolSize /\ job[p].sent = 0
  /\ pc[p] = "provision" => Len(job[p].wallets) = PoolSize /\ job[p].sent < TotalCalls
  /\ Saving(p) => Len(job[p].wallets) = PoolSize /\ job[p].sent = TotalCalls
  /\ pc[p] = "ready" => job[p].sent \in {0, TotalCalls}

LaunchersTypeOK ==
  /\ pc \in [Processes -> Labels]
  /\ job \in [Processes -> Range(job)]
  /\ sending \in [Processes -> [at : {"idle", "signed", "waiting"}, tx : SUBSET Txs,
                               receipt : {"none", "ok", "reverted"}]]
  /\ \A p \in Processes : SendTypeOK(p) /\ JobTypeOK(p)

TypeInv == ChainTypeOK /\ LaunchersTypeOK

LEMMA TypeInit == Init => TypeInv
<1> SUFFICES ASSUME Init PROVE TypeInv
  OBVIOUS
<1> USE DEF Init, SenderInit
<1>1. ChainTypeOK
  BY FS_EmptySet, ProvisionAssumption DEF ChainTypeOK, ProvisionAssumption
<1>2. ASSUME NEW p \in Processes PROVE SendTypeOK(p) /\ JobTypeOK(p)
  BY <1>2 DEF SendTypeOK, JobTypeOK, NoSend, NoJob, JobFields, Fresh, Launching, Saving
<1>3. job \in [Processes -> Range(job)]
  BY DEF Range
<1> QED BY <1>1, <1>2, <1>3 DEF TypeInv, LaunchersTypeOK, Labels, NoSend

\* Who is not touched stays as it was.
LEMMA OthersTypeOK ==
  ASSUME LaunchersTypeOK, NEW q \in Processes,
         pc'[q] = pc[q], job'[q] = job[q], sending'[q] = sending[q],
         \A a \in Wallets : keystore[a] = "whole" => keystore'[a] = "whole"
  PROVE  SendTypeOK(q)' /\ JobTypeOK(q)'
<1>1. SendTypeOK(q) /\ JobTypeOK(q)
  BY DEF LaunchersTypeOK
<1>2. SendTypeOK(q)'
  BY <1>1 DEF SendTypeOK, Own, CallOf, AgentOf
<1>3. \A i \in 1 .. Len(job[q].wallets) : Fresh(q) => job[q].wallets[i] \in Wallets
  BY <1>1 DEF JobTypeOK
<1>4. JobTypeOK(q)'
  BY <1>1, <1>3 DEF JobTypeOK, Fresh, Launching, Saving
<1> QED BY <1>2, <1>4

\* One launcher moves, the others stay where they are.
Sendings == [Processes -> [at : {"idle", "signed", "waiting"}, tx : SUBSET Txs,
                           receipt : {"none", "ok", "reverted"}]]
KeysStay == \A a \in Wallets : keystore[a] = "whole" => keystore'[a] = "whole"

LEMMA OneMoves ==
  ASSUME LaunchersTypeOK, NEW p \in Processes, NEW label \in Labels, NEW j, KeysStay,
         pc' = [pc EXCEPT ![p] = label], job' = [job EXCEPT ![p] = j],
         sending' \in Sendings, \A q \in Processes \ {p} : sending'[q] = sending[q],
         SendTypeOK(p)', JobTypeOK(p)'
  PROVE  LaunchersTypeOK'
<1>1. pc' \in [Processes -> Labels] /\ job' \in [Processes -> Range(job')]
  BY DEF LaunchersTypeOK, Range
<1>2. ASSUME NEW q \in Processes \ {p} PROVE SendTypeOK(q)' /\ JobTypeOK(q)'
  <2>1. pc'[q] = pc[q] /\ job'[q] = job[q] /\ sending'[q] = sending[q]
    BY DEF LaunchersTypeOK
  <2> QED BY <2>1, OthersTypeOK DEF KeysStay
<1> QED BY <1>1, <1>2 DEF LaunchersTypeOK, Sendings

\* A launcher ends, in whatever step.
LEMMA StopKeepsTypes ==
  ASSUME LaunchersTypeOK, NEW p \in Processes, Stop(p), KeysStay,
         \/ sending' = Dropped(p)
         \/ sending' = sending /\ pc[p] # "provision"
  PROVE  LaunchersTypeOK'
<1>1. sending' \in Sendings /\ sending'[p] = NoSend
      /\ \A q \in Processes \ {p} : sending'[q] = sending[q]
  <2>1. NoSend \in [at : {"idle", "signed", "waiting"}, tx : SUBSET Txs,
                    receipt : {"none", "ok", "reverted"}]
    BY DEF NoSend
  <2> QED BY <2>1 DEF LaunchersTypeOK, SendTypeOK, Dropped, Sendings
<1>2. pc'[p] = "off" /\ job'[p] = NoJob
  BY DEF Stop, Goto, LaunchersTypeOK
<1>3. SendTypeOK(p)'
  BY <1>1, <1>2 DEF SendTypeOK, NoSend
<1>4. JobTypeOK(p)'
  BY <1>2 DEF JobTypeOK, NoJob, JobFields, Fresh, Launching, Saving
<1>5. "off" \in Labels
  BY DEF Labels
<1>6. pc' = [pc EXCEPT ![p] = "off"] /\ job' = [job EXCEPT ![p] = NoJob]
  BY DEF Stop, Goto
<1> QED BY <1>1, <1>3, <1>4, <1>5, <1>6, OneMoves

LEMMA NoJobFacts ==
  /\ DOMAIN NoJob = JobFields
  /\ NoJob.wallets = << >> /\ NoJob.wallets \in Seq(Wallets) /\ Len(NoJob.wallets) = 0
  /\ NoJob.sent = 0 /\ DOMAIN NoJob.ids = {} /\ DOMAIN NoJob.map = {}
<1>1. << >> \in Seq(Wallets) /\ Len(<< >>) = 0 /\ DOMAIN << >> = {}
  OBVIOUS
<1> QED BY <1>1 DEF NoJob, JobFields

\* A step that leaves the job, or what of it counts here, as it was.
LEMMA GotoKeepsTypes ==
  ASSUME LaunchersTypeOK, NEW p \in Processes, NEW label \in Labels, NEW j, KeysStay,
         pc' = [pc EXCEPT ![p] = label], job' = [job EXCEPT ![p] = j], UNCHANGED sending,
         pc[p] # "provision",
         \/ pc[p] = "off" /\ label \in {"spawn", "load"} /\ j = NoJob
         \/ /\ Saving(p) /\ label \in {"open", "write", "ready"}
            /\ DOMAIN j = JobFields
            /\ j.wallets = job[p].wallets /\ j.sent = job[p].sent /\ j.ids = job[p].ids
         \/ label = "ready" /\ DOMAIN j = JobFields /\ j.sent = 0
  PROVE  LaunchersTypeOK'
<1>1. SendTypeOK(p) /\ JobTypeOK(p) /\ sending \in Sendings /\ pc'[p] = label /\ job'[p] = j
  BY DEF LaunchersTypeOK, Sendings
<1>2. SendTypeOK(p)'
  BY <1>1 DEF SendTypeOK, NoSend
<1>3. CASE pc[p] = "off" /\ label \in {"spawn", "load"} /\ j = NoJob
  <2>1. JobTypeOK(p)'
    <3>1. job'[p] = NoJob /\ pc'[p] \in {"spawn", "load"}
      BY <1>1, <1>3
    <3>2. 0 < PoolSize /\ ~\E i \in 1 .. 0 : TRUE
      BY SizeFacts
    <3>3. /\ job'[p].wallets \in Seq(Wallets)
          /\ Len(job'[p].wallets) < PoolSize
          /\ job'[p].sent = 0
      BY <3>1, <3>2, NoJobFacts
    <3>5. \A i \in 1 .. Len(job'[p].wallets) : keystore'[job'[p].wallets[i]] = "whole"
      BY <3>1, <3>2, NoJobFacts
    <3>4. DOMAIN job'[p].ids \subseteq Range(job'[p].wallets)
      BY <3>1, NoJobFacts
    <3> QED BY <3>1, <3>3, <3>4, <3>5, NoJobFacts DEF JobTypeOK, Fresh, Launching, Saving
  <2> QED BY <1>1, <1>2, <2>1, OneMoves
<1>4. CASE Saving(p) /\ label \in {"open", "write", "ready"} /\ DOMAIN j = JobFields
           /\ j.wallets = job[p].wallets /\ j.sent = job[p].sent /\ j.ids = job[p].ids
  <2>1. JobTypeOK(p)'
    BY <1>1, <1>4 DEF JobTypeOK, Fresh, Launching, Saving, KeysStay
  <2> QED BY <1>1, <1>2, <2>1, OneMoves
<1>5. CASE label = "ready" /\ DOMAIN j = JobFields /\ j.sent = 0
  <2>1. JobTypeOK(p)'
    BY <1>1, <1>5 DEF JobTypeOK, Fresh, Launching, Saving
  <2> QED BY <1>1, <1>2, <2>1, OneMoves
<1> QED BY <1>3, <1>4, <1>5

\* What a launcher has signed and not yet seen the end of.
LEMMA OwnIs ==
  ASSUME TypeInv, NEW p \in Processes, sending[p].at # "idle"
  PROVE  /\ pc[p] = "provision" /\ sending[p].tx = {Own(p)}
         /\ Own(p) \in Txs /\ Own(p).call = CallOf(p, job[p].sent)
<1>1. SendTypeOK(p) /\ sending[p].tx \in SUBSET Txs
  BY DEF TypeInv, LaunchersTypeOK
<1>2. NoSend.at = "idle"
  BY DEF NoSend
<1> QED BY <1>1, <1>2 DEF SendTypeOK

LEMMA TakesKeepsTypes ==
  ASSUME ChainTypeOK, NEW t \in Txs, Takes(t)
  PROVE  nonce' \in [Keys -> Nat] /\ IsFiniteSet(pool') /\ pool' \subseteq Txs
<1>1. pool' = (pool \ Rivals(t)) \cup {t} /\ nonce' = nonce
  BY DEF Takes
<1>2. IsFiniteSet(pool \ Rivals(t))
  BY FS_Subset DEF ChainTypeOK
<1>3. IsFiniteSet((pool \ Rivals(t)) \cup {t})
  BY <1>2, FS_AddElement
<1> QED BY <1>1, <1>3 DEF ChainTypeOK

LEMMA NonceType ==
  ASSUME ChainTypeOK, NEW k \in Keys
  PROVE  get_nonce(k) \in Nat
<1> DEFINE S == {t \in pool : t.key = k}
<1>1. IsFiniteSet(S)
  BY FS_Subset DEF ChainTypeOK
<1>2. Cardinality(S) \in Nat
  BY <1>1, FS_CardinalityType
<1> QED BY <1>2 DEF get_nonce, ChainTypeOK

LEMMA SpawnKeepsTypes ==
  ASSUME TypeInv, NEW p \in Processes, Spawn(p)
  PROVE  TypeInv'
<1> DEFINE ws == job[p].wallets
           label == IF Len(ws) + 1 = PoolSize THEN "provision" ELSE "spawn"
           j == [job[p] EXCEPT !.wallets = Append(ws, NewKey)]
<1>1. /\ pc[p] = "spawn" /\ Unborn # {}
      /\ keystore' = [keystore EXCEPT ![NewKey] = "whole"]
      /\ job' = [job EXCEPT ![p].wallets = Append(@, NewKey)]
      /\ pc' = [pc EXCEPT ![p] = label]
      /\ UNCHANGED <<sendVars, chainVars>>
  BY DEF Spawn, Goto
<1>2. NewKey \in Wallets
  BY <1>1, NewKeyFacts
<1>3. ChainTypeOK'
  BY <1>1, <1>2 DEF TypeInv, ChainTypeOK, sendVars, chainVars
<1>4. LaunchersTypeOK /\ SendTypeOK(p) /\ JobTypeOK(p)
  BY DEF TypeInv, LaunchersTypeOK
<1>5. /\ ws \in Seq(Wallets) /\ Len(ws) < PoolSize /\ job[p].sent = 0
      /\ \A i \in 1 .. Len(ws) : keystore[ws[i]] = "whole"
      /\ DOMAIN job[p] = JobFields
      /\ DOMAIN job[p].ids \subseteq Range(ws)
  BY <1>1, <1>4 DEF JobTypeOK, Fresh, Launching
<1>6. /\ job' = [job EXCEPT ![p] = j]
      /\ job'[p] = j
      /\ DOMAIN j = JobFields /\ j.wallets = Append(ws, NewKey)
      /\ j.sent = 0 /\ j.ids = job[p].ids
  BY <1>1, <1>4, <1>5 DEF LaunchersTypeOK, JobFields
<1>7. /\ Append(ws, NewKey) \in Seq(Wallets) /\ Len(Append(ws, NewKey)) = Len(ws) + 1
      /\ \A i \in 1 .. Len(ws) : Append(ws, NewKey)[i] = ws[i]
      /\ Append(ws, NewKey)[Len(ws) + 1] = NewKey
  BY <1>2, <1>5
<1>8. KeysStay
  BY <1>1, <1>2 DEF KeysStay, TypeInv, ChainTypeOK
<1>9. /\ pc'[p] = label /\ label \in Labels /\ label \in {"spawn", "provision"}
      /\ label = "spawn" => Len(ws) + 1 < PoolSize
      /\ label = "provision" => Len(ws) + 1 = PoolSize
  BY <1>1, <1>4, <1>5, SizeFacts DEF LaunchersTypeOK, Labels
<1>10. \A i \in 1 .. Len(ws) + 1 : keystore'[Append(ws, NewKey)[i]] = "whole"
  <2>1. \A i \in 1 .. Len(ws) : ws[i] \in Wallets
    BY <1>5
  <2> QED BY <1>1, <1>2, <1>5, <1>7, <2>1 DEF TypeInv, ChainTypeOK
<1>11. Range(ws) \subseteq Range(Append(ws, NewKey))
  BY <1>5, <1>7 DEF Range
<1>12. JobTypeOK(p)'
  <2>1. 0 < TotalCalls
    BY SizeFacts DEF TotalCalls
  <2>2. /\ job'[p].wallets = Append(ws, NewKey) /\ job'[p].sent = 0
        /\ job'[p].ids = job[p].ids /\ DOMAIN job'[p] = JobFields
    BY <1>6
  <2>3. /\ job'[p].wallets \in Seq(Wallets) /\ Len(job'[p].wallets) = Len(ws) + 1
        /\ \A i \in 1 .. Len(job'[p].wallets) : keystore'[job'[p].wallets[i]] = "whole"
        /\ DOMAIN job'[p].ids \subseteq Range(job'[p].wallets)
    BY <1>5, <1>7, <1>10, <1>11, <2>2
  <2>4. pc'[p] \in {"spawn", "provision"}
    BY <1>9
  <2>5. pc'[p] = "spawn" => Len(job'[p].wallets) < PoolSize
    BY <1>9, <2>3
  <2>6. pc'[p] = "provision" => Len(job'[p].wallets) = PoolSize
    BY <1>9, <2>3
  <2> HIDE DEF label, j, ws
  <2> QED BY <2>1, <2>2, <2>3, <2>4, <2>5, <2>6 DEF JobTypeOK, Fresh, Launching, Saving
<1>13. SendTypeOK(p)'
  <2>1. sending' = sending /\ sending[p] = NoSend
    BY <1>1, <1>4 DEF SendTypeOK, sendVars
  <2> QED BY <2>1 DEF SendTypeOK, NoSend
<1>14. sending' \in Sendings /\ \A q \in Processes \ {p} : sending'[q] = sending[q]
  BY <1>1, <1>4 DEF LaunchersTypeOK, Sendings, sendVars
<1>15. LaunchersTypeOK'
  <2> HIDE DEF label, j
  <2> QED BY <1>1, <1>4, <1>6, <1>8, <1>9, <1>12, <1>13, <1>14, OneMoves
<1> QED BY <1>3, <1>15 DEF TypeInv

\* The steps of a send, before its end.
LEMMA OneSends ==
  ASSUME LaunchersTypeOK, NEW p \in Processes, UNCHANGED <<pc, job, keystore>>,
         sending' \in Sendings, \A q \in Processes \ {p} : sending'[q] = sending[q],
         SendTypeOK(p)'
  PROVE  LaunchersTypeOK'
<1>1. KeysStay
  BY DEF KeysStay
<1>2. ASSUME NEW q \in Processes \ {p} PROVE SendTypeOK(q)'
  BY <1>1, OthersTypeOK DEF KeysStay
<1>3. ASSUME NEW q \in Processes PROVE JobTypeOK(q)'
  BY DEF LaunchersTypeOK, JobTypeOK, Fresh, Launching, Saving
<1> QED BY <1>2, <1>3 DEF LaunchersTypeOK, Sendings

\* What a launcher that provisions is about to do, or has on the way.
LEMMA NextCall ==
  ASSUME TypeInv, NEW p \in Processes, pc[p] = "provision"
  PROVE  /\ job[p].sent \in Nat /\ job[p].sent < TotalCalls
         /\ job[p].wallets \in Seq(Wallets) /\ Len(job[p].wallets) = PoolSize
         /\ CallOf(p, job[p].sent) \in Calls
<1>1. /\ job[p].sent \in Nat /\ job[p].sent < TotalCalls
      /\ job[p].wallets \in Seq(Wallets) /\ Len(job[p].wallets) = PoolSize
  BY DEF TypeInv, LaunchersTypeOK, JobTypeOK, Fresh, Launching
<1>2. job[p].sent < 4 * Len(job[p].wallets)
  BY <1>1, SizeFacts DEF TotalCalls
<1> QED BY <1>1, <1>2, CallIs

LEMMA SignerFacts ==
  ASSUME NEW call \in Calls
  PROVE  /\ SignerOf(call) \in Keys
         /\ SignerOf(call) = Operator <=> call.step = "transfer"
  BY ProvisionAssumption DEF ProvisionAssumption, SignerOf, Calls, Wallets

LEMMA SendKeepsTypes ==
  ASSUME TypeInv, NEW p \in Processes, Send(p)
  PROVE  TypeInv' /\ sending'[p].at = "signed" /\ Own(p)'.call = CallOf(p, job[p].sent)
<1> DEFINE call == CallOf(p, job[p].sent)
           k == SignerOf(call)
           tx == [key |-> k, nonce |-> get_nonce(k), call |-> call]
           r == [at |-> "signed", tx |-> {tx}, receipt |-> "none"]
<1>1. /\ pc[p] = "provision" /\ sending' = [sending EXCEPT ![p] = r]
      /\ UNCHANGED <<nonce, pool, chainVars, fileVars, pc, job, starts>>
  BY DEF Send, Sign
<1>2. call \in Calls
  BY <1>1, NextCall
<1>3. k \in Keys /\ get_nonce(k) \in Nat
  BY <1>2, SignerFacts, NonceType DEF TypeInv
<1>4. tx \in Txs
  BY <1>2, <1>3 DEF Txs
<1>5. r \in [at : {"idle", "signed", "waiting"}, tx : SUBSET Txs, receipt : {"none", "ok", "reverted"}]
  BY <1>4
<1>6. sending' \in Sendings /\ sending'[p] = r /\ \A q \in Processes \ {p} : sending'[q] = sending[q]
  BY <1>1, <1>5 DEF TypeInv, LaunchersTypeOK, Sendings
<1>7. Own(p)' = tx
  BY <1>6 DEF Own
<1>8. SendTypeOK(p)'
  <2>1. CallOf(p, job[p].sent)' = call
    BY <1>1 DEF CallOf, AgentOf
  <2>2. tx.call = call /\ sending'[p].tx = {tx} /\ sending'[p].at = "signed" /\ pc'[p] = "provision"
    BY <1>1, <1>6
  <2> QED BY <1>7, <2>1, <2>2 DEF SendTypeOK, CallOf, AgentOf
<1>9. LaunchersTypeOK'
  BY <1>1, <1>6, <1>8, OneSends DEF fileVars, TypeInv
<1>10. ChainTypeOK'
  BY <1>1 DEF TypeInv, ChainTypeOK, chainVars, fileVars
<1> QED BY <1>6, <1>7, <1>9, <1>10 DEF TypeInv

LEMMA SubmitKeepsTypes ==
  ASSUME TypeInv, NEW p \in Processes, Submit(p)
  PROVE  /\ TypeInv' /\ pc[p] = "provision" /\ sending[p].at = "signed"
         /\ sending'[p].at = "waiting" /\ Own(p)' = Own(p)
<1>1. /\ sending[p].at = "signed" /\ Takes(Own(p))
      /\ sending' = [sending EXCEPT ![p].at = "waiting"]
      /\ UNCHANGED <<chainVars, fileVars, pc, job, starts>>
  BY DEF Submit, Broadcast
<1>2. pc[p] = "provision" /\ sending[p].tx = {Own(p)} /\ Own(p) \in Txs
      /\ Own(p).call = CallOf(p, job[p].sent)
  BY <1>1, OwnIs
<1>3. /\ sending' \in Sendings /\ \A q \in Processes \ {p} : sending'[q] = sending[q]
      /\ sending'[p].at = "waiting" /\ sending'[p].tx = sending[p].tx
  BY <1>1 DEF TypeInv, LaunchersTypeOK, Sendings
<1>4. Own(p)' = Own(p)
  BY <1>3 DEF Own
<1>5. SendTypeOK(p)'
  BY <1>1, <1>2, <1>3, <1>4 DEF SendTypeOK, CallOf, AgentOf
<1>6. LaunchersTypeOK'
  BY <1>1, <1>3, <1>5, OneSends DEF fileVars, TypeInv
<1>7. ChainTypeOK'
  BY <1>1, <1>2, TakesKeepsTypes DEF TypeInv, ChainTypeOK, chainVars, fileVars
<1> QED BY <1>1, <1>2, <1>3, <1>4, <1>6, <1>7 DEF TypeInv

\* The steps that end a launch.
LEMMA EndKeepsTypes ==
  ASSUME TypeInv, NEW p \in Processes,
         Exhausted(p) \/ SubmitFails(p) \/ GiveUp(p) \/ Play(p) \/ Crash(p)
  PROVE  TypeInv'
<1>1. LaunchersTypeOK /\ ChainTypeOK
  BY DEF TypeInv
<1>2. CASE Exhausted(p)
  <2>1. Stop(p) /\ KeysStay /\ sending' = sending /\ pc[p] # "provision"
    BY <1>2 DEF Exhausted, KeysStay, sendVars
  <2>2. LaunchersTypeOK'
    BY <1>1, <2>1, StopKeepsTypes
  <2>3. ChainTypeOK'
    BY <1>1, <1>2 DEF Exhausted, ChainTypeOK, sendVars, chainVars
  <2> QED BY <2>2, <2>3 DEF TypeInv
<1>3. CASE SubmitFails(p)
  <2>1. Stop(p) /\ KeysStay /\ sending' = Dropped(p)
    BY <1>3 DEF SubmitFails, KeysStay
  <2>2. LaunchersTypeOK'
    BY <1>1, <2>1, StopKeepsTypes
  <2>3. Own(p) \in Txs
    BY <1>3, OwnIs DEF SubmitFails, BroadcastRaises
  <2>4. nonce' \in [Keys -> Nat] /\ IsFiniteSet(pool') /\ pool' \subseteq Txs
    <3>1. CASE Takes(Own(p))
      BY <1>1, <2>3, <3>1, TakesKeepsTypes
    <3>2. CASE UNCHANGED <<nonce, pool>>
      BY <1>1, <3>2 DEF ChainTypeOK
    <3> QED BY <1>3, <3>1, <3>2 DEF SubmitFails, BroadcastRaises
  <2>5. ChainTypeOK'
    BY <1>1, <1>3, <2>4 DEF SubmitFails, ChainTypeOK, chainVars
  <2> QED BY <2>2, <2>5 DEF TypeInv
<1>4. CASE GiveUp(p)
  <2>1. Stop(p) /\ KeysStay /\ sending' = Dropped(p)
    BY <1>4 DEF GiveUp, KeysStay
  <2>2. LaunchersTypeOK'
    BY <1>1, <2>1, StopKeepsTypes
  <2>3. ChainTypeOK'
    BY <1>1, <1>4 DEF GiveUp, ChainTypeOK, chainVars
  <2> QED BY <2>2, <2>3 DEF TypeInv
<1>5. CASE Play(p)
  <2>1. Stop(p) /\ KeysStay /\ sending' = sending /\ pc[p] # "provision"
    BY <1>5 DEF Play, KeysStay, sendVars
  <2>2. LaunchersTypeOK'
    BY <1>1, <2>1, StopKeepsTypes
  <2>3. ChainTypeOK'
    BY <1>1, <1>5 DEF Play, ChainTypeOK, sendVars
  <2> QED BY <2>2, <2>3 DEF TypeInv
<1>6. CASE Crash(p)
  <2>1. Stop(p) /\ sending' = Dropped(p)
    BY <1>6 DEF Crash
  <2>2. KeysStay /\ keystore' \in [Wallets -> {"none", "whole", "torn"}]
    <3>1. CASE UNCHANGED keystore
      BY <1>1, <3>1 DEF KeysStay, ChainTypeOK
    <3>2. CASE Unborn # {} /\ keystore' = [keystore EXCEPT ![NewKey] = "torn"]
      BY <1>1, <3>2, NewKeyFacts DEF KeysStay, ChainTypeOK
    <3> QED BY <1>6, <3>1, <3>2 DEF Crash
  <2>3. LaunchersTypeOK'
    BY <1>1, <2>1, <2>2, StopKeepsTypes
  <2>4. ChainTypeOK'
    BY <1>1, <1>6, <2>2 DEF Crash, ChainTypeOK, chainVars
  <2> QED BY <2>3, <2>4 DEF TypeInv
<1> QED BY <1>2, <1>3, <1>4, <1>5, <1>6

\* The steps that are about files.
LEMMA FilesKeepTypes ==
  ASSUME TypeInv, NEW p \in Processes,
         \/ Start(p, "spawn") \/ Start(p, "load") \/ ReadIdentities(p)
         \/ OpenIdentities(p) \/ WriteIdentities(p) \/ SaveFails(p) \/ Load(p)
  PROVE  TypeInv'
<1> USE DEF Goto
<1>1. LaunchersTypeOK /\ ChainTypeOK /\ JobTypeOK(p) /\ job = [job EXCEPT ![p] = job[p]]
  BY DEF TypeInv, LaunchersTypeOK
<1>2. {"spawn", "load", "open", "write", "ready"} \subseteq Labels
  BY DEF Labels
<1>3. ASSUME NEW label \in {"spawn", "load"}, Start(p, label) PROVE TypeInv'
  <2>1. /\ pc[p] = "off" /\ pc' = [pc EXCEPT ![p] = label] /\ KeysStay
        /\ job' = [job EXCEPT ![p] = NoJob] /\ sending' = sending
    BY <1>1, <1>3 DEF Start, KeysStay, fileVars, sendVars, JobTypeOK
  <2>2. LaunchersTypeOK'
    BY <1>1, <1>2, <2>1, GotoKeepsTypes
  <2>3. ChainTypeOK'
    BY <1>1, <1>3 DEF Start, ChainTypeOK, sendVars, chainVars, fileVars
  <2> QED BY <2>2, <2>3 DEF TypeInv
<1>4. CASE ReadIdentities(p)
  <2> DEFINE m == Overlay(job[p].ids, IF identities = Torn THEN << >> ELSE identities)
             j == [job[p] EXCEPT !.map = m]
  <2> HIDE DEF m
  <2>1. /\ pc[p] = "save" /\ pc' = [pc EXCEPT ![p] = "open"] /\ KeysStay
        /\ job' = [job EXCEPT ![p] = j] /\ sending' = sending
    BY <1>1, <1>4 DEF ReadIdentities, KeysStay, fileVars, sendVars, m
  <2>2. /\ DOMAIN j = JobFields
        /\ j.wallets = job[p].wallets /\ j.sent = job[p].sent /\ j.ids = job[p].ids
    BY <1>1 DEF JobTypeOK, JobFields
  <2>3. LaunchersTypeOK'
    BY <1>1, <1>2, <2>1, <2>2, GotoKeepsTypes DEF Saving
  <2>4. ChainTypeOK'
    BY <1>1, <1>4 DEF ReadIdentities, ChainTypeOK, sendVars, chainVars, fileVars
  <2> QED BY <2>3, <2>4 DEF TypeInv
<1>5. ASSUME NEW label \in {"write", "ready"}, Saving(p), pc' = [pc EXCEPT ![p] = label],
             UNCHANGED <<sendVars, chainVars, keystore, job>>
      PROVE  TypeInv'
  <2>1. KeysStay /\ job' = [job EXCEPT ![p] = job[p]] /\ sending' = sending
        /\ pc[p] # "provision"
    BY <1>1, <1>5 DEF KeysStay, sendVars, Saving
  <2>2. LaunchersTypeOK'
    BY <1>1, <1>2, <1>5, <2>1, GotoKeepsTypes DEF JobTypeOK
  <2>3. ChainTypeOK'
    BY <1>1, <1>5 DEF ChainTypeOK, sendVars, chainVars
  <2> QED BY <2>2, <2>3 DEF TypeInv
<1>6. CASE OpenIdentities(p)
  BY <1>5, <1>6 DEF OpenIdentities, Saving
<1>7. CASE WriteIdentities(p)
  BY <1>5, <1>7 DEF WriteIdentities, Saving
<1>8. CASE SaveFails(p)
  BY <1>5, <1>8 DEF SaveFails, Saving
<1>9. CASE Load(p)
  <2>1. KeysStay /\ sending' = sending /\ pc[p] = "load"
    BY <1>9 DEF Load, KeysStay, sendVars
  <2>4. ChainTypeOK'
    BY <1>1, <1>9 DEF Load, ChainTypeOK, sendVars, chainVars
  <2>2. CASE Reusable
    <3> DEFINE m == Restrict(identities, Range(Pool) \cap DOMAIN identities)
               j == [job[p] EXCEPT !.wallets = Pool, !.ids = m]
    <3> HIDE DEF m
    <3>1. pc' = [pc EXCEPT ![p] = "ready"] /\ job' = [job EXCEPT ![p] = j]
      BY <1>1, <1>9, <2>2 DEF Load, m
    <3>2. DOMAIN j = JobFields /\ j.sent = 0
      BY <1>1, <2>1, NoJobFacts DEF JobTypeOK, JobFields
    <3> HIDE DEF j
    <3>3. LaunchersTypeOK'
      BY <1>1, <1>2, <2>1, <3>1, <3>2, GotoKeepsTypes
    <3> QED BY <2>4, <3>3 DEF TypeInv
  <2>3. CASE ~Reusable
    <3>1. Stop(p)
      BY <1>9, <2>3 DEF Load
    <3>2. LaunchersTypeOK'
      BY <1>1, <2>1, <3>1, StopKeepsTypes
    <3> QED BY <2>4, <3>2 DEF TypeInv
  <2> QED BY <2>2, <2>3
<1> QED BY <1>3, <1>4, <1>6, <1>7, <1>8, <1>9

\* The last call of a pool ends its provisioning.
LEMMA ReceiptKeepsTypes ==
  ASSUME TypeInv, NEW p \in Processes, Receipt(p)
  PROVE  TypeInv'
<1>1. /\ sending[p].at = "waiting" /\ sending' = Dropped(p)
      /\ UNCHANGED <<nonce, pool, chainVars, keystore, identities, starts>>
      /\ LaunchersTypeOK /\ ChainTypeOK /\ KeysStay
  BY DEF Receipt, Receives, TypeInv, KeysStay
<1>2. ChainTypeOK'
  BY <1>1 DEF ChainTypeOK, chainVars
<1>3. CASE Stop(p)
  BY <1>1, <1>2, <1>3, StopKeepsTypes DEF TypeInv
<1>4. CASE Confirmed(p)
  <2> DEFINE call == Own(p).call
             done == job[p].sent + 1
             ids == IF call.step = "mint"
                    THEN Overlay([a \in {call.agent} |-> MintedTo(a)], job[p].ids)
                    ELSE job[p].ids
             label == IF done = PoolSize * Len(Steps) THEN "save" ELSE "provision"
             j == [job[p] EXCEPT !.sent = done, !.ids = ids]
  <2>1. /\ pc[p] = "provision" /\ call = CallOf(p, job[p].sent)
    BY <1>1, OwnIs
  <2>2. JobTypeOK(p)
    BY <1>1 DEF LaunchersTypeOK
  <2>3. /\ job[p].sent \in Nat /\ job[p].sent < TotalCalls
        /\ job[p].wallets \in Seq(Wallets) /\ Len(job[p].wallets) = PoolSize
        /\ call.agent \in Range(job[p].wallets)
    <3>1. /\ job[p].sent \in Nat /\ job[p].sent < TotalCalls
          /\ job[p].wallets \in Seq(Wallets) /\ Len(job[p].wallets) = PoolSize
      BY <2>1, NextCall
    <3>2. job[p].sent < 4 * Len(job[p].wallets)
      BY <3>1, SizeFacts DEF TotalCalls
    <3> QED BY <2>1, <3>1, <3>2, CallIs
  <2>4. DOMAIN ids \subseteq Range(job[p].wallets)
    <3>1. DOMAIN job[p].ids \subseteq Range(job[p].wallets)
      BY <2>1, <2>2 DEF JobTypeOK, Fresh, Launching
    <3>2. DOMAIN Overlay([a \in {call.agent} |-> MintedTo(a)], job[p].ids)
          = {call.agent} \cup DOMAIN job[p].ids
      BY DEF Overlay
    <3> QED BY <2>3, <3>1, <3>2
  <2>5. /\ job' = [job EXCEPT ![p] = j] /\ pc' = [pc EXCEPT ![p] = label]
        /\ DOMAIN j = JobFields /\ j.wallets = job[p].wallets /\ j.sent = done /\ j.ids = ids
        /\ label \in {"save", "provision"} /\ label \in Labels
        /\ label = "save" <=> done = TotalCalls
    <3>1. job' = [job EXCEPT ![p].sent = done, ![p].ids = ids]
      BY <1>4 DEF Confirmed
    <3>2. pc' = [pc EXCEPT ![p] = label]
      BY <1>4 DEF Confirmed, Goto
    <3>3. DOMAIN job[p] = JobFields /\ job = [q \in Processes |-> job[q]]
      BY <1>1, <2>2 DEF LaunchersTypeOK, JobTypeOK
    <3> HIDE DEF ids, done
    <3>4. DOMAIN j = JobFields /\ j.wallets = job[p].wallets /\ j.sent = done /\ j.ids = ids
      BY <3>3 DEF JobFields
    <3>5. job' = [job EXCEPT ![p] = j]
      BY <3>1, <3>3
    <3>6. label \in {"save", "provision"} /\ label \in Labels
          /\ (label = "save" <=> done = TotalCalls)
      BY SizeFacts DEF Labels
    <3> QED BY <3>2, <3>4, <3>5, <3>6
  <2>6. done \in Nat /\ done <= TotalCalls
    BY <2>3, SizeFacts
  <2> HIDE DEF call, done, ids, label, j
  <2>7. job'[p] = j /\ pc'[p] = label
    BY <1>1, <2>5 DEF LaunchersTypeOK
  <2>8. SendTypeOK(p)' /\ sending' \in Sendings
        /\ \A q \in Processes \ {p} : sending'[q] = sending[q]
    <3>1. NoSend \in [at : {"idle", "signed", "waiting"}, tx : SUBSET Txs,
                      receipt : {"none", "ok", "reverted"}] /\ NoSend.at = "idle"
      BY DEF NoSend
    <3>2. sending'[p] = NoSend
      BY <1>1 DEF LaunchersTypeOK, Dropped
    <3> QED BY <1>1, <3>1, <3>2 DEF LaunchersTypeOK, Dropped, Sendings, SendTypeOK
  <2>9. \A i \in 1 .. Len(j.wallets) : keystore'[j.wallets[i]] = "whole"
    BY <1>1, <2>1, <2>2, <2>5 DEF JobTypeOK, Fresh, Launching
  <2>10. JobTypeOK(p)'
    <3>1. /\ pc'[p] \in {"save", "provision"}
          /\ pc'[p] = "save" <=> job'[p].sent = TotalCalls
          /\ job'[p].sent \in Nat /\ job'[p].sent <= TotalCalls
          /\ DOMAIN job'[p] = JobFields
          /\ job'[p].wallets \in Seq(Wallets) /\ Len(job'[p].wallets) = PoolSize
          /\ \A i \in 1 .. Len(job'[p].wallets) : keystore'[job'[p].wallets[i]] = "whole"
          /\ DOMAIN job'[p].ids \subseteq Range(job'[p].wallets)
      BY <2>3, <2>4, <2>5, <2>6, <2>7, <2>9
    <3>2. job'[p].sent # TotalCalls => job'[p].sent < TotalCalls
      BY <3>1, SizeFacts
    <3> QED BY <3>1, <3>2 DEF JobTypeOK, Fresh, Launching, Saving
  <2>11. LaunchersTypeOK'
    BY <1>1, <2>5, <2>8, <2>10, OneMoves
  <2> QED BY <1>2, <2>11 DEF TypeInv
<1> QED BY <1>3, <1>4 DEF Receipt

\* A block changes the chain and tells whoever waits.
LEMMA MineKeepsTypes ==
  ASSUME TypeInv, NEW t \in pool, Mine(t)
  PROVE  /\ TypeInv' /\ t \in Txs /\ t.call \in Calls
         /\ pool' = pool \ {t}
         /\ \A p \in Processes : /\ sending'[p].at = sending[p].at
                                 /\ sending'[p].tx = sending[p].tx
<1> DEFINE status == IF Reverts(t.call) THEN "reverted" ELSE "ok"
           a == t.call.agent
<1>1. /\ t.nonce = nonce[t.key] /\ nonce' = [nonce EXCEPT ![t.key] = @ + 1]
      /\ pool' = pool \ {t}
      /\ sending' = [p \in Processes |->
           IF sending[p].tx = {t} THEN [sending[p] EXCEPT !.receipt = status] ELSE sending[p]]
      /\ Executes(t.call.step, a)
      /\ UNCHANGED <<requirement, fileVars, pc, job, starts>>
  BY DEF Mine, Mined
<1>2. t \in Txs /\ t.call \in Calls /\ a \in Wallets /\ t.key \in Keys /\ t.nonce \in Nat
  BY DEF TypeInv, ChainTypeOK, Txs, Calls
<1>3. nonce' \in [Keys -> Nat] /\ IsFiniteSet(pool') /\ pool' \subseteq Txs
  BY <1>1, <1>2, FS_Subset DEF TypeInv, ChainTypeOK
<1>4. /\ paid' \in [Wallets -> Nat] /\ allowance' \in [Wallets -> Int]
      /\ minted' \in Seq(Wallets) /\ veterans' \subseteq Wallets
  <2>1. t.call.step \in StepNames
    BY <1>2 DEF Calls
  <2>2. /\ paid \in [Wallets -> Nat] /\ allowance \in [Wallets -> Int] /\ Stake \in Nat
        /\ minted \in Seq(Wallets) /\ veterans \subseteq Wallets /\ requirement \in Nat
    BY SizeFacts DEF TypeInv, ChainTypeOK
  <2>3. a \in Wallets
    BY <1>2
  <2> HIDE DEF a
  <2>4. CASE t.call.step = "transfer"
    BY <1>1, <2>2, <2>3, <2>4 DEF Executes
  <2>5. CASE t.call.step = "mint"
    <3>1. Append(minted, a) \in Seq(Wallets)
      BY <2>2, <2>3
    <3> QED BY <1>1, <2>2, <2>5, <3>1 DEF Executes
  <2>6. CASE t.call.step = "approve"
    BY <1>1, <2>2, <2>3, <2>6 DEF Executes
  <2>7. CASE t.call.step = "registerAgent" /\ MayRegister(a)
    BY <1>1, <2>2, <2>3, <2>7 DEF Executes
  <2>8. CASE t.call.step = "registerAgent" /\ ~MayRegister(a)
    BY <1>1, <2>2, <2>3, <2>8 DEF Executes
  <2> QED BY <2>1, <2>4, <2>5, <2>6, <2>7, <2>8 DEF StepNames
<1>5. status \in {"ok", "reverted"}
  OBVIOUS
<1> HIDE DEF status, a
<1>6. sending' \in Sendings /\ \A p \in Processes : sending'[p].at = sending[p].at
                                                  /\ sending'[p].tx = sending[p].tx
  BY <1>1, <1>5 DEF TypeInv, LaunchersTypeOK, Sendings
<1>7. ASSUME NEW p \in Processes PROVE SendTypeOK(p)' /\ JobTypeOK(p)'
  <2>1. SendTypeOK(p) /\ JobTypeOK(p)
    BY DEF TypeInv, LaunchersTypeOK
  <2>2. sending[p] = NoSend => sending'[p] = NoSend
    BY <1>1 DEF NoSend
  <2>3. Own(p)' = Own(p)
    BY <1>6 DEF Own
  <2>4. SendTypeOK(p)'
    BY <1>1, <1>6, <2>1, <2>2, <2>3 DEF SendTypeOK, CallOf, AgentOf
  <2>5. JobTypeOK(p)'
    BY <1>1, <2>1 DEF JobTypeOK, Fresh, Launching, Saving, fileVars
  <2> QED BY <2>4, <2>5
<1>8. LaunchersTypeOK'
  BY <1>1, <1>6, <1>7 DEF TypeInv, LaunchersTypeOK, Sendings
<1>9. ChainTypeOK'
  BY <1>1, <1>3, <1>4 DEF TypeInv, ChainTypeOK, fileVars
<1> QED BY <1>1, <1>2, <1>6, <1>8, <1>9 DEF TypeInv

LEMMA TypeStep == TypeInv /\ [Next]_vars => TypeInv'
<1> SUFFICES ASSUME TypeInv, [Next]_vars PROVE TypeInv'
  OBVIOUS
<1>1. CASE UNCHANGED vars
  <2>1. UNCHANGED <<nonce, pool, sending, paid, allowance, minted, veterans, keystore,
                    requirement, pc, job>>
    BY <1>1 DEF vars, sendVars, chainVars, fileVars
  <2>2. ASSUME NEW p \in Processes PROVE SendTypeOK(p)' /\ JobTypeOK(p)'
    BY <2>1, OthersTypeOK DEF TypeInv
  <2> QED BY <2>1, <2>2 DEF TypeInv, ChainTypeOK, LaunchersTypeOK
<1>2. ASSUME NEW p \in Processes,
             Start(p, "spawn") \/ Start(p, "load") \/ Work(p) \/ Crash(p)
      PROVE  TypeInv'
  BY <1>2, SpawnKeepsTypes, FilesKeepTypes, SendKeepsTypes, SubmitKeepsTypes,
     ReceiptKeepsTypes, EndKeepsTypes DEF Work
<1>3. ASSUME NEW t \in pool, Mine(t) PROVE TypeInv'
  BY <1>3, MineKeepsTypes
<1> QED BY <1>1, <1>2, <1>3 DEF Next

\* What a launcher holds at each point of its life, and that nothing is sent
\* but the next call of a pool.  (acquire_pool, provision_agent, cast_send)
THEOREM LaunchersAreTyped == Spec => []TypeInv
  BY TypeInit, TypeStep, PTL DEF Spec

-----------------------------------------------------------------------------
(***************************************************************************)
(* Who may still be paid.  A call that its launcher has not given to the   *)
(* node is nowhere on the way, and neither is any call for a key that no   *)
(* launcher has written down whole.  So a call is made once.               *)
(***************************************************************************)
Given(p) == IF sending[p].at = "waiting" THEN job[p].sent + 1 ELSE job[p].sent
Untouched(call) ==
  /\ \A t \in pool : t.call # call
  /\ call.step = "transfer" => paid[call.agent] = 0

PoolsDisjoint ==
  \A p, q \in Processes : Launching(p) /\ Launching(q) =>
    \A i \in 1 .. Len(job[p].wallets), j \in 1 .. Len(job[q].wallets) :
      job[p].wallets[i] = job[q].wallets[j] => p = q /\ i = j
UnsentAreUntouched ==
  \A p \in Processes : Launching(p) =>
    \A n \in Nat : Given(p) <= n /\ n < 4 * Len(job[p].wallets) => Untouched(CallOf(p, n))
UnbornAreUntouched == \A c \in Calls : keystore[c.agent] # "whole" => Untouched(c)
CallsAreUnique == \A t, u \in pool : t.call = u.call => t = u
PaidAtMostOnce == \A a \in Wallets : paid[a] <= 1 /\ (paid[a] = 1 => Transfers(a) = {})

FundInv ==
  PoolsDisjoint /\ UnsentAreUntouched /\ UnbornAreUntouched /\ CallsAreUnique /\ PaidAtMostOnce

LEMMA FundInit == Init => FundInv
<1> SUFFICES ASSUME Init PROVE FundInv
  OBVIOUS
<1>1. pool = {} /\ paid = [a \in Wallets |-> 0] /\ \A p \in Processes : ~Launching(p)
  BY DEF Init, SenderInit, Launching
<1>2. \A c \in Calls : Untouched(c)
  BY <1>1 DEF Untouched, Calls
<1>3. PaidAtMostOnce /\ CallsAreUnique
  BY <1>1 DEF PaidAtMostOnce, CallsAreUnique, Transfers
<1>4. PoolsDisjoint /\ UnsentAreUntouched
  BY <1>1 DEF PoolsDisjoint, UnsentAreUntouched
<1> QED BY <1>2, <1>3, <1>4 DEF FundInv, UnbornAreUntouched

\* The shape of what a launcher that is not done yet holds.
LEMMA LaunchingIs ==
  ASSUME TypeInv, NEW p \in Processes, Launching(p)
  PROVE  /\ job[p].wallets \in Seq(Wallets) /\ Len(job[p].wallets) \in Nat
         /\ job[p].sent \in Nat /\ Given(p) \in Nat
         /\ \A i \in 1 .. Len(job[p].wallets) : /\ job[p].wallets[i] \in Wallets
                                                /\ keystore[job[p].wallets[i]] = "whole"
<1>1. JobTypeOK(p)
  BY DEF TypeInv, LaunchersTypeOK
<1> QED BY <1>1 DEF JobTypeOK, Fresh, Given

\* No call is that of two launchers, or of two places of one.
LEMMA CallsDiffer ==
  ASSUME TypeInv, PoolsDisjoint, NEW p \in Processes, NEW q \in Processes,
         Launching(p), Launching(q), NEW m \in Nat, NEW n \in Nat,
         m < 4 * Len(job[p].wallets), n < 4 * Len(job[q].wallets),
         CallOf(p, m) = CallOf(q, n)
  PROVE  p = q /\ m = n
<1>1. job[p].wallets \in Seq(Wallets) /\ job[q].wallets \in Seq(Wallets)
  BY LaunchingIs
<1>2. /\ (m \div 4) + 1 \in 1 .. Len(job[p].wallets)
      /\ CallOf(p, m).step = Steps[(m % 4) + 1]
      /\ CallOf(p, m).agent = job[p].wallets[(m \div 4) + 1]
  BY <1>1, CallIs
<1>3. /\ (n \div 4) + 1 \in 1 .. Len(job[q].wallets)
      /\ CallOf(q, n).step = Steps[(n % 4) + 1]
      /\ CallOf(q, n).agent = job[q].wallets[(n \div 4) + 1]
  BY <1>1, CallIs
<1>4. p = q /\ (m \div 4) + 1 = (n \div 4) + 1
  BY <1>2, <1>3 DEF PoolsDisjoint
<1>5. /\ m \div 4 \in Nat /\ m % 4 \in 0 .. 3 /\ m = 4 * (m \div 4) + (m % 4)
      /\ n \div 4 \in Nat /\ n % 4 \in 0 .. 3 /\ n = 4 * (n \div 4) + (n % 4)
  BY CallNumbers
<1>6. (m % 4) + 1 \in 1 .. 4 /\ (n % 4) + 1 \in 1 .. 4
  BY <1>5
<1>7. (m % 4) + 1 = (n % 4) + 1
  BY <1>2, <1>3, <1>6, StepFacts
<1> QED BY <1>4, <1>5, <1>7

\* A launcher moves without a word to the node, and claims nothing new.
LEMMA QuietKeepsFunds ==
  ASSUME TypeInv, FundInv, TypeInv', NEW p \in Processes, KeysStay, UNCHANGED <<pool, paid>>,
         \A q \in Processes \ {p} : /\ pc'[q] = pc[q] /\ job'[q] = job[q]
                                    /\ sending'[q] = sending[q],
         \/ ~Launching(p)'
         \/ Launching(p)' /\ Len(job'[p].wallets) = 0
         \/ /\ Launching(p) /\ Launching(p)' /\ job'[p].wallets = job[p].wallets
            /\ Given(p)' >= Given(p)
  PROVE  FundInv'
<1>1. \A c : Untouched(c)' <=> Untouched(c)
  BY DEF Untouched
<1>2. \A q \in Processes \ {p} : /\ Launching(q)' = Launching(q)
                                 /\ Given(q)' = Given(q)
                                 /\ \A n : CallOf(q, n)' = CallOf(q, n)
  BY DEF Launching, Given, CallOf, AgentOf
<1>3. PoolsDisjoint'
  <2>1. ASSUME NEW q \in Processes, NEW r \in Processes, Launching(q)', Launching(r)',
               NEW i \in 1 .. Len(job'[q].wallets), NEW k \in 1 .. Len(job'[r].wallets),
               job'[q].wallets[i] = job'[r].wallets[k]
        PROVE  q = r /\ i = k
    <3>1. \A o \in {q, r} : Launching(o) /\ job'[o].wallets = job[o].wallets
      <4>1. Len(job'[q].wallets) # 0 /\ Len(job'[r].wallets) # 0
        OBVIOUS
      <4> QED BY <1>2, <2>1, <4>1
    <3>2. /\ i \in 1 .. Len(job[q].wallets) /\ k \in 1 .. Len(job[r].wallets)
          /\ job[q].wallets[i] = job[r].wallets[k]
      BY <2>1, <3>1
    <3>3. Launching(q) /\ Launching(r)
      BY <3>1
    <3> QED BY <3>2, <3>3 DEF FundInv, PoolsDisjoint
  <2> QED BY <2>1 DEF PoolsDisjoint
<1>4. UnsentAreUntouched'
  <2>1. ASSUME NEW q \in Processes, Launching(q)', NEW n \in Nat,
               Given(q)' <= n, n < 4 * Len(job'[q].wallets)
        PROVE  Untouched(CallOf(q, n))'
    <3>1. CASE q # p
      BY <1>1, <1>2, <2>1, <3>1 DEF FundInv, UnsentAreUntouched
    <3>2. CASE q = p /\ Launching(p) /\ job'[p].wallets = job[p].wallets /\ Given(p)' >= Given(p)
      <4>1. CallOf(p, n)' = CallOf(p, n)
        BY <3>2 DEF CallOf, AgentOf
      <4>2. Given(p) <= n
        <5>1. Given(p)' \in Nat
          <6>1. JobTypeOK(p)'
            BY DEF TypeInv, LaunchersTypeOK
          <6>2. job'[p].sent \in Nat
            BY <2>1, <3>2, <6>1 DEF JobTypeOK, Fresh
          <6> QED BY <6>2 DEF Given
        <5> QED BY <2>1, <3>2, <5>1, LaunchingIs
      <4>3. Untouched(CallOf(p, n))
        BY <2>1, <3>2, <4>2 DEF FundInv, UnsentAreUntouched
      <4> QED BY <1>1, <3>2, <4>1, <4>3
    <3>3. CASE q = p /\ Len(job'[p].wallets) = 0
      BY <2>1, <3>3
    <3> QED BY <2>1, <3>1, <3>2, <3>3
  <2> QED BY <2>1 DEF UnsentAreUntouched
<1>5. UnbornAreUntouched'
  BY <1>1 DEF FundInv, UnbornAreUntouched, KeysStay, Calls, TypeInv, ChainTypeOK
<1>6. CallsAreUnique' /\ PaidAtMostOnce'
  BY DEF FundInv, CallsAreUnique, PaidAtMostOnce, Transfers
<1> QED BY <1>3, <1>4, <1>5, <1>6 DEF FundInv

\* What a launcher gives to the node, whether it hears of that or not.
LEMMA GivingKeepsFunds ==
  ASSUME TypeInv, FundInv, TypeInv', NEW p \in Processes,
         pc[p] = "provision", sending[p].at = "signed",
         pool' \subseteq pool \cup {Own(p)}, UNCHANGED <<paid, keystore>>,
         \A q \in Processes \ {p} : /\ pc'[q] = pc[q] /\ job'[q] = job[q]
                                    /\ sending'[q] = sending[q],
         \/ ~Launching(p)'
         \/ pc'[p] = pc[p] /\ job'[p] = job[p] /\ sending'[p].at = "waiting"
  PROVE  FundInv'
<1> DEFINE s == job[p].sent
           call == CallOf(p, s)
<1>1. /\ Launching(p) /\ Given(p) = s /\ s \in Nat /\ s < 4 * Len(job[p].wallets)
      /\ job[p].wallets \in Seq(Wallets)
      /\ call \in Calls /\ Own(p).call = call
  BY NextCall, OwnIs, SizeFacts DEF Launching, Given, TotalCalls
<1>2. Untouched(call) /\ keystore[call.agent] = "whole"
  <2>1. (s \div 4) + 1 \in 1 .. Len(job[p].wallets)
        /\ call.agent = job[p].wallets[(s \div 4) + 1]
    BY <1>1, CallIs
  <2> QED BY <1>1, <2>1, LaunchingIs DEF FundInv, UnsentAreUntouched
<1> HIDE DEF call, s
<1>3. \A c : Untouched(c) /\ c # call => Untouched(c)'
  BY <1>1 DEF Untouched
<1>4. \A q \in Processes : Launching(q)' =>
        /\ Launching(q) /\ job'[q] = job[q] /\ \A n : CallOf(q, n)' = CallOf(q, n)
  BY DEF Launching, CallOf, AgentOf
<1>5. PoolsDisjoint'
  BY <1>4 DEF FundInv, PoolsDisjoint
<1>6. UnsentAreUntouched'
  <2>1. ASSUME NEW q \in Processes, Launching(q)', NEW n \in Nat,
               Given(q)' <= n, n < 4 * Len(job'[q].wallets)
        PROVE  Untouched(CallOf(q, n))'
    <3>1. Launching(q) /\ job'[q] = job[q] /\ CallOf(q, n)' = CallOf(q, n)
      BY <1>4, <2>1
    <3>2. Given(q) <= n /\ ~(q = p /\ n = s)
      <4>1. CASE q # p
        BY <2>1, <4>1 DEF Given
      <4>2. CASE q = p
        <5>1. Given(q)' = s + 1
          BY <2>1, <3>1, <4>2 DEF Given, Launching, s
        <5> QED BY <1>1, <2>1, <4>2, <5>1
      <4> QED BY <4>1, <4>2
    <3>3. Untouched(CallOf(q, n))
      BY <2>1, <3>1, <3>2 DEF FundInv, UnsentAreUntouched
    <3>4. CallOf(q, n) # call
      BY <1>1, <2>1, <3>1, <3>2, CallsDiffer DEF FundInv, call
    <3> QED BY <1>3, <3>1, <3>3, <3>4
  <2> QED BY <2>1 DEF UnsentAreUntouched
<1>7. UnbornAreUntouched'
  BY <1>2, <1>3 DEF FundInv, UnbornAreUntouched
<1>8. CallsAreUnique'
  BY <1>1, <1>2 DEF FundInv, CallsAreUnique, Untouched
<1>9. PaidAtMostOnce'
  <2>1. ASSUME NEW a \in Wallets, paid[a] = 1 PROVE Transfers(a)' = {}
    <3>1. Transfers(a) = {}
      BY <2>1 DEF FundInv, PaidAtMostOnce
    <3>2. Own(p).call # [step |-> "transfer", agent |-> a]
      BY <1>1, <1>2, <2>1 DEF Untouched
    <3> QED BY <3>1, <3>2 DEF Transfers
  <2> QED BY <2>1 DEF FundInv, PaidAtMostOnce
<1> QED BY <1>5, <1>6, <1>7, <1>8, <1>9 DEF FundInv

LEMMA MineKeepsFunds ==
  ASSUME TypeInv, FundInv, NEW t \in pool, Mine(t)
  PROVE  FundInv'
<1>1. /\ t \in Txs /\ t.call \in Calls /\ pool' = pool \ {t}
      /\ \A p \in Processes : /\ sending'[p].at = sending[p].at
                              /\ sending'[p].tx = sending[p].tx
  BY MineKeepsTypes
<1>2. /\ Executes(t.call.step, t.call.agent)
      /\ UNCHANGED <<keystore, pc, job>>
  BY DEF Mine, fileVars
<1>3. /\ t.call.step = "transfer" => paid' = [paid EXCEPT ![t.call.agent] = @ + 1]
      /\ t.call.step # "transfer" => paid' = paid
  BY <1>1, <1>2 DEF Executes, Calls, StepNames
<1>4. paid \in [Wallets -> Nat]
  BY DEF TypeInv, ChainTypeOK
<1>5. ASSUME NEW c \in Calls, Untouched(c) PROVE Untouched(c)'
  <2>1. t.call # c
    BY <1>5 DEF Untouched
  <2>2. c.step = "transfer" /\ t.call.step = "transfer" => c.agent # t.call.agent
    BY <1>1, <2>1 DEF Calls
  <2> QED BY <1>1, <1>3, <1>4, <1>5, <2>2 DEF Untouched, Calls
<1>6. PoolsDisjoint'
  BY <1>2 DEF FundInv, PoolsDisjoint, Launching
<1>7. UnsentAreUntouched'
  <2>1. ASSUME NEW p \in Processes, Launching(p)', NEW n \in Nat,
               Given(p)' <= n, n < 4 * Len(job'[p].wallets)
        PROVE  Untouched(CallOf(p, n))'
    <3>1. /\ Launching(p) /\ Given(p) <= n /\ n < 4 * Len(job[p].wallets)
          /\ CallOf(p, n)' = CallOf(p, n)
      BY <1>1, <1>2, <2>1 DEF Launching, Given, CallOf, AgentOf
    <3>2. CallOf(p, n) \in Calls
      BY <3>1, LaunchingIs, CallIs
    <3> QED BY <1>5, <3>1, <3>2 DEF FundInv, UnsentAreUntouched
  <2> QED BY <2>1 DEF UnsentAreUntouched
<1>8. UnbornAreUntouched' /\ CallsAreUnique'
  BY <1>1, <1>2, <1>5 DEF FundInv, UnbornAreUntouched, CallsAreUnique
<1>9. PaidAtMostOnce'
  <2>1. ASSUME NEW a \in Wallets
        PROVE  paid'[a] <= 1 /\ (paid'[a] = 1 => Transfers(a)' = {})
    <3>1. Transfers(a)' = Transfers(a) \ {t}
      BY <1>1 DEF Transfers
    <3>2. CASE t.call = [step |-> "transfer", agent |-> a]
      <4>1. Transfers(a) = {t}
        BY <3>2 DEF Transfers, FundInv, CallsAreUnique
      <4>2. paid[a] = 0
        BY <1>4, <4>1 DEF FundInv, PaidAtMostOnce
      <4> QED BY <1>3, <1>4, <3>1, <3>2, <4>1, <4>2
    <3>3. CASE t.call # [step |-> "transfer", agent |-> a]
      <4>1. paid'[a] = paid[a]
        BY <1>1, <1>3, <1>4, <3>3 DEF Calls
      <4> QED BY <3>1, <4>1 DEF FundInv, PaidAtMostOnce
    <3> QED BY <3>2, <3>3
  <2> QED BY <2>1 DEF PaidAtMostOnce
<1> QED BY <1>6, <1>7, <1>8, <1>9 DEF FundInv

\* A new key is nobody's, and no call for it is on the way.
LEMMA SpawnKeepsFunds ==
  ASSUME TypeInv, FundInv, NEW p \in Processes, Spawn(p)
  PROVE  FundInv'
<1> DEFINE ws == job[p].wallets
<1>1. /\ pc[p] = "spawn" /\ keystore' = [keystore EXCEPT ![NewKey] = "whole"]
      /\ NewKey \in Wallets /\ keystore[NewKey] = "none"
      /\ job' = [job EXCEPT ![p].wallets = Append(ws, NewKey)]
      /\ UNCHANGED <<nonce, pool, sending, paid>>
  BY NewKeyFacts DEF Spawn, sendVars, chainVars
<1>2. /\ ws \in Seq(Wallets) /\ Len(ws) \in Nat /\ job[p].sent = 0 /\ sending[p] = NoSend
      /\ Launching(p) /\ DOMAIN job[p] = JobFields
      /\ \A i \in 1 .. Len(ws) : ws[i] \in Wallets /\ keystore[ws[i]] = "whole"
  <2>1. JobTypeOK(p) /\ SendTypeOK(p)
    BY DEF TypeInv, LaunchersTypeOK
  <2>2. Launching(p)
    BY <1>1 DEF Launching
  <2> QED BY <1>1, <2>1, <2>2, LaunchingIs DEF JobTypeOK, SendTypeOK
<1>3. /\ job'[p].wallets = Append(ws, NewKey) /\ job'[p].sent = 0
      /\ Len(Append(ws, NewKey)) = Len(ws) + 1
      /\ Append(ws, NewKey) \in Seq(Wallets)
      /\ \A i \in 1 .. Len(ws) : Append(ws, NewKey)[i] = ws[i]
      /\ Append(ws, NewKey)[Len(ws) + 1] = NewKey
  BY <1>1, <1>2 DEF TypeInv, LaunchersTypeOK, JobFields
<1>4. \A q \in Processes \ {p} : pc'[q] = pc[q] /\ job'[q] = job[q]
  BY <1>1 DEF TypeInv, LaunchersTypeOK, Spawn, Goto
<1>5. \A q \in Processes : Launching(q)' => Launching(q)
  BY <1>2, <1>4 DEF Launching
<1>6. \A c : Untouched(c)' <=> Untouched(c)
  BY <1>1 DEF Untouched
\* Each place in a pool is an old one, or that of the new key.
<1>7. ASSUME NEW q \in Processes, Launching(q)', NEW i \in 1 .. Len(job'[q].wallets)
      PROVE  \/ /\ i \in 1 .. Len(job[q].wallets) /\ job'[q].wallets[i] = job[q].wallets[i]
                /\ job[q].wallets[i] # NewKey
             \/ q = p /\ i = Len(ws) + 1 /\ job'[q].wallets[i] = NewKey
  <2>1. CASE q = p
    BY <1>1, <1>2, <1>3, <2>1
  <2>2. CASE q # p
    BY <1>1, <1>4, <1>5, <1>7, <2>2, LaunchingIs
  <2> QED BY <2>1, <2>2
<1>8. PoolsDisjoint'
  <2>1. ASSUME NEW q \in Processes, NEW r \in Processes, Launching(q)', Launching(r)',
               NEW i \in 1 .. Len(job'[q].wallets), NEW k \in 1 .. Len(job'[r].wallets),
               job'[q].wallets[i] = job'[r].wallets[k]
        PROVE  q = r /\ i = k
    <3>1. CASE job'[q].wallets[i] = NewKey
      BY <1>7, <2>1, <3>1
    <3>2. CASE job'[q].wallets[i] # NewKey
      <4>1. /\ i \in 1 .. Len(job[q].wallets) /\ k \in 1 .. Len(job[r].wallets)
            /\ job[q].wallets[i] = job[r].wallets[k]
        BY <1>7, <2>1, <3>2
      <4> QED BY <1>5, <2>1, <4>1 DEF FundInv, PoolsDisjoint
    <3> QED BY <3>1, <3>2
  <2> QED BY <2>1 DEF PoolsDisjoint
<1>9. UnsentAreUntouched'
  <2>1. ASSUME NEW q \in Processes, Launching(q)', NEW n \in Nat,
               Given(q)' <= n, n < 4 * Len(job'[q].wallets)
        PROVE  Untouched(CallOf(q, n))'
    <3>1. CASE q # p
      <4>1. /\ Launching(q) /\ Given(q) <= n /\ n < 4 * Len(job[q].wallets)
            /\ CallOf(q, n)' = CallOf(q, n)
        BY <1>1, <1>4, <1>5, <2>1, <3>1 DEF Given, CallOf, AgentOf
      <4> QED BY <1>6, <4>1 DEF FundInv, UnsentAreUntouched
    <3>2. CASE q = p
      <4> DEFINE i == (n \div 4) + 1
      <4>1. n \div 4 \in Nat /\ n % 4 \in 0 .. 3 /\ n = 4 * (n \div 4) + (n % 4)
        BY CallNumbers
      <4>2. i \in 1 .. Len(ws) + 1
        <5>1. n < 4 * (Len(ws) + 1)
          BY <1>3, <2>1, <3>2
        <5>2. Len(ws) \in Nat
          BY <1>2
        <5> HIDE DEF ws
        <5> QED BY <4>1, <5>1, <5>2
      <4>3. CallOf(p, n)' = [step |-> Steps[(n % 4) + 1], agent |-> Append(ws, NewKey)[i]]
        BY <1>3, StepFacts DEF CallOf, AgentOf
      <4>4. CASE i \in 1 .. Len(ws)
        <5>1. CallOf(p, n)' = CallOf(p, n)
          BY <1>3, <4>3, <4>4, StepFacts DEF CallOf, AgentOf
        <5>2. Given(p) <= n
          BY <1>2 DEF Given, NoSend
        <5>3. n < 4 * Len(ws)
          BY <1>2, <4>1, <4>4
        <5>4. Untouched(CallOf(p, n))
          BY <1>2, <5>2, <5>3 DEF FundInv, UnsentAreUntouched
        <5> QED BY <1>6, <3>2, <5>1, <5>4
      <4>5. CASE i = Len(ws) + 1
        <5>1. CallOf(p, n)'.agent = NewKey /\ CallOf(p, n)' \in Calls
          <6>1. (n % 4) + 1 \in 1 .. 4
            BY <4>1
          <6>2. Steps[(n % 4) + 1] \in StepNames
            BY <6>1, StepFacts
          <6>3. Append(ws, NewKey)[i] = NewKey
            BY <1>3, <4>5
          <6> QED BY <1>1, <4>3, <6>2, <6>3 DEF Calls
        <5>2. Untouched(CallOf(p, n)')
          BY <1>1, <5>1 DEF FundInv, UnbornAreUntouched
        <5> QED BY <1>1, <3>2, <5>2 DEF Untouched
      <4> QED BY <1>2, <4>2, <4>4, <4>5
    <3> QED BY <3>1, <3>2
  <2> QED BY <2>1 DEF UnsentAreUntouched
<1>10. UnbornAreUntouched'
  <2>1. \A c \in Calls : keystore'[c.agent] # "whole" => keystore[c.agent] # "whole"
    BY <1>1 DEF TypeInv, ChainTypeOK, Calls
  <2> QED BY <1>6, <2>1 DEF FundInv, UnbornAreUntouched
<1>11. CallsAreUnique' /\ PaidAtMostOnce'
  BY <1>1 DEF FundInv, CallsAreUnique, PaidAtMostOnce, Transfers
<1> QED BY <1>8, <1>9, <1>10, <1>11 DEF FundInv

\* The steps in which a launcher does not speak to the node.
LEMMA QuietSteps ==
  ASSUME TypeInv, FundInv, TypeInv', NEW p \in Processes,
         \/ Start(p, "spawn") \/ Start(p, "load") \/ ReadIdentities(p)
         \/ OpenIdentities(p) \/ WriteIdentities(p) \/ SaveFails(p) \/ Load(p)
         \/ Exhausted(p) \/ GiveUp(p) \/ Play(p) \/ Crash(p) \/ Send(p) \/ Receipt(p)
  PROVE  FundInv'
<1>1. UNCHANGED <<pool, paid>> /\ KeysStay
  <2>1. CASE Crash(p)
    BY <2>1, NewKeyFacts DEF Crash, chainVars, KeysStay, TypeInv, ChainTypeOK
  <2>2. CASE ~Crash(p)
    BY <2>2 DEF Start, ReadIdentities, OpenIdentities, WriteIdentities, SaveFails, Load,
       Exhausted, GiveUp, Play, Send, Sign, Receipt, sendVars, chainVars, fileVars, KeysStay
  <2> QED BY <2>1, <2>2
<1>2. \A q \in Processes \ {p} : pc'[q] = pc[q] /\ job'[q] = job[q] /\ sending'[q] = sending[q]
  BY DEF Start, ReadIdentities, OpenIdentities, WriteIdentities, SaveFails, Load,
     Exhausted, GiveUp, Play, Send, Sign, Receipt, Confirmed, Crash, Goto, Stop, Dropped,
     sendVars, TypeInv, LaunchersTypeOK
<1>3. CASE Start(p, "spawn")
  <2>1. job'[p] = NoJob
    BY <1>3 DEF Start, TypeInv, LaunchersTypeOK, JobTypeOK
  <2>2. Len(job'[p].wallets) = 0
    BY <2>1, NoJobFacts
  <2> QED BY <1>1, <1>2, <2>2, QuietKeepsFunds
<1>4. CASE Send(p)
  <2>1. /\ Launching(p) /\ Launching(p)' /\ job'[p] = job[p] /\ sending[p].at = "idle"
        /\ sending'[p].at = "signed"
    BY <1>4, SendKeepsTypes DEF Send, Sign, Launching
  <2>2. Given(p)' = Given(p) /\ Given(p) \in Nat
    BY <2>1, LaunchingIs DEF Given
  <2> QED BY <1>1, <1>2, <2>1, <2>2, QuietKeepsFunds
<1>5. CASE Receipt(p) /\ Launching(p)'
  <2>1. Launching(p) /\ sending[p].at = "waiting" /\ Confirmed(p) /\ sending'[p].at = "idle"
    <3>1. sending[p].at = "waiting" /\ sending' = Dropped(p)
      BY <1>5 DEF Receipt, Receives
    <3>2. pc[p] = "provision"
      BY <3>1, OwnIs
    <3>3. ~Stop(p)
      BY <1>5 DEF Stop, Goto, Launching, TypeInv, LaunchersTypeOK
    <3> QED BY <1>5, <3>1, <3>2, <3>3
            DEF Receipt, Launching, Dropped, NoSend, TypeInv, LaunchersTypeOK
  <2>2. DOMAIN job[p] = JobFields
    BY DEF TypeInv, LaunchersTypeOK, JobTypeOK
  <2>3. job'[p].wallets = job[p].wallets /\ job'[p].sent = job[p].sent + 1
    <3> DEFINE ids == IF Own(p).call.step = "mint"
                      THEN Overlay([a \in {Own(p).call.agent} |-> MintedTo(a)], job[p].ids)
                      ELSE job[p].ids
    <3>1. job' = [job EXCEPT ![p].sent = job[p].sent + 1, ![p].ids = ids]
      BY <2>1 DEF Confirmed
    <3> HIDE DEF ids
    <3> QED BY <2>2, <3>1 DEF TypeInv, LaunchersTypeOK, JobFields
  <2>4. Given(p)' = Given(p) /\ Given(p) \in Nat
    BY <2>1, <2>3, LaunchingIs DEF Given
  <2> QED BY <1>1, <1>2, <1>5, <2>1, <2>3, <2>4, QuietKeepsFunds
<1>6. CASE ~Launching(p)'
  BY <1>1, <1>2, <1>6, QuietKeepsFunds
<1>7. ~Start(p, "spawn") /\ ~Send(p) /\ ~Receipt(p) => ~Launching(p)'
  BY DEF Start, ReadIdentities, OpenIdentities, WriteIdentities, SaveFails, Load,
     Exhausted, GiveUp, Play, Crash, Goto, Stop, Launching, TypeInv, LaunchersTypeOK
<1> QED BY <1>3, <1>4, <1>5, <1>6, <1>7

LEMMA FundStep == TypeInv /\ FundInv /\ TypeInv' /\ [Next]_vars => FundInv'
<1> SUFFICES ASSUME TypeInv, FundInv, TypeInv', [Next]_vars PROVE FundInv'
  OBVIOUS
<1>1. CASE UNCHANGED vars
  <2>1. UNCHANGED <<pool, sending, paid, keystore, pc, job>>
    BY <1>1 DEF vars, sendVars, chainVars, fileVars
  <2>2. PoolsDisjoint' /\ UnbornAreUntouched'
    BY <2>1 DEF FundInv, PoolsDisjoint, UnbornAreUntouched, Untouched, Launching
  <2>3. UnsentAreUntouched'
    BY <2>1 DEF FundInv, UnsentAreUntouched, Untouched, Launching, Given, CallOf, AgentOf
  <2>4. CallsAreUnique' /\ PaidAtMostOnce'
    BY <2>1 DEF FundInv, CallsAreUnique, PaidAtMostOnce, Transfers
  <2> QED BY <2>2, <2>3, <2>4 DEF FundInv
<1>2. ASSUME NEW p \in Processes, Submit(p) \/ SubmitFails(p) PROVE FundInv'
  <2>1. sending[p].at = "signed" /\ pc[p] = "provision" /\ UNCHANGED <<paid, keystore>>
    BY <1>2, OwnIs DEF Submit, Broadcast, SubmitFails, BroadcastRaises, chainVars, fileVars
  <2>2. pool' \subseteq pool \cup {Own(p)}
    BY <1>2 DEF Submit, Broadcast, SubmitFails, BroadcastRaises, Takes
  <2>3. \A q \in Processes \ {p} : /\ pc'[q] = pc[q] /\ job'[q] = job[q]
                                   /\ sending'[q] = sending[q]
    BY <1>2 DEF Submit, Broadcast, SubmitFails, Stop, Goto, Dropped, TypeInv, LaunchersTypeOK
  <2>4. \/ ~Launching(p)'
        \/ pc'[p] = pc[p] /\ job'[p] = job[p] /\ sending'[p].at = "waiting"
    BY <1>2, SubmitKeepsTypes
       DEF Submit, SubmitFails, Stop, Goto, Launching, TypeInv, LaunchersTypeOK
  <2> QED BY <2>1, <2>2, <2>3, <2>4, GivingKeepsFunds
<1>3. ASSUME NEW p \in Processes,
             Start(p, "spawn") \/ Start(p, "load") \/ Work(p) \/ Crash(p)
      PROVE  FundInv'
  BY <1>2, <1>3, SpawnKeepsFunds, QuietSteps DEF Work
<1>4. ASSUME NEW t \in pool, Mine(t) PROVE FundInv'
  BY <1>4, MineKeepsFunds
<1> QED BY <1>1, <1>3, <1>4 DEF Next

\* No coin goes to a key that is not safely on disk.  (spawn_keypairs)
THEOREM FundedKeysAreSafe == Spec => []FundedKeysAreOnDisk
<1>1. TypeInv /\ FundInv => FundedKeysAreOnDisk
  <2> SUFFICES ASSUME TypeInv, FundInv, NEW a \in Wallets, keystore[a] # "whole"
               PROVE  ~(paid[a] > 0) /\ Transfers(a) = {}
    BY DEF FundedKeysAreOnDisk
  <2> DEFINE c == [step |-> "transfer", agent |-> a]
  <2>1. c \in Calls
    BY DEF Calls, StepNames
  <2>2. Untouched(c)
    BY <2>1 DEF FundInv, UnbornAreUntouched
  <2> QED BY <2>2 DEF Untouched, Transfers
<1> QED BY <1>1, TypeInit, TypeStep, FundInit, FundStep, PTL DEF Spec

\* However many launchers share the operator's key, whatever times out and lands
\* late and whoever starts again.  (cast_send, wait_for_receipt, acquire_pool)
THEOREM AgentsArePaidOnce == Spec => []PaidOnce
<1>1. TypeInv /\ FundInv => PaidOnce
  <2> SUFFICES ASSUME TypeInv, FundInv, NEW a \in Wallets
               PROVE  paid[a] + Cardinality(Transfers(a)) <= 1
    BY DEF PaidOnce
  <2>1. paid[a] \in Nat /\ paid[a] <= 1 /\ (paid[a] = 1 => Transfers(a) = {})
    BY DEF TypeInv, ChainTypeOK, FundInv, PaidAtMostOnce
  <2>2. CASE Transfers(a) = {}
    BY <2>1, <2>2, FS_EmptySet
  <2>3. CASE Transfers(a) # {}
    <3>1. PICK t \in Transfers(a) : TRUE
      BY <2>3
    <3>2. Transfers(a) = {t}
      BY <3>1 DEF Transfers, FundInv, CallsAreUnique
    <3>3. Cardinality(Transfers(a)) = 1
      BY <3>2, FS_Singleton
    <3> QED BY <2>1, <2>3, <3>3
  <2> QED BY <2>2, <2>3
<1> QED BY <1>1, TypeInit, TypeStep, FundInit, FundStep, PTL DEF Spec

-----------------------------------------------------------------------------
(***************************************************************************)
(* What has happened stays, and a receipt is only of what has happened.    *)
(***************************************************************************)
Done(p, n) == CallOf(p, n) \in Calls /\ Effect(CallOf(p, n))
ProgressInv ==
  \A p \in Processes :
    /\ \A n \in 0 .. job[p].sent - 1 : Done(p, n)
    /\ sending[p].receipt = "ok" => Done(p, job[p].sent)

LEMMA ProgressInit == Init => ProgressInv
  BY DEF Init, SenderInit, NoJob, NoSend, ProgressInv

LEMMA SentIs ==
  ASSUME TypeInv, NEW p \in Processes
  PROVE  /\ job[p].sent \in Nat /\ DOMAIN job[p] = JobFields
         /\ pc[p] # "provision" => sending[p] = NoSend
         /\ pc[p] \in {"off", "load", "spawn"} => job[p].sent = 0
<1>1. JobTypeOK(p) /\ SendTypeOK(p) /\ pc[p] \in Labels
  BY DEF TypeInv, LaunchersTypeOK
<1> QED BY <1>1, NoJobFacts, SizeFacts
       DEF JobTypeOK, SendTypeOK, Labels, Fresh, Launching, Saving

\* A launcher forgets, goes on, or notes what it has a receipt for.
LEMMA OneKeepsProgress ==
  ASSUME TypeInv, ProgressInv, NEW p \in Processes,
         UNCHANGED <<paid, minted, allowance, veterans>>,
         \A q \in Processes \ {p} : job'[q] = job[q] /\ sending'[q] = sending[q],
         \/ job'[p].sent = 0 /\ sending'[p].receipt # "ok"
         \/ /\ job'[p].wallets = job[p].wallets /\ job'[p].sent = job[p].sent
            /\ sending'[p].receipt \in {"none", sending[p].receipt}
         \/ /\ job'[p].wallets = job[p].wallets /\ job'[p].sent = job[p].sent + 1
            /\ sending[p].receipt = "ok" /\ sending'[p].receipt = "none"
  PROVE  ProgressInv'
<1>1. \A q \in Processes : job'[q].wallets = job[q].wallets =>
        \A n : Done(q, n) => Done(q, n)'
  BY DEF Done, Effect, CallOf, AgentOf
<1>2. ASSUME NEW q \in Processes
      PROVE  /\ \A n \in 0 .. job'[q].sent - 1 : Done(q, n)'
             /\ sending'[q].receipt = "ok" => Done(q, job[q].sent)' /\ job'[q].sent = job[q].sent
  <2>1. job[q].sent \in Nat
    BY SentIs
  <2>2. CASE q # p
    BY <1>1, <2>2 DEF ProgressInv
  <2>3. CASE q = p
    BY <1>1, <2>1, <2>3 DEF ProgressInv
  <2> QED BY <2>2, <2>3
<1> QED BY <1>2 DEF ProgressInv

\* A block undoes nothing, and a receipt that says success is of the effect.
LEMMA MineKeepsProgress ==
  ASSUME TypeInv, TypeInv', FundInv', ProgressInv, NEW t \in pool, Mine(t)
  PROVE  ProgressInv'
<1> DEFINE a == t.call.agent
<1>1. /\ t \in Txs /\ t.call \in Calls /\ a \in Wallets /\ t.call.step \in StepNames
      /\ Executes(t.call.step, a) /\ UNCHANGED <<pc, job>>
      /\ sending' = [p \in Processes |->
           IF sending[p].tx = {t}
           THEN [sending[p] EXCEPT !.receipt = IF Reverts(t.call) THEN "reverted" ELSE "ok"]
           ELSE sending[p]]
  BY MineKeepsTypes DEF Mine, Mined, Calls
<1>2. /\ paid \in [Wallets -> Nat] /\ allowance \in [Wallets -> Int]
      /\ minted \in Seq(Wallets) /\ veterans \subseteq Wallets
      /\ paid' \in [Wallets -> Nat] /\ \A w \in Wallets : paid'[w] <= 1
  BY DEF TypeInv, ChainTypeOK, FundInv, PaidAtMostOnce
<1> HIDE DEF a
<1>3. /\ Range(minted) \subseteq Range(minted') /\ veterans \subseteq veterans'
      /\ t.call.step = "mint" => a \in Range(minted')
  <2>1. \A n \in 1 .. Len(minted) : Append(minted, a)[n] = minted[n]
    BY <1>1, <1>2
  <2>2. Append(minted, a)[Len(minted) + 1] = a /\ Len(Append(minted, a)) = Len(minted) + 1
        /\ DOMAIN minted = 1 .. Len(minted) /\ Len(minted) \in Nat
        /\ DOMAIN Append(minted, a) = 1 .. Len(minted) + 1
    BY <1>1, <1>2
  <2>3. Range(minted) \subseteq Range(Append(minted, a)) /\ a \in Range(Append(minted, a))
    BY <2>1, <2>2 DEF Range
  <2>4. minted' \in {minted, Append(minted, a)} /\ veterans \subseteq veterans'
        /\ (t.call.step = "mint" => minted' = Append(minted, a))
    BY <1>1 DEF Executes, StepNames
  <2> QED BY <2>3, <2>4
<1>4. \A w \in Wallets : /\ paid[w] = 1 => paid'[w] = 1
                         /\ t.call.step = "transfer" => paid'[a] = 1
  <2>1. t.call.step = "transfer" => paid' = [paid EXCEPT ![a] = @ + 1]
    BY <1>1 DEF Executes
  <2>2. t.call.step # "transfer" => paid' = paid
    BY <1>1 DEF Executes, StepNames
  <2>3. \A w \in Wallets : paid[w] \in Nat /\ paid'[w] \in Nat /\ paid'[w] <= 1
    BY <1>2
  <2>4. a \in Wallets
    BY <1>1
  <2>5. CASE t.call.step = "transfer"
    <3>2. paid'[a] = paid[a] + 1
      BY <1>2, <2>1, <2>4, <2>5
    <3>1. \A w \in Wallets : paid'[w] >= paid[w]
      <4>1. \A w \in Wallets \ {a} : paid'[w] = paid[w]
        BY <1>2, <2>1, <2>5
      <4> QED BY <2>3, <2>4, <3>2, <4>1
    <3> QED BY <2>3, <2>4, <3>1, <3>2
  <2>6. CASE t.call.step # "transfer"
    BY <2>2, <2>6
  <2> QED BY <2>5, <2>6
<1>5. \A w \in Wallets : /\ allowance[w] = Stake \/ w \in veterans
                            => allowance'[w] = Stake \/ w \in veterans'
                         /\ t.call.step = "approve" => allowance'[a] = Stake
  <2>1. t.call.step = "approve" => allowance' = [allowance EXCEPT ![a] = Stake]
    BY <1>1 DEF Executes
  <2>2. CASE t.call.step = "registerAgent" /\ MayRegister(a)
    <3>1. allowance' = [allowance EXCEPT ![a] = @ - requirement] /\ veterans' = veterans \cup {a}
      BY <1>1, <2>2 DEF Executes
    <3> QED BY <1>2, <2>2, <3>1
  <2>3. CASE t.call.step # "approve" /\ ~(t.call.step = "registerAgent" /\ MayRegister(a))
    <3>1. allowance' = allowance
      BY <1>1, <2>3 DEF Executes, StepNames
    <3> QED BY <1>3, <2>3, <3>1
  <2>4. CASE t.call.step = "approve"
    BY <1>1, <1>2, <1>3, <2>1, <2>4
  <2> QED BY <2>2, <2>3, <2>4
<1>6. ASSUME NEW c \in Calls, Effect(c) PROVE Effect(c)'
  <2>1. c.agent \in Wallets /\ c.step \in StepNames
    BY DEF Calls
  <2> QED BY <1>3, <1>4, <1>5, <1>6, <2>1 DEF Effect, StepNames
<1>7. ~Reverts(t.call) => Effect(t.call)'
  <2>1. t.call.step = "registerAgent" /\ MayRegister(a) => a \in veterans'
    BY <1>1 DEF Executes
  <2>2. t.call.step = "registerAgent" /\ ~Reverts(t.call) => MayRegister(a)
    BY DEF Reverts, a
  <2> QED BY <1>1, <1>3, <1>4, <1>5, <2>1, <2>2 DEF Effect, StepNames, a
<1>8. ASSUME NEW p \in Processes
      PROVE  /\ \A n \in 0 .. job'[p].sent - 1 : Done(p, n)'
             /\ sending'[p].receipt = "ok" => Done(p, job[p].sent)'
  <2>1. \A n : Done(p, n) => Done(p, n)'
    BY <1>1, <1>6 DEF Done, CallOf, AgentOf
  <2>2. CASE sending[p].tx = {t}
    <3>1. sending[p].at # "idle"
      <4>1. SendTypeOK(p)
        BY DEF TypeInv, LaunchersTypeOK
      <4>2. NoSend.tx = {}
        BY DEF NoSend
      <4> QED BY <2>2, <4>1, <4>2 DEF SendTypeOK
    <3>2. t = Own(p) /\ t.call = CallOf(p, job[p].sent)
      BY <2>2, <3>1, OwnIs
    <3>3. sending'[p].receipt = "ok" => ~Reverts(t.call)
      BY <1>1, <2>2 DEF TypeInv, LaunchersTypeOK
    <3>4. CallOf(p, job[p].sent)' = CallOf(p, job[p].sent)
      BY <1>1 DEF CallOf, AgentOf
    <3>5. sending'[p].receipt = "ok" => Done(p, job[p].sent)'
      <4> SUFFICES ASSUME sending'[p].receipt = "ok" PROVE Done(p, job[p].sent)'
        OBVIOUS
      <4>1. Effect(t.call)'
        BY <1>7, <3>3
      <4>2. t.call = CallOf(p, job[p].sent)'
        BY <3>2, <3>4
      <4> QED BY <1>1, <4>1, <4>2 DEF Done, Effect
    <3> QED BY <1>1, <2>1, <3>5 DEF ProgressInv
  <2>3. CASE sending[p].tx # {t}
    BY <1>1, <2>1, <2>3 DEF ProgressInv
  <2> QED BY <2>2, <2>3
<1> QED BY <1>1, <1>8 DEF ProgressInv

\* How far a receipt takes a launcher.
LEMMA ConfirmedIs ==
  ASSUME TypeInv, NEW p \in Processes, Confirmed(p)
  PROVE  /\ DOMAIN job'[p] = JobFields
         /\ job'[p].wallets = job[p].wallets /\ job'[p].sent = job[p].sent + 1
         /\ job'[p].map = job[p].map
         /\ job'[p].ids = IF Own(p).call.step = "mint"
                          THEN Overlay([a \in {Own(p).call.agent} |-> MintedTo(a)], job[p].ids)
                          ELSE job[p].ids
<1> DEFINE ids == IF Own(p).call.step = "mint"
                  THEN Overlay([a \in {Own(p).call.agent} |-> MintedTo(a)], job[p].ids)
                  ELSE job[p].ids
<1>1. job' = [job EXCEPT ![p].sent = job[p].sent + 1, ![p].ids = ids]
  BY DEF Confirmed
<1>2. DOMAIN job[p] = JobFields
  BY SentIs
<1> HIDE DEF ids
<1>3. job'[p].ids = ids /\ job'[p].wallets = job[p].wallets /\ job'[p].sent = job[p].sent + 1
      /\ job'[p].map = job[p].map /\ DOMAIN job'[p] = JobFields
  BY <1>1, <1>2 DEF TypeInv, LaunchersTypeOK, JobFields
<1> QED BY <1>3 DEF ids

\* A launcher that ends starts afresh.
LEMMA StoppedIs ==
  ASSUME TypeInv, NEW p \in Processes,
         \/ Exhausted(p) \/ SubmitFails(p) \/ GiveUp(p) \/ Play(p) \/ Crash(p)
         \/ (Receipt(p) \/ Load(p)) /\ Stop(p)
  PROVE  pc'[p] = "off" /\ job'[p] = NoJob /\ sending'[p] = NoSend
<1>1. Stop(p)
  BY DEF Exhausted, SubmitFails, GiveUp, Play, Crash
<1>2. pc'[p] = "off" /\ job'[p] = NoJob
  BY <1>1 DEF Stop, Goto, TypeInv, LaunchersTypeOK
<1>3. sending' = Dropped(p) => sending'[p] = NoSend
  BY DEF Dropped, TypeInv, LaunchersTypeOK
<1>4. pc[p] # "provision" => sending[p] = NoSend
  BY SentIs
<1>5. sending' = Dropped(p) \/ (pc[p] # "provision" /\ sending' = sending)
  BY DEF Exhausted, SubmitFails, GiveUp, Play, Crash, Receipt, Load, sendVars
<1> QED BY <1>2, <1>3, <1>4, <1>5

\* Who is not named by a step of a launcher does not move.
LEMMA OthersStay ==
  ASSUME TypeInv, NEW p \in Processes,
         Start(p, "spawn") \/ Start(p, "load") \/ Work(p) \/ Crash(p)
  PROVE  \A q \in Processes \ {p} : /\ pc'[q] = pc[q] /\ job'[q] = job[q]
                                    /\ sending'[q] = sending[q]
<1> USE DEF TypeInv, LaunchersTypeOK, Goto, Stop, Dropped, sendVars
<1>1. CASE Start(p, "spawn") \/ Start(p, "load") \/ Crash(p)
  BY <1>1 DEF Start, Crash
<1>2. CASE Spawn(p) \/ Exhausted(p) \/ ReadIdentities(p) \/ OpenIdentities(p)
           \/ WriteIdentities(p) \/ SaveFails(p) \/ Load(p)
  BY <1>2 DEF Spawn, Exhausted, ReadIdentities, OpenIdentities, WriteIdentities, SaveFails, Load
<1>3. CASE Send(p) \/ Submit(p) \/ SubmitFails(p) \/ Receipt(p) \/ GiveUp(p) \/ Play(p)
  BY <1>3 DEF Send, Sign, Submit, Broadcast, SubmitFails, Receipt, Confirmed, GiveUp, Play
<1> QED BY <1>1, <1>2, <1>3 DEF Work

LEMMA ProgressStep ==
  TypeInv /\ TypeInv' /\ FundInv' /\ ProgressInv /\ [Next]_vars => ProgressInv'
<1> SUFFICES ASSUME TypeInv, TypeInv', FundInv', ProgressInv, [Next]_vars PROVE ProgressInv'
  OBVIOUS
<1>1. CASE UNCHANGED vars
  BY <1>1 DEF ProgressInv, Done, Effect, CallOf, AgentOf, vars, sendVars, chainVars
<1>2. ASSUME NEW p \in Processes,
             Start(p, "spawn") \/ Start(p, "load") \/ Work(p) \/ Crash(p)
      PROVE  ProgressInv'
  <2>1. UNCHANGED <<paid, minted, allowance, veterans>>
    BY <1>2 DEF Work, Start, Crash, Spawn, Exhausted, ReadIdentities, OpenIdentities,
       WriteIdentities, SaveFails, Load, Send, Submit, SubmitFails, Receipt, GiveUp, Play, chainVars
  <2>2. \A q \in Processes \ {p} : job'[q] = job[q] /\ sending'[q] = sending[q]
    BY <1>2, OthersStay
  <2>3. NoJob.sent = 0 /\ NoSend.receipt = "none"
    BY NoJobFacts DEF NoSend
  <2>4. /\ job[p].sent \in Nat /\ DOMAIN job[p] = JobFields
        /\ pc[p] # "provision" => sending[p] = NoSend
        /\ pc[p] \in {"off", "load", "spawn"} => job[p].sent = 0
        /\ job \in [Processes -> Range(job)] /\ sending \in Sendings
    BY SentIs DEF TypeInv, LaunchersTypeOK, Sendings
  <2>5. CASE \/ Exhausted(p) \/ SubmitFails(p) \/ GiveUp(p) \/ Play(p) \/ Crash(p)
             \/ (Receipt(p) \/ Load(p)) /\ Stop(p)
    <3>1. job'[p] = NoJob /\ sending'[p] = NoSend
      BY <2>5, StoppedIs
    <3> QED BY <2>1, <2>2, <2>3, <3>1, OneKeepsProgress
  <2>6. CASE \/ Start(p, "spawn") \/ Start(p, "load") \/ OpenIdentities(p)
             \/ WriteIdentities(p) \/ SaveFails(p)
    <3>1. UNCHANGED <<job, sending>>
      BY <2>6 DEF Start, OpenIdentities, WriteIdentities, SaveFails, sendVars
    <3> QED BY <2>1, <2>2, <3>1, OneKeepsProgress
  <2>7. CASE Spawn(p)
    <3>1. pc[p] = "spawn" /\ sending' = sending /\ job'[p].sent = job[p].sent
      BY <2>4, <2>7 DEF Spawn, sendVars, JobFields
    <3> QED BY <2>1, <2>2, <2>3, <2>4, <3>1, OneKeepsProgress
  <2>8. CASE ReadIdentities(p)
    <3>1. sending' = sending /\ job'[p].sent = job[p].sent /\ job'[p].wallets = job[p].wallets
      BY <2>4, <2>8 DEF ReadIdentities, sendVars, JobFields
    <3> QED BY <2>1, <2>2, <3>1, OneKeepsProgress
  <2>9. CASE Load(p) /\ ~Stop(p)
    <3>1. /\ pc[p] = "load" /\ sending' = sending
          /\ job' = [job EXCEPT ![p].wallets = Pool,
                      ![p].ids = Restrict(identities, Range(Pool) \cap DOMAIN identities)]
      BY <2>9 DEF Load, sendVars
    <3>2. job'[p].sent = job[p].sent
      BY <2>4, <3>1 DEF JobFields
    <3> QED BY <2>1, <2>2, <2>3, <2>4, <3>1, <3>2, OneKeepsProgress
  <2>10. CASE Send(p) \/ Submit(p)
    <3>1. job' = job /\ sending'[p].receipt \in {"none", sending[p].receipt}
      BY <2>4, <2>10 DEF Send, Sign, Submit, Broadcast, Sendings
    <3> QED BY <2>1, <2>2, <3>1, OneKeepsProgress
  <2>11. CASE Receipt(p) /\ Confirmed(p)
    <3>1. /\ job'[p].wallets = job[p].wallets /\ job'[p].sent = job[p].sent + 1
          /\ sending' = Dropped(p)
      BY <2>11, ConfirmedIs DEF Receipt
    <3>2. ~Stop(p)
      BY <2>3, <2>4, <3>1 DEF Stop
    <3>3. sending[p].receipt = "ok" /\ sending'[p].receipt = "none"
      BY <2>3, <2>4, <2>11, <3>1, <3>2 DEF Receipt, Answer, Dropped, Sendings
    <3> QED BY <2>1, <2>2, <3>1, <3>3, OneKeepsProgress
  <2> QED BY <1>2, <2>5, <2>6, <2>7, <2>8, <2>9, <2>10, <2>11 DEF Work, Receipt
<1>3. ASSUME NEW t \in pool, Mine(t) PROVE ProgressInv'
  BY <1>3, MineKeepsProgress
<1> QED BY <1>1, <1>2, <1>3 DEF Next

\* A launcher that goes on has seen its own transactions take effect.
\* (cast_send, wait_for_receipt)
THEOREM ProgressIsReal == Spec => []ProgressIsOnChain
<1>1. ProgressInv => ProgressIsOnChain
  BY DEF ProgressInv, ProgressIsOnChain, Done
<1> QED BY <1>1, TypeInit, TypeStep, FundInit, FundStep, ProgressInit, ProgressStep, PTL DEF Spec

-----------------------------------------------------------------------------
(***************************************************************************)
(* What is written down is so: identities.json, and what a launcher holds. *)
(***************************************************************************)
IdsAreTrue(ids) == \A a \in DOMAIN ids : ids[a] \in DOMAIN minted /\ minted[ids[a]] = a

JobIsTrue(p) ==
  /\ IdsAreTrue(job[p].ids)
  /\ IdsAreTrue(job[p].map) /\ DOMAIN job[p].map \subseteq veterans
  /\ \A n \in 0 .. job[p].sent - 1 :
       CallOf(p, n).step = "mint" => CallOf(p, n).agent \in DOMAIN job[p].ids
  /\ pc[p] = "ready" =>
       \A a \in Range(job[p].wallets) :
         keystore[a] = "whole" /\ a \in DOMAIN job[p].ids /\ a \in veterans

FilesInv ==
  /\ identities # Torn => IdsAreTrue(identities) /\ DOMAIN identities \subseteq veterans
  /\ \A p \in Processes : JobIsTrue(p)

LEMMA NoJobIsTrue ==
  /\ IdsAreTrue(NoJob.ids) /\ IdsAreTrue(NoJob.map) /\ DOMAIN NoJob.map \subseteq veterans
  /\ IdsAreTrue(<< >>)
  BY NoJobFacts DEF IdsAreTrue

LEMMA FilesInit == Init => FilesInv
<1> SUFFICES ASSUME Init PROVE FilesInv
  OBVIOUS
<1>1. identities = << >> /\ DOMAIN identities = {}
  BY DEF Init
<1>2. ASSUME NEW p \in Processes PROVE JobIsTrue(p)
  BY NoJobIsTrue, NoJobFacts DEF Init, JobIsTrue
<1> QED BY <1>1, <1>2 DEF FilesInv, IdsAreTrue

\* Nothing that was minted, registered or written down whole is taken back.
LEMMA NothingIsTakenBack ==
  ASSUME TypeInv, [Next]_vars
  PROVE  /\ KeysStay /\ veterans \subseteq veterans'
         /\ DOMAIN minted \subseteq DOMAIN minted'
         /\ \A id \in DOMAIN minted : minted'[id] = minted[id]
<1>1. CASE UNCHANGED vars
  BY <1>1 DEF vars, chainVars, fileVars, KeysStay
<1>2. ASSUME NEW p \in Processes,
             Start(p, "spawn") \/ Start(p, "load") \/ Work(p) \/ Crash(p)
      PROVE  UNCHANGED <<minted, veterans>> /\ KeysStay
  <2>1. CASE Crash(p)
    BY <2>1, NewKeyFacts DEF Crash, chainVars, KeysStay, TypeInv, ChainTypeOK
  <2>2. CASE Spawn(p)
    BY <2>2, NewKeyFacts DEF Spawn, chainVars, KeysStay, TypeInv, ChainTypeOK
  <2>3. CASE ~Crash(p) /\ ~Spawn(p)
    BY <1>2, <2>3 DEF Work, Start, Exhausted, ReadIdentities, OpenIdentities, WriteIdentities,
       SaveFails, Load, Send, Submit, SubmitFails, Receipt, GiveUp, Play, chainVars, fileVars,
       KeysStay
  <2> QED BY <2>1, <2>2, <2>3
<1>3. ASSUME NEW t \in pool, Mine(t)
      PROVE  /\ KeysStay /\ veterans \subseteq veterans'
             /\ DOMAIN minted \subseteq DOMAIN minted'
             /\ \A id \in DOMAIN minted : minted'[id] = minted[id]
  <2> DEFINE a == t.call.agent
  <2>1. /\ t.call.step \in StepNames /\ a \in Wallets /\ Executes(t.call.step, a)
        /\ minted \in Seq(Wallets) /\ UNCHANGED keystore
    BY <1>3, MineKeepsTypes DEF Mine, Calls, fileVars, TypeInv, ChainTypeOK
  <2> HIDE DEF a
  <2>2. minted' \in {minted, Append(minted, a)} /\ veterans \subseteq veterans'
    BY <2>1 DEF Executes, StepNames
  <2>3. /\ DOMAIN minted = 1 .. Len(minted) /\ Len(minted) \in Nat
        /\ DOMAIN Append(minted, a) = 1 .. Len(minted) + 1
        /\ \A n \in 1 .. Len(minted) : Append(minted, a)[n] = minted[n]
    BY <2>1
  <2> QED BY <2>1, <2>2, <2>3 DEF KeysStay
<1> QED BY <1>1, <1>2, <1>3 DEF Next

\* The agents of a pool that is through have their identities and are registered.
LEMMA CompletePool ==
  ASSUME TypeInv, ProgressInv, NEW p \in Processes, JobIsTrue(p), Saving(p),
         NEW a \in Range(job[p].wallets)
  PROVE  a \in veterans /\ a \in DOMAIN job[p].ids /\ keystore[a] = "whole"
<1>1. /\ job[p].wallets \in Seq(Wallets) /\ Len(job[p].wallets) = PoolSize
      /\ job[p].sent = TotalCalls
      /\ \A i \in 1 .. Len(job[p].wallets) : keystore[job[p].wallets[i]] = "whole"
  BY DEF TypeInv, LaunchersTypeOK, JobTypeOK, Fresh
<1>2. PICK i \in 1 .. PoolSize : job[p].wallets[i] = a
  BY <1>1, SizeFacts DEF Range
<1> DEFINE n == 4 * (i - 1)
<1>3. /\ i \in Nat /\ n + 1 \in Nat /\ n + 3 \in Nat
      /\ n + 1 \in 0 .. TotalCalls - 1 /\ n + 3 \in 0 .. TotalCalls - 1
      /\ n + 3 < 4 * PoolSize /\ n + 1 < 4 * PoolSize
      /\ (n + 1) \div 4 = i - 1 /\ (n + 1) % 4 = 1
      /\ (n + 3) \div 4 = i - 1 /\ (n + 3) % 4 = 3
  BY SizeFacts DEF TotalCalls
<1> HIDE DEF n
<1>4. CallOf(p, n + 1).step = Steps[1 + 1] /\ CallOf(p, n + 1).agent = a
  BY <1>1, <1>2, <1>3, CallIs
<1>5. CallOf(p, n + 3).step = Steps[3 + 1] /\ CallOf(p, n + 3).agent = a
  BY <1>1, <1>2, <1>3, CallIs
<1>6. a \in veterans
  <2>1. Done(p, n + 3)
    BY <1>1, <1>3 DEF ProgressInv
  <2>2. CallOf(p, n + 3).step = "registerAgent"
    BY <1>5 DEF Steps
  <2> QED BY <1>5, <2>1, <2>2 DEF Done, Effect
<1>7. a \in DOMAIN job[p].ids
  <2>1. CallOf(p, n + 1).step = "mint"
    BY <1>4 DEF Steps
  <2> QED BY <1>1, <1>3, <1>4, <2>1 DEF JobIsTrue
<1> QED BY <1>1, <1>2, <1>6, <1>7

\* A launcher that is not touched, or forgets, or only changes its place.
LEMMA JobStaysTrue ==
  ASSUME TypeInv, [Next]_vars, NEW q \in Processes, JobIsTrue(q),
         job'[q] = job[q], pc'[q] = "ready" => pc[q] = "ready"
  PROVE  JobIsTrue(q)'
<1>1. /\ KeysStay /\ veterans \subseteq veterans' /\ DOMAIN minted \subseteq DOMAIN minted'
      /\ \A id \in DOMAIN minted : minted'[id] = minted[id]
  BY NothingIsTakenBack
<1>2. IdsAreTrue(job[q].ids)' /\ IdsAreTrue(job[q].map)'
  BY <1>1 DEF JobIsTrue, IdsAreTrue
<1>3. \A n : CallOf(q, n)' = CallOf(q, n)
  BY DEF CallOf, AgentOf
<1>4. veterans \subseteq Wallets
  BY DEF TypeInv, ChainTypeOK
<1> QED BY <1>1, <1>2, <1>3, <1>4 DEF JobIsTrue, KeysStay

\* A mint that went through is what its receipt says.
LEMMA ReceiptKeepsTruth ==
  ASSUME TypeInv, ProgressInv, FilesInv, NEW p \in Processes, Receipt(p), Confirmed(p)
  PROVE  JobIsTrue(p)'
<1> DEFINE call == Own(p).call
           s == job[p].sent
           new == [a \in {call.agent} |-> MintedTo(a)]
<1>1. /\ sending[p].at = "waiting" /\ UNCHANGED <<minted, veterans>>
      /\ pc' = [pc EXCEPT ![p] = IF s + 1 = PoolSize * Len(Steps) THEN "save" ELSE "provision"]
  BY DEF Receipt, Receives, Confirmed, Goto, chainVars
<1>2. s \in Nat /\ call = CallOf(p, s) /\ JobIsTrue(p)
  BY <1>1, SentIs, OwnIs DEF FilesInv
<1>3. /\ job'[p].wallets = job[p].wallets /\ job'[p].sent = s + 1 /\ job'[p].map = job[p].map
      /\ job'[p].ids = IF call.step = "mint" THEN Overlay(new, job[p].ids) ELSE job[p].ids
  BY ConfirmedIs
<1>4. sending[p].receipt = "ok"
  <2>1. ~Stop(p)
    BY <1>2, <1>3, NoJobFacts DEF Stop, TypeInv, LaunchersTypeOK
  <2> QED BY <2>1 DEF Receipt, Answer
<1>5. Done(p, s)
  BY <1>4 DEF ProgressInv
<1> HIDE DEF call, s
<1>6. call.step = "mint" => MintedTo(call.agent) \in DOMAIN minted
                            /\ minted[MintedTo(call.agent)] = call.agent
  <2> SUFFICES ASSUME call.step = "mint"
               PROVE  \E id \in DOMAIN minted : minted[id] = call.agent
    BY DEF MintedTo
  <2> QED BY <1>2, <1>5 DEF Done, Effect, Range
<1>7. IdsAreTrue(job[p].ids)'
  <2>1. CASE call.step = "mint"
    <3>1. job'[p].ids = Overlay(new, job[p].ids)
      BY <1>3, <2>1
    <3>2. \A a \in DOMAIN Overlay(new, job[p].ids) :
            /\ Overlay(new, job[p].ids)[a] \in DOMAIN minted
            /\ minted[Overlay(new, job[p].ids)[a]] = a
      BY <1>2, <1>6, <2>1 DEF Overlay, JobIsTrue, IdsAreTrue
    <3> QED BY <1>1, <3>1, <3>2 DEF IdsAreTrue
  <2>2. CASE call.step # "mint"
    BY <1>1, <1>2, <1>3, <2>2 DEF JobIsTrue, IdsAreTrue
  <2> QED BY <2>1, <2>2
<1>8. DOMAIN job[p].ids \subseteq DOMAIN job'[p].ids
      /\ (call.step = "mint" => call.agent \in DOMAIN job'[p].ids)
  BY <1>3 DEF Overlay
<1>9. ASSUME NEW n \in 0 .. job'[p].sent - 1, CallOf(p, n)'.step = "mint"
      PROVE  CallOf(p, n)'.agent \in DOMAIN job'[p].ids
  <2>1. CallOf(p, n)' = CallOf(p, n)
    BY <1>3 DEF CallOf, AgentOf
  <2>2. CASE n = s
    BY <1>2, <1>8, <1>9, <2>1, <2>2
  <2>3. CASE n \in 0 .. s - 1
    BY <1>2, <1>8, <1>9, <2>1, <2>3 DEF JobIsTrue, s
  <2> QED BY <1>2, <1>3, <2>2, <2>3
<1>10. IdsAreTrue(job[p].map)' /\ DOMAIN job'[p].map \subseteq veterans'
  BY <1>1, <1>2, <1>3 DEF JobIsTrue, IdsAreTrue
<1>11. pc'[p] # "ready"
  BY <1>1 DEF TypeInv, LaunchersTypeOK
<1> QED BY <1>7, <1>9, <1>10, <1>11 DEF JobIsTrue

\* What save_identities is about to write.
LEMMA ReadKeepsTruth ==
  ASSUME TypeInv, ProgressInv, FilesInv, NEW p \in Processes, ReadIdentities(p)
  PROVE  JobIsTrue(p)'
<1> DEFINE old == IF identities = Torn THEN << >> ELSE identities
<1>1. /\ pc[p] = "save" /\ job' = [job EXCEPT ![p].map = Overlay(job[p].ids, old)]
      /\ pc' = [pc EXCEPT ![p] = "open"] /\ UNCHANGED <<minted, veterans, keystore>>
  BY DEF ReadIdentities, Goto, chainVars, fileVars
<1>2. JobIsTrue(p) /\ DOMAIN job[p] = JobFields /\ JobTypeOK(p) /\ Saving(p)
  BY <1>1, SentIs DEF FilesInv, TypeInv, LaunchersTypeOK, Saving
<1>3. IdsAreTrue(old) /\ DOMAIN old \subseteq veterans
  BY NoJobIsTrue DEF FilesInv
<1>4. DOMAIN job[p].ids \subseteq veterans
  <2>1. DOMAIN job[p].ids \subseteq Range(job[p].wallets)
    BY <1>2 DEF JobTypeOK, Fresh
  <2> QED BY <1>2, <2>1, CompletePool
<1> HIDE DEF old
<1>5. /\ job'[p].wallets = job[p].wallets /\ job'[p].sent = job[p].sent
      /\ job'[p].ids = job[p].ids /\ job'[p].map = Overlay(job[p].ids, old)
  BY <1>1, <1>2 DEF TypeInv, LaunchersTypeOK, JobFields
<1>6. /\ \A a \in DOMAIN Overlay(job[p].ids, old) :
           /\ Overlay(job[p].ids, old)[a] \in DOMAIN minted
           /\ minted[Overlay(job[p].ids, old)[a]] = a
      /\ DOMAIN Overlay(job[p].ids, old) \subseteq veterans
  BY <1>2, <1>3, <1>4 DEF Overlay, JobIsTrue, IdsAreTrue
<1>7. IdsAreTrue(job[p].map)' /\ DOMAIN job'[p].map \subseteq veterans'
  BY <1>1, <1>5, <1>6 DEF IdsAreTrue
<1>8. IdsAreTrue(job[p].ids)'
  BY <1>1, <1>2, <1>5 DEF JobIsTrue, IdsAreTrue
<1>9. pc'[p] # "ready"
  BY <1>1 DEF TypeInv, LaunchersTypeOK
<1>10. \A n \in 0 .. job'[p].sent - 1 :
         CallOf(p, n)'.step = "mint" => CallOf(p, n)'.agent \in DOMAIN job'[p].ids
  <2>1. \A n : CallOf(p, n)' = CallOf(p, n)
    BY <1>5 DEF CallOf, AgentOf
  <2> QED BY <1>2, <1>5, <2>1 DEF JobIsTrue
<1> QED BY <1>7, <1>8, <1>9, <1>10 DEF JobIsTrue

\* A pool that is accepted for reuse is as the file says.
LEMMA LoadKeepsTruth ==
  ASSUME TypeInv, FilesInv, NEW p \in Processes, Load(p), Reusable
  PROVE  JobIsTrue(p)'
<1> DEFINE ids == Restrict(identities, Range(Pool) \cap DOMAIN identities)
<1>1. /\ pc[p] = "load" /\ job' = [job EXCEPT ![p].wallets = Pool, ![p].ids = ids]
      /\ UNCHANGED <<minted, veterans, keystore>>
  BY DEF Load, chainVars
<1>2. job[p] = NoJob /\ DOMAIN job[p] = JobFields
  BY <1>1, SentIs DEF TypeInv, LaunchersTypeOK, JobTypeOK
<1>3. /\ \A a \in Range(Pool) : keystore[a] = "whole" /\ identities # Torn /\ a \in DOMAIN identities
  BY DEF Reusable, Known
<1>4. /\ DOMAIN ids = Range(Pool) \cap DOMAIN identities
      /\ \A a \in DOMAIN ids : ids[a] = identities[a]
  BY DEF Restrict
<1>5. \A a \in DOMAIN ids : ids[a] \in DOMAIN minted /\ minted[ids[a]] = a /\ a \in veterans
  BY <1>3, <1>4 DEF FilesInv, IdsAreTrue
<1> HIDE DEF ids
<1>6. /\ job'[p].wallets = Pool /\ job'[p].ids = ids
      /\ job'[p].sent = 0 /\ job'[p].map = NoJob.map
  <2> HIDE DEF Pool
  <2> QED BY <1>1, <1>2, NoJobFacts DEF TypeInv, LaunchersTypeOK, JobFields
<1>7. IdsAreTrue(job[p].ids)'
  BY <1>1, <1>5, <1>6 DEF IdsAreTrue
<1>8. IdsAreTrue(job[p].map)' /\ DOMAIN job'[p].map \subseteq veterans'
  BY <1>6, NoJobFacts DEF IdsAreTrue
<1>9. \A a \in Range(job'[p].wallets) :
        keystore'[a] = "whole" /\ a \in DOMAIN job'[p].ids /\ a \in veterans'
  BY <1>1, <1>3, <1>4, <1>5, <1>6
<1>10. \A n \in 0 .. job'[p].sent - 1 : FALSE
  BY <1>6
<1> QED BY <1>7, <1>8, <1>9, <1>10 DEF JobIsTrue

\* The pool of a launcher that has saved, or given up saving, is complete.
LEMMA ReadyKeepsTruth ==
  ASSUME TypeInv, ProgressInv, FilesInv, NEW p \in Processes, Saving(p),
         UNCHANGED <<job, minted, veterans, keystore>>
  PROVE  JobIsTrue(p)'
<1>1. JobIsTrue(p)
  BY DEF FilesInv
<1>2. \A a \in Range(job[p].wallets) : a \in veterans /\ a \in DOMAIN job[p].ids /\ keystore[a] = "whole"
  BY <1>1, CompletePool
<1>3. \A n : CallOf(p, n)' = CallOf(p, n)
  BY DEF CallOf, AgentOf
<1> QED BY <1>1, <1>2, <1>3 DEF JobIsTrue, IdsAreTrue

LEMMA FilesStep == TypeInv /\ ProgressInv /\ FilesInv /\ [Next]_vars => FilesInv'
<1> SUFFICES ASSUME TypeInv, ProgressInv, FilesInv, [Next]_vars PROVE FilesInv'
  OBVIOUS
<1>1. /\ KeysStay /\ veterans \subseteq veterans' /\ DOMAIN minted \subseteq DOMAIN minted'
      /\ \A id \in DOMAIN minted : minted'[id] = minted[id]
  BY NothingIsTakenBack
<1>2. \A p \in Processes : JobIsTrue(p)
  BY DEF FilesInv
\* The file is as before, torn, or what a launcher held.
<1>3. ASSUME \/ identities' = identities \/ identities' = Torn
             \/ \E p \in Processes : identities' = job[p].map
      PROVE  identities' # Torn =>
               IdsAreTrue(identities)' /\ DOMAIN identities' \subseteq veterans'
  <2>1. CASE identities' = identities
    BY <1>1, <2>1 DEF FilesInv, IdsAreTrue
  <2>2. ASSUME NEW p \in Processes, identities' = job[p].map
        PROVE  IdsAreTrue(identities)' /\ DOMAIN identities' \subseteq veterans'
    BY <1>1, <1>2, <2>2 DEF JobIsTrue, IdsAreTrue
  <2> QED BY <1>3, <2>1, <2>2
<1>4. CASE UNCHANGED vars
  <2>1. UNCHANGED <<job, pc, identities>>
    BY <1>4 DEF vars, fileVars
  <2>2. \A p \in Processes : JobIsTrue(p)'
    BY <1>2, <2>1, JobStaysTrue
  <2> QED BY <1>3, <2>1, <2>2 DEF FilesInv
<1>5. ASSUME NEW t \in pool, Mine(t) PROVE FilesInv'
  <2>1. UNCHANGED <<job, pc, identities>>
    BY <1>5 DEF Mine, fileVars
  <2>2. \A p \in Processes : JobIsTrue(p)'
    BY <1>2, <2>1, JobStaysTrue
  <2> QED BY <1>3, <2>1, <2>2 DEF FilesInv
<1>6. ASSUME NEW p \in Processes,
             Start(p, "spawn") \/ Start(p, "load") \/ Work(p) \/ Crash(p)
      PROVE  FilesInv'
  <2>1. \/ identities' = identities \/ identities' = Torn \/ identities' = job[p].map
    BY <1>6 DEF Work, Start, Crash, Spawn, Exhausted, ReadIdentities, OpenIdentities,
       WriteIdentities, SaveFails, Load, Send, Submit, SubmitFails, Receipt, GiveUp, Play, fileVars
  <2>2. \A q \in Processes \ {p} : JobIsTrue(q)'
    BY <1>2, <1>6, OthersStay, JobStaysTrue
  <2>3. JobIsTrue(p) /\ pc \in [Processes -> Labels] /\ job \in [Processes -> Range(job)]
    BY <1>2 DEF TypeInv, LaunchersTypeOK
  <2>8. JobIsTrue(p)'
    <3>4. CASE \/ Exhausted(p) \/ SubmitFails(p) \/ GiveUp(p) \/ Play(p) \/ Crash(p)
               \/ (Receipt(p) \/ Load(p)) /\ Stop(p)
      <4>1. job'[p] = NoJob /\ pc'[p] = "off"
        BY <3>4, StoppedIs
      <4>2. DOMAIN NoJob.map = {} /\ DOMAIN NoJob.ids = {} /\ NoJob.sent = 0
        BY NoJobFacts
      <4> QED BY <4>1, <4>2 DEF JobIsTrue, IdsAreTrue
    <3>5. CASE Start(p, "spawn") \/ Start(p, "load") \/ Send(p) \/ Submit(p) \/ OpenIdentities(p)
      <4>1. job'[p] = job[p] /\ (pc'[p] = "ready" => pc[p] = "ready")
        BY <2>3, <3>5 DEF Start, Send, Submit, OpenIdentities, Goto
      <4> QED BY <2>3, <4>1, JobStaysTrue
    <3>6. CASE WriteIdentities(p) \/ SaveFails(p)
      <4>1. Saving(p) /\ UNCHANGED <<job, minted, veterans, keystore>>
        BY <3>6 DEF WriteIdentities, SaveFails, Saving, chainVars
      <4> QED BY <4>1, ReadyKeepsTruth
    <3>7. CASE Spawn(p)
      <4>1. DOMAIN job[p] = JobFields /\ job[p].sent = 0
        BY <3>7, SentIs DEF Spawn
      <4>2. /\ job'[p].ids = job[p].ids /\ job'[p].map = job[p].map /\ job'[p].sent = 0
            /\ pc'[p] # "ready" /\ UNCHANGED <<minted, veterans>>
        BY <2>3, <3>7, <4>1 DEF Spawn, Goto, JobFields, chainVars
      <4>3. \A n \in 0 .. job'[p].sent - 1 : FALSE
        BY <4>2
      <4> QED BY <2>3, <4>2, <4>3 DEF JobIsTrue, IdsAreTrue
    <3> QED BY <1>6, <3>4, <3>5, <3>6, <3>7, ReadKeepsTruth, ReceiptKeepsTruth, LoadKeepsTruth
            DEF Work, Receipt, Load
  <2>9. identities' # Torn => IdsAreTrue(identities)' /\ DOMAIN identities' \subseteq veterans'
    BY <1>3, <2>1
  <2> QED BY <2>2, <2>8, <2>9 DEF FilesInv
<1> QED BY <1>4, <1>5, <1>6 DEF Next

\* Every agent of a pool that goes into a round, fresh or reused, has its keystore,
\* its identity and has registered.  (acquire_pool, save_identities)
THEOREM PoolsAreComplete == Spec => []PoolsAreWhole
<1>1. FilesInv => PoolsAreWhole
  <2> SUFFICES ASSUME FilesInv, NEW p \in Processes, pc[p] = "ready",
                      NEW a \in Range(job[p].wallets)
               PROVE  /\ keystore[a] = "whole" /\ a \in veterans
                      /\ a \in DOMAIN job[p].ids /\ minted[job[p].ids[a]] = a
    BY DEF PoolsAreWhole
  <2>1. JobIsTrue(p)
    BY DEF FilesInv
  <2> QED BY <2>1 DEF JobIsTrue, IdsAreTrue
<1> QED BY <1>1, TypeInit, TypeStep, FundInit, FundStep, ProgressInit, ProgressStep,
        FilesInit, FilesStep, PTL DEF Spec

=============================================================================
