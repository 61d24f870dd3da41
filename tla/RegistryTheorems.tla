-------------------------- MODULE RegistryTheorems --------------------------
(***************************************************************************)
(* Theorems about Registry: what is published is in memory, every outcome  *)
(* on the feed stands for a verdict, and the anchors' count, history and   *)
(* latest record agree.                                                    *)
(*                                                                         *)
(* All steps but the chain's own are steps of one process; what such a     *)
(* step may do to the four parts of the invariant is said once, in         *)
(* ProcStep, and shown of each action.                                     *)
(***************************************************************************)
EXTENDS RegistryProps, BasicLemmas

BondKinds == {"BOND_SLASHED", "BOND_RELEASED"}
SaidBy(kind) == IF kind = "BOND_SLASHED" THEN {"slashed"} ELSE {"passed", "ok"}
VerdictTable == [{"own", "stranger"} -> [Questions -> [Says -> Nat]]]

\* The lines of the books: a kind of outcome, and what was asked.
Lines == BondKinds \X Questions
Shown(k) == Reported(k[1], k[2])
Heard(k) ==
  LET own == verdicts["own"][k[2]]
  IN IF k[1] = "BOND_SLASHED" THEN own["slashed"] ELSE own["passed"] + own["ok"]
AnyRoot == Roots[Operator] \cup Roots[Stranger]
JobFields == {"agent", "asked", "outcome"}
SendFields == {"at", "tx", "receipt"}

\* What the state is made of, as far as the proofs ask.
TypeInv ==
  /\ DOMAIN pc = Processes /\ DOMAIN memory = Processes
  /\ DOMAIN job = Processes /\ DOMAIN sending = Processes
  /\ boots \in [Processes -> Nat]
  /\ \A p \in Processes : memory[p].added \in Nat
  /\ IsFiniteSet(pool)
  /\ feed \in [DOMAIN feed -> Nat] /\ IsFiniteSet(DOMAIN feed)
  /\ verdicts \in VerdictTable

IsCall(call) ==
  /\ call.do = "anchor" => call.slot \in Slots /\ call.root \in AnyRoot
  /\ call.do = "resolve" => call.asked \in Questions

\* A process has one transaction at most, and while it resolves it is a resolve
\* of its own that asks what the process has to ask.
Labelled(p) ==
  /\ p = "api" =>
       pc[p] \in {"off", "idle", "register", "advice", "resolve", "outcome"}
  /\ p = "runner" => pc[p] \in {"off", "advice", "query", "resolve", "outcome"}
  /\ p = "seeder" => pc[p] \in {"off", "seed"}
  /\ p = "anchor" => pc[p] \in {"off", "anchor"}
  /\ DOMAIN job[p] = JobFields
  /\ pc[p] = "outcome" => job[p].outcome \in BondKinds
Sends(p) ==
  /\ DOMAIN sending[p] = SendFields
  /\ sending[p].at \in {"idle", "signed", "waiting"}
  /\ IF sending[p].at = "idle" THEN sending[p].tx = {}
     ELSE \E t \in sending[p].tx : sending[p].tx = {t}
  /\ sending[p].at # "idle" => pc[p] # "off"
  /\ sending[p].receipt \in {"none", "ok", "reverted"} \cup Outcomes
  /\ \A t \in sending[p].tx :
       /\ IsCall(t.call)
       /\ t.call.do = "resolve" => t.call.by = p
       /\ pc[p] = "resolve" => t.call.do = "resolve" /\ t.call.asked = job[p].asked
ProcInv ==
  /\ \A p \in Processes : Labelled(p) /\ Sends(p)
  /\ \A t \in pool : IsCall(t.call)

\* Advice of a living process is in its memory, or what came later under its id,
\* wherever its record is.
Holds(m, about) ==
  /\ about[3] \in Nat /\ about[3] <= m.added /\ about[1] \in DOMAIN m.entries
  /\ m.entries[about[1]].added \in Nat /\ about[3] <= m.entries[about[1]].added
  /\ m.entries[about[1]].added = about[3] => m.entries[about[1]].trace = about[2]
Remembered(call) ==
  LET p == call.by[1]
  IN /\ p \in Processes /\ call.by[2] \in Nat /\ call.by[2] <= boots[p]
     /\ p \in {"api", "runner"} /\ pc[p] # "off" /\ call.by[2] = boots[p]
        /\ call.kind = "ADVICE_PUBLISHED" => Holds(memory[p], call.about)
IsRecord(t) == t.call.do = "record"
MemoryInv ==
  /\ \A call \in DOMAIN feed : Remembered(call)
  /\ \A t \in pool : IsRecord(t) => Remembered(t.call)
  /\ \A p \in Processes : \A t \in sending[p].tx :
       IsRecord(t) => Remembered(t.call)

\* Who has a verdict that is not on its way to the feed yet.
Records(t, k) == IsRecord(t) /\ t.call.kind = k[1] /\ t.call.about = k[2]
OnItsWay(k) == {t \in pool : Records(t, k)}
Owes(p, k) ==
  \/ /\ sending[p].at = "idle" /\ pc[p] = "outcome"
     /\ job[p].outcome = k[1] /\ job[p].asked = k[2]
  \/ sending[p].at = "signed" /\ \E t \in sending[p].tx : Records(t, k)
  \/ /\ sending[p].receipt \in SaidBy(k[1])
     /\ \E t \in sending[p].tx : t.call.do = "resolve" /\ t.call.asked = k[2]
Owing(k) == {p \in Processes : Owes(p, k)}
LedgerInv ==
  /\ \A k \in Lines :
       Shown(k) + Cardinality(OnItsWay(k)) + Cardinality(Owing(k)) <= Heard(k)
  /\ \A q \in Questions : q[1] = "config" => verdicts["own"][q]["ok"] = 0

\* A slot's history is the records of its accounts.
AnchorInv ==
  /\ anchors \in
       [Slots -> Seq([root : AnyRoot, owner : {Operator, Stranger}])]
  /\ latest \in [Accounts -> [root : AnyRoot \cup {<< >>}, sequence : Nat]]
  /\ AnchorsAgree

RegistryInv == TypeInv /\ ProcInv /\ MemoryInv /\ LedgerInv /\ AnchorInv

-----------------------------------------------------------------------------
\* A process that lives on keeps what it knows, but for what it adds in its place.
Keeping(m, n) ==
  /\ n.added \in Nat /\ m.added <= n.added
  /\ \A id \in DOMAIN m.entries :
       /\ id \in DOMAIN n.entries
       /\ \/ n.entries[id] = m.entries[id]
          \/ n.entries[id].added \in Nat /\ m.added < n.entries[id].added
LivesOn(p) ==
  /\ boots'[p] \in Nat /\ boots[p] <= boots'[p]
  /\ pc'[p] # "off" /\ boots'[p] = boots[p] =>
       pc[p] # "off" /\ Keeping(memory[p], memory'[p])
  /\ memory'[p].added \in Nat

\* A step of p, or one that changes no process.
ProcStep(p) ==
  /\ feed' = feed /\ verdicts'["own"] = verdicts["own"]
  /\ verdicts' \in VerdictTable
  /\ DOMAIN pc' = Processes /\ DOMAIN memory' = Processes
  /\ DOMAIN job' = Processes /\ DOMAIN sending' = Processes
  /\ DOMAIN boots' = Processes /\ boots' = [q \in Processes |-> boots'[q]]
  /\ \A q \in Processes \ {p} :
       /\ pc'[q] = pc[q] /\ job'[q] = job[q] /\ memory'[q] = memory[q]
       /\ sending'[q] = sending[q] /\ boots'[q] = boots[q]
  /\ Labelled(p)' /\ Sends(p)' /\ LivesOn(p)
  /\ \A t \in pool' \ pool :
       /\ sending[p].at = "signed" /\ t \in sending[p].tx
       /\ \A k \in Lines : Records(t, k) => ~Owes(p, k)'
  /\ \A t \in sending'[p].tx :
       t \in sending[p].tx \/ (IsRecord(t) => Remembered(t.call)')
  /\ \A k \in Lines : Owes(p, k)' => Owes(p, k)

LEMMA HoldsStays ==
  ASSUME NEW m, NEW n, NEW about, m.added \in Nat, Holds(m, about), Keeping(m, n)
  PROVE  Holds(n, about)
BY DEF Holds, Keeping

LEMMA RememberedStays ==
  ASSUME TypeInv, NEW p \in Processes, ProcStep(p), NEW call, Remembered(call)
  PROVE  Remembered(call)'
<1> DEFINE q == call.by[1]
<1>1. q \in Processes /\ call.by[2] \in Nat /\ call.by[2] <= boots[q]
  BY DEF Remembered
<1>2. boots[q] \in Nat /\ boots'[q] \in Nat /\ boots[q] <= boots'[q]
  BY <1>1 DEF TypeInv, ProcStep, LivesOn
<1>3. call.by[2] <= boots'[q]
  BY <1>1, <1>2
<1>4. ASSUME q \in {"api", "runner"}, pc'[q] # "off", call.by[2] = boots'[q],
             call.kind = "ADVICE_PUBLISHED"
      PROVE  Holds(memory'[q], call.about)
  <2>1. boots'[q] = boots[q]
    BY <1>1, <1>2, <1>4
  <2>2. pc[q] # "off" /\ (Keeping(memory[q], memory'[q]) \/ memory'[q] = memory[q])
    BY <1>1, <1>4, <2>1 DEF ProcStep, LivesOn
  <2>3. Holds(memory[q], call.about) /\ memory[q].added \in Nat
    BY <1>1, <1>4, <2>1, <2>2 DEF Remembered, TypeInv
  <2> QED BY <2>2, <2>3, HoldsStays
<1> QED BY <1>1, <1>3, <1>4 DEF Remembered

LEMMA ProcStepTypes ==
  ASSUME TypeInv, ProcInv, NEW p \in Processes, ProcStep(p)
  PROVE  TypeInv' /\ ProcInv' /\ pool' \subseteq pool \cup sending[p].tx
<1>1. pool' \subseteq pool \cup sending[p].tx
  BY DEF ProcStep
<1>2. IsFiniteSet(sending[p].tx)
  <2>1. sending[p].tx = {} \/ \E t \in sending[p].tx : sending[p].tx = {t}
    BY DEF ProcInv, Sends
  <2>2. CASE sending[p].tx = {}
    BY <2>2, FS_EmptySet
  <2>3. CASE \E t \in sending[p].tx : sending[p].tx = {t}
    <3>1. PICK t \in sending[p].tx : sending[p].tx = {t}
      BY <2>3
    <3>2. IsFiniteSet({t})
      BY FS_Singleton
    <3> QED BY <3>1, <3>2
  <2> QED BY <2>1, <2>2, <2>3
<1>3. IsFiniteSet(pool')
  <2>1. IsFiniteSet(pool \cup sending[p].tx)
    BY <1>2, FS_Union DEF TypeInv
  <2> QED BY <1>1, <2>1, FS_Subset
<1>4. boots' \in [Processes -> Nat]
  BY DEF ProcStep, LivesOn, TypeInv
<1>9. \A q \in Processes : memory'[q].added \in Nat
  BY DEF ProcStep, LivesOn, TypeInv
<1>5. TypeInv'
  BY <1>3, <1>4, <1>9 DEF ProcStep, TypeInv
<1>6. ASSUME NEW q \in Processes PROVE Labelled(q)' /\ Sends(q)'
  <2>1. CASE q = p
    BY <2>1 DEF ProcStep
  <2>2. CASE q # p
    <3>1. pc'[q] = pc[q] /\ job'[q] = job[q] /\ sending'[q] = sending[q]
      BY <2>2 DEF ProcStep
    <3>2. Labelled(q) /\ Sends(q)
      BY DEF ProcInv
    <3>3. Labelled(q)'
      BY <3>1, <3>2 DEF Labelled
    <3>4. Sends(q)'
      BY <3>1, <3>2 DEF Sends
    <3> QED BY <3>3, <3>4
  <2> QED BY <2>1, <2>2
<1>7. \A t \in pool' : IsCall(t.call)
  BY <1>1 DEF ProcInv, Sends
<1>8. ProcInv'
  BY <1>6, <1>7 DEF ProcInv, IsCall
<1> QED BY <1>1, <1>5, <1>8

LEMMA ProcStepMemory ==
  ASSUME TypeInv, ProcInv, MemoryInv, NEW p \in Processes, ProcStep(p)
  PROVE  MemoryInv'
<1>1. ASSUME NEW call \in DOMAIN feed' PROVE Remembered(call)'
  <2>1. call \in DOMAIN feed
    BY DEF ProcStep
  <2> QED BY <2>1, RememberedStays DEF MemoryInv
<1>2. ASSUME NEW t \in pool', IsRecord(t) PROVE Remembered(t.call)'
  <2>1. t \in pool \cup sending[p].tx
    BY ProcStepTypes
  <2>2. Remembered(t.call)
    BY <1>2, <2>1 DEF MemoryInv
  <2> QED BY <2>2, RememberedStays
<1>3. ASSUME NEW q \in Processes, NEW t \in sending'[q].tx, IsRecord(t)
      PROVE  Remembered(t.call)'
  <2>1. CASE t \in sending[q].tx
    <3>1. Remembered(t.call)
      BY <1>3, <2>1 DEF MemoryInv
    <3> QED BY <3>1, RememberedStays
  <2>2. CASE t \notin sending[q].tx
    BY <1>3, <2>2 DEF ProcStep
  <2> QED BY <2>1, <2>2
<1> QED BY <1>1, <1>2, <1>3 DEF MemoryInv, IsRecord

LEMMA ProcessesFinite == IsFiniteSet(Processes)
<1>1. Processes = {"api", "runner"} \cup {"seeder", "anchor"}
  BY RegistryAssumption
<1>2. IsFiniteSet({"api", "runner"}) /\ IsFiniteSet({"seeder", "anchor"})
  <2>1. {"api", "runner"} = {"api"} \cup {"runner"}
        /\ {"seeder", "anchor"} = {"seeder"} \cup {"anchor"}
    OBVIOUS
  <2>2. /\ IsFiniteSet({"api"}) /\ IsFiniteSet({"runner"})
        /\ IsFiniteSet({"seeder"}) /\ IsFiniteSet({"anchor"})
    BY FS_Singleton
  <2>3. IsFiniteSet({"api"} \cup {"runner"})
    BY <2>2, FS_Union
  <2>4. IsFiniteSet({"seeder"} \cup {"anchor"})
    BY <2>2, FS_Union
  <2> QED BY <2>1, <2>3, <2>4
<1> QED BY <1>1, <1>2, FS_Union

\* What is counted is finite.
LEMMA LedgerSets ==
  ASSUME TypeInv, NEW k
  PROVE  /\ IsFiniteSet(OnItsWay(k)) /\ Cardinality(OnItsWay(k)) \in Nat
         /\ IsFiniteSet(Owing(k)) /\ Cardinality(Owing(k)) \in Nat
         /\ Shown(k) \in Nat
<1>1. IsFiniteSet(OnItsWay(k))
  BY FS_Subset DEF TypeInv, OnItsWay
<1>2. IsFiniteSet(Owing(k))
  BY ProcessesFinite, FS_Subset DEF Owing
<1>3. Shown(k) \in Nat
  <2> DEFINE S == {call \in DOMAIN feed : call.kind = k[1] /\ call.about = k[2]}
  <2>1. IsFiniteSet(S) /\ \A x \in S : feed[x] \in Nat
    BY FS_Subset DEF TypeInv
  <2>2. Shown(k) = Total(feed, S)
    BY DEF Shown, Reported, BagToSet
  <2> QED BY <2>1, <2>2, PurseFinite
<1> QED BY <1>1, <1>2, <1>3, FS_CardinalityType

LEMMA HeardIsNat ==
  ASSUME verdicts \in VerdictTable, NEW k \in Lines
  PROVE  Heard(k) \in Nat
BY DEF Lines, VerdictTable, Heard, Says, Outcomes

LEMMA ProcStepLedger ==
  ASSUME TypeInv, TypeInv', ProcInv, LedgerInv, NEW p \in Processes, ProcStep(p)
  PROVE  LedgerInv'
<1> SUFFICES ASSUME NEW k \in Lines
             PROVE  Shown(k)' + Cardinality(OnItsWay(k)')
                      + Cardinality(Owing(k)')
                      <= Heard(k)'
  <2>1. \A q \in Questions : q[1] = "config" => verdicts'["own"][q]["ok"] = 0
    BY DEF LedgerInv, ProcStep
  <2> QED BY <2>1 DEF LedgerInv
<1> DEFINE w == Cardinality(OnItsWay(k))
           o == Cardinality(Owing(k))
           w2 == Cardinality(OnItsWay(k)')
           o2 == Cardinality(Owing(k)')
<1>1. /\ IsFiniteSet(OnItsWay(k)) /\ w \in Nat
      /\ IsFiniteSet(Owing(k)) /\ o \in Nat
      /\ Shown(k) \in Nat
  BY LedgerSets
<1>2. w2 \in Nat /\ o2 \in Nat
  <2>1. IsFiniteSet(OnItsWay(k)') /\ IsFiniteSet(Owing(k)')
    <3>1. OnItsWay(k)' \subseteq pool'
      BY DEF OnItsWay
    <3>2. Owing(k)' \subseteq Processes
      BY DEF Owing
    <3> QED BY <3>1, <3>2, ProcessesFinite, FS_Subset DEF TypeInv
  <2> QED BY <2>1, FS_CardinalityType
<1>3. Shown(k)' = Shown(k) /\ Heard(k)' = Heard(k) /\ Heard(k) \in Nat
  BY HeardIsNat DEF ProcStep, Shown, Reported, Heard, TypeInv
<1>4. Owing(k)' \subseteq Owing(k)
  <2>1. ASSUME NEW q \in Processes, Owes(q, k)' PROVE Owes(q, k)
    <3>1. CASE q = p
      BY <2>1, <3>1 DEF ProcStep
    <3>2. CASE q # p
      <4>1. pc'[q] = pc[q] /\ job'[q] = job[q] /\ sending'[q] = sending[q]
        BY <3>2 DEF ProcStep
      <4> QED BY <2>1, <4>1 DEF Owes
    <3> QED BY <3>1, <3>2
  <2> QED BY <2>1 DEF Owing
<1>5. CASE \A t \in pool' \ pool : ~Records(t, k)
  <2>1. OnItsWay(k)' \subseteq OnItsWay(k)
    BY <1>5 DEF OnItsWay, Records, IsRecord
  <2>2. w2 <= w /\ o2 <= o
    BY <1>1, <1>4, <2>1, FS_Subset
  <2> HIDE DEF w, o, w2, o2
  <2>3. Shown(k) + w + o <= Heard(k)
    BY DEF LedgerInv, w, o
  <2>5. Shown(k) + w2 + o2 <= Heard(k)
    BY <1>1, <1>2, <1>3, <2>2, <2>3
  <2> QED BY <1>3, <2>5 DEF w2, o2
<1>6. CASE \E t \in pool' \ pool : Records(t, k)
  <2>1. PICK t \in pool' \ pool : Records(t, k)
    BY <1>6
  <2>2. sending[p].at = "signed" /\ t \in sending[p].tx /\ ~Owes(p, k)'
    BY <2>1 DEF ProcStep
  <2>3. Owes(p, k)
    BY <2>1, <2>2 DEF Owes
  <2>4. sending[p].tx = {t}
    BY <2>2 DEF ProcInv, Sends
  <2>5. OnItsWay(k)' \subseteq OnItsWay(k) \cup {t}
    BY <2>4, ProcStepTypes DEF OnItsWay, Records, IsRecord
  <2>6. w2 <= w + 1
    <3>1. IsFiniteSet(OnItsWay(k) \cup {t})
          /\ Cardinality(OnItsWay(k) \cup {t}) \in {w, w + 1}
      BY <1>1, FS_AddElement
    <3>2. w2 <= Cardinality(OnItsWay(k) \cup {t})
      BY <2>5, <3>1, FS_Subset
    <3> HIDE DEF w, w2
    <3> QED BY <1>1, <1>2, <3>1, <3>2
  <2>7. o2 <= o - 1
    <3>1. Owing(k)' \subseteq Owing(k) \ {p} /\ p \in Owing(k)
      BY <1>4, <2>2, <2>3 DEF Owing
    <3>2. IsFiniteSet(Owing(k) \ {p}) /\ Cardinality(Owing(k) \ {p}) = o - 1
      BY <1>1, <3>1, FS_RemoveElement
    <3> QED BY <3>1, <3>2, FS_Subset
  <2> HIDE DEF w, o, w2, o2
  <2>8. Shown(k) + w + o <= Heard(k)
    BY DEF LedgerInv, w, o
  <2>10. Shown(k) + w2 + o2 <= Heard(k)
    BY <1>1, <1>2, <1>3, <2>6, <2>7, <2>8
  <2> QED BY <1>3, <2>10 DEF w2, o2
<1> QED BY <1>5, <1>6

LEMMA ProcStepKeeps ==
  ASSUME TypeInv, ProcInv, MemoryInv, LedgerInv, NEW p \in Processes, ProcStep(p)
  PROVE  TypeInv' /\ ProcInv' /\ MemoryInv' /\ LedgerInv'
BY ProcStepTypes, ProcStepMemory, ProcStepLedger

-----------------------------------------------------------------------------
(***************************************************************************)
(* Where a process goes next.                                              *)
(***************************************************************************)

\* Only p moves, to a label in L.
Moves(p, L) ==
  /\ DOMAIN pc' = Processes /\ DOMAIN job' = Processes
  /\ \A q \in Processes \ {p} : pc'[q] = pc[q] /\ job'[q] = job[q]
  /\ pc'[p] \in L /\ DOMAIN job'[p] = JobFields

LEMMA ExitDoes ==
  ASSUME TypeInv, NEW p \in Processes, Exit(p)
  PROVE  Moves(p, {"off"})
BY DEF TypeInv, Exit, Goto, Moves, NoJob, JobFields

LEMMA GotoDoes ==
  ASSUME TypeInv, NEW p \in Processes, DOMAIN job[p] = JobFields, NEW l,
         Goto(p, l), UNCHANGED job
  PROVE  Moves(p, {l})
BY DEF TypeInv, Goto, Moves

LEMMA MovesMore ==
  ASSUME NEW p, NEW L, NEW M, L \subseteq M, Moves(p, L)
  PROVE  Moves(p, M)
BY DEF Moves

LEMMA NextTurnDoes ==
  ASSUME TypeInv, DOMAIN job["runner"] = JobFields, NextTurn
  PROVE  Moves("runner", {"off", "advice"})
<1>1. "runner" \in Processes
  BY RegistryAssumption
<1>2. CASE Exit("runner")
  BY <1>1, <1>2, ExitDoes, MovesMore
<1>3. CASE Goto("runner", "advice") /\ UNCHANGED job
  <2>1. Moves("runner", {"advice"})
    BY <1>1, <1>3, GotoDoes
  <2> QED BY <2>1, MovesMore
<1> QED BY <1>2, <1>3 DEF NextTurn

LEMMA GoOnDoes ==
  ASSUME TypeInv, DOMAIN job["runner"] = JobFields, NEW l, GoOn(l)
  PROVE  Moves("runner", {"off", l})
<1>1. "runner" \in Processes
  BY RegistryAssumption
<1>2. CASE Exit("runner")
  BY <1>1, <1>2, ExitDoes, MovesMore
<1>3. CASE Goto("runner", l) /\ UNCHANGED job
  <2>1. Moves("runner", {l})
    BY <1>1, <1>3, GotoDoes
  <2> QED BY <2>1, MovesMore
<1> QED BY <1>2, <1>3 DEF GoOn

LEMMA RestDoes ==
  ASSUME TypeInv, DOMAIN job["runner"] = JobFields, Rest
  PROVE  Moves("runner", {"off", "advice", "resolve"})
<1>1. CASE GoOn("resolve")
  <2>1. Moves("runner", {"off", "resolve"})
    BY <1>1, GoOnDoes
  <2> QED BY <2>1, MovesMore
<1>2. CASE NextTurn
  BY <1>2, NextTurnDoes, MovesMore
<1> QED BY <1>1, <1>2 DEF Rest

LEMMA NoteDoes ==
  ASSUME TypeInv, NEW p \in Processes, DOMAIN job[p] = JobFields, NEW receipt,
         Note(p, receipt)
  PROVE  /\ Moves(p, {"outcome"})
         /\ job'[p].outcome = KindOf(receipt) /\ job'[p].asked = job[p].asked
BY DEF TypeInv, Note, Goto, Moves, JobFields

\* Labels other than that of a verdict to record.
Elsewhere(p) ==
  CASE p = "api" -> {"off", "idle", "register", "advice", "resolve"}
    [] p = "runner" -> {"off", "advice", "query", "resolve"}
    [] p = "seeder" -> {"off", "seed"}
    [] p = "anchor" -> {"off", "anchor"}

LEMMA ReturnsDo ==
  ASSUME TypeInv, NEW p \in Processes, Labelled(p), pc[p] # "off",
         NEW ok \in BOOLEAN, NEW receipt, Returns(p, ok, receipt)
  PROVE  /\ DOMAIN memory' = Processes
         /\ \A q \in Processes \ {p} : memory'[q] = memory[q]
         /\ pc'[p] # "off" => memory'[p] = memory[p]
         /\ memory'[p] \in {memory[p], NoMemory}
         /\ \/ Moves(p, Elsewhere(p))
            \/ /\ p \in {"api", "runner"} /\ Moves(p, {"outcome"})
               /\ pc[p] = "resolve" /\ ok
               /\ job'[p].outcome = KindOf(receipt) /\ job'[p].asked = job[p].asked
<1>1. DOMAIN job[p] = JobFields
  BY DEF Labelled
<1>2. /\ DOMAIN memory' = Processes
      /\ \A q \in Processes \ {p} : memory'[q] = memory[q]
      /\ pc'[p] # "off" => memory'[p] = memory[p]
      /\ memory'[p] \in {memory[p], NoMemory}
  BY DEF Returns, Keeps, TypeInv
<1>3. CASE p = "runner"
  <2>1. RunnerGoesOn(ok, receipt)
    BY <1>3 DEF Returns
  <2>2. Elsewhere(p) = {"off", "advice", "query", "resolve"}
    BY <1>3 DEF Elsewhere
  <2>3. CASE pc["runner"] = "advice"
    <3>1. GoOn("query") \/ NextTurn
      BY <2>1, <2>3 DEF RunnerGoesOn, Skip
    <3>2. Moves(p, {"off", "query"}) \/ Moves(p, {"off", "advice"})
      BY <1>1, <1>3, <3>1, GoOnDoes, NextTurnDoes
    <3> QED BY <1>2, <2>2, <3>2, MovesMore
  <2>4. CASE pc["runner"] = "query"
    <3>1. Rest
      BY <2>1, <2>4 DEF RunnerGoesOn
    <3> QED BY <1>1, <1>2, <1>3, <2>2, <3>1, RestDoes, MovesMore
  <2>5. CASE pc["runner"] = "resolve"
    <3>1. IF ok THEN Note("runner", receipt) ELSE NextTurn
      BY <2>1, <2>5 DEF RunnerGoesOn
    <3>2. CASE ok
      BY <1>1, <1>2, <1>3, <2>5, <3>1, <3>2, NoteDoes
    <3>3. CASE ~ok
      BY <1>1, <1>2, <1>3, <2>2, <3>1, <3>3, NextTurnDoes, MovesMore
    <3> QED BY <3>2, <3>3
  <2>6. CASE pc["runner"] = "outcome"
    <3>1. NextTurn
      BY <2>1, <2>6 DEF RunnerGoesOn
    <3> QED BY <1>1, <1>2, <1>3, <2>2, <3>1, NextTurnDoes, MovesMore
  <2> QED BY <1>3, <2>3, <2>4, <2>5, <2>6 DEF Labelled
<1>4. CASE p = "seeder"
  <2>1. SeederGoesOn /\ Elsewhere(p) = {"off", "seed"}
    BY <1>4 DEF Returns, Elsewhere
  <2>2. CASE Exit("seeder")
    BY <1>2, <1>4, <2>1, <2>2, ExitDoes, MovesMore
  <2>3. CASE job' = [job EXCEPT !["seeder"].agent = @ + 1] /\ UNCHANGED pc
    <3>1. Moves(p, Elsewhere(p))
      BY <1>1, <1>4, <2>1, <2>3 DEF Moves, TypeInv, Labelled
    <3> QED BY <1>2, <3>1
  <2> QED BY <2>1, <2>2, <2>3 DEF SeederGoesOn
<1>5. CASE p = "anchor"
  <2>1. Exit(p) /\ Elsewhere(p) = {"off", "anchor"}
    BY <1>5 DEF Returns, Elsewhere
  <2> QED BY <1>2, <2>1, ExitDoes, MovesMore
<1>6. CASE p = "api"
  <2>1. Elsewhere(p) = {"off", "idle", "register", "advice", "resolve"}
    BY <1>6 DEF Elsewhere
  <2>2. CASE pc[p] = "resolve" /\ ok
    <3>1. Note(p, receipt)
      BY <1>6, <2>2 DEF Returns
    <3> QED BY <1>1, <1>2, <1>6, <2>2, <3>1, NoteDoes
  <2>3. CASE ~(pc[p] = "resolve" /\ ok)
    <3>1. Goto(p, "idle") /\ job' = [job EXCEPT ![p] = NoJob]
      BY <1>6, <2>3 DEF Returns
    <3>2. Moves(p, {"idle"})
      BY <3>1 DEF Moves, TypeInv, Goto, NoJob, JobFields
    <3> QED BY <1>2, <2>1, <3>2, MovesMore
  <2> QED BY <2>2, <2>3
<1> QED BY <1>3, <1>4, <1>5, <1>6, RegistryAssumption

-----------------------------------------------------------------------------
(***************************************************************************)
(* Each action of a process is a ProcStep.                                 *)
(***************************************************************************)
LEMMA OwnIs ==
  ASSUME NEW p, Sends(p), sending[p].at # "idle"
  PROVE  sending[p].tx = {Own(p)}
BY DEF Sends, Own

LEMMA DroppedIs ==
  ASSUME TypeInv, NEW p \in Processes, sending' = Dropped(p)
  PROVE  /\ DOMAIN sending' = Processes /\ sending'[p] = NoSend
         /\ \A q \in Processes \ {p} : sending'[q] = sending[q]
BY DEF TypeInv, Dropped

\* Without a send and a verdict there is nothing to owe.
LEMMA DroppedSends ==
  ASSUME NEW p, sending'[p] = NoSend
  PROVE  /\ Sends(p)'
         /\ \A k \in Lines :
              Owes(p, k)' => /\ pc'[p] = "outcome"
                              /\ job'[p].outcome = k[1] /\ job'[p].asked = k[2]
<1>1. /\ sending'[p].at = "idle" /\ sending'[p].tx = {}
      /\ sending'[p].receipt = "none"
      /\ DOMAIN sending'[p] = SendFields
  BY DEF NoSend, SendFields
<1> QED BY <1>1 DEF Sends, Owes, SaidBy

LEMMA LabelledAfter ==
  ASSUME NEW p \in Processes, Moves(p, Elsewhere(p))
  PROVE  Labelled(p)' /\ pc'[p] # "outcome"
<1>1. pc'[p] \in Elsewhere(p) /\ DOMAIN job'[p] = JobFields
  BY DEF Moves
<1>2. p \in {"api", "runner", "seeder", "anchor"}
  BY RegistryAssumption
<1>3. /\ p = "api" =>
           Elsewhere(p) = {"off", "idle", "register", "advice", "resolve"}
      /\ p = "runner" => Elsewhere(p) = {"off", "advice", "query", "resolve"}
      /\ p = "seeder" => Elsewhere(p) = {"off", "seed"}
      /\ p = "anchor" => Elsewhere(p) = {"off", "anchor"}
  BY DEF Elsewhere
<1> QED BY <1>1, <1>2, <1>3 DEF Labelled

\* A call returns, or raises.
LEMMA ReturnStep ==
  ASSUME TypeInv, ProcInv, NEW p \in Processes, sending[p].at # "idle",
         NEW ok \in BOOLEAN, NEW receipt, Returns(p, ok, receipt),
         sending' = Dropped(p), UNCHANGED <<boots, feed, verdicts>>,
         \A t \in pool' \ pool : sending[p].at = "signed" /\ t \in sending[p].tx,
         ok /\ p \in {"api", "runner"} =>
           /\ pool' = pool /\ receipt = sending[p].receipt
           /\ receipt \notin {"none", "reverted"}
  PROVE  ProcStep(p)
<1>1. Labelled(p) /\ Sends(p) /\ pc[p] # "off"
  BY DEF ProcInv, Sends
<1>2. /\ DOMAIN memory' = Processes
      /\ \A q \in Processes \ {p} : memory'[q] = memory[q]
      /\ pc'[p] # "off" => memory'[p] = memory[p]
      /\ memory'[p] \in {memory[p], NoMemory}
      /\ \/ Moves(p, Elsewhere(p))
         \/ /\ p \in {"api", "runner"} /\ Moves(p, {"outcome"})
            /\ pc[p] = "resolve" /\ ok
            /\ job'[p].outcome = KindOf(receipt) /\ job'[p].asked = job[p].asked
  BY <1>1, ReturnsDo
<1>3. /\ DOMAIN sending' = Processes /\ sending'[p] = NoSend
      /\ \A q \in Processes \ {p} : sending'[q] = sending[q]
  BY DroppedIs
<1>4. /\ Sends(p)'
      /\ \A k \in Lines :
           Owes(p, k)' => /\ pc'[p] = "outcome"
                              /\ job'[p].outcome = k[1] /\ job'[p].asked = k[2]
  BY <1>3, DroppedSends
<1>5. LivesOn(p)
  <2>1. memory[p].added \in Nat /\ Keeping(memory[p], memory[p])
    BY DEF TypeInv, Keeping
  <2>2. memory'[p].added \in Nat
    BY <1>2, <2>1 DEF NoMemory
  <2> QED BY <1>1, <1>2, <2>1, <2>2 DEF LivesOn, TypeInv
<1>6. sending'[p].tx = {}
  BY <1>3 DEF NoSend
<1>7. /\ feed' = feed /\ verdicts'["own"] = verdicts["own"]
      /\ verdicts' \in VerdictTable
      /\ DOMAIN boots' = Processes /\ boots' = [q \in Processes |-> boots'[q]]
      /\ \A q \in Processes : boots'[q] = boots[q]
  BY DEF TypeInv
<1>8. CASE Moves(p, Elsewhere(p))
  <2>1. Labelled(p)' /\ pc'[p] # "outcome"
    BY <1>8, LabelledAfter
  <2>2. \A k \in Lines : ~Owes(p, k)'
    BY <1>4, <2>1
  <2> QED BY <1>2, <1>3, <1>4, <1>5, <1>6, <1>7, <1>8, <2>1, <2>2
          DEF ProcStep, Moves
<1>9. CASE /\ p \in {"api", "runner"} /\ Moves(p, {"outcome"})
           /\ pc[p] = "resolve" /\ ok
           /\ job'[p].outcome = KindOf(receipt) /\ job'[p].asked = job[p].asked
  <2>1. Labelled(p)'
    BY <1>9 DEF Labelled, Moves, KindOf, BondKinds
  <2>2. pool' = pool /\ receipt = sending[p].receipt
        /\ receipt \notin {"none", "reverted"}
    BY <1>9
  <2>3. PICK t \in sending[p].tx : sending[p].tx = {t}
    BY <1>1 DEF Sends
  <2>4. /\ t.call.do = "resolve" /\ t.call.asked = job[p].asked
        /\ receipt \in {"slashed", "passed", "ok"}
    BY <1>1, <1>9, <2>2, <2>3 DEF Sends, Outcomes
  <2>5. ASSUME NEW k \in Lines, Owes(p, k)' PROVE Owes(p, k)
    <3>1. KindOf(receipt) = k[1] /\ t.call.asked = k[2]
      BY <1>4, <1>9, <2>4, <2>5
    <3>2. receipt \in SaidBy(k[1])
      BY <2>4, <3>1 DEF KindOf, SaidBy
    <3> QED BY <2>2, <2>3, <2>4, <3>1, <3>2 DEF Owes
  <2> QED BY <1>2, <1>3, <1>4, <1>5, <1>6, <1>7, <1>9, <2>1, <2>2, <2>5
          DEF ProcStep, Moves
<1> QED BY <1>2, <1>8, <1>9

LEMMA SubmitStep ==
  ASSUME TypeInv, ProcInv, NEW p \in Processes, Submit(p)
  PROVE  ProcStep(p)
<1>1. /\ Labelled(p) /\ Sends(p) /\ sending[p].at = "signed"
      /\ sending[p].tx = {Own(p)}
  BY OwnIs DEF ProcInv, Submit, Broadcast
<1>2. /\ sending' = [sending EXCEPT ![p].at = "waiting"]
      /\ pool' = (pool \ Rivals(Own(p))) \cup {Own(p)}
      /\ UNCHANGED <<chainVars, procVars, boots>>
  BY DEF Submit, Broadcast, Takes
<1>3. /\ DOMAIN sending' = Processes
      /\ \A q \in Processes \ {p} : sending'[q] = sending[q]
      /\ DOMAIN sending'[p] = SendFields
      /\ sending'[p].at = "waiting" /\ sending'[p].tx = sending[p].tx
      /\ sending'[p].receipt = sending[p].receipt
  BY <1>1, <1>2 DEF TypeInv, Sends, SendFields
<1>4. pc' = pc /\ job' = job /\ memory' = memory /\ boots' = boots
      /\ feed' = feed /\ verdicts' = verdicts
  BY <1>2 DEF chainVars, registryVars, procVars
<1>5. Labelled(p)'
  BY <1>1, <1>4 DEF Labelled
<1>6. Sends(p)'
  <2>1. pc[p] # "off"
    BY <1>1 DEF Sends
  <2> QED BY <1>1, <1>3, <1>4, <2>1 DEF Sends, IsCall
<1>7. LivesOn(p)
  BY <1>1, <1>4 DEF LivesOn, TypeInv, Sends, Keeping
<1>8. ASSUME NEW t \in pool' \ pool
      PROVE  t \in sending[p].tx
  BY <1>1, <1>2
<1>9. ASSUME NEW k \in Lines, Owes(p, k)' PROVE Owes(p, k)
  BY <1>3, <1>4, <1>9 DEF Owes
<1>10. ASSUME NEW t \in sending[p].tx, NEW k \in Lines, Records(t, k)
       PROVE  ~Owes(p, k)'
  BY <1>1, <1>3, <1>10 DEF Owes, Records, IsRecord
<1>11. /\ verdicts' \in VerdictTable
       /\ DOMAIN boots' = Processes /\ boots' = [q \in Processes |-> boots'[q]]
  BY <1>4 DEF TypeInv
<1>12. DOMAIN pc' = Processes /\ DOMAIN memory' = Processes /\ DOMAIN job' = Processes
  BY <1>4 DEF TypeInv
<1> QED BY <1>1, <1>3, <1>4, <1>5, <1>6, <1>7, <1>8, <1>9, <1>10, <1>11, <1>12
        DEF ProcStep

LEMMA WorkStep ==
  ASSUME TypeInv, ProcInv, NEW p \in Processes,
         SubmitOnly(p) \/ SubmitFails(p) \/ Receipt(p) \/ GiveUp(p)
  PROVE  ProcStep(p)
<1>1. Sends(p) /\ TRUE \in BOOLEAN /\ FALSE \in BOOLEAN
  BY DEF ProcInv
<1>2. CASE SubmitOnly(p)
  <2>1. sending[p].at = "signed" /\ sending[p].tx = {Own(p)}
    BY <1>1, <1>2, OwnIs DEF SubmitOnly
  <2>2. /\ Returns(p, TRUE, "none") /\ sending' = Dropped(p)
        /\ UNCHANGED <<boots, feed, verdicts>> /\ p \notin {"api", "runner"}
        /\ \A t \in pool' \ pool : t \in sending[p].tx
    BY <1>2, <2>1 DEF SubmitOnly, Takes, chainVars, registryVars
  <2> QED BY <2>1, <2>2, ReturnStep
<1>3. CASE SubmitFails(p)
  <2>1. sending[p].at = "signed" /\ sending[p].tx = {Own(p)}
    BY <1>1, <1>3, OwnIs DEF SubmitFails, BroadcastRaises
  <2>2. /\ Returns(p, FALSE, "none") /\ sending' = Dropped(p)
        /\ UNCHANGED <<boots, feed, verdicts>>
        /\ \A t \in pool' \ pool : t \in sending[p].tx
    BY <1>3, <2>1 DEF SubmitFails, BroadcastRaises, Takes, chainVars, registryVars
  <2> QED BY <2>1, <2>2, ReturnStep
<1>4. CASE Receipt(p)
  <2>1. sending[p].at = "waiting" /\ sending[p].receipt # "none"
    BY <1>4 DEF Receipt, Receives, Answer
  <2>2. /\ Returns(p, Good(p, Answer(p)), Answer(p)) /\ sending' = Dropped(p)
        /\ UNCHANGED <<boots, feed, verdicts, pool>>
    BY <1>4 DEF Receipt, chainVars, registryVars
  <2>3. Good(p, Answer(p)) \in BOOLEAN /\ Answer(p) = sending[p].receipt
        /\ (Good(p, Answer(p)) => Answer(p) # "reverted")
    BY DEF Good, Answer
  <2> QED BY <2>1, <2>2, <2>3, ReturnStep
<1>5. CASE GiveUp(p)
  <2>1. sending[p].at = "waiting"
    BY <1>5 DEF GiveUp, WaitRaises
  <2>2. /\ Returns(p, FALSE, "none") /\ sending' = Dropped(p)
        /\ UNCHANGED <<boots, feed, verdicts, pool>>
    BY <1>5 DEF GiveUp, chainVars, registryVars
  <2> QED BY <2>1, <2>2, ReturnStep
<1> QED BY <1>2, <1>3, <1>4, <1>5

\* A process signs.
LEMMA SignStep ==
  ASSUME TypeInv, ProcInv, NEW p \in Processes, NEW call,
         Sign(p, Operator, call), UNCHANGED <<feed, verdicts>>,
         DOMAIN pc' = Processes, DOMAIN memory' = Processes,
         DOMAIN job' = Processes,
         DOMAIN boots' = Processes, boots' = [q \in Processes |-> boots'[q]],
         \A q \in Processes \ {p} :
           /\ pc'[q] = pc[q] /\ job'[q] = job[q] /\ memory'[q] = memory[q]
           /\ boots'[q] = boots[q],
         Labelled(p)', LivesOn(p), pc'[p] # "off",
         pc'[p] = "resolve" => call.do = "resolve" /\ call.asked = job'[p].asked,
         IsCall(call), call.do = "resolve" => call.by = p,
         call.do = "record" => Remembered(call)',
         \A k \in Lines :
           call.do = "record" /\ call.kind = k[1] /\ call.about = k[2] => Owes(p, k)
  PROVE  ProcStep(p)
<1> DEFINE t == [key |-> Operator, nonce |-> get_nonce(Operator), call |-> call]
           s == [at |-> "signed", tx |-> {t}, receipt |-> "none"]
<1>1. /\ sending[p].at = "idle" /\ pool' = pool
      /\ sending' = [sending EXCEPT ![p] = s]
  BY DEF Sign
<1>2. t.call = call
  OBVIOUS
<1> HIDE DEF t
<1>3. /\ DOMAIN sending' = Processes /\ sending'[p] = s
      /\ \A q \in Processes \ {p} : sending'[q] = sending[q]
  BY <1>1 DEF TypeInv
<1>4. /\ sending'[p].at = "signed" /\ sending'[p].tx = {t}
      /\ sending'[p].receipt = "none" /\ DOMAIN sending'[p] = SendFields
  BY <1>3 DEF SendFields
<1> HIDE DEF s
<1>5. Sends(p)'
  BY <1>2, <1>4 DEF Sends, IsCall
<1>6. ASSUME NEW u \in sending'[p].tx, IsRecord(u) PROVE Remembered(u.call)'
  BY <1>2, <1>4, <1>6 DEF IsRecord
<1>7. ASSUME NEW k \in Lines, Owes(p, k)' PROVE Owes(p, k)
  <2>1. Records(t, k)
    BY <1>4, <1>7 DEF Owes, SaidBy, Records, IsRecord
  <2> QED BY <1>2, <2>1 DEF Records, IsRecord
<1>8. verdicts' \in VerdictTable
  BY DEF TypeInv
<1> QED BY <1>1, <1>3, <1>5, <1>6, <1>7, <1>8 DEF ProcStep, IsRecord

\* Its call is no record, or a record of its own about no bond.
Harmless(p, call) ==
  \/ call.do \in {"register", "anchor"}
  \/ call.do = "resolve" /\ call.by = p
  \/ /\ call.do = "record" /\ call.kind \notin BondKinds
     /\ call.by = <<p, boots[p]>>

\* A process signs and stays where it is.
LEMMA SignHereStep ==
  ASSUME TypeInv, ProcInv, NEW p \in Processes, NEW call,
         Sign(p, Operator, call), pc[p] # "off", IsCall(call),
         pc[p] = "resolve" => call.do = "resolve" /\ call.asked = job'[p].asked,
         UNCHANGED <<feed, verdicts, pc, boots>>,
         DOMAIN job' = Processes, DOMAIN job'[p] = JobFields,
         job'[p].outcome = job[p].outcome,
         DOMAIN memory' = Processes, Keeping(memory[p], memory'[p]),
         \A q \in Processes \ {p} : job'[q] = job[q] /\ memory'[q] = memory[q],
         \/ Harmless(p, call)
         \/ /\ call.do = "record" /\ call.by = <<p, boots[p]>>
            /\ \A k \in Lines :
                 call.kind = k[1] /\ call.about = k[2] => Owes(p, k),
         p \in {"api", "runner"} /\ call.do = "record"
           /\ call.kind = "ADVICE_PUBLISHED" => Holds(memory'[p], call.about)
  PROVE  ProcStep(p)
<1>1. Labelled(p)
  BY DEF ProcInv
<1>2. Labelled(p)'
  BY <1>1 DEF Labelled
<1>3. boots \in [Processes -> Nat] /\ boots' = boots /\ DOMAIN pc' = Processes
  BY DEF TypeInv
<1>4. LivesOn(p)
  BY <1>3 DEF LivesOn, Keeping
<1>5. call.do = "record" => Remembered(call)'
  BY <1>3 DEF Remembered, Harmless
<1>6. \A k \in Lines :
        call.do = "record" /\ call.kind = k[1] /\ call.about = k[2] => Owes(p, k)
  BY DEF Harmless, Lines
<1>7. call.do = "resolve" => call.by = p
  BY DEF Harmless
<1> QED BY <1>2, <1>3, <1>4, <1>5, <1>6, <1>7, SignStep

LEMMA Remembering ==
  ASSUME TypeInv, NEW p \in Processes
  PROVE  Keeping(memory[p], memory[p])
BY DEF TypeInv, Keeping

\* What publish_advice adds, and why it is found.
LEMMA PublishDoes ==
  ASSUME TypeInv, NEW p \in Processes, NEW agent, NEW id, NEW trace,
         publish_advice(p, agent, id, trace)
  PROVE  /\ DOMAIN memory' = Processes /\ Keeping(memory[p], memory'[p])
         /\ \A q \in Processes \ {p} : memory'[q] = memory[q]
         /\ Holds(memory'[p], <<id, trace, memory[p].added + 1>>)
<1> DEFINE n == memory[p].added + 1
           e == [trace |-> trace, added |-> n]
           old == memory[p].entries
           f == [i \in DOMAIN old \cup {id} |-> IF i = id THEN e ELSE old[i]]
           m == [entries |-> f, added |-> n]
<1>1. memory' = [memory EXCEPT ![p] = m]
  BY DEF publish_advice
<1>2. n \in Nat /\ memory[p].added < n
  BY DEF TypeInv
<1>3. e.trace = trace /\ e.added = n
  OBVIOUS
<1> HIDE DEF n, e
<1>4. /\ DOMAIN f = {id} \cup DOMAIN memory[p].entries /\ f[id] = e
      /\ \A i \in DOMAIN memory[p].entries : i # id => f[i] = memory[p].entries[i]
  OBVIOUS
<1>5. m.entries = f /\ m.added = n
  OBVIOUS
<1> HIDE DEF f, m
<1>6. memory'[p] = m /\ DOMAIN memory' = Processes
      /\ \A q \in Processes \ {p} : memory'[q] = memory[q]
  BY <1>1 DEF TypeInv
<1>7. Keeping(memory[p], m)
  BY <1>2, <1>3, <1>4, <1>5 DEF Keeping, TypeInv
<1>8. Holds(m, <<id, trace, n>>)
  <2> DEFINE about == <<id, trace, n>>
  <2>1. about[1] = id /\ about[2] = trace /\ about[3] = n
    OBVIOUS
  <2> HIDE DEF about
  <2>2. Holds(m, about)
    BY <1>2, <1>3, <1>4, <1>5, <2>1 DEF Holds
  <2> QED BY <2>2 DEF about
<1> QED BY <1>6, <1>7, <1>8 DEF n

LEMMA RecordOutcomeStep ==
  ASSUME TypeInv, ProcInv, NEW p \in Processes, RecordOutcome(p)
  PROVE  ProcStep(p)
<1> DEFINE call == Action(p, job[p].agent, job[p].outcome, job[p].asked)
<1>1. /\ pc[p] = "outcome" /\ Sign(p, Operator, call)
      /\ UNCHANGED <<feed, verdicts, pc, job, memory, boots>>
      /\ sending[p].at = "idle"
  BY DEF RecordOutcome, chainVars, registryVars, procVars, Sign
<1>2. /\ call.do = "record" /\ call.by = <<p, boots[p]>>
      /\ call.kind = job[p].outcome /\ call.about = job[p].asked
  BY DEF Action
<1> HIDE DEF call
<1>3. \A k \in Lines : call.kind = k[1] /\ call.about = k[2] => Owes(p, k)
  BY <1>1, <1>2 DEF Owes
<1>4. /\ DOMAIN job' = Processes /\ DOMAIN job'[p] = JobFields
      /\ DOMAIN memory' = Processes /\ memory' = memory /\ job' = job
      /\ Keeping(memory[p], memory'[p])
  BY <1>1, Remembering DEF TypeInv, ProcInv, Labelled
<1>5. call.kind # "ADVICE_PUBLISHED"
  BY <1>1, <1>2 DEF ProcInv, Labelled, BondKinds
<1> QED BY <1>1, <1>2, <1>3, <1>4, <1>5, SignHereStep DEF IsCall

LEMMA RunnerAdvisesStep ==
  ASSUME TypeInv, ProcInv, RunnerAdvises
  PROVE  ProcStep("runner")
<1> DEFINE p == "runner"
           trace == _make_advice(Agent, run.cycle)
           about == <<trace, trace, memory[p].added + 1>>
           call == Action(p, Agent, "ADVICE_PUBLISHED", about)
<1>1. /\ pc[p] = "advice" /\ Sign(p, Operator, call)
      /\ job' = [job EXCEPT ![p].agent = Agent]
      /\ publish_advice(p, Agent, trace, trace)
      /\ UNCHANGED <<feed, verdicts, pc, boots>>
  BY DEF RunnerAdvises, publish_advice, chainVars, registryVars
<1>2. p \in Processes
  BY RegistryAssumption
<1>3. /\ DOMAIN job' = Processes /\ DOMAIN job'[p] = JobFields
      /\ job'[p].outcome = job[p].outcome
      /\ \A q \in Processes \ {p} : job'[q] = job[q]
  BY <1>1, <1>2 DEF TypeInv, ProcInv, Labelled, JobFields
<1> HIDE DEF trace
<1>4. /\ DOMAIN memory' = Processes /\ Keeping(memory[p], memory'[p])
      /\ \A q \in Processes \ {p} : memory'[q] = memory[q]
      /\ Holds(memory'[p], about)
  BY <1>1, <1>2, PublishDoes
<1> HIDE DEF about
<1>5. /\ call.do = "record" /\ call.by = <<p, boots[p]>>
      /\ call.kind = "ADVICE_PUBLISHED" /\ call.about = about
  BY DEF Action
<1> HIDE DEF call
<1>6. Harmless(p, call) /\ IsCall(call)
  BY <1>5 DEF Harmless, BondKinds, IsCall
<1> QED BY <1>1, <1>2, <1>3, <1>4, <1>5, <1>6, SignHereStep

LEMMA RunnerRecordsQueryStep ==
  ASSUME TypeInv, ProcInv, RunnerRecordsQuery
  PROVE  ProcStep("runner")
<1> DEFINE p == "runner"
           call == Action(p, Agent, "QUERY_PAID", << >>)
<1>1. /\ pc[p] = "query" /\ Sign(p, Operator, call) /\ p \in Processes
      /\ UNCHANGED <<feed, verdicts, pc, job, memory, boots>>
  BY RegistryAssumption
     DEF RunnerRecordsQuery, record_query_paid, chainVars, registryVars, procVars
<1>2. /\ DOMAIN job' = Processes /\ DOMAIN job'[p] = JobFields
      /\ DOMAIN memory' = Processes /\ Keeping(memory[p], memory'[p])
  BY <1>1, Remembering DEF TypeInv, ProcInv, Labelled
<1>3. /\ call.do = "record" /\ call.by = <<p, boots[p]>>
      /\ call.kind = "QUERY_PAID"
  BY DEF Action
<1> HIDE DEF call
<1>4. Harmless(p, call) /\ IsCall(call)
  BY <1>3 DEF Harmless, BondKinds, IsCall
<1> QED BY <1>1, <1>2, <1>3, <1>4, SignHereStep

LEMMA RunnerResolvesStep ==
  ASSUME TypeInv, ProcInv, RunnerResolves
  PROVE  ProcStep("runner")
<1> DEFINE p == "runner"
           asked == <<"config", agent_addrs[Agent]>>
           call == [do |-> "resolve", by |-> p, asked |-> asked]
<1>1. /\ pc[p] = "resolve" /\ Sign(p, Operator, call) /\ p \in Processes
      /\ UNCHANGED <<feed, verdicts, pc, memory, boots>>
      /\ job' = [job EXCEPT ![p].asked = asked] /\ asked \in Questions
  BY RegistryAssumption DEF RunnerResolves, resolve_bond, chainVars, registryVars
<1>2. call.do = "resolve" /\ call.by = p /\ call.asked = asked
  OBVIOUS
<1> HIDE DEF call, asked
<1>3. /\ DOMAIN job' = Processes /\ DOMAIN job'[p] = JobFields
      /\ job'[p].outcome = job[p].outcome /\ job'[p].asked = asked
      /\ \A q \in Processes \ {p} : job'[q] = job[q]
      /\ DOMAIN memory' = Processes /\ Keeping(memory[p], memory'[p])
  BY <1>1, Remembering DEF TypeInv, ProcInv, Labelled, JobFields
<1>4. Harmless(p, call) /\ IsCall(call)
  BY <1>1, <1>2 DEF Harmless, IsCall
<1> QED BY <1>1, <1>2, <1>3, <1>4, SignHereStep

LEMMA SeedStep ==
  ASSUME TypeInv, ProcInv, Seed
  PROVE  ProcStep("seeder")
<1> DEFINE p == "seeder"
           call == Action(p, Ids[job[p].agent], "ADVICE_PUBLISHED", << >>)
<1>1. /\ pc[p] = "seed" /\ Sign(p, Operator, call) /\ p \in Processes
      /\ UNCHANGED <<feed, verdicts, pc, job, memory, boots>>
  BY RegistryAssumption DEF Seed, chainVars, registryVars, procVars
<1>2. /\ DOMAIN job' = Processes /\ DOMAIN job'[p] = JobFields
      /\ DOMAIN memory' = Processes /\ Keeping(memory[p], memory'[p])
  BY <1>1, Remembering DEF TypeInv, ProcInv, Labelled
<1>3. /\ call.do = "record" /\ call.by = <<p, boots[p]>>
      /\ call.kind = "ADVICE_PUBLISHED"
  BY DEF Action
<1> HIDE DEF call
<1>4. Harmless(p, call) /\ IsCall(call)
  BY <1>3 DEF Harmless, BondKinds, IsCall
<1> QED BY <1>1, <1>2, <1>3, <1>4, SignHereStep

\* The API takes a request and signs.
LEMMA AcceptStep ==
  ASSUME TypeInv, ProcInv, NEW label, NEW agent, NEW asked, NEW call,
         label \in {"register", "advice", "resolve"},
         Accepts(label, agent, asked), Sign("api", Operator, call),
         DOMAIN memory' = Processes, Keeping(memory["api"], memory'["api"]),
         \A q \in Processes \ {"api"} : memory'[q] = memory[q],
         label = "resolve" => call.do = "resolve" /\ call.asked = asked,
         Harmless("api", call), IsCall(call),
         call.do = "record" /\ call.kind = "ADVICE_PUBLISHED"
           => Holds(memory'["api"], call.about)
  PROVE  ProcStep("api")
<1> DEFINE p == "api"
<1>1. /\ pc[p] = "idle" /\ p \in Processes
      /\ pc' = [pc EXCEPT ![p] = label]
      /\ job' = [job EXCEPT ![p] = [NoJob EXCEPT !.agent = agent, !.asked = asked]]
      /\ UNCHANGED <<feed, verdicts, boots>>
  BY RegistryAssumption DEF Accepts, Goto, chainVars, registryVars, Sign
<1>2. /\ DOMAIN pc' = Processes /\ pc'[p] = label
      /\ DOMAIN job' = Processes /\ DOMAIN job'[p] = JobFields
      /\ job'[p].asked = asked
      /\ \A q \in Processes \ {p} : pc'[q] = pc[q] /\ job'[q] = job[q]
  <2> DEFINE j == [NoJob EXCEPT !.agent = agent, !.asked = asked]
  <2>1. DOMAIN j = JobFields /\ j.asked = asked
    BY DEF NoJob, JobFields
  <2> HIDE DEF j
  <2>2. job' = [job EXCEPT ![p] = j]
    BY <1>1 DEF j
  <2> QED BY <1>1, <2>1, <2>2 DEF TypeInv
<1>3. boots \in [Processes -> Nat] /\ boots' = boots
  BY <1>1 DEF TypeInv
<1>4. Labelled(p)' /\ LivesOn(p)
  BY <1>1, <1>2, <1>3 DEF Labelled, LivesOn, Keeping
<1>5. call.do = "record" => Remembered(call)'
  BY <1>1, <1>3 DEF Remembered, Harmless
<1>6. \A k \in Lines :
        call.do = "record" /\ call.kind = k[1] /\ call.about = k[2] => Owes(p, k)
  BY DEF Harmless, Lines
<1>7. call.do = "resolve" => call.by = p
  BY DEF Harmless
<1>8. pc'[p] = "resolve" => call.do = "resolve" /\ call.asked = job'[p].asked
  BY <1>2
<1> QED BY <1>1, <1>2, <1>3, <1>4, <1>5, <1>6, <1>7, <1>8, SignStep

LEMMA RouteStep ==
  ASSUME TypeInv, ProcInv,
         \/ \E i \in Identities : RegisterRoute(i)
         \/ \E agent \in Served, asked \in Questions : ResolveRoute(agent, asked)
         \/ \E agent \in Served, trace \in Traces :
              \E id \in TraceIds \cup {trace} : AdviceRoute(agent, id, trace)
  PROVE  ProcStep("api")
<1>0. /\ "api" \in Processes /\ DOMAIN memory = Processes
      /\ Keeping(memory["api"], memory["api"])
  BY RegistryAssumption, Remembering DEF TypeInv
<1>1. ASSUME NEW i \in Identities, RegisterRoute(i) PROVE ProcStep("api")
  <2> DEFINE call == [do |-> "register", identity |-> i]
  <2>1. /\ Accepts("register", 0, << >>) /\ Sign("api", Operator, call)
        /\ UNCHANGED memory
    BY <1>1 DEF RegisterRoute, register_agent
  <2>2. call.do = "register"
    OBVIOUS
  <2> HIDE DEF call
  <2>3. Harmless("api", call) /\ IsCall(call)
    BY <2>2 DEF Harmless, IsCall
  <2> QED BY <1>0, <2>1, <2>2, <2>3, AcceptStep
<1>2. ASSUME NEW agent, NEW asked \in Questions, ResolveRoute(agent, asked)
      PROVE  ProcStep("api")
  <2> DEFINE call == [do |-> "resolve", by |-> "api", asked |-> asked]
  <2>1. /\ Accepts("resolve", agent, asked) /\ Sign("api", Operator, call)
        /\ UNCHANGED memory
    BY <1>2 DEF ResolveRoute, resolve_bond
  <2>2. call.do = "resolve" /\ call.by = "api" /\ call.asked = asked
    OBVIOUS
  <2> HIDE DEF call
  <2>3. Harmless("api", call) /\ IsCall(call)
    BY <2>2 DEF Harmless, IsCall
  <2> QED BY <1>0, <2>1, <2>2, <2>3, AcceptStep
<1>3. ASSUME NEW agent, NEW id, NEW trace, AdviceRoute(agent, id, trace)
      PROVE  ProcStep("api")
  <2> DEFINE about == <<id, trace, memory["api"].added + 1>>
             call == Action("api", agent, "ADVICE_PUBLISHED", about)
  <2>1. /\ Accepts("advice", agent, << >>) /\ Sign("api", Operator, call)
        /\ publish_advice("api", agent, id, trace)
    BY <1>3 DEF AdviceRoute, publish_advice
  <2>2. /\ DOMAIN memory' = Processes /\ Keeping(memory["api"], memory'["api"])
        /\ \A q \in Processes \ {"api"} : memory'[q] = memory[q]
        /\ Holds(memory'["api"], about)
    BY <1>0, <2>1, PublishDoes
  <2> HIDE DEF about
  <2>3. /\ call.do = "record" /\ call.by = <<"api", boots["api"]>>
        /\ call.kind = "ADVICE_PUBLISHED" /\ call.about = about
    BY DEF Action
  <2> HIDE DEF call
  <2>4. Harmless("api", call) /\ IsCall(call)
    BY <2>3 DEF Harmless, IsCall, BondKinds
  <2> QED BY <2>1, <2>2, <2>3, <2>4, AcceptStep
<1> QED BY <1>1, <1>2, <1>3

\* A process that has nothing to send starts, or goes on.
LEMMA QuietStep ==
  ASSUME TypeInv, ProcInv, NEW p \in Processes, sending[p].at = "idle",
         UNCHANGED <<sending, pool, feed, verdicts>>,
         DOMAIN memory' = Processes, DOMAIN pc' = Processes,
         DOMAIN job' = Processes,
         DOMAIN boots' = Processes, boots' = [q \in Processes |-> boots'[q]],
         \A q \in Processes \ {p} :
           /\ pc'[q] = pc[q] /\ job'[q] = job[q] /\ memory'[q] = memory[q]
           /\ boots'[q] = boots[q],
         Labelled(p)', LivesOn(p), pc'[p] # "outcome"
  PROVE  ProcStep(p)
<1>1. Sends(p) /\ sending[p].tx = {}
  BY DEF ProcInv, Sends
<1>2. Sends(p)'
  BY <1>1 DEF Sends
<1>3. \A k \in Lines : ~Owes(p, k)'
  BY <1>1 DEF Owes
<1>4. /\ DOMAIN sending' = Processes
      /\ verdicts' \in VerdictTable
  BY DEF TypeInv
<1> QED BY <1>1, <1>2, <1>3, <1>4 DEF ProcStep

LEMMA RunnerIdlesStep ==
  ASSUME TypeInv, ProcInv, QueryFails \/ NobodyToResolve
  PROVE  ProcStep("runner")
<1> DEFINE p == "runner"
<1>1. p \in Processes /\ Labelled(p) /\ DOMAIN job[p] = JobFields
  BY RegistryAssumption DEF ProcInv, Labelled
<1>2. /\ pc[p] \in {"query", "resolve"} /\ sending[p].at = "idle"
      /\ Rest \/ NextTurn
      /\ Keeps(p)
      /\ UNCHANGED <<sending, pool, feed, verdicts, boots>>
  BY DEF QueryFails, NobodyToResolve, chainVars, registryVars, sendVars
<1>3. Moves(p, Elsewhere(p))
  <2>1. Elsewhere(p) = {"off", "advice", "query", "resolve"}
    BY DEF Elsewhere
  <2>2. Moves(p, {"off", "advice", "resolve"}) \/ Moves(p, {"off", "advice"})
    BY <1>1, <1>2, RestDoes, NextTurnDoes
  <2> QED BY <2>1, <2>2, MovesMore
<1>4. Labelled(p)' /\ pc'[p] # "outcome"
  BY <1>1, <1>3, LabelledAfter
<1>5. /\ DOMAIN memory' = Processes
      /\ \A q \in Processes \ {p} : memory'[q] = memory[q]
      /\ pc'[p] # "off" => memory'[p] = memory[p]
      /\ memory'[p] \in {memory[p], NoMemory}
  BY <1>1, <1>2 DEF Keeps, TypeInv
<1>6. boots' = boots /\ boots \in [Processes -> Nat]
  BY <1>2 DEF TypeInv
<1>7. LivesOn(p)
  <2>1. Keeping(memory[p], memory[p]) /\ memory[p].added \in Nat
    BY <1>1, Remembering DEF TypeInv
  <2>2. memory'[p].added \in Nat
    BY <1>5, <2>1 DEF NoMemory
  <2> QED BY <1>1, <1>2, <1>5, <1>6, <2>1, <2>2 DEF LivesOn
<1> QED BY <1>1, <1>2, <1>3, <1>4, <1>5, <1>6, <1>7, QuietStep DEF Moves

\* What a start does to pc and boots.
LEMMA StartDoes ==
  ASSUME TypeInv, ProcInv, NEW p \in Processes, NEW label, Start(p, label),
         label # "off", UNCHANGED memory
  PROVE  /\ sending[p].at = "idle" /\ LivesOn(p)
         /\ DOMAIN pc' = Processes /\ pc'[p] = label
         /\ DOMAIN boots' = Processes /\ boots' = [q \in Processes |-> boots'[q]]
         /\ \A q \in Processes \ {p} : pc'[q] = pc[q] /\ boots'[q] = boots[q]
<1>1. /\ pc[p] = "off" /\ boots' = [boots EXCEPT ![p] = @ + 1]
      /\ pc' = [pc EXCEPT ![p] = label]
  BY DEF Start, Goto
<1>2. boots \in [Processes -> Nat] /\ DOMAIN pc = Processes
  BY DEF TypeInv
<1>3. sending[p].at = "idle"
  BY <1>1 DEF ProcInv, Sends
<1>4. boots' \in [Processes -> Nat] /\ boots'[p] = boots[p] + 1
  BY <1>1, <1>2
<1>5. LivesOn(p)
  <2>1. memory'[p].added \in Nat
    BY DEF TypeInv
  <2> QED BY <1>2, <1>4, <2>1 DEF LivesOn
<1> QED BY <1>1, <1>2, <1>3, <1>4, <1>5

LEMMA StartStep ==
  ASSUME TypeInv, ProcInv, NEW p \in Processes, NEW label, Start(p, label),
         \/ p = "api" /\ label = "idle"
         \/ p = "runner" /\ label = "advice"
         \/ p = "seeder" /\ label = "seed",
         UNCHANGED <<sending, pool, feed, verdicts, memory>>,
         DOMAIN job' = Processes, DOMAIN job'[p] = JobFields,
         \A q \in Processes \ {p} : job'[q] = job[q]
  PROVE  ProcStep(p)
<1>1. /\ sending[p].at = "idle" /\ LivesOn(p)
      /\ DOMAIN pc' = Processes /\ pc'[p] = label
      /\ DOMAIN boots' = Processes /\ boots' = [q \in Processes |-> boots'[q]]
      /\ \A q \in Processes \ {p} : pc'[q] = pc[q] /\ boots'[q] = boots[q]
  BY StartDoes
<1>2. Labelled(p)' /\ pc'[p] # "outcome"
  BY <1>1 DEF Labelled
<1>3. DOMAIN memory' = Processes /\ memory' = memory
  BY DEF TypeInv
<1> QED BY <1>1, <1>2, <1>3, QuietStep

LEMMA StartsStep ==
  ASSUME TypeInv, ProcInv, StartApi \/ StartRunner \/ StartSeeder
  PROVE  \E p \in Processes : ProcStep(p)
<1>0. /\ "api" \in Processes /\ "runner" \in Processes /\ "seeder" \in Processes
      /\ DOMAIN job = Processes
      /\ \A p \in Processes : DOMAIN job[p] = JobFields
  BY RegistryAssumption DEF TypeInv, ProcInv, Labelled
<1>1. CASE StartApi
  <2>1. /\ Start("api", "idle") /\ job' = job
        /\ UNCHANGED <<sending, pool, feed, verdicts, memory>>
    BY <1>1 DEF StartApi, sendVars, chainVars, registryVars
  <2>2. /\ DOMAIN job' = Processes /\ DOMAIN job'["api"] = JobFields
        /\ \A q \in Processes \ {"api"} : job'[q] = job[q]
    BY <1>0, <2>1
  <2>3. ProcStep("api")
    BY <1>0, <2>1, <2>2, StartStep
  <2> QED BY <1>0, <2>3
<1>2. CASE StartRunner
  <2>1. /\ Start("runner", "advice") /\ job' = job
        /\ UNCHANGED <<sending, pool, feed, verdicts, memory>>
    BY <1>2 DEF StartRunner, sendVars, chainVars, registryVars
  <2> QED BY <1>0, <2>1, StartStep
<1>3. CASE StartSeeder
  <2>1. /\ Start("seeder", "seed")
        /\ job' = [job EXCEPT !["seeder"].agent = 1]
        /\ UNCHANGED <<sending, pool, feed, verdicts, memory>>
    BY <1>3 DEF StartSeeder, sendVars, chainVars, registryVars
  <2>2. /\ DOMAIN job' = Processes /\ DOMAIN job'["seeder"] = JobFields
        /\ \A q \in Processes \ {"seeder"} : job'[q] = job[q]
    BY <1>0, <2>1
  <2> QED BY <1>0, <2>1, <2>2, StartStep
<1> QED BY <1>1, <1>2, <1>3

LEMMA StartAnchorStep ==
  ASSUME TypeInv, ProcInv, NEW slot \in Slots, NEW root \in Roots[Operator],
         StartAnchor(slot, root)
  PROVE  ProcStep("anchor")
<1> DEFINE p == "anchor"
           call == [do |-> "anchor", slot |-> slot, root |-> root]
<1>1. /\ p \in Processes /\ Start(p, "anchor") /\ Sign(p, Operator, call)
      /\ UNCHANGED <<feed, verdicts, job, memory>>
  BY RegistryAssumption DEF StartAnchor, chainVars, registryVars
<1>2. call.do = "anchor" /\ IsCall(call)
  BY DEF IsCall, AnyRoot
<1> HIDE DEF call
<1>3. /\ LivesOn(p) /\ DOMAIN pc' = Processes /\ pc'[p] = "anchor"
      /\ DOMAIN boots' = Processes /\ boots' = [q \in Processes |-> boots'[q]]
      /\ \A q \in Processes \ {p} : pc'[q] = pc[q] /\ boots'[q] = boots[q]
  BY <1>1, StartDoes
<1>4. /\ DOMAIN memory' = Processes /\ memory' = memory
      /\ DOMAIN job' = Processes /\ job' = job /\ DOMAIN job'[p] = JobFields
  BY <1>1 DEF TypeInv, ProcInv, Labelled
<1>5. Labelled(p)'
  BY <1>3, <1>4 DEF Labelled
<1> QED BY <1>1, <1>2, <1>3, <1>4, <1>5, SignStep

LEMMA CrashStep ==
  ASSUME TypeInv, ProcInv, NEW p \in Processes, Crash(p)
  PROVE  ProcStep(p)
<1>1. /\ Exit(p) /\ Keeps(p) /\ sending' = Dropped(p)
      /\ UNCHANGED <<pool, feed, verdicts, boots>>
  BY DEF Crash, chainVars, registryVars
<1>2. Moves(p, {"off"})
  BY <1>1, ExitDoes
<1>3. Labelled(p)' /\ pc'[p] = "off"
  BY <1>2 DEF Moves, Labelled
<1>4. /\ DOMAIN sending' = Processes /\ sending'[p] = NoSend
      /\ \A q \in Processes \ {p} : sending'[q] = sending[q]
  BY <1>1, DroppedIs
<1>5. Sends(p)' /\ \A k \in Lines : ~Owes(p, k)'
  BY <1>3, <1>4, DroppedSends
<1>6. /\ DOMAIN memory' = Processes
      /\ \A q \in Processes \ {p} : memory'[q] = memory[q]
      /\ memory'[p].added \in Nat
  BY <1>1 DEF Keeps, TypeInv, NoMemory
<1>7. boots' = boots /\ boots \in [Processes -> Nat]
      /\ verdicts' \in VerdictTable
  BY <1>1 DEF TypeInv
<1>8. LivesOn(p)
  BY <1>3, <1>6, <1>7 DEF LivesOn
<1>9. sending'[p].tx = {}
  BY <1>4 DEF NoSend
<1> QED BY <1>1, <1>2, <1>3, <1>4, <1>5, <1>6, <1>7, <1>8, <1>9
        DEF ProcStep, Moves

\* One verdict more.
LEMMA VerdictAdded ==
  ASSUME verdicts \in VerdictTable, NEW by \in {"own", "stranger"},
         NEW asked \in Questions, NEW says \in Says,
         verdicts' = [verdicts EXCEPT ![by][asked][says] = @ + 1]
  PROVE  /\ verdicts' \in VerdictTable
         /\ \A other \in {"own", "stranger"} \ {by} : verdicts'[other] = verdicts[other]
         /\ \A q \in Questions, v \in Says :
              verdicts'[by][q][v] = verdicts[by][q][v]
                                    + (IF q = asked /\ v = says THEN 1 ELSE 0)
<1>1. verdicts[by][asked][says] + 1 \in Nat /\ verdicts[by] \in [Questions -> [Says -> Nat]]
      /\ verdicts[by][asked] \in [Says -> Nat]
  BY DEF VerdictTable
<1>2. verdicts' = [verdicts EXCEPT ![by] =
        [verdicts[by] EXCEPT ![asked] =
          [verdicts[by][asked] EXCEPT ![says] = verdicts[by][asked][says] + 1]]]
  OBVIOUS
<1> DEFINE row == [verdicts[by][asked] EXCEPT ![says] = verdicts[by][asked][says] + 1]
           table == [verdicts[by] EXCEPT ![asked] = row]
<1>3. row \in [Says -> Nat]
      /\ \A v \in Says : row[v] = verdicts[by][asked][v] + (IF v = says THEN 1 ELSE 0)
  BY <1>1
<1> HIDE DEF row
<1>4. table \in [Questions -> [Says -> Nat]] /\ table[asked] = row
      /\ \A q \in Questions \ {asked} : table[q] = verdicts[by][q]
  BY <1>1, <1>3
<1> HIDE DEF table
<1>5. verdicts' = [verdicts EXCEPT ![by] = table]
  BY <1>2 DEF row, table
<1>6. verdicts' \in VerdictTable /\ verdicts'[by] = table
      /\ \A other \in {"own", "stranger"} \ {by} : verdicts'[other] = verdicts[other]
  BY <1>4, <1>5 DEF VerdictTable
<1>7. ASSUME NEW q \in Questions, NEW v \in Says
      PROVE  verdicts'[by][q][v] = verdicts[by][q][v]
                                   + (IF q = asked /\ v = says THEN 1 ELSE 0)
  <2>1. CASE q = asked
    BY <1>3, <1>4, <1>6, <2>1
  <2>2. CASE q # asked
    <3>1. verdicts[by][q][v] \in Nat
      BY <1>1
    <3> QED BY <1>4, <1>6, <2>2, <3>1
  <2> QED BY <2>1, <2>2
<1> QED BY <1>6, <1>7

\* Steps of nobody here.
LEMMA OthersStep ==
  ASSUME TypeInv, ProcInv,
         UNCHANGED <<sending, pool, pc, job, memory, boots, feed>>,
         verdicts'["own"] = verdicts["own"],
         verdicts' \in VerdictTable
  PROVE  ProcStep("api")
<1>1. "api" \in Processes /\ Labelled("api") /\ Sends("api")
  BY RegistryAssumption DEF ProcInv
<1>2. Labelled("api")' /\ Sends("api")'
  BY <1>1 DEF Labelled, Sends, IsCall
<1>3. /\ boots' = boots /\ boots \in [Processes -> Nat]
      /\ DOMAIN pc' = Processes /\ DOMAIN memory' = Processes
      /\ DOMAIN job' = Processes /\ DOMAIN sending' = Processes
  BY DEF TypeInv
<1>4. LivesOn("api")
  BY <1>1, <1>3, Remembering DEF LivesOn, TypeInv
<1>5. ASSUME NEW k \in Lines, Owes("api", k)' PROVE Owes("api", k)
  BY <1>5 DEF Owes
<1> QED BY <1>1, <1>2, <1>3, <1>4, <1>5 DEF ProcStep

LEMMA OutsideStep ==
  ASSUME TypeInv, ProcInv,
         \/ Halt \/ UNCHANGED vars \/ \E asked \in Contested : StrangerResolves(asked)
         \/ \E i \in Identities : Transfer(i)
         \/ \E slot \in Slots, root \in Roots[Stranger] : StrangerAnchors(slot, root)
  PROVE  ProcStep("api")
<1>1. verdicts \in VerdictTable
  BY DEF TypeInv
<1>2. UNCHANGED <<sending, pool, pc, job, memory, boots, feed>>
  BY DEF Halt, StrangerResolves, Transfer, StrangerAnchors, vars, sendVars,
         chainVars, registryVars, procVars
<1>3. CASE \E asked \in Contested : StrangerResolves(asked)
  <2>0. PICK asked \in Contested : StrangerResolves(asked)
    BY <1>3
  <2>1. PICK outcome \in Outcomes :
          verdicts' = [verdicts EXCEPT !["stranger"][asked][outcome] = @ + 1]
    BY <2>0 DEF StrangerResolves, Resolved
  <2>2. /\ asked \in Questions /\ outcome \in Says
        /\ verdicts["stranger"][asked][outcome] + 1 \in Nat
    BY <1>1, RegistryAssumption DEF VerdictTable, Says
  <2>3. verdicts' \in VerdictTable
        /\ verdicts'["own"] = verdicts["own"]
    BY <1>1, <2>1, <2>2, VerdictAdded
  <2> QED BY <1>2, <2>3, OthersStep
<1>4. CASE verdicts' = verdicts
  BY <1>1, <1>2, <1>4, OthersStep
<1> QED BY <1>3, <1>4
        DEF Halt, Transfer, StrangerAnchors, vars, chainVars, registryVars

-----------------------------------------------------------------------------
(***************************************************************************)
(* The chain mines a transaction.                                          *)
(***************************************************************************)
LEMMA ResultsAre ==
  ASSUME NEW call, NEW result \in Results(call)
  PROVE  /\ result \in {"ok", "reverted"} \cup Outcomes
         /\ result \in Outcomes => call.do = "resolve"
         /\ result = "ok" =>
              \/ call.do \in {"register", "record", "anchor"}
              \/ call.do = "resolve" /\ call.asked[1] = "other"
BY DEF Results, Outcomes, Says

\* One copy more in a bag.
Tally(B) == B \in [DOMAIN B -> Nat] /\ IsFiniteSet(DOMAIN B)
Added(C, B, c) ==
  /\ DOMAIN C = DOMAIN B \cup {c} /\ C \in [DOMAIN C -> Nat]
  /\ \A x \in DOMAIN B \ {c} : C[x] = B[x]
  /\ C[c] = IF c \in DOMAIN B THEN B[c] + 1 ELSE 1
IsOf(call, k) == call.kind = k[1] /\ call.about = k[2]
OfLine(B, k) == Total(B, {x \in DOMAIN B : IsOf(x, k)})

LEMMA CopyAdded ==
  ASSUME NEW B, Tally(B), NEW c
  PROVE  Added(B (+) SetToBag({c}), B, c)
<1>0. B \in [DOMAIN B -> Nat]
  BY DEF Tally
<1> DEFINE S == SetToBag({c})
           C == B (+) S
<1>1. DOMAIN S = {c} /\ S[c] = 1
  BY DEF SetToBag
<1> HIDE DEF S
<1>2. C = [e \in DOMAIN B \cup {c} |->
             (IF e \in DOMAIN B THEN B[e] ELSE 0)
             + (IF e \in {c} THEN S[e] ELSE 0)]
  BY <1>1 DEF (+)
<1> HIDE DEF C
<1>3. /\ DOMAIN C = DOMAIN B \cup {c}
      /\ \A e \in DOMAIN B \cup {c} :
           C[e] = (IF e \in DOMAIN B THEN B[e] ELSE 0)
                  + (IF e \in {c} THEN S[e] ELSE 0)
      /\ C = [e \in DOMAIN C |-> C[e]]
  BY <1>2
<1>4. \A x \in DOMAIN B \ {c} : C[x] = B[x]
  <2> SUFFICES ASSUME NEW x \in DOMAIN B \ {c} PROVE C[x] = B[x]
    OBVIOUS
  <2>1. C[x] = B[x] + 0 /\ B[x] \in Nat
    BY <1>0, <1>3
  <2> QED BY <2>1
<1>5. C[c] = IF c \in DOMAIN B THEN B[c] + 1 ELSE 1
  <2>1. C[c] = (IF c \in DOMAIN B THEN B[c] ELSE 0) + 1
    BY <1>1, <1>3
  <2> QED BY <2>1
<1>6. \A x \in DOMAIN C : C[x] \in Nat
  BY <1>0, <1>3, <1>4, <1>5
<1>7. C \in [DOMAIN C -> Nat]
  BY <1>3, <1>6
<1> QED BY <1>3, <1>4, <1>5, <1>7 DEF C, S, Added

\* What the record of call adds to what the feed reports.
LEMMA ReportedAdded ==
  ASSUME NEW B, Tally(B), NEW c, NEW C, Added(C, B, c), NEW k
  PROVE  OfLine(C, k) = OfLine(B, k) + (IF IsOf(c, k) THEN 1 ELSE 0)
<1> USE DEF Tally, Added, OfLine
<1> DEFINE S == {x \in DOMAIN B : IsOf(x, k)}
           T == {x \in DOMAIN C : IsOf(x, k)}
<1>1. IsFiniteSet(S) /\ \A x \in S : B[x] \in Nat
  BY FS_Subset
<1>2. Total(B, S) \in Nat
  BY <1>1, PurseFinite
<1>3. CASE ~IsOf(c, k)
  <2>1. T = S /\ \A x \in S : B[x] = C[x]
    BY <1>3
  <2>2. Total(B, S) = Total(C, S)
    BY <2>1, TotalEq
  <2> HIDE DEF S, T
  <2>3. Total(C, T) = Total(B, S) + 0
    BY <1>2, <2>1, <2>2
  <2> QED BY <1>3, <2>3 DEF S, T
<1>4. CASE IsOf(c, k) /\ c \in DOMAIN B
  <2>1. /\ T = S /\ c \in S /\ C[c] = B[c] + 1
        /\ \A y \in S : B[y] \in Nat /\ C[y] \in Nat
        /\ \A y \in S \ {c} : B[y] = C[y]
    BY <1>4
  <2>2. Total(C, S) = Total(B, S) + C[c] - B[c]
    <3> HIDE DEF S, T
    <3>1. /\ Total(B, S) = B[c] + Total(B, S \ {c})
          /\ Total(C, S) = C[c] + Total(C, S \ {c})
      BY <1>1, <2>1, TotalRemove
    <3>2. Total(B, S \ {c}) = Total(C, S \ {c})
      BY <2>1, TotalEq
    <3>3. IsFiniteSet(S \ {c})
      BY <1>1, FS_RemoveElement
    <3>4. Total(B, S \ {c}) \in Nat
      BY <1>1, <3>3, PurseFinite
    <3> QED BY <2>1, <3>1, <3>2, <3>4
  <2>3. B[c] \in Nat
    BY <1>4
  <2> HIDE DEF S, T
  <2>4. Total(C, S) = Total(B, S) + 1
    BY <1>2, <2>1, <2>2, <2>3
  <2> QED BY <1>4, <2>1, <2>4 DEF S, T
<1>5. CASE IsOf(c, k) /\ c \notin DOMAIN B
  <2>1. /\ T = S \cup {c} /\ c \in T /\ C[c] = 1 /\ T \ {c} = S
        /\ \A y \in T : C[y] \in Nat
        /\ \A y \in S : B[y] = C[y]
    BY <1>5
  <2>2. IsFiniteSet(T)
    <3> HIDE DEF S, T
    <3>1. IsFiniteSet(S \cup {c})
      BY <1>1, FS_AddElement
    <3> QED BY <2>1, <3>1
  <2> HIDE DEF S, T
  <2>3. Total(C, T) = C[c] + Total(C, T \ {c})
    BY <2>1, <2>2, TotalRemove
  <2>4. Total(B, S) = Total(C, S)
    BY <2>1, TotalEq
  <2>5. Total(C, T) = Total(B, S) + 1
    BY <1>2, <2>1, <2>3, <2>4
  <2> QED BY <1>5, <2>5 DEF S, T
<1> QED BY <1>3, <1>4, <1>5

\* What mining does to the processes and the pool.
LEMMA MinedDoes ==
  ASSUME TypeInv, ProcInv, NEW t \in pool, NEW result \in Results(t.call),
         Mined(t, result), UNCHANGED <<procVars, boots>>
  PROVE  /\ pool' = pool \ {t} /\ ProcInv' /\ DOMAIN sending' = Processes
         /\ \A p \in Processes :
              /\ sending'[p].at = sending[p].at
              /\ sending'[p].tx = sending[p].tx
              /\ sending'[p].receipt = IF sending[p].tx = {t} THEN result
                                       ELSE sending[p].receipt
<1>1. /\ pool' = pool \ {t}
      /\ sending' = [p \in Processes |->
           IF sending[p].tx = {t} THEN [sending[p] EXCEPT !.receipt = result]
           ELSE sending[p]]
      /\ pc' = pc /\ job' = job
  BY DEF Mined, procVars
<1>2. result \in {"ok", "reverted"} \cup Outcomes
  BY ResultsAre
<1>3. ASSUME NEW p \in Processes
      PROVE  /\ sending'[p].at = sending[p].at
             /\ sending'[p].tx = sending[p].tx
             /\ sending'[p].receipt = IF sending[p].tx = {t} THEN result
                                      ELSE sending[p].receipt
             /\ DOMAIN sending'[p] = SendFields
             /\ Sends(p) /\ Labelled(p)
  <2>1. Sends(p) /\ Labelled(p) /\ DOMAIN sending[p] = SendFields
    BY DEF ProcInv, Sends
  <2>2. CASE sending[p].tx = {t}
    <3>1. sending'[p] = [sending[p] EXCEPT !.receipt = result]
      BY <1>1, <2>2
    <3> QED BY <2>1, <2>2, <3>1 DEF SendFields
  <2>3. CASE sending[p].tx # {t}
    BY <1>1, <2>1, <2>3
  <2> QED BY <2>2, <2>3
<1>4. ASSUME NEW p \in Processes PROVE Labelled(p)' /\ Sends(p)'
  <2>1. Labelled(p)'
    BY <1>1, <1>3 DEF Labelled
  <2>2. \A u \in sending[p].tx : u.call.do = "resolve" =>
          u.call.by = p
    BY <1>3 DEF Sends
  <2>3. sending'[p].receipt \in {"none", "ok", "reverted"} \cup Outcomes
    BY <1>2, <1>3 DEF Sends
  <2> QED BY <1>1, <1>3, <2>1, <2>2, <2>3 DEF Sends, IsCall
<1>5. ProcInv'
  BY <1>1, <1>4 DEF ProcInv, IsCall
<1> QED BY <1>1, <1>3, <1>5

\* And to the feed and the verdicts.
Pulls(t, result) == t.call.do = "resolve" /\ result # "reverted"
LEMMA ExecutesDoes ==
  ASSUME TypeInv, ProcInv, NEW t \in pool, NEW result \in Results(t.call),
         Executes(t, result)
  PROVE  \/ feed' = feed /\ verdicts' = verdicts /\ ~Pulls(t, result)
         \/ /\ feed' = feed /\ Pulls(t, result)
            /\ result \in Says /\ t.call.asked \in Questions
            /\ result = "ok" => t.call.asked[1] = "other"
            /\ verdicts' = [verdicts EXCEPT !["own"][t.call.asked][result] = @ + 1]
         \/ /\ t.call.do = "record" /\ verdicts' = verdicts
            /\ ~Pulls(t, result)
            /\ feed' = feed (+) SetToBag({t.call})
<1>1. /\ result \in {"ok", "reverted"} \cup Outcomes
      /\ result \in Outcomes => t.call.do = "resolve"
      /\ result = "ok" => \/ t.call.do \in {"register", "record", "anchor"}
                          \/ t.call.do = "resolve" /\ t.call.asked[1] = "other"
      /\ t.call.do = "resolve" => t.call.asked \in Questions
  BY ResultsAre DEF ProcInv, IsCall
<1>2. CASE result = "reverted"
  BY <1>2 DEF Executes, chainVars, registryVars, Pulls
<1>3. CASE result # "reverted" /\ t.call.do = "resolve"
  BY <1>1, <1>3 DEF Executes, Resolved, Outcomes, Says, Pulls
<1>4. CASE result = "ok" /\ t.call.do = "register"
  BY <1>4 DEF Executes, Pulls
<1>5. CASE result = "ok" /\ t.call.do = "record"
  BY <1>5 DEF Executes, Pulls
<1>6. CASE result = "ok" /\ t.call.do = "anchor"
  BY <1>6 DEF Executes, registryVars, Pulls
<1> QED BY <1>1, <1>2, <1>3, <1>4, <1>5, <1>6 DEF Outcomes

\* Whoever has a verdict on the way after mining had it before, but for the
\* sender of a resolve.
Answers(t, result, k) ==
  t.call.do = "resolve" /\ result \in SaidBy(k[1]) /\ t.call.asked = k[2]
LEMMA MinedOwing ==
  ASSUME TypeInv, ProcInv, NEW t \in pool, NEW result \in Results(t.call),
         Mined(t, result), UNCHANGED <<procVars, boots>>, NEW k \in Lines
  PROVE  /\ Owing(k)' \subseteq Owing(k) \cup {t.call.by}
         /\ ~Answers(t, result, k) => Owing(k)' \subseteq Owing(k)
<1>1. \A p \in Processes :
        /\ sending'[p].at = sending[p].at
        /\ sending'[p].tx = sending[p].tx
        /\ sending'[p].receipt = IF sending[p].tx = {t} THEN result
                                 ELSE sending[p].receipt
  BY MinedDoes
<1>2. pc' = pc /\ job' = job
  BY DEF procVars
<1>3. ASSUME NEW p \in Processes, Owes(p, k)', ~Owes(p, k)
      PROVE  p = t.call.by /\ Answers(t, result, k)
  <2>1. /\ sending'[p].receipt \in SaidBy(k[1])
        /\ \E u \in sending[p].tx : u.call.do = "resolve" /\ u.call.asked = k[2]
    BY <1>1, <1>2, <1>3 DEF Owes, Records, IsRecord
  <2>2. sending'[p].receipt # sending[p].receipt
    BY <1>3, <2>1 DEF Owes
  <2>3. sending[p].tx = {t} /\ result \in SaidBy(k[1])
    BY <1>1, <2>1, <2>2
  <2>4. t.call.do = "resolve" /\ t.call.asked = k[2]
    BY <2>1, <2>3
  <2> QED BY <2>3, <2>4 DEF ProcInv, Sends, Answers
<1> QED BY <1>3 DEF Owing

\* A verdict is heard on the line it belongs to.
LEMMA HeardMore ==
  ASSUME verdicts \in VerdictTable, NEW t, NEW result \in Says, NEW k \in Lines,
         Pulls(t, result), t.call.asked \in Questions,
         verdicts' = [verdicts EXCEPT !["own"][t.call.asked][result] = @ + 1]
  PROVE  Heard(k)' = IF Answers(t, result, k) THEN Heard(k) + 1 ELSE Heard(k)
<1> DEFINE q == k[2]
           old(v) == verdicts["own"][q][v]
           new(v) == verdicts'["own"][q][v]
<1>1. /\ k[1] \in BondKinds /\ q \in Questions
      /\ {"slashed", "passed", "ok"} = Says
  BY DEF Lines, Says, Outcomes
<1>2. \A v \in Says :
        /\ old(v) \in Nat
        /\ new(v) = old(v) + (IF q = t.call.asked /\ v = result THEN 1 ELSE 0)
  BY <1>1, VerdictAdded DEF VerdictTable
<1>3. /\ Heard(k) = IF k[1] = "BOND_SLASHED" THEN old("slashed")
                     ELSE old("passed") + old("ok")
      /\ Heard(k)' = IF k[1] = "BOND_SLASHED" THEN new("slashed")
                      ELSE new("passed") + new("ok")
  BY DEF Heard
<1>4. Answers(t, result, k) <=>
        q = t.call.asked /\ result \in (IF k[1] = "BOND_SLASHED" THEN {"slashed"}
                                       ELSE {"passed", "ok"})
  BY DEF Answers, SaidBy, Pulls
<1> HIDE DEF q, old, new
<1>5. CASE k[1] = "BOND_SLASHED"
  BY <1>1, <1>2, <1>3, <1>4, <1>5
<1>6. CASE k[1] # "BOND_SLASHED"
  BY <1>1, <1>2, <1>3, <1>4, <1>6
<1> QED BY <1>5, <1>6

\* The books after mining.
LEMMA MinedLedger ==
  ASSUME TypeInv, ProcInv, LedgerInv, NEW t \in pool,
         NEW result \in Results(t.call), Mined(t, result), Executes(t, result),
         UNCHANGED <<procVars, boots>>
  PROVE  LedgerInv'
<1> SUFFICES ASSUME NEW k \in Lines
             PROVE  Shown(k)' + Cardinality(OnItsWay(k)')
                      + Cardinality(Owing(k)')
                      <= Heard(k)'
  <2>0. verdicts \in VerdictTable
    BY DEF TypeInv
  <2>1. ASSUME NEW q \in Questions, q[1] = "config"
        PROVE  verdicts'["own"][q]["ok"] = 0
    <3>1. verdicts["own"][q]["ok"] = 0 /\ "ok" \in Says
      BY <2>1 DEF LedgerInv, Says
    <3>2. CASE verdicts' = verdicts
      BY <3>1, <3>2
    <3>3. CASE /\ result \in Says /\ t.call.asked \in Questions
               /\ result = "ok" => t.call.asked[1] = "other"
               /\ verdicts' = [verdicts EXCEPT !["own"][t.call.asked][result] = @ + 1]
      <4>1. verdicts'["own"][q]["ok"] = verdicts["own"][q]["ok"]
              + (IF q = t.call.asked /\ "ok" = result THEN 1 ELSE 0)
        BY <2>0, <3>1, <3>3, VerdictAdded
      <4> QED BY <2>1, <3>1, <3>3, <4>1
    <3> QED BY <3>2, <3>3, ExecutesDoes
  <2> QED BY <2>1 DEF LedgerInv
<1> DEFINE r == Shown(k)
           w == Cardinality(OnItsWay(k))
           o == Cardinality(Owing(k))
           v == Heard(k)
           r2 == Shown(k)'
           w2 == Cardinality(OnItsWay(k)')
           o2 == Cardinality(Owing(k)')
           v2 == Heard(k)'
<1>1. /\ IsFiniteSet(OnItsWay(k)) /\ w \in Nat
      /\ IsFiniteSet(Owing(k)) /\ o \in Nat /\ r \in Nat
  BY LedgerSets
<1>2. r + w + o <= v /\ v \in Nat
  BY HeardIsNat DEF LedgerInv, TypeInv
<1>3. OnItsWay(k)' = OnItsWay(k) \ {t}
  BY MinedDoes DEF OnItsWay, Records, IsRecord
<1>4. w2 \in Nat /\ w2 <= w /\ (Records(t, k) => w2 = w - 1)
  <2>1. IsFiniteSet(OnItsWay(k) \ {t}) /\ w2 \in Nat /\ w2 <= w
    BY <1>1, <1>3, FS_Subset, FS_CardinalityType
  <2>2. ASSUME Records(t, k) PROVE w2 = w - 1
    <3>1. t \in OnItsWay(k)
      BY <2>2 DEF OnItsWay
    <3> QED BY <1>1, <1>3, <3>1, FS_RemoveElement
  <2> QED BY <2>1, <2>2
<1>5. /\ Owing(k)' \subseteq Owing(k) \cup {t.call.by}
      /\ ~Answers(t, result, k) => Owing(k)' \subseteq Owing(k)
  BY MinedOwing
<1>6. /\ o2 \in Nat /\ o2 <= o + 1
      /\ ~Answers(t, result, k) => o2 <= o
  <2>1. /\ IsFiniteSet(Owing(k) \cup {t.call.by})
        /\ Cardinality(Owing(k) \cup {t.call.by}) \in {o, o + 1}
    BY <1>1, FS_AddElement
  <2>2. /\ IsFiniteSet(Owing(k)') /\ o2 \in Nat
        /\ o2 <= Cardinality(Owing(k) \cup {t.call.by})
    BY <1>5, <2>1, FS_Subset, FS_CardinalityType
  <2>3. ~Answers(t, result, k) => o2 <= o
    BY <1>1, <1>5, FS_Subset
  <2> HIDE DEF o, o2
  <2> QED BY <1>1, <2>1, <2>2, <2>3
<1>7. Answers(t, result, k) => Pulls(t, result)
  BY DEF Answers, Pulls, SaidBy
<1>8. CASE feed' = feed /\ verdicts' = verdicts /\ ~Pulls(t, result)
  <2>1. r2 = r /\ v2 = v
    BY <1>8 DEF Shown, Reported, Heard
  <2>2. o2 <= o
    BY <1>6, <1>7, <1>8
  <2> HIDE DEF r, w, o, v, r2, w2, o2, v2
  <2>3. r2 + w2 + o2 <= v2
    BY <1>1, <1>2, <1>4, <1>6, <2>1, <2>2
  <2> QED BY <2>3 DEF r2, w2, o2, v2
<1>9. CASE /\ feed' = feed /\ Pulls(t, result)
           /\ result \in Says /\ t.call.asked \in Questions
           /\ verdicts' = [verdicts EXCEPT !["own"][t.call.asked][result] = @ + 1]
  <2>1. r2 = r
    BY <1>9 DEF Shown, Reported
  <2>2. v2 = IF Answers(t, result, k) THEN v + 1 ELSE v
    BY <1>9, HeardMore DEF TypeInv
  <2> HIDE DEF r, w, o, v, r2, w2, o2, v2
  <2>3. CASE Answers(t, result, k)
    <3>1. r2 + w2 + o2 <= v2
      BY <1>1, <1>2, <1>4, <1>6, <2>1, <2>2, <2>3
    <3> QED BY <3>1 DEF r2, w2, o2, v2
  <2>4. CASE ~Answers(t, result, k)
    <3>1. r2 + w2 + o2 <= v2
      BY <1>1, <1>2, <1>4, <1>6, <2>1, <2>2, <2>4
    <3> QED BY <3>1 DEF r2, w2, o2, v2
  <2> QED BY <2>3, <2>4
<1>10. CASE /\ t.call.do = "record" /\ verdicts' = verdicts
            /\ ~Pulls(t, result)
            /\ feed' = feed (+) SetToBag({t.call})
  <2>0. Tally(feed)
    BY DEF TypeInv, Tally
  <2>1. Added(feed', feed, t.call)
    BY <1>10, <2>0, CopyAdded
  <2>2. r2 = r + (IF IsOf(t.call, k) THEN 1 ELSE 0)
    <3>1. OfLine(feed', k) = OfLine(feed, k) + (IF IsOf(t.call, k) THEN 1 ELSE 0)
      BY <2>0, <2>1, ReportedAdded
    <3> QED BY <3>1 DEF Shown, Reported, BagToSet, OfLine, IsOf
  <2>3. v2 = v /\ o2 <= o
    BY <1>6, <1>7, <1>10 DEF Heard
  <2>4. IsOf(t.call, k) => w2 = w - 1
    BY <1>4, <1>10 DEF Records, IsRecord, IsOf
  <2> HIDE DEF r, w, o, v, r2, w2, o2, v2
  <2>5. r2 + w2 + o2 <= v2
    BY <1>1, <1>2, <1>4, <1>6, <2>2, <2>3, <2>4
  <2> QED BY <2>5 DEF r2, w2, o2, v2
<1> QED BY <1>8, <1>9, <1>10, ExecutesDoes

LEMMA MineStep ==
  ASSUME TypeInv, ProcInv, MemoryInv, LedgerInv, NEW t \in pool, Mine(t)
  PROVE  TypeInv' /\ ProcInv' /\ MemoryInv' /\ LedgerInv'
<1>1. PICK result \in Results(t.call) :
        Mined(t, result) /\ Executes(t, result)
  BY DEF Mine
<1>2. UNCHANGED <<procVars, boots, pc, job, memory>>
  BY DEF Mine, procVars
<1>3. ProcInv' /\ LedgerInv'
  BY <1>1, <1>2, MinedDoes, MinedLedger
<1>4. /\ pool' = pool \ {t} /\ DOMAIN sending' = Processes
      /\ \A p \in Processes : sending'[p].tx = sending[p].tx
  BY <1>1, <1>2, MinedDoes
<1>5. \/ feed' = feed
      \/ t.call.do = "record" /\ feed' = feed (+) SetToBag({t.call})
  BY <1>1, ExecutesDoes
<1>6. /\ feed' \in [DOMAIN feed' -> Nat] /\ IsFiniteSet(DOMAIN feed')
      /\ \A call \in DOMAIN feed' :
           call \in DOMAIN feed \/ (call = t.call /\ IsRecord(t))
  <2>1. CASE feed' = feed
    BY <2>1 DEF TypeInv
  <2>2. CASE t.call.do = "record" /\ feed' = feed (+) SetToBag({t.call})
    <3>0. Tally(feed)
      BY DEF TypeInv, Tally
    <3>1. Added(feed', feed, t.call)
      BY <2>2, <3>0, CopyAdded
    <3>2. IsFiniteSet(DOMAIN feed \cup {t.call})
      BY FS_AddElement DEF TypeInv
    <3> QED BY <2>2, <3>1, <3>2 DEF IsRecord, Added
  <2> QED BY <1>5, <2>1, <2>2
<1>7. verdicts' \in VerdictTable
  <2>1. \/ verdicts' = verdicts
        \/ /\ result \in Says /\ t.call.asked \in Questions
           /\ verdicts' = [verdicts EXCEPT !["own"][t.call.asked][result] = @ + 1]
    BY <1>1, ExecutesDoes
  <2> QED BY <2>1, VerdictAdded DEF TypeInv
<1>8. IsFiniteSet(pool')
  BY <1>4, FS_Subset DEF TypeInv
<1>9. TypeInv'
  BY <1>2, <1>4, <1>6, <1>7, <1>8 DEF TypeInv
<1>10. ASSUME NEW call, Remembered(call) PROVE Remembered(call)'
  BY <1>2, <1>10 DEF Remembered
<1>11. MemoryInv'
  <2>1. ASSUME NEW call \in DOMAIN feed' PROVE Remembered(call)'
    <3>1. Remembered(call)
      BY <1>6 DEF MemoryInv
    <3> QED BY <3>1, <1>10
  <2>2. ASSUME NEW u \in pool', IsRecord(u) PROVE Remembered(u.call)'
    <3>1. Remembered(u.call)
      BY <1>4, <2>2 DEF MemoryInv
    <3> QED BY <3>1, <1>10
  <2>3. ASSUME NEW p \in Processes, NEW u \in sending'[p].tx, IsRecord(u)
        PROVE  Remembered(u.call)'
    <3>1. Remembered(u.call)
      BY <1>4, <2>3 DEF MemoryInv
    <3> QED BY <3>1, <1>10
  <2> QED BY <2>1, <2>2, <2>3 DEF MemoryInv, IsRecord
<1> QED BY <1>3, <1>9, <1>11

-----------------------------------------------------------------------------
(***************************************************************************)
(* The anchors.                                                            *)
(***************************************************************************)
AnchorRecord == [root : AnyRoot, owner : {Operator, Stranger}]

\* The histories of the accounts after one more record in a slot: it is the
\* sender's account's, and no other account's.
LEMMA HistoryGrows ==
  ASSUME AnchorInv, NEW slot \in Slots, NEW root \in AnyRoot,
         NEW sender \in {Operator, Stranger}, Anchored(slot, root, sender),
         NEW account \in Accounts
  PROVE  LET mine == account = Account(slot, sender)
             last == Len(anchors[slot]) + 1
         IN /\ HistoryOf(account)' =
                 HistoryOf(account) \cup (IF mine THEN {last} ELSE {})
            /\ mine => SlotOf(account) = slot
            /\ \A k \in HistoryOf(account) :
                 anchors'[SlotOf(account)][k] = anchors[SlotOf(account)][k]
<1> DEFINE a == SlotOf(account)
           n == Len(anchors[slot])
           r == [root |-> root, owner |-> sender]
           H == anchors[slot]
<1>1. /\ Identities \cap {Legacy, Operator, Stranger} = {}
      /\ a \in Slots
  BY RegistryAssumption DEF SlotOf, Slots
<1>2. /\ anchors \in [Slots -> Seq(AnchorRecord)] /\ H \in Seq(AnchorRecord)
      /\ n \in Nat /\ DOMAIN H = 1 .. n
  <2>1. anchors \in [Slots -> Seq(AnchorRecord)] /\ H \in Seq(AnchorRecord)
    BY DEF AnchorInv, AnchorRecord
  <2>2. Len(H) \in Nat /\ DOMAIN H = 1 .. Len(H)
    <3> HIDE DEF H
    <3> QED BY <2>1
  <2> QED BY <2>1, <2>2
<1>3. anchors' = [anchors EXCEPT ![slot] = Append(H, r)]
  BY DEF Anchored
<1>4. /\ DOMAIN Append(H, r) = 1 .. (n + 1)
      /\ Append(H, r)[n + 1] = r
      /\ \A k \in 1 .. n : Append(H, r)[k] = H[k]
  BY <1>2
<1>5. CASE a # slot
  <2>1. anchors'[a] = anchors[a]
    BY <1>1, <1>2, <1>3, <1>5
  <2>2. account # Account(slot, sender)
    BY <1>1, <1>5 DEF Account, SlotOf, Slots
  <2>3. HistoryOf(account)' = HistoryOf(account)
    BY <2>1 DEF HistoryOf, SlotOf
  <2> QED BY <1>5, <2>1, <2>2, <2>3
<1>6. CASE a = slot
  <2>1. anchors'[slot] = Append(H, r)
    BY <1>2, <1>3
  <2>2. account = Account(slot, sender) <=> account \in Identities \/ sender = account
    BY <1>1, <1>6 DEF Account, SlotOf, Slots, Accounts
  <2>3. r.owner = sender /\ n + 1 \notin 1 .. n
        /\ 1 .. (n + 1) = (1 .. n) \cup {n + 1}
    BY <1>2
  <2>4. HistoryOf(account) =
          {k \in 1 .. n : account \in Identities \/ H[k].owner = account}
    BY <1>2, <1>6 DEF HistoryOf, SlotOf
  <2>5. HistoryOf(account)' =
          {k \in 1 .. (n + 1) :
             account \in Identities \/ Append(H, r)[k].owner = account}
    BY <1>4, <1>6, <2>1 DEF HistoryOf, SlotOf
  <2> HIDE DEF H, n, r
  <2>6. ASSUME NEW k \in 1 .. n
        PROVE  k \in HistoryOf(account)' <=> k \in HistoryOf(account)
    BY <1>4, <2>3, <2>4, <2>5
  <2>7. n + 1 \in HistoryOf(account)' <=> account = Account(slot, sender)
    BY <1>4, <2>2, <2>3, <2>5
  <2>8. HistoryOf(account) \subseteq 1 .. n
        /\ HistoryOf(account)' \subseteq (1 .. n) \cup {n + 1}
    BY <2>3, <2>4, <2>5
  <2>9. HistoryOf(account)' = HistoryOf(account) \cup
          (IF account = Account(slot, sender) THEN {n + 1} ELSE {})
    BY <2>3, <2>6, <2>7, <2>8
  <2>10. \A k \in HistoryOf(account) : anchors'[slot][k] = H[k]
    BY <1>4, <2>1, <2>8
  <2> QED BY <1>6, <2>9, <2>10 DEF H, n
<1> QED BY <1>5, <1>6

LEMMA HistoryIsFinite ==
  ASSUME AnchorInv, NEW account \in Accounts
  PROVE  /\ IsFiniteSet(HistoryOf(account))
         /\ HistoryOf(account) \subseteq 1 .. Len(anchors[SlotOf(account)])
         /\ Len(anchors[SlotOf(account)]) \in Nat
<1>1. SlotOf(account) \in Slots
  BY DEF SlotOf, Slots
<1>2. /\ Len(anchors[SlotOf(account)]) \in Nat
      /\ DOMAIN anchors[SlotOf(account)] = 1 .. Len(anchors[SlotOf(account)])
  BY <1>1 DEF AnchorInv
<1>3. HistoryOf(account) \subseteq 1 .. Len(anchors[SlotOf(account)])
  BY <1>2 DEF HistoryOf
<1>4. IsFiniteSet(1 .. Len(anchors[SlotOf(account)]))
  BY <1>2, FS_Interval
<1> QED BY <1>2, <1>3, <1>4, FS_Subset

LEMMA AnchoredStep ==
  ASSUME AnchorInv, NEW slot \in Slots, NEW root \in AnyRoot,
         NEW sender \in {Operator, Stranger}, Anchored(slot, root, sender)
  PROVE  AnchorInv'
<1> DEFINE who == Account(slot, sender)
           n == Len(anchors[slot])
           r == [root |-> root, owner |-> sender]
<1>1. who \in Accounts
  BY DEF Account, Accounts, Slots
<1>2. /\ anchors \in [Slots -> Seq(AnchorRecord)]
      /\ latest \in [Accounts -> [root : AnyRoot \cup {<< >>}, sequence : Nat]]
  BY DEF AnchorInv, AnchorRecord
<1>3. /\ anchors' = [anchors EXCEPT ![slot] = Append(anchors[slot], r)]
      /\ latest' = [latest EXCEPT ![who] =
           [root |-> root, sequence |-> latest[who].sequence + 1]]
  BY DEF Anchored, NextSequence
<1>4. anchors' \in [Slots -> Seq(AnchorRecord)]
  <2>1. r \in AnchorRecord /\ anchors[slot] \in Seq(AnchorRecord)
    BY <1>2 DEF AnchorRecord
  <2>2. Append(anchors[slot], r) \in Seq(AnchorRecord)
    BY <2>1
  <2> QED BY <1>2, <1>3, <2>2
<1>5. latest' \in [Accounts -> [root : AnyRoot \cup {<< >>}, sequence : Nat]]
  BY <1>1, <1>2, <1>3
<1>6. ASSUME NEW account \in Accounts
      PROVE  /\ latest'[account].sequence = Cardinality(HistoryOf(account)')
             /\ \A k \in HistoryOf(account)' :
                  (\A j \in HistoryOf(account)' : j <= k) =>
                    latest'[account].root = anchors'[SlotOf(account)][k].root
  <2>1. /\ latest[account].sequence = Cardinality(HistoryOf(account))
        /\ \A k \in HistoryOf(account) :
             (\A j \in HistoryOf(account) : j <= k) =>
               latest[account].root = anchors[SlotOf(account)][k].root
    BY DEF AnchorInv, AnchorsAgree
  <2>2. /\ HistoryOf(account)' =
             HistoryOf(account) \cup (IF account = who THEN {n + 1} ELSE {})
        /\ account = who => SlotOf(account) = slot
        /\ \A k \in HistoryOf(account) :
             anchors'[SlotOf(account)][k] = anchors[SlotOf(account)][k]
    BY HistoryGrows
  <2>3. CASE account # who
    <3>1. HistoryOf(account)' = HistoryOf(account) /\ latest'[account] = latest[account]
      BY <1>2, <1>3, <2>2, <2>3
    <3> QED BY <2>1, <2>2, <3>1
  <2>4. CASE account = who
    <3>1. /\ HistoryOf(account)' = HistoryOf(account) \cup {n + 1}
          /\ latest'[account] =
               [root |-> root, sequence |-> latest[account].sequence + 1]
          /\ anchors'[SlotOf(account)] = Append(anchors[slot], r)
      BY <1>1, <1>2, <1>3, <2>2, <2>4
    <3>2. IsFiniteSet(HistoryOf(account)) /\ n \in Nat
          /\ HistoryOf(account) \subseteq 1 .. n
      BY <2>2, <2>4, HistoryIsFinite
    <3>3. Cardinality(HistoryOf(account)') = Cardinality(HistoryOf(account)) + 1
      <4>1. n + 1 \notin HistoryOf(account)
        BY <3>2
      <4> QED BY <3>1, <3>2, <4>1, FS_AddElement
    <3>4. \A k \in HistoryOf(account) : k <= n /\ k \in Nat
      BY <3>2
    <3>5. ASSUME NEW k \in HistoryOf(account)',
                 \A j \in HistoryOf(account)' : j <= k
          PROVE  k = n + 1
      <4>1. n + 1 <= k
        BY <3>1, <3>5
      <4> QED BY <3>1, <3>2, <3>4, <4>1
    <3>6. Append(anchors[slot], r)[n + 1].root = root
      <4>1. Append(anchors[slot], r)[n + 1] = r
        BY <1>2
      <4> QED BY <4>1
    <3> QED BY <2>1, <3>1, <3>3, <3>5, <3>6
  <2> QED BY <2>3, <2>4
<1>7. AnchorsAgree'
  BY <1>6 DEF AnchorsAgree, SlotOf
<1> QED BY <1>4, <1>5, <1>7 DEF AnchorInv, AnchorRecord

\* No process writes an anchor; the chain does, and so does a stranger.
LEMMA AnchorsChange ==
  ASSUME ProcInv, AnchorInv, [Next]_vars
  PROVE  AnchorInv'
<1>1. CASE UNCHANGED anchorVars
  BY <1>1 DEF AnchorInv, AnchorsAgree, HistoryOf, anchorVars
<1>2. ASSUME NEW slot \in Slots, NEW root \in Roots[Stranger],
             StrangerAnchors(slot, root)
      PROVE  AnchorInv'
  BY <1>2, AnchoredStep DEF StrangerAnchors, AnyRoot
<1>3. ASSUME NEW t \in pool, Mine(t), ~UNCHANGED anchorVars
      PROVE  AnchorInv'
  <2>1. PICK result \in Results(t.call) : Executes(t, result)
    BY <1>3 DEF Mine
  <2>2. t.call.do = "anchor" /\ Anchored(t.call.slot, t.call.root, Operator)
    <3>1. /\ result \in {"ok", "reverted"} \cup Outcomes
          /\ result # "reverted" =>
               t.call.do \in {"register", "record", "anchor", "resolve"}
      BY ResultsAre
    <3> QED BY <1>3, <2>1, <3>1 DEF Executes, chainVars
  <2>3. t.call.slot \in Slots /\ t.call.root \in AnyRoot
    BY <2>2 DEF ProcInv, IsCall
  <2> QED BY <2>2, <2>3, AnchoredStep
<1>4. CASE UNCHANGED vars
  BY <1>1, <1>4 DEF vars, chainVars
<1>5. ASSUME NEW p \in Processes, Work(p) PROVE UNCHANGED anchorVars
  BY <1>5 DEF Work, Submit, SubmitOnly, SubmitFails, Receipt, GiveUp,
              RecordOutcome, chainVars
<1>6. ASSUME StartApi \/ StartRunner \/ StartSeeder \/ Seed \/ Halt
             \/ RunnerAdvises \/ RunnerRecordsQuery
             \/ QueryFails \/ RunnerResolves \/ NobodyToResolve
      PROVE  UNCHANGED anchorVars
  BY <1>6 DEF StartApi, StartRunner, StartSeeder, Seed, Halt, RunnerAdvises, RunnerRecordsQuery, QueryFails, RunnerResolves,
              NobodyToResolve, chainVars
<1>7. ASSUME NEW i \in Identities, RegisterRoute(i) \/ Transfer(i)
      PROVE  UNCHANGED anchorVars
  BY <1>7 DEF RegisterRoute, Transfer, Accepts, chainVars
<1>8. ASSUME NEW agent, NEW asked, NEW id, NEW trace,
             \/ ResolveRoute(agent, asked) \/ AdviceRoute(agent, id, trace)
             \/ StrangerResolves(asked)
      PROVE  UNCHANGED anchorVars
  BY <1>8 DEF ResolveRoute, AdviceRoute, StrangerResolves, Accepts, chainVars
<1>9. ASSUME NEW slot, NEW root, StartAnchor(slot, root)
      PROVE  UNCHANGED anchorVars
  BY <1>9 DEF StartAnchor, chainVars
<1>10. ASSUME NEW p \in Processes, Crash(p) PROVE UNCHANGED anchorVars
  BY <1>10 DEF Crash, chainVars
<1>11. "runner" \in Processes
  BY RegistryAssumption
<1> QED
  BY <1>1, <1>2, <1>3, <1>4, <1>5, <1>6, <1>7, <1>8, <1>9, <1>10, <1>11
  DEF Next, RunnerStep

\* The invariant holds in the beginning.
LEMMA RegistryStarts ==
  ASSUME Init
  PROVE  RegistryInv
<1>1. /\ pool = {} /\ sending = [p \in Processes |-> NoSend]
      /\ feed = EmptyBag
      /\ verdicts = [by \in {"own", "stranger"} |->
                      [q \in Questions |-> [v \in Says |-> 0]]]
      /\ latest = [a \in Accounts |-> NoAnchor]
      /\ anchors = [i \in Slots |-> << >>]
      /\ pc = [p \in Processes |-> "off"] /\ job = [p \in Processes |-> NoJob]
      /\ memory = [p \in Processes |-> NoMemory] /\ boots = [p \in Processes |-> 0]
  BY DEF Init, SenderInit
<1>2. DOMAIN feed = {} /\ feed \in [DOMAIN feed -> Nat]
  BY <1>1 DEF EmptyBag, SetToBag
<1>3. TypeInv
  BY <1>1, <1>2, FS_EmptySet DEF TypeInv, NoMemory, VerdictTable
<1>4. ProcInv
  BY <1>1 DEF ProcInv, Labelled, Sends, NoSend, NoJob, JobFields, SendFields
<1>5. MemoryInv
  BY <1>1, <1>2 DEF MemoryInv, NoSend
<1>6. LedgerInv
  <2> SUFFICES ASSUME NEW k \in Lines
               PROVE  Shown(k) + Cardinality(OnItsWay(k))
                        + Cardinality(Owing(k))
                        <= Heard(k)
    BY <1>1 DEF LedgerInv, Says
  <2>1. Shown(k) = 0
    <3>1. {call \in BagToSet(feed) : call.kind = k[1] /\ call.about = k[2]} = {}
      BY <1>2 DEF BagToSet
    <3> QED BY <3>1, TotalEmpty DEF Shown, Reported
  <2>2. OnItsWay(k) = {}
    BY <1>1 DEF OnItsWay
  <2>3. Owing(k) = {}
    BY <1>1 DEF Owing, Owes, NoSend, SaidBy
  <2>4. Heard(k) = 0
    BY <1>1 DEF Heard, Lines, Says, Outcomes
  <2> QED BY <2>1, <2>2, <2>3, <2>4, FS_EmptySet
<1>7. AnchorInv
  <2>1. anchors \in [Slots -> Seq(AnchorRecord)]
    BY <1>1
  <2>2. latest \in [Accounts -> [root : AnyRoot \cup {<< >>}, sequence : Nat]]
    BY <1>1 DEF NoAnchor
  <2>3. ASSUME NEW account \in Accounts
        PROVE  HistoryOf(account) = {} /\ latest[account].sequence = 0
    <3>1. SlotOf(account) \in Slots
      BY DEF SlotOf, Slots
    <3> QED BY <1>1, <3>1 DEF HistoryOf, NoAnchor
  <2>4. AnchorsAgree
    BY <2>3, FS_EmptySet DEF AnchorsAgree
  <2> QED BY <2>1, <2>2, <2>4 DEF AnchorInv, AnchorRecord
<1> QED BY <1>3, <1>4, <1>5, <1>6, <1>7 DEF RegistryInv

LEMMA RegistryStep ==
  ASSUME RegistryInv, [Next]_vars
  PROVE  RegistryInv'
<1> USE DEF RegistryInv
<1>1. AnchorInv'
  BY AnchorsChange
<1>2. ASSUME NEW p \in Processes, ProcStep(p) PROVE RegistryInv'
  BY <1>1, <1>2, ProcStepKeeps
<1>3. ASSUME NEW t \in pool, Mine(t) PROVE RegistryInv'
  BY <1>1, <1>3, MineStep
<1>4. Processes = {"api", "runner", "seeder", "anchor"}
  BY RegistryAssumption
<1>5. ASSUME NEW p \in Processes, Work(p) PROVE RegistryInv'
  <2>1. ProcStep(p)
    BY <1>5, SubmitStep, WorkStep, RecordOutcomeStep DEF Work
  <2> QED BY <1>2, <2>1
<1>6. CASE StartApi \/ StartRunner \/ StartSeeder
  BY <1>2, <1>6, StartsStep
<1>7. ASSUME NEW slot \in Slots, NEW root \in Roots[Operator],
             StartAnchor(slot, root)
      PROVE  RegistryInv'
  BY <1>2, <1>4, <1>7, StartAnchorStep
<1>8. CASE \/ Halt \/ UNCHANGED vars \/ \E asked \in Contested : StrangerResolves(asked)
           \/ \E i \in Identities : Transfer(i)
           \/ \E slot \in Slots, root \in Roots[Stranger] :
                StrangerAnchors(slot, root)
  BY <1>2, <1>4, <1>8, OutsideStep
<1>9. CASE \/ \E i \in Identities : RegisterRoute(i)
           \/ \E agent \in Served, asked \in Questions : ResolveRoute(agent, asked)
           \/ \E agent \in Served, trace \in Traces :
                \E id \in TraceIds \cup {trace} : AdviceRoute(agent, id, trace)
  BY <1>2, <1>4, <1>9, RouteStep
<1>10. CASE RunnerStep
  <2>1. CASE Work("runner")
    BY <1>4, <1>5, <2>1
  <2>2. CASE ~Work("runner")
    <3>1. ProcStep("runner")
      BY <1>10, <2>2, RunnerAdvisesStep, RunnerRecordsQueryStep,
         RunnerResolvesStep, RunnerIdlesStep DEF RunnerStep
    <3> QED BY <1>2, <1>4, <3>1
  <2> QED BY <2>1, <2>2
<1>11. CASE Seed
  BY <1>2, <1>4, <1>11, SeedStep
<1>12. ASSUME NEW p \in Processes, Crash(p) PROVE RegistryInv'
  <2>1. ProcStep(p)
    BY <1>12, CrashStep
  <2> QED BY <1>2, <2>1
<1> QED
  <2> HIDE DEF RegistryInv
  <2> QED
    BY <1>3, <1>5, <1>6, <1>7, <1>8, <1>9, <1>10, <1>11, <1>12 DEF Next

LEMMA RegistryIsInvariant == Spec => []RegistryInv
BY RegistryStarts, RegistryStep, PTL DEF Spec

-----------------------------------------------------------------------------
\* Every process of the arena sends one transaction at a time, works at labels
\* of its own, and while it resolves it waits for a resolve of its own.
\* (send_tx, wait_for_receipt, registry_api, agent_runner)
THEOREM ProcessesAreTyped == Spec => [](TypeInv /\ ProcInv)
<1>1. RegistryInv => TypeInv /\ ProcInv
  BY DEF RegistryInv
<1> QED BY <1>1, RegistryIsInvariant, PTL

\* Advice on the feed can be queried, however late its transaction comes: under
\* its id its process holds its trace, or what was published under that id later.
\* (publish_advice puts the trace into the memory before it sends; MemoryService.add
\* replaces the entry of the same id.)
THEOREM PublishedAdviceIsKnown == Spec => []PublishedIsKnown
<1>1. RegistryInv => PublishedIsKnown
  <2> SUFFICES ASSUME RegistryInv, NEW p \in {"api", "runner"}, pc[p] # "off",
                      NEW call \in Recorded(p, "ADVICE_PUBLISHED")
               PROVE  LET id == call.about[1]
                          entries == memory[p].entries
                      IN /\ id \in DOMAIN entries
                         /\ entries[id].added >= call.about[3]
                         /\ entries[id].added = call.about[3] =>
                              entries[id].trace = call.about[2]
    BY DEF PublishedIsKnown
  <2>1. /\ call \in DOMAIN feed /\ call.kind = "ADVICE_PUBLISHED"
        /\ call.by[1] = p /\ call.by[2] = boots[p]
    BY DEF Recorded, BagToSet
  <2>2. Holds(memory[p], call.about)
    BY <2>1 DEF RegistryInv, MemoryInv, Remembered
  <2> QED BY <2>2 DEF Holds
<1> QED BY <1>1, RegistryIsInvariant, PTL

\* Every burn on the feed stands for a verdict of burning that one of these
\* processes pulled with the same question, every release for a verdict or for a
\* call that succeeded and said nothing; where the question is the directory's,
\* all stand for verdicts that the directory counts.  (resolve_bond raises when its
\* receipt says the call reverted; resolve_agent records once, after it.)
THEOREM OutcomesStandForVerdicts == Spec => []OutcomesAreVerdicts
<1>1. RegistryInv => OutcomesAreVerdicts
  <2> SUFFICES ASSUME RegistryInv PROVE OutcomesAreVerdicts
    OBVIOUS
  <2>0. verdicts \in VerdictTable
    BY DEF RegistryInv, TypeInv
  <2>1. ASSUME NEW k \in Lines
        PROVE  Shown(k) <= Heard(k) /\ Shown(k) \in Nat
    <3>1. Shown(k) + Cardinality(OnItsWay(k)) + Cardinality(Owing(k)) <= Heard(k)
      BY DEF RegistryInv, LedgerInv
    <3>2. /\ Shown(k) \in Nat /\ Cardinality(OnItsWay(k)) \in Nat
          /\ Cardinality(Owing(k)) \in Nat
      BY LedgerSets DEF RegistryInv
    <3>3. Heard(k) \in Nat
      BY <2>0, HeardIsNat
    <3> QED BY <3>1, <3>2, <3>3
  <2>2. ASSUME NEW q \in Questions
        PROVE  /\ Reported("BOND_SLASHED", q) <= verdicts["own"][q]["slashed"]
               /\ Reported("BOND_RELEASED", q) <=
                    verdicts["own"][q]["passed"] + verdicts["own"][q]["ok"]
               /\ Reported("BOND_RELEASED", q) \in Nat
    <3> DEFINE s == <<"BOND_SLASHED", q>>
               r == <<"BOND_RELEASED", q>>
    <3>1. s \in Lines /\ r \in Lines
      BY DEF Lines, BondKinds
    <3>2. /\ Shown(s) <= Heard(s) /\ Shown(r) <= Heard(r) /\ Shown(r) \in Nat
      BY <2>1, <3>1
    <3>3. /\ s[1] = "BOND_SLASHED" /\ s[2] = q /\ r[1] = "BOND_RELEASED" /\ r[2] = q
      OBVIOUS
    <3> HIDE DEF s, r
    <3> QED BY <3>2, <3>3 DEF Shown, Heard
  <2>3. LET directory == <<"config", Operator>>
            strangers == Listed("stranger")
        IN /\ Reported("BOND_SLASHED", directory)
                <= Reputation.losses - strangers["slashed"]
           /\ Reported("BOND_RELEASED", directory)
                <= Reputation.wins - strangers["passed"]
    <3> DEFINE q == <<"config", Operator>>
    <3>1. q \in Questions /\ q[1] = "config"
      BY RegistryAssumption
    <3>2. verdicts["own"][q]["ok"] = 0
      BY <3>1 DEF RegistryInv, LedgerInv
    <3>3. \A by \in {"own", "stranger"}, v \in Says : verdicts[by][q][v] \in Nat
      BY <2>0, <3>1 DEF VerdictTable
    <3>4. /\ Reputation.losses - Listed("stranger")["slashed"] = verdicts["own"][q]["slashed"]
          /\ Reputation.wins - Listed("stranger")["passed"] = verdicts["own"][q]["passed"]
      BY <3>3 DEF Reputation, Listed, Says, Outcomes
    <3>5. verdicts["own"][q]["passed"] + verdicts["own"][q]["ok"]
            = verdicts["own"][q]["passed"]
      BY <3>2, <3>3 DEF Says, Outcomes
    <3> QED BY <2>2, <3>1, <3>4, <3>5
  <2> QED BY <2>2, <2>3 DEF OutcomesAreVerdicts
<1> QED BY <1>1, RegistryIsInvariant, PTL

\* An account's latest anchor, its count and its history tell the same, though
\* a slot is written under several owners and the slot of the anchors by address
\* for several addresses.  (MemoryAnchor.anchor)
THEOREM AnchorsTellTheSame == Spec => []AnchorsAgree
<1>1. RegistryInv => AnchorsAgree
  BY DEF RegistryInv, AnchorInv
<1> QED BY <1>1, RegistryIsInvariant, PTL

=============================================================================
