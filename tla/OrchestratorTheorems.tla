------------------------ MODULE OrchestratorTheorems ------------------------
(***************************************************************************)
(* Proofs about Constitution, for every constitution and every call, and   *)
(* about Orchestrator: the family of agents, what its memories keep of     *)
(* their rules, and the archive that Alice and the demo write.             *)
(***************************************************************************)
EXTENDS OrchestratorProps, BasicLemmas

(***************************************************************************)
(* The walk.                                                               *)
(***************************************************************************)

\* A walk ends in "OK" just when no rule stopped it.
LEMMA OkMeansNoStop ==
  ASSUME NEW n \in Nat, NEW vs, DOMAIN vs = 1 .. n
  PROVE  FirstStop(vs) = "OK" <=> \A k \in DOMAIN vs : vs[k] = "OK"
<1> DEFINE stops == {k \in DOMAIN vs : vs[k] # "OK"}
           first == CHOOSE k \in stops : \A j \in stops : k <= j
<1>1. CASE stops = {}
  BY <1>1 DEF FirstStop
<1>2. CASE stops # {}
  <2>1. stops \subseteq Nat
    OBVIOUS
  <2>2. \E k \in stops : \A j \in stops : k <= j
    <3> HIDE DEF stops
    <3> QED BY <1>2, <2>1, LeastNat
  <2>3. first \in stops
    <3> HIDE DEF stops
    <3> QED BY <2>2
  <2>4. FirstStop(vs) = vs[first]
    BY <1>2 DEF FirstStop
  <2> QED BY <2>3, <2>4
<1> QED BY <1>1, <1>2

-----------------------------------------------------------------------------
(***************************************************************************)
(* What the contracts make of a constitution, and what Bob predicts.       *)
(***************************************************************************)

\* On every constitution the registry stores and for every call, the validator,
\* the hook and the executor, written three times, stop at the same rule for the
\* same reason.  (_enforce in the validator and the executor, preCheck)
THEOREM CopiesAgree ==
  ASSUME NEW rs, Defined(rs), NEW c
  PROVE  Validate(rs, c) = PreCheck(rs, c) /\ Execute(rs, c) = PreCheck(rs, c)
<1>1. \A k \in DOMAIN rs : /\ ValidatorOn(rs[k], c) = HookOn(rs[k], c)
                           /\ ExecutorOn(rs[k], c) = HookOn(rs[k], c)
  BY DEF Defined, ValidatorOn, HookOn, ExecutorOn
<1>2. [k \in DOMAIN rs |-> ValidatorOn(rs[k], c)] = [k \in DOMAIN rs |-> HookOn(rs[k], c)]
  BY <1>1
<1>3. [k \in DOMAIN rs |-> ExecutorOn(rs[k], c)] = [k \in DOMAIN rs |-> HookOn(rs[k], c)]
  BY <1>1
<1> QED BY <1>2, <1>3 DEF Validate, PreCheck, Execute

LEMMA BoundIsNat ==
  ASSUME NEW r \in DOMAIN RuleId
  PROVE  Encoded(Meaning[r]).bound \in Nat
<1>1. \A kind : DefaultBound(kind) \in Nat
  BY UsdcAssumption DEF UsdcAssumption, DefaultBound
<1>2. Field(Meaning[r], "bound", 0) \in Nat
  BY OrchestratorAssumption DEF OrchestratorAssumption
<1> QED BY <1>1, <1>2 DEF Encoded, Field

\* Every adapter lets an ERC-20 transfer pass by.
LEMMA TransferIsNotDecoded ==
  ASSUME NEW amount, NEW adapter
  PROVE  LET i == TransferIntent(amount).inner
         IN /\ ~Garbled(adapter, i)
            /\ DecodedSize(adapter, i) = 0 /\ DecodedLeverage(adapter, i) = 0
            /\ Transferred(i) = amount
  BY DEF TransferIntent, Garbled, Applies, Handles, DecodedSize, DecodedLeverage, Transferred

LEMMA RuleIsPredicted ==
  ASSUME NEW r \in DOMAIN RuleId, NEW amount \in Nat,
         ~Unenforceable(Encoded(Meaning[r])),
         Meaning[r].kind = "MAX_TRADE_SIZE" => "bound" \in DOMAIN Meaning[r]
  PROVE  ValidatorOn(Encoded(Meaning[r]), TransferIntent(amount))
           = Predicted(Meaning[r], TransferIntent(amount))
<1> DEFINE d == Meaning[r]   e == Encoded(d)   c == TransferIntent(amount)
<1>1. e.bound \in Nat
  BY BoundIsNat
<1>2. e.kind = d.kind /\ e.addresses = Field(d, "addresses", {})
  BY DEF Encoded
<1>3. /\ c.value = 0 /\ Transferred(c.inner) = amount /\ ~Garbled(e.adapter, c.inner)
      /\ DecodedSize(e.adapter, c.inner) = 0 /\ DecodedLeverage(e.adapter, c.inner) = 0
  BY TransferIsNotDecoded DEF TransferIntent
<1>4. ValidatorOn(e, c) = IF Breaks(e, c) THEN d.kind ELSE "OK"
  BY <1>2, <1>3 DEF ValidatorOn, Judged
<1>5. Breaks(e, c) <=> PredictedBreak(d, c)
  <2>1. CASE d.kind = "MAX_TRADE_SIZE"
    <3>1. e.bound = d.bound /\ Field(d, "bound", 0) = d.bound
      BY <2>1 DEF Encoded, Field
    <3> HIDE DEF d, e, c
    <3>2. Breaks(e, c) <=> (amount > e.bound)
      BY <1>1, <1>2, <1>3, <2>1 DEF Breaks
    <3>3. ~Listed(d, c)
      BY <2>1 DEF Listed
    <3>4. PredictedBreak(d, c) <=> (amount > d.bound)
      BY <1>1, <1>3, <2>1, <3>1, <3>3 DEF PredictedBreak
    <3> QED BY <3>1, <3>2, <3>4
  <2>2. CASE d.kind # "MAX_TRADE_SIZE"
    <3> HIDE DEF d, e, c
    <3> QED BY <1>1, <1>2, <1>3, <2>2 DEF Breaks, PredictedBreak, Listed, Field
  <2> QED BY <2>1, <2>2
<1> QED BY <1>4, <1>5 DEF Predicted

LEMMA OnChainFacts ==
  ASSUME NEW rules \in Seq(DOMAIN RuleId)
  PROVE  /\ DOMAIN OnChain(rules) = 1 .. Len(rules) /\ Len(rules) \in Nat
         /\ DOMAIN Dicts(rules) = 1 .. Len(rules)
         /\ \A k \in 1 .. Len(rules) :
              /\ rules[k] \in DOMAIN RuleId
              /\ Dicts(rules)[k] = Meaning[rules[k]]
              /\ OnChain(rules)[k] = Encoded(Meaning[rules[k]])
              /\ OnChain(rules)[k].bound \in Nat
              /\ OnChain(rules)[k].kind = Meaning[rules[k]].kind
<1>1. DOMAIN rules = 1 .. Len(rules) /\ Len(rules) \in Nat
  OBVIOUS
<1>2. \A k \in 1 .. Len(rules) : rules[k] \in DOMAIN RuleId
  OBVIOUS
<1>3. /\ DOMAIN Dicts(rules) = 1 .. Len(rules)
      /\ \A k \in 1 .. Len(rules) : Dicts(rules)[k] = Meaning[rules[k]]
  BY <1>1 DEF Dicts
<1>4. /\ DOMAIN OnChain(rules) = 1 .. Len(rules)
      /\ \A k \in 1 .. Len(rules) : OnChain(rules)[k] = Encoded(Meaning[rules[k]])
  BY <1>3 DEF OnChain, EncodedRules
<1>5. \A k \in 1 .. Len(rules) : OnChain(rules)[k].bound \in Nat
  BY <1>2, <1>4, BoundIsNat
<1>6. \A k \in 1 .. Len(rules) : OnChain(rules)[k].kind = Meaning[rules[k]].kind
  BY <1>4 DEF Encoded
<1> QED BY <1>1, <1>2, <1>3, <1>4, <1>5, <1>6

LEMMA ValidationIsPredicted ==
  ASSUME NEW rules \in Seq(DOMAIN RuleId), NEW amount \in Nat,
         Defined(OnChain(rules)), SaysItsCaps(rules)
  PROVE  Validate(OnChain(rules), TransferIntent(amount)) = Label(rules, amount)
<1> DEFINE c == TransferIntent(amount)   rs == OnChain(rules)   ds == Dicts(rules)
<1>1. ASSUME NEW k \in 1 .. Len(rules)
      PROVE  ValidatorOn(rs[k], c) = Predicted(ds[k], c)
  <2>1. ~Unenforceable(Encoded(Meaning[rules[k]]))
    BY OnChainFacts DEF Defined
  <2>2. Meaning[rules[k]].kind = "MAX_TRADE_SIZE" => "bound" \in DOMAIN Meaning[rules[k]]
    BY OnChainFacts DEF SaysItsCaps, DictCaps
  <2>3. rules[k] \in DOMAIN RuleId
    BY OnChainFacts
  <2>4. ValidatorOn(Encoded(Meaning[rules[k]]), c) = Predicted(Meaning[rules[k]], c)
    BY <2>1, <2>2, <2>3, RuleIsPredicted
  <2> QED BY <2>4, OnChainFacts
<1>2. DOMAIN rs = 1 .. Len(rules) /\ DOMAIN ds = 1 .. Len(rules)
  BY OnChainFacts
<1>3. [k \in DOMAIN rs |-> ValidatorOn(rs[k], c)] = [k \in DOMAIN ds |-> Predicted(ds[k], c)]
  <2> HIDE DEF c, rs, ds
  <2> QED BY <1>1, <1>2
<1> QED BY <1>3 DEF Validate, Label, Classify

\* A transfer that no rule stops is within every cap.
LEMMA OkIsWithinCaps ==
  ASSUME NEW rules \in Seq(DOMAIN RuleId), NEW amount \in Nat,
         Validate(OnChain(rules), TransferIntent(amount)) = "OK",
         NEW k \in CapsOf(OnChain(rules))
  PROVE  amount <= OnChain(rules)[k].bound
<1> DEFINE c == TransferIntent(amount)   rs == OnChain(rules)
           vs == [i \in DOMAIN rs |-> ValidatorOn(rs[i], c)]
<1>1. DOMAIN vs = 1 .. Len(rules) /\ Len(rules) \in Nat
  BY OnChainFacts
<1>2. FirstStop(vs) = "OK"
  BY DEF Validate
<1>3. k \in DOMAIN vs /\ rs[k].kind = "MAX_TRADE_SIZE" /\ rs[k].bound \in Nat
  BY OnChainFacts DEF CapsOf
<1>4. vs[k] = "OK"
  <2> HIDE DEF vs
  <2> QED BY <1>1, <1>2, <1>3, OkMeansNoStop
<1>5. ValidatorOn(rs[k], c) = "OK"
  BY <1>3, <1>4
<1>6. ~Breaks(rs[k], c)
  <2> HIDE DEF rs, c
  <2> QED BY <1>3, <1>5 DEF ValidatorOn, Judged, Unenforceable, NeedsAdapter
<1>7. ~(Transferred(c.inner) > rs[k].bound)
  <2> HIDE DEF rs, c
  <2> QED BY <1>3, <1>6 DEF Breaks
<1>8. Transferred(c.inner) = amount
  BY TransferIsNotDecoded
<1> QED BY <1>3, <1>7, <1>8

LEMMA LabelsAreTrue ==
  ASSUME NEW rules \in Seq(DOMAIN RuleId), NEW amount \in Nat,
         Defined(OnChain(rules)), SaysItsCaps(rules)
  PROVE  LabelIsTrue(rules, amount)
<1>1. Validate(OnChain(rules), TransferIntent(amount)) = Label(rules, amount)
  BY ValidationIsPredicted
<1>2. /\ PreCheck(OnChain(rules), TransferIntent(amount)) = Label(rules, amount)
      /\ Execute(OnChain(rules), TransferIntent(amount)) = Label(rules, amount)
  BY <1>1, CopiesAgree
<1>3. Label(rules, amount) = "OK" => PostCheck(OnChain(rules), amount)
  BY <1>1, OkIsWithinCaps DEF PostCheck
<1>4. EvidenceIsTrue(rules, amount)
  BY <1>1 DEF EvidenceIsTrue, Evidence
<1> QED BY <1>1, <1>2, <1>3, <1>4 DEF LabelIsTrue

\* Five times the first cap, or five USDC for a first cap of zero, breaks it.
LEMMA OversizedIsRefused ==
  ASSUME NEW rules \in Seq(DOMAIN RuleId), SaysItsCaps(rules)
  PROVE  LET size == Oversized(Dicts(rules))
         IN /\ size \in Nat
            /\ CapsOf(OnChain(rules)) # {} => Label(rules, size) # "OK"
<1> DEFINE ds == Dicts(rules)   caps == DictCaps(ds)   size == Oversized(ds)
           k == CHOOSE k \in caps : \A j \in caps : k <= j
           b == Field(ds[k], "bound", 0)
<1>1. FirstCap(ds) \in Nat
  <2>1. CASE caps = {}
    BY <2>1 DEF FirstCap
  <2>2. CASE caps # {}
    <3>1. caps \subseteq Nat
      BY OnChainFacts DEF DictCaps
    <3>2. k \in caps
      <4> HIDE DEF caps
      <4> QED BY <2>2, <3>1, LeastNat
    <3>3. k \in 1 .. Len(rules)
      BY <3>2, OnChainFacts DEF DictCaps
    <3>4. b \in Nat
      <4>1. ds[k] = Meaning[rules[k]] /\ rules[k] \in DOMAIN RuleId
        BY <3>3, OnChainFacts
      <4> QED BY <4>1, OrchestratorAssumption DEF OrchestratorAssumption
    <3> QED BY <2>2, <3>4 DEF FirstCap
  <2> QED BY <2>1, <2>2
<1>2. size \in Nat
  BY <1>1, UsdcAssumption DEF Oversized, UsdcAssumption
<1>3. ASSUME CapsOf(OnChain(rules)) # {} PROVE Label(rules, size) # "OK"
  <2>1. caps # {} /\ caps \subseteq Nat
    BY <1>3, OnChainFacts DEF CapsOf, DictCaps
  <2>2. k \in caps
    <3> HIDE DEF caps
    <3> QED BY <2>1, LeastNat
  <2>3. FirstCap(ds) = b /\ b \in Nat
    BY <1>1, <2>1 DEF FirstCap
  <2>4. size > b
    BY <2>3, UsdcAssumption DEF Oversized, UsdcAssumption
  <2>5. Predicted(ds[k], TransferIntent(size)) = "MAX_TRADE_SIZE"
    <3>1. ds[k].kind = "MAX_TRADE_SIZE"
      BY <2>2 DEF DictCaps
    <3>2. Transferred(TransferIntent(size).inner) = size
      BY TransferIsNotDecoded
    <3>3. PredictedBreak(ds[k], TransferIntent(size))
      BY <2>4, <3>1, <3>2 DEF PredictedBreak
    <3> QED BY <3>1, <3>3 DEF Predicted
  <2>6. k \in 1 .. Len(rules) /\ DOMAIN ds = 1 .. Len(rules) /\ Len(rules) \in Nat
    BY <2>2, OnChainFacts DEF DictCaps
  <2> DEFINE vs == [i \in DOMAIN ds |-> Predicted(ds[i], TransferIntent(size))]
  <2>7. DOMAIN vs = 1 .. Len(rules) /\ k \in DOMAIN vs /\ vs[k] # "OK"
    BY <2>5, <2>6
  <2>8. FirstStop(vs) # "OK"
    <3> HIDE DEF vs, k
    <3> QED BY <2>6, <2>7, OkMeansNoStop
  <2> QED BY <2>8 DEF Label, Classify
<1> QED BY <1>2, <1>3

\* Rules put on top of a constitution only ever stop more.
LEMMA ExtrasOnlyForbid ==
  ASSUME NEW ps \in Seq(DOMAIN RuleId), NEW extra \in Seq(DOMAIN RuleId), NEW c,
         Passes(OnChain(ps \o extra), c)
  PROVE  Passes(OnChain(ps), c)
<1> DEFINE child == OnChain(ps \o extra)   parent == OnChain(ps)
<1>1. ps \o extra \in Seq(DOMAIN RuleId)
  OBVIOUS
<1>2. /\ DOMAIN child = 1 .. Len(ps \o extra) /\ Len(ps \o extra) \in Nat
      /\ DOMAIN parent = 1 .. Len(ps) /\ Len(ps) \in Nat
  BY <1>1, OnChainFacts
<1>3. 1 .. Len(ps) \subseteq 1 .. Len(ps \o extra)
  OBVIOUS
<1>4. ASSUME NEW k \in 1 .. Len(ps) PROVE child[k] = parent[k]
  <2>1. (ps \o extra)[k] = ps[k]
    OBVIOUS
  <2>2. child[k] = Encoded(Meaning[(ps \o extra)[k]])
    BY <1>1, <1>3, OnChainFacts
  <2>3. parent[k] = Encoded(Meaning[ps[k]])
    BY OnChainFacts
  <2> QED BY <2>1, <2>2, <2>3
<1> DEFINE cv == [k \in DOMAIN child |-> ValidatorOn(child[k], c)]
           ch == [k \in DOMAIN child |-> HookOn(child[k], c)]
           pv == [k \in DOMAIN parent |-> ValidatorOn(parent[k], c)]
           ph == [k \in DOMAIN parent |-> HookOn(parent[k], c)]
<1>5. FirstStop(cv) = "OK" /\ FirstStop(ch) = "OK"
  BY DEF Passes, Validate, PreCheck
<1> HIDE DEF child, parent
<1>6. DOMAIN cv = 1 .. Len(ps \o extra) /\ DOMAIN ch = 1 .. Len(ps \o extra)
  BY <1>2
<1>7. DOMAIN pv = 1 .. Len(ps) /\ DOMAIN ph = 1 .. Len(ps)
  BY <1>2
<1>8. \A k \in 1 .. Len(ps) : pv[k] = cv[k] /\ ph[k] = ch[k]
  BY <1>2, <1>3, <1>4
<1> HIDE DEF cv, ch, pv, ph
<1>9. \A k \in 1 .. Len(ps \o extra) : cv[k] = "OK" /\ ch[k] = "OK"
  BY <1>2, <1>5, <1>6, OkMeansNoStop
<1>10. \A k \in 1 .. Len(ps) : pv[k] = "OK" /\ ph[k] = "OK"
  BY <1>3, <1>8, <1>9
<1>11. FirstStop(pv) = "OK" /\ FirstStop(ph) = "OK"
  BY <1>2, <1>7, <1>10, OkMeansNoStop
<1> QED BY <1>11 DEF Passes, Validate, PreCheck, pv, ph, parent

\* If caps only tighten, the last is the tightest.
LEMMA LastCapBinds ==
  ASSUME NEW rules \in Seq(DOMAIN RuleId), Tightening(OnChain(rules)),
         NEW spent \in Nat, PostCheck(OnChain(rules), spent),
         NEW k \in CapsOf(OnChain(rules))
  PROVE  spent <= OnChain(rules)[k].bound
<1> DEFINE rs == OnChain(rules)   caps == CapsOf(rs)
<1>1. caps \subseteq 1 .. Len(rules) /\ Len(rules) \in Nat /\ caps # {}
  BY OnChainFacts DEF CapsOf
<1>2. PICK last \in caps : \A j \in caps : j <= last
  <2> HIDE DEF caps
  <2> QED BY <1>1, GreatestBelow
<1>3. spent <= rs[last].bound
  BY <1>2 DEF PostCheck
<1>4. rs[last].bound \in Nat /\ rs[k].bound \in Nat /\ k \in Nat /\ last \in Nat
  BY <1>1, OnChainFacts
<1>5. rs[last].bound <= rs[k].bound
  <2>1. k = last \/ k < last
    BY <1>2, <1>4
  <2> QED BY <1>2, <1>4, <2>1 DEF Tightening
<1> QED BY <1>3, <1>4, <1>5

-----------------------------------------------------------------------------
(***************************************************************************)
(* The family.                                                             *)
(***************************************************************************)

\* Every agent has a constitution, and a child its parent's with rules on top.
Descends(family) ==
  /\ Len(family) \in Nat
  /\ family = [g \in 1 .. Len(family) |-> family[g]]
  /\ \A g \in DOMAIN family :
       "rules" \in DOMAIN family[g] /\ family[g].rules \in Seq(DOMAIN RuleId)
  /\ \A g \in DOMAIN family : g + 1 \in DOMAIN family =>
       \E extra \in Extras : family[g + 1].rules = family[g].rules \o extra
Lineage == Descends(agents)

LEMMA ExtrasType == Extras \subseteq Seq(DOMAIN RuleId)
<1>1. ExtraRules \subseteq DOMAIN RuleId
  BY OrchestratorAssumption DEF OrchestratorAssumption
<1>2. << >> \in Seq(DOMAIN RuleId) /\ \A r \in ExtraRules : <<r>> \in Seq(DOMAIN RuleId)
  BY <1>1
<1>3. \A e \in Extras : e = << >> \/ \E r \in ExtraRules : e = <<r>>
  BY DEF Extras
<1> QED BY <1>2, <1>3

LEMMA FamilyDescends ==
  ASSUME Lineage
  PROVE  Descends(Family) /\ 1 \in DOMAIN Family
<1>1. CASE agents # << >>
  <2>1. Family = agents /\ Descends(agents)
    BY <1>1 DEF Family, Lineage
  <2>2. Len(agents) # 0
    BY <1>1, <2>1 DEF Descends
  <2>3. Len(agents) \in Nat /\ DOMAIN agents = 1 .. Len(agents)
    BY <2>1 DEF Descends
  <2>4. 1 \in DOMAIN agents
    BY <2>2, <2>3
  <2> QED BY <2>1, <2>4
<1>2. CASE agents = << >>
  <2> DEFINE bob == [rules |-> BobRules, memory |-> WithRules(EmptyMemory, BobRules)]
  <2>1. Family = <<bob>>
    BY <1>2 DEF Family
  <2>2. "rules" \in DOMAIN bob /\ bob.rules \in Seq(DOMAIN RuleId)
    BY OrchestratorAssumption DEF OrchestratorAssumption
  <2> HIDE DEF bob
  <2>3. /\ Len(<<bob>>) = 1 /\ DOMAIN <<bob>> = {1} /\ <<bob>>[1] = bob
        /\ <<bob>> = [g \in 1 .. 1 |-> <<bob>>[g]]
    OBVIOUS
  <2>4. \A g \in DOMAIN <<bob>> : g = 1 /\ g + 1 \notin DOMAIN <<bob>>
    BY <2>3
  <2>5. Descends(<<bob>>)
    <3> DEFINE f == <<bob>>
    <3>1. /\ Len(f) \in Nat /\ f = [g \in 1 .. Len(f) |-> f[g]] /\ f[1] = bob
          /\ \A g \in DOMAIN f : g = 1 /\ g + 1 \notin DOMAIN f
      BY <2>3, <2>4
    <3> HIDE DEF f
    <3>2. Descends(f)
      BY <2>2, <3>1 DEF Descends
    <3> QED BY <3>2 DEF f
  <2> QED BY <2>1, <2>3, <2>5
<1> QED BY <1>1, <1>2

\* A change of Bob's memory leaves all constitutions alone.
LEMMA MemoryChangeDescends ==
  ASSUME NEW f, Descends(f), 1 \in DOMAIN f, NEW m
  PROVE  Descends([f EXCEPT ![1].memory = m])
<1> DEFINE h == [f EXCEPT ![1].memory = m]
<1>1. DOMAIN f = 1 .. Len(f) /\ Len(f) \in Nat
  BY DEF Descends
<1>2. DOMAIN h = 1 .. Len(f)
  BY <1>1
<1>3. h \in Seq({h[g] : g \in 1 .. Len(f)}) /\ Len(h) = Len(f)
  <2>1. h = [g \in 1 .. Len(f) |-> h[g]]
    BY <1>2
  <2> HIDE DEF h
  <2> QED BY <1>1, <1>2, <2>1
<1>4. \A g \in DOMAIN f : "rules" \in DOMAIN h[g] /\ h[g].rules = f[g].rules
  BY DEF Descends
<1>5. h = [g \in 1 .. Len(h) |-> h[g]]
  BY <1>2, <1>3
<1> HIDE DEF h
<1>6. \A g \in DOMAIN h : "rules" \in DOMAIN h[g] /\ h[g].rules \in Seq(DOMAIN RuleId)
  BY <1>1, <1>2, <1>4 DEF Descends
<1>7. ASSUME NEW g \in DOMAIN h, g + 1 \in DOMAIN h
      PROVE  \E extra \in Extras : h[g + 1].rules = h[g].rules \o extra
  BY <1>1, <1>2, <1>4, <1>7 DEF Descends
<1> QED BY <1>1, <1>3, <1>5, <1>6, <1>7 DEF Descends, h

LEMMA ChildDescends ==
  ASSUME NEW f, Descends(f), NEW g \in DOMAIN f, NEW extra \in Extras, NEW m
  PROVE  Descends(SubSeq(f, 1, g) \o <<[rules |-> f[g].rules \o extra, memory |-> m]>>)
<1> DEFINE child == [rules |-> f[g].rules \o extra, memory |-> m]
           h == SubSeq(f, 1, g) \o <<child>>
           S == {f[k] : k \in DOMAIN f}
<1>1. DOMAIN f = 1 .. Len(f) /\ Len(f) \in Nat /\ f \in Seq(S)
  BY DEF Descends
<1>2. "rules" \in DOMAIN child /\ child.rules = f[g].rules \o extra
  OBVIOUS
<1>3. child.rules \in Seq(DOMAIN RuleId)
  <2>1. f[g].rules \in Seq(DOMAIN RuleId)
    BY DEF Descends
  <2>2. extra \in Seq(DOMAIN RuleId)
    BY ExtrasType
  <2> QED BY <1>2, <2>1, <2>2
<1> HIDE DEF child
<1>4. SubSeq(f, 1, g) \in Seq(S) /\ Len(SubSeq(f, 1, g)) = g
      /\ \A k \in 1 .. g : SubSeq(f, 1, g)[k] = f[k]
  <2> HIDE DEF S
  <2> QED BY <1>1
<1>5. h \in Seq(S \cup {child}) /\ Len(h) = g + 1 /\ h[g + 1] = child
      /\ \A k \in 1 .. g : h[k] = f[k]
  <2> DEFINE front == SubSeq(f, 1, g)
  <2>1. front \in Seq(S \cup {child}) /\ <<child>> \in Seq(S \cup {child})
    <3> HIDE DEF S
    <3> QED BY <1>4
  <2> HIDE DEF S, front
  <2>2. Len(front) = g /\ g \in Nat /\ \A k \in 1 .. g : front[k] = f[k]
    BY <1>1, <1>4 DEF front
  <2>3. front \o <<child>> \in Seq(S \cup {child}) /\ Len(front \o <<child>>) = g + 1
        /\ (front \o <<child>>)[g + 1] = child
        /\ \A k \in 1 .. g : (front \o <<child>>)[k] = front[k]
    BY <2>1, <2>2
  <2> QED BY <2>2, <2>3 DEF front
<1> HIDE DEF h, S
<1>6. DOMAIN h = 1 .. g + 1 /\ Len(h) \in Nat /\ h = [k \in 1 .. Len(h) |-> h[k]] /\ g \in Nat
  BY <1>1, <1>5
<1>7. \A k \in DOMAIN h : "rules" \in DOMAIN h[k] /\ h[k].rules \in Seq(DOMAIN RuleId)
  <2>1. \A k \in 1 .. g : k \in DOMAIN f /\ h[k] = f[k]
    BY <1>1, <1>5
  <2>2. \A k \in DOMAIN h : k \in 1 .. g \/ k = g + 1
    BY <1>6
  <2> QED BY <1>2, <1>3, <1>5, <2>1, <2>2 DEF Descends
<1>8. ASSUME NEW k \in DOMAIN h, k + 1 \in DOMAIN h
      PROVE  \E e \in Extras : h[k + 1].rules = h[k].rules \o e
  <2>1. CASE k < g
    <3>1. k \in DOMAIN f /\ k + 1 \in DOMAIN f /\ h[k] = f[k] /\ h[k + 1] = f[k + 1]
      BY <1>1, <1>5, <1>6, <2>1
    <3> QED BY <3>1 DEF Descends
  <2>2. CASE k = g
    <3>1. g \in 1 .. g
      BY <1>1, <1>6
    <3>2. h[k] = f[g] /\ h[k + 1] = child
      BY <1>5, <2>2, <3>1
    <3> QED BY <1>2, <3>2
  <2>3. k < g \/ k = g
    BY <1>6, <1>8
  <2> QED BY <2>1, <2>2, <2>3
<1> QED BY <1>6, <1>7, <1>8 DEF Descends, h, child

LEMMA LineageInit == Init => Lineage
<1> SUFFICES ASSUME Init PROVE Lineage
  OBVIOUS
<1>1. agents = << >>
  BY DEF Init
<1>2. Len(<< >>) = 0 /\ DOMAIN << >> = {} /\ << >> = [g \in 1 .. 0 |-> << >>[g]]
  OBVIOUS
<1> QED BY <1>1, <1>2 DEF Lineage, Descends

LEMMA LineageNext == Lineage /\ [Next]_vars => Lineage'
<1> SUFFICES ASSUME Lineage, [Next]_vars PROVE Lineage'
  OBVIOUS
<1>1. ASSUME Descends(agents') PROVE Lineage'
  BY <1>1 DEF Lineage, Descends
<1>2. Descends(agents) /\ Descends(<< >>)
  <2>1. Len(<< >>) = 0 /\ DOMAIN << >> = {} /\ << >> = [g \in 1 .. 0 |-> << >>[g]]
    OBVIOUS
  <2> QED BY <2>1 DEF Lineage, Descends
<1>3. Descends(Family) /\ 1 \in DOMAIN Family
  BY FamilyDescends
<1>4. ASSUME NEW id PROVE Descends(Learned(Family, id))
  BY <1>3, MemoryChangeDescends DEF Learned
<1>5. CASE UNCHANGED agents
  BY <1>1, <1>2, <1>5
<1>6. CASE agents' = << >>
  BY <1>1, <1>2, <1>6
<1>7. CASE SpawnBob \/ QueryAlice
  BY <1>1, <1>3, <1>7 DEF SpawnBob, QueryAlice
<1>8. CASE RecordLesson \/ AttemptViolatingTrade
  BY <1>1, <1>4, <1>8 DEF RecordLesson, AttemptViolatingTrade
<1>9. CASE DecayMemory
  BY <1>1, <1>3, <1>9, MemoryChangeDescends DEF DecayMemory
<1>10. ASSUME NEW g \in 1 .. Generations, NEW extra \in Extras, NEW cap \in Caps,
              SpawnChild(g, extra, cap)
       PROVE  Lineage'
  <2>1. g \in DOMAIN Family
    BY <1>10 DEF SpawnChild
  <2>2. PICK m : agents' = SubSeq(Family, 1, g)
                   \o <<[rules |-> Family[g].rules \o extra,
                         memory |-> WithRules(m, extra)]>>
    BY <1>10 DEF SpawnChild
  <2>3. Descends(agents')
    BY <1>3, <2>1, <2>2, ChildDescends
  <2> QED BY <1>1, <2>3
<1>11. CASE Step
  BY <1>7, <1>8, <1>9, <1>10, <1>11 DEF Step
<1>12. ASSUME NEW v \in Seeds, NEW n \in SeedSizes, NEW force \in BOOLEAN,
               StartSeed(v, n, force)
       PROVE  UNCHANGED agents
  BY <1>12 DEF StartSeed, bobVars
<1>13. CASE StartDemo \/ Elapse
  BY <1>5, <1>13 DEF StartDemo, Elapse, bobVars
<1>14. ASSUME NEW p \in Processes, Work(p) PROVE UNCHANGED agents
  BY <1>14 DEF Work, Bootstrap, Open, Write, Replace, bobVars
<1>15. ASSUME NEW p \in Processes, Crash(p)
       PROVE  agents' = << >> \/ UNCHANGED agents
  BY <1>15 DEF Crash, bobVars
<1>16. CASE UNCHANGED vars
  BY <1>5, <1>16 DEF vars, bobVars
<1> QED BY <1>5, <1>6, <1>11, <1>12, <1>13, <1>14, <1>15, <1>16 DEF Next

THEOREM SpecLineage == Spec => []Lineage
  BY LineageInit, LineageNext, PTL DEF Spec

LEMMA PredictionsHold == Lineage => PredictionsComeTrue
<1> SUFFICES ASSUME Lineage, NEW g \in DOMAIN agents,
                    Published(Dicts(agents[g].rules)), SaysItsCaps(agents[g].rules)
             PROVE  LET rules == agents[g].rules   size == Oversized(Dicts(rules))
                    IN /\ \A amount \in Amounts \cup {size, DemoTrade} : LabelIsTrue(rules, amount)
                       /\ CapsOf(OnChain(rules)) # {} => Label(rules, size) # "OK"
  BY DEF PredictionsComeTrue
<1> DEFINE rules == agents[g].rules   size == Oversized(Dicts(rules))
<1>1. rules \in Seq(DOMAIN RuleId)
  BY DEF Lineage, Descends
<1>2. size \in Nat /\ (CapsOf(OnChain(rules)) # {} => Label(rules, size) # "OK")
  BY <1>1, OversizedIsRefused
<1>3. Amounts \cup {size, DemoTrade} \subseteq Nat
  <2>1. DemoTrade \in Nat
    BY UsdcAssumption DEF UsdcAssumption, DemoTrade
  <2> HIDE DEF size
  <2> QED BY <1>2, <2>1, JudgedAssumption DEF JudgedAssumption
<1>4. Defined(OnChain(rules))
  BY DEF Published, OnChain
<1>5. \A amount \in Amounts \cup {size, DemoTrade} : LabelIsTrue(rules, amount)
  BY <1>1, <1>3, <1>4, LabelsAreTrue
<1> QED BY <1>2, <1>5

\* Whatever the rules of Bob and of his descendants: the label an agent puts on a
\* transfer is the verdict of all contracts, and step 4 makes a violation.
\* (_classify_intent)
THEOREM SpecPredictionsComeTrue == Spec => []PredictionsComeTrue
  BY SpecLineage, PredictionsHold, PTL

LEMMA NoFreerHolds == Lineage => ChildrenAreNoFreer
<1> SUFFICES ASSUME Lineage, NEW g \in DOMAIN agents, g + 1 \in DOMAIN agents
             PROVE  LET child == OnChain(agents[g + 1].rules)
                        parent == OnChain(agents[g].rules)
                    IN /\ \A c \in Calls : Passes(child, c) => Passes(parent, c)
                       /\ Tightening(child) =>
                            \A spent \in Outflows, k \in CapsOf(child) :
                              PostCheck(child, spent) => spent <= child[k].bound
  BY DEF ChildrenAreNoFreer
<1>1. PICK extra \in Extras : agents[g + 1].rules = agents[g].rules \o extra
  BY DEF Lineage, Descends
<1>2. /\ agents[g].rules \in Seq(DOMAIN RuleId)
      /\ agents[g + 1].rules \in Seq(DOMAIN RuleId)
      /\ extra \in Seq(DOMAIN RuleId)
  BY ExtrasType DEF Lineage, Descends
<1>3. \A c \in Calls :
        Passes(OnChain(agents[g + 1].rules), c) => Passes(OnChain(agents[g].rules), c)
  BY <1>1, <1>2, ExtrasOnlyForbid
<1>4. Outflows \subseteq Nat
  BY JudgedAssumption DEF JudgedAssumption
<1> QED BY <1>2, <1>3, <1>4, LastCapBinds

\* No rule on top frees a child of what stops its parent, and the hook's last cap
\* binds like all of them as long as caps only tighten.  (spawn_child, postCheck)
THEOREM SpecChildrenAreNoFreer == Spec => []ChildrenAreNoFreer
  BY SpecLineage, NoFreerHolds, PTL

-----------------------------------------------------------------------------
(***************************************************************************)
(* What add and decay_step do to a memory.                                 *)
(***************************************************************************)

\* A memory and its entries are records of their fields.
IsEntry(e) ==
  /\ e = [kind |-> e.kind, pinned |-> e.pinned, text |-> e.text,
          code |-> e.code, faded |-> e.faded, stamp |-> e.stamp]
  /\ e.pinned \in BOOLEAN
IsMemory(m) ==
  /\ m = [centroid |-> m.centroid, entries |-> m.entries]
  /\ \A id \in Ids(m) : IsEntry(m.entries[id])

LEMMA EntryIsEntry ==
  ASSUME NEW m, NEW kind, NEW pinned \in BOOLEAN, NEW text, NEW t
  PROVE  LET e == Entry(m, kind, pinned, text, t)
         IN IsEntry(e) /\ e.text = text /\ (e.pinned <=> pinned \/ kind = "pinned")
  BY DEF Entry, IsEntry

\* What add does to a memory.
LEMMA WhatAddDoes ==
  ASSUME NEW m, IsMemory(m), NEW id, NEW e, IsEntry(e)
  PROVE  LET n == Added(m, id, e)
         IN /\ IsMemory(n) /\ Ids(n) = Ids(m) \cup {id}
            /\ n.entries[id] = e
            /\ \A i \in Ids(m) \ {id} : n.entries[i] = m.entries[i]
            /\ Pinned(n) = IF e.pinned THEN Pinned(m) \cup {id} ELSE Pinned(m) \ {id}
<1> DEFINE n == Added(m, id, e)
<1>1. n = [centroid |-> n.centroid, entries |-> n.entries]
  BY DEF Added
<1>2. DOMAIN n.entries = Ids(m) \cup {id} /\ n.entries[id] = e
      /\ \A i \in Ids(m) \ {id} : n.entries[i] = m.entries[i]
  BY DEF Added
<1> HIDE DEF n
<1>3. Ids(n) = Ids(m) \cup {id}
  BY <1>2 DEF Ids
<1>4. \A i \in Ids(n) : IsEntry(n.entries[i])
  BY <1>2, <1>3 DEF IsMemory
<1>5. Pinned(n) = IF e.pinned THEN Pinned(m) \cup {id} ELSE Pinned(m) \ {id}
  BY <1>2, <1>3 DEF Pinned
<1> QED BY <1>1, <1>2, <1>3, <1>4, <1>5 DEF IsMemory, n

\* A working entry under a trace that is not pinned moves nothing of the root.
LEMMA AddKeepsRoot ==
  ASSUME NEW m, IsMemory(m), NEW id, id \notin Pinned(m), NEW e, IsEntry(e), ~e.pinned
  PROVE  LET n == Added(m, id, e)
         IN /\ IsMemory(n) /\ Root(n) = Root(m) /\ Pinned(n) = Pinned(m)
            /\ \A i \in Pinned(m) : n.entries[i].text = m.entries[i].text
<1> DEFINE n == Added(m, id, e)
<1>1. IsMemory(n) /\ Pinned(n) = Pinned(m)
  <2>1. IsMemory(n) /\ Pinned(n) = Pinned(m) \ {id}
    BY WhatAddDoes
  <2> QED BY <2>1
<1>2. \A i \in Pinned(m) : n.entries[i] = m.entries[i]
  <2>1. Pinned(m) \subseteq Ids(m) \ {id}
    BY DEF Pinned
  <2> QED BY <2>1, WhatAddDoes
<1> HIDE DEF n
<1>3. Root(n) = Root(m)
  BY <1>1, <1>2 DEF Root
<1> QED BY <1>1, <1>2, <1>3 DEF n

\* Time takes nothing off what is pinned.
LEMMA DecayKeepsRoot ==
  ASSUME NEW m, IsMemory(m), NEW t
  PROVE  LET n == Decayed(m, t)
         IN /\ IsMemory(n) /\ Root(n) = Root(m) /\ Pinned(n) = Pinned(m)
            /\ \A i \in Pinned(m) : n.entries[i].text = m.entries[i].text
<1> DEFINE n == Decayed(m, t)
           aged == [id \in Ids(m) |-> Aged(m.entries[id], t)]
           kept == {id \in Ids(m) : ~Evicted(aged[id])}
<1>1. ASSUME NEW e, IsEntry(e)
      PROVE  LET a == Aged(e, t)
             IN IsEntry(a) /\ a.pinned = e.pinned /\ a.text = e.text /\ a.code = e.code
  <2>1. CASE e.pinned
    <3>1. Aged(e, t) = [e EXCEPT !.stamp = t]
      BY <2>1 DEF Aged
    <3> QED BY <1>1, <3>1 DEF IsEntry
  <2>2. CASE ~e.pinned
    <3> DEFINE faded == IF t > e.stamp THEN e.faded + Rate[e.kind] * (t - e.stamp) ELSE e.faded
    <3>1. Aged(e, t) = [e EXCEPT !.stamp = t, !.faded = faded]
      BY <2>2 DEF Aged
    <3> HIDE DEF faded
    <3>2. Aged(e, t) = [kind |-> e.kind, pinned |-> e.pinned, text |-> e.text,
                        code |-> e.code, faded |-> faded, stamp |-> t]
      BY <1>1, <3>1 DEF IsEntry
    <3> QED BY <1>1, <3>2 DEF IsEntry
  <2> QED BY <2>1, <2>2
<1>2. \A id \in Ids(m) : /\ IsEntry(aged[id]) /\ aged[id].pinned = m.entries[id].pinned
                         /\ aged[id].text = m.entries[id].text
                         /\ aged[id].code = m.entries[id].code
  BY <1>1 DEF IsMemory
<1>3. n = [centroid |-> m.centroid, entries |-> Restrict(aged, kept)]
  <2>1. n = [m EXCEPT !.entries = Restrict(aged, kept)]
    BY DEF Decayed
  <2> HIDE DEF n, aged, kept
  <2> QED BY <2>1 DEF IsMemory
<1>4. DOMAIN n.entries = kept /\ \A id \in kept : n.entries[id] = aged[id]
  <2> HIDE DEF n, aged, kept
  <2> QED BY <1>3 DEF Restrict
<1>5. kept \subseteq Ids(m) /\ \A id \in Ids(m) : aged[id].pinned => id \in kept
  <2> HIDE DEF n, aged
  <2> QED BY DEF Evicted
<1> HIDE DEF n, aged, kept
<1>6. IsMemory(n)
  BY <1>2, <1>3, <1>4, <1>5 DEF IsMemory, Ids
<1>7. Pinned(n) = Pinned(m)
  BY <1>2, <1>4, <1>5 DEF Pinned, Ids
<1>8. \A i \in Pinned(m) : /\ n.entries[i].text = m.entries[i].text
                           /\ n.entries[i].code = m.entries[i].code
  BY <1>2, <1>4, <1>7 DEF Pinned, Ids
<1>9. Root(n) = Root(m)
  BY <1>7, <1>8 DEF Root, Leaf
<1> QED BY <1>6, <1>7, <1>8, <1>9 DEF n

-----------------------------------------------------------------------------
(***************************************************************************)
(* The archive and those who write it.                                     *)
(***************************************************************************)

\* A memory that was built whole, for version v and a corpus of n.
Origins(v, n) == {AroundZero(v), AroundMean(v, n)}
IsBuilt(m, v, n) ==
  /\ v \in Around /\ n \in Sizes(v)
  /\ \E t \in 0 .. MaxTime, c \in Origins(v, n) : m = Build(c, n, t)
IsFile(f) == f \in {NoFile, Torn} \/ \E v \in Around : \E n \in Sizes(v) : IsBuilt(f, v, n)

\* What Alice serves: a build with as many entries as her own would have.
Serves(m) ==
  \E v \in Around : \E n \in Sizes(v) :
    IsBuilt(m, v, n) /\ n + Cardinality(RulesOf(v)) >= Size + Cardinality(AliceRules)
IsJob(j) == j.v \in Around /\ j.n \in Sizes(j.v)

Saving == {"open", "write", "replace"}

ArchiveTypes ==
  /\ now \in 0 .. MaxTime
  /\ pc \in [Processes -> {"off", "boot", "ready"} \cup Saving]
  /\ job \in [Processes -> [v : Around, n : Nat, then : {"off", "boot", "ready"}]]
  /\ handle \in [Processes -> {"off", "tmp", "archive", "gone"}]
  /\ ram = [p \in Processes |-> ram[p]]
  /\ mixed \subseteq Processes

\* No file and no memory holds a part of a build.
WholeBuilds ==
  /\ IsFile(archive) /\ IsFile(tmp)
  /\ \A p \in Processes : pc[p] # "off" => IsJob(job[p])
  /\ \A p \in Processes : pc[p] \in Saving => IsBuilt(ram[p], job[p].v, job[p].n)
  /\ pc["demo"] # "off" => job["demo"].n = Size /\ job["demo"].v = Ours
  /\ pc["demo"] = "ready" => Serves(ram["demo"])

\* A writer that another one got in the way of is in mixed as soon as there is a
\* file that could come out wrong.
TellTale ==
  /\ \A p \in Processes : pc[p] = "write" <=> handle[p] # "off"
  /\ \A p \in Processes : handle[p] = "tmp" => tmp # NoFile
  /\ \A p \in Processes : handle[p] \in {"archive", "gone"} /\ tmp # NoFile => p \in mixed
  /\ \A p \in Processes : pc[p] = "replace" /\ tmp = Torn => p \in mixed
  /\ \A p, q \in Processes :
       p # q /\ pc[p] \in {"write", "replace"} /\ handle[q] = "tmp" => p \in mixed

ArchiveInv == ArchiveTypes /\ WholeBuilds /\ TellTale

\* What the constants are assumed to be, for the proofs.
LEMMA AroundFacts ==
  /\ Ours \in Around /\ Seeds \subseteq Around /\ Around \subseteq DOMAIN Corpora
  /\ Size \in Sizes(Ours) /\ MaxTime \in Nat
  /\ \A v \in Around : /\ Sizes(v) \subseteq Nat /\ IsFiniteSet(RulesOf(v))
                      /\ Cardinality(RulesOf(v)) \in Nat
  /\ \A v \in Seeds : RulesOf(v) = AliceRules /\ SeedSizes \subseteq Sizes(v)
  BY OrchestratorAssumption, FS_CardinalityType DEF OrchestratorAssumption, Around, Sizes

LEMMA BuiltIsReadable ==
  ASSUME NEW m, NEW v, NEW n, IsBuilt(m, v, n)
  PROVE  m # NoFile /\ m # Torn
<1>1. v \in DOMAIN Corpora /\ n \in Sizes(v)
  BY AroundFacts DEF IsBuilt
<1>2. \E t \in 0 .. MaxTime : m \in Builds(v, n, t)
  BY DEF IsBuilt, Builds, Origins
<1> QED BY <1>1, <1>2, FilesAssumption DEF FilesAssumption, Readable

LEMMA ArchiveInit == Init => ArchiveInv
<1> SUFFICES ASSUME Init PROVE ArchiveInv
  OBVIOUS
<1>1. ArchiveTypes
  BY AroundFacts DEF Init, ArchiveTypes, Idle, NoJob, Processes
<1>2. WholeBuilds
  <2>1. ASSUME NEW k \in Kept, archive \in Builds(k[1], k[2], 0)
        PROVE  IsFile(archive)
    <3>1. k[1] \in Around /\ k[2] \in Sizes(k[1])
      BY OrchestratorAssumption DEF OrchestratorAssumption, Around
    <3>2. 0 \in 0 .. MaxTime
      BY AroundFacts
    <3>3. IsBuilt(archive, k[1], k[2])
      BY <2>1, <3>1, <3>2 DEF IsBuilt, Builds, Origins
    <3> QED BY <3>1, <3>3 DEF IsFile
  <2>2. IsFile(archive) /\ IsFile(tmp)
    BY <2>1 DEF Init, IsFile
  <2> QED BY <2>2 DEF Init, WholeBuilds, Idle, Processes, Saving
<1>3. TellTale
  BY DEF Init, TellTale, Idle, Processes
<1> QED BY <1>1, <1>2, <1>3 DEF ArchiveInv

LEMMA BuildIsBuilt ==
  ASSUME NEW v \in Around, NEW n \in Sizes(v), NEW c \in Origins(v, n), now \in 0 .. MaxTime
  PROVE  IsBuilt(Build(c, n, now), v, n)
  BY DEF IsBuilt

\* A step that leaves the files and the processes alone.
LEMMA ArchiveUntouched ==
  ASSUME ArchiveInv, UNCHANGED <<fileVars, procVars>>, now' \in 0 .. MaxTime
  PROVE  ArchiveInv'
<1>1. ArchiveTypes'
  BY DEF ArchiveInv, ArchiveTypes, procVars
<1>2. WholeBuilds'
  BY DEF ArchiveInv, WholeBuilds, fileVars, procVars
<1>3. TellTale'
  BY DEF ArchiveInv, TellTale, fileVars, procVars
<1> QED BY <1>1, <1>2, <1>3 DEF ArchiveInv

LEMMA WholeBuildsLater ==
  ASSUME IsFile(archive'), IsFile(tmp'),
         \A p \in Processes : pc'[p] # "off" => IsJob(job'[p]),
         \A p \in Processes : pc'[p] \in Saving => IsBuilt(ram'[p], job'[p].v, job'[p].n),
         pc'["demo"] # "off" => job'["demo"].n = Size /\ job'["demo"].v = Ours,
         pc'["demo"] = "ready" => Serves(ram'["demo"])
  PROVE  WholeBuilds'
  BY DEF WholeBuilds, IsFile, IsBuilt, IsJob, Serves

LEMMA SeedStarts ==
  ASSUME ArchiveInv, NEW v \in Seeds, NEW n \in SeedSizes, NEW force \in BOOLEAN,
         StartSeed(v, n, force)
  PROVE  ArchiveInv'
<1>1. v \in Around /\ n \in Sizes(v) /\ n \in Nat
  BY AroundFacts
<1>2. "seed" \in Processes /\ pc["seed"] = "off" /\ handle["seed"] = "off" /\ "seed" # "demo"
  BY DEF StartSeed, Processes, ArchiveInv, TellTale
<1>3. IsBuilt(Build(AroundMean(v, n), n, now), v, n)
  BY <1>1, BuildIsBuilt DEF ArchiveInv, ArchiveTypes, Origins
<1>4. /\ job' = [job EXCEPT !["seed"] = [v |-> v, n |-> n, then |-> "boot"]]
      /\ UNCHANGED <<now, fileVars, handle, mixed>>
      /\ \/ /\ pc' = [pc EXCEPT !["seed"] = "open"]
            /\ ram' = [ram EXCEPT !["seed"] = Build(AroundMean(v, n), n, now)]
         \/ pc' = [pc EXCEPT !["seed"] = "boot"] /\ ram' = ram
  BY DEF StartSeed
<1>5. ArchiveTypes'
  BY <1>1, <1>2, <1>4 DEF ArchiveInv, ArchiveTypes, Saving
<1>6. WholeBuilds'
  <2> DEFINE b == Build(AroundMean(v, n), n, now)
  <2>1. IsBuilt(b, v, n)
    BY <1>3
  <2> HIDE DEF b
  <2>2. IsFile(archive') /\ IsFile(tmp')
    BY <1>4 DEF ArchiveInv, WholeBuilds, fileVars
  <2>3. /\ pc' = [pc EXCEPT !["seed"] = pc'["seed"]] /\ pc'["seed"] \in {"open", "boot"}
        /\ job'["seed"].n = n /\ job'["seed"].v = v
        /\ \A p \in Processes \ {"seed"} : job'[p] = job[p]
        /\ pc'["seed"] = "open" => ram'["seed"] = b
        /\ \A p \in Processes \ {"seed"} : ram'[p] = ram[p] /\ pc'[p] = pc[p]
    BY <1>2, <1>4 DEF ArchiveInv, ArchiveTypes, b
  <2>4. \A p \in Processes : pc'[p] \in Saving => IsBuilt(ram'[p], job'[p].v, job'[p].n)
    BY <2>1, <2>3 DEF ArchiveInv, WholeBuilds, Saving
  <2>5. \A p \in Processes : pc'[p] # "off" => IsJob(job'[p])
    BY <1>1, <2>3 DEF ArchiveInv, WholeBuilds, IsJob
  <2>6. pc'["demo"] = pc["demo"] /\ job'["demo"] = job["demo"] /\ ram'["demo"] = ram["demo"]
    BY <1>2, <2>3 DEF Processes
  <2>7. /\ pc'["demo"] # "off" => job'["demo"].n = Size /\ job'["demo"].v = Ours
        /\ pc'["demo"] = "ready" => Serves(ram'["demo"])
    BY <2>6 DEF ArchiveInv, WholeBuilds
  <2> QED BY <2>2, <2>4, <2>5, <2>7, WholeBuildsLater
<1>7. TellTale'
  BY <1>2, <1>4 DEF ArchiveInv, ArchiveTypes, TellTale, fileVars
<1> QED BY <1>5, <1>6, <1>7 DEF ArchiveInv

LEMMA DemoStarts ==
  ASSUME ArchiveInv, StartDemo
  PROVE  ArchiveInv'
<1>1. "demo" \in Processes /\ pc["demo"] = "off" /\ handle["demo"] = "off"
  BY DEF StartDemo, Processes, ArchiveInv, TellTale
<1>2. Size \in Sizes(Ours) /\ Size \in Nat /\ Ours \in Around
  BY AroundFacts
<1>3. ArchiveTypes'
  BY <1>1, <1>2 DEF StartDemo, ArchiveInv, ArchiveTypes
<1>4. WholeBuilds'
  <2>1. /\ pc'["demo"] = "boot" /\ job'["demo"].n = Size /\ job'["demo"].v = Ours
        /\ \A p \in Processes \ {"demo"} : pc'[p] = pc[p] /\ job'[p] = job[p]
        /\ ram' = ram /\ archive' = archive /\ tmp' = tmp
    BY <1>1 DEF StartDemo, ArchiveInv, ArchiveTypes, fileVars
  <2>2. \A p \in Processes : pc'[p] # "off" => IsJob(job'[p])
    BY <1>2, <2>1 DEF ArchiveInv, WholeBuilds, IsJob
  <2>3. \A p \in Processes : pc'[p] \in Saving => IsBuilt(ram'[p], job'[p].v, job'[p].n)
    BY <2>1 DEF ArchiveInv, WholeBuilds, Saving
  <2>4. IsFile(archive') /\ IsFile(tmp')
    BY <2>1 DEF ArchiveInv, WholeBuilds
  <2> QED BY <2>1, <2>2, <2>3, <2>4, WholeBuildsLater
<1>5. TellTale'
  BY <1>1 DEF StartDemo, ArchiveInv, ArchiveTypes, TellTale, fileVars
<1> QED BY <1>3, <1>4, <1>5 DEF ArchiveInv

\* The pairs of one tag are as many as what they tag.
LEMMA TaggedCount ==
  ASSUME NEW S, IsFiniteSet(S), NEW tag
  PROVE  LET T == {<<tag, x>> : x \in S}
         IN IsFiniteSet(T) /\ Cardinality(T) = Cardinality(S)
<1> DEFINE T == {<<tag, x>> : x \in S}
           f == [x \in S |-> <<tag, x>>]
<1>1. f \in [S -> T]
  OBVIOUS
<1>2. f \in Injection(S, T)
  BY <1>1 DEF Injection, IsInjective
<1>3. f \in Surjection(S, T)
  BY <1>1 DEF Surjection
<1>4. ExistsBijection(S, T)
  BY <1>2, <1>3 DEF ExistsBijection, Bijection
<1>5. IsFiniteSet(T) /\ Cardinality(T) = Cardinality(S)
  <2> HIDE DEF T, f
  <2> QED BY <1>4, FS_Bijection
<1> QED BY <1>5

\* What a build of version v for a corpus of n is: an entry for every text and
\* every rule.
LEMMA WhatIsBuilt ==
  ASSUME NEW m, NEW v \in Around, NEW n \in Nat, NEW t, NEW c \in Origins(v, n), m = Build(c, n, t)
  PROVE  /\ Count(m) = n + Cardinality(RulesOf(v))
         /\ WholeMemory(m, v, n) /\ IsMemory(m)
         /\ m.centroid = c /\ c[2] = v
         /\ Root(m) = [id \in PinTraces(v) |-> <<<<id[2], c>>, id[2]>>]
<1> DEFINE corpus == Traces(n)   rules == PinTraces(v)
<1>1. c[2] = v /\ c # <<"unset">>
  BY DEF Origins, AroundZero, AroundMean
<1>2. Centered(c).centroid = c /\ Origin(Centered(c)) = c
  BY <1>1 DEF Centered, EmptyMemory, Origin
<1> DEFINE w(k) == Entry(Centered(c), "working", FALSE, Corpora[v].texts[k], t)
           e(r) == Entry(Centered(c), "pinned", TRUE, r, t)
<1>3. /\ m.entries = [id \in corpus \cup rules |-> IF id \in corpus THEN w(id[2]) ELSE e(id[2])]
      /\ m.centroid = c /\ m = [centroid |-> m.centroid, entries |-> m.entries]
  BY <1>1, <1>2 DEF Build
<1>4. corpus \cap rules = {}
  BY DEF Traces, PinTraces
<1>5. /\ DOMAIN m.entries = corpus \cup rules
      /\ \A id \in corpus : m.entries[id] = w(id[2])
      /\ \A id \in rules : m.entries[id] = e(id[2])
  <2> HIDE DEF w, e, corpus, rules
  <2> QED BY <1>3, <1>4
<1>6. \A k : /\ w(k).text = Corpora[v].texts[k] /\ ~w(k).pinned /\ IsEntry(w(k))
            /\ e(k).text = k /\ e(k).pinned /\ e(k).code = <<k, c>> /\ IsEntry(e(k))
  BY <1>2 DEF Entry, IsEntry
<1> HIDE DEF w, e, corpus, rules
<1>7. /\ Ids(m) = corpus \cup rules /\ Pinned(m) = rules /\ IsMemory(m)
  BY <1>3, <1>4, <1>5, <1>6 DEF Ids, Pinned, IsMemory
<1>8. WholeMemory(m, v, n)
  <2>1. \A k \in 1 .. n : <<"trace", k>> \in corpus /\ <<"trace", k>>[2] = k
    BY DEF corpus, Traces
  <2>2. \A r \in RulesOf(v) : <<"pinned", r>> \in rules /\ <<"pinned", r>>[2] = r
    BY DEF rules, PinTraces
  <2>3. Ids(m) = Traces(n) \cup PinTraces(v) /\ Pinned(m) = PinTraces(v)
    BY <1>7 DEF corpus, rules
  <2>4. \A k \in 1 .. n : m.entries[<<"trace", k>>].text = Corpora[v].texts[k]
    BY <1>5, <1>6, <2>1
  <2>5. \A r \in RulesOf(v) : m.entries[<<"pinned", r>>].text = r
    BY <1>5, <1>6, <2>2
  <2> QED BY <2>3, <2>4, <2>5 DEF WholeMemory
<1>9. Root(m) = [id \in PinTraces(v) |-> <<<<id[2], c>>, id[2]>>]
  <2>1. \A id \in rules : Leaf(m.entries[id]) = <<<<id[2], c>>, id[2]>>
    BY <1>5, <1>6 DEF Leaf
  <2> QED BY <1>7, <2>1 DEF Root, rules
<1>10. Count(m) = n + Cardinality(RulesOf(v))
  <2>1. IsFiniteSet(corpus) /\ Cardinality(corpus) = n
    <3>1. IsFiniteSet(1 .. n) /\ Cardinality(1 .. n) = n
      BY FS_Interval
    <3> QED BY <3>1, TaggedCount DEF corpus, Traces
  <2>2. IsFiniteSet(rules) /\ Cardinality(rules) = Cardinality(RulesOf(v))
    BY AroundFacts, TaggedCount DEF rules, PinTraces
  <2>3. Cardinality({}) = 0 /\ Cardinality(RulesOf(v)) \in Nat
    BY FS_EmptySet, AroundFacts
  <2>4. Cardinality(corpus \cup rules)
          = Cardinality(corpus) + Cardinality(rules) - Cardinality(corpus \cap rules)
    BY <2>1, <2>2, FS_Union
  <2>5. Ids(m) = corpus \cup rules
    BY <1>7
  <2>6. Count(m) = Cardinality(corpus \cup rules)
    BY <2>5, Zenon DEF Count
  <2>7. Cardinality(corpus \cap rules) = 0
    BY <1>4, <2>3, Zenon
  <2> QED BY <2>1, <2>2, <2>3, <2>4, <2>6, <2>7
<1> QED BY <1>1, <1>3, <1>7, <1>8, <1>9, <1>10

\* Whoever loads an archive that will do for Alice gets a build she may serve.
LEMMA UsableIsEnough ==
  ASSUME NEW file, IsFile(file), Usable(file, Size)
  PROVE  Serves(file)
<1>1. PICK v \in Around : \E n \in Sizes(v) : IsBuilt(file, v, n)
  BY DEF IsFile, Usable, Readable
<1>2. PICK n \in Sizes(v) : IsBuilt(file, v, n)
  BY <1>1
<1>3. n \in Nat
  BY AroundFacts
<1>4. Count(file) = n + Cardinality(RulesOf(v))
  BY <1>2, <1>3, WhatIsBuilt DEF IsBuilt
<1>5. n + Cardinality(RulesOf(v)) >= Size + Cardinality(AliceRules)
  BY <1>4 DEF Usable
<1> QED BY <1>2, <1>5 DEF Serves

\* What a process that ends leaves behind.
LEMMA EndedLeavesNothing ==
  ASSUME ArchiveInv, NEW p \in Processes, Ended(p)
  PROVE  /\ pc' \in [Processes -> {"off", "boot", "ready"} \cup Saving]
         /\ job' \in [Processes -> [v : Around, n : Nat, then : {"off", "boot", "ready"}]]
         /\ ram' = [q \in Processes |-> ram'[q]]
         /\ pc'[p] = "off"
         /\ \A q \in Processes \ {p} : /\ pc'[q] = pc[q] /\ job'[q] = job[q]
                                       /\ ram'[q] = ram[q]
  BY AroundFacts DEF Ended, NoJob, ArchiveInv, ArchiveTypes

\* If the files stay files and only p moves, p's own part is what is left to show.
LEMMA WholeBuildsOfOne ==
  ASSUME ArchiveInv, NEW p \in Processes,
         IsFile(archive'), IsFile(tmp'),
         \A q \in Processes \ {p} : /\ pc'[q] = pc[q] /\ job'[q] = job[q]
                                    /\ ram'[q] = ram[q],
         pc'[p] # "off" => /\ job'[p].n = job[p].n /\ job'[p].v = job[p].v
                           /\ pc[p] # "off",
         pc'[p] \in Saving => IsBuilt(ram'[p], job[p].v, job[p].n),
         p = "demo" /\ pc'[p] = "ready" => Serves(ram'[p])
  PROVE  WholeBuilds'
<1>1. /\ \A q \in Processes : pc[q] # "off" => IsJob(job[q])
      /\ \A q \in Processes : pc[q] \in Saving => IsBuilt(ram[q], job[q].v, job[q].n)
      /\ pc["demo"] # "off" => job["demo"].n = Size /\ job["demo"].v = Ours
      /\ pc["demo"] = "ready" => Serves(ram["demo"])
  BY DEF ArchiveInv, WholeBuilds
<1>2. \A q \in Processes : pc'[q] # "off" => IsJob(job'[q])
  BY <1>1 DEF IsJob
<1>3. \A q \in Processes : pc'[q] \in Saving => IsBuilt(ram'[q], job'[q].v, job'[q].n)
  BY <1>1 DEF Saving
<1>4. /\ pc'["demo"] # "off" => job'["demo"].n = Size /\ job'["demo"].v = Ours
      /\ pc'["demo"] = "ready" => Serves(ram'["demo"])
  <2>1. CASE p = "demo"
    BY <1>1, <2>1
  <2>2. CASE p # "demo"
    <3>1. "demo" \in Processes \ {p}
      BY <2>2 DEF Processes
    <3>2. pc'["demo"] = pc["demo"] /\ job'["demo"] = job["demo"] /\ ram'["demo"] = ram["demo"]
      BY <3>1
    <3> QED BY <1>1, <3>2
  <2> QED BY <2>1, <2>2
<1> QED BY <1>2, <1>3, <1>4, WholeBuildsLater

LEMMA BootstrapKeeps ==
  ASSUME ArchiveInv, NEW p \in Processes, Bootstrap(p)
  PROVE  ArchiveInv'
<1>1. /\ pc[p] = "boot" /\ handle[p] = "off"
      /\ UNCHANGED <<now, archive, tmp, handle, mixed>>
  BY DEF Bootstrap, ArchiveInv, TellTale, fileVars
<1>2. IsFile(archive') /\ IsFile(tmp')
  BY <1>1 DEF ArchiveInv, WholeBuilds
<1>3. CASE Warm(p) /\ p = "seed"
  <2>1. Ended(p)
    BY <1>3 DEF Warm
  <2>2. ArchiveTypes'
    BY <1>1, <2>1, EndedLeavesNothing DEF ArchiveInv, ArchiveTypes
  <2>3. WholeBuilds'
    BY <1>2, <2>1, EndedLeavesNothing, WholeBuildsOfOne DEF Saving
  <2>4. TellTale'
    BY <1>1, <2>1, EndedLeavesNothing DEF ArchiveInv, TellTale
  <2> QED BY <2>2, <2>3, <2>4 DEF ArchiveInv
<1>4. CASE Warm(p) /\ p = "demo" /\ Usable(archive, job[p].n)
  <2>1. /\ ram' = [ram EXCEPT ![p] = archive] /\ pc' = [pc EXCEPT ![p] = "ready"]
        /\ job' = job
    BY <1>4 DEF Warm
  <2>2. ArchiveTypes'
    BY <1>1, <2>1 DEF ArchiveInv, ArchiveTypes
  <2>3. /\ pc'[p] = "ready" /\ ram'[p] = archive
        /\ \A q \in Processes \ {p} : pc'[q] = pc[q] /\ ram'[q] = ram[q]
    BY <2>1 DEF ArchiveInv, ArchiveTypes
  <2>4. job[p].n = Size
    BY <1>1, <1>4 DEF ArchiveInv, WholeBuilds
  <2>5. Serves(archive)
    BY <1>4, <2>4, UsableIsEnough DEF ArchiveInv, WholeBuilds
  <2>7. WholeBuilds'
    BY <1>1, <1>2, <2>1, <2>3, <2>5, WholeBuildsOfOne DEF Saving
  <2>8. TellTale'
    BY <1>1, <2>3 DEF ArchiveInv, TellTale
  <2> QED BY <2>2, <2>7, <2>8 DEF ArchiveInv
<1>5. CASE Cold(p)
  <2>1. /\ ram' = [ram EXCEPT ![p] = Build(AroundZero(job[p].v), job[p].n, now)]
        /\ pc' = [pc EXCEPT ![p] = "open"]
        /\ job' = [job EXCEPT ![p].then = IF p = "seed" THEN "off" ELSE "ready"]
    BY <1>5 DEF Cold
  <2>2. job[p].v \in Around /\ job[p].n \in Sizes(job[p].v) /\ now \in 0 .. MaxTime
    BY <1>1 DEF ArchiveInv, ArchiveTypes, WholeBuilds, IsJob
  <2>3. IsBuilt(Build(AroundZero(job[p].v), job[p].n, now), job[p].v, job[p].n)
    BY <2>2, BuildIsBuilt DEF Origins
  <2>4. ArchiveTypes'
    BY <1>1, <2>1 DEF ArchiveInv, ArchiveTypes, Saving
  <2>5. /\ pc'[p] = "open" /\ IsBuilt(ram'[p], job[p].v, job[p].n)
        /\ job'[p].n = job[p].n /\ job'[p].v = job[p].v
        /\ \A q \in Processes \ {p} : /\ pc'[q] = pc[q] /\ ram'[q] = ram[q]
                                      /\ job'[q] = job[q]
    BY <2>1, <2>3 DEF ArchiveInv, ArchiveTypes
  <2>6. WholeBuilds'
    BY <1>1, <1>2, <2>5, WholeBuildsOfOne
  <2>7. TellTale'
    BY <1>1, <2>5 DEF ArchiveInv, TellTale
  <2> QED BY <2>4, <2>6, <2>7 DEF ArchiveInv
<1> QED BY <1>3, <1>4, <1>5 DEF Bootstrap, Processes

\* Whoever opens the file tells on everybody who is in the middle of a save.
LEMMA OpenKeeps ==
  ASSUME ArchiveInv, NEW p \in Processes, Open(p)
  PROVE  ArchiveInv'
<1>1. /\ pc[p] = "open" /\ tmp' = Torn
      /\ pc' = [pc EXCEPT ![p] = "write"] /\ handle' = [handle EXCEPT ![p] = "tmp"]
      /\ mixed' = mixed \cup Touched(p)
      /\ UNCHANGED <<now, archive, job, ram>>
  BY DEF Open
<1>2. /\ pc'[p] = "write" /\ handle'[p] = "tmp" /\ handle[p] = "off"
      /\ \A q \in Processes \ {p} : pc'[q] = pc[q] /\ handle'[q] = handle[q]
  BY <1>1 DEF ArchiveInv, ArchiveTypes, TellTale
<1>3. /\ Touched(p) \subseteq Processes
      /\ \A q \in Processes \ {p} : pc[q] \in {"write", "replace"} => q \in Touched(p)
      /\ \A q \in Processes \ {p} : pc[q] = "write" /\ handle[q] = "tmp" => p \in Touched(p)
  BY DEF Touched, Others
<1>4. ArchiveTypes'
  BY <1>1, <1>3 DEF ArchiveInv, ArchiveTypes, Saving
<1>5. WholeBuilds'
  <2>1. IsBuilt(ram[p], job[p].v, job[p].n)
    BY <1>1 DEF ArchiveInv, WholeBuilds, Saving
  <2>2. IsFile(archive') /\ IsFile(tmp')
    BY <1>1 DEF ArchiveInv, WholeBuilds, IsFile
  <2> QED BY <1>1, <1>2, <2>1, <2>2, WholeBuildsOfOne
<1>6. TellTale'
  <2>1. \A q \in Processes : handle[q] = "tmp" => pc[q] = "write"
    BY DEF ArchiveInv, TellTale
  <2>2. \A q \in Processes : pc'[q] = "write" <=> handle'[q] # "off"
    BY <1>1, <1>2 DEF ArchiveInv, TellTale
  <2>3. \A q \in Processes : handle'[q] = "tmp" => tmp' # NoFile
    BY <1>1, FilesAssumption DEF FilesAssumption
  <2>4. \A q \in Processes : handle'[q] \in {"archive", "gone"} => q \in mixed'
    BY <1>1, <1>2, <1>3, <2>2
  <2>5. \A q \in Processes : pc'[q] = "replace" => q \in mixed'
    BY <1>1, <1>2, <1>3
  <2>6. ASSUME NEW q \in Processes, NEW r \in Processes, q # r,
               pc'[q] \in {"write", "replace"}, handle'[r] = "tmp"
        PROVE  q \in mixed'
    <3>1. CASE q # p
      BY <1>1, <1>2, <1>3, <2>6, <3>1
    <3>2. CASE q = p
      BY <1>1, <1>2, <1>3, <2>1, <2>6, <3>2
    <3> QED BY <3>1, <3>2
  <2> QED BY <2>2, <2>3, <2>4, <2>5, <2>6 DEF TellTale
<1> QED BY <1>4, <1>5, <1>6 DEF ArchiveInv

\* Only a writer that was told on can spoil what it writes.
LEMMA WhatIsWritten ==
  ASSUME ArchiveInv, NEW p \in Processes, pc[p] = "write", NEW f \in Written(p)
  PROVE  IsFile(f) /\ f # NoFile /\ (f = Torn => p \in mixed)
<1>1. IsBuilt(ram[p], job[p].v, job[p].n)
  BY DEF ArchiveInv, WholeBuilds, Saving
<1>2. ram[p] # NoFile /\ ram[p] # Torn
  BY <1>1, BuiltIsReadable
<1>3. IsFile(ram[p]) /\ IsFile(Torn) /\ Torn # NoFile
  <2>1. job[p].v \in Around /\ job[p].n \in Sizes(job[p].v)
    BY <1>1 DEF IsBuilt
  <2> QED BY <1>1, <2>1, FilesAssumption DEF IsFile, FilesAssumption
<1> QED BY <1>2, <1>3 DEF Written

LEMMA WriteKeeps ==
  ASSUME ArchiveInv, NEW p \in Processes, Write(p)
  PROVE  ArchiveInv'
<1>1. /\ pc[p] = "write" /\ handle[p] # "off"
      /\ pc' = [pc EXCEPT ![p] = "replace"] /\ handle' = [handle EXCEPT ![p] = "off"]
      /\ UNCHANGED <<now, job, ram, mixed>>
  BY DEF Write, ArchiveInv, TellTale
<1>2. \/ handle[p] = "tmp" /\ tmp' \in Written(p) /\ archive' = archive
      \/ handle[p] = "archive" /\ archive' \in Written(p) /\ tmp' = tmp
      \/ handle[p] = "gone" /\ archive' = archive /\ tmp' = tmp
  BY <1>1 DEF Write, fileVars, ArchiveInv, ArchiveTypes
<1>3. /\ pc'[p] = "replace" /\ handle'[p] = "off"
      /\ \A q \in Processes \ {p} : pc'[q] = pc[q] /\ handle'[q] = handle[q]
  BY <1>1 DEF ArchiveInv, ArchiveTypes
<1>4. ArchiveTypes'
  BY <1>1 DEF ArchiveInv, ArchiveTypes, Saving
<1>5. WholeBuilds'
  <2>1. IsBuilt(ram[p], job[p].v, job[p].n)
    BY <1>1 DEF ArchiveInv, WholeBuilds, Saving
  <2>2. IsFile(archive') /\ IsFile(tmp')
    BY <1>1, <1>2, WhatIsWritten DEF ArchiveInv, WholeBuilds
  <2> QED BY <1>1, <1>3, <2>1, <2>2, WholeBuildsOfOne
<1>6. TellTale'
  <2>1. \A q \in Processes : pc'[q] = "write" <=> handle'[q] # "off"
    BY <1>3 DEF ArchiveInv, TellTale
  <2>2. \A q \in Processes : handle'[q] = "tmp" => tmp' # NoFile
    BY <1>1, <1>2, <1>3, WhatIsWritten DEF ArchiveInv, TellTale
  <2>3. ASSUME NEW q \in Processes, handle'[q] \in {"archive", "gone"}, tmp' # NoFile
        PROVE  q \in mixed'
    <3>1. q # p /\ handle[q] = handle'[q] /\ mixed' = mixed
      BY <1>1, <1>3, <2>3
    <3>2. tmp # NoFile
      BY <1>2, <2>3 DEF ArchiveInv, TellTale
    <3> QED BY <2>3, <3>1, <3>2 DEF ArchiveInv, TellTale
  <2>4. ASSUME NEW q \in Processes, pc'[q] = "replace", tmp' = Torn
        PROVE  q \in mixed'
    <3>1. NoFile # Torn
      BY FilesAssumption DEF FilesAssumption
    <3>2. CASE handle[p] = "tmp"
      <4>1. CASE q = p
        BY <1>1, <1>2, <2>4, <3>2, <4>1, WhatIsWritten
      <4>2. CASE q # p
        BY <1>1, <1>3, <2>4, <3>2, <4>2 DEF ArchiveInv, TellTale
      <4> QED BY <4>1, <4>2
    <3>3. CASE handle[p] # "tmp"
      <4>1. tmp = Torn /\ handle[p] \in {"archive", "gone"}
        BY <1>2, <2>4, <3>3
      <4> QED BY <1>1, <1>3, <2>4, <3>1, <4>1 DEF ArchiveInv, TellTale
    <3> QED BY <3>2, <3>3
  <2>5. ASSUME NEW q \in Processes, NEW r \in Processes, q # r,
               pc'[q] \in {"write", "replace"}, handle'[r] = "tmp"
        PROVE  q \in mixed'
    <3>1. r # p /\ handle[r] = "tmp" /\ pc[q] \in {"write", "replace"} /\ mixed' = mixed
      BY <1>1, <1>3, <2>5
    <3> QED BY <2>5, <3>1 DEF ArchiveInv, TellTale
  <2> QED BY <2>1, <2>2, <2>3, <2>4, <2>5 DEF TellTale
<1> QED BY <1>4, <1>5, <1>6 DEF ArchiveInv

LEMMA ReplaceKeeps ==
  ASSUME ArchiveInv, NEW p \in Processes, Replace(p)
  PROVE  ArchiveInv'
<1>1. /\ pc[p] = "replace" /\ handle[p] = "off" /\ mixed' = mixed \ {p} /\ now' = now
      /\ NoFile # Torn
  BY FilesAssumption DEF Replace, ArchiveInv, TellTale, FilesAssumption
<1>2. tmp' = NoFile /\ (archive' = archive \/ archive' = tmp)
  BY DEF Replace, fileVars
<1>3. IsFile(archive') /\ IsFile(tmp')
  BY <1>2 DEF ArchiveInv, WholeBuilds, IsFile
<1>4. /\ handle' \in [Processes -> {"off", "tmp", "archive", "gone"}]
      /\ \A q \in Processes : (handle'[q] = "off" <=> handle[q] = "off") /\ handle'[q] # "tmp"
  <2>1. CASE tmp = NoFile
    BY <2>1 DEF Replace, ArchiveInv, ArchiveTypes, TellTale
  <2>2. CASE tmp # NoFile
    <3>1. handle' = [q \in Processes |-> Moved(handle[q])]
      BY <2>2 DEF Replace
    <3>2. \A h \in {"off", "tmp", "archive", "gone"} :
            /\ Moved(h) \in {"off", "archive", "gone"}
            /\ Moved(h) = "off" <=> h = "off"
      BY DEF Moved
    <3> QED BY <3>1, <3>2 DEF ArchiveInv, ArchiveTypes
  <2> QED BY <2>1, <2>2
<1>5. CASE Ended(p)
  <2>1. ArchiveTypes'
    BY <1>1, <1>4, <1>5, EndedLeavesNothing DEF ArchiveInv, ArchiveTypes
  <2>2. WholeBuilds'
    BY <1>3, <1>5, EndedLeavesNothing, WholeBuildsOfOne DEF Saving
  <2>3. TellTale'
    BY <1>1, <1>2, <1>4, <1>5, EndedLeavesNothing DEF ArchiveInv, TellTale
  <2> QED BY <2>1, <2>2, <2>3 DEF ArchiveInv
<1>6. CASE pc' = [pc EXCEPT ![p] = job[p].then] /\ job' = job /\ ram' = ram
  <2>1. job[p].then \in {"off", "boot", "ready"}
    BY DEF ArchiveInv, ArchiveTypes
  <2>2. /\ pc'[p] = job[p].then
        /\ \A q \in Processes \ {p} : pc'[q] = pc[q]
    BY <1>6 DEF ArchiveInv, ArchiveTypes
  <2>3. ArchiveTypes'
    BY <1>1, <1>4, <1>6, <2>1 DEF ArchiveInv, ArchiveTypes
  <2>4. WholeBuilds'
    <3>1. IsBuilt(ram[p], job[p].v, job[p].n) /\ (p = "demo" => job[p].n = Size /\ job[p].v = Ours)
      BY <1>1 DEF ArchiveInv, WholeBuilds, Saving
    <3>2. p = "demo" => Serves(ram'[p])
      <4>1. Size \in Sizes(Ours) /\ Ours \in Around /\ Sizes(Ours) \subseteq Nat
            /\ Cardinality(AliceRules) \in Nat /\ AliceRules = RulesOf(Ours)
        BY AroundFacts DEF AliceRules
      <4>2. Size + Cardinality(RulesOf(Ours)) >= Size + Cardinality(AliceRules)
        BY <4>1
      <4> QED BY <1>6, <3>1, <4>1, <4>2 DEF Serves
    <3> QED BY <1>1, <1>3, <1>6, <2>1, <2>2, <3>2, WholeBuildsOfOne DEF Saving
  <2>5. TellTale'
    BY <1>1, <1>2, <1>4, <2>1, <2>2 DEF ArchiveInv, TellTale
  <2> QED BY <2>3, <2>4, <2>5 DEF ArchiveInv
<1> QED BY <1>5, <1>6 DEF Replace

LEMMA CrashKeeps ==
  ASSUME ArchiveInv, NEW p \in Processes, Crash(p)
  PROVE  ArchiveInv'
<1>1. /\ Ended(p) /\ handle' = [handle EXCEPT ![p] = "off"] /\ mixed' = mixed \ {p}
      /\ UNCHANGED <<now, archive, tmp>>
  BY DEF Crash, fileVars
<1>2. ArchiveTypes'
  BY <1>1, EndedLeavesNothing DEF ArchiveInv, ArchiveTypes
<1>3. IsFile(archive') /\ IsFile(tmp')
  BY <1>1 DEF ArchiveInv, WholeBuilds
<1>4. WholeBuilds'
  BY <1>1, <1>3, EndedLeavesNothing, WholeBuildsOfOne DEF Saving
<1>5. handle'[p] = "off" /\ \A q \in Processes \ {p} : handle'[q] = handle[q]
  BY <1>1 DEF ArchiveInv, ArchiveTypes
<1>6. TellTale'
  BY <1>1, <1>5, EndedLeavesNothing DEF ArchiveInv, TellTale
<1> QED BY <1>2, <1>4, <1>6 DEF ArchiveInv

LEMMA ArchiveNext == ArchiveInv /\ [Next]_vars => ArchiveInv'
<1> SUFFICES ASSUME ArchiveInv, [Next]_vars PROVE ArchiveInv'
  OBVIOUS
<1>1. now \in 0 .. MaxTime
  BY DEF ArchiveInv, ArchiveTypes
<1>2. CASE Step
  <2>1. UNCHANGED <<now, fileVars, procVars>>
    BY <1>2 DEF Step, SpawnBob, QueryAlice, RecordLesson, AttemptViolatingTrade, DecayMemory,
                SpawnChild
  <2> QED BY <1>1, <2>1, ArchiveUntouched
<1>3. CASE Elapse
  <2>1. now' \in 0 .. MaxTime
    BY <1>1, <1>3, OrchestratorAssumption DEF Elapse, OrchestratorAssumption
  <2> QED BY <1>3, <2>1, ArchiveUntouched DEF Elapse
<1>4. CASE UNCHANGED vars
  BY <1>1, <1>4, ArchiveUntouched DEF vars
<1>5. ASSUME NEW p \in Processes, Work(p) PROVE ArchiveInv'
  BY <1>5, BootstrapKeeps, OpenKeeps, WriteKeeps, ReplaceKeeps DEF Work
<1> QED BY <1>2, <1>3, <1>4, <1>5, SeedStarts, DemoStarts, CrashKeeps DEF Next

\* The processes and the files of Alice's archive are of their types; what a file
\* holds is nothing, torn, or a whole build; and mixed tells who was interfered
\* with.
THEOREM ArchiveIsTyped == Spec => []ArchiveInv
  BY ArchiveInit, ArchiveNext, PTL DEF Spec

LEMMA ServedIsWhole == ArchiveInv => ServedMemoryIsWhole
<1> SUFFICES ASSUME ArchiveInv, pc["demo"] = "ready"
             PROVE  \E v \in Around : \E n \in Sizes(v) :
                      /\ WholeMemory(ram["demo"], v, n)
                      /\ n + Cardinality(RulesOf(v)) >= Size + Cardinality(AliceRules)
                      /\ v = Ours => n >= Size
  BY DEF ServedMemoryIsWhole
<1>1. PICK v \in Around : \E n \in Sizes(v) :
        IsBuilt(ram["demo"], v, n) /\ n + Cardinality(RulesOf(v)) >= Size + Cardinality(AliceRules)
  BY DEF ArchiveInv, WholeBuilds, Serves
<1>2. PICK n \in Sizes(v) :
        IsBuilt(ram["demo"], v, n) /\ n + Cardinality(RulesOf(v)) >= Size + Cardinality(AliceRules)
  BY <1>1
<1>3. n \in Nat /\ Size \in Nat /\ Cardinality(AliceRules) \in Nat /\ AliceRules = RulesOf(Ours)
  BY AroundFacts DEF AliceRules
<1>4. WholeMemory(ram["demo"], v, n)
  BY <1>2, <1>3, WhatIsBuilt DEF IsBuilt
<1>5. v = Ours => n >= Size
  BY <1>2, <1>3
<1> QED BY <1>2, <1>4, <1>5

\* Whatever archives there were, whoever saved at the same time or died in a save: an
\* Alice who serves has one whole build, of her version or of another one that is
\* around, with as many entries as hers; of her own, her whole corpus and every rule.
\* (Alice.bootstrap, save)
THEOREM AliceServesOneBuild == Spec => []ServedMemoryIsWhole
  BY ArchiveIsTyped, ServedIsWhole, PTL

LEMMA RootIsServed == ArchiveInv => AnchoredRootIsServed
<1> SUFFICES ASSUME ArchiveInv, pc["demo"] = "ready", Readable(archive),
                    archive.centroid = ram["demo"].centroid
             PROVE  AnchoredRoot = Root(ram["demo"])
  BY DEF AnchoredRootIsServed
<1>1. PICK v \in Around : \E n \in Sizes(v) : IsBuilt(ram["demo"], v, n)
  BY DEF ArchiveInv, WholeBuilds, Serves
<1>2. PICK n \in Sizes(v) : IsBuilt(ram["demo"], v, n)
  BY <1>1
<1>3. PICK w \in Around : \E k \in Sizes(w) : IsBuilt(archive, w, k)
  BY DEF ArchiveInv, WholeBuilds, IsFile, Readable
<1>4. PICK k \in Sizes(w) : IsBuilt(archive, w, k)
  BY <1>3
<1>5. n \in Nat /\ k \in Nat
  BY AroundFacts
<1>6. PICK c \in Origins(v, n) :
        /\ ram["demo"].centroid = c /\ c[2] = v
        /\ Root(ram["demo"]) = [id \in PinTraces(v) |-> <<<<id[2], c>>, id[2]>>]
  BY <1>2, <1>5, WhatIsBuilt DEF IsBuilt
<1>7. PICK b \in Origins(w, k) :
        /\ archive.centroid = b /\ b[2] = w /\ IsMemory(archive)
        /\ Root(archive) = [id \in PinTraces(w) |-> <<<<id[2], b>>, id[2]>>]
  BY <1>4, <1>5, WhatIsBuilt DEF IsBuilt
<1>8. Root(archive) = Root(ram["demo"])
  BY <1>6, <1>7
<1>9. AnchoredRoot = Root(archive)
  BY <1>7, DecayKeepsRoot DEF AnchoredRoot
<1> QED BY <1>8, <1>9

\* Whoever built the archive, when and for how many texts: the root anchored from it
\* is that of the memory Alice serves, if both were built around one origin.
\* (step_decay_check_pinned, pinned_merkle_root)
THEOREM AnchoredRootIsAlices == Spec => []AnchoredRootIsServed
  BY ArchiveIsTyped, RootIsServed, PTL

LEMMA SaveIsAtomic ==
  ASSUME ArchiveInv, [Next]_vars, Readable(archive), ~Readable(archive')
  PROVE  mixed # {}
<1>1. archive' # archive /\ archive' \in {NoFile, Torn}
  BY DEF Readable
<1>2. \E p \in Processes : Write(p) \/ Replace(p)
  <2>1. CASE Step
    BY <1>1, <2>1 DEF Step, SpawnBob, QueryAlice, RecordLesson, AttemptViolatingTrade,
                      DecayMemory, SpawnChild, fileVars
  <2>2. CASE StartDemo \/ Elapse \/ UNCHANGED vars
    BY <1>1, <2>2 DEF StartDemo, Elapse, vars, fileVars
  <2>3. ASSUME NEW v \in Seeds, NEW n \in SeedSizes, NEW force \in BOOLEAN,
               StartSeed(v, n, force)
        PROVE  FALSE
    BY <1>1, <2>3 DEF StartSeed, fileVars
  <2>4. ASSUME NEW p \in Processes, Bootstrap(p) \/ Open(p) \/ Crash(p)
        PROVE  FALSE
    BY <1>1, <2>4 DEF Bootstrap, Open, Crash, fileVars
  <2> QED BY <2>1, <2>2, <2>3, <2>4 DEF Next, Work
<1>3. ASSUME NEW p \in Processes, Write(p) PROVE mixed # {}
  <2>1. pc[p] = "write" /\ archive' \in Written(p)
    BY <1>1, <1>3 DEF Write, fileVars
  <2> QED BY <1>1, <2>1, WhatIsWritten
<1>4. ASSUME NEW p \in Processes, Replace(p) PROVE mixed # {}
  <2>1. pc[p] = "replace" /\ archive' = tmp /\ tmp # NoFile
    BY <1>1, <1>4 DEF Replace, fileVars
  <2> QED BY <1>1, <2>1 DEF ArchiveInv, TellTale
<1> QED BY <1>2, <1>3, <1>4

\* A readable archive stays readable through every crash, and through every save
\* that no other process opened the file of.  (MemoryService.save)
THEOREM SavingIsAtomic == Spec => SavesAreAtomic
<1>1. ArchiveInv /\ [Next]_vars
        => [Readable(archive) /\ ~Readable(archive') => mixed # {}]_vars
  BY SaveIsAtomic
<1> QED BY <1>1, ArchiveIsTyped, PTL DEF Spec, SavesAreAtomic

-----------------------------------------------------------------------------
(***************************************************************************)
(* What the family remembers.                                              *)
(***************************************************************************)

\* f is the memory m while the first n rules are pinned, one after the other.
Pins(f, m, rules, n) ==
  f = [k \in 0 .. n |-> IF k = 0 THEN m ELSE PinRule(f[k - 1], rules[k])]

LEMMA PinsExist ==
  ASSUME NEW m, NEW rules, NEW n \in Nat
  PROVE  \E f : Pins(f, m, rules, n)
<1> DEFINE bad == {k \in Nat : ~\E f : Pins(f, m, rules, k)}
<1>1. bad \subseteq Nat
  OBVIOUS
<1>2. 0 \notin bad
  <2> DEFINE f == [k \in 0 .. 0 |-> m]
  <2>1. f = [k \in 0 .. 0 |-> IF k = 0 THEN m ELSE PinRule(f[k - 1], rules[k])]
    OBVIOUS
  <2> HIDE DEF f
  <2>2. Pins(f, m, rules, 0)
    BY <2>1 DEF Pins
  <2> QED BY <2>2
<1>3. ASSUME NEW k \in Nat, \E f : Pins(f, m, rules, k)
      PROVE  \E f : Pins(f, m, rules, k + 1)
  <2>1. PICK f : Pins(f, m, rules, k)
    BY <1>3
  <2> DEFINE g == [j \in 0 .. k + 1 |-> IF j = k + 1 THEN PinRule(f[k], rules[k + 1]) ELSE f[j]]
  <2>2. \A j \in 0 .. k : f[j] = IF j = 0 THEN m ELSE PinRule(f[j - 1], rules[j])
    BY <2>1 DEF Pins
  <2>3. \A j \in 0 .. k : g[j] = f[j]
    OBVIOUS
  <2>4. g[k + 1] = PinRule(f[k], rules[k + 1]) /\ g[k] = f[k]
    OBVIOUS
  <2>5. g = [j \in 0 .. k + 1 |-> g[j]]
    OBVIOUS
  <2> HIDE DEF g
  <2>6. \A j \in 0 .. k + 1 : g[j] = IF j = 0 THEN m ELSE PinRule(g[j - 1], rules[j])
    <3>1. ASSUME NEW j \in 0 .. k, j # 0 PROVE g[j] = PinRule(g[j - 1], rules[j])
      <4>1. j - 1 \in 0 .. k
        BY <3>1
      <4> QED BY <2>2, <2>3, <3>1, <4>1
    <3>2. g[0] = m
      BY <2>2, <2>3
    <3>3. (k + 1) - 1 = k /\ k + 1 # 0
      OBVIOUS
    <3>4. \A j \in 0 .. k + 1 : j \in 0 .. k \/ j = k + 1
      OBVIOUS
    <3> QED BY <2>4, <3>1, <3>2, <3>3, <3>4
  <2>7. g = [j \in 0 .. k + 1 |-> IF j = 0 THEN m ELSE PinRule(g[j - 1], rules[j])]
    BY <2>5, <2>6
  <2> QED BY <2>7 DEF Pins
<1>4. CASE bad = {}
  BY <1>4
<1>5. CASE bad # {}
  <2> HIDE DEF bad
  <2>1. PICK k \in bad : \A j \in bad : k <= j
    BY <1>1, <1>5, LeastNat
  <2>2. k \in Nat /\ k # 0
    BY <1>1, <1>2, <2>1
  <2>3. k - 1 \in Nat /\ k - 1 \notin bad
    BY <1>1, <2>1, <2>2
  <2>4. \E f : Pins(f, m, rules, (k - 1) + 1)
    BY <1>3, <2>3 DEF bad
  <2>5. (k - 1) + 1 = k
    BY <2>2
  <2> QED BY <2>1, <2>4, <2>5 DEF bad
<1> QED BY <1>4, <1>5

LEMMA WithRulesSteps ==
  ASSUME NEW m, NEW rules, Len(rules) \in Nat
  PROVE  \E f : Pins(f, m, rules, Len(rules)) /\ WithRules(m, rules) = f[Len(rules)]
<1> DEFINE f == CHOOSE g : Pins(g, m, rules, Len(rules))
<1>1. Pins(f, m, rules, Len(rules))
  BY PinsExist
<1>2. WithRules(m, rules) = f[Len(rules)]
  BY DEF WithRules, Pins
<1> QED BY <1>1, <1>2

\* A clone has all that is pinned, however small it is.
LEMMA CloneKeepsRoot ==
  ASSUME NEW m, IsMemory(m), NEW cap, NEW n \in Clones(m, cap)
  PROVE  /\ IsMemory(n) /\ Root(n) = Root(m) /\ Pinned(n) = Pinned(m)
         /\ \A i \in Pinned(m) : n.entries[i].text = m.entries[i].text
<1>1. PICK S \in Freshest(m, cap) :
        n = [m EXCEPT !.entries = Restrict(@, Pinned(m) \cup S)]
  BY DEF Clones
<1>2. S \subseteq Ids(m) \ Pinned(m)
  BY DEF Freshest, kSubset
<1>3. n = [centroid |-> m.centroid, entries |-> Restrict(m.entries, Pinned(m) \cup S)]
  BY <1>1 DEF IsMemory
<1>4. DOMAIN n.entries = Pinned(m) \cup S
      /\ \A i \in Pinned(m) \cup S : n.entries[i] = m.entries[i]
  BY <1>3 DEF Restrict
<1>5. Pinned(m) \subseteq Ids(m)
  BY DEF Pinned
<1>6. IsMemory(n)
  BY <1>2, <1>3, <1>4, <1>5 DEF IsMemory, Ids
<1>7. Pinned(n) = Pinned(m)
  BY <1>2, <1>4, <1>5 DEF Pinned, Ids
<1>8. Root(n) = Root(m)
  BY <1>4, <1>7 DEF Root
<1> QED BY <1>4, <1>6, <1>7, <1>8

\* The traces of the first n rules, and the rules that no later one of them hides.
Names(rules, n) == {RuleTrace(rules[k]) : k \in 1 .. n}
Stands(rules, j, n) ==
  j \in 1 .. n /\ \A i \in j + 1 .. n : RuleTrace(rules[i]) # RuleTrace(rules[j])

\* What memory f holds when n rules have been pinned on top of m.
PinnedUpTo(f, m, rules, n) ==
  /\ IsMemory(f)
  /\ Pinned(f) = Pinned(m) \cup Names(rules, n)
  /\ \A j \in 1 .. n : Stands(rules, j, n) => f.entries[RuleTrace(rules[j])].text = rules[j]
  /\ \A id \in Pinned(m) \ Names(rules, n) : f.entries[id].text = m.entries[id].text

LEMMA OneMorePinned ==
  ASSUME NEW m, NEW rules, NEW n \in Nat, NEW f, PinnedUpTo(f, m, rules, n)
  PROVE  PinnedUpTo(PinRule(f, rules[n + 1]), m, rules, n + 1)
<1> DEFINE r == rules[n + 1]   id == RuleTrace(r)   e == Entry(f, "pinned", TRUE, r, now)
           g == PinRule(f, r)
<1>1. g = Added(f, id, e)
  BY DEF PinRule, Add
<1>2. IsEntry(e) /\ e.text = r /\ e.pinned
  BY DEF Entry, IsEntry
<1>3. IsMemory(f)
  BY DEF PinnedUpTo
<1> HIDE DEF g, e, id
<1>4. /\ IsMemory(g) /\ g.entries[id] = e
      /\ \A i \in Ids(f) \ {id} : g.entries[i] = f.entries[i]
      /\ Pinned(g) = Pinned(f) \cup {id}
  BY <1>1, <1>2, <1>3, WhatAddDoes
<1>5. Names(rules, n + 1) = Names(rules, n) \cup {id}
  BY DEF Names, id
<1>6. Pinned(f) = Pinned(m) \cup Names(rules, n) /\ Pinned(f) \subseteq Ids(f)
  BY DEF PinnedUpTo, Pinned
<1>7. Pinned(g) = Pinned(m) \cup Names(rules, n + 1)
  BY <1>4, <1>5, <1>6
<1>8. ASSUME NEW j \in 1 .. n + 1, Stands(rules, j, n + 1)
      PROVE  g.entries[RuleTrace(rules[j])].text = rules[j]
  <2>1. CASE j = n + 1
    BY <1>2, <1>4, <2>1 DEF id
  <2>2. CASE j # n + 1
    <3>1. j \in 1 .. n /\ n + 1 \in j + 1 .. n + 1
      BY <2>2
    <3>2. RuleTrace(rules[j]) # id /\ Stands(rules, j, n)
      BY <1>8, <3>1 DEF Stands, id
    <3>3. RuleTrace(rules[j]) \in Pinned(f)
      BY <1>6, <3>1 DEF Names
    <3>4. f.entries[RuleTrace(rules[j])].text = rules[j]
      BY <3>1, <3>2 DEF PinnedUpTo
    <3> QED BY <1>4, <1>6, <3>2, <3>3, <3>4
  <2> QED BY <2>1, <2>2
<1>9. ASSUME NEW i \in Pinned(m) \ Names(rules, n + 1)
      PROVE  g.entries[i].text = m.entries[i].text
  <2>1. i \in Pinned(m) \ Names(rules, n) /\ i # id /\ i \in Ids(f)
    BY <1>5, <1>6
  <2> QED BY <1>4, <2>1 DEF PinnedUpTo
<1> QED BY <1>4, <1>7, <1>8, <1>9 DEF PinnedUpTo, g

\* Pinning a constitution pins its rules, the last of each name, and no other.
LEMMA WithRulesPins ==
  ASSUME NEW m, IsMemory(m), NEW rules, Len(rules) \in Nat
  PROVE  PinnedUpTo(WithRules(m, rules), m, rules, Len(rules))
<1> DEFINE L == Len(rules)
<1>1. PICK f : Pins(f, m, rules, L) /\ WithRules(m, rules) = f[L]
  BY WithRulesSteps
<1> DEFINE bad == {k \in 0 .. L : ~PinnedUpTo(f[k], m, rules, k)}
<1>2. \A k \in 0 .. L : f[k] = IF k = 0 THEN m ELSE PinRule(f[k - 1], rules[k])
  BY <1>1 DEF Pins
<1> HIDE DEF L
<1>3. L \in Nat
  BY DEF L
<1>4. PinnedUpTo(f[0], m, rules, 0)
  <2>1. f[0] = m
    BY <1>2, <1>3
  <2>2. Names(rules, 0) = {} /\ 1 .. 0 = {}
    BY DEF Names
  <2> QED BY <2>1, <2>2 DEF PinnedUpTo
<1>5. ASSUME NEW k \in 0 .. L, k # 0, PinnedUpTo(f[k - 1], m, rules, k - 1)
      PROVE  PinnedUpTo(f[k], m, rules, k)
  <2>1. f[k] = PinRule(f[k - 1], rules[k]) /\ k - 1 \in Nat /\ (k - 1) + 1 = k
    BY <1>2, <1>3, <1>5
  <2> QED BY <1>5, <2>1, OneMorePinned
<1>6. bad = {}
  <2> SUFFICES ASSUME bad # {} PROVE FALSE
    OBVIOUS
  <2>1. bad \subseteq Nat
    BY <1>3
  <2> HIDE DEF bad
  <2>2. PICK k \in bad : \A j \in bad : k <= j
    BY <2>1, LeastNat
  <2>3. k \in 0 .. L /\ ~PinnedUpTo(f[k], m, rules, k)
    BY DEF bad
  <2>4. k # 0
    BY <1>4, <2>3
  <2>5. k - 1 \in 0 .. L /\ k - 1 \notin bad
    BY <1>3, <2>2, <2>3, <2>4
  <2>6. PinnedUpTo(f[k - 1], m, rules, k - 1)
    BY <2>5 DEF bad
  <2> QED BY <1>5, <2>3, <2>4, <2>6
<1>7. PinnedUpTo(f[L], m, rules, L)
  BY <1>3, <1>6
<1> QED BY <1>1, <1>7 DEF L

\* An agent whose memory has its constitution pinned and nothing else.
Remembered(agent) ==
  LET rules == agent.rules   m == agent.memory
  IN /\ agent = [rules |-> rules, memory |-> m]
     /\ IsMemory(m)
     /\ Pinned(m) = Names(rules, Len(rules))
     /\ \A j \in 1 .. Len(rules) :
          Stands(rules, j, Len(rules)) => m.entries[RuleTrace(rules[j])].text = rules[j]

FamilyInv == Lineage /\ \A g \in DOMAIN agents : Remembered(agents[g])

LEMMA BobRemembers ==
  Remembered([rules |-> BobRules, memory |-> WithRules(EmptyMemory, BobRules)])
<1> DEFINE m == WithRules(EmptyMemory, BobRules)   bob == [rules |-> BobRules, memory |-> m]
<1>1. IsMemory(EmptyMemory) /\ Pinned(EmptyMemory) = {}
  BY DEF EmptyMemory, IsMemory, Ids, Pinned
<1>2. Len(BobRules) \in Nat
  BY OrchestratorAssumption DEF OrchestratorAssumption
<1>3. PinnedUpTo(m, EmptyMemory, BobRules, Len(BobRules))
  BY <1>1, <1>2, WithRulesPins
<1> HIDE DEF m
<1>4. bob.rules = BobRules /\ bob.memory = m /\ bob = [rules |-> BobRules, memory |-> m]
  OBVIOUS
<1> HIDE DEF bob
<1>5. Remembered(bob)
  BY <1>1, <1>3, <1>4 DEF PinnedUpTo, Remembered
<1> QED BY <1>5 DEF bob, m

\* A memory with the same pins will do.
LEMMA SamePinsRemember ==
  ASSUME NEW agent, Remembered(agent), NEW m, IsMemory(m),
         Pinned(m) = Pinned(agent.memory),
         \A i \in Pinned(m) : m.entries[i].text = agent.memory.entries[i].text
  PROVE  Remembered([agent EXCEPT !.memory = m])
<1> DEFINE h == [agent EXCEPT !.memory = m]   L == Len(agent.rules)
<1>1. h = [rules |-> agent.rules, memory |-> m]
  BY DEF Remembered
<1>2. h.rules = agent.rules /\ h.memory = m
  BY <1>1
<1>3. \A j \in 1 .. L : RuleTrace(agent.rules[j]) \in Pinned(m)
  BY DEF Remembered, Names
<1> HIDE DEF h
<1>4. Remembered(h)
  BY <1>1, <1>2, <1>3 DEF Remembered
<1> QED BY <1>4 DEF h

LEMMA ChildRemembers ==
  ASSUME NEW parent, Remembered(parent), parent.rules \in Seq(DOMAIN RuleId),
         NEW extra \in Seq(DOMAIN RuleId), NEW cap, NEW m \in Clones(parent.memory, cap)
  PROVE  Remembered([rules |-> parent.rules \o extra, memory |-> WithRules(m, extra)])
<1> DEFINE ps == parent.rules   rs == ps \o extra   n == WithRules(m, extra)
           child == [rules |-> rs, memory |-> n]
<1>1. /\ Len(ps) \in Nat /\ Len(extra) \in Nat /\ Len(rs) = Len(ps) + Len(extra)
      /\ \A j \in 1 .. Len(ps) : rs[j] = ps[j]
      /\ \A j \in 1 .. Len(extra) : rs[Len(ps) + j] = extra[j]
  OBVIOUS
<1>2. /\ IsMemory(m) /\ Pinned(m) = Pinned(parent.memory)
      /\ \A i \in Pinned(m) : m.entries[i].text = parent.memory.entries[i].text
  BY CloneKeepsRoot DEF Remembered
<1>3. PinnedUpTo(n, m, extra, Len(extra))
  BY <1>1, <1>2, WithRulesPins
<1>4. Pinned(m) = Names(ps, Len(ps))
  BY <1>2 DEF Remembered
<1>5. child.rules = rs /\ child.memory = n /\ child = [rules |-> rs, memory |-> n]
  OBVIOUS
<1> HIDE DEF rs, n, child
<1>6. Names(rs, Len(rs)) = Names(ps, Len(ps)) \cup Names(extra, Len(extra))
  <2>1. ASSUME NEW k \in 1 .. Len(rs)
        PROVE  RuleTrace(rs[k]) \in Names(ps, Len(ps)) \cup Names(extra, Len(extra))
    <3>1. CASE k <= Len(ps)
      BY <1>1, <3>1 DEF Names
    <3>2. CASE ~(k <= Len(ps))
      <4>1. k - Len(ps) \in 1 .. Len(extra) /\ Len(ps) + (k - Len(ps)) = k
        BY <1>1, <3>2
      <4>2. rs[k] = extra[k - Len(ps)]
        BY <1>1, <4>1
      <4> QED BY <4>1, <4>2 DEF Names
    <3> QED BY <3>1, <3>2
  <2>2. \A k \in 1 .. Len(ps) : k \in 1 .. Len(rs)
    BY <1>1
  <2>3. \A k \in 1 .. Len(extra) : Len(ps) + k \in 1 .. Len(rs)
    BY <1>1
  <2> QED BY <1>1, <2>1, <2>2, <2>3 DEF Names
<1>7. Pinned(n) = Names(rs, Len(rs))
  BY <1>3, <1>4, <1>6 DEF PinnedUpTo
<1>8. ASSUME NEW j \in 1 .. Len(rs), Stands(rs, j, Len(rs))
      PROVE  n.entries[RuleTrace(rs[j])].text = rs[j]
  <2>1. CASE j <= Len(ps)
    <3>1. j \in 1 .. Len(ps) /\ rs[j] = ps[j]
      BY <1>1, <2>1
    <3>2. ASSUME NEW i \in j + 1 .. Len(ps) PROVE RuleTrace(ps[i]) # RuleTrace(ps[j])
      <4>1. i \in j + 1 .. Len(rs) /\ i \in 1 .. Len(ps)
        BY <1>1
      <4> QED BY <1>1, <1>8, <3>1, <4>1 DEF Stands
    <3>3. ASSUME NEW i \in 1 .. Len(extra) PROVE RuleTrace(extra[i]) # RuleTrace(ps[j])
      <4>1. Len(ps) + i \in j + 1 .. Len(rs)
        BY <1>1, <2>1
      <4> QED BY <1>1, <1>8, <3>1, <4>1 DEF Stands
    <3>4. RuleTrace(ps[j]) \in Pinned(m) \ Names(extra, Len(extra))
      BY <1>4, <3>1, <3>3 DEF Names
    <3>5. Stands(ps, j, Len(ps))
      BY <3>1, <3>2 DEF Stands
    <3>6. parent.memory.entries[RuleTrace(ps[j])].text = ps[j]
      BY <3>1, <3>5 DEF Remembered
    <3> QED BY <1>2, <1>3, <3>1, <3>4, <3>6 DEF PinnedUpTo
  <2>2. CASE ~(j <= Len(ps))
    <3> DEFINE x == j - Len(ps)
    <3>1. x \in 1 .. Len(extra) /\ Len(ps) + x = j
      BY <1>1, <2>2
    <3>2. rs[j] = extra[x]
      BY <1>1, <3>1
    <3>3. ASSUME NEW i \in x + 1 .. Len(extra) PROVE RuleTrace(extra[i]) # RuleTrace(extra[x])
      <4>1. Len(ps) + i \in j + 1 .. Len(rs) /\ i \in 1 .. Len(extra)
        BY <1>1, <3>1
      <4> QED BY <1>1, <1>8, <3>2, <4>1 DEF Stands
    <3>4. Stands(extra, x, Len(extra))
      BY <3>1, <3>3 DEF Stands
    <3> QED BY <1>3, <3>1, <3>2, <3>4 DEF PinnedUpTo
  <2> QED BY <2>1, <2>2
<1>9. Remembered(child)
  BY <1>3, <1>5, <1>7, <1>8 DEF Remembered, PinnedUpTo
<1> QED BY <1>9 DEF child, rs, n

LEMMA FamilyRemembers ==
  ASSUME FamilyInv
  PROVE  \A g \in DOMAIN Family : Remembered(Family[g])
<1>1. CASE agents # << >>
  BY <1>1 DEF Family, FamilyInv
<1>2. CASE agents = << >>
  <2> DEFINE bob == [rules |-> BobRules, memory |-> WithRules(EmptyMemory, BobRules)]
  <2>1. Remembered(bob)
    BY BobRemembers
  <2>2. Family = <<bob>>
    BY <1>2 DEF Family
  <2> HIDE DEF bob
  <2>3. \A g \in DOMAIN <<bob>> : <<bob>>[g] = bob
    OBVIOUS
  <2> QED BY <2>1, <2>2, <2>3
<1> QED BY <1>1, <1>2

\* A memory that changed, but for nothing of its pins.
Steady(m, n) ==
  /\ IsMemory(n) /\ Root(n) = Root(m) /\ Pinned(n) = Pinned(m)
  /\ \A i \in Pinned(m) : n.entries[i].text = m.entries[i].text

LEMMA LessonsAreSteady ==
  ASSUME NEW agent, Remembered(agent), NEW tag, tag # "pinned", NEW id, NEW text
  PROVE  Steady(agent.memory,
                Add(agent.memory, <<tag, id>>, "working", FALSE, text, now))
<1> DEFINE m == agent.memory   e == Entry(m, "working", FALSE, text, now)
<1>1. <<tag, id>> \notin Pinned(m)
  BY DEF Remembered, Names, RuleTrace
<1>2. IsEntry(e) /\ ~e.pinned
  BY DEF Entry, IsEntry
<1>3. IsMemory(m)
  BY DEF Remembered
<1>4. Add(m, <<tag, id>>, "working", FALSE, text, now) = Added(m, <<tag, id>>, e)
  BY DEF Add
<1> HIDE DEF m, e
<1>5. Steady(m, Added(m, <<tag, id>>, e))
  BY <1>1, <1>2, <1>3, AddKeepsRoot DEF Steady
<1> QED BY <1>4, <1>5 DEF m

\* The five things that can happen to the family.
BobMoves == \E n : /\ Steady(Family[1].memory, n)
                   /\ agents' = [Family EXCEPT ![1].memory = n]
ChildComes(g, extra) ==
  \E cap \in Caps : \E m \in Clones(Family[g].memory, cap) :
    agents' = SubSeq(Family, 1, g)
              \o <<[rules |-> Family[g].rules \o extra, memory |-> WithRules(m, extra)]>>
FamilyMoves ==
  \/ UNCHANGED agents
  \/ agents' = << >>
  \/ agents' = Family
  \/ BobMoves
  \/ \E g \in DOMAIN Family, extra \in Extras : ChildComes(g, extra)

LEMMA WhatHappensToTheFamily == FamilyInv /\ [Next]_vars => FamilyMoves
<1> SUFFICES ASSUME FamilyInv, [Next]_vars PROVE FamilyMoves
  OBVIOUS
<1>1. Remembered(Family[1])
  BY FamilyRemembers, FamilyDescends DEF FamilyInv
<1>2. ASSUME NEW id, agents' = Learned(Family, id) PROVE BobMoves
  <2> DEFINE n == Add(Family[1].memory, <<"learned", id>>, "working", FALSE,
                      ram["demo"].entries[id].text, now)
  <2>1. Steady(Family[1].memory, n)
    BY <1>1, LessonsAreSteady
  <2>2. agents' = [Family EXCEPT ![1].memory = n]
    BY <1>2 DEF Learned
  <2> HIDE DEF n
  <2> QED BY <2>1, <2>2 DEF BobMoves
<1>3. CASE RecordLesson \/ AttemptViolatingTrade
  BY <1>2, <1>3 DEF RecordLesson, AttemptViolatingTrade, FamilyMoves
<1>4. CASE DecayMemory
  <2> DEFINE m == Family[1].memory
             padded == Add(m, <<"working", "padding">>, "working", FALSE, "padding", now)
             n == Decayed(padded, now + Ahead)
  <2>1. agents' = [Family EXCEPT ![1].memory = n]
    BY <1>4 DEF DecayMemory
  <2>2. Steady(m, padded)
    BY <1>1, LessonsAreSteady
  <2> HIDE DEF padded
  <2>3. Steady(padded, n)
    BY <2>2, DecayKeepsRoot DEF Steady
  <2> HIDE DEF n, m
  <2>4. Steady(m, n)
    BY <2>2, <2>3 DEF Steady
  <2> QED BY <2>1, <2>4 DEF BobMoves, FamilyMoves, m
<1>5. ASSUME NEW g \in 1 .. Generations, NEW extra \in Extras, NEW cap \in Caps,
             SpawnChild(g, extra, cap)
      PROVE  FamilyMoves
  <2>1. g \in DOMAIN Family /\ ChildComes(g, extra)
    BY <1>5 DEF SpawnChild, ChildComes
  <2> QED BY <2>1 DEF FamilyMoves
<1>6. CASE SpawnBob \/ QueryAlice
  BY <1>6 DEF SpawnBob, QueryAlice, FamilyMoves
<1>7. CASE Step
  BY <1>3, <1>4, <1>5, <1>6, <1>7 DEF Step
<1>8. ASSUME NEW v \in Seeds, NEW n \in SeedSizes, NEW force \in BOOLEAN,
               StartSeed(v, n, force)
      PROVE  FamilyMoves
  BY <1>8 DEF StartSeed, bobVars, FamilyMoves
<1>9. CASE StartDemo \/ Elapse \/ UNCHANGED vars
  BY <1>9 DEF StartDemo, Elapse, vars, bobVars, FamilyMoves
<1>10. ASSUME NEW p \in Processes, Work(p) PROVE FamilyMoves
  BY <1>10 DEF Work, Bootstrap, Open, Write, Replace, bobVars, FamilyMoves
<1>11. ASSUME NEW p \in Processes, Crash(p) PROVE FamilyMoves
  BY <1>11 DEF Crash, bobVars, FamilyMoves
<1> QED BY <1>7, <1>8, <1>9, <1>10, <1>11 DEF Next

\* A line of agents up to g, and one more.
Extended(f, g, child) == SubSeq(f, 1, g) \o <<child>>

LEMMA OneMoreAgent ==
  ASSUME NEW f, Descends(f), NEW g \in DOMAIN f, NEW child
  PROVE  LET h == Extended(f, g, child)
         IN /\ g \in Nat \ {0} /\ DOMAIN h = 1 .. g + 1 /\ h[g + 1] = child
            /\ \A k \in 1 .. g : k \in DOMAIN f /\ h[k] = f[k]
<1> DEFINE S == {f[k] : k \in DOMAIN f} \cup {child}   front == SubSeq(f, 1, g)
<1>1. DOMAIN f = 1 .. Len(f) /\ Len(f) \in Nat /\ f \in Seq(S)
  BY DEF Descends
<1> HIDE DEF S
<1>2. g \in Nat \ {0} /\ g <= Len(f)
  BY <1>1
<1>3. front \in Seq(S) /\ Len(front) = g /\ \A k \in 1 .. g : front[k] = f[k]
  BY <1>1, <1>2
<1>4. <<child>> \in Seq(S)
  BY DEF S
<1> HIDE DEF front
<1>5. /\ front \o <<child>> \in Seq(S) /\ Len(front \o <<child>>) = g + 1
      /\ (front \o <<child>>)[g + 1] = child
      /\ \A k \in 1 .. g : (front \o <<child>>)[k] = front[k]
  BY <1>2, <1>3, <1>4
<1> DEFINE h == front \o <<child>>
<1>6. DOMAIN h = 1 .. g + 1
  <2> HIDE DEF h
  <2> QED BY <1>5 DEF h
<1>7. \A k \in 1 .. g : k \in DOMAIN f
  BY <1>1, <1>2
<1>8. \A k \in 1 .. g : (front \o <<child>>)[k] = f[k]
  BY <1>3, <1>5
<1> QED BY <1>2, <1>5, <1>6, <1>7, <1>8 DEF front, Extended

LEMMA FamilyNext == FamilyInv /\ [Next]_vars => FamilyInv'
<1> SUFFICES ASSUME FamilyInv, [Next]_vars PROVE FamilyInv'
  OBVIOUS
<1>1. Lineage'
  BY LineageNext DEF FamilyInv
<1>2. SUFFICES \A g \in DOMAIN agents' : Remembered(agents'[g])
  BY <1>1, <1>2 DEF FamilyInv, Remembered, Stands, Names, RuleTrace, Pinned, Ids, IsMemory,
                    IsEntry
<1>3. /\ \A g \in DOMAIN Family : Remembered(Family[g])
      /\ Descends(Family) /\ 1 \in DOMAIN Family
  BY FamilyRemembers, FamilyDescends DEF FamilyInv
<1>4. CASE UNCHANGED agents \/ agents' = << >> \/ agents' = Family
  BY <1>3, <1>4 DEF FamilyInv
<1>5. CASE BobMoves
  <2>1. PICK n : /\ Steady(Family[1].memory, n)
                 /\ agents' = [Family EXCEPT ![1].memory = n]
    BY <1>5 DEF BobMoves
  <2>2. Remembered([Family[1] EXCEPT !.memory = n])
    BY <1>3, <2>1, SamePinsRemember DEF Steady
  <2>3. /\ DOMAIN agents' = DOMAIN Family
        /\ agents'[1] = [Family[1] EXCEPT !.memory = n]
        /\ \A g \in DOMAIN Family \ {1} : agents'[g] = Family[g]
    BY <1>3, <2>1 DEF Descends
  <2> QED BY <1>3, <2>2, <2>3
<1>6. ASSUME NEW g \in DOMAIN Family, NEW extra \in Extras, ChildComes(g, extra),
             NEW k \in DOMAIN agents'
      PROVE  Remembered(agents'[k])
  <2>1. PICK cap \in Caps : \E m \in Clones(Family[g].memory, cap) :
          agents' = SubSeq(Family, 1, g)
                    \o <<[rules |-> Family[g].rules \o extra, memory |-> WithRules(m, extra)]>>
    BY <1>6 DEF ChildComes
  <2>2. PICK m \in Clones(Family[g].memory, cap) :
          agents' = SubSeq(Family, 1, g)
                    \o <<[rules |-> Family[g].rules \o extra, memory |-> WithRules(m, extra)]>>
    BY <2>1
  <2> DEFINE child == [rules |-> Family[g].rules \o extra, memory |-> WithRules(m, extra)]
  <2>3. Family[g].rules \in Seq(DOMAIN RuleId) /\ extra \in Seq(DOMAIN RuleId)
    BY <1>3, ExtrasType DEF Descends
  <2>4. Remembered(child)
    BY <1>3, <2>3, ChildRemembers
  <2>5. agents' = Extended(Family, g, child)
    BY <2>2 DEF Extended
  <2> HIDE DEF child
  <2>6. k = g + 1 \/ k \in 1 .. g
    BY <1>3, <2>5, OneMoreAgent
  <2>7. CASE k = g + 1
    BY <1>3, <2>4, <2>5, <2>7, OneMoreAgent
  <2>8. CASE k \in 1 .. g
    BY <1>3, <2>5, <2>8, OneMoreAgent
  <2> QED BY <2>6, <2>7, <2>8
<1> QED BY <1>4, <1>5, <1>6, WhatHappensToTheFamily DEF FamilyMoves

LEMMA FamilyInit == Init => FamilyInv
<1> SUFFICES ASSUME Init PROVE FamilyInv
  OBVIOUS
<1>1. DOMAIN agents = {}
  BY DEF Init
<1> QED BY <1>1, LineageInit DEF FamilyInv

THEOREM FamilyIsRemembered == Spec => []FamilyInv
  BY FamilyInit, FamilyNext, PTL DEF Spec

LEMMA NamesakesHold == FamilyInv => OnlyNamesakesAreLost
<1> SUFFICES ASSUME FamilyInv, NEW g \in DOMAIN agents
             PROVE  LET m == agents[g].memory   rs == agents[g].rules
                    IN /\ Pinned(m) = {RuleTrace(rs[k]) : k \in DOMAIN rs}
                       /\ \A k \in DOMAIN rs :
                            m.entries[RuleTrace(rs[k])].text = rs[k] \/ HasNamesake(rs, k)
  BY DEF OnlyNamesakesAreLost
<1> DEFINE m == agents[g].memory   rs == agents[g].rules
<1>1. rs \in Seq(DOMAIN RuleId)
  BY DEF FamilyInv, Lineage, Descends
<1>2. Remembered(agents[g])
  BY DEF FamilyInv
<1>3. /\ Pinned(m) = Names(rs, Len(rs))
      /\ \A j \in 1 .. Len(rs) :
           Stands(rs, j, Len(rs)) => m.entries[RuleTrace(rs[j])].text = rs[j]
  BY <1>2 DEF Remembered
<1> HIDE DEF m, rs
<1>4. DOMAIN rs = 1 .. Len(rs) /\ Len(rs) \in Nat
  BY <1>1
<1>5. Pinned(m) = {RuleTrace(rs[k]) : k \in DOMAIN rs}
  BY <1>3, <1>4 DEF Names
<1>6. ASSUME NEW k \in DOMAIN rs, ~HasNamesake(rs, k)
      PROVE  m.entries[RuleTrace(rs[k])].text = rs[k]
  <2>1. k \in 1 .. Len(rs)
    BY <1>4
  <2>2. ASSUME NEW i \in k + 1 .. Len(rs) PROVE RuleTrace(rs[i]) # RuleTrace(rs[k])
    <3>1. i \in DOMAIN rs /\ i > k
      BY <1>4, <2>1
    <3> QED BY <1>6, <3>1 DEF HasNamesake
  <2>3. Stands(rs, k, Len(rs))
    BY <2>1, <2>2 DEF Stands
  <2> QED BY <1>3, <2>1, <2>3
<1> QED BY <1>5, <1>6 DEF m, rs

\* Whatever Bob and his children learn, forget and inherit: each has its own
\* constitution pinned, word for word, and nothing else, but for the rules that a
\* later one of the same name was pinned over.  (bootstrap, spawn_child, decay_step)
THEOREM OnlyNamesakesTakeRules == Spec => []OnlyNamesakesAreLost
  BY FamilyIsRemembered, NamesakesHold, PTL

\* The step in which agent g + 1 is spawned.
Born(g) ==
  /\ g + 1 \in DOMAIN agents'
  /\ ~(g + 1 \in DOMAIN agents /\ agents'[g + 1] = agents[g + 1])

LEMMA NothingPinned ==
  ASSUME NEW m
  PROVE  WithRules(m, << >>) = m
<1>1. Len(<< >>) = 0
  OBVIOUS
<1>2. PICK f : Pins(f, m, << >>, 0) /\ WithRules(m, << >>) = f[0]
  BY <1>1, WithRulesSteps
<1> QED BY <1>2 DEF Pins

LEMMA RootStays ==
  ASSUME FamilyInv, [Next]_vars
  PROVE  /\ agents # << >> /\ agents' # << >> =>
              Root(agents'[1].memory) = Root(agents[1].memory)
         /\ \A g \in DOMAIN agents :
              Born(g) /\ agents'[g + 1].rules = agents'[g].rules =>
                Root(agents'[g + 1].memory) = Root(agents'[g].memory)
<1> SUFFICES ASSUME agents # << >>, agents' # << >>
             PROVE  /\ Root(agents'[1].memory) = Root(agents[1].memory)
                    /\ \A g \in DOMAIN agents :
                         Born(g) /\ agents'[g + 1].rules = agents'[g].rules =>
                           Root(agents'[g + 1].memory) = Root(agents'[g].memory)
  BY DEF Born
<1>1. Family = agents /\ Descends(agents) /\ 1 \in DOMAIN agents
  BY FamilyDescends DEF Family, FamilyInv
<1>2. DOMAIN agents = 1 .. Len(agents) /\ Len(agents) \in Nat
  BY <1>1 DEF Descends
<1>3. CASE agents' = agents
  BY <1>3 DEF Born
<1>4. CASE BobMoves
  <2>1. PICK n : /\ Steady(agents[1].memory, n)
                 /\ agents' = [agents EXCEPT ![1].memory = n]
    BY <1>1, <1>4 DEF BobMoves
  <2>2. Remembered(agents[1])
    BY <1>1 DEF FamilyInv
  <2>3. agents'[1].memory = n
    BY <1>1, <2>1, <2>2 DEF Remembered
  <2>4. \A g \in DOMAIN agents : ~Born(g)
    <3>1. \A g \in DOMAIN agents : g + 1 # 1
      BY <1>2
    <3>2. DOMAIN agents' = DOMAIN agents
      BY <2>1
    <3>3. \A k \in DOMAIN agents : k # 1 => agents'[k] = agents[k]
      BY <2>1
    <3> QED BY <3>1, <3>2, <3>3 DEF Born
  <2> QED BY <2>1, <2>3, <2>4 DEF Steady
<1>5. ASSUME NEW g \in DOMAIN agents, NEW extra \in Extras, ChildComes(g, extra)
      PROVE  /\ Root(agents'[1].memory) = Root(agents[1].memory)
             /\ \A k \in DOMAIN agents :
                  Born(k) /\ agents'[k + 1].rules = agents'[k].rules =>
                    Root(agents'[k + 1].memory) = Root(agents'[k].memory)
  <2>1. PICK cap \in Caps : \E m \in Clones(agents[g].memory, cap) :
          agents' = SubSeq(agents, 1, g)
                    \o <<[rules |-> agents[g].rules \o extra, memory |-> WithRules(m, extra)]>>
    BY <1>1, <1>5 DEF ChildComes
  <2>2. PICK m \in Clones(agents[g].memory, cap) :
          agents' = SubSeq(agents, 1, g)
                    \o <<[rules |-> agents[g].rules \o extra, memory |-> WithRules(m, extra)]>>
    BY <2>1
  <2> DEFINE child == [rules |-> agents[g].rules \o extra, memory |-> WithRules(m, extra)]
  <2>3. /\ child.rules = agents[g].rules \o extra
        /\ extra = << >> => child.memory = m
    BY NothingPinned
  <2>4. agents' = Extended(agents, g, child)
    BY <2>2 DEF Extended
  <2> HIDE DEF child
  <2>5. /\ g \in Nat \ {0} /\ DOMAIN agents' = 1 .. g + 1 /\ agents'[g + 1] = child
        /\ \A k \in 1 .. g : k \in DOMAIN agents /\ agents'[k] = agents[k]
    BY <1>1, <2>4, OneMoreAgent
  <2>6. Root(agents'[1].memory) = Root(agents[1].memory)
    <3>1. 1 \in 1 .. g
      BY <2>5
    <3> QED BY <2>5, <3>1
  <2>7. ASSUME NEW k \in DOMAIN agents, Born(k), agents'[k + 1].rules = agents'[k].rules
        PROVE  Root(agents'[k + 1].memory) = Root(agents'[k].memory)
    <3>1. k \in Nat /\ k + 1 \in 1 .. g + 1
      BY <1>2, <2>5, <2>7 DEF Born
    <3>2. k = g
      <4>1. CASE k + 1 <= g
        <5>1. k + 1 \in 1 .. g
          BY <2>5, <3>1, <4>1
        <5> QED BY <2>5, <2>7, <5>1 DEF Born
      <4> QED BY <2>5, <3>1, <4>1
    <3>3. agents'[g + 1] = child /\ agents'[g] = agents[g]
      <4>1. g \in 1 .. g
        BY <2>5
      <4> QED BY <2>5, <4>1
    <3>4. agents[g].rules \o extra = agents[g].rules
      BY <2>3, <2>7, <3>2, <3>3
    <3>5. agents[g].rules \in Seq(DOMAIN RuleId) /\ extra \in Seq(DOMAIN RuleId)
      BY <1>1, ExtrasType DEF Descends
    <3>6. extra = << >>
      <4>1. Len(agents[g].rules \o extra) = Len(agents[g].rules) + Len(extra)
        BY <3>5
      <4>2. Len(extra) = 0
        BY <3>4, <3>5, <4>1
      <4> QED BY <3>5, <4>2
    <3>7. IsMemory(agents[g].memory)
      BY DEF FamilyInv, Remembered
    <3>8. Root(m) = Root(agents[g].memory)
      BY <3>7, CloneKeepsRoot
    <3> QED BY <2>3, <3>2, <3>3, <3>6, <3>8
  <2> QED BY <2>6, <2>7
<1> QED BY <1>1, <1>3, <1>4, <1>5, WhatHappensToTheFamily DEF FamilyMoves

\* No lesson and no decay moves the root of Bob's constitution, and a child that is
\* given no rule on top has its parent's.  (pinned_merkle_root, decay_step,
\* spawn_child)
THEOREM FamilyRootsAreStable ==
  Spec => [][/\ agents # << >> /\ agents' # << >> =>
                  Root(agents'[1].memory) = Root(agents[1].memory)
             /\ \A g \in DOMAIN agents :
                  Born(g) /\ agents'[g + 1].rules = agents'[g].rules =>
                    Root(agents'[g + 1].memory) = Root(agents'[g].memory)]_vars
<1>1. FamilyInv /\ [Next]_vars =>
        [/\ agents # << >> /\ agents' # << >> =>
              Root(agents'[1].memory) = Root(agents[1].memory)
         /\ \A g \in DOMAIN agents :
              Born(g) /\ agents'[g + 1].rules = agents'[g].rules =>
                Root(agents'[g + 1].memory) = Root(agents'[g].memory)]_vars
  BY RootStays
<1> QED BY <1>1, FamilyIsRemembered, PTL DEF Spec

=============================================================================
