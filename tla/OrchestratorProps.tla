-------------------------- MODULE OrchestratorProps -------------------------
(***************************************************************************)
(* What Alice, Bob and his children may rely on.                           *)
(***************************************************************************)
EXTENDS Orchestrator

CONSTANTS
  Amounts,      \* the sizes of Bob's transfers that are judged (bound)
  Calls,        \* the calls that are judged (bound)
  Outflows      \* what a call may cost (bound)

ASSUME JudgedAssumption == Amounts \subseteq Nat /\ Outflows \subseteq Nat

\* The versions that may have been written: hers, and those of other seeds, models
\* and rules that earlier runs and the seed command wrote.
Around == {Ours} \cup Seeds \cup {k[1] : k \in Kept}

\* A whole memory of version v for a corpus of n: every text, every rule, no more.
WholeMemory(m, v, n) ==
  /\ Ids(m) = Traces(n) \cup PinTraces(v) /\ Pinned(m) = PinTraces(v)
  /\ \A k \in 1 .. n : m.entries[<<"trace", k>>].text = Corpora[v].texts[k]
  /\ \A r \in RulesOf(v) : m.entries[<<"pinned", r>>].text = r

\* Whatever files earlier runs left, however the seed command and the demo overlap
\* or die in a save: an Alice who serves has a memory that was built whole, for one
\* version, with at least as many entries as hers would have.  It need not be of her
\* version: she counts and no more.  Of her own it has her whole corpus and every
\* rule.  (Alice.bootstrap, MemoryService.load, save)
ServedMemoryIsWhole ==
  pc["demo"] = "ready" =>
    \E v \in Around : \E n \in Sizes(v) :
      /\ WholeMemory(ram["demo"], v, n)
      /\ n + Cardinality(RulesOf(v)) >= Size + Cardinality(AliceRules)
      /\ v = Ours => n >= Size

\* "pinned_root_stable": the root that is anchored for Alice is computed from the file,
\* after a look ahead; whoever built the file, when and for how many texts, it is the
\* root of the memory she serves, if both were built around the same origin.  (A file
\* built anew around another one has another root.)  (step_decay_check_pinned,
\* pinned_merkle_root)
AnchoredRootIsServed ==
  pc["demo"] = "ready" /\ Readable(archive) /\ archive.centroid = ram["demo"].centroid =>
    AnchoredRoot = Root(ram["demo"])

\* A save is atomic: a readable archive becomes unreadable only if another
\* process opened the file of the one that saves; a crash never does it.
\* (MemoryService.save)
SavesAreAtomic ==
  [][Readable(archive) /\ ~Readable(archive') => mixed # {}]_vars

\* Crashes and lost races end, and then Alice comes up and stays up: no file
\* keeps her down.  (Alice.bootstrap)
AliceComesUp == <>[](pc["demo"] = "ready")

\* A later rule of constitution rs has the name of its k-th rule.
HasNamesake(rs, k) == \E j \in DOMAIN rs : j > k /\ RuleTrace(rs[j]) = RuleTrace(rs[k])

\* "the constitution must transfer intact": every agent of the family has the rules
\* of its constitution pinned, word for word, and nothing else, whatever it learned,
\* however far its memory decayed and how little of it was inherited; but for a rule
\* whose name a later one has, which is lost: spawn_child pins an extra rule over the
\* inherited rule of the same rule_id, or of the same kind without one.  (bootstrap,
\* spawn_child, decay_step)
OnlyNamesakesAreLost ==
  \A g \in DOMAIN agents :
    LET m == agents[g].memory   rs == agents[g].rules
    IN /\ Pinned(m) = {RuleTrace(rs[k]) : k \in DOMAIN rs}
       /\ \A k \in DOMAIN rs :
            m.entries[RuleTrace(rs[k])].text = rs[k] \/ HasNamesake(rs, k)

\* A constitution as the contracts get it.
OnChain(rules) == EncodedRules(Dicts(rules))

\* rules_to_solidity and _classify_intent default a missing cap differently.
SaysItsCaps(rules) ==
  \A k \in DictCaps(Dicts(rules)) : "bound" \in DOMAIN Meaning[rules[k]]

\* The demo's line of evidence for a transfer says what its label says, or there is
\* none because the node failed.
Ends == {"answered", "refused", "lost"}
EvidenceIsTrue(rules, amount) ==
  LET stops == Validate(OnChain(rules), TransferIntent(amount)) # "OK"
      says == IF Label(rules, amount) = "OK" THEN "none" ELSE "revert"
  IN \A call, sent \in Ends : Evidence(stops, call, sent) \in {"raises", says}

\* The label of a transfer is what all contracts say of it, and one labelled OK is
\* not stopped after the fact.
LabelIsTrue(rules, amount) ==
  LET rs == OnChain(rules)   c == TransferIntent(amount)   label == Label(rules, amount)
  IN /\ Validate(rs, c) = label /\ PreCheck(rs, c) = label /\ Execute(rs, c) = label
     /\ label = "OK" => PostCheck(rs, amount)
     /\ EvidenceIsTrue(rules, amount)

\* Whatever rules it inherits: if an agent's constitution can be defined, the
\* label it puts on a transfer comes true, and the violation of step 4 is one.
\* (_classify_intent, rules_to_solidity, _enforce, preCheck, postCheck,
\* call_validate_user_op_expect_revert)
PredictionsComeTrue ==
  \A g \in DOMAIN agents :
    LET rules == agents[g].rules   size == Oversized(Dicts(rules))
    IN Published(Dicts(rules)) /\ SaysItsCaps(rules) =>
         /\ \A amount \in Amounts \cup {size, DemoTrade} : LabelIsTrue(rules, amount)
         /\ CapsOf(OnChain(rules)) # {} => Label(rules, size) # "OK"

\* No cap is looser than one before it.
Tightening(rs) ==
  \A j, k \in CapsOf(rs) : j < k => rs[k].bound <= rs[j].bound

\* A child's account lets no call through whose calldata its parent's account
\* refuses; and as long as caps only tighten, a call that both checks of the hook
\* let through costs no more than any of them.  postCheck knows the last cap only.
\* (spawn_child, validateUserOp, preCheck, postCheck)
ChildrenAreNoFreer ==
  \A g \in DOMAIN agents : g + 1 \in DOMAIN agents =>
    LET child == OnChain(agents[g + 1].rules)   parent == OnChain(agents[g].rules)
    IN /\ \A c \in Calls : Passes(child, c) => Passes(parent, c)
       /\ Tightening(child) =>
            \A spent \in Outflows, k \in CapsOf(child) :
              PostCheck(child, spent) => spent <= child[k].bound

=============================================================================
