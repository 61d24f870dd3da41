---------------------------- MODULE Constitution ----------------------------
(***************************************************************************)
(* What a constitution forbids, as the four contracts that read one see it *)
(* and as Bob predicts it: ConstitutionRegistry, ConstitutionValidator,    *)
(* ConstitutionHook, ConstitutionExecutor, the GMX and Permit2 adapters,   *)
(* and the trade intents of agents/bob.py.                                 *)
(*                                                                         *)
(* A constitution is a sequence of rules; a rule is a kind with a bound or *)
(* with addresses, and an adapter that reads a protocol's calldata.  A     *)
(* call is execute(target, value, inner).  Its calldata is kept as the     *)
(* selector, two numbers (the size and the collateral of an order, the     *)
(* requested and the permitted amount of a Permit2 transfer, the amount of *)
(* an ERC-20 transfer and nothing) and whether the body is whole.  A check *)
(* that reverts does so for the first rule that stops the call.            *)
(***************************************************************************)
EXTENDS Naturals

CONSTANT Usdc       \* base units of one USDC

ASSUME UsdcAssumption == Usdc \in Nat \ {0}

-----------------------------------------------------------------------------
(***************************************************************************)
(* The adapters; a rule without one, or with one that is none, has "zero". *)
(***************************************************************************)

Handles == [gmx |-> "createOrder", permit2 |-> "permitTransferFrom"]
Applies(adapter, inner) ==
  adapter \in DOMAIN Handles /\ Handles[adapter] = inner.selector

\* decode reverts with Malformed on a truncated body of its own selector, which
\* the callers raise again; NotApplicable, which they catch, leaves zeros.
Garbled(adapter, inner) == Applies(adapter, inner) /\ ~inner.whole

OrderLeverage(inner) ==
  IF inner.second = 0 THEN 0 ELSE (inner.amount * 10000) \div inner.second
Permitted(inner) == IF inner.amount = 0 THEN inner.second ELSE inner.amount

DecodedSize(adapter, inner) ==
  IF ~Applies(adapter, inner) THEN 0
  ELSE IF adapter = "gmx" THEN inner.amount ELSE Permitted(inner)
DecodedLeverage(adapter, inner) ==
  IF Applies(adapter, inner) /\ adapter = "gmx" THEN OrderLeverage(inner) ELSE 0

-----------------------------------------------------------------------------
(***************************************************************************)
(* One rule, and the walk over all of them.                                *)
(***************************************************************************)

NeedsAdapter == {"MAX_LEVERAGE", "SUBDELEGATION_BOUND"}
ReadsAdapter == NeedsAdapter \cup {"MAX_TRADE_SIZE"}
Unenforceable(r) == r.kind \in NeedsAdapter /\ r.adapter \notin DOMAIN Handles

\* What the calldata of a call says it moves in ERC-20 tokens.
Transferred(inner) ==
  IF inner.selector = "transfer" /\ inner.whole THEN inner.amount ELSE 0

Breaks(r, c) ==
  CASE r.kind = "MAX_LEVERAGE" -> DecodedLeverage(r.adapter, c.inner) > r.bound
    [] r.kind = "MAX_TRADE_SIZE" ->
         \/ c.value > r.bound
         \/ DecodedSize(r.adapter, c.inner) > r.bound
         \/ Transferred(c.inner) > r.bound
    [] r.kind = "VENUE_BLACKLIST" -> c.target \in r.addresses
    [] r.kind = "NO_UNAUDITED_CONTRACTS" ->
         r.addresses # {} /\ c.target \notin r.addresses
    [] r.kind = "SUBDELEGATION_BOUND" -> DecodedSize(r.adapter, c.inner) > r.bound
    [] OTHER -> FALSE

\* The native value is looked at before the adapter is asked.
Judged(r, c) ==
  IF /\ r.kind \in ReadsAdapter /\ Garbled(r.adapter, c.inner)
     /\ ~(r.kind = "MAX_TRADE_SIZE" /\ c.value > r.bound)
  THEN "Malformed"
  ELSE IF Breaks(r, c) THEN r.kind ELSE "OK"

\* The validator fails closed on a rule without its adapter; the hook and the
\* executor pass over it.
ValidatorOn(r, c) ==
  IF Unenforceable(r) THEN "MissingRequiredAdapter" ELSE Judged(r, c)
HookOn(r, c) == IF Unenforceable(r) THEN "OK" ELSE Judged(r, c)
ExecutorOn(r, c) == IF Unenforceable(r) THEN "OK" ELSE Judged(r, c)

FirstStop(verdicts) ==
  LET stops == {k \in DOMAIN verdicts : verdicts[k] # "OK"}
  IN IF stops = {} THEN "OK"
     ELSE verdicts[CHOOSE k \in stops : \A j \in stops : k <= j]

\* defineConstitution takes rs; validateUserOp, preCheck and execute on call c.
Defined(rs) == rs # << >> /\ \A k \in DOMAIN rs : ~Unenforceable(rs[k])
Validate(rs, c) == FirstStop([k \in DOMAIN rs |-> ValidatorOn(rs[k], c)])
PreCheck(rs, c) == FirstStop([k \in DOMAIN rs |-> HookOn(rs[k], c)])
Execute(rs, c) == FirstStop([k \in DOMAIN rs |-> ExecutorOn(rs[k], c)])

\* postCheck: the balance may have dropped by the last cap of the walk.
CapsOf(rs) == {k \in DOMAIN rs : rs[k].kind = "MAX_TRADE_SIZE"}
PostCheckFirst(rs, spent) ==
  \A k \in CapsOf(rs) : (\A j \in CapsOf(rs) : k <= j) => spent <= rs[k].bound
PostCheck(rs, spent) ==
  \A k \in CapsOf(rs) : (\A j \in CapsOf(rs) : j <= k) => spent <= rs[k].bound

\* The calldata of c passes on an account with validator and hook.
Passes(rs, c) == Validate(rs, c) = "OK" /\ PreCheck(rs, c) = "OK"

-----------------------------------------------------------------------------
(***************************************************************************)
(* Bob's side: rules are dicts, whose fields may be left out.              *)
(***************************************************************************)

Field(d, name, default) == IF name \in DOMAIN d THEN d[name] ELSE default

DefaultBound(kind) ==
  CASE kind = "MAX_LEVERAGE" -> 20000
    [] kind = "SUBDELEGATION_BOUND" -> Usdc \div 2
    [] OTHER -> Usdc

\* rules_to_solidity.
Encoded(d) ==
  [kind |-> d.kind, bound |-> Field(d, "bound", DefaultBound(d.kind)),
   addresses |-> Field(d, "addresses", {}), adapter |-> Field(d, "adapter", "zero")]
EncodedRules(ds) == [k \in DOMAIN ds |-> Encoded(ds[k])]

\* define_constitution of the demo raises unless the registry stored the rules.
Published(ds) == Defined(EncodedRules(ds))

\* _classify_intent, one rule at a time: the inline checks alone.
Listed(d, c) ==
  \/ d.kind = "VENUE_BLACKLIST" /\ c.target \in Field(d, "addresses", {})
  \/ /\ d.kind = "NO_UNAUDITED_CONTRACTS"
     /\ Field(d, "addresses", {}) # {} /\ c.target \notin d.addresses
PredictedBreakAtCap(d, c) ==
  \/ /\ d.kind = "MAX_TRADE_SIZE"
     /\ c.value >= Field(d, "bound", 0) \/ Transferred(c.inner) >= Field(d, "bound", 0)
  \/ Listed(d, c)
PredictedBreak(d, c) ==
  \/ /\ d.kind = "MAX_TRADE_SIZE"
     /\ c.value > Field(d, "bound", 0) \/ Transferred(c.inner) > Field(d, "bound", 0)
  \/ Listed(d, c)
Predicted(d, c) == IF PredictedBreak(d, c) THEN d.kind ELSE "OK"
Classify(ds, c) == FirstStop([k \in DOMAIN ds |-> Predicted(ds[k], c)])

\* The shapes of Bob's intents: a USDC transfer, and an empty call of a venue.
TransferIntent(amount) ==
  [target |-> "USDC", value |-> 0,
   inner |-> [selector |-> "transfer", amount |-> amount, second |-> 0, whole |-> TRUE]]
VenueIntent(venue) ==
  [target |-> venue, value |-> 0,
   inner |-> [selector |-> "none", amount |-> 0, second |-> 0, whole |-> FALSE]]

\* _max_trade_cap_usdc is the first cap; a violation is five times that, or five
\* USDC when there is none or it is zero.
DictCaps(ds) == {k \in DOMAIN ds : ds[k].kind = "MAX_TRADE_SIZE"}
FirstCap(ds) ==
  IF DictCaps(ds) = {} THEN 0
  ELSE LET k == CHOOSE k \in DictCaps(ds) : \A j \in DictCaps(ds) : k <= j
       IN Field(ds[k], "bound", 0)
Oversized(ds) == 5 * (IF FirstCap(ds) = 0 THEN Usdc ELSE FirstCap(ds))

\* The demo script sends fifty USDC whatever the cap.  What it reports of a trade
\* that the validator stops or not, by how its eth_call and then its transaction
\* ended: the node answered, refused it with an error of its own, or was lost (no
\* connection, no receipt in time), which no handler there catches.
DemoTrade == 50 * Usdc
Evidence(stops, call, sent) ==
  IF call # "answered" \/ sent = "lost" THEN "raises"
  ELSE IF stops THEN "revert"
  ELSE IF sent = "refused" THEN "raises" ELSE "none"

=============================================================================
