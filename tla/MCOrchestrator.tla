--------------------------- MODULE MCOrchestrator ---------------------------
(***************************************************************************)
(* A small instance of Orchestrator for TLC.                               *)
(***************************************************************************)
EXTENDS OrchestratorProps

CONSTANTS NoAudit, Cap1, Cap2, Blacklist, Leverage

\* Another seed has other texts; an older Alice had two rules and one text.
Versions ==
  [ours |-> [texts |-> <<"buy", "sell">>, rules |-> {NoAudit}],
   other |-> [texts |-> <<"hold", "wait">>, rules |-> {NoAudit}],
   older |-> [texts |-> <<"buy">>, rules |-> {NoAudit, Cap1}]]
Left == {<<"ours", 1>>, <<"older", 1>>}
Found == {<<"trace", 1>>}
Rates == [working |-> 3, episodic |-> 1, semantic |-> 1]
Rules == <<Leverage, Cap1, Blacklist>>
Named == (Cap1 :> "cap") @@ (Cap2 :> "cap") @@ (Blacklist :> "blacklist") @@ (NoAudit :> "audit")
         @@ (Leverage :> "leverage")

\* A cap of one USDC and one of half of it, a dead venue, and a list of audited
\* contracts that USDC is not on.
Dictionary ==
  (Leverage :> [kind |-> "MAX_LEVERAGE", bound |-> 20000, adapter |-> "gmx"])
  @@ (Cap1 :> [kind |-> "MAX_TRADE_SIZE", bound |-> 2])
  @@ (Cap2 :> [kind |-> "MAX_TRADE_SIZE", bound |-> 1, adapter |-> "permit2"])
  @@ (Blacklist :> [kind |-> "VENUE_BLACKLIST", addresses |-> {"dead"}])
  @@ (NoAudit :> [kind |-> "NO_UNAUDITED_CONTRACTS", addresses |-> {"router"}])

Order(size, collateral) ==
  [target |-> "router", value |-> 0,
   inner |-> [selector |-> "createOrder", amount |-> size, second |-> collateral,
              whole |-> TRUE]]
Permit(requested, permitted) ==
  [target |-> "permit", value |-> 0,
   inner |-> [selector |-> "permitTransferFrom", amount |-> requested,
              second |-> permitted, whole |-> TRUE]]
Paying(c, value) == [c EXCEPT !.value = value]
SomeCalls ==
  {TransferIntent(2), VenueIntent("dead"), Paying(VenueIntent("router"), 3),
   Order(3, 1), Permit(0, 2)}

=============================================================================
