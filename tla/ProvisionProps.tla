--------------------------- MODULE ProvisionProps ---------------------------
(***************************************************************************)
(* What an operator who provisions agents may rely on.                     *)
(***************************************************************************)
EXTENDS Provision

Transfers(a) == {t \in pool : t.call = [step |-> "transfer", agent |-> a]}

\* No coin goes to a key that is not safely on disk, wherever a launcher died:
\* even a transfer that is still pending has its keystore.  (spawn_keypairs,
\* provision_agent)
FundedKeysAreOnDisk ==
  \A a \in Wallets : paid[a] > 0 \/ Transfers(a) # {} => keystore[a] = "whole"

\* However many launchers share the operator's key, whatever times out and lands
\* late and whoever starts again: no agent is funded twice.  (cast_send,
\* wait_for_receipt, acquire_pool)
PaidOnce == \A a \in Wallets : paid[a] + Cardinality(Transfers(a)) <= 1

\* A launcher that goes on to its next transaction has seen its own ones take
\* effect, not those of another process that took their nonce.  (cast_send,
\* wait_for_receipt)
Effect(call) ==
  LET a == call.agent
  IN CASE call.step = "transfer" -> paid[a] = 1
       [] call.step = "mint" -> a \in Range(minted)
       [] call.step = "approve" -> allowance[a] = Stake \/ a \in veterans
       [] call.step = "registerAgent" -> a \in veterans
ProgressIsOnChain ==
  \A p \in Processes : \A n \in 0 .. job[p].sent - 1 : Effect(CallOf(p, n))

\* "each with a non-None identity_id on success": every agent of a pool that
\* goes into a round, fresh or reused, has its identity and has registered,
\* however many launches failed half-way in the same directory.  (acquire_pool)
PoolsAreWhole ==
  \A p \in Processes : pc[p] = "ready" =>
    \A a \in Range(job[p].wallets) :
      /\ keystore[a] = "whole"
      /\ a \in DOMAIN job[p].ids /\ minted[job[p].ids[a]] = a
      /\ a \in veterans

\* "the agents are already minted/registered/staked": the agents of a pool that
\* is accepted for reuse are registered.  (acquire_pool)
ReusedAgentsAreRegistered ==
  [][\A p \in Processes : pc[p] = "load" /\ pc'[p] = "ready" =>
       Range(job'[p].wallets) \subseteq registered]_vars

=============================================================================
