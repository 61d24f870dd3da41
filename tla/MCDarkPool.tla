----------------------------- MODULE MCDarkPool -----------------------------
(***************************************************************************)
(* A small instance of DarkPool for TLC.                                   *)
(***************************************************************************)
EXTENDS DarkPoolProps, TLC

Authorization(domain, n, after, before) ==
  [signer |-> "bob", domain |-> domain, nonce |-> n, to |-> "alice", value |-> 1,
   validAfter |-> after, validBefore |-> before]

\* Two that share a nonce and expire early and late, and one of the other
\* EIP-712 domain under the same nonce, which is not valid at once.
ThreeAuths == {Authorization("usdc", 1, 0, 1), Authorization("usdc", 1, 0, 2),
               Authorization("gateway", 1, 2, 3)}

=============================================================================
