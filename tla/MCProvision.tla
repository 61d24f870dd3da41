---------------------------- MODULE MCProvision -----------------------------
(***************************************************************************)
(* Small instances of Provision for TLC.                                   *)
(***************************************************************************)
EXTENDS ProvisionProps, TLC

CONSTANTS a1, a2, a3, a4

TwoPools == <<a1, a2, a3, a4>>
TwoPoolKeys == {Operator} \cup Range(TwoPools)

=============================================================================
