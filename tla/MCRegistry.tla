----------------------------- MODULE MCRegistry -----------------------------
(***************************************************************************)
(* A small instance of Registry for TLC.                                   *)
(***************************************************************************)
EXTENDS RegistryProps

\* The operator's agent and one that nobody has registered.
TwoAgents == <<1, 2>>
Addresses == <<Operator, Stranger>>

\* The operator's advice and another's, and an oracle that is not the service's.
ThreeQuestions == {<<"config", Operator>>, <<"config", Stranger>>, <<"other", Operator>>}

Directory == {<<"config", Operator>>}

\* One memory each.
OwnRoots == [who \in {Operator, Stranger} |-> {<<"root", who>>}]

=============================================================================
