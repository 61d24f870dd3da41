------------------------------- MODULE Coins --------------------------------
(***************************************************************************)
(* Sums of money.  The contracts keep running totals (pools, payouts,      *)
(* balances) of amounts that live in mappings.  Total(f, S) is the sum of  *)
(* f[x] over a finite set S, defined without recursion: an amount n is the *)
(* set of unit coins 1..n, a coin carries the name of its owner, and the   *)
(* sum is the number of coins.                                             *)
(***************************************************************************)
EXTENDS Naturals, FiniteSets

\* The unit coins that x holds under f.
CoinsOf(f, x) == {x} \X (1 .. f[x])

\* All the coins held by members of S.
Purse(f, S) == UNION {CoinsOf(f, x) : x \in S}

Total(f, S) == Cardinality(Purse(f, S))

=============================================================================
