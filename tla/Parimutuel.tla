----------------------------- MODULE Parimutuel -----------------------------
(***************************************************************************)
(* What one duel's betting promises its bettors, with none of the          *)
(* contract's bookkeeping: bets are placed while the book is open, the     *)
(* book locks, a winning side is decided, and then each bettor who is      *)
(* entitled to money is paid once.  If nobody backed the winning side      *)
(* everyone gets their own stake back; otherwise each winner gets at least *)
(* the whole units of a pro-rata share, the payments never exceed the pot, *)
(* and once the last winner is paid the pot is empty.                      *)
(***************************************************************************)
EXTENDS Naturals, FiniteSets, Coins

CONSTANT Bettors

VARIABLES
  phase,    \* "open", "locked", or the side that won
  bets,     \* bets[s][p]: what p staked on side s
  paidTo,   \* who has been paid
  paid      \* how much has been paid to all of them

bookVars == <<phase, bets, paidTo, paid>>

Staked(s) == Total(bets[s], Bettors)
Pot == Staked("A") + Staked("B")
Decided == phase \in {"A", "B"}
Refunding == Staked(phase) = 0

\* p has money coming.
Entitled(p) ==
  IF Refunding THEN bets["A"][p] + bets["B"][p] > 0 ELSE bets[phase][p] > 0

TypeOK ==
  /\ phase \in {"open", "locked", "A", "B"}
  /\ bets \in [{"A", "B"} -> [Bettors -> Nat]]
  /\ paidTo \subseteq Bettors
  /\ paid \in Nat

Init ==
  /\ phase = "open"
  /\ bets = [s \in {"A", "B"} |-> [p \in Bettors |-> 0]]
  /\ paidTo = {}
  /\ paid = 0

\* p adds to a bet; nobody else's bet moves.
Place(p, s) ==
  /\ phase = "open"
  /\ bets'[s][p] > bets[s][p]
  /\ bets' = [bets EXCEPT ![s][p] = bets'[s][p]]
  /\ UNCHANGED <<phase, paidTo, paid>>

Lock ==
  /\ phase = "open"
  /\ phase' = "locked"
  /\ UNCHANGED <<bets, paidTo, paid>>

Decide(s) ==
  /\ phase = "locked"
  /\ phase' = s
  /\ UNCHANGED <<bets, paidTo, paid>>

Refund(p) ==
  /\ Refunding
  /\ paid' = paid + bets["A"][p] + bets["B"][p]

Share(p) ==
  /\ ~Refunding
  /\ paid' >= paid + (bets[phase][p] * Pot) \div Staked(phase)
  /\ paid' <= Pot
  /\ (\A q \in Bettors : Entitled(q) => q \in paidTo \cup {p}) => paid' = Pot

Pay(p) ==
  /\ Decided
  /\ p \notin paidTo
  /\ Entitled(p)
  /\ Refund(p) \/ Share(p)
  /\ paidTo' = paidTo \cup {p}
  /\ UNCHANGED <<phase, bets>>

Next ==
  \/ \E p \in Bettors, s \in {"A", "B"} : Place(p, s)
  \/ Lock
  \/ \E s \in {"A", "B"} : Decide(s)
  \/ \E p \in Bettors : Pay(p)

Spec == Init /\ [][Next]_bookVars

=============================================================================
