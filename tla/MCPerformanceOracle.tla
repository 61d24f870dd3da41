------------------------ MODULE MCPerformanceOracle -------------------------
(***************************************************************************)
(* Small instances of PerformanceOracle for TLC.                           *)
(***************************************************************************)
EXTENDS PerformanceOracleProps, TLC

CONSTANTS a1, o1, po

VerdictsUsdc == (a1 :> 2) @@ (o1 :> 0) @@ (po :> 2)
NoVerdictUsdc == (a1 :> 2) @@ (po :> 2)

\* Prices a third apart, so that basis points of p0 do not come out even; one
\* quote with a confidence band as wide as its loss; a zero price; and one
\* quote on another scale.
VerdictQuotes ==
  {[price |-> 3, conf |-> 0, expo |-> 0], [price |-> 2, conf |-> 0, expo |-> 0],
   [price |-> 2, conf |-> 1, expo |-> 0], [price |-> 0, conf |-> 0, expo |-> 0],
   [price |-> 3, conf |-> 0, expo |-> 1]}

NoVerdictQuotes ==
  {[price |-> 3, conf |-> 0, expo |-> 0], [price |-> 2, conf |-> 0, expo |-> 0]}

=============================================================================
