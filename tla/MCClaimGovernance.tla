-------------------------- MODULE MCClaimGovernance --------------------------
(* Small instances of ClaimGovernance: source a has three claim ids, source *)
(* b one.                                                                   *)
EXTENDS ClaimGovernance, TLC

CONSTANTS a, b, a1, a2, a3, b1, w1, w2

FourClaims  == {a1, a2, a3, b1}
ThreeClaims == {a1, a2, b1}
TwoSources  == {a, b}
SrcOf       == [c \in Claims |-> IF c = b1 THEN b ELSE a]
TwoObjects  == {1, 2}
ThreeObjects == {1, 2, 3}
\* The first compilation may list three releases.
MCBatch      == [i \in 1..MaxClock |-> IF i = 1 THEN 3 ELSE 1]

OneWriter   == {w1}
TwoWriters  == {w1, w2}

\* The writers run the same code and are only compared for equality.
WriterSymmetry == Permutations(Writers)
=============================================================================
