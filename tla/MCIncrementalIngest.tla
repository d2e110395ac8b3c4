-------------------------- MODULE MCIncrementalIngest --------------------------
(* Instances of IncrementalIngest for TLC: two pages with ids of their own    *)
(* and a curated cluster that belongs to neither.                             *)
EXTENDS IncrementalIngest, TLC

CONSTANTS p1, p2, n1, n2, n3

MCPages   == {p1, p2}
MCNodes   == {n1, n2, n3}
MCHome    == (p1 :> n1) @@ (p2 :> n2)
MCCurated == {n3}

\* The first content of p2 says too little.
MCThin == {<<p2, 1>>}

\* The first content of p1 cannot always be read.
MCFlaky == {<<p1, 1>>}
=============================================================================
