--------------------------- MODULE MCReferencePacks ---------------------------
(* ReferencePacks for TLC: a large unit that fits, one that fits in part, a   *)
(* deprecated one of another library version, one without evidence, and a     *)
(* project; two questions under one id and one without a context.             *)
EXTENDS ReferencePacks

PackUnit(status, suits, confidence, evidence, tokens) ==
    [status |-> status, suits |-> suits, confidence |-> confidence, evidence |-> evidence,
     tokens |-> tokens]
MCUnitOf ==
    <<PackUnit("verified", [robot |-> {"g1"}, torch |-> {"2"}], 9, {"s1"}, 5),
      PackUnit("draft", [robot |-> {"g1", "go2"}], 8, {"s1", "s2"}, 2),
      PackUnit("deprecated", [torch |-> {"1"}], 9, {"s1"}, 2),
      PackUnit("draft", [robot |-> {"go2"}], 5, {}, 1)>>
MCClaimOf == [c1 |-> [unit |-> 1, truth |-> 9], c2 |-> [unit |-> 2, truth |-> 8],
              c3 |-> [unit |-> 2, truth |-> 5]]
Link(from, to, confidence) == [from |-> from, to |-> to, confidence |-> confidence]
MCLinks == <<Link(1, 9, 4), Link(2, 1, 4), Link(3, 2, 2), Link(4, 1, 1)>>
Question(query, software, fields, top_k, budget) ==
    [query |-> query, software |-> software, fields |-> fields, top_k |-> top_k, budget |-> budget]
MCPackQueries ==
    {Question("walk", [torch |-> "2"], [robot |-> "g1"], 1, 6),
     Question("walk", [torch |-> "2"], [robot |-> "g1"], 3, 9),
     Question("run", << >>, << >>, 2, 4)}
MCHitScores == <<320, 160>>
=============================================================================
