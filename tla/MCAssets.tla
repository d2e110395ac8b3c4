------------------------------- MODULE MCAssets -------------------------------
(* The asset files for TLC: the ingest with its tables on the instance of     *)
(* MCIncrementalIngest, the life of the clusters of the bridge, the evidence  *)
(* of a pattern, the trend of its uplift, and the graph and the task packs on *)
(* the instance of MCTaskPacks.  A behaviour is about one of them; the others *)
(* stay in their initial state.                                               *)
EXTENDS MCIncrementalIngest, BridgeLifecycle, EvidenceLoop, TrendReports, MCTaskPacks

VARIABLE part

AssetsInit ==
    /\ part \in {"ingest", "bridge", "evidence", "trend", "packs"}
    /\ Init /\ BridgeInit /\ EvidenceInit /\ TrendInit /\ PacksInit

AssetsNext ==
    /\ part' = part
    /\ \/ /\ part = "ingest" /\ Next
          /\ UNCHANGED <<bridge_vars, evidence_vars, trend_vars, packs_vars>>
       \/ /\ part = "bridge" /\ BridgeNext
          /\ UNCHANGED <<vars, evidence_vars, trend_vars, packs_vars>>
       \/ /\ part = "evidence" /\ EvidenceNext
          /\ UNCHANGED <<vars, bridge_vars, trend_vars, packs_vars>>
       \/ /\ part = "trend" /\ TrendNext
          /\ UNCHANGED <<vars, bridge_vars, evidence_vars, packs_vars>>
       \/ /\ part = "packs" /\ PacksNext
          /\ UNCHANGED <<vars, bridge_vars, evidence_vars, trend_vars>>

AssetsSpec ==
    AssetsInit /\ [][AssetsNext]_<<part, vars, bridge_vars, evidence_vars, trend_vars, packs_vars>>

\* Every variable of each has its type.
AssetsTypeOK == TypeOK /\ BridgeTypeOK /\ EvidenceTypeOK /\ TrendTypeOK /\ PacksTypeOK

\* The evidence a pattern may have: v2 alone, v1 alone, and a pattern that
\* evidence_stats knows without a sample of the true arm.
MCEvidence ==
    {[v2 |-> k, v1 |-> "none"] : k \in {"missing", "few", "good", "bad"}} \cup
    {[v2 |-> "missing", v1 |-> k] : k \in {"bad", "other"}} \cup
    {[v2 |-> "untrue", v1 |-> "bad"]}

MCDeltas == {-6, 3}
=============================================================================
