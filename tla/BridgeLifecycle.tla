---------------------------- MODULE BridgeLifecycle ----------------------------
(***************************************************************************)
(* The clusters of bridge_index.json and everybody who rewrites them: Muse *)
(* mints them (muse.py, incremental_pipeline.py), the publisher grafts the *)
(* curated registry over them and stamps tiers and hashes                  *)
(* (curated_publisher.py, source_tier.py, synth_overrides.py), the         *)
(* reweighter turns evidence into priorities (bridge_reweighter.py), and   *)
(* two scripts label topics (label_cluster_topics.py,                      *)
(* label_cluster_groups.py).                                               *)
(*                                                                         *)
(* Each rewrites the whole file.  Only the label scripts keep a copy for   *)
(* long, while a model answers; what overlapping rewrites of the others do *)
(* to each other is in IncrementalIngest.  Every writer gives a cluster    *)
(* one pattern, so evidence is the evidence of the cluster.                *)
(***************************************************************************)
EXTENDS Integers

CONSTANTS
    Ids,           \* cluster ids
    Evidence,      \* the evidence a pattern may have: [v2, v1] records
    MaxWrites      \* bound on the rewrites of the file

V2Kinds == {"missing", "untrue", "few", "good", "bad"}
    \* no entry in evidence_stats; no sample of the true arm; fewer than 5, or
    \* neither good nor bad; at least 5 and promoted; at least 5 and demoted
V1Kinds == {"none", "bad", "other"}
    \* no sample in pattern_metrics; at least 5 and demoted; the rest

ASSUME BridgeAssumption ==
    /\ Evidence \subseteq [v2: V2Kinds, v1: V1Kinds]
    /\ MaxWrites \in Nat

VARIABLES
    index,         \* symptom_clusters: id -> cluster, or NoCluster
    labelling,     \* the copy a label script works on (and touched then), or NoCopy
    touched,       \* history: ids whose routing fields the reweighter or a label
                   \*   script changed since their hash was computed
    writes,        \* how often the file was rewritten
    judged         \* history: the evidence of each id the last reweighting with
                   \*   evidence_stats saw, or Unjudged since another wrote the file

bridge_vars == <<index, labelling, touched, writes, judged>>

Unset == 2                    \* a priority that is not there
NoCluster == <<>>
NoCopy == <<>>
Unjudged == <<>>
Tiers == {"none", "S", "C", "F"}

Entries == [live: BOOLEAN, tag: BOOLEAN, group: BOOLEAN]
Routing == [curated: BOOLEAN, priority: {-1, 0, 1, Unset}, tier: Tiers,
            tag: BOOLEAN, group: BOOLEAN]
ClusterRecords == [fields: Routing, hash: Routing \cup {NoCluster}]

Here == {i \in Ids : index[i] # NoCluster}

BridgeTypeOK ==
    /\ index \in [Ids -> ClusterRecords \cup {NoCluster}]
    /\ labelling \in {NoCopy} \cup
          [kind: {"tag", "group"}, copy: [Ids -> ClusterRecords \cup {NoCluster}],
           stale: SUBSET Ids]
    /\ touched \subseteq Ids /\ judged \in [Ids -> Evidence] \cup {Unjudged}
    /\ writes \in 0..MaxWrites

BridgeInit ==
    /\ index = [i \in Ids |-> NoCluster]
    /\ labelling = NoCopy
    /\ touched = {} /\ writes = 0 /\ judged = Unjudged

-----------------------------------------------------------------------------
(* Muse.                                                                    *)

Staged ==
    [fields |-> [curated |-> FALSE, priority |-> 0, tier |-> "none",
                 tag |-> FALSE, group |-> FALSE],
     hash |-> NoCluster]

Write == writes < MaxWrites /\ writes' = writes + 1

\* merge_into_bridge: only ids that are not there yet are inserted.
Mint(i) ==
    /\ Write
    /\ index[i] = NoCluster
    /\ index' = [index EXCEPT ![i] = Staged]
    /\ judged' = Unjudged
    /\ UNCHANGED <<labelling, touched>>

\* compile_muse_assets: the bridge is written from nothing.
FullCompile ==
    /\ Write
    /\ \E found \in SUBSET Ids :
          index' = [i \in Ids |-> IF i \in found THEN Staged ELSE NoCluster]
    /\ touched' = {} /\ judged' = Unjudged
    /\ UNCHANGED labelling

-----------------------------------------------------------------------------
(* The publisher.                                                           *)

Hashed(c) == [c EXCEPT !.hash = c.fields]

\* _build_cluster_entry of a registry entry.
Grafted(entry) ==
    Hashed([fields |-> [curated |-> TRUE,
                        priority |-> IF entry.live THEN 1 ELSE -1,
                        tier |-> "S",
                        tag |-> entry.tag, group |-> entry.group],
            hash |-> NoCluster])

\* infer_source_tier: a tier that is set stays.  (Of the tiers below S, F and C
\* stand for those no override gave.)
InferTier(c) ==
    IF c.fields.tier # "none" THEN c.fields.tier
    ELSE IF c.fields.curated THEN "S" ELSE "C"

\* Mutant of Overridden: the tier is left to inference.
OverriddenPriority(c, listed) ==
    IF listed /\ ~c.fields.curated
    THEN [c EXCEPT !.fields.priority = -1, !.fields.tier = InferTier(c)]
    ELSE [c EXCEPT !.fields.tier = InferTier(c)]

\* infer_source_tier_with_overrides for a cluster listed in SYNTH_DEMOTIONS or
\* not: a curated one is never overridden.
Overridden(c, listed) ==
    IF listed /\ ~c.fields.curated
    THEN [c EXCEPT !.fields.priority = -1, !.fields.tier = "F"]
    ELSE [c EXCEPT !.fields.tier = InferTier(c)]

\* The hash is computed again when the tier changed or there is none.
Stamped(c, listed) ==
    LET d == Overridden(c, listed) IN
    IF d.fields.tier # c.fields.tier \/ c.hash = NoCluster THEN Hashed(d) ELSE d

\* publish_curated_assets, with the registry and SYNTH_DEMOTIONS as they are then.
PublishCurated ==
    /\ Write
    /\ \E curated, listed \in SUBSET Ids : \E registry \in [curated -> Entries] :
          index' = [i \in Ids |->
                      IF i \in curated THEN Stamped(Grafted(registry[i]), i \in listed)
                      ELSE IF i \in Here THEN Stamped(index[i], i \in listed)
                      ELSE NoCluster]
    /\ touched' = {i \in touched : index'[i].hash # index'[i].fields}
    /\ judged' = Unjudged
    /\ UNCHANGED labelling

-----------------------------------------------------------------------------
(* The reweighter.                                                          *)

WithPriority(c, p) == [c EXCEPT !.fields.priority = p]

\* No sample: the weights go, and the priority with them, whoever set it.
Unweighted(c) == WithPriority(c, Unset)

\* pattern_metrics decides: -1 for a loser, and -1 is taken back otherwise.
WeighedV1(c, e) ==
    IF e.v1 = "none" THEN Unweighted(c)
    ELSE IF e.v1 = "bad" THEN WithPriority(c, -1)
    ELSE WithPriority(c, IF c.fields.priority = -1 THEN Unset ELSE c.fields.priority)

\* Mutant of WeighedV2: a promotion is not taken back.
WeighedV2Sticky(c, e) ==
    IF e.v2 = "missing" THEN WeighedV1(c, e)
    ELSE IF e.v2 = "untrue" THEN Unweighted(c)
    ELSE IF e.v2 = "good" THEN WithPriority(c, 1)
    ELSE IF e.v2 = "bad" THEN WithPriority(c, -1)
    ELSE WithPriority(c, IF c.fields.priority = -1 THEN Unset ELSE c.fields.priority)

\* evidence_stats decides where it knows the pattern at all.
WeighedV2(c, e) ==
    IF e.v2 = "missing" THEN WeighedV1(c, e)
    ELSE IF e.v2 = "untrue" THEN Unweighted(c)
    ELSE IF e.v2 = "good" THEN WithPriority(c, 1)
    ELSE IF e.v2 = "bad" THEN WithPriority(c, -1)
    ELSE WithPriority(c, IF c.fields.priority \in {-1, 1} THEN Unset
                         ELSE c.fields.priority)

Reweighted(new) ==
    /\ Write
    /\ index' = new
    /\ touched' = touched \cup {i \in Here : new[i].fields # index[i].fields}
    /\ UNCHANGED labelling

\* With --force-v1, or while there is no evidence_stats.json.
ReweightV1 ==
    /\ \E evidence \in [Ids -> Evidence] :
          Reweighted([i \in Ids |-> IF i \in Here THEN WeighedV1(index[i], evidence[i])
                                    ELSE NoCluster])
    /\ judged' = Unjudged

ReweightV2 ==
    \E evidence \in [Ids -> Evidence] :
        /\ Reweighted([i \in Ids |-> IF i \in Here THEN WeighedV2(index[i], evidence[i])
                                     ELSE NoCluster])
        /\ judged' = evidence

-----------------------------------------------------------------------------
(* The label scripts: read, ask the model, write back the whole file.       *)

LabelRead ==
    /\ labelling = NoCopy
    /\ \E kind \in {"tag", "group"} :
          /\ kind = "group" => \E i \in Here : index[i].fields.tag /\ ~index[i].fields.group
          /\ labelling' = [kind |-> kind, copy |-> index, stale |-> touched]
    /\ UNCHANGED <<index, touched, writes, judged>>

\* Every cluster without a tag gets one; every tagged one without a group does.
Labelled(c, kind) ==
    IF c = NoCluster THEN c
    ELSE IF kind = "tag" THEN [c EXCEPT !.fields.tag = TRUE]
    ELSE IF c.fields.tag THEN [c EXCEPT !.fields.group = TRUE] ELSE c

LabelWrite ==
    /\ Write
    /\ labelling # NoCopy
    /\ index' = [i \in Ids |-> Labelled(labelling.copy[i], labelling.kind)]
    /\ touched' = labelling.stale \cup {i \in Ids : index'[i] # labelling.copy[i]}
    /\ labelling' = NoCopy /\ judged' = Unjudged

BridgeNext ==
    \/ FullCompile \/ PublishCurated \/ ReweightV1 \/ ReweightV2
    \/ LabelRead \/ LabelWrite \/ \E i \in Ids : Mint(i)

BridgeSpec == BridgeInit /\ [][BridgeNext]_bridge_vars

-----------------------------------------------------------------------------
(* Properties.                                                              *)

\* rosclaw-how decides by content_hash which clusters to embed again, so a hash
\* must follow the routing fields (bridge_schema.py).  The publisher, which
\* computes hashes again only when it changes a tier, never leaves one behind:
\* the clusters whose hash is out of date are those the reweighter or a label
\* script changed.
PublisherKeepsHashes ==
    \A i \in Here \ touched : index[i].hash \in {NoCluster, index[i].fields}

\* When the reweighter has run, no verdict of older evidence is left: a cluster
\* ranks as promoted or demoted only if the evidence of today says so, or, as
\* for promoted clusters whose pattern only pattern_metrics knows, if that
\* evidence never takes a promotion back.
VerdictsAreCurrent ==
    judged # Unjudged => \A i \in Here :
        LET e == judged[i]  p == index[i].fields.priority IN
        /\ p = -1 => "bad" \in {e.v1, e.v2}
        /\ p = 1  => e.v2 = "good" \/ (e.v2 = "missing" /\ e.v1 = "other")

\* Hashes and priorities follow what they were made from, whoever rewrote the
\* bridge last.
BridgeIsCurrent == PublisherKeepsHashes /\ VerdictsAreCurrent
=============================================================================
