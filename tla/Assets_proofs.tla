---------------------------- MODULE Assets_proofs ----------------------------
(***************************************************************************)
(* The assets hold what they promise, whoever rewrites them and whenever a *)
(* writer dies: proofs about BridgeLifecycle, EvidenceLoop, TrendReports,  *)
(* KnowledgeGraph, TaskPacks and IncrementalIngest, for any clusters,      *)
(* evidence, uplifts, assets and pages, and any number of writes, traces,  *)
(* reports, builds, runs and kills.                                        *)
(***************************************************************************)
EXTENDS BridgeLifecycle, EvidenceLoop, TrendReports, TaskPacks, IncrementalIngest, FiniteSums

-----------------------------------------------------------------------------
(* The bridge: one cluster.                                                 *)

\* A cluster without a hash was never published, so it has no tier; a hash of
\* an overridden cluster was taken of its demotion.  Without the second part a
\* publication that finds the tier already "F" would demote and keep the hash.
ClusterOK(c) ==
    /\ c.hash = NoCluster => c.fields.tier = "none"
    /\ c.hash # NoCluster /\ c.hash.tier = "F" => c.hash.priority = -1

\* The hash of a cluster nobody touched.
Fresh(c) == c.hash \in {NoCluster, c.fields}

LEMMA RoutingIsSet == \A r \in Routing : r # NoCluster
<1> SUFFICES ASSUME NEW r \in Routing, r = NoCluster PROVE FALSE
  OBVIOUS
<1>1. "curated" \in DOMAIN r
  BY DEF Routing
<1>2. DOMAIN NoCluster = {}
  BY DEF NoCluster
<1> QED BY <1>1, <1>2

LEMMA ClusterIsSet == \A c \in ClusterRecords : c # NoCluster
<1> SUFFICES ASSUME NEW c \in ClusterRecords, c = NoCluster PROVE FALSE
  OBVIOUS
<1>1. "fields" \in DOMAIN c
  BY DEF ClusterRecords
<1>2. DOMAIN NoCluster = {}
  BY DEF NoCluster
<1> QED BY <1>1, <1>2

LEMMA StagedOK == Staged \in ClusterRecords /\ ClusterOK(Staged) /\ Fresh(Staged)
<1>1. Staged.fields \in Routing
  BY DEF Staged, Routing, Tiers, Unset
<1>2. Staged \in ClusterRecords
  BY <1>1 DEF Staged, ClusterRecords
<1> QED BY <1>2 DEF Staged, ClusterOK, Fresh

\* A hash computed again is fresh, whatever the fields, unless they are those
\* of a cluster marked "F" that is not demoted.
LEMMA HashedOK ==
    ASSUME NEW c \in ClusterRecords, c.fields.tier = "F" => c.fields.priority = -1
    PROVE  /\ Hashed(c) \in ClusterRecords /\ ClusterOK(Hashed(c))
           /\ Hashed(c).hash = Hashed(c).fields
<1>1. /\ c.fields \in Routing
      /\ Hashed(c) = [fields |-> c.fields, hash |-> c.fields]
  BY DEF ClusterRecords, Hashed
<1>2. Hashed(c) \in ClusterRecords
  BY <1>1 DEF ClusterRecords
<1> QED BY <1>1, <1>2, RoutingIsSet DEF ClusterOK

LEMMA GraftedOK ==
    ASSUME NEW entry \in Entries
    PROVE  Grafted(entry) \in ClusterRecords /\ ClusterOK(Grafted(entry)) /\ Fresh(Grafted(entry))
<1> DEFINE r == [curated |-> TRUE, priority |-> IF entry.live THEN 1 ELSE -1,
                 tier |-> "S", tag |-> entry.tag, group |-> entry.group]
           c == [fields |-> r, hash |-> NoCluster]
<1>1. r \in Routing
  BY DEF Entries, Routing, Tiers
<1>2. r.tier = "S"
  OBVIOUS
<1> HIDE DEF r
<1>3. c \in ClusterRecords /\ c.fields.tier # "F"
  BY <1>1, <1>2 DEF ClusterRecords
<1>4. /\ Hashed(c) \in ClusterRecords /\ ClusterOK(Hashed(c))
      /\ Hashed(c).hash = Hashed(c).fields
  BY <1>3, HashedOK
<1> QED BY <1>4 DEF Grafted, Fresh, r

\* What the publisher makes of a cluster is a cluster, and the hash follows the
\* fields wherever it did before.
LEMMA StampedOK ==
    ASSUME NEW c \in ClusterRecords, ClusterOK(c), NEW listed \in BOOLEAN
    PROVE  /\ Stamped(c, listed) \in ClusterRecords /\ ClusterOK(Stamped(c, listed))
           /\ Fresh(c) => Fresh(Stamped(c, listed))
<1>1. PICK d : d = Overridden(c, listed)
  OBVIOUS
<1>2. /\ c.fields \in Routing /\ c.hash \in Routing \cup {NoCluster}
      /\ c = [fields |-> c.fields, hash |-> c.hash]
  BY DEF ClusterRecords
<1>3. InferTier(c) \in Tiers /\ (c.fields.tier # "none" => InferTier(c) = c.fields.tier)
      /\ (c.fields.tier = "none" => InferTier(c) \in {"S", "C"})
  BY <1>2 DEF InferTier, Routing, Tiers
<1>4. CASE listed /\ ~c.fields.curated
  <2>1. /\ d.fields = [c.fields EXCEPT !.priority = -1, !.tier = "F"] /\ d.hash = c.hash
        /\ d = [fields |-> d.fields, hash |-> d.hash]
    BY <1>1, <1>2, <1>4 DEF Overridden
  <2>2. d.fields \in Routing /\ d.fields.tier = "F" /\ d.fields.priority = -1
    BY <1>2, <2>1 DEF Routing, Tiers
  <2>3. d \in ClusterRecords
    BY <1>2, <2>1, <2>2 DEF ClusterRecords
  <2>4. CASE d.fields.tier # c.fields.tier \/ c.hash = NoCluster
    BY <1>1, <2>2, <2>3, <2>4, HashedOK DEF Stamped, Fresh
  <2>5. CASE ~(d.fields.tier # c.fields.tier \/ c.hash = NoCluster)
    <3>1. Stamped(c, listed) = d
      BY <1>1, <2>5 DEF Stamped
    <3>2. ClusterOK(d)
      BY <2>1, <2>2, <2>5 DEF ClusterOK
    <3>3. ASSUME Fresh(c) PROVE Fresh(d)
      <4>1. c.hash = c.fields /\ c.fields.tier = "F" /\ c.fields.priority = -1
        BY <2>2, <2>5, <3>3 DEF Fresh, ClusterOK
      <4>2. c.fields = [curated |-> c.fields.curated, priority |-> c.fields.priority,
                        tier |-> c.fields.tier, tag |-> c.fields.tag, group |-> c.fields.group]
        BY <1>2 DEF Routing
      <4>3. [c.fields EXCEPT !.priority = c.fields.priority, !.tier = c.fields.tier] = c.fields
        BY <4>2
      <4>4. d.fields = c.fields
        BY <2>1, <4>1, <4>3
      <4> QED BY <2>1, <4>1, <4>4 DEF Fresh
    <3> QED BY <2>3, <3>1, <3>2, <3>3
  <2> QED BY <2>4, <2>5
<1>5. CASE ~(listed /\ ~c.fields.curated)
  <2>1. /\ d.fields = [c.fields EXCEPT !.tier = InferTier(c)] /\ d.hash = c.hash
        /\ d = [fields |-> d.fields, hash |-> d.hash]
    BY <1>1, <1>2, <1>5 DEF Overridden
  <2>2. /\ d.fields \in Routing /\ d.fields.tier = InferTier(c)
        /\ d.fields.priority = c.fields.priority
    BY <1>2, <1>3, <2>1 DEF Routing
  <2>3. d \in ClusterRecords
    BY <1>2, <2>1, <2>2 DEF ClusterRecords
  <2>4. CASE d.fields.tier # c.fields.tier \/ c.hash = NoCluster
    <3>1. c.fields.tier = "none"
      BY <1>3, <2>2, <2>4 DEF ClusterOK
    <3>2. d.fields.tier # "F"
      BY <1>3, <2>2, <3>1
    <3> QED BY <1>1, <2>3, <2>4, <3>2, HashedOK DEF Stamped, Fresh
  <2>5. CASE ~(d.fields.tier # c.fields.tier \/ c.hash = NoCluster)
    <3>0. InferTier(c) = c.fields.tier
      BY <2>2, <2>5
    <3>1. d.fields = c.fields
      <4>1. c.fields = [curated |-> c.fields.curated, priority |-> c.fields.priority,
                        tier |-> c.fields.tier, tag |-> c.fields.tag, group |-> c.fields.group]
        BY <1>2 DEF Routing
      <4>2. [c.fields EXCEPT !.tier = c.fields.tier] = c.fields
        BY <4>1
      <4> QED BY <2>1, <3>0, <4>2
    <3>2. d = c
      BY <1>2, <2>1, <3>1
    <3> QED BY <1>1, <2>5, <3>2 DEF Stamped
  <2> QED BY <2>4, <2>5
<1> QED BY <1>4, <1>5

\* The reweighter changes a priority and nothing else.
LEMMA PriorityOnly ==
    ASSUME NEW c \in ClusterRecords, NEW p \in {-1, 0, 1, Unset}
    PROVE  /\ WithPriority(c, p) \in ClusterRecords
           /\ WithPriority(c, p).hash = c.hash
           /\ WithPriority(c, p).fields.tier = c.fields.tier
           /\ WithPriority(c, p).fields.priority = p
<1>1. /\ c.fields \in Routing /\ c.hash \in Routing \cup {NoCluster}
      /\ c = [fields |-> c.fields, hash |-> c.hash]
  BY DEF ClusterRecords
<1>2. /\ WithPriority(c, p) = [fields |-> [c.fields EXCEPT !.priority = p], hash |-> c.hash]
  BY <1>1 DEF WithPriority
<1>3. [c.fields EXCEPT !.priority = p] \in Routing
  BY <1>1 DEF Routing
<1>4. WithPriority(c, p) \in ClusterRecords
  BY <1>1, <1>2, <1>3 DEF ClusterRecords
<1>5. /\ [c.fields EXCEPT !.priority = p].tier = c.fields.tier
      /\ [c.fields EXCEPT !.priority = p].priority = p
  BY <1>1 DEF Routing
<1>6. /\ WithPriority(c, p).fields = [c.fields EXCEPT !.priority = p]
      /\ WithPriority(c, p).hash = c.hash
  BY <1>2
<1> QED BY <1>4, <1>5, <1>6

\* A cluster that was weighed: same hash and tier, and a priority in its range.
Reprioritised(c, d) ==
    /\ d \in ClusterRecords /\ d.hash = c.hash /\ d.fields.tier = c.fields.tier

LEMMA WeighedV1OK ==
    ASSUME NEW c \in ClusterRecords, NEW e
    PROVE  /\ Reprioritised(c, WeighedV1(c, e))
           /\ WeighedV1(c, e).fields.priority = -1 => e.v1 = "bad"
           /\ WeighedV1(c, e).fields.priority = 1 => e.v1 \notin {"none", "bad"}
<1>1. c.fields.priority \in {-1, 0, 1, Unset}
  BY DEF ClusterRecords, Routing
<1>2. CASE e.v1 = "none"
  BY <1>2, PriorityOnly DEF WeighedV1, Unweighted, Reprioritised, Unset
<1>3. CASE e.v1 = "bad"
  BY <1>3, PriorityOnly DEF WeighedV1, Reprioritised, Unset
<1>4. CASE e.v1 \notin {"none", "bad"}
  <2>1. PICK p : p = IF c.fields.priority = -1 THEN Unset ELSE c.fields.priority
    OBVIOUS
  <2>2. p \in {0, 1, Unset}
    BY <1>1, <2>1
  <2>3. WeighedV1(c, e) = WithPriority(c, p)
    BY <1>4, <2>1 DEF WeighedV1
  <2> QED BY <1>4, <2>2, <2>3, PriorityOnly DEF Reprioritised, Unset
<1> QED BY <1>2, <1>3, <1>4

LEMMA WeighedV2OK ==
    ASSUME NEW c \in ClusterRecords, NEW e \in [v2: V2Kinds, v1: V1Kinds]
    PROVE  /\ Reprioritised(c, WeighedV2(c, e))
           /\ WeighedV2(c, e).fields.priority = -1 => "bad" \in {e.v1, e.v2}
           /\ WeighedV2(c, e).fields.priority = 1 =>
                 e.v2 = "good" \/ (e.v2 = "missing" /\ e.v1 = "other")
<1>1. c.fields.priority \in {-1, 0, 1, Unset}
  BY DEF ClusterRecords, Routing
<1>2. e.v1 \in {"none", "bad", "other"} /\ e.v2 \in {"missing", "untrue", "few", "good", "bad"}
  BY DEF V1Kinds, V2Kinds
<1>3. CASE e.v2 = "missing"
  <2>1. WeighedV2(c, e) = WeighedV1(c, e)
    BY <1>3 DEF WeighedV2
  <2>2. /\ Reprioritised(c, WeighedV1(c, e))
        /\ WeighedV1(c, e).fields.priority = -1 => e.v1 = "bad"
        /\ WeighedV1(c, e).fields.priority = 1 => e.v1 \notin {"none", "bad"}
    BY WeighedV1OK
  <2> QED BY <1>2, <1>3, <2>1, <2>2
<1>4. CASE e.v2 = "untrue"
  BY <1>4, PriorityOnly DEF WeighedV2, Unweighted, Reprioritised, Unset
<1>5. CASE e.v2 = "good"
  BY <1>5, PriorityOnly DEF WeighedV2, Reprioritised
<1>6. CASE e.v2 = "bad"
  BY <1>6, PriorityOnly DEF WeighedV2, Reprioritised
<1>7. CASE e.v2 = "few"
  <2>1. PICK p : p = IF c.fields.priority \in {-1, 1} THEN Unset ELSE c.fields.priority
    OBVIOUS
  <2>2. p \in {0, Unset}
    BY <1>1, <2>1
  <2>3. WeighedV2(c, e) = WithPriority(c, p)
    BY <1>7, <2>1 DEF WeighedV2
  <2> QED BY <2>2, <2>3, PriorityOnly DEF Reprioritised, Unset
<1> QED BY <1>2, <1>3, <1>4, <1>5, <1>6, <1>7

WithFields(c, f) == [fields |-> f, hash |-> c.hash]

\* A label changes neither hash nor tier nor priority.
LEMMA LabelledOK ==
    ASSUME NEW c \in ClusterRecords, NEW kind
    PROVE  Reprioritised(c, Labelled(c, kind))
<1>1. /\ c.fields \in Routing /\ c.hash \in Routing \cup {NoCluster}
      /\ c = [fields |-> c.fields, hash |-> c.hash] /\ c # NoCluster
  BY ClusterIsSet DEF ClusterRecords
<1>2. /\ [c.fields EXCEPT !.tag = TRUE] \in Routing /\ [c.fields EXCEPT !.group = TRUE] \in Routing
      /\ [c.fields EXCEPT !.tag = TRUE].tier = c.fields.tier
      /\ [c.fields EXCEPT !.group = TRUE].tier = c.fields.tier
  BY <1>1 DEF Routing
<1>3. \A f : [c EXCEPT !.fields = f] = WithFields(c, f)
  BY <1>1 DEF WithFields
<1>6. [c EXCEPT !.fields.tag = TRUE] = WithFields(c, [c.fields EXCEPT !.tag = TRUE])
  BY <1>3
<1>7. [c EXCEPT !.fields.group = TRUE] = WithFields(c, [c.fields EXCEPT !.group = TRUE])
  BY <1>3
<1>4. Labelled(c, kind) \in {c, [c EXCEPT !.fields.tag = TRUE], [c EXCEPT !.fields.group = TRUE]}
  BY DEF Labelled
<1>5. \A f \in Routing : /\ WithFields(c, f) \in ClusterRecords
                         /\ WithFields(c, f).fields = f
                         /\ WithFields(c, f).hash = c.hash
  BY <1>1 DEF ClusterRecords, WithFields
<1>8. /\ Reprioritised(c, [c EXCEPT !.fields.tag = TRUE])
      /\ Reprioritised(c, [c EXCEPT !.fields.group = TRUE])
  BY <1>2, <1>5, <1>6, <1>7 DEF Reprioritised
<1> QED BY <1>4, <1>8 DEF Reprioritised

LEMMA ReprioritisedOK ==
    ASSUME NEW c \in ClusterRecords, ClusterOK(c), NEW d, Reprioritised(c, d)
    PROVE  ClusterOK(d)
  BY DEF Reprioritised, ClusterOK

-----------------------------------------------------------------------------
(* The bridge: the file and the copy of a label script.                     *)

ClustersOK == \A i \in Here : ClusterOK(index[i])

\* The copy is as good as the file was when it was taken.
CopyOK == labelling # NoCopy =>
    \A i \in Ids : labelling.copy[i] # NoCluster =>
        /\ ClusterOK(labelling.copy[i])
        /\ i \notin labelling.stale => Fresh(labelling.copy[i])

BridgeInv == BridgeTypeOK /\ ClustersOK /\ CopyOK /\ PublisherKeepsHashes /\ VerdictsAreCurrent

LEMMA BridgeInitInv == BridgeAssumption /\ BridgeInit => BridgeInv
  BY DEF BridgeAssumption, BridgeInit, BridgeInv, BridgeTypeOK, ClustersOK, CopyOK,
         PublisherKeepsHashes, VerdictsAreCurrent, Here, NoCluster, NoCopy, Unjudged

LEMMA FileClusters ==
    ASSUME BridgeTypeOK, NEW i \in Here
    PROVE  i \in Ids /\ index[i] \in ClusterRecords /\ index[i] # NoCluster
  BY DEF BridgeTypeOK, Here

LEMMA WriteOK == ASSUME BridgeAssumption, BridgeTypeOK, Write PROVE writes' \in 0..MaxWrites
  BY DEF BridgeAssumption, BridgeTypeOK, Write

\* A rewrite by anyone who takes no copy and leaves no verdict to account for:
\* it is enough that every cluster of the new file is one, and fresh unless it
\* is in touched'.
LEMMA RewriteOK ==
    ASSUME BridgeAssumption, BridgeInv, Write,
           labelling' = labelling, judged' = Unjudged, touched' \subseteq Ids,
           index' \in [Ids -> ClusterRecords \cup {NoCluster}],
           \A i \in Ids : index'[i] # NoCluster =>
               ClusterOK(index'[i]) /\ (i \notin touched' => Fresh(index'[i]))
    PROVE  BridgeInv'
<1>1. BridgeTypeOK'
  BY WriteOK DEF BridgeInv, BridgeTypeOK
<1>2. ClustersOK' /\ PublisherKeepsHashes'
  BY DEF ClustersOK, PublisherKeepsHashes, Here, Fresh
<1>3. CopyOK'
  BY DEF BridgeInv, CopyOK
<1>4. VerdictsAreCurrent'
  BY DEF VerdictsAreCurrent
<1> QED BY <1>1, <1>2, <1>3, <1>4 DEF BridgeInv

LEMMA MintStep ==
    ASSUME BridgeAssumption, BridgeInv, NEW i \in Ids, Mint(i) PROVE BridgeInv'
<1>1. /\ index \in [Ids -> ClusterRecords \cup {NoCluster}] /\ touched \subseteq Ids
      /\ index' = [index EXCEPT ![i] = Staged]
      /\ Write /\ labelling' = labelling /\ judged' = Unjudged /\ touched' = touched
  BY DEF Mint, BridgeInv, BridgeTypeOK
<1>2. index' \in [Ids -> ClusterRecords \cup {NoCluster}]
  BY <1>1, StagedOK
<1>3. ASSUME NEW j \in Ids, index'[j] # NoCluster
      PROVE  ClusterOK(index'[j]) /\ (j \notin touched' => Fresh(index'[j]))
  <2>1. CASE j = i
    BY <1>1, <2>1, StagedOK
  <2>2. CASE j # i
    <3>1. index'[j] = index[j] /\ j \in Here
      BY <1>1, <1>3, <2>2 DEF Here
    <3> QED BY <1>1, <3>1 DEF BridgeInv, ClustersOK, PublisherKeepsHashes, Fresh
  <2> QED BY <2>1, <2>2
<1> QED BY <1>1, <1>2, <1>3, RewriteOK

LEMMA FullCompileStep ==
    ASSUME BridgeAssumption, BridgeInv, FullCompile PROVE BridgeInv'
<1>1. PICK found \in SUBSET Ids :
          index' = [i \in Ids |-> IF i \in found THEN Staged ELSE NoCluster]
  BY DEF FullCompile
<1>2. /\ Write /\ labelling' = labelling /\ judged' = Unjudged
      /\ touched' \subseteq Ids
  BY DEF FullCompile
<1>3. index' \in [Ids -> ClusterRecords \cup {NoCluster}]
  BY <1>1, StagedOK
<1>4. \A i \in Ids : index'[i] # NoCluster => ClusterOK(index'[i]) /\ Fresh(index'[i])
  BY <1>1, StagedOK
<1> QED BY <1>2, <1>3, <1>4, RewriteOK

LEMMA PublishStep ==
    ASSUME BridgeAssumption, BridgeInv, PublishCurated PROVE BridgeInv'
<1>1. PICK curated \in SUBSET Ids : \E listed \in SUBSET Ids : \E registry \in [curated -> Entries] :
          index' = [i \in Ids |->
                      IF i \in curated THEN Stamped(Grafted(registry[i]), i \in listed)
                      ELSE IF i \in Here THEN Stamped(index[i], i \in listed)
                      ELSE NoCluster]
  BY DEF PublishCurated
<1>2. PICK listed \in SUBSET Ids : \E registry \in [curated -> Entries] :
          index' = [i \in Ids |->
                      IF i \in curated THEN Stamped(Grafted(registry[i]), i \in listed)
                      ELSE IF i \in Here THEN Stamped(index[i], i \in listed)
                      ELSE NoCluster]
  BY <1>1
<1>3. PICK registry \in [curated -> Entries] :
          index' = [i \in Ids |->
                      IF i \in curated THEN Stamped(Grafted(registry[i]), i \in listed)
                      ELSE IF i \in Here THEN Stamped(index[i], i \in listed)
                      ELSE NoCluster]
  BY <1>2
<1>4. /\ Write /\ labelling' = labelling /\ judged' = Unjudged
      /\ touched' = {i \in touched : index'[i].hash # index'[i].fields}
      /\ touched \subseteq Ids
  BY DEF PublishCurated, BridgeInv, BridgeTypeOK
<1>5. ASSUME NEW i \in Ids
      PROVE  \/ index'[i] = NoCluster
             \/ /\ index'[i] \in ClusterRecords /\ ClusterOK(index'[i])
                /\ i \notin touched => Fresh(index'[i])
  <2>1. CASE i \in curated
    <3>1. registry[i] \in Entries /\ index'[i] = Stamped(Grafted(registry[i]), i \in listed)
      BY <1>3, <2>1
    <3>2. /\ Grafted(registry[i]) \in ClusterRecords /\ ClusterOK(Grafted(registry[i]))
          /\ Fresh(Grafted(registry[i]))
      BY <3>1, GraftedOK
    <3>3. (i \in listed) \in BOOLEAN
      OBVIOUS
    <3> QED BY <3>1, <3>2, <3>3, StampedOK
  <2>2. CASE i \notin curated /\ i \in Here
    <3>1. index'[i] = Stamped(index[i], i \in listed) /\ index[i] \in ClusterRecords
      BY <1>3, <2>2, FileClusters DEF BridgeInv
    <3>2. ClusterOK(index[i]) /\ (i \notin touched => Fresh(index[i]))
      BY <2>2 DEF BridgeInv, ClustersOK, PublisherKeepsHashes, Fresh
    <3>3. (i \in listed) \in BOOLEAN
      OBVIOUS
    <3> QED BY <3>1, <3>2, <3>3, StampedOK
  <2>3. CASE i \notin curated /\ i \notin Here
    BY <1>3, <2>3
  <2> QED BY <2>1, <2>2, <2>3
<1>6. index' \in [Ids -> ClusterRecords \cup {NoCluster}]
  <2>1. index' = [i \in Ids |-> index'[i]]
    BY <1>3
  <2> QED BY <1>5, <2>1
<1>7. ASSUME NEW i \in Ids, index'[i] # NoCluster
      PROVE  ClusterOK(index'[i]) /\ (i \notin touched' => Fresh(index'[i]))
  BY <1>4, <1>5, <1>7 DEF Fresh
<1>8. touched' \subseteq Ids
  BY <1>4
<1> QED BY <1>4, <1>6, <1>7, <1>8, RewriteOK

\* What a reweighting does to the file, whichever evidence it follows.
LEMMA ReweightedOK ==
    ASSUME BridgeAssumption, BridgeInv, NEW new, Reweighted(new),
           new = [i \in Ids |-> new[i]],
           \A i \in Ids : IF i \in Here THEN Reprioritised(index[i], new[i])
                          ELSE new[i] = NoCluster,
           judged' \in [Ids -> Evidence] \cup {Unjudged}
    PROVE  BridgeTypeOK' /\ ClustersOK' /\ CopyOK' /\ PublisherKeepsHashes' /\ Here' \subseteq Here
<1>1. /\ Write /\ index' = new /\ labelling' = labelling
      /\ touched' = touched \cup {i \in Here : new[i].fields # index[i].fields}
  BY DEF Reweighted
<1>2. \A i \in Ids : new[i] \in ClusterRecords \cup {NoCluster}
  BY DEF Reprioritised
<1>3. new \in [Ids -> ClusterRecords \cup {NoCluster}]
  BY <1>2
<1>4. Here \subseteq Ids /\ touched \subseteq Ids
  BY DEF Here, BridgeInv, BridgeTypeOK
<1>5. BridgeTypeOK'
  BY <1>1, <1>3, <1>4, WriteOK DEF BridgeInv, BridgeTypeOK
<1>6. Here' \subseteq Here
  BY <1>1 DEF Here
<1>7. ClustersOK'
  <2> SUFFICES ASSUME NEW i \in Here' PROVE ClusterOK(new[i])
    BY <1>1 DEF ClustersOK
  <2>1. i \in Ids /\ i \in Here /\ index[i] \in ClusterRecords
    BY <1>6, FileClusters DEF BridgeInv
  <2>2. Reprioritised(index[i], new[i])
    BY <2>1
  <2>3. ClusterOK(index[i])
    BY <2>1 DEF BridgeInv, ClustersOK
  <2> QED BY <2>1, <2>2, <2>3, ReprioritisedOK
<1>8. PublisherKeepsHashes'
  <2> SUFFICES ASSUME NEW i \in Here', i \notin touched' PROVE new[i].hash \in {NoCluster, new[i].fields}
    BY <1>1 DEF PublisherKeepsHashes
  <2>1. i \in Ids /\ i \in Here /\ i \notin touched /\ new[i].fields = index[i].fields
    BY <1>1, <1>4, <1>6
  <2>2. new[i].hash = index[i].hash
    BY <2>1 DEF Reprioritised
  <2> QED BY <2>1, <2>2 DEF BridgeInv, PublisherKeepsHashes
<1>9. CopyOK'
  BY <1>1 DEF BridgeInv, CopyOK
<1> QED BY <1>5, <1>6, <1>7, <1>8, <1>9

LEMMA ReweightV1Step ==
    ASSUME BridgeAssumption, BridgeInv, ReweightV1 PROVE BridgeInv'
<1>1. PICK evidence \in [Ids -> Evidence] :
          Reweighted([i \in Ids |-> IF i \in Here THEN WeighedV1(index[i], evidence[i])
                                    ELSE NoCluster])
  BY DEF ReweightV1
<1>2. PICK new : new = [i \in Ids |-> IF i \in Here THEN WeighedV1(index[i], evidence[i])
                                     ELSE NoCluster]
  OBVIOUS
<1>3. new = [i \in Ids |-> new[i]]
  BY <1>2
<1>4. ASSUME NEW i \in Ids
      PROVE  IF i \in Here THEN Reprioritised(index[i], new[i]) ELSE new[i] = NoCluster
  BY <1>2, WeighedV1OK, FileClusters DEF BridgeInv
<1>5. judged' = Unjudged
  BY DEF ReweightV1
<1>6. Reweighted(new)
  BY <1>1, <1>2
<1>7. BridgeTypeOK' /\ ClustersOK' /\ CopyOK' /\ PublisherKeepsHashes'
  BY <1>3, <1>4, <1>5, <1>6, ReweightedOK
<1> QED BY <1>5, <1>7 DEF BridgeInv, VerdictsAreCurrent

LEMMA ReweightV2Step ==
    ASSUME BridgeAssumption, BridgeInv, ReweightV2 PROVE BridgeInv'
<1>1. PICK evidence \in [Ids -> Evidence] :
        /\ Reweighted([i \in Ids |-> IF i \in Here THEN WeighedV2(index[i], evidence[i])
                                     ELSE NoCluster])
        /\ judged' = evidence
  BY DEF ReweightV2
<1>2. PICK new : new = [i \in Ids |-> IF i \in Here THEN WeighedV2(index[i], evidence[i])
                                     ELSE NoCluster]
  OBVIOUS
<1>3. new = [i \in Ids |-> new[i]]
  BY <1>2
<1>4. ASSUME NEW i \in Here
      PROVE  /\ i \in Ids /\ Reprioritised(index[i], new[i])
             /\ new[i].fields.priority = -1 => "bad" \in {evidence[i].v1, evidence[i].v2}
             /\ new[i].fields.priority = 1 =>
                  \/ evidence[i].v2 = "good"
                  \/ evidence[i].v2 = "missing" /\ evidence[i].v1 = "other"
  <2>1. i \in Ids /\ index[i] \in ClusterRecords /\ new[i] = WeighedV2(index[i], evidence[i])
    BY <1>2, FileClusters DEF BridgeInv
  <2>2. evidence[i] \in [v2: V2Kinds, v1: V1Kinds]
    BY <2>1 DEF BridgeAssumption
  <2> QED BY <2>1, <2>2, WeighedV2OK
<1>5. \A i \in Ids : IF i \in Here THEN Reprioritised(index[i], new[i]) ELSE new[i] = NoCluster
  BY <1>2, <1>4
<1>6. Reweighted(new) /\ judged' = evidence
  BY <1>1, <1>2
<1>7. BridgeTypeOK' /\ ClustersOK' /\ CopyOK' /\ PublisherKeepsHashes' /\ Here' \subseteq Here
  BY <1>3, <1>5, <1>6, ReweightedOK
<1>8. VerdictsAreCurrent'
  <2>1. index' = new
    BY <1>6 DEF Reweighted
  <2> QED BY <1>4, <1>6, <1>7, <2>1 DEF VerdictsAreCurrent
<1> QED BY <1>7, <1>8 DEF BridgeInv

LEMMA LabelReadStep ==
    ASSUME BridgeAssumption, BridgeInv, LabelRead PROVE BridgeInv'
<1>1. PICK kind \in {"tag", "group"} :
          labelling' = [kind |-> kind, copy |-> index, stale |-> touched]
  BY DEF LabelRead
<1>2. UNCHANGED <<index, touched, writes, judged>>
  BY DEF LabelRead
<1>3. BridgeTypeOK'
  BY <1>1, <1>2 DEF BridgeInv, BridgeTypeOK
<1>4. CopyOK'
  BY <1>1 DEF BridgeInv, CopyOK, ClustersOK, PublisherKeepsHashes, Here, Fresh
<1>5. ClustersOK' /\ PublisherKeepsHashes'
  BY <1>2 DEF BridgeInv, ClustersOK, PublisherKeepsHashes, Here
<1>6. VerdictsAreCurrent'
  BY <1>2 DEF BridgeInv, VerdictsAreCurrent, Here
<1> QED BY <1>3, <1>4, <1>5, <1>6 DEF BridgeInv

LEMMA LabelWriteStep ==
    ASSUME BridgeAssumption, BridgeInv, LabelWrite PROVE BridgeInv'
<1>1. /\ Write /\ labelling # NoCopy /\ labelling' = NoCopy /\ judged' = Unjudged
      /\ index' = [i \in Ids |-> Labelled(labelling.copy[i], labelling.kind)]
      /\ touched' = labelling.stale \cup {i \in Ids : index'[i] # labelling.copy[i]}
  BY DEF LabelWrite
<1>2. labelling.copy \in [Ids -> ClusterRecords \cup {NoCluster}] /\ labelling.stale \subseteq Ids
  BY <1>1 DEF BridgeInv, BridgeTypeOK
<1>3. ASSUME NEW i \in Ids
      PROVE  \/ index'[i] = NoCluster
             \/ /\ labelling.copy[i] \in ClusterRecords /\ labelling.copy[i] # NoCluster
                /\ Reprioritised(labelling.copy[i], index'[i])
  <2>1. index'[i] = Labelled(labelling.copy[i], labelling.kind)
    BY <1>1
  <2>2. CASE labelling.copy[i] = NoCluster
    BY <2>1, <2>2 DEF Labelled
  <2>3. CASE labelling.copy[i] # NoCluster
    BY <1>2, <2>1, <2>3, LabelledOK
  <2> QED BY <2>2, <2>3
<1>4. index' \in [Ids -> ClusterRecords \cup {NoCluster}]
  <2>1. \A i \in Ids : index'[i] \in ClusterRecords \cup {NoCluster}
    BY <1>3 DEF Reprioritised
  <2>2. index' = [i \in Ids |-> index'[i]]
    BY <1>1
  <2> QED BY <2>1, <2>2
<1>5. ASSUME NEW i \in Ids, index'[i] # NoCluster
      PROVE  ClusterOK(index'[i]) /\ (i \notin touched' => Fresh(index'[i]))
  <2>1. /\ labelling.copy[i] \in ClusterRecords /\ labelling.copy[i] # NoCluster
        /\ Reprioritised(labelling.copy[i], index'[i])
    BY <1>3, <1>5
  <2>2. /\ ClusterOK(labelling.copy[i])
        /\ i \notin labelling.stale => Fresh(labelling.copy[i])
    BY <1>1, <2>1 DEF BridgeInv, CopyOK
  <2>3. ClusterOK(index'[i])
    BY <2>1, <2>2, ReprioritisedOK
  <2> QED BY <1>1, <2>2, <2>3
<1>6. BridgeTypeOK'
  BY <1>1, <1>2, <1>4, WriteOK DEF BridgeInv, BridgeTypeOK
<1>7. ClustersOK' /\ PublisherKeepsHashes'
  BY <1>5 DEF ClustersOK, PublisherKeepsHashes, Here, Fresh
<1> QED BY <1>1, <1>6, <1>7 DEF BridgeInv, CopyOK, VerdictsAreCurrent

\* The types of the bridge, and what keeps hashes and verdicts right.
THEOREM BridgeInvariant == BridgeSpec => []BridgeInv
<1>1. BridgeInv /\ [BridgeNext]_bridge_vars => BridgeInv'
  <2> SUFFICES ASSUME BridgeInv, [BridgeNext]_bridge_vars PROVE BridgeInv'
    OBVIOUS
  <2>1. CASE UNCHANGED bridge_vars
    BY <2>1 DEF bridge_vars, BridgeInv, BridgeTypeOK, ClustersOK, CopyOK,
                PublisherKeepsHashes, VerdictsAreCurrent, Here
  <2> QED BY <2>1, BridgeAssumption, MintStep, FullCompileStep, PublishStep, ReweightV1Step,
             ReweightV2Step, LabelReadStep, LabelWriteStep DEF BridgeNext
<1> QED BY <1>1, BridgeInitInv, BridgeAssumption, PTL DEF BridgeSpec

\* A content hash is out of date only where the reweighter or a label script
\* changed the cluster since, and a verdict stands only on the evidence of
\* today: for any clusters, any evidence and any order of the rewrites.
THEOREM BridgeCurrent == BridgeSpec => []BridgeIsCurrent
<1>1. BridgeInv => BridgeIsCurrent
  BY DEF BridgeInv, BridgeIsCurrent
<1> QED BY <1>1, BridgeInvariant, PTL

-----------------------------------------------------------------------------
(* The evidence: counts over finitely many traces.                          *)

LEMMA TotalIsSum == \A f : Total(f) = FoldSum(f)
  BY DEF Total, FoldSum

\* One more of a trace is one more in all.
LEMMA TotalPlus ==
    ASSUME NEW D, IsFiniteSet(D), NEW f \in [D -> Nat], NEW t \in D
    PROVE  /\ Plus(f, t) \in [D -> Nat]
           /\ \A x \in D : Plus(f, t)[x] = IF x = t THEN f[x] + 1 ELSE f[x]
           /\ Total(f) \in Nat /\ Total(Plus(f, t)) = Total(f) + 1
<1>1. PICK g : g = Plus(f, t)
  OBVIOUS
<1>2. g \in [D -> Nat] /\ \A x \in D : g[x] = IF x = t THEN f[x] + 1 ELSE f[x]
  BY <1>1 DEF Plus
<1>3. FoldSum(f) \in Nat /\ FoldSum(g) = FoldSum(f) + 1
  BY <1>2, SumPlusOne
<1> QED BY <1>1, <1>2, <1>3, TotalIsSum

LEMMA TracesFinite == EvidenceAssumption => IsFiniteSet(Scores) /\ IsFiniteSet(Traces)
<1> SUFFICES ASSUME EvidenceAssumption PROVE IsFiniteSet(Scores) /\ IsFiniteSet(Traces)
  OBVIOUS
<1>1. IsFiniteSet({<<d>> : d \in Deltas})
  <2> DEFINE f == [d \in Deltas |-> <<d>>]
  <2>1. f \in Surjection(Deltas, {<<d>> : d \in Deltas})
    BY DEF Surjection
  <2> QED BY <2>1, FS_Surjection DEF EvidenceAssumption
<1>2. IsFiniteSet(Scores)
  <2>1. IsFiniteSet({<<d>> : d \in Deltas} \cup {Unmeasured})
    BY <1>1, FS_AddElement
  <2>2. {<<d>> : d \in Deltas} \cup {Unmeasured} = Scores
    BY DEF Scores
  <2> QED BY <2>1, <2>2
<1>3. IsFiniteSet(Arms)
  <2>1. IsFiniteSet({"true"}) /\ Arms = {"true"} \cup {"placebo"}
    BY FS_Singleton DEF Arms
  <2> QED BY <2>1, FS_AddElement
<1> QED BY <1>2, <1>3, FS_Product DEF Traces

\* More of every trace is more in each arm, measured or not.
LEMMA CountGrows ==
    ASSUME EvidenceAssumption, NEW f \in [Traces -> Nat], NEW g \in [Traces -> Nat],
           \A t \in Traces : f[t] <= g[t], NEW arm \in Arms
    PROVE  /\ Count(f, arm) \in Nat /\ Count(g, arm) \in Nat
           /\ Measured(f, arm) \in Int /\ Measured(g, arm) \in Int
           /\ Count(f, arm) <= Count(g, arm) /\ Measured(f, arm) <= Measured(g, arm)
<1>1. PICK a : a = [s \in Scores |-> f[<<arm, s>>]]
  OBVIOUS
<1>2. PICK b : b = [s \in Scores |-> g[<<arm, s>>]]
  OBVIOUS
<1>3. \A s \in Scores : <<arm, s>> \in Traces
  BY DEF Traces
<1>4. a \in [Scores -> Nat] /\ b \in [Scores -> Nat] /\ \A s \in Scores : a[s] <= b[s]
  BY <1>1, <1>2, <1>3
<1>5. Unmeasured \in Scores
  BY DEF Scores
<1>6. /\ Total(a) \in Nat /\ Total(b) \in Nat
      /\ Total(a) <= Total(b) /\ Total(a) - a[Unmeasured] <= Total(b) - b[Unmeasured]
  BY <1>4, <1>5, TracesFinite, TotalIsSum, SumGrows
<1>7. Count(f, arm) = Total(a) /\ Count(g, arm) = Total(b)
  BY <1>1, <1>2 DEF Count
<1>8. f[<<arm, Unmeasured>>] = a[Unmeasured] /\ g[<<arm, Unmeasured>>] = b[Unmeasured]
  BY <1>1, <1>2, <1>5
<1> QED BY <1>4, <1>5, <1>6, <1>7, <1>8 DEF Measured

-----------------------------------------------------------------------------
(* The evidence: everything that is read was sent.                          *)

\* A tail that is neither whole nor clean is no trace.
LEMMA TailsDiffer == Clean \notin Traces /\ Cut \notin Traces /\ Clean # Cut
<1>1. \A t \in Traces : DOMAIN t = 1..2
  BY DEF Traces
<1>2. DOMAIN Clean = 1..0 /\ DOMAIN Cut = 1..1
  BY DEF Clean, Cut
<1>3. 2 \in 1..2 /\ 2 \notin 1..0 /\ 2 \notin 1..1 /\ 1 \in 1..1 /\ 1 \notin 1..0
  OBVIOUS
<1> QED BY <1>1, <1>2, <1>3

CountsOK ==
    /\ \A f \in {lines, acked, joined, sent} : f \in [Traces -> Nat]
    /\ tail \in {Clean, Cut} \cup Traces
    /\ reading = NotReading \/ reading \in [Traces -> Nat]
    /\ stats = NoStats \/ stats \in [Traces -> Nat]
    /\ kills \in 0..MaxKills

\* Nothing is read or published that was not sent, and nothing was sent beyond
\* the bound.
SentBounds ==
    /\ Total(sent) <= MaxTraces
    /\ \A t \in Traces : lines[t] <= sent[t] /\ (tail = t => lines[t] + 1 <= sent[t])
    /\ reading # NotReading => \A t \in Traces : reading[t] <= sent[t]
    /\ stats # NoStats => \A t \in Traces : stats[t] <= sent[t]

\* A line is spoiled by a cut before it, and every cut is a kill: the one whose
\* tail still stands has spoiled nothing yet.
LossBounds ==
    /\ Total(joined) + (IF tail # Clean THEN 1 ELSE 0) <= kills
    /\ \A t \in Traces : /\ joined[t] <= acked[t] /\ acked[t] <= sent[t]
                          /\ acked[t] - joined[t] <= lines[t]

EvidenceInv == CountsOK /\ SentBounds /\ LossBounds

LEMMA EvidenceInitInv == EvidenceAssumption /\ EvidenceInit => EvidenceInv
<1> SUFFICES ASSUME EvidenceAssumption, EvidenceInit PROVE EvidenceInv
  OBVIOUS
<1>1. NoTraces \in [Traces -> Nat] /\ \A t \in Traces : NoTraces[t] = 0
  BY DEF NoTraces
<1>2. Total(NoTraces) = 0
  BY TracesFinite, TotalIsSum, SumOfNone DEF NoTraces
<1>3. CountsOK
  BY <1>1 DEF EvidenceInit, CountsOK, EvidenceAssumption
<1>4. SentBounds
  BY <1>1, <1>2, TailsDiffer DEF EvidenceInit, SentBounds, EvidenceAssumption
<1>5. LossBounds
  BY <1>1, <1>2 DEF EvidenceInit, LossBounds
<1> QED BY <1>3, <1>4, <1>5 DEF EvidenceInv

LEMMA TraceAppendedStep ==
    ASSUME EvidenceAssumption, EvidenceInv, NEW t \in Traces, TraceAppended(t)
    PROVE  EvidenceInv'
<1>1. /\ sent \in [Traces -> Nat] /\ acked \in [Traces -> Nat]
      /\ lines \in [Traces -> Nat] /\ joined \in [Traces -> Nat]
      /\ Total(sent) < MaxTraces /\ sent' = Plus(sent, t) /\ acked' = Plus(acked, t)
      /\ tail' = Clean /\ reading' = reading /\ stats' = stats /\ kills' = kills
  BY DEF EvidenceInv, CountsOK, TraceAppended
<1>2. /\ sent' \in [Traces -> Nat] /\ acked' \in [Traces -> Nat]
      /\ \A x \in Traces : sent'[x] = IF x = t THEN sent[x] + 1 ELSE sent[x]
      /\ \A x \in Traces : acked'[x] = IF x = t THEN acked[x] + 1 ELSE acked[x]
      /\ Total(sent) \in Nat /\ Total(sent') = Total(sent) + 1
  BY <1>1, TracesFinite, TotalPlus
<1>3. \A x \in Traces : sent[x] <= sent'[x] /\ sent[x] \in Nat
  BY <1>1, <1>2
<1>4. CASE tail = Clean
  <2>1. lines' = Plus(lines, t) /\ joined' = joined
    BY <1>4 DEF TraceAppended
  <2>2. /\ lines' \in [Traces -> Nat]
        /\ \A x \in Traces : lines'[x] = IF x = t THEN lines[x] + 1 ELSE lines[x]
    BY <1>1, <2>1, TracesFinite, TotalPlus
  <2>3. CountsOK'
    BY <1>1, <1>2, <2>1, <2>2 DEF EvidenceInv, CountsOK
  <2>4. SentBounds'
    <3>1. Total(sent') <= MaxTraces
      BY <1>1, <1>2 DEF EvidenceAssumption
    <3>2. \A x \in Traces : lines'[x] <= sent'[x] /\ tail' # x
      BY <1>1, <1>2, <2>2, TailsDiffer DEF EvidenceInv, SentBounds
    <3>3. /\ reading # NotReading => \A x \in Traces : reading[x] <= sent'[x]
          /\ stats # NoStats => \A x \in Traces : stats[x] <= sent'[x]
      BY <1>2, <1>3 DEF EvidenceInv, SentBounds, CountsOK
    <3> QED BY <1>1, <3>1, <3>2, <3>3 DEF SentBounds
  <2>5. LossBounds'
    BY <1>1, <1>2, <1>4, <2>1, <2>2 DEF EvidenceInv, LossBounds
  <2> QED BY <2>3, <2>4, <2>5 DEF EvidenceInv
<1>5. CASE tail # Clean
  <2>1. lines' = lines /\ joined' = Plus(joined, t)
    BY <1>5 DEF TraceAppended
  <2>2. /\ joined' \in [Traces -> Nat]
        /\ \A x \in Traces : joined'[x] = IF x = t THEN joined[x] + 1 ELSE joined[x]
        /\ Total(joined) \in Nat /\ Total(joined') = Total(joined) + 1
    BY <1>1, <2>1, TracesFinite, TotalPlus
  <2>3. CountsOK'
    BY <1>1, <1>2, <2>1, <2>2 DEF EvidenceInv, CountsOK
  <2>4. SentBounds'
    <3>1. Total(sent') <= MaxTraces
      BY <1>1, <1>2 DEF EvidenceAssumption
    <3>2. \A x \in Traces : lines'[x] <= sent'[x] /\ tail' # x
      BY <1>1, <1>2, <2>1, TailsDiffer DEF EvidenceInv, SentBounds
    <3>3. /\ reading # NotReading => \A x \in Traces : reading[x] <= sent'[x]
          /\ stats # NoStats => \A x \in Traces : stats[x] <= sent'[x]
      BY <1>2, <1>3 DEF EvidenceInv, SentBounds, CountsOK
    <3> QED BY <1>1, <3>1, <3>2, <3>3 DEF SentBounds
  <2>5. LossBounds'
    <3>1. Total(joined) + 1 <= kills
      BY <1>5 DEF EvidenceInv, LossBounds
    <3>2. Total(joined') + (IF tail' # Clean THEN 1 ELSE 0) <= kills'
      BY <1>1, <2>2, <3>1
    <3>3. \A x \in Traces : /\ joined[x] <= acked[x] /\ acked[x] <= sent[x]
                            /\ acked[x] - joined[x] <= lines[x]
      BY DEF EvidenceInv, LossBounds
    <3>4. \A x \in Traces : /\ joined'[x] <= acked'[x] /\ acked'[x] <= sent'[x]
                            /\ acked'[x] - joined'[x] <= lines'[x]
      BY <1>1, <1>2, <2>1, <2>2, <3>3
    <3> QED BY <3>2, <3>4 DEF LossBounds
  <2> QED BY <2>3, <2>4, <2>5 DEF EvidenceInv
<1> QED BY <1>4, <1>5

LEMMA TraceAppendKilledStep ==
    ASSUME EvidenceAssumption, EvidenceInv, NEW t \in Traces, TraceAppendKilled(t)
    PROVE  EvidenceInv'
<1>1. /\ sent \in [Traces -> Nat] /\ acked \in [Traces -> Nat]
      /\ lines \in [Traces -> Nat] /\ joined \in [Traces -> Nat]
      /\ kills \in 0..MaxKills /\ kills < MaxKills /\ kills' = kills + 1
      /\ Total(sent) < MaxTraces /\ sent' = Plus(sent, t)
      /\ acked' = acked /\ joined' = joined /\ reading' = reading /\ stats' = stats
  BY DEF EvidenceInv, CountsOK, TraceAppendKilled
<1>2. /\ sent' \in [Traces -> Nat]
      /\ \A x \in Traces : sent'[x] = IF x = t THEN sent[x] + 1 ELSE sent[x]
      /\ Total(sent) \in Nat /\ Total(sent') = Total(sent) + 1
  BY <1>1, TracesFinite, TotalPlus
<1>3. \A x \in Traces : sent[x] <= sent'[x] /\ sent[x] \in Nat
  BY <1>1, <1>2
<1>4. /\ Plus(lines, t) \in [Traces -> Nat]
      /\ \A x \in Traces : Plus(lines, t)[x] = IF x = t THEN lines[x] + 1 ELSE lines[x]
  BY <1>1, TracesFinite, TotalPlus
\* What is left of the line: nothing or a part, the line without its newline, all of it.
<1>5. \/ lines' = lines /\ tail' \in {Clean, Cut}
      \/ lines' = lines /\ tail' = t /\ tail = Clean
      \/ lines' = Plus(lines, t) /\ tail' = Clean /\ tail = Clean
  BY DEF TraceAppendKilled
<1>6. /\ lines' \in [Traces -> Nat] /\ tail' \in {Clean, Cut} \cup Traces
      /\ \A x \in Traces : lines[x] <= lines'[x]
  BY <1>1, <1>4, <1>5
<1>7. CountsOK'
  BY <1>1, <1>2, <1>6 DEF EvidenceInv, CountsOK, EvidenceAssumption
<1>8. SentBounds'
  <2>1. Total(sent') <= MaxTraces
    BY <1>1, <1>2 DEF EvidenceAssumption
  <2>2. \A x \in Traces : lines[x] <= sent[x]
    BY DEF EvidenceInv, SentBounds
  <2>3. \A x \in Traces : lines'[x] <= sent'[x] /\ (tail' = x => lines'[x] + 1 <= sent'[x])
    BY <1>1, <1>2, <1>4, <1>5, <2>2, TailsDiffer
  <2>4. /\ reading # NotReading => \A x \in Traces : reading[x] <= sent'[x]
        /\ stats # NoStats => \A x \in Traces : stats[x] <= sent'[x]
    BY <1>2, <1>3 DEF EvidenceInv, SentBounds, CountsOK
  <2> QED BY <1>1, <2>1, <2>3, <2>4 DEF SentBounds
<1>9. LossBounds'
  <2>1. Total(joined) \in Nat /\ Total(joined) <= kills
    BY <1>1, TracesFinite, TotalPlus DEF EvidenceInv, LossBounds
  <2>2. Total(joined') + (IF tail' # Clean THEN 1 ELSE 0) <= kills'
    BY <1>1, <2>1
  <2>3. \A x \in Traces : /\ joined[x] <= acked[x] /\ acked[x] <= sent[x]
                          /\ acked[x] - joined[x] <= lines[x]
    BY DEF EvidenceInv, LossBounds
  <2>4. \A x \in Traces : /\ joined'[x] <= acked'[x] /\ acked'[x] <= sent'[x]
                          /\ acked'[x] - joined'[x] <= lines'[x]
    BY <1>1, <1>2, <1>3, <1>6, <2>3
  <2> QED BY <2>2, <2>4 DEF LossBounds
<1> QED BY <1>7, <1>8, <1>9 DEF EvidenceInv

LEMMA DistillStep ==
    ASSUME EvidenceAssumption, EvidenceInv, DistillRead \/ StatsReplaced \/ DistillKilled
    PROVE  EvidenceInv'
<1>1. UNCHANGED <<lines, tail, acked, joined, sent>>
  BY DEF DistillRead, StatsReplaced, DistillKilled
<1>2. /\ Readable \in [Traces -> Nat]
      /\ \A x \in Traces : Readable[x] <= sent[x]
  <2>1. CASE tail \in Traces
    <3>1. /\ Plus(lines, tail) \in [Traces -> Nat]
          /\ \A x \in Traces : Plus(lines, tail)[x] = IF x = tail THEN lines[x] + 1 ELSE lines[x]
      BY <2>1, TracesFinite, TotalPlus DEF EvidenceInv, CountsOK
    <3> QED BY <2>1, <3>1 DEF Readable, EvidenceInv, SentBounds
  <2>2. CASE tail \notin Traces
    BY <2>2 DEF Readable, EvidenceInv, CountsOK, SentBounds
  <2> QED BY <2>1, <2>2
<1>3. kills' \in 0..MaxKills /\ kills <= kills' /\ kills \in Nat
  BY DEF DistillRead, StatsReplaced, DistillKilled, EvidenceInv, CountsOK, EvidenceAssumption
<1>4. /\ reading' \in {reading, NotReading, Readable}
      /\ \/ stats' = stats
         \/ stats' = reading /\ reading # NotReading
  BY DEF DistillRead, StatsReplaced, DistillKilled
<1>5. CountsOK'
  BY <1>1, <1>2, <1>3, <1>4 DEF EvidenceInv, CountsOK
<1>6. SentBounds'
  BY <1>1, <1>2, <1>4 DEF EvidenceInv, SentBounds
<1>7. LossBounds'
  <2>1. Total(joined) \in Nat
    BY TracesFinite, TotalIsSum, SumNat DEF EvidenceInv, CountsOK
  <2> QED BY <1>1, <1>3, <2>1 DEF EvidenceInv, LossBounds
<1> QED BY <1>5, <1>6, <1>7 DEF EvidenceInv

\* The counts of an evidence file, and what they are bounded by.
THEOREM EvidenceInvariant == EvidenceSpec => []EvidenceInv
<1>1. EvidenceInv /\ [EvidenceNext]_evidence_vars => EvidenceInv'
  <2> SUFFICES ASSUME EvidenceInv, [EvidenceNext]_evidence_vars PROVE EvidenceInv'
    OBVIOUS
  <2>1. CASE UNCHANGED evidence_vars
    BY <2>1 DEF evidence_vars, EvidenceInv, CountsOK, SentBounds, LossBounds
  <2> QED BY <2>1, EvidenceAssumption, TraceAppendedStep, TraceAppendKilledStep, DistillStep
          DEF EvidenceNext
<1> QED BY <1>1, EvidenceInitInv, EvidenceAssumption, PTL DEF EvidenceSpec

\* The evidence is typed within the bounds of the model.
THEOREM EvidenceTyped == EvidenceSpec => []EvidenceTypeOK
<1>1. EvidenceInv => EvidenceTypeOK
  <2> SUFFICES ASSUME EvidenceInv PROVE EvidenceTypeOK
    OBVIOUS
  <2>1. \A t \in Traces : sent[t] <= Total(sent)
    BY EvidenceAssumption, TracesFinite, TotalIsSum, SumOfOne DEF EvidenceInv, CountsOK
  <2>2. Total(sent) \in Nat
    BY EvidenceAssumption, TracesFinite, TotalIsSum, SumNat DEF EvidenceInv, CountsOK
  <2>3. MaxTraces \in Nat /\ MaxKills \in Nat /\ Total(sent) <= MaxTraces
    BY EvidenceAssumption DEF EvidenceAssumption, EvidenceInv, SentBounds
  <2>4. ASSUME NEW f \in {lines, acked, joined, sent}, NEW t \in Traces
        PROVE  f[t] \in 0..(MaxTraces + MaxKills)
    <3>1. f[t] \in Nat /\ sent[t] \in Nat /\ acked[t] \in Nat /\ f[t] <= sent[t]
      BY DEF EvidenceInv, CountsOK, SentBounds, LossBounds
    <3> QED BY <2>1, <2>2, <2>3, <3>1
  <2> QED BY <2>4 DEF EvidenceInv, CountsOK, EvidenceTypeOK
<1> QED BY <1>1, EvidenceInvariant, PTL

\* Verdicts are earned and what was acknowledged is kept: for any scores, any
\* thresholds, any number of traces and of kills, wherever a kill cuts.
THEOREM EvidenceSound == EvidenceSpec => []EvidenceIsSound
<1>1. EvidenceInv => EvidenceIsSound
  <2> SUFFICES ASSUME EvidenceInv PROVE EvidenceIsSound
    OBVIOUS
  <2>1. VerdictsAreEarned
    <3> SUFFICES ASSUME stats # NoStats, Verdict(stats) # "hold"
                 PROVE  /\ Count(sent, "true") >= MinSamples
                        /\ \A arm \in Arms : Measured(sent, arm) > 0
      BY DEF VerdictsAreEarned
    <3>1. /\ stats \in [Traces -> Nat] /\ sent \in [Traces -> Nat]
          /\ \A t \in Traces : stats[t] <= sent[t]
      BY DEF EvidenceInv, CountsOK, SentBounds
    <3>2. /\ ~(Count(stats, "true") < MinSamples)
          /\ Measured(stats, "true") > 0 /\ Measured(stats, "placebo") > 0
      BY DEF Verdict, Adjustable
    <3>3. ASSUME NEW arm \in Arms
          PROVE  /\ Count(stats, arm) \in Nat /\ Count(sent, arm) \in Nat
                 /\ Measured(stats, arm) \in Int /\ Measured(sent, arm) \in Int
                 /\ Count(stats, arm) <= Count(sent, arm)
                 /\ Measured(stats, arm) <= Measured(sent, arm)
      BY <3>1, EvidenceAssumption, CountGrows
    <3>4. Arms = {"true", "placebo"} /\ MinSamples \in Nat
      BY EvidenceAssumption DEF Arms, EvidenceAssumption
    <3> QED BY <3>2, <3>3, <3>4
  <2>2. AcknowledgedIsKept
    BY DEF EvidenceInv, CountsOK, LossBounds, AcknowledgedIsKept
  <2>3. Total(joined) <= kills
    <3>1. Total(joined) \in Nat
      BY EvidenceAssumption, TracesFinite, TotalIsSum, SumNat DEF EvidenceInv, CountsOK
    <3> QED BY <3>1 DEF EvidenceInv, CountsOK, LossBounds
  <2> QED BY <2>1, <2>2, <2>3 DEF EvidenceIsSound
<1> QED BY <1>1, EvidenceInvariant, PTL

-----------------------------------------------------------------------------
(* The trends.                                                              *)

(* ------------------------------ the slope ------------------------------- *)

\* The weight of a sample in the regression.
Leverage(n, i) == 2 * (i - 1) - (n - 1)

\* The regression adds up the weighted samples from the oldest on.
RunningRise(R, n, ys) ==
    R[0] = 0 /\ \A k \in 0..(n - 1) : R[k + 1] = R[k] + Leverage(n, k + 1) * ys[k + 1]

LEMMA RiseRuns ==
    ASSUME NEW n \in Nat, NEW ys \in [1..n -> Int]
    PROVE  \E R \in [0..n -> Int] : RunningRise(R, n, ys) /\ Rise(ys) = R[n]
<1>1. PICK f : f = [i \in 1..n |-> Leverage(n, i) * ys[i]]
  OBVIOUS
<1>2. \A i \in 1..n : Leverage(n, i) \in Int /\ ys[i] \in Int /\ Leverage(n, i) * ys[i] \in Int
  BY DEF Leverage
<1>3. DOMAIN f = 1..n /\ \A i \in 1..n : f[i] \in Int
  BY <1>1, <1>2
<1>4. IsFiniteSet(1..n) /\ DOMAIN ys = 1..n /\ Len(ys) = n
  BY FS_Interval
<1>5. PICK G : G = TheSums(f)
  OBVIOUS
<1>6. SumsOf(G, f, 1..n)
  BY <1>3, <1>4, <1>5, SumUnfolded
<1>7. Commutes(G, f, 1..n)
  BY <1>3, <1>4, <1>6, SumsCommute
<1> DEFINE Counts(h) == h = [s \in SUBSET (1..n) |-> IF s = {} THEN 0
                               ELSE Leverage(n, First(s)) * ys[First(s)] + h[s \ {First(s)}]]
           h == CHOOSE g : Counts(g)
<1>8. Rise(ys) = h[1..n]
  BY <1>4 DEF Rise, MapThenSumSet, MapThenFoldSet, First, Leverage
<1>9. \A s \in SUBSET (1..n) : s # {} => First(s) \in s /\ First(s) \in 1..n /\ s \ {First(s)} \in SUBSET (1..n)
  BY FirstIn
<1>10. Counts(G)
  <2>1. ASSUME NEW s \in SUBSET (1..n), s # {}
        PROVE  G[s] = Leverage(n, First(s)) * ys[First(s)] + G[s \ {First(s)}]
    <3>1. G[s] = G[s \ {First(s)}] + f[First(s)] /\ G[s \ {First(s)}] \in Int /\ f[First(s)] \in Int
      BY <1>3, <1>7, <1>9, <2>1 DEF Commutes
    <3>2. f[First(s)] = Leverage(n, First(s)) * ys[First(s)]
      BY <1>1, <1>9, <2>1
    <3> QED BY <3>1, <3>2
  <2>2. G[{}] = 0 /\ G = [s \in SUBSET (1..n) |-> G[s]]
    BY <1>6 DEF SumsOf
  <2> QED BY <2>1, <2>2
<1>11. Counts(h)
  <2> HIDE DEF Counts
  <2> QED BY <1>10
<1>12. Follows(h, f, 1..n)
  <2>1. h[{}] = 0 /\ \A s \in SUBSET (1..n) : s # {} => h[s] = Leverage(n, First(s)) * ys[First(s)] + h[s \ {First(s)}]
    <3> HIDE DEF h
    <3> QED BY <1>11
  <2>2. \A s \in SUBSET (1..n) : s # {} => f[First(s)] = Leverage(n, First(s)) * ys[First(s)]
    BY <1>1, <1>9
  <2> HIDE DEF Counts, h
  <2> QED BY <2>1, <2>2 DEF Follows
<1>13. Rise(ys) = G[1..n]
  <2>1. h[1..n] = G[1..n]
    <3> HIDE DEF h, Counts
    <3> QED BY <1>3, <1>4, <1>6, <1>12, SumsUnique
  <2> QED BY <1>8, <2>1
<1>14. PICK R : R = [k \in 0..n |-> G[1..k]]
  OBVIOUS
<1>15. \A k \in 0..n : 1..k \in SUBSET (1..n) /\ R[k] = G[1..k] /\ R[k] \in Int
  BY <1>7, <1>14 DEF Commutes
<1>16. R[0] = 0
  <2>1. 1..0 = {} /\ 0 \in 0..n
    OBVIOUS
  <2> QED BY <1>6, <1>15, <2>1 DEF SumsOf
<1>17. ASSUME NEW k \in 0..(n - 1) PROVE R[k + 1] = R[k] + Leverage(n, k + 1) * ys[k + 1]
  <2>1. k + 1 \in 0..n /\ k \in 0..n /\ k + 1 \in 1..(k + 1) /\ (1..(k + 1)) \ {k + 1} = 1..k /\ k + 1 \in 1..n
    OBVIOUS
  <2>2. G[1..(k + 1)] = G[(1..(k + 1)) \ {k + 1}] + f[k + 1]
    BY <1>7, <1>15, <2>1 DEF Commutes
  <2>3. f[k + 1] = Leverage(n, k + 1) * ys[k + 1]
    BY <1>1, <2>1
  <2> QED BY <1>15, <2>1, <2>2, <2>3
<1>18. R \in [0..n -> Int] /\ Rise(ys) = R[n]
  <2>1. n \in 0..n
    OBVIOUS
  <2> QED BY <1>13, <1>14, <1>15, <2>1
<1> QED BY <1>16, <1>17, <1>18 DEF RunningRise

\* k(k - n), what the first k weights add up to, is never positive.
LEMMA TailIsNat ==
    ASSUME NEW n \in Nat, NEW k \in 0..n PROVE k * (n - k) \in Nat
<1>1. n - k \in Nat /\ k \in Nat
  OBVIOUS
<1> QED BY <1>1

LEMMA Signs ==
    ASSUME NEW c \in Nat, NEW d \in Int
    PROVE  c * d \in Int /\ (d >= 0 => c * d >= 0) /\ (d <= 0 => c * d <= 0)
<1>1. d >= 0 => c * d >= 0
  <2> SUFFICES ASSUME d >= 0 PROVE c * d >= 0
    OBVIOUS
  <2>1. d \in Nat
    OBVIOUS
  <2>2. c * d \in Nat
    BY <2>1
  <2> QED BY <2>2
<1>2. d <= 0 => c * d <= 0
  <2> SUFFICES ASSUME d <= 0 PROVE c * d <= 0
    OBVIOUS
  <2>1. PICK e \in Nat : e = -d
    OBVIOUS
  <2>2. c * e \in Nat
    BY <2>1
  <2>3. c * d = -(c * e)
    BY <2>1
  <2> QED BY <2>2, <2>3
<1> QED BY <1>1, <1>2

\* Summed by parts, one more sample adds its rise over the one before, weighted
\* by k(n - k).
LEMMA ByParts ==
    ASSUME NEW c \in Int, NEW w \in Int, NEW r \in Int, NEW a \in Int, NEW b \in Int
    PROVE  (r + w * b) + (c - w) * b = (r + c * a) + c * (b - a)
<1>1. (c - w) * b = c * b - w * b /\ c * (b - a) = c * b - c * a
  OBVIOUS
<1>2. PICK x \in Int, y \in Int, z \in Int : x = w * b /\ y = c * b /\ z = c * a
  OBVIOUS
<1> QED BY <1>1, <1>2

\* What the samples rise from each to the next, weighted, adds up to the slope.
RisesAddUp(P, n, ys) ==
    /\ n > 0 => P[1] = 0
    /\ \A k \in 1..(n - 1) : P[k + 1] = P[k] + (k * (n - k)) * (ys[k + 1] - ys[k])

LEMMA RiseOfRises ==
    ASSUME NEW n \in Nat, NEW ys \in [1..n -> Int]
    PROVE  \E P \in [1..n -> Int] : RisesAddUp(P, n, ys) /\ Rise(ys) = IF n = 0 THEN 0 ELSE P[n]
<1>1. PICK R \in [0..n -> Int] : RunningRise(R, n, ys) /\ Rise(ys) = R[n]
  BY RiseRuns
<1>2. R[0] = 0 /\ R[n] \in Int /\ n \in 0..n
  BY <1>1 DEF RunningRise
<1>3. PICK P : P = [k \in 1..n |-> R[k] + (k * (n - k)) * ys[k]]
  OBVIOUS
<1>4. ASSUME NEW k \in 1..n
      PROVE  P[k] = R[k] + (k * (n - k)) * ys[k] /\ P[k] \in Int /\ k * (n - k) \in Nat
  <2>1. k \in 0..n /\ R[k] \in Int /\ ys[k] \in Int
    OBVIOUS
  <2>2. PICK a \in Int, r \in Int, c \in Nat : a = ys[k] /\ r = R[k] /\ c = k * (n - k)
    BY <2>1, TailIsNat
  <2>3. r + c * a \in Int
    OBVIOUS
  <2> QED BY <1>3, <2>2, <2>3
<1>5. ASSUME n > 0 PROVE P[1] = 0
  <2>1. 0 \in 0..(n - 1) /\ 1 \in 1..n
    BY <1>5
  <2>2. R[0 + 1] = R[0] + Leverage(n, 0 + 1) * ys[0 + 1]
    BY <1>1, <2>1 DEF RunningRise
  <2>3. Leverage(n, 1) = 1 - n /\ ys[1] \in Int
    BY <2>1 DEF Leverage
  <2>4. PICK y \in Int : y = ys[1]
    BY <2>3
  <2>5. R[1] = (1 - n) * y
    BY <1>2, <2>2, <2>3, <2>4
  <2>6. (1 - n) * y + (1 * (n - 1)) * y = 0
    <3>1. PICK m \in Int : m = n - 1
      OBVIOUS
    <3>2. 1 - n = 0 - m /\ 1 * (n - 1) = m
      BY <3>1
    <3>3. (0 - m) * y = 0 * y - m * y /\ m * y \in Int /\ 0 * y = 0
      BY <2>4, <3>1
    <3> QED BY <3>2, <3>3
  <2> QED BY <1>4, <2>1, <2>4, <2>5, <2>6
<1>6. ASSUME NEW k \in 1..(n - 1)
      PROVE  P[k + 1] = P[k] + (k * (n - k)) * (ys[k + 1] - ys[k])
  <2>1. k \in 0..(n - 1) /\ k \in 0..n /\ k \in 1..n /\ k + 1 \in 1..n /\ k \in Int
    OBVIOUS
  <2>2. R[k + 1] = R[k] + Leverage(n, k + 1) * ys[k + 1] /\ R[k] \in Int
    BY <1>1, <2>1 DEF RunningRise
  <2>3. PICK a \in Int, b \in Int, r \in Int : a = ys[k] /\ b = ys[k + 1] /\ r = R[k]
    BY <2>1, <2>2
  <2>4. PICK c \in Int, w \in Int : c = k * (n - k) /\ w = 2 * k - n + 1
    OBVIOUS
  <2>5. Leverage(n, k + 1) = w /\ (k + 1) * (n - (k + 1)) = c - w
    BY <2>4 DEF Leverage
  <2>6. (r + w * b) + (c - w) * b = (r + c * a) + c * (b - a)
    BY <2>3, <2>4, ByParts, SMTT(40)
  <2>7. P[k + 1] = (r + w * b) + (c - w) * b
    BY <1>4, <2>1, <2>2, <2>3, <2>5
  <2>8. P[k] = r + c * a
    BY <1>4, <2>1, <2>3, <2>4
  <2> QED BY <2>3, <2>4, <2>6, <2>7, <2>8
<1>7. ASSUME n # 0 PROVE P[n] = R[n]
  <2>1. n \in 1..n /\ ys[n] \in Int
    BY <1>7
  <2>2. n * (n - n) = 0 /\ 0 * ys[n] = 0
    BY <2>1
  <2>3. P[n] = R[n] + 0
    BY <1>4, <2>1, <2>2
  <2> QED BY <1>2, <2>3
<1>8. P \in [1..n -> Int]
  BY <1>3, <1>4
<1> QED BY <1>1, <1>2, <1>5, <1>6, <1>7, <1>8 DEF RisesAddUp

\* Samples that never fall have no falling slope, samples that never rise no
\* rising one, and samples that rise by two thresholds at least each time have a
\* slope of at least two.
LEMMA SlopeFollows ==
    ASSUME NEW n \in Nat, NEW ys \in [1..n -> Int]
    PROVE  /\ Rise(ys) \in Int
           /\ (\A k \in 1..(n - 1) : ys[k + 1] - ys[k] >= 0) => Rise(ys) >= 0
           /\ (\A k \in 1..(n - 1) : ys[k + 1] - ys[k] <= 0) => Rise(ys) <= 0
           /\ (\A k \in 1..(n - 1) : ys[k + 1] - ys[k] >= 2) => 3 * Rise(ys) >= n * (n * n - 1)
<1>1. PICK P \in [1..n -> Int] : RisesAddUp(P, n, ys) /\ Rise(ys) = IF n = 0 THEN 0 ELSE P[n]
  BY RiseOfRises
<1>2. CASE n = 0
  BY <1>1, <1>2
<1>3. CASE n # 0
  <2>1. n \in 1..n /\ n \in 0..n /\ Rise(ys) = P[n] /\ P[1] = 0 /\ 1 \in 1..n
    BY <1>1, <1>3 DEF RisesAddUp
  <2>2. ASSUME NEW k \in 1..(n - 1)
        PROVE  \E c \in Nat, d \in Int, p \in Int :
                  /\ c = k * (n - k) /\ d = ys[k + 1] - ys[k] /\ p = P[k]
                  /\ P[k + 1] = p + c * d
    <3>1. k \in 0..n /\ k \in 1..n /\ k + 1 \in 1..n
      OBVIOUS
    <3>2. k * (n - k) \in Nat /\ ys[k + 1] - ys[k] \in Int /\ P[k] \in Int
      BY <3>1, TailIsNat
    <3> QED BY <1>1, <3>2 DEF RisesAddUp
  <2>3. ASSUME NEW k \in 0..(n - 1), k # 0 PROVE k \in 1..(n - 1) /\ k + 1 \in 0..n
    BY <2>3
  <2>4. ASSUME \A k \in 1..(n - 1) : ys[k + 1] - ys[k] >= 0 PROVE P[n] >= 0
    <3>1. PICK good : good = {k \in 0..n : k = 0 \/ P[k] >= 0}
      OBVIOUS
    <3>2. ASSUME NEW k \in 0..(n - 1), k \in good PROVE k + 1 \in good
      <4>1. CASE k = 0
        BY <1>3, <2>1, <3>1, <4>1
      <4>2. CASE k # 0
        <5>0. k \in 1..(n - 1) /\ k + 1 \in 0..n
          BY <2>3, <4>2
        <5>1. PICK c \in Nat, d \in Int, p \in Int :
                 c = k * (n - k) /\ d = ys[k + 1] - ys[k] /\ p = P[k] /\ P[k + 1] = p + c * d
          BY <2>2, <5>0
        <5>2. d >= 0 /\ p >= 0
          BY <2>4, <3>1, <3>2, <4>2, <5>0, <5>1
        <5>3. PICK e \in Int : e = c * d /\ e >= 0
          BY <5>2, Signs
        <5>4. p + e >= 0
          BY <5>2, <5>3
        <5> QED BY <3>1, <5>0, <5>1, <5>3, <5>4
      <4> QED BY <4>1, <4>2
    <3>3. 0..n \subseteq good
      <4>1. 0 \in good
        BY <3>1
      <4> QED BY <3>2, <4>1, CountingUp
    <3> QED BY <1>3, <2>1, <3>1, <3>3
  <2>5. ASSUME \A k \in 1..(n - 1) : ys[k + 1] - ys[k] <= 0 PROVE P[n] <= 0
    <3>1. PICK good : good = {k \in 0..n : k = 0 \/ P[k] <= 0}
      OBVIOUS
    <3>2. ASSUME NEW k \in 0..(n - 1), k \in good PROVE k + 1 \in good
      <4>1. CASE k = 0
        BY <1>3, <2>1, <3>1, <4>1
      <4>2. CASE k # 0
        <5>0. k \in 1..(n - 1) /\ k + 1 \in 0..n
          BY <2>3, <4>2
        <5>1. PICK c \in Nat, d \in Int, p \in Int :
                 c = k * (n - k) /\ d = ys[k + 1] - ys[k] /\ p = P[k] /\ P[k + 1] = p + c * d
          BY <2>2, <5>0
        <5>2. d <= 0 /\ p <= 0
          BY <2>5, <3>1, <3>2, <4>2, <5>0, <5>1
        <5>3. PICK e \in Int : e = c * d /\ e <= 0
          BY <5>2, Signs
        <5>4. p + e <= 0
          BY <5>2, <5>3
        <5> QED BY <3>1, <5>0, <5>1, <5>3, <5>4
      <4> QED BY <4>1, <4>2
    <3>3. 0..n \subseteq good
      <4>1. 0 \in good
        BY <3>1
      <4> QED BY <3>2, <4>1, CountingUp
    <3> QED BY <1>3, <2>1, <3>1, <3>3
  <2>6. ASSUME \A k \in 1..(n - 1) : ys[k + 1] - ys[k] >= 2 PROVE 3 * P[n] >= n * (n * n - 1)
    <3>1. PICK good : good = {k \in 0..n : k = 0 \/ 3 * P[k] >= (k * (k - 1)) * (3 * n - 2 * k + 1)}
      OBVIOUS
    <3>2. ASSUME NEW k \in 0..(n - 1), k \in good PROVE k + 1 \in good
      <4>1. CASE k = 0
        <5>1. (1 * (1 - 1)) * (3 * n - 2 * 1 + 1) = 0 /\ 1 \in 0..n /\ 0 + 1 = 1
          BY <1>3
        <5>2. 3 * P[1] >= (1 * (1 - 1)) * (3 * n - 2 * 1 + 1)
          BY <2>1, <5>1
        <5> QED BY <3>1, <4>1, <5>1, <5>2
      <4>2. CASE k # 0
        <5>0. k \in 1..(n - 1) /\ k + 1 \in 0..n
          BY <2>3, <4>2
        <5>1. PICK c \in Nat, d \in Int, p \in Int :
                 c = k * (n - k) /\ d = ys[k + 1] - ys[k] /\ p = P[k] /\ P[k + 1] = p + c * d
          BY <2>2, <5>0
        <5>2. d >= 2 /\ 3 * p >= (k * (k - 1)) * (3 * n - 2 * k + 1)
          BY <2>6, <3>1, <3>2, <4>2, <5>0, <5>1
        <5>3. PICK r \in Int : r = c * (d - 2) /\ r >= 0 /\ c * d = r + 2 * c
          <6>1. d - 2 \in Int /\ d - 2 >= 0
            BY <5>2
          <6>2. c * (d - 2) >= 0 /\ c * (d - 2) \in Int
            BY <6>1, Signs
          <6>3. c * (d - 2) = c * d - c * 2
            OBVIOUS
          <6> QED BY <6>2, <6>3
        <5>4. ((k + 1) * ((k + 1) - 1)) * (3 * n - 2 * (k + 1) + 1)
                 = (k * (k - 1)) * (3 * n - 2 * k + 1) + 6 * (k * (n - k))
          OBVIOUS
        <5>5. PICK e \in Int, x \in Int : e = c * d /\ x = (k * (k - 1)) * (3 * n - 2 * k + 1)
          OBVIOUS
        <5>6. 3 * p >= x /\ e = r + 2 * c
          BY <5>2, <5>3, <5>5
        <5>7. 3 * (p + e) >= x + 6 * c
          BY <5>3, <5>6
        <5>8. 3 * P[k + 1] >= ((k + 1) * ((k + 1) - 1)) * (3 * n - 2 * (k + 1) + 1)
          BY <5>1, <5>4, <5>5, <5>7
        <5> QED BY <3>1, <5>0, <5>8
      <4> QED BY <4>1, <4>2
    <3>3. 0..n \subseteq good
      <4>1. 0 \in good
        BY <3>1
      <4> QED BY <3>2, <4>1, CountingUp
    <3>4. 3 * P[n] >= (n * (n - 1)) * (3 * n - 2 * n + 1)
      BY <1>3, <2>1, <3>1, <3>3
    <3>5. (n * (n - 1)) * (3 * n - 2 * n + 1) = n * (n * n - 1)
      OBVIOUS
    <3> QED BY <3>4, <3>5
  <2> QED BY <2>1, <2>4, <2>5, <2>6
<1> QED BY <1>2, <1>3

(* ------------------------------ the series ------------------------------ *)

LEMMA NthOK ==
    ASSUME NEW S \in SUBSET Int, IsFiniteSet(S), NEW n \in 1..Cardinality(S)
    PROVE  /\ Nth(S, n) \in S
           /\ \A m \in 1..Cardinality(S) : n < m => Nth(S, n) < Nth(S, m)
<1>1. PICK R : R = {p \in S \X S : p[1] < p[2]}
  OBVIOUS
<1>2. \A x, y \in S : <<x, y>> \in R <=> x < y
  BY <1>1
<1>3. LinearOn(R, S)
  BY <1>2 DEF LinearOn
<1>4. \A x \in S : Preceding(R, S, x) = {r \in S : r < x}
  BY <1>2 DEF Preceding
<1>5. ASSUME NEW m \in 1..Cardinality(S)
      PROVE  Nth(S, m) \in S /\ Cardinality(Preceding(R, S, Nth(S, m))) = m - 1
  <2>1. PICK x \in S : Cardinality(Preceding(R, S, x)) = m - 1
    BY <1>3, PlacesTaken
  <2>2. \E y \in S : Cardinality({r \in S : r < y}) = m - 1
    BY <1>4, <2>1
  <2>3. Nth(S, m) \in S /\ Cardinality({r \in S : r < Nth(S, m)}) = m - 1
    BY <2>2 DEF Nth
  <2> QED BY <1>4, <2>3
<1>6. ASSUME NEW m \in 1..Cardinality(S), n < m PROVE Nth(S, n) < Nth(S, m)
  <2>1. PICK x \in S, y \in S : x = Nth(S, n) /\ y = Nth(S, m)
    BY <1>5
  <2>2. Cardinality(Preceding(R, S, x)) = n - 1 /\ Cardinality(Preceding(R, S, y)) = m - 1
    BY <1>5, <2>1
  <2>3. x # y
    BY <1>6, <2>2
  <2>4. ~(y < x)
    <3> SUFFICES ASSUME y < x PROVE FALSE
      OBVIOUS
    <3>1. Cardinality(Preceding(R, S, y)) < Cardinality(Preceding(R, S, x))
      BY <1>2, <1>3, PlacesDiffer
    <3> QED BY <1>6, <2>2, <3>1
  <2> QED BY <2>1, <2>3, <2>4
<1> QED BY <1>5, <1>6

History == Seq(Seconds \X UpliftsSeen)
Shelves == [Seconds -> [state : {"none", "torn"}] \cup [state : {"whole"}, uplift : UpliftsSeen]]

LEMMA HistoryOK ==
    ASSUME TrendAssumption, NEW past \in History
    PROVE  /\ DOMAIN past \subseteq Nat
           /\ \A k \in DOMAIN past : past[k][2] # Absent => past[k][2] \in Int
<1>1. DOMAIN past = 1..Len(past) /\ Len(past) \in Nat
  BY DEF History
<1>2. ASSUME NEW k \in DOMAIN past, past[k][2] # Absent PROVE past[k][2] \in Int
  <2>1. past[k] \in Seconds \X UpliftsSeen
    BY DEF History
  <2>2. past[k][2] \in UpliftsSeen
    BY <2>1
  <2> QED BY <1>2, <2>2 DEF UpliftsSeen, TrendAssumption
<1> QED BY <1>1, <1>2

\* What is true of every rise and of the sum of two rises is true from any
\* number reported to any later one.
LEMMA RisesReach ==
    ASSUME TrendAssumption, NEW past \in History,
           NEW D \in SUBSET Int, \A a, b \in D : a + b \in D, Rises(past) \subseteq D,
           NEW i \in DOMAIN past, NEW j \in DOMAIN past, i < j,
           past[i][2] # Absent, past[j][2] # Absent
    PROVE  past[j][2] - past[i][2] \in D
<1>1. PICK listing : listing = {k \in DOMAIN past : past[k][2] # Absent}
  OBVIOUS
<1>2. listing \in SUBSET Nat
  BY <1>1 DEF History
<1>3. \A k \in listing : past[k][2] \in Int
  BY <1>1, HistoryOK
<1> DEFINE Bad(k, l) == k < l /\ past[l][2] - past[k][2] \notin D
<1>4. SUFFICES ASSUME \E k, l \in listing : Bad(k, l) PROVE FALSE
  <2>1. i \in listing /\ j \in listing
    BY <1>1
  <2> QED BY <1>4, <2>1
<1>5. PICK gaps : gaps = {g \in Nat : \E k, l \in listing : Bad(k, l) /\ g = l - k}
  OBVIOUS
<1>6. gaps \in SUBSET Nat /\ gaps # {}
  <2>1. PICK k \in listing, l \in listing : Bad(k, l)
    BY <1>4
  <2>2. l - k \in Nat
    BY <1>2, <2>1
  <2> QED BY <1>5, <2>1, <2>2
<1>7. PICK g \in gaps : \A h \in gaps : ~(h < g)
  BY <1>6, LeastNat
<1>8. PICK k \in listing, l \in listing : Bad(k, l) /\ g = l - k
  BY <1>5
<1>9. ASSUME NEW m \in listing, k < m, m < l PROVE FALSE
  <2>1. m - k \in Nat /\ l - m \in Nat /\ m - k < g /\ l - m < g
    BY <1>2, <1>8, <1>9
  <2>2. ~Bad(k, m) /\ ~Bad(m, l)
    <3> HIDE DEF Bad
    <3> QED BY <1>5, <1>7, <2>1
  <2>3. past[m][2] - past[k][2] \in D /\ past[l][2] - past[m][2] \in D
    BY <1>9, <2>2
  <2>4. past[l][2] - past[k][2] = (past[m][2] - past[k][2]) + (past[l][2] - past[m][2])
    BY <1>3, <1>9
  <2> QED BY <1>8, <2>3, <2>4
<1>10. <<k, l>> \in listing \X listing /\ k < l
  BY <1>8
<1>11. past[l][2] - past[k][2] \in Rises(past)
  BY <1>1, <1>9, <1>10 DEF Rises
<1> QED BY <1>8, <1>11

\* The seconds of a past do not decrease, and the shelf holds the snapshots of it.
Ordered(past) == \A i, j \in DOMAIN past : i <= j => past[i][1] <= past[j][1]
Shelved(fs, past) ==
    \A s \in Seconds : fs[s].state = "whole" => \E i \in DOMAIN past : past[i] = <<s, fs[s].uplift>>

\* What the trend is taken over are numbers reported, in the order of the reports.
LEMMA SeriesIsReported ==
    ASSUME TrendAssumption, NEW past \in History, NEW fs \in Shelves,
           Ordered(past), Shelved(fs, past),
           NEW D \in SUBSET Int, \A a, b \in D : a + b \in D, Rises(past) \subseteq D
    PROVE  \E n \in Nat : /\ Series(fs) \in [1..n -> Int]
                          /\ \A k \in 1..(n - 1) : Series(fs)[k + 1] - Series(fs)[k] \in D
<1>1. PICK listing : listing = {s \in Recent(Snapshots(fs)) : fs[s].uplift # Absent}
  OBVIOUS
<1>2. listing \in SUBSET Seconds /\ \A s \in listing : fs[s].state = "whole" /\ fs[s].uplift # Absent
  BY <1>1 DEF Recent, Snapshots
<1>3. Seconds \subseteq Int /\ IsFiniteSet(Seconds)
  <2>1. PICK n : n = MaxSecond
    OBVIOUS
  <2>2. 1 \in Int /\ n \in Int
    BY <2>1 DEF TrendAssumption
  <2>3. IsFiniteSet(1..n)
    BY <2>2, FS_Interval
  <2> QED BY <2>1, <2>3 DEF Seconds
<1>4. IsFiniteSet(listing) /\ listing \in SUBSET Int
  BY <1>2, <1>3, FS_Subset
<1>5. PICK n \in Nat : n = Cardinality(listing)
  BY <1>4, FS_CardinalityType
<1>6. Series(fs) = [k \in 1..n |-> fs[Nth(listing, k)].uplift]
  BY <1>1, <1>5 DEF Series
<1>7. \A k \in 1..n : Nth(listing, k) \in listing
  BY <1>4, <1>5, NthOK
<1>8. ASSUME NEW s \in listing PROVE fs[s].uplift \in Int
  <2>1. fs[s] \in [state : {"whole"}, uplift : UpliftsSeen]
    BY <1>2 DEF Shelves
  <2> QED BY <1>2, <2>1 DEF UpliftsSeen, TrendAssumption
<1>9. Series(fs) \in [1..n -> Int]
  BY <1>6, <1>7, <1>8
<1>10. ASSUME NEW k \in 1..(n - 1) PROVE Series(fs)[k + 1] - Series(fs)[k] \in D
  <2>1. k \in 1..n /\ k + 1 \in 1..n /\ k < k + 1
    OBVIOUS
  <2>2. PICK s \in listing, r \in listing : s = Nth(listing, k) /\ r = Nth(listing, k + 1)
    BY <1>7, <2>1
  <2>3. s < r
    BY <1>4, <1>5, <2>1, <2>2, NthOK
  <2>4. PICK i \in DOMAIN past : past[i] = <<s, fs[s].uplift>>
    BY <1>2 DEF Shelved
  <2>5. PICK j \in DOMAIN past : past[j] = <<r, fs[r].uplift>>
    BY <1>2 DEF Shelved
  <2>6. i \in Int /\ j \in Int /\ s \in Int /\ r \in Int
    BY <1>4 DEF History
  <2>7. i < j
    <3>1. j <= i => past[j][1] <= past[i][1]
      BY DEF Ordered
    <3> QED BY <2>3, <2>4, <2>5, <2>6, <3>1
  <2>8. fs[r].uplift - fs[s].uplift \in D
    <3>1. past[i][2] # Absent /\ past[j][2] # Absent
      BY <1>2, <2>4, <2>5
    <3>2. past[j][2] - past[i][2] \in D
      BY <2>7, <3>1, RisesReach
    <3> QED BY <2>4, <2>5, <3>2
  <2> QED BY <1>6, <2>1, <2>2, <2>8
<1> QED BY <1>9, <1>10

\* A label made of a shelf follows the numbers reported.
LEMMA LabelFollows ==
    ASSUME TrendAssumption, NEW past \in History, NEW fs \in Shelves,
           Ordered(past), Shelved(fs, past)
    PROVE  /\ Classified(Series(fs)) \in Labels
           /\ (\A d \in Rises(past) : d >= 0) => Classified(Series(fs)) # "degrading"
           /\ (\A d \in Rises(past) : d <= 0) => Classified(Series(fs)) # "improving"
           /\ (\A d \in Rises(past) : d > 1) => Classified(Series(fs)) # "flat"
<1>1. Rises(past) \in SUBSET Int
  <2>1. \A k \in DOMAIN past : past[k][2] # Absent => past[k][2] \in Int
    BY HistoryOK
  <2> QED BY <2>1 DEF Rises
<1>2. MinPoints \in Nat /\ MinPoints >= 2
  BY DEF TrendAssumption
<1>3. ASSUME NEW n \in Nat, NEW ys \in [1..n -> Int]
      PROVE  /\ Len(ys) = n /\ n * (n * n - 1) \in Nat /\ (n >= 2 => n * (n * n - 1) > 0)
             /\ Rise(ys) \in Int
  <2>1. CASE n = 0
    <3>1. n * (n * n - 1) = 0
      BY <2>1
    <3>2. Rise(ys) \in Int
      BY SlopeFollows
    <3>3. Len(ys) = n
      OBVIOUS
    <3>4. n * (n * n - 1) \in Nat /\ ~(n >= 2)
      BY <2>1, <3>1
    <3> QED BY <3>2, <3>3, <3>4
  <2>2. CASE n # 0
    <3>1. n * n \in Nat /\ n * n >= n
      <4>1. PICK m \in Nat : n = m + 1
        <5>1. n - 1 \in Nat /\ n = (n - 1) + 1
          BY <2>2
        <5> QED BY <5>1
      <4>2. n * n = n * m + n /\ n * m \in Nat
        BY <4>1
      <4> QED BY <4>2
    <3>2. PICK q \in Nat : q = n * n - 1 /\ (n >= 2 => q > 0)
      BY <2>2, <3>1
    <3>3. n * q \in Nat
      OBVIOUS
    <3>4. n >= 2 => n * q > 0
      BY <3>2
    <3> QED BY <3>2, <3>3, <3>4, SlopeFollows
  <2> QED BY <2>1, <2>2
<1>4. Classified(Series(fs)) \in Labels
  BY DEF Classified, Labels
<1>5. ASSUME \A d \in Rises(past) : d >= 0 PROVE Classified(Series(fs)) # "degrading"
  <2>1. PICK D : D = {d \in Int : d >= 0}
    OBVIOUS
  <2>2. D \in SUBSET Int /\ (\A a, b \in D : a + b \in D) /\ Rises(past) \subseteq D
    BY <1>1, <1>5, <2>1
  <2>3. PICK n \in Nat : /\ Series(fs) \in [1..n -> Int]
                         /\ \A k \in 1..(n - 1) : Series(fs)[k + 1] - Series(fs)[k] \in D
    BY <2>2, SeriesIsReported
  <2>4. PICK ys : ys = Series(fs)
    OBVIOUS
  <2>5. Rise(ys) \in Int /\ Rise(ys) >= 0
    BY <2>1, <2>3, <2>4, SlopeFollows
  <2>6. Len(ys) = n /\ n * (n * n - 1) \in Nat
    BY <1>3, <2>3, <2>4
  <2>7. ~SlopeUnder(ys)
    <3>1. PICK q \in Nat, r \in Int : q = n * (n * n - 1) /\ r = Rise(ys) /\ r >= 0
      BY <2>5, <2>6
    <3>2. ~(6 * r < -q)
      BY <3>1
    <3> QED BY <2>6, <3>1, <3>2 DEF SlopeUnder
  <2> QED BY <2>4, <2>7 DEF Classified
<1>6. ASSUME \A d \in Rises(past) : d <= 0 PROVE Classified(Series(fs)) # "improving"
  <2>1. PICK D : D = {d \in Int : d <= 0}
    OBVIOUS
  <2>2. D \in SUBSET Int /\ (\A a, b \in D : a + b \in D) /\ Rises(past) \subseteq D
    BY <1>1, <1>6, <2>1
  <2>3. PICK n \in Nat : /\ Series(fs) \in [1..n -> Int]
                         /\ \A k \in 1..(n - 1) : Series(fs)[k + 1] - Series(fs)[k] \in D
    BY <2>2, SeriesIsReported
  <2>4. PICK ys : ys = Series(fs)
    OBVIOUS
  <2>5. Rise(ys) \in Int /\ Rise(ys) <= 0
    BY <2>1, <2>3, <2>4, SlopeFollows
  <2>6. Len(ys) = n /\ n * (n * n - 1) \in Nat
    BY <1>3, <2>3, <2>4
  <2>7. ~SlopeOver(ys)
    <3>1. PICK q \in Nat, r \in Int : q = n * (n * n - 1) /\ r = Rise(ys) /\ r <= 0
      BY <2>5, <2>6
    <3>2. ~(6 * r > q)
      BY <3>1
    <3> QED BY <2>6, <3>1, <3>2 DEF SlopeOver
  <2> QED BY <2>4, <2>7 DEF Classified
<1>7. ASSUME \A d \in Rises(past) : d > 1 PROVE Classified(Series(fs)) # "flat"
  <2>1. PICK D : D = {d \in Int : d >= 2}
    OBVIOUS
  <2>2. D \in SUBSET Int /\ (\A a, b \in D : a + b \in D) /\ Rises(past) \subseteq D
    BY <1>1, <1>7, <2>1
  <2>3. PICK n \in Nat : /\ Series(fs) \in [1..n -> Int]
                         /\ \A k \in 1..(n - 1) : Series(fs)[k + 1] - Series(fs)[k] \in D
    BY <2>2, SeriesIsReported
  <2>4. PICK ys : ys = Series(fs)
    OBVIOUS
  <2>5. Rise(ys) \in Int /\ 3 * Rise(ys) >= n * (n * n - 1)
    BY <2>1, <2>3, <2>4, SlopeFollows
  <2>6. Len(ys) = n /\ n * (n * n - 1) \in Nat /\ (n >= 2 => n * (n * n - 1) > 0)
    BY <1>3, <2>3, <2>4
  <2>7. n >= MinPoints => SlopeOver(ys) /\ ~SlopeUnder(ys)
    <3>1. PICK q \in Nat, r \in Int : q = n * (n * n - 1) /\ r = Rise(ys) /\ 3 * r >= q /\ (n >= 2 => q > 0)
      BY <2>5, <2>6
    <3>2. n >= MinPoints => 6 * r > q /\ ~(6 * r < -q)
      BY <1>2, <3>1
    <3> QED BY <2>6, <3>1, <3>2 DEF SlopeOver, SlopeUnder
  <2>8. Len(ys) = 0 \/ Len(ys) \in 1..(MinPoints - 1) \/ Len(ys) >= MinPoints
    BY <1>2, <2>6
  <2>9. Classified(ys) \in {"untracked", "insufficient", "improving"}
    <3>1. CASE Len(ys) = 0
      BY <1>2, <3>1 DEF Classified
    <3>2. CASE Len(ys) \in 1..(MinPoints - 1)
      BY <1>2, <3>2 DEF Classified
    <3>3. CASE Len(ys) >= MinPoints
      <4>1. SlopeOver(ys) /\ ~SlopeUnder(ys) /\ Len(ys) # 0 /\ Len(ys) \notin 1..(MinPoints - 1)
        BY <1>2, <2>6, <2>7, <3>3
      <4> QED BY <3>3, <4>1 DEF Classified
    <3> QED BY <2>8, <3>1, <3>2, <3>3
  <2> QED BY <2>4, <2>9
<1> QED BY <1>4, <1>5, <1>6, <1>7

(* ------------------------------ the reports ----------------------------- *)

\* The seconds of the snapshots taken do not decrease, what is whole on the
\* shelf was taken, and the report follows the numbers it was made of.
TrendInv ==
    /\ TrendTypeOK
    /\ Len(taken) + (IF payload.step = "idle" THEN 0 ELSE 1) <= reports
    /\ Ordered(taken) /\ \A i \in DOMAIN taken : taken[i][1] <= second
    /\ Shelved(snapshots, taken)
    /\ TrendFollowsSeries

LEMMA TrendInitInv == ASSUME TrendAssumption, TrendInit PROVE TrendInv
<1>1. 1 \in Seconds /\ reports \in 0..MaxReports /\ Len(taken) = 0 /\ DOMAIN taken = {}
  BY DEF TrendInit, TrendAssumption, Seconds
<1>2. taken \in Seq(Seconds \X UpliftsSeen) /\ report.label \in Labels /\ report.taken = taken
  BY DEF TrendInit, Labels
<1>3. TrendTypeOK
  BY <1>1, <1>2 DEF TrendInit, TrendTypeOK, TrendAssumption
<1>4. TrendFollowsSeries
  BY DEF TrendInit, TrendFollowsSeries
<1> QED BY <1>1, <1>3, <1>4 DEF TrendInv, TrendInit, Ordered, Shelved

LEMMA TickStep == ASSUME TrendAssumption, TrendInv, Tick PROVE TrendInv'
<1>1. TrendTypeOK' /\ second < second'
  BY DEF TrendAssumption, TrendInv, TrendTypeOK, Tick, Seconds
<1>2. \A i \in DOMAIN taken : taken[i][1] <= second'
  <2> SUFFICES ASSUME NEW i \in DOMAIN taken PROVE taken[i][1] <= second'
    OBVIOUS
  <2>1. taken[i] \in Seconds \X UpliftsSeen
    BY DEF TrendInv, TrendTypeOK
  <2>2. taken[i][1] \in Int /\ second \in Int /\ second' \in Int
    BY <2>1 DEF TrendInv, TrendTypeOK, Tick, Seconds
  <2> QED BY <1>1, <2>2 DEF TrendInv
<1> QED BY <1>1, <1>2 DEF TrendInv, Tick, Ordered, Shelved, TrendFollowsSeries

LEMMA FetchStep == ASSUME TrendAssumption, TrendInv, Fetch PROVE TrendInv'
<1>1. payload'.step # "idle" /\ payload.step = "idle" /\ reports' = reports + 1 /\ reports \in Nat
  BY DEF Fetch, TrendInv, TrendTypeOK
<1>2. TrendTypeOK'
  BY DEF TrendAssumption, TrendInv, TrendTypeOK, Fetch
<1>3. Len(taken) \in Nat
  BY DEF TrendInv, TrendTypeOK
<1> QED BY <1>1, <1>2, <1>3 DEF TrendInv, Fetch, Ordered, Shelved, TrendFollowsSeries

LEMMA KilledStep == ASSUME TrendAssumption, TrendInv, SnapshotKilled PROVE TrendInv'
<1>1. snapshots' \in Shelves /\ Shelved(snapshots', taken)
  BY DEF SnapshotKilled, TrendInv, TrendTypeOK, Shelves, Shelved
<1>2. TrendTypeOK'
  BY <1>1 DEF TrendInv, TrendTypeOK, SnapshotKilled, Shelves
<1>3. Len(taken) \in Nat /\ reports \in Nat /\ payload.step # "idle" /\ payload'.step = "idle"
  BY DEF TrendInv, TrendTypeOK, SnapshotKilled
<1> QED BY <1>1, <1>2, <1>3 DEF TrendInv, SnapshotKilled, Ordered, TrendFollowsSeries

LEMMA AnalyzeStep == ASSUME TrendAssumption, TrendInv, SnapshotAndAnalyze PROVE TrendInv'
<1>1. CASE payload.step = "fetched"
  <2>1. PICK u \in UpliftsSeen : u = payload.uplift
    BY <1>1 DEF TrendInv, TrendTypeOK
  <2>2. /\ snapshots' = [snapshots EXCEPT ![second] = [state |-> "whole", uplift |-> u]]
        /\ taken' = Append(taken, <<second, u>>)
        /\ report' = [label |-> Classified(Series(snapshots')), taken |-> taken']
    BY <1>1, <2>1 DEF SnapshotAndAnalyze
  <2>3. taken \in History /\ second \in Seconds /\ <<second, u>> \in Seconds \X UpliftsSeen
    BY <2>1 DEF TrendInv, TrendTypeOK, History
  <2>4. /\ taken' \in History /\ Len(taken') = Len(taken) + 1 /\ Len(taken) \in Nat
        /\ DOMAIN taken' = DOMAIN taken \cup {Len(taken) + 1} /\ DOMAIN taken = 1..Len(taken)
        /\ taken'[Len(taken) + 1] = <<second, u>>
        /\ \A i \in DOMAIN taken : taken'[i] = taken[i]
    BY <2>2, <2>3 DEF History
  <2>5. snapshots' \in Shelves
    BY <2>1, <2>2, <2>3 DEF TrendInv, TrendTypeOK, Shelves
  <2>6. \A i \in DOMAIN taken' : taken'[i][1] <= second /\ taken'[i][1] \in Int
    <3> SUFFICES ASSUME NEW i \in DOMAIN taken' PROVE taken'[i][1] <= second /\ taken'[i][1] \in Int
      OBVIOUS
    <3>1. CASE i \in DOMAIN taken
      <4>1. taken[i] \in Seconds \X UpliftsSeen
        BY <2>3, <3>1 DEF History
      <4> QED BY <2>4, <3>1, <4>1 DEF TrendInv, Seconds
    <3>2. CASE i = Len(taken) + 1
      BY <2>3, <2>4, <3>2 DEF Seconds
    <3> QED BY <2>4, <3>1, <3>2
  <2>7. Ordered(taken')
    <3> SUFFICES ASSUME NEW i \in DOMAIN taken', NEW j \in DOMAIN taken', i <= j
                 PROVE  taken'[i][1] <= taken'[j][1]
      BY DEF Ordered
    <3>1. CASE j = Len(taken) + 1
      BY <2>4, <2>6, <3>1
    <3>2. CASE j \in DOMAIN taken
      <4>1. i \in DOMAIN taken
        BY <2>4, <3>2
      <4> QED BY <2>4, <3>2, <4>1 DEF TrendInv, Ordered
    <3> QED BY <2>4, <3>1, <3>2
  <2>8. Shelved(snapshots', taken')
    <3> SUFFICES ASSUME NEW s \in Seconds, snapshots'[s].state = "whole"
                 PROVE  \E i \in DOMAIN taken' : taken'[i] = <<s, snapshots'[s].uplift>>
      BY DEF Shelved
    <3>0. DOMAIN snapshots = Seconds
      BY DEF TrendInv, TrendTypeOK
    <3>1. CASE s = second
      <4>1. snapshots'[s].uplift = u
        BY <2>2, <3>0, <3>1
      <4> QED BY <2>4, <3>1, <4>1
    <3>2. CASE s # second
      <4>1. snapshots'[s] = snapshots[s]
        BY <2>2, <3>0, <3>2
      <4>2. PICK i \in DOMAIN taken : taken[i] = <<s, snapshots[s].uplift>>
        BY <4>1 DEF TrendInv, Shelved
      <4> QED BY <2>4, <4>1, <4>2
    <3> QED BY <3>1, <3>2
  <2>9. Classified(Series(snapshots')) \in Labels /\ TrendFollowsSeries'
    <3>1. report'.label = Classified(Series(snapshots')) /\ report'.taken = taken'
      BY <2>2
    <3> QED BY <2>4, <2>5, <2>7, <2>8, <3>1, LabelFollows DEF TrendFollowsSeries
  <2>10. Len(taken') <= reports /\ reports \in 0..MaxReports /\ MaxReports \in Nat
    BY <1>1, <2>4 DEF TrendInv, TrendTypeOK, TrendAssumption
  <2>11. TrendTypeOK'
    <3>1. report'.label \in Labels /\ Len(report'.taken) <= Len(taken')
      BY <2>2, <2>4, <2>9
    <3> QED BY <2>4, <2>5, <2>10, <3>1 DEF TrendTypeOK, TrendInv, SnapshotAndAnalyze, History, Shelves
  <2> QED BY <2>6, <2>7, <2>8, <2>9, <2>10, <2>11 DEF TrendInv, SnapshotAndAnalyze
<1>2. CASE payload.step = "unavailable"
  <2>1. /\ snapshots' = snapshots /\ taken' = taken
        /\ report' = [label |-> Classified(Series(snapshots)), taken |-> taken]
    BY <1>2 DEF SnapshotAndAnalyze
  <2>2. taken \in History /\ snapshots \in Shelves /\ Ordered(taken) /\ Shelved(snapshots, taken)
    BY DEF TrendInv, TrendTypeOK, History, Shelves
  <2>3. Classified(Series(snapshots)) \in Labels /\ TrendFollowsSeries'
    <3>1. report'.label = Classified(Series(snapshots)) /\ report'.taken = taken
      BY <2>1
    <3> QED BY <2>2, <3>1, LabelFollows DEF TrendFollowsSeries
  <2>4. Len(taken) \in Nat /\ Len(taken) <= reports /\ reports \in Nat /\ payload'.step = "idle"
    BY <1>2, <2>2 DEF TrendInv, TrendTypeOK, SnapshotAndAnalyze, History
  <2>5. TrendTypeOK'
    <3>1. report'.label \in Labels /\ Len(report'.taken) <= Len(taken')
      BY <2>1, <2>3, <2>4
    <3> QED BY <2>1, <3>1 DEF TrendTypeOK, TrendInv, SnapshotAndAnalyze
  <2> QED BY <2>1, <2>3, <2>4, <2>5 DEF TrendInv, SnapshotAndAnalyze, Ordered, Shelved
<1> QED BY <1>1, <1>2 DEF TrendInv, TrendTypeOK, SnapshotAndAnalyze

LEMMA TrendInvariant == TrendSpec => []TrendInv
<1>1. ASSUME TrendInv, [TrendNext]_trend_vars PROVE TrendInv'
  <2>1. CASE UNCHANGED trend_vars
    BY <1>1, <2>1 DEF trend_vars, TrendInv, TrendTypeOK, Ordered, Shelved, TrendFollowsSeries
  <2> QED BY <1>1, <2>1, TrendAssumption, TickStep, FetchStep, KilledStep, AnalyzeStep DEF TrendNext
<1> QED BY <1>1, TrendAssumption, TrendInitInv, PTL DEF TrendSpec

\* The trend of a pattern is typed, within the bounds of the model.
THEOREM TrendTyped == TrendSpec => []TrendTypeOK
<1>1. TrendInv => TrendTypeOK
  BY DEF TrendInv
<1> QED BY <1>1, TrendInvariant, PTL

\* The label of a trend follows what HOW reported: for any numbers, any window,
\* any minimum of points and any number of reports, kills and overwritten
\* snapshots.
THEOREM TrendFollows == TrendSpec => []TrendFollowsSeries
<1>1. TrendInv => TrendFollowsSeries
  BY DEF TrendInv
<1> QED BY <1>1, TrendInvariant, PTL

-----------------------------------------------------------------------------
(* Task packs: sequences of texts, one after the other.                     *)

\* Each text once: none is lost.
LEMMA DistinctIs ==
    ASSUME NEW T, NEW texts \in Seq(T)
    PROVE  Distinct(texts) \in Seq(T) /\ ToSet(Distinct(texts)) = ToSet(texts)
<1>1. PICK ss : ss = [i \in DOMAIN texts |->
                        Only(\A j \in 1..(i - 1) : texts[j] # texts[i], <<texts[i]>>)]
  OBVIOUS
<1>2. ss \in Seq(Seq(T)) /\ DOMAIN ss = DOMAIN texts
  <2>1. \A i \in DOMAIN texts : ss[i] \in Seq(T)
    BY <1>1 DEF Only
  <2>0. DOMAIN texts = 1..Len(texts) /\ Len(texts) \in Nat
    OBVIOUS
  <2>2. ss \in [DOMAIN texts -> Seq(T)]
    BY <1>1, <2>1, Zenon
  <2>3. ss \in Seq(Seq(T))
    BY <2>0, <2>2
  <2> QED BY <2>2, <2>3
<1>3. Distinct(texts) \in Seq(T) /\ ToSet(Distinct(texts)) = UNION {ToSet(ss[i]) : i \in DOMAIN ss}
  <2>1. Distinct(texts) = FlattenSeq(ss)
    BY <1>1, Zenon DEF Distinct
  <2> QED BY <1>2, <2>1, FlattenIs
<1>4. ASSUME NEW i \in DOMAIN ss PROVE ToSet(ss[i]) \subseteq ToSet(texts)
  BY <1>1, <1>2, <1>4 DEF Only, ToSet
<1>5. ASSUME NEW i \in DOMAIN texts PROVE \E j \in DOMAIN ss : texts[i] \in ToSet(ss[j])
  <2>1. PICK first \in {k \in DOMAIN texts : texts[k] = texts[i]} :
            \A k \in {k \in DOMAIN texts : texts[k] = texts[i]} : ~(k < first)
    <3>1. {k \in DOMAIN texts : texts[k] = texts[i]} \in SUBSET Nat
      OBVIOUS
    <3>2. {k \in DOMAIN texts : texts[k] = texts[i]} # {}
      OBVIOUS
    <3> QED BY <3>1, <3>2, LeastNat
  <2>2. \A j \in 1..(first - 1) : texts[j] # texts[first]
    BY <2>1
  <2>3. ss[first] = <<texts[i]>>
    BY <1>1, <2>1, <2>2 DEF Only
  <2>4. texts[i] \in ToSet(ss[first])
    BY <2>3 DEF ToSet
  <2> QED BY <1>2, <2>1, <2>4
<1>6. ToSet(texts) = {texts[i] : i \in DOMAIN texts}
  BY DEF ToSet
<1> QED BY <1>3, <1>4, <1>5, <1>6

LEMMA UnseenIs ==
    ASSUME NEW T, NEW texts \in Seq(T), NEW known
    PROVE  Unseen(texts, known) \in Seq(T)
<1>1. PICK ss : ss = [i \in DOMAIN texts |-> Only(texts[i] \notin ToSet(known), <<texts[i]>>)]
  OBVIOUS
<1>2. ss \in Seq(Seq(T))
  <2>1. \A i \in DOMAIN texts : ss[i] \in Seq(T)
    BY <1>1 DEF Only
  <2>2. ss \in [1..Len(texts) -> Seq(T)]
    BY <1>1, <2>1
  <2> QED BY <2>2
<1> QED BY <1>1, <1>2, FlattenIs DEF Unseen

-----------------------------------------------------------------------------
(* The cards the candidates become, and their scores.                       *)

Sampled(n) == n \in {0} \cup DOMAIN SampleWeight
IsCard(c) ==
    /\ {c.symptom, c.next, c.target, c.signals, c.anti, c.contra} \subseteq Seq(Texts)
    /\ IsFiniteSet(c.families)
    /\ c.priority = 0 /\ c.win_rate = 0 /\ Sampled(c.n)

\* The candidates and the taxonomy some file has.
Candidates == ToSet(AssetFiles["candidates"])
Taxonomies == ToSet(AssetFiles["failures"])
Catalogs == ToSet(AssetFiles["tasks"])

LEMMA WithIdIn ==
    ASSUME NEW seq, seq \in Seq(ToSet(seq)), NEW id \in IdsOf(seq)
    PROVE  \E i \in DOMAIN seq : WithId(seq, id) = seq[i] /\ seq[i].id = id
<1>1. PICK S : S = {i \in DOMAIN seq : seq[i].id = id}
  OBVIOUS
<1>2. S \in SUBSET Nat /\ Len(seq) \in Nat /\ S # {} /\ \A i \in S : i <= Len(seq)
  <2>1. DOMAIN seq = 1..Len(seq) /\ Len(seq) \in Nat
    OBVIOUS
  <2>2. S # {}
    BY <1>1 DEF IdsOf
  <2> QED BY <1>1, <2>1, <2>2
<1>3. Max(S) \in S
  BY <1>2, MaxIsIn
<1>4. WithId(seq, id) = seq[Max(S)]
  BY <1>1, Zenon DEF WithId
<1> QED BY <1>1, <1>3, <1>4

LEMMA FailuresKnown ==
    ASSUME NEW failures \in Taxonomies, NEW id \in IdsOf(failures)
    PROVE  IsFailure(WithId(failures, id)) /\ WithId(failures, id).id = id
<1>1. failures \in Seq(ToSet(failures)) /\ \A i \in DOMAIN failures : IsFailure(failures[i])
  BY SchemaAssumption DEF SchemaAssumption, Taxonomies, Assets
<1> QED BY <1>1, WithIdIn

LEMMA CompiledIsCard ==
    ASSUME NEW candidate, IsCandidate(candidate),
           Sampled(candidate.n), NEW failures \in Taxonomies
    PROVE  /\ IsCard(Widened(Compiled(candidate, failures)))
           /\ Widened(Compiled(candidate, failures)).id = candidate.id
           /\ Widened(Compiled(candidate, failures)).domain \in Domains
<1>1. PICK failure : failure = IF candidate.failure \in IdsOf(failures)
                              THEN <<WithId(failures, candidate.failure)>> ELSE << >>
  BY Zenon
<1>2. /\ failure = << >> \/ \E f : failure = <<f>> /\ IsFailure(f)
      /\ \A i \in DOMAIN failure : IsFailure(failure[i])
  BY <1>1, FailuresKnown
<1>3. PICK n \in Nat : DOMAIN failure = 1..n
  <2>1. CASE failure = << >>
    <3>1. DOMAIN failure = 1..0
      BY <2>1
    <3> QED BY <3>1
  <2>2. ASSUME NEW f, failure = <<f>> PROVE DOMAIN failure = 1..1
    BY <2>2
  <2> QED BY <1>2, <2>1, <2>2
<1>4. PICK warned : warned = [i \in DOMAIN failure |-> failure[i].contra]
  BY Zenon
<1>t. PICK said : said = [i \in DOMAIN failure |-> <<failure[i].symptom>> \o failure[i].causes]
  BY Zenon
<1>5. warned \in Seq(Seq(Texts)) /\ said \in Seq(Seq(Texts))
  <2>1. \A i \in DOMAIN failure : warned[i] \in Seq(Texts) /\ said[i] \in Seq(Texts)
    <3> TAKE i \in DOMAIN failure
    <3>1. failure[i].contra \in Seq(Texts) /\ failure[i].symptom \in Texts /\ failure[i].causes \in Seq(Texts)
      BY <1>2 DEF IsFailure
    <3>2. <<failure[i].symptom>> \o failure[i].causes \in Seq(Texts)
      BY <3>1
    <3> QED BY <1>4, <1>t, <3>1, <3>2
  <2>2. warned \in [1..n -> Seq(Texts)] /\ said \in [1..n -> Seq(Texts)]
    BY <1>3, <1>4, <1>t, <2>1, Zenon
  <2> QED BY <2>2
<1>6. PICK warnings \in Seq(Texts), told \in Seq(Texts) :
          warnings = FlattenSeq(warned) /\ told = FlattenSeq(said)
  BY <1>5, FlattenIs
<1>7. PICK card : card = Compiled(candidate, failures)
  BY Zenon
<1>8. card = [id       |-> candidate.id,
              domain   |-> Defaults(candidate.family).domain,
              families |-> {candidate.family},
              embodiments |-> Defaults(candidate.family).embodiments,
              priority |-> 0, n |-> candidate.n, win_rate |-> 0,
              symptom  |-> told \o <<candidate.diagnosis>>,
              next     |-> candidate.next,
              target   |-> candidate.target,
              signals  |-> <<candidate.signal>>,
              anti     |-> IF warnings = << >> THEN <<"do_not_embed_tuning_values">> ELSE warnings,
              contra   |-> candidate.contra \o Unseen(warnings, candidate.contra)]
  <2>1. PICK w, s : /\ w = FlattenSeq([i \in DOMAIN failure |-> failure[i].contra])
                    /\ s = FlattenSeq([i \in DOMAIN failure |-> <<failure[i].symptom>> \o failure[i].causes])
    BY Zenon
  <2>2. w = warnings /\ s = told
    BY <1>4, <1>t, <1>6, <2>1, Zenon
  <2> QED BY <1>1, <1>7, <2>1, <2>2, Zenon DEF Compiled
<1>9. card.domain \in Domains
  BY <1>8, GraphAssumption, SchemaAssumption DEF SchemaAssumption, GraphAssumption, Defaults
<1>10. Unseen(warnings, candidate.contra) \in Seq(Texts)
  BY UnseenIs
<1>11. /\ card.symptom \in Seq(Texts) /\ card.next \in Seq(Texts) /\ card.target \in Seq(Texts)
       /\ card.signals \in Seq(Texts) /\ card.anti \in Seq(Texts) /\ card.contra \in Seq(Texts)
  <2>1. /\ candidate.next \in Seq(Texts) /\ candidate.target \in Seq(Texts)
        /\ candidate.contra \in Seq(Texts) /\ candidate.diagnosis \in Texts /\ candidate.signal \in Texts
        /\ "do_not_embed_tuning_values" \in Texts
    BY SchemaAssumption DEF IsCandidate, SchemaAssumption
  <2>2. told \o <<candidate.diagnosis>> \in Seq(Texts)
    BY <2>1
  <2>3. candidate.contra \o Unseen(warnings, candidate.contra) \in Seq(Texts)
    BY <1>10, <2>1
  <2> QED BY <1>8, <2>1, <2>2, <2>3
<1>12. IsFiniteSet(card.families)
  <2>1. card.families = {candidate.family}
    BY <1>8
  <2> QED BY <2>1, FS_Singleton
<1>13. IsCard(card)
  BY <1>8, <1>11, <1>12 DEF IsCard
<1>14. CASE card.id \in DOMAIN WiderFamilies
  <2>1. PICK families : families = card.families \cup WiderFamilies[card.id]
    BY Zenon
  <2>0. PICK wider : wider = [card EXCEPT !.families = families]
    BY Zenon
  <2>2. /\ wider.families = families
        /\ wider.id = card.id /\ wider.domain = card.domain /\ wider.priority = card.priority
        /\ wider.n = card.n /\ wider.win_rate = card.win_rate /\ wider.symptom = card.symptom
        /\ wider.next = card.next /\ wider.target = card.target /\ wider.signals = card.signals
        /\ wider.anti = card.anti /\ wider.contra = card.contra
    BY <1>8, <2>0
  <2>w. Widened(card) = wider
    <3>1. Widened(card) = [card EXCEPT !.families = card.families \cup WiderFamilies[card.id]]
      BY <1>14, <1>8 DEF Widened
    <3> QED BY <2>0, <2>1, <3>1, Zenon
  <2>3. IsFiniteSet(wider.families)
    <3>1. IsFiniteSet(WiderFamilies[card.id])
      BY <1>14, PackAssumption DEF PackAssumption
    <3>2. IsFiniteSet(card.families \cup WiderFamilies[card.id])
      BY <1>12, <3>1, FS_Union
    <3> QED BY <2>1, <2>2, <3>2, Zenon
  <2>4. IsCard(wider)
    BY <1>13, <2>2, <2>3 DEF IsCard
  <2>5. card.id = candidate.id
    BY <1>8
  <2> QED BY <1>7, <1>9, <2>2, <2>4, <2>5, <2>w
<1>15. CASE card.id \notin DOMAIN WiderFamilies
  BY <1>7, <1>8, <1>9, <1>13, <1>15 DEF Widened
<1> QED BY <1>14, <1>15

LEMMA CardsAre ==
    ASSUME NEW candidates \in Candidates, NEW failures \in Taxonomies
    PROVE  /\ CardsOf(candidates, failures) \in Seq(ToSet(CardsOf(candidates, failures)))
           /\ DOMAIN CardsOf(candidates, failures) = DOMAIN candidates
           /\ \A i \in DOMAIN candidates :
                 /\ IsCard(CardsOf(candidates, failures)[i])
                 /\ CardsOf(candidates, failures)[i] = Widened(Compiled(candidates[i], failures))
                 /\ CardsOf(candidates, failures)[i].id = candidates[i].id
                 /\ CardsOf(candidates, failures)[i].domain \in Domains
<1>1. candidates \in Seq(ToSet(candidates)) /\ \A i \in DOMAIN candidates : IsCandidate(candidates[i])
  BY SchemaAssumption DEF SchemaAssumption, Candidates, Assets
<1>2. \A i \in DOMAIN candidates : Sampled(candidates[i].n)
  BY PackAssumption DEF PackAssumption, Candidates, Sampled
<1>3. PICK cards : cards = CardsOf(candidates, failures)
  OBVIOUS
<1>4. cards = [i \in DOMAIN candidates |-> Widened(Compiled(candidates[i], failures))]
  BY <1>3, Zenon DEF CardsOf
<1>5. \A i \in DOMAIN candidates : /\ cards[i] = Widened(Compiled(candidates[i], failures))
                                   /\ IsCard(cards[i]) /\ cards[i].id = candidates[i].id
                                   /\ cards[i].domain \in Domains
  BY <1>1, <1>2, <1>4, CompiledIsCard
<1>6. DOMAIN cards = 1..Len(candidates) /\ Len(candidates) \in Nat
  BY <1>1, <1>4
<1>7. cards \in Seq(ToSet(cards))
  <2>1. \A i \in DOMAIN cards : cards[i] \in ToSet(cards)
    BY DEF ToSet
  <2>2. cards \in [1..Len(candidates) -> ToSet(cards)]
    BY <1>4, <1>6, <2>1
  <2> QED BY <1>6, <2>2
<1> QED BY <1>3, <1>4, <1>5, <1>7

-----------------------------------------------------------------------------
(* The ranking of the cards.                                                *)

LEMMA WordsFinite ==
    ASSUME NEW texts \in Seq(Texts)
    PROVE  IsFiniteSet(Words(texts))
<1>1. PICK n \in Nat : DOMAIN texts = 1..n
  OBVIOUS
<1>2. PICK D : D = 1..n
  OBVIOUS
<1>3. IsFiniteSet(D) /\ D = DOMAIN texts
  BY <1>1, <1>2, FS_Interval
<1>4. PICK S : S = {WordsIn[texts[i]] : i \in D}
  OBVIOUS
<1>5. IsFiniteSet(S)
  <2>1. PICK f : f = [i \in D |-> WordsIn[texts[i]]]
    OBVIOUS
  <2>2. f \in Surjection(D, S)
    BY <1>4, <2>1 DEF Surjection
  <2> QED BY <1>3, <2>2, FS_Surjection
<1>6. \A s \in S : IsFiniteSet(s)
  BY <1>3, <1>4, PackAssumption DEF PackAssumption
<1>7. IsFiniteSet(UNION S)
  BY <1>5, <1>6, FS_UNION
<1> QED BY <1>3, <1>4, <1>7 DEF Words

LEMMA SharedAre ==
    ASSUME NEW a, NEW b, IsFiniteSet(a), IsFiniteSet(b)
    PROVE  /\ Cardinality(a) \in Nat /\ Cardinality(b) \in Nat /\ Cardinality(a \cap b) \in Nat
           /\ Cardinality(a \cup b) \in Nat
<1>1. IsFiniteSet(a \cap b) /\ IsFiniteSet(a \cup b)
  BY FS_Intersection, FS_Union
<1> QED BY <1>1, FS_CardinalityType

LEMMA JaccardIs ==
    ASSUME NEW a, NEW b, IsFiniteSet(a), IsFiniteSet(b)
    PROVE  Jaccard(a, b) \in Int
<1>1. PICK m \in Nat, n \in Nat : m = Cardinality(a \cap b) /\ n = Cardinality(a \cup b)
  BY SharedAre
<1>2. PerMille(m, n) \in Int
  <2>1. n # 0 => (1000 * m) \div n \in Int
    OBVIOUS
  <2> QED BY <2>1 DEF PerMille
<1> QED BY <1>1, <1>2 DEF Jaccard

LEMMA OverlapIs ==
    ASSUME NEW a, NEW b, IsFiniteSet(a), IsFiniteSet(b)
    PROVE  Overlap(a, b) \in Int
<1>1. PICK m \in Nat, n \in Nat, shared \in Nat :
          m = Cardinality(a) /\ n = Cardinality(b) /\ shared = Cardinality(a \cap b)
  BY SharedAre
<1> DEFINE Fits(r) == r * r * m * n <= 10000 * shared * shared
<1>2. PICK S : S = {r \in 0..100 : Fits(r)}
  OBVIOUS
<1>3. Fits(0)
  OBVIOUS
<1>4. S \in SUBSET Nat /\ S # {} /\ \A i \in S : i <= 100
  <2> HIDE DEF Fits
  <2> QED BY <1>2, <1>3
<1>5. Max(S) \in Nat
  BY <1>4, MaxIsIn
<1>6. Overlap(a, b) = IF a = {} \/ b = {} THEN 0 ELSE 10 * Max(S)
  BY <1>1, <1>2 DEF Overlap
<1> QED BY <1>5, <1>6

\* What a pack looks for.
IsAsked(asked) == IsFiniteSet(asked.words) /\ IsFiniteSet(asked.signals)

LEMMA ScoreIs ==
    ASSUME NEW asked, IsAsked(asked), NEW card, IsCard(card)
    PROVE  Score(asked, card) \in Int
<1>1. /\ card.symptom \in Seq(Texts) /\ card.next \in Seq(Texts) /\ card.target \in Seq(Texts)
      /\ card.signals \in Seq(Texts)
  BY DEF IsCard
<1>2. card.symptom \o card.next \o card.signals \in Seq(Texts)
      /\ card.symptom \o card.signals \o card.target \in Seq(Texts)
  BY <1>1
<1>3. IsFiniteSet(FullText(card)) /\ IsFiniteSet(Words(card.signals))
  BY <1>1, <1>2, WordsFinite DEF FullText
<1>4. IsFiniteSet(Keywords(card))
  <2>1. IsFiniteSet(Words(card.symptom \o card.signals \o card.target))
    BY <1>2, WordsFinite
  <2> QED BY <2>1, FS_Union DEF Keywords, IsCard
<1>5. Evidence_Score(card) \in Int
  <2>1. CASE card.n = 0
    BY <2>1 DEF Evidence_Score
  <2>2. CASE card.n # 0
    <3>1. PICK weight \in Nat : weight = SampleWeight[card.n]
      BY <2>2, PackAssumption DEF PackAssumption, IsCard, Sampled
    <3>2. (card.win_rate * SampleWeight[card.n]) \div 1000 = 0
      BY <3>1 DEF IsCard
    <3> QED BY <2>2, <3>2 DEF Evidence_Score, Smaller
  <2> QED BY <2>1, <2>2
<1>6. \A condition \in BOOLEAN : One(condition) \in Int
  BY DEF One
<1>7. /\ Jaccard(asked.words, FullText(card)) \in Int
      /\ Overlap(asked.words, Keywords(card)) \in Int
      /\ Jaccard(asked.signals, Words(card.signals)) \in Int
  BY <1>3, <1>4, JaccardIs, OverlapIs DEF IsAsked
<1>8. /\ One(asked.family \in card.families) \in Int
      /\ One(asked.embodiment \in card.embodiments) \in Int
      /\ One(Contraindicated(asked, card)) \in Int
  BY DEF One
<1> QED BY <1>5, <1>7, <1>8 DEF Score

LEMMA FirstOfIs ==
    ASSUME NEW T, NEW seq \in Seq(T), NEW m \in Nat
    PROVE  /\ FirstOf(seq, m) \in Seq(T) /\ Len(FirstOf(seq, m)) = Smaller(m, Len(seq))
           /\ Smaller(m, Len(seq)) \in Nat
           /\ Smaller(m, Len(seq)) <= m /\ Smaller(m, Len(seq)) <= Len(seq)
           /\ \A i \in 1..Smaller(m, Len(seq)) : FirstOf(seq, m)[i] = seq[i]
<1>1. PICK n \in Nat : n = Smaller(m, Len(seq)) /\ n <= Len(seq) /\ n <= m
  BY DEF Smaller
<1>2. /\ SubSeq(seq, 1, n) \in Seq(T) /\ Len(SubSeq(seq, 1, n)) = n
      /\ \A i \in 1..n : SubSeq(seq, 1, n)[i] = seq[i]
  BY <1>1
<1> QED BY <1>1, <1>2 DEF FirstOf

\* Before orders the cards, whatever their scores.
LEMMA BeforeOrders ==
    ASSUME NEW n \in Nat, NEW scores \in [1..n -> Int], NEW m \in 1..n
    PROVE  /\ AtPlace(scores, m) \in 1..n
           /\ \A l \in 1..n : l < m => scores[AtPlace(scores, l)] >= scores[AtPlace(scores, m)]
<1>1. PICK D : D = 1..n
  OBVIOUS
<1>2. IsFiniteSet(D) /\ Cardinality(D) = n /\ D = DOMAIN scores
  BY <1>1, FS_Interval
<1>3. PICK R : R = {p \in D \X D : Before(scores, p[1], p[2])}
  OBVIOUS
<1>4. \A i, j \in D : <<i, j>> \in R <=> Before(scores, i, j)
  BY <1>3
<1>5. LinearOn(R, D)
  <2>1. \A i \in D : i \in Int /\ scores[i] \in Int
    BY <1>1
  <2>2. \A i \in D : <<i, i>> \notin R
    BY <1>4, <2>1 DEF Before
  <2>3. \A i, j, k \in D : <<i, j>> \in R /\ <<j, k>> \in R => <<i, k>> \in R
    BY <1>4, <2>1 DEF Before
  <2>4. \A i, j \in D : i # j => <<i, j>> \in R \/ <<j, i>> \in R
    BY <1>4, <2>1 DEF Before
  <2> QED BY <2>2, <2>3, <2>4 DEF LinearOn
<1>6. \A i \in D : Cardinality(Preceding(R, D, i)) \in Nat
                   /\ PlaceOf(scores, i) = Cardinality(Preceding(R, D, i)) + 1
  <2> TAKE i \in D
  <2>1. Preceding(R, D, i) = {j \in DOMAIN scores : Before(scores, j, i)}
    BY <1>2, <1>4 DEF Preceding
  <2>2. Cardinality(Preceding(R, D, i)) \in 0..(n - 1)
    BY <1>2, <1>5, PlacesDiffer
  <2> QED BY <2>1, <2>2 DEF PlaceOf
<1>7. \A l \in 1..n : AtPlace(scores, l) \in D /\ Cardinality(Preceding(R, D, AtPlace(scores, l))) = l - 1
  <2> TAKE l \in 1..n
  <2>1. PICK i \in D : Cardinality(Preceding(R, D, i)) = l - 1
    <3>1. l \in 1..Cardinality(D)
      BY <1>2
    <3>2. IsFiniteSet(D)
      BY <1>2
    <3> QED BY <1>5, <3>1, <3>2, PlacesTaken
  <2>2. PlaceOf(scores, i) = l
    BY <1>6, <2>1
  <2>3. AtPlace(scores, l) \in D /\ PlaceOf(scores, AtPlace(scores, l)) = l
    BY <1>2, <2>2 DEF AtPlace
  <2> QED BY <1>6, <2>3
<1>8. ASSUME NEW l \in 1..n, l < m PROVE scores[AtPlace(scores, l)] >= scores[AtPlace(scores, m)]
  <2>1. PICK i \in D, j \in D : /\ i = AtPlace(scores, l) /\ Cardinality(Preceding(R, D, i)) = l - 1
                               /\ j = AtPlace(scores, m) /\ Cardinality(Preceding(R, D, j)) = m - 1
    BY <1>7
  <2>2. <<j, i>> \notin R
    <3>1. <<j, i>> \in R => Cardinality(Preceding(R, D, j)) < Cardinality(Preceding(R, D, i))
      BY <1>2, <1>5, PlacesDiffer
    <3> QED BY <1>8, <2>1, <3>1
  <2>3. scores[i] \in Int /\ scores[j] \in Int
    BY <1>1
  <2>4. scores[i] >= scores[j]
    BY <1>4, <2>2, <2>3 DEF Before
  <2> QED BY <2>1, <2>4
<1> QED BY <1>1, <1>7, <1>8

\* The best cards: as many as asked for, or all; they are cards, and the better
\* ones come first.
Ranked(picks, cards, k) ==
    /\ picks \in Seq(ToSet(picks)) /\ Len(picks) = Smaller(k, Len(cards))
    /\ \A i \in DOMAIN picks : \E j \in DOMAIN cards : picks[i].card = cards[j]
    /\ \A i \in DOMAIN picks : picks[i].score \in Int
    /\ \A i, j \in DOMAIN picks : i < j => picks[i].score >= picks[j].score

LEMMA TopCardsRanked ==
    ASSUME NEW asked, IsAsked(asked), NEW cards, cards \in Seq(ToSet(cards)),
           \A i \in DOMAIN cards : IsCard(cards[i]), NEW k \in Nat
    PROVE  Ranked(TopCards(asked, cards, k), cards, k)
<1>1. PICK n \in Nat : n = Len(cards) /\ DOMAIN cards = 1..n
  OBVIOUS
<1>2. PICK kept : kept = {i \in DOMAIN cards : cards[i].priority # -1}
  OBVIOUS
<1>3. kept = 1..n
  BY <1>1, <1>2 DEF IsCard
<1>4. Cardinality(kept) = n
  BY <1>3, FS_Interval
<1>5. PICK scores : scores = [i \in kept |-> Score(asked, cards[i])]
  OBVIOUS
<1>6. scores \in [1..n -> Int]
  BY <1>1, <1>3, <1>5, ScoreIs
<1>7. PICK best : best = [m \in 1..n |-> [card |-> cards[AtPlace(scores, m)],
                                         score |-> scores[AtPlace(scores, m)]]]
  OBVIOUS
<1>8. TopCards(asked, cards, k) = FirstOf(best, k)
  BY <1>2, <1>4, <1>5, <1>7 DEF TopCards
<1>9. best \in Seq(ToSet(best)) /\ Len(best) = n
  <2>1. \A m \in 1..n : best[m] \in ToSet(best)
    BY <1>7 DEF ToSet
  <2>2. best \in [1..n -> ToSet(best)]
    BY <1>7, <2>1
  <2> QED BY <2>2
<1>10. PICK picks : picks = FirstOf(best, k)
  OBVIOUS
<1>11. PICK l \in Nat : /\ l = Smaller(k, n) /\ l <= n /\ Len(picks) = l /\ picks \in Seq(ToSet(best))
                        /\ \A i \in 1..l : picks[i] = best[i]
  BY <1>9, <1>10, FirstOfIs
<1>12. DOMAIN picks = 1..l /\ picks \in Seq(ToSet(picks))
  <2>1. DOMAIN picks = 1..l
    BY <1>11
  <2>2. \A i \in 1..l : picks[i] \in ToSet(picks)
    BY <2>1 DEF ToSet
  <2>3. picks \in [1..l -> ToSet(picks)]
    BY <1>11, <2>1, <2>2
  <2> QED BY <2>1, <2>3
<1>13. \A i \in 1..l : i \in 1..n /\ AtPlace(scores, i) \in 1..n
                       /\ picks[i].card = cards[AtPlace(scores, i)]
                       /\ picks[i].score = scores[AtPlace(scores, i)]
  <2> TAKE i \in 1..l
  <2>1. i \in 1..n
    BY <1>11
  <2>2. AtPlace(scores, i) \in 1..n
    BY <1>6, <2>1, BeforeOrders
  <2>3. best[i] = [card |-> cards[AtPlace(scores, i)], score |-> scores[AtPlace(scores, i)]]
    BY <1>7, <2>1
  <2>4. picks[i] = best[i]
    BY <1>11
  <2>5. best[i].card = cards[AtPlace(scores, i)] /\ best[i].score = scores[AtPlace(scores, i)]
    BY <2>3
  <2> QED BY <2>1, <2>2, <2>4, <2>5
<1>14. \A i, j \in 1..l : i < j => picks[i].score >= picks[j].score
  BY <1>6, <1>13, BeforeOrders
<1> QED BY <1>1, <1>6, <1>8, <1>10, <1>11, <1>12, <1>13, <1>14, ZenonT(40) DEF Ranked

-----------------------------------------------------------------------------
(* The answers are in order.                                                *)

LEMMA MinIsIn ==
    ASSUME NEW S \in SUBSET Nat, S # {}
    PROVE  Min(S) \in S
<1>1. PICK n \in S : \A m \in S : ~(m < n)
  BY LeastNat
<1>2. \A m \in S : n <= m
  BY <1>1
<1> QED BY <1>1, <1>2 DEF Min

LEMMA MatchedIs ==
    ASSUME NEW query, NEW tasks, tasks \in Seq(ToSet(tasks)), MatchedCards(query, tasks) # << >>
    PROVE  \E i \in DOMAIN tasks : MatchedCards(query, tasks)[1] = tasks[i]
<1>1. PICK ways : ways = {w \in 1..5 : \E i \in DOMAIN tasks : Matches(query, tasks[i], w)}
  OBVIOUS
<1>2. ways # {}
  BY <1>1 DEF MatchedCards
<1>3. Min(ways) \in ways
  <2>1. ways \in SUBSET Nat
    BY <1>1
  <2> QED BY <1>2, <2>1, MinIsIn
<1>4. PICK found : found = {i \in DOMAIN tasks : Matches(query, tasks[i], Min(ways))}
  OBVIOUS
<1>5. Min(found) \in DOMAIN tasks
  <2>1. found \in SUBSET Nat /\ found # {}
    BY <1>1, <1>3, <1>4
  <2> QED BY <1>4, <2>1, MinIsIn
<1>6. MatchedCards(query, tasks) = <<tasks[Min(found)]>>
  BY <1>1, <1>2, <1>4 DEF MatchedCards
<1> QED BY <1>5, <1>6

LEMMA KnownIs ==
    ASSUME NEW task, IsTask(task), NEW failures \in Taxonomies, NEW field \in {"signals", "contra"}
    PROVE  KnownFailures(task, failures, field) \in Seq(Texts)
<1>1. PICK n \in Nat : DOMAIN task.failures = 1..n
  BY DEF IsTask
<1>2. PICK ss : ss = [i \in DOMAIN task.failures |->
                        Only(task.failures[i] \in IdsOf(failures),
                             WithId(failures, task.failures[i])[field])]
  OBVIOUS
<1>3. \A i \in DOMAIN task.failures : ss[i] \in Seq(Texts)
  <2> TAKE i \in DOMAIN task.failures
  <2>1. CASE task.failures[i] \in IdsOf(failures)
    <3>1. PICK f : f = WithId(failures, task.failures[i])
      OBVIOUS
    <3>2. f.signals \in Seq(Texts) /\ f.contra \in Seq(Texts)
      BY <2>1, <3>1, FailuresKnown DEF IsFailure
    <3>3. ss[i] = f[field]
      BY <1>2, <2>1, <3>1 DEF Only
    <3> QED BY <3>2, <3>3
  <2>2. CASE task.failures[i] \notin IdsOf(failures)
    BY <1>2, <2>2 DEF Only
  <2> QED BY <2>1, <2>2
<1>4. ss \in Seq(Seq(Texts))
  <2>1. ss \in [1..n -> Seq(Texts)]
    BY <1>1, <1>2, <1>3, Zenon
  <2> QED BY <2>1
<1>5. KnownFailures(task, failures, field) = FlattenSeq(ss)
  BY <1>2, Zenon DEF KnownFailures
<1> QED BY <1>4, <1>5, FlattenIs

LEMMA RecommendedIs ==
    ASSUME NEW query, query.k \in Nat, NEW task, IsTask(task), NEW failures \in Taxonomies,
           NEW cards, cards \in Seq(ToSet(cards)), \A i \in DOMAIN cards : IsCard(cards[i])
    PROVE  Ranked(Recommended(query, task, cards, failures), cards, query.k)
<1>1. PICK seen \in Seq(Texts) : seen = KnownFailures(task, failures, "signals")
  BY KnownIs
<1>2. PICK asked : asked = [words |-> Words(<<task.about, task.baseline>> \o seen) \cup {task.family},
                  family |-> task.family,
                  embodiment |-> IF task.family \in DOMAIN HintOfFamily
                                 THEN HintOfFamily[task.family] ELSE "",
                  signals |-> Words(FirstOf(seen, 5)), avoid |-> {}]
  OBVIOUS
<1>3. Recommended(query, task, cards, failures) = TopCards(asked, cards, query.k)
  BY <1>1, <1>2 DEF Recommended
<1>4. IsAsked(asked)
  <2>1. <<task.about, task.baseline>> \o seen \in Seq(Texts)
    <3>1. <<task.about, task.baseline>> \in Seq(Texts)
      BY DEF IsTask
    <3> QED BY <3>1
  <2>2. IsFiniteSet(Words(<<task.about, task.baseline>> \o seen) \cup {task.family})
    BY <2>1, WordsFinite, FS_Singleton, FS_Union
  <2>3. IsFiniteSet(Words(FirstOf(seen, 5)))
    BY FirstOfIs, WordsFinite
  <2>4. asked.words = Words(<<task.about, task.baseline>> \o seen) \cup {task.family}
        /\ asked.signals = Words(FirstOf(seen, 5))
    BY <1>2
  <2> QED BY <2>2, <2>3, <2>4 DEF IsAsked
<1> QED BY <1>3, <1>4, TopCardsRanked

\* A plan names the picks in their order; its lines share out the budget.
SharedOut(plan, budget) ==
    /\ plan[1].from = 1 /\ plan[Len(plan)].to = budget
    /\ \A i \in DOMAIN plan : /\ plan[i].from <= plan[i].to
                              /\ i > 1 => plan[i].from = plan[i - 1].to + 1

LEMMA PlanIs ==
    ASSUME NEW query, query.budget \in Nat \ {0}, NEW picks, picks \in Seq(ToSet(picks))
    PROVE  /\ Plan(query, picks) \in Seq(ToSet(Plan(query, picks)))
           /\ Len(Plan(query, picks)) = Len(picks) + 1
           /\ \A i \in DOMAIN picks : Plan(query, picks)[i + 1].pattern = picks[i].card.id
           /\ picks # << >> /\ query.budget > Len(picks) => SharedOut(Plan(query, picks), query.budget)
<1>1. PICK n \in Nat, budget \in Nat \ {0} : n = Len(picks) /\ DOMAIN picks = 1..n /\ budget = query.budget
  OBVIOUS
<1>2. CASE picks = << >>
  <2>1. PICK plan : plan = Plan(query, picks)
    OBVIOUS
  <2>2. PICK line : plan = <<line>>
    BY <1>2, <2>1 DEF Plan
  <2>3. plan \in Seq(ToSet(plan)) /\ Len(plan) = 1
    <3>1. line \in ToSet(plan) /\ Len(plan) = 1
      BY <2>2 DEF ToSet
    <3>2. <<line>> \in Seq(ToSet(plan))
      BY <3>1
    <3> QED BY <2>2, <3>1, <3>2
  <2>4. n = 0
    BY <1>1, <1>2
  <2> QED BY <1>1, <1>2, <2>1, <2>3, <2>4
<1>3. CASE picks # << >>
  <2>1. n >= 1
    BY <1>1, <1>3
  <2>2. PICK band : band = Max({1, budget \div (n + 1)})
    OBVIOUS
  <2> DEFINE Action(card) == IF LeadOf[card.next[1]] > 0 THEN LeadOf[card.next[1]]
                             ELSE IF LeadOf[card.symptom[1]] > 0 THEN LeadOf[card.symptom[1]]
                             ELSE 3
             Line(from, to, id, size) == [from |-> from, to |-> to, pattern |-> id, size |-> size]
  <2>3. PICK rest : rest = [i \in DOMAIN picks |->
            Line(i * band + 1, IF i = n THEN budget ELSE (i + 1) * band,
                 picks[i].card.id, 5 + Action(picks[i].card))]
    OBVIOUS
  <2>4. Plan(query, picks) = <<Line(1, band, "", 14)>> \o rest
    BY <1>1, <1>3, <2>2, <2>3 DEF Plan
  <2>5. /\ DOMAIN rest = 1..n
        /\ \A i \in 1..n : /\ rest[i].from = i * band + 1
                           /\ rest[i].to = IF i = n THEN budget ELSE (i + 1) * band
                           /\ rest[i].pattern = picks[i].card.id
    <3> HIDE DEF Action
    <3> QED BY <1>1, <2>3
  <2>6. PICK head : head = Line(1, band, "", 14)
    OBVIOUS
  <2>7. head.from = 1 /\ head.to = band
    BY <2>6
  <2> HIDE DEF Action, Line
  <2>8. PICK plan : plan = <<head>> \o rest
    OBVIOUS
  <2>9. /\ plan \in Seq(ToSet(plan)) /\ Len(plan) = n + 1 /\ DOMAIN plan = 1..(n + 1)
        /\ plan[1] = head /\ \A i \in 1..n : plan[i + 1] = rest[i]
    <3>1. rest \in Seq(ToSet(rest)) /\ Len(rest) = n
      <4>1. \A i \in 1..n : rest[i] \in ToSet(rest)
        BY <2>5 DEF ToSet
      <4>2. rest = [i \in 1..n |-> rest[i]]
        BY <2>3, <2>5
      <4>3. rest \in [1..n -> ToSet(rest)]
        BY <4>1, <4>2
      <4> QED BY <4>3
    <3>2. PICK S : S = ToSet(rest) \cup {head}
      OBVIOUS
    <3>3. <<head>> \in Seq(S) /\ rest \in Seq(S)
      BY <3>1, <3>2
    <3>4. plan \in Seq(S) /\ Len(plan) = n + 1 /\ plan[1] = head /\ \A i \in 1..n : plan[i + 1] = rest[i]
      BY <2>8, <3>1, <3>3
    <3>5. DOMAIN plan = 1..(n + 1)
      BY <3>4
    <3>6. \A i \in 1..(n + 1) : plan[i] \in ToSet(plan)
      BY <3>5 DEF ToSet
    <3>7. plan \in [1..(n + 1) -> ToSet(plan)]
      BY <3>4, <3>5, <3>6
    <3> QED BY <3>4, <3>5, <3>7
  <2>10. ASSUME budget > n PROVE SharedOut(plan, budget)
    <3>1. PICK each \in Nat : each = budget \div (n + 1) /\ each >= 1 /\ (n + 1) * each <= budget
      <4>1. budget \div (n + 1) \in Nat /\ budget \div (n + 1) >= 1
        BY <2>10
      <4>2. (n + 1) * (budget \div (n + 1)) <= budget
        OBVIOUS
      <4> QED BY <4>1, <4>2
    <3>2. band = each
      <4>1. \A x \in {1, each} : each >= x
        BY <3>1
      <4>2. \A x \in {1, each} : (\A y \in {1, each} : x >= y) => x = each
        BY <3>1
      <4>3. Max({1, each}) = each
        BY <4>1, <4>2 DEF Max
      <4> QED BY <2>2, <3>1, <4>3
    <3>3. ASSUME NEW i \in 1..n PROVE i * band \in Nat /\ (i + 1) * band = i * band + band
      BY <3>1, <3>2
    <3>4. n * band + 1 <= budget
      <4>1. (n + 1) * each = n * each + each
        BY <3>1
      <4> QED BY <3>1, <3>2, <4>1
    <3>5. plan[1].from = 1 /\ plan[Len(plan)].to = budget
      <4>1. plan[n + 1] = rest[n] /\ rest[n].to = budget
        BY <2>1, <2>5, <2>9
      <4> QED BY <2>7, <2>9, <4>1
    <3>6. ASSUME NEW i \in DOMAIN plan
          PROVE  plan[i].from <= plan[i].to /\ (i > 1 => plan[i].from = plan[i - 1].to + 1)
      <4>1. CASE i = 1
        BY <2>7, <2>9, <3>1, <3>2, <4>1
      <4>2. CASE i # 1
        <5>1. PICK j \in 1..n : i = j + 1
          <6>1. i - 1 \in 1..n /\ i = (i - 1) + 1
            BY <2>9, <4>2
          <6> QED BY <6>1
        <5>2. plan[i] = rest[j] /\ i - 1 = j
          BY <2>9, <5>1
        <5>3. rest[j].from = j * band + 1 /\ rest[j].to = IF j = n THEN budget ELSE (j + 1) * band
          BY <2>5
        <5>4. plan[i].from <= plan[i].to
          BY <3>1, <3>2, <3>3, <3>4, <5>2, <5>3
        <5>5. CASE j = 1
          <6>1. plan[i - 1].to = band /\ 1 * band = band
            BY <2>7, <2>9, <3>1, <3>2, <5>2, <5>5
          <6> QED BY <5>2, <5>3, <5>4, <5>5, <6>1
        <5>6. CASE j # 1
          <6>1. PICK l \in 1..n : j = l + 1 /\ l # n
            <7>1. j - 1 \in 1..n /\ j = (j - 1) + 1 /\ j - 1 # n
              BY <5>6
            <7> QED BY <7>1
          <6>2. plan[i - 1] = rest[l] /\ rest[l].to = j * band
            BY <2>5, <2>9, <5>2, <6>1
          <6> QED BY <5>2, <5>3, <5>4, <6>2
        <5> QED BY <5>5, <5>6
      <4> QED BY <4>1, <4>2
    <3> QED BY <3>5, <3>6 DEF SharedOut
  <2>11. \A i \in DOMAIN picks : plan[i + 1].pattern = picks[i].card.id
    BY <1>1, <2>5, <2>9
  <2>12. Plan(query, picks) = plan
    BY <2>4, <2>6, <2>8
  <2> QED BY <1>1, <2>9, <2>10, <2>11, <2>12
<1> QED BY <1>2, <1>3

\* a is how b begins.
Begins(a, b) ==
    /\ a \in Seq(ToSet(b)) /\ b \in Seq(ToSet(b))
    /\ Len(a) <= Len(b)
    /\ \A i \in DOMAIN a : a[i] = b[i]

LEMMA BeginningIs ==
    ASSUME NEW a, NEW b, Begins(a, b), NEW m \in Nat
    PROVE  /\ Begins(FirstOf(a, m), b) /\ Len(FirstOf(a, m)) <= m
           /\ a = FirstOf(b, Len(a))
<1>1. PICK T : T = ToSet(b)
  OBVIOUS
<1>2. a \in Seq(T) /\ b \in Seq(T)
  BY <1>1 DEF Begins
<1>3. PICK l \in Nat, n \in Nat : l = Len(a) /\ DOMAIN a = 1..l /\ n = Len(b) /\ DOMAIN b = 1..n /\ l <= n
  BY <1>2 DEF Begins
<1>4. PICK c \in Seq(T) : c = FirstOf(a, m)
  BY <1>2, FirstOfIs
<1>5. PICK k \in Nat : k = Len(c) /\ k <= m /\ k <= l /\ \A i \in 1..k : c[i] = a[i]
  BY <1>2, <1>3, <1>4, FirstOfIs
<1>6. DOMAIN c = 1..k /\ \A i \in 1..k : i \in 1..l
  BY <1>3, <1>5
<1>7. Begins(c, b)
  BY <1>1, <1>2, <1>3, <1>5, <1>6 DEF Begins
<1>8. a = FirstOf(b, l)
  <2>1. PICK d \in Seq(T) : d = FirstOf(b, l)
    BY <1>2, FirstOfIs
  <2>2. Len(d) = l /\ \A i \in 1..l : d[i] = b[i]
    <3>1. Smaller(l, n) = l
      BY <1>3 DEF Smaller
    <3>2. Smaller(l, Len(b)) = l
      BY <1>3, <3>1
    <3>3. Len(FirstOf(b, l)) = l /\ \A i \in 1..l : FirstOf(b, l)[i] = b[i]
      BY <1>2, <3>2, FirstOfIs
    <3> QED BY <2>1, <3>3
  <2>3. \A i \in 1..l : d[i] = a[i]
    BY <1>3, <2>2 DEF Begins
  <2>4. DOMAIN d = 1..l
    BY <2>2
  <2>5. d = a
    BY <1>2, <1>3, <2>2, <2>3, <2>4
  <2> QED BY <2>1, <2>5
<1> QED BY <1>3, <1>4, <1>5, <1>7, <1>8

\* What is left of a pack is how its plan and its patterns begin.
LEMMA TrimmedIs ==
    ASSUME NEW pack, pack = [task |-> pack.task, summary |-> pack.summary, hard |-> pack.hard,
                             recommended |-> pack.recommended, plan |-> pack.plan,
                             anti |-> pack.anti, signals |-> pack.signals],
           pack.recommended \in Seq(ToSet(pack.recommended)), pack.plan \in Seq(ToSet(pack.plan)), NEW max
    PROVE  /\ Begins(Trimmed(pack, max).recommended, pack.recommended)
           /\ Begins(Trimmed(pack, max).plan, pack.plan)
           /\ \/ SizeOfPack(Trimmed(pack, max)) <= max
              \/ Len(Trimmed(pack, max).plan) <= 3 /\ Len(Trimmed(pack, max).recommended) <= 3
<1>1. PICK m \in Nat : m = Max({3, Len(pack.recommended) \div 2})
  <2>1. PICK half \in Nat : half = Len(pack.recommended) \div 2
    OBVIOUS
  <2>2. {3, half} \in SUBSET Nat /\ {3, half} # {} /\ \A i \in {3, half} : i <= 3 + half
    BY <2>1
  <2>3. Max({3, half}) \in {3, half}
    <3>1. PICK S : S = {3, half}
      OBVIOUS
    <3>2. S \in SUBSET Nat /\ S # {} /\ \A i \in S : i <= 3 + half
      BY <2>2, <3>1
    <3>3. Max(S) \in S
      BY <2>1, <3>2, MaxIsIn
    <3> QED BY <3>1, <3>3
  <2>4. Max({3, half}) \in Nat
    BY <2>1, <2>3
  <2> QED BY <2>1, <2>4
<1>2. PICK less : less = CutTo(pack, 6, 4, 5, 6, m)
  OBVIOUS
<1>3. PICK least : least = CutTo(less, 3, 3, 5, 3, 3)
  OBVIOUS
<1>4. /\ less.plan = FirstOf(pack.plan, 6) /\ less.recommended = FirstOf(pack.recommended, m)
      /\ least.plan = FirstOf(less.plan, 3) /\ least.recommended = FirstOf(less.recommended, 3)
  <2>1. PICK id, text, hard, recommended, plan, anti, signals :
            pack = [task |-> id, summary |-> text, hard |-> hard, recommended |-> recommended,
                    plan |-> plan, anti |-> anti, signals |-> signals]
    OBVIOUS
  <2>2. less = [task |-> id, summary |-> text, hard |-> FirstOf(hard, 5),
                recommended |-> FirstOf(recommended, m), plan |-> FirstOf(plan, 6),
                anti |-> FirstOf(anti, 6), signals |-> FirstOf(signals, 4)]
    BY <1>2, <2>1 DEF CutTo
  <2>3. least.plan = FirstOf(less.plan, 3) /\ least.recommended = FirstOf(less.recommended, 3)
    BY <1>3, <2>2 DEF CutTo
  <2> QED BY <2>1, <2>2, <2>3
<1>5. Begins(pack.plan, pack.plan) /\ Begins(pack.recommended, pack.recommended)
  BY DEF Begins
<1>6. Begins(less.plan, pack.plan) /\ Begins(less.recommended, pack.recommended)
  BY <1>4, <1>5, BeginningIs
<1>7. /\ Begins(least.plan, pack.plan) /\ Begins(least.recommended, pack.recommended)
      /\ Len(least.plan) <= 3 /\ Len(least.recommended) <= 3
  BY <1>4, <1>6, BeginningIs
<1>8. Trimmed(pack, max) = IF SizeOfPack(pack) <= max THEN pack
                           ELSE IF SizeOfPack(less) <= max THEN less ELSE least
  BY <1>1, <1>2, <1>3 DEF Trimmed
<1> QED BY <1>5, <1>6, <1>7, <1>8

\* What a pack is made of, before it is cut.
MadeOf(answer, picks, task) ==
    /\ answer.whole.task = task.id
    /\ answer.whole.recommended \in Seq(ToSet(answer.whole.recommended))
    /\ Len(answer.whole.recommended) = Len(picks)
    /\ \A i \in DOMAIN picks : /\ answer.whole.recommended[i].pattern = picks[i].card.id
                               /\ answer.whole.recommended[i].score = picks[i].score
    /\ answer.whole.plan = Plan(answer.query, picks)
    /\ answer.whole.anti = Warnings(picks, task, answer.assets.failures)
    /\ Begins(answer.pack.recommended, answer.whole.recommended)
    /\ Begins(answer.pack.plan, answer.whole.plan)
    /\ WithinBudget(answer)

LEMMA AnswersAre ==
    ASSUME NEW answer \in Answers
    PROVE  /\ answer.query \in Queries
           /\ answer.assets.patterns # NoManifest
           /\ answer.assets.failures \in Taxonomies
           /\ \E candidates \in Candidates, failures \in Taxonomies :
                 answer.assets.patterns = CardsOf(candidates, failures)
           /\ \E picks, task : /\ IsTask(task)
                               /\ Ranked(picks, answer.assets.patterns, answer.query.k)
                               /\ MadeOf(answer, picks, task)
<1>1. PICK query \in Queries, assets \in Loadable : answer \in ToSet(Answer_To(query, assets))
  BY DEF Answers
<1>2. /\ assets.failures \in Taxonomies /\ assets.tasks \in Catalogs
      /\ \E candidates \in Candidates, failures \in Taxonomies : assets.patterns = CardsOf(candidates, failures)
  BY DEF Loadable, Taxonomies, Catalogs, Candidates
<1>3. PICK found : found = MatchedCards(query, assets.tasks)
  OBVIOUS
<1>4. PICK whole, pack : whole = Untrimmed(query, found[1], assets) /\ pack = PackOf(query, found[1], assets)
  OBVIOUS
<1>5. /\ assets.patterns # NoManifest /\ found # << >>
      /\ answer = [query |-> query, assets |-> assets, pack |-> pack, whole |-> whole]
  <2>1. assets.patterns = NoManifest \/ found = << >> => ToSet(Answer_To(query, assets)) = {}
    BY <1>3 DEF Answer_To, ToSet
  <2>2. PICK made : made = [query |-> query, assets |-> assets, pack |-> pack, whole |-> whole]
    OBVIOUS
  <2>3. assets.patterns # NoManifest /\ found # << >> => Answer_To(query, assets) = <<made>>
    BY <1>3, <1>4, <2>2, Zenon DEF Answer_To
  <2>4. ToSet(<<made>>) = {made}
    BY DEF ToSet
  <2> QED BY <1>1, <2>1, <2>2, <2>3, <2>4
<1>6. PICK task : task = found[1] /\ IsTask(task)
  <2>1. /\ assets.tasks \in Seq(ToSet(assets.tasks))
        /\ \A i \in DOMAIN assets.tasks : IsTask(assets.tasks[i])
    BY <1>2, SchemaAssumption DEF SchemaAssumption, Catalogs, Assets
  <2> QED BY <1>3, <1>5, <2>1, MatchedIs
<1>7. PICK cards : /\ cards = assets.patterns /\ cards \in Seq(ToSet(cards))
                   /\ \A i \in DOMAIN cards : IsCard(cards[i])
  BY <1>2, CardsAre
<1>8. PICK picks : picks = Recommended(query, task, cards, assets.failures)
  OBVIOUS
<1>9. query.k \in Nat \ {0} /\ query.budget \in Nat \ {0}
  BY PackAssumption DEF PackAssumption
<1>10. Ranked(picks, cards, query.k)
  BY <1>2, <1>6, <1>7, <1>8, <1>9, RecommendedIs
<1>11. PICK plan : plan = Plan(query, picks) /\ plan \in Seq(ToSet(plan))
  BY <1>9, <1>10, PlanIs DEF Ranked
<1>12. PICK recommended : recommended = [i \in DOMAIN picks |-> Reference(picks[i], task.family)]
  OBVIOUS
<1>13. /\ recommended \in Seq(ToSet(recommended)) /\ Len(recommended) = Len(picks)
       /\ \A i \in DOMAIN picks : /\ recommended[i].pattern = picks[i].card.id
                                  /\ recommended[i].score = picks[i].score
  <2>1. PICK n \in Nat : n = Len(picks) /\ DOMAIN picks = 1..n
    BY <1>10 DEF Ranked
  <2>2. \A i \in 1..n : /\ recommended[i] = Reference(picks[i], task.family)
                        /\ recommended[i] \in ToSet(recommended)
    BY <1>12, <2>1 DEF ToSet
  <2>3. recommended \in [1..n -> ToSet(recommended)]
    BY <1>12, <2>1, <2>2
  <2>4. \A i \in 1..n : recommended[i].pattern = picks[i].card.id /\ recommended[i].score = picks[i].score
    <3> TAKE i \in 1..n
    <3>1. PICK pick : pick = picks[i]
      OBVIOUS
    <3>2. Reference(pick, task.family).pattern = pick.card.id /\ Reference(pick, task.family).score = pick.score
      BY DEF Reference
    <3> QED BY <2>2, <3>1, <3>2
  <2> QED BY <2>1, <2>3, <2>4
<1>14. /\ whole.task = task.id /\ whole.recommended = recommended /\ whole.plan = plan
       /\ whole.anti = Warnings(picks, task, assets.failures)
       /\ whole = [task |-> whole.task, summary |-> whole.summary, hard |-> whole.hard,
                   recommended |-> whole.recommended, plan |-> whole.plan,
                   anti |-> whole.anti, signals |-> whole.signals]
  BY <1>4, <1>6, <1>7, <1>8, <1>11, <1>12 DEF Untrimmed
<1>15. pack = Trimmed(whole, query.max)
  BY <1>4 DEF PackOf
<1>16. /\ Begins(pack.recommended, whole.recommended) /\ Begins(pack.plan, whole.plan)
       /\ \/ SizeOfPack(pack) <= query.max
          \/ Len(pack.plan) <= 3 /\ Len(pack.recommended) <= 3
  BY <1>11, <1>13, <1>14, <1>15, TrimmedIs
<1>17. answer.query = query /\ answer.assets = assets /\ answer.pack = pack /\ answer.whole = whole
  BY <1>5
<1>18. MadeOf(answer, picks, task)
  BY <1>11, <1>13, <1>14, <1>16, <1>17 DEF MadeOf, WithinBudget
<1> QED BY <1>2, <1>5, <1>6, <1>7, <1>10, <1>17, <1>18

LEMMA AnswersInOrder ==
    ASSUME NEW answer \in Answers
    PROVE  PlanIsOfPatterns(answer) /\ BestComeFirst(answer) /\ WithinBudget(answer)
<1>1. PICK picks, task : Ranked(picks, answer.assets.patterns, answer.query.k) /\ MadeOf(answer, picks, task)
  BY AnswersAre
<1>2. answer.query.k \in Nat \ {0} /\ answer.query.budget \in Nat \ {0}
  BY AnswersAre, PackAssumption DEF PackAssumption
<1>3. PICK best, plan, left, kept :
          /\ best = answer.whole.recommended /\ plan = answer.whole.plan
          /\ left = answer.pack.recommended /\ kept = answer.pack.plan
  OBVIOUS
<1>4. PICK n \in Nat : n = Len(picks) /\ DOMAIN picks = 1..n
  BY <1>1 DEF Ranked
<1>5. /\ best \in Seq(ToSet(best)) /\ Len(best) = n /\ DOMAIN best = 1..n
      /\ \A i \in 1..n : best[i].pattern = picks[i].card.id /\ best[i].score = picks[i].score
  BY <1>1, <1>3, <1>4 DEF MadeOf
<1>6. /\ plan = Plan(answer.query, picks) /\ Len(plan) = n + 1
      /\ \A i \in 1..n : plan[i + 1].pattern = picks[i].card.id
      /\ picks # << >> /\ answer.query.budget > n => SharedOut(plan, answer.query.budget)
  <2>1. plan = Plan(answer.query, picks)
    BY <1>1, <1>3 DEF MadeOf
  <2>2. picks \in Seq(ToSet(picks))
    BY <1>1 DEF Ranked
  <2>3. /\ Len(Plan(answer.query, picks)) = Len(picks) + 1
        /\ \A i \in DOMAIN picks : Plan(answer.query, picks)[i + 1].pattern = picks[i].card.id
        /\ picks # << >> /\ answer.query.budget > Len(picks) =>
              SharedOut(Plan(answer.query, picks), answer.query.budget)
    BY <1>2, <2>2, PlanIs, Zenon
  <2> QED BY <1>4, <2>1, <2>3
<1>7. Begins(left, best) /\ Begins(kept, plan) /\ WithinBudget(answer)
  BY <1>1, <1>3 DEF MadeOf
<1>8. PlanIsOfPatterns(answer)
  <2>1. ASSUME NEW i \in DOMAIN left, i + 1 \in DOMAIN kept PROVE kept[i + 1].pattern = left[i].pattern
    <3>1. i \in 1..n /\ left[i] = best[i] /\ kept[i + 1] = plan[i + 1]
      <4>1. left \in Seq(ToSet(best)) /\ Len(left) <= n
        BY <1>5, <1>7 DEF Begins
      <4> QED BY <1>7, <2>1, <4>1 DEF Begins
    <3> QED BY <1>5, <1>6, <3>1
  <2>2. ASSUME answer.query.budget > Len(best), best # << >>
        PROVE  SharedOut(plan, answer.query.budget)
    <3>1. picks # << >>
      BY <1>4, <1>5, <2>2
    <3> QED BY <1>5, <1>6, <2>2, <3>1
  <2> QED BY <1>3, <2>1, <2>2 DEF PlanIsOfPatterns, SharedOut, Last
<1>9. BestComeFirst(answer)
  <2>1. Len(best) = Smaller(answer.query.k, Len(answer.assets.patterns))
    BY <1>1, <1>4, <1>5 DEF Ranked
  <2>2. \A i, j \in DOMAIN best : i < j => best[i].score >= best[j].score
    BY <1>1, <1>4, <1>5 DEF Ranked
  <2>3. left = FirstOf(best, Len(left))
    BY <1>7, BeginningIs
  <2> QED BY <1>3, <2>1, <2>2, <2>3 DEF BestComeFirst
<1> QED BY <1>7, <1>8, <1>9

LEMMA PacksInOrder == PacksAreInOrder
<1>1. OutOfOrder = {}
  BY AnswersInOrder DEF OutOfOrder
<1> QED BY <1>1 DEF PacksAreInOrder

\* A pack warns of all its patterns warn of.
LEMMA WarningsTold ==
    ASSUME NEW cards, \A i \in DOMAIN cards : IsCard(cards[i]), NEW k, NEW picks, Ranked(picks, cards, k),
           NEW task, IsTask(task), NEW failures \in Taxonomies, NEW i \in DOMAIN picks
    PROVE  ToSet(picks[i].card.contra) \cup ToSet(picks[i].card.anti)
              \subseteq ToSet(Warnings(picks, task, failures))
<1>1. PICK n \in Nat : DOMAIN picks = 1..n
  BY DEF Ranked
<1>2. \A j \in 1..n : picks[j].card.contra \in Seq(Texts) /\ picks[j].card.anti \in Seq(Texts)
  BY <1>1 DEF Ranked, IsCard
<1>3. PICK ss : ss = [j \in DOMAIN picks |-> picks[j].card.contra \o picks[j].card.anti]
  OBVIOUS
<1>4. \A j \in 1..n : ss[j] \in Seq(Texts) /\ ToSet(ss[j]) = ToSet(picks[j].card.contra) \cup ToSet(picks[j].card.anti)
  BY <1>1, <1>2, <1>3, JoinIs
<1>5. ss \in Seq(Seq(Texts)) /\ DOMAIN ss = 1..n
  <2>1. ss \in [1..n -> Seq(Texts)]
    BY <1>1, <1>3, <1>4, Zenon
  <2> QED BY <2>1
<1>6. PICK told \in Seq(Texts), known \in Seq(Texts) :
          told = FlattenSeq(ss) /\ known = KnownFailures(task, failures, "contra")
  BY <1>5, FlattenIs, KnownIs
<1>7. ToSet(ss[i]) \subseteq ToSet(told)
  <2>1. ToSet(told) = UNION {ToSet(ss[j]) : j \in DOMAIN ss}
    BY <1>5, <1>6, FlattenIs
  <2> QED BY <1>1, <1>5, <2>1
<1>8. Warnings(picks, task, failures) = Distinct(told \o known)
  BY <1>3, <1>6, Zenon DEF Warnings
<1>9. ToSet(Distinct(told \o known)) = ToSet(told) \cup ToSet(known)
  <2>1. PICK both \in Seq(Texts) : both = told \o known
    BY JoinIs
  <2>2. ToSet(Distinct(both)) = ToSet(both)
    BY DistinctIs
  <2>3. ToSet(told \o known) = ToSet(told) \cup ToSet(known)
    BY JoinIs
  <2> QED BY <2>1, <2>2, <2>3
<1> QED BY <1>1, <1>4, <1>7, <1>8, <1>9

-----------------------------------------------------------------------------
(* The graph a run wires.                                                   *)

LEMMA FailureIdsKnown ==
    ASSUME NEW candidate, NEW known
    PROVE  FailureIds(candidate, known) \subseteq known
<1>1. PICK fallbacks : fallbacks = {i \in DOMAIN FailureOfKind :
                        /\ FailureOfKind[i].kind \in candidate.kinds
                        /\ FailureOfKind[i].failure \in known}
  OBVIOUS
<1>2. fallbacks # {} => Min(fallbacks) \in fallbacks
  <2>1. fallbacks \in SUBSET Nat
    BY <1>1, SchemaAssumption DEF SchemaAssumption
  <2> QED BY <2>1, MinIsIn
<1>3. ResolveFailure(candidate, known) =
          IF candidate.failure \in known THEN {candidate.failure}
          ELSE {FailureOfKind[i].failure : i \in IF fallbacks = {} THEN {} ELSE {Min(fallbacks)}}
  BY <1>1 DEF ResolveFailure
<1>4. fallbacks # {} => FailureOfKind[Min(fallbacks)].failure \in known
  BY <1>1, <1>2
<1> QED BY <1>3, <1>4 DEF FailureIds

\* The ids of a content of a file are ids of that asset.
LEMMA IdsApart ==
    ASSUME NEW failures \in Taxonomies, NEW candidates \in Candidates, NEW tasks \in Catalogs,
           NEW embodiments \in ToSet(AssetFiles["embodiments"]),
           NEW verifiers \in ToSet(AssetFiles["verifiers"]), NEW traces \in ToSet(AssetFiles["traces"]),
           NEW others, others = IdsOf(traces) \cup IdsOf(verifiers) \cup IdsOf(embodiments) \cup IdsOf(tasks)
    PROVE  /\ IdsOf(failures) \cap others = {} /\ IdsOf(candidates) \cap others = {}
           /\ IdsOf(failures) \cap IdsOf(candidates) = {}
<1>1. \A asset : \A rows \in ToSet(AssetFiles[asset]) : IdsOf(rows) \subseteq EveryId(asset)
  BY DEF EveryId, IdsOf
<1>2. /\ IdsOf(failures) \subseteq EveryId("failures") /\ IdsOf(candidates) \subseteq EveryId("candidates")
      /\ IdsOf(tasks) \subseteq EveryId("tasks") /\ IdsOf(embodiments) \subseteq EveryId("embodiments")
      /\ IdsOf(verifiers) \subseteq EveryId("verifiers") /\ IdsOf(traces) \subseteq EveryId("traces")
  BY <1>1 DEF Taxonomies, Candidates, Catalogs
<1>3. \A a \in {"failures", "candidates"}, b \in {"traces", "verifiers", "embodiments", "tasks"} :
          EveryId(a) \cap EveryId(b) = {}
  BY IdsAssumption DEF IdsAssumption, Assets
<1>4. EveryId("failures") \cap EveryId("candidates") = {}
  BY IdsAssumption DEF IdsAssumption, Assets
<1> QED BY <1>2, <1>3, <1>4

LEMMA FixesAre ==
    ASSUME NEW candidates \in Candidates, NEW failures \in Taxonomies,
           NEW cards, cards = CardsOf(candidates, failures),
           NEW fixes, fixes = FixesOf(candidates, failures)
    PROVE  /\ DOMAIN fixes = DOMAIN candidates /\ DOMAIN cards = DOMAIN candidates
           /\ \A i \in DOMAIN candidates :
                 /\ fixes[i].id = candidates[i].id /\ cards[i].id = candidates[i].id
                 /\ fixes[i].failure_ids \subseteq IdsOf(failures)
                 /\ fixes[i].domain \in Domains
                 /\ ToSet(fixes[i].anti) = ToSet(cards[i].anti) \cup ToSet(cards[i].contra)
           /\ IdsOf(fixes) = IdsOf(candidates) /\ IdsOf(cards) = IdsOf(candidates)
<1>1. /\ DOMAIN cards = DOMAIN candidates
      /\ \A i \in DOMAIN candidates : /\ IsCard(cards[i]) /\ cards[i].id = candidates[i].id
                                      /\ cards[i] = Widened(Compiled(candidates[i], failures))
                                      /\ cards[i].domain \in Domains
  BY CardsAre
<1>2. /\ DOMAIN fixes = DOMAIN candidates
      /\ \A i \in DOMAIN candidates :
            fixes[i] = FixOf(cards[i], FailureIds(candidates[i], IdsOf(failures)))
  BY <1>1 DEF FixesOf
<1>3. ASSUME NEW i \in DOMAIN candidates
      PROVE  /\ fixes[i].id = candidates[i].id /\ fixes[i].failure_ids \subseteq IdsOf(failures)
             /\ fixes[i].domain \in Domains
             /\ ToSet(fixes[i].anti) = ToSet(cards[i].anti) \cup ToSet(cards[i].contra)
  <2>1. PICK card : card = cards[i] /\ IsCard(card) /\ card.id = candidates[i].id /\ card.domain \in Domains
    BY <1>1
  <2>2. PICK ids : ids = FailureIds(candidates[i], IdsOf(failures)) /\ ids \subseteq IdsOf(failures)
    BY FailureIdsKnown
  <2>3. PICK fix : fix = FixOf(card, ids)
    OBVIOUS
  <2>4. fix.id = card.id /\ fix.failure_ids = ids /\ fix.domain = card.domain /\ fix.anti = card.anti \o card.contra
    BY <2>3 DEF FixOf
  <2>5. ToSet(card.anti \o card.contra) = ToSet(card.anti) \cup ToSet(card.contra)
    <3>1. card.anti \in Seq(Texts) /\ card.contra \in Seq(Texts)
      BY <2>1 DEF IsCard
    <3> QED BY <3>1, JoinIs
  <2>6. fixes[i] = fix
    BY <1>2, <2>1, <2>2, <2>3
  <2> QED BY <2>1, <2>2, <2>4, <2>5, <2>6
<1>4. IdsOf(fixes) = IdsOf(candidates) /\ IdsOf(cards) = IdsOf(candidates)
  BY <1>1, <1>2, <1>3 DEF IdsOf
<1> QED BY <1>1, <1>2, <1>3, <1>4

\* The types of the nodes: the first of its kinds that an id is of.
LEMMA NodesAre ==
    ASSUME NEW failures, NEW fixes, NEW tasks, NEW embodiments, NEW verifiers, NEW traces,
           NEW g, g = Wired(failures, fixes, tasks, embodiments, verifiers, traces)
    PROVE  /\ IdsOf(traces) \cup IdsOf(verifiers) \cup IdsOf(embodiments) \cup IdsOf(tasks)
                 \cup IdsOf(fixes) \cup IdsOf(failures) \cup {DomainNode(d) : d \in Domains}
                 \cup {e[3] : e \in TraceEdges(traces)}
              \subseteq DOMAIN g.nodes
           /\ \A id \in DOMAIN g.nodes :
                 /\ g.nodes[id] = "EvidenceTrace" => id \in IdsOf(traces)
                 /\ g.nodes[id] = "TaskCard" => id \in IdsOf(tasks)
                 /\ g.nodes[id] = "FixPattern" => id \in IdsOf(fixes)
                 /\ id \notin IdsOf(traces) \cup IdsOf(verifiers) \cup IdsOf(embodiments) \cup IdsOf(tasks) =>
                       /\ id \in IdsOf(fixes) => g.nodes[id] = "FixPattern"
                       /\ id \in IdsOf(failures) \ IdsOf(fixes) => g.nodes[id] = "FailureMode"
           /\ \E known : /\ known \subseteq DOMAIN g.nodes
                         /\ g.edges = UNION {FixesEdges(fixes), ObservedEdges(failures, tasks), DomainEdges(tasks),
                                DomainEdges(fixes), ValidatedEdges(tasks, verifiers),
                                EmbodimentEdges(fixes, embodiments), ContraEdges(fixes, known),
                                TransferableEdges(failures, tasks), TraceEdges(traces)}
           /\ g = [nodes |-> g.nodes, edges |-> g.edges, gated |-> TRUE]
<1>1. PICK n1 : n1 = Typed(IdsOf(traces), "EvidenceTrace")
  OBVIOUS
<1>2. PICK n2 : n2 = n1 ++ Typed(IdsOf(verifiers), "VerifierCard")
  OBVIOUS
<1>3. PICK n3 : n3 = n2 ++ Typed(IdsOf(embodiments), "EmbodimentCard")
  OBVIOUS
<1>4. PICK n4 : n4 = n3 ++ Typed(IdsOf(tasks), "TaskCard")
  OBVIOUS
<1>5. PICK n5 : n5 = n4 ++ Typed(IdsOf(fixes), "FixPattern")
  OBVIOUS
<1>6. PICK n6 : n6 = n5 ++ Typed(IdsOf(failures), "FailureMode")
  OBVIOUS
<1>7. PICK domains : domains = {DomainNode(d) : d \in Domains}
  OBVIOUS
<1>8. PICK n7 : n7 = n6 ++ Typed(domains, "Domain")
  OBVIOUS
<1>9. PICK linked : linked = {e[3] : e \in FixesEdges(fixes)}
  OBVIOUS
<1>10. PICK known : known = n7 ++ Typed(linked, "FailureMode_missing")
  OBVIOUS
<1>11. PICK traced : traced = {e[3] : e \in TraceEdges(traces)}
  OBVIOUS
<1>12. PICK nodes : nodes = known ++ Typed(traced, "FixPattern_external")
  OBVIOUS
<1>13. g = [nodes |-> nodes,
            edges |-> UNION {FixesEdges(fixes), ObservedEdges(failures, tasks), DomainEdges(tasks),
                             DomainEdges(fixes), ValidatedEdges(tasks, verifiers),
                             EmbodimentEdges(fixes, embodiments), ContraEdges(fixes, DOMAIN known),
                             TransferableEdges(failures, tasks), TraceEdges(traces)},
            gated |-> TRUE]
  BY <1>1, <1>2, <1>3, <1>4, <1>5, <1>6, <1>7, <1>8, <1>9, <1>10, <1>11, <1>12, Zenon DEF Wired
<1>14. DOMAIN n1 = IdsOf(traces) /\ \A x \in DOMAIN n1 : n1[x] = "EvidenceTrace"
  BY <1>1 DEF Typed
<1>15. DOMAIN n2 = DOMAIN n1 \cup IdsOf(verifiers)
       /\ \A x \in DOMAIN n2 : n2[x] = IF x \in DOMAIN n1 THEN n1[x] ELSE "VerifierCard"
  BY <1>2 DEF ++, Typed
<1>16. DOMAIN n3 = DOMAIN n2 \cup IdsOf(embodiments)
       /\ \A x \in DOMAIN n3 : n3[x] = IF x \in DOMAIN n2 THEN n2[x] ELSE "EmbodimentCard"
  BY <1>3 DEF ++, Typed
<1>17. DOMAIN n4 = DOMAIN n3 \cup IdsOf(tasks)
       /\ \A x \in DOMAIN n4 : n4[x] = IF x \in DOMAIN n3 THEN n3[x] ELSE "TaskCard"
  BY <1>4 DEF ++, Typed
<1>18. DOMAIN n5 = DOMAIN n4 \cup IdsOf(fixes)
       /\ \A x \in DOMAIN n5 : n5[x] = IF x \in DOMAIN n4 THEN n4[x] ELSE "FixPattern"
  BY <1>5 DEF ++, Typed
<1>19. DOMAIN n6 = DOMAIN n5 \cup IdsOf(failures)
       /\ \A x \in DOMAIN n6 : n6[x] = IF x \in DOMAIN n5 THEN n5[x] ELSE "FailureMode"
  BY <1>6 DEF ++, Typed
<1>20. DOMAIN n7 = DOMAIN n6 \cup domains
       /\ \A x \in DOMAIN n7 : n7[x] = IF x \in DOMAIN n6 THEN n6[x] ELSE "Domain"
  BY <1>8 DEF ++, Typed
<1>21. DOMAIN known = DOMAIN n7 \cup linked
       /\ \A x \in DOMAIN known : known[x] = IF x \in DOMAIN n7 THEN n7[x] ELSE "FailureMode_missing"
  BY <1>10 DEF ++, Typed
<1>22. DOMAIN nodes = DOMAIN known \cup traced
       /\ \A x \in DOMAIN nodes : nodes[x] = IF x \in DOMAIN known THEN known[x] ELSE "FixPattern_external"
  BY <1>12 DEF ++, Typed
<1>23. g.nodes = nodes
  BY <1>13
<1>24. \A id \in DOMAIN nodes :
         /\ nodes[id] = "EvidenceTrace" => id \in IdsOf(traces)
         /\ nodes[id] = "TaskCard" => id \in IdsOf(tasks)
         /\ nodes[id] = "FixPattern" => id \in IdsOf(fixes)
         /\ id \notin IdsOf(traces) \cup IdsOf(verifiers) \cup IdsOf(embodiments) \cup IdsOf(tasks) =>
               /\ id \in IdsOf(fixes) => nodes[id] = "FixPattern"
               /\ id \in IdsOf(failures) \ IdsOf(fixes) => nodes[id] = "FailureMode"
  BY <1>14, <1>15, <1>16, <1>17, <1>18, <1>19, <1>20, <1>21, <1>22
<1>25. IdsOf(traces) \cup IdsOf(verifiers) \cup IdsOf(embodiments) \cup IdsOf(tasks)
          \cup IdsOf(fixes) \cup IdsOf(failures) \cup domains \cup traced \subseteq DOMAIN nodes
  BY <1>14, <1>15, <1>16, <1>17, <1>18, <1>19, <1>20, <1>21, <1>22
<1>26. DOMAIN known \subseteq DOMAIN nodes
  BY <1>22
<1>27. g.edges = UNION {FixesEdges(fixes), ObservedEdges(failures, tasks), DomainEdges(tasks),
                        DomainEdges(fixes), ValidatedEdges(tasks, verifiers),
                        EmbodimentEdges(fixes, embodiments), ContraEdges(fixes, DOMAIN known),
                        TransferableEdges(failures, tasks), TraceEdges(traces)}
       /\ g.gated = TRUE /\ g = [nodes |-> g.nodes, edges |-> g.edges, gated |-> TRUE]
  BY <1>13
<1> QED BY <1>7, <1>11, <1>23, <1>24, <1>25, <1>26, <1>27

\* An edge of a relation, from a node of one set to a node of another.
Runs(e, relation, from, to) == e = <<e[1], relation, e[3]>> /\ e[1] \in from /\ e[3] \in to

LEMMA ObservedAre ==
    ASSUME NEW failures, NEW tasks
    PROVE  \A e \in ObservedEdges(failures, tasks) :
              /\ Runs(e, "OBSERVED_IN", IdsOf(failures), IdsOf(tasks))
              /\ \E t \in ToSet(tasks) : e[3] = t.id /\ e[1] \in ToSet(t.failures)
<1>1. \A t \in ToSet(tasks) : t.id \in IdsOf(tasks)
  BY DEF ToSet, IdsOf
<1>2. ASSUME NEW e \in ObservedEdges(failures, tasks)
      PROVE  /\ Runs(e, "OBSERVED_IN", IdsOf(failures), IdsOf(tasks))
             /\ \E t \in ToSet(tasks) : e[3] = t.id /\ e[1] \in ToSet(t.failures)
  <2>1. PICK t \in ToSet(tasks) : e \in {Edge(id, "OBSERVED_IN", t.id) : id \in ToSet(t.failures) \cap IdsOf(failures)}
    BY <1>2 DEF ObservedEdges
  <2>2. PICK id \in ToSet(t.failures) \cap IdsOf(failures) : e = <<id, "OBSERVED_IN", t.id>>
    BY <2>1 DEF Edge
  <2> QED BY <1>1, <2>1, <2>2 DEF Runs
<1> QED BY <1>2

LEMMA FixedAre ==
    ASSUME NEW candidates \in Candidates, NEW failures \in Taxonomies,
           NEW fixes, fixes = FixesOf(candidates, failures)
    PROVE  \A e \in FixesEdges(fixes) : Runs(e, "FIXES", IdsOf(fixes), IdsOf(failures))
<1>1. /\ DOMAIN fixes = DOMAIN candidates
      /\ \A i \in DOMAIN candidates : fixes[i].failure_ids \subseteq IdsOf(failures)
  BY FixesAre
<1>2. \A f \in ToSet(fixes) : f.id \in IdsOf(fixes) /\ f.failure_ids \subseteq IdsOf(failures)
  BY <1>1 DEF ToSet, IdsOf
<1>3. ASSUME NEW e \in FixesEdges(fixes) PROVE Runs(e, "FIXES", IdsOf(fixes), IdsOf(failures))
  <2>1. PICK f \in ToSet(fixes) : e \in {Edge(f.id, "FIXES", id) : id \in f.failure_ids}
    BY <1>3 DEF FixesEdges
  <2>2. PICK id \in f.failure_ids : e = <<f.id, "FIXES", id>>
    BY <2>1 DEF Edge
  <2> QED BY <1>2, <2>1, <2>2 DEF Runs
<1> QED BY <1>3

LEMMA DomainsAre ==
    ASSUME NEW things, \A t \in ToSet(things) : t.domain \in Domains
    PROVE  \A e \in DomainEdges(things) :
              Runs(e, "APPLIES_TO", IdsOf(things), {DomainNode(d) : d \in Domains})
<1>1. \A t \in ToSet(things) : t.id \in IdsOf(things)
  BY DEF ToSet, IdsOf
<1>2. ASSUME NEW e \in DomainEdges(things)
      PROVE  Runs(e, "APPLIES_TO", IdsOf(things), {DomainNode(d) : d \in Domains})
  <2>1. PICK t \in ToSet(things) : e = <<t.id, "APPLIES_TO", DomainNode(t.domain)>>
    BY <1>2 DEF DomainEdges, Edge
  <2>2. DomainNode(t.domain) \in {DomainNode(d) : d \in Domains}
    BY <2>1
  <2> QED BY <1>1, <2>1, <2>2 DEF Runs
<1> QED BY <1>2

LEMMA ValidatedAre ==
    ASSUME NEW tasks, NEW verifiers
    PROVE  \A e \in ValidatedEdges(tasks, verifiers) :
              Runs(e, "VALIDATED_BY", IdsOf(tasks), IdsOf(verifiers))
<1>1. /\ \A t \in ToSet(tasks) : t.id \in IdsOf(tasks)
      /\ \A v \in ToSet(verifiers) : v.id \in IdsOf(verifiers)
  BY DEF ToSet, IdsOf
<1>2. ASSUME NEW e \in ValidatedEdges(tasks, verifiers)
      PROVE  Runs(e, "VALIDATED_BY", IdsOf(tasks), IdsOf(verifiers))
  <2>1. PICK t \in ToSet(tasks) :
           e \in {Edge(t.id, "VALIDATED_BY", v.id) : v \in {v \in ToSet(verifiers) : v.type = t.verifier}}
    BY <1>2 DEF ValidatedEdges
  <2>2. PICK v \in ToSet(verifiers) : e = <<t.id, "VALIDATED_BY", v.id>>
    BY <2>1 DEF Edge
  <2> QED BY <1>1, <2>1, <2>2 DEF Runs
<1> QED BY <1>2

LEMMA EmbodiedAre ==
    ASSUME NEW fixes, NEW embodiments
    PROVE  \A e \in EmbodimentEdges(fixes, embodiments) :
              Runs(e, "APPLIES_TO", IdsOf(fixes), IdsOf(embodiments))
<1>1. \A f \in ToSet(fixes) : f.id \in IdsOf(fixes)
  BY DEF ToSet, IdsOf
<1>2. ASSUME NEW e \in EmbodimentEdges(fixes, embodiments)
      PROVE  Runs(e, "APPLIES_TO", IdsOf(fixes), IdsOf(embodiments))
  <2>1. PICK f \in ToSet(fixes) :
           e \in {Edge(f.id, "APPLIES_TO", id) : id \in IdsOf(embodiments) \cap
                    UNION {EmbodimentsOf[h] : h \in FamilyHints \cap Words(f.steps) \cap DOMAIN EmbodimentsOf}}
    BY <1>2 DEF EmbodimentEdges
  <2>2. PICK id \in IdsOf(embodiments) : e = <<f.id, "APPLIES_TO", id>>
    BY <2>1 DEF Edge
  <2> QED BY <1>1, <2>1, <2>2 DEF Runs
<1> QED BY <1>2

LEMMA ContraAre ==
    ASSUME NEW fixes, NEW known
    PROVE  \A e \in ContraEdges(fixes, known) :
              /\ Runs(e, "CONTRAINDICATED_FOR", IdsOf(fixes), known)
              /\ \E k \in DOMAIN fixes : \E w \in ToSet(fixes[k].anti) :
                    fixes[k].id = e[1] /\ e[3] \in IdsIn[w]
<1>1. ASSUME NEW e \in ContraEdges(fixes, known)
      PROVE  /\ Runs(e, "CONTRAINDICATED_FOR", IdsOf(fixes), known)
             /\ \E k \in DOMAIN fixes : \E w \in ToSet(fixes[k].anti) :
                   fixes[k].id = e[1] /\ e[3] \in IdsIn[w]
  <2>1. PICK f \in ToSet(fixes) :
           e \in {Edge(f.id, "CONTRAINDICATED_FOR", id) : id \in known \cap
                    UNION {IdsIn[f.anti[i]] : i \in DOMAIN f.anti}}
    BY <1>1 DEF ContraEdges
  <2>2. PICK id \in known \cap UNION {IdsIn[f.anti[i]] : i \in DOMAIN f.anti} :
           e = <<f.id, "CONTRAINDICATED_FOR", id>>
    BY <2>1 DEF Edge
  <2>3. PICK i \in DOMAIN f.anti : id \in IdsIn[f.anti[i]]
    BY <2>2
  <2>4. PICK k \in DOMAIN fixes : fixes[k] = f
    BY <2>1 DEF ToSet
  <2>5. f.anti[i] \in ToSet(f.anti)
    BY <2>3 DEF ToSet
  <2>6. f.id \in IdsOf(fixes)
    BY <2>4 DEF IdsOf
  <2> QED BY <2>2, <2>3, <2>4, <2>5, <2>6 DEF Runs
<1> QED BY <1>1

LEMMA TransferableAre ==
    ASSUME NEW failures, NEW tasks
    PROVE  \A e \in TransferableEdges(failures, tasks) :
              /\ Runs(e, "TRANSFERABLE_TO", IdsOf(failures), IdsOf(tasks))
              /\ \E t \in ToSet(tasks) : e[3] = t.id /\ e[1] \notin ToSet(t.failures)
<1>1. /\ \A t \in ToSet(tasks) : t.id \in IdsOf(tasks)
      /\ \A f \in ToSet(failures) : f.id \in IdsOf(failures)
  BY DEF ToSet, IdsOf
<1>2. ASSUME NEW e \in TransferableEdges(failures, tasks)
      PROVE  /\ Runs(e, "TRANSFERABLE_TO", IdsOf(failures), IdsOf(tasks))
             /\ \E t \in ToSet(tasks) : e[3] = t.id /\ e[1] \notin ToSet(t.failures)
  <2>1. PICK p \in ToSet(failures) \X ToSet(tasks) :
           Transferable(p[1], p[2], tasks) /\ e = <<p[1].id, "TRANSFERABLE_TO", p[2].id>>
    BY <1>2 DEF TransferableEdges, Edge
  <2>2. p[1] \in ToSet(failures) /\ p[2] \in ToSet(tasks)
    BY <2>1
  <2>3. p[1].id \notin ToSet(p[2].failures)
    BY <2>1 DEF Transferable
  <2>4. e[1] = p[1].id /\ e[3] = p[2].id
    BY <2>1
  <2> QED BY <1>1, <2>1, <2>2, <2>3, <2>4 DEF Runs
<1> QED BY <1>2

TraceRelations == {"DERIVED_FROM", "IMPROVED_BY", "REGRESSED_BY"}
LEMMA TracesAre ==
    ASSUME NEW traces
    PROVE  \A e \in TraceEdges(traces) :
              \E r \in TraceRelations : Runs(e, r, IdsOf(traces), {x[3] : x \in TraceEdges(traces)})
<1>1. ASSUME NEW e \in TraceEdges(traces)
      PROVE  \E r \in TraceRelations : Runs(e, r, IdsOf(traces), {x[3] : x \in TraceEdges(traces)})
  <2>1. PICK t \in ToSet(traces) : e = <<t.id, Relation(t), t.pattern>>
    BY <1>1 DEF TraceEdges, Edge
  <2>2. Relation(t) \in TraceRelations
    BY DEF Relation, TraceRelations
  <2>3. t.id \in IdsOf(traces)
    BY DEF ToSet, IdsOf
  <2>4. e[3] \in {x[3] : x \in TraceEdges(traces)}
    BY <1>1
  <2>5. e[1] = t.id /\ e = <<e[1], Relation(t), e[3]>>
    BY <2>1
  <2> QED BY <2>2, <2>3, <2>4, <2>5 DEF Runs
<1> QED BY <1>1

Linking(g) ==
    g.gated => \A id \in DOMAIN g.nodes :
        /\ g.nodes[id] = "FixPattern" => Linked(g, id, {"FIXES"})
        /\ g.nodes[id] = "TaskCard" => Linked(g, id, {"VALIDATED_BY"})
        /\ g.nodes[id] = "EvidenceTrace" => Linked(g, id, TraceRelations)
Joined(g) ==
    \A e \in g.edges : /\ {e[1], e[3]} \subseteq DOMAIN g.nodes
                       /\ e[2] = "FIXES" => g.nodes[e[3]] = "FailureMode"
                       /\ e[2] = "TRANSFERABLE_TO" => Edge(e[1], "OBSERVED_IN", e[3]) \notin g.edges
\* The graph is wired from these cards: its fixes are theirs, and a pattern is
\* contraindicated for a node only if one of its card's warnings names it.
OfCards(g, cards) ==
    /\ {id \in DOMAIN g.nodes : g.nodes[id] = "FixPattern"} = IdsOf(cards)
    /\ \A e \in g.edges : e[2] = "CONTRAINDICATED_FOR" =>
          \E k \in DOMAIN cards : \E w \in ToSet(cards[k].anti) \cup ToSet(cards[k].contra) :
              cards[k].id = e[1] /\ e[3] \in IdsIn[w]

\* Which edges there are, by relation.
LEMMA EdgesAre ==
    ASSUME NEW candidates \in Candidates, NEW failures \in Taxonomies, NEW tasks \in Catalogs,
           NEW embodiments, NEW verifiers, NEW traces,
           NEW fixes, fixes = FixesOf(candidates, failures),
           NEW g, g = Wired(failures, fixes, tasks, embodiments, verifiers, traces),
           NEW e \in g.edges
    PROVE  /\ {e[1], e[3]} \subseteq DOMAIN g.nodes
           /\ e[2] = "FIXES" => e[3] \in IdsOf(failures)
           /\ e[2] = "OBSERVED_IN" => \E t \in ToSet(tasks) : e[3] = t.id /\ e[1] \in ToSet(t.failures)
           /\ e[2] = "TRANSFERABLE_TO" => \E t \in ToSet(tasks) : e[3] = t.id /\ e[1] \notin ToSet(t.failures)
           /\ e[2] = "CONTRAINDICATED_FOR" =>
                 \E k \in DOMAIN fixes : \E w \in ToSet(fixes[k].anti) :
                    fixes[k].id = e[1] /\ e[3] \in IdsIn[w]
<1> DEFINE Goal == /\ {e[1], e[3]} \subseteq DOMAIN g.nodes
                   /\ e[2] = "FIXES" => e[3] \in IdsOf(failures)
                   /\ e[2] = "OBSERVED_IN" => \E t \in ToSet(tasks) : e[3] = t.id /\ e[1] \in ToSet(t.failures)
                   /\ e[2] = "TRANSFERABLE_TO" => \E t \in ToSet(tasks) : e[3] = t.id /\ e[1] \notin ToSet(t.failures)
                   /\ e[2] = "CONTRAINDICATED_FOR" =>
                         \E k \in DOMAIN fixes : \E w \in ToSet(fixes[k].anti) :
                            fixes[k].id = e[1] /\ e[3] \in IdsIn[w]
<1>1. /\ IdsOf(traces) \cup IdsOf(verifiers) \cup IdsOf(embodiments) \cup IdsOf(tasks)
             \cup IdsOf(fixes) \cup IdsOf(failures) \cup {DomainNode(d) : d \in Domains}
             \cup {x[3] : x \in TraceEdges(traces)}
          \subseteq DOMAIN g.nodes
      /\ \E known : /\ known \subseteq DOMAIN g.nodes
                    /\ g.edges = UNION {FixesEdges(fixes), ObservedEdges(failures, tasks), DomainEdges(tasks),
                           DomainEdges(fixes), ValidatedEdges(tasks, verifiers),
                           EmbodimentEdges(fixes, embodiments), ContraEdges(fixes, known),
                           TransferableEdges(failures, tasks), TraceEdges(traces)}
  BY NodesAre
<1>2. PICK known : /\ known \subseteq DOMAIN g.nodes
                   /\ e \in UNION {FixesEdges(fixes), ObservedEdges(failures, tasks), DomainEdges(tasks),
                           DomainEdges(fixes), ValidatedEdges(tasks, verifiers),
                           EmbodimentEdges(fixes, embodiments), ContraEdges(fixes, known),
                           TransferableEdges(failures, tasks), TraceEdges(traces)}
  BY <1>1
<1>3. CASE e \in FixesEdges(fixes)
  <2>1. Runs(e, "FIXES", IdsOf(fixes), IdsOf(failures))
    BY <1>3, FixedAre
  <2>2. e[2] = "FIXES"
    BY <2>1 DEF Runs
  <2> QED BY <1>1, <2>1, <2>2 DEF Runs
<1>4. CASE e \in ObservedEdges(failures, tasks)
  <2>1. /\ Runs(e, "OBSERVED_IN", IdsOf(failures), IdsOf(tasks))
        /\ \E t \in ToSet(tasks) : e[3] = t.id /\ e[1] \in ToSet(t.failures)
    BY <1>4, ObservedAre
  <2>2. e[2] = "OBSERVED_IN"
    BY <2>1 DEF Runs
  <2> QED BY <1>1, <2>1, <2>2 DEF Runs
<1>5. ASSUME NEW things, e \in DomainEdges(things), \A t \in ToSet(things) : t.domain \in Domains,
             IdsOf(things) \subseteq DOMAIN g.nodes
      PROVE  Goal
  <2>1. Runs(e, "APPLIES_TO", IdsOf(things), {DomainNode(d) : d \in Domains})
    BY <1>5, DomainsAre
  <2>2. e[2] = "APPLIES_TO"
    BY <2>1 DEF Runs
  <2>3. e[1] \in DOMAIN g.nodes /\ e[3] \in DOMAIN g.nodes
    BY <1>1, <1>5, <2>1 DEF Runs
  <2> QED BY <2>2, <2>3
<1>6. CASE e \in DomainEdges(tasks)
  <2>1. \A t \in ToSet(tasks) : t.domain \in Domains
    <3>1. \A i \in DOMAIN tasks : tasks[i].domain \in Domains
      BY SchemaAssumption DEF SchemaAssumption, Catalogs, IsTask
    <3> QED BY <3>1 DEF ToSet
  <2>2. IdsOf(tasks) \subseteq DOMAIN g.nodes
    BY <1>1
  <2>3. Goal
    BY <1>5, <1>6, <2>1, <2>2
  <2> QED BY <2>3
<1>7. CASE e \in DomainEdges(fixes)
  <2>1. \A t \in ToSet(fixes) : t.domain \in Domains
    <3>1. DOMAIN fixes = DOMAIN candidates /\ \A i \in DOMAIN candidates : fixes[i].domain \in Domains
      BY FixesAre
    <3> QED BY <3>1 DEF ToSet
  <2>2. IdsOf(fixes) \subseteq DOMAIN g.nodes
    BY <1>1
  <2>3. Goal
    BY <1>5, <1>7, <2>1, <2>2
  <2> QED BY <2>3
<1>8. CASE e \in ValidatedEdges(tasks, verifiers)
  <2>1. Runs(e, "VALIDATED_BY", IdsOf(tasks), IdsOf(verifiers))
    BY <1>8, ValidatedAre
  <2>2. e[2] = "VALIDATED_BY"
    BY <2>1 DEF Runs
  <2> QED BY <1>1, <2>1, <2>2 DEF Runs
<1>9. CASE e \in EmbodimentEdges(fixes, embodiments)
  <2>1. Runs(e, "APPLIES_TO", IdsOf(fixes), IdsOf(embodiments))
    BY <1>9, EmbodiedAre
  <2>2. e[2] = "APPLIES_TO"
    BY <2>1 DEF Runs
  <2> QED BY <1>1, <2>1, <2>2 DEF Runs
<1>10. CASE e \in ContraEdges(fixes, known)
  <2>1. /\ Runs(e, "CONTRAINDICATED_FOR", IdsOf(fixes), known)
        /\ \E k \in DOMAIN fixes : \E w \in ToSet(fixes[k].anti) :
              fixes[k].id = e[1] /\ e[3] \in IdsIn[w]
    BY <1>10, ContraAre
  <2>2. e[2] = "CONTRAINDICATED_FOR"
    BY <2>1 DEF Runs
  <2>3. e[1] \in DOMAIN g.nodes /\ e[3] \in DOMAIN g.nodes
    BY <1>1, <1>2, <2>1 DEF Runs
  <2> QED BY <2>1, <2>2, <2>3
<1>11. CASE e \in TransferableEdges(failures, tasks)
  <2>1. /\ Runs(e, "TRANSFERABLE_TO", IdsOf(failures), IdsOf(tasks))
        /\ \E t \in ToSet(tasks) : e[3] = t.id /\ e[1] \notin ToSet(t.failures)
    BY <1>11, TransferableAre
  <2>2. e[2] = "TRANSFERABLE_TO"
    BY <2>1 DEF Runs
  <2> QED BY <1>1, <2>1, <2>2 DEF Runs
<1>12. CASE e \in TraceEdges(traces)
  <2>1. PICK r \in TraceRelations : Runs(e, r, IdsOf(traces), {x[3] : x \in TraceEdges(traces)})
    BY <1>12, TracesAre
  <2>2. e[2] \in TraceRelations
    BY <2>1 DEF Runs
  <2>3. e[1] \in DOMAIN g.nodes /\ e[3] \in DOMAIN g.nodes
    BY <1>1, <2>1 DEF Runs
  <2> QED BY <2>2, <2>3 DEF TraceRelations
<1> QED BY <1>2, <1>3, <1>4, <1>6, <1>7, <1>8, <1>9, <1>10, <1>11, <1>12

LEMMA WiredSound ==
    ASSUME NEW candidates \in Candidates, NEW failures \in Taxonomies, NEW tasks \in Catalogs,
           NEW embodiments \in ToSet(AssetFiles["embodiments"]),
           NEW verifiers \in ToSet(AssetFiles["verifiers"]), NEW traces \in ToSet(AssetFiles["traces"]),
           NEW cards, cards = CardsOf(candidates, failures),
           NEW fixes, fixes = FixesOf(candidates, failures),
           NEW w, w = Wired(failures, fixes, tasks, embodiments, verifiers, traces),
           NEW gate \in BOOLEAN, gate => Accepted(w, fixes, tasks, traces),
           NEW g, g = [w EXCEPT !.gated = gate]
    PROVE  Linking(g) /\ Joined(g) /\ OfCards(g, cards)
<1> DEFINE others == IdsOf(traces) \cup IdsOf(verifiers) \cup IdsOf(embodiments) \cup IdsOf(tasks)
<1>1. /\ IdsOf(fixes) \cup IdsOf(failures) \subseteq DOMAIN w.nodes
      /\ \A id \in DOMAIN w.nodes :
            /\ w.nodes[id] = "EvidenceTrace" => id \in IdsOf(traces)
            /\ w.nodes[id] = "TaskCard" => id \in IdsOf(tasks)
            /\ w.nodes[id] = "FixPattern" => id \in IdsOf(fixes)
            /\ id \notin others => /\ id \in IdsOf(fixes) => w.nodes[id] = "FixPattern"
                                   /\ id \in IdsOf(failures) \ IdsOf(fixes) => w.nodes[id] = "FailureMode"
      /\ w = [nodes |-> w.nodes, edges |-> w.edges, gated |-> TRUE]
  BY NodesAre
<1>2. g.nodes = w.nodes /\ g.edges = w.edges /\ g.gated = gate
  <2>1. PICK nodes : nodes = w.nodes
    OBVIOUS
  <2>2. PICK edges : edges = w.edges
    OBVIOUS
  <2>3. w = [nodes |-> nodes, edges |-> edges, gated |-> TRUE]
    BY <1>1, <2>1, <2>2
  <2> QED BY <2>1, <2>2, <2>3
<1>3. /\ IdsOf(fixes) = IdsOf(candidates) /\ IdsOf(cards) = IdsOf(candidates)
      /\ DOMAIN fixes = DOMAIN candidates /\ DOMAIN cards = DOMAIN candidates
      /\ \A i \in DOMAIN candidates :
            /\ fixes[i].id = candidates[i].id /\ cards[i].id = candidates[i].id
            /\ ToSet(fixes[i].anti) = ToSet(cards[i].anti) \cup ToSet(cards[i].contra)
  BY FixesAre
<1>4. /\ IdsOf(failures) \cap others = {} /\ IdsOf(candidates) \cap others = {}
      /\ IdsOf(failures) \cap IdsOf(candidates) = {}
  BY IdsApart
<1>5. \A e \in w.edges :
         /\ {e[1], e[3]} \subseteq DOMAIN w.nodes
         /\ e[2] = "FIXES" => e[3] \in IdsOf(failures)
         /\ e[2] = "OBSERVED_IN" => \E t \in ToSet(tasks) : e[3] = t.id /\ e[1] \in ToSet(t.failures)
         /\ e[2] = "TRANSFERABLE_TO" => \E t \in ToSet(tasks) : e[3] = t.id /\ e[1] \notin ToSet(t.failures)
         /\ e[2] = "CONTRAINDICATED_FOR" =>
               \E k \in DOMAIN fixes : \E x \in ToSet(fixes[k].anti) :
                  fixes[k].id = e[1] /\ e[3] \in IdsIn[x]
  BY EdgesAre
<1> HIDE DEF others
<1>6. Linking(g)
  <2>1. SUFFICES ASSUME gate, NEW id \in DOMAIN w.nodes
                 PROVE  /\ w.nodes[id] = "FixPattern" => Linked(g, id, {"FIXES"})
                        /\ w.nodes[id] = "TaskCard" => Linked(g, id, {"VALIDATED_BY"})
                        /\ w.nodes[id] = "EvidenceTrace" => Linked(g, id, TraceRelations)
    BY <1>2 DEF Linking
  <2>2. /\ \A f \in ToSet(fixes) : FixIsLinked(w, f)
        /\ \A t \in ToSet(tasks) : TaskIsLinked(w, t)
        /\ \A t \in ToSet(traces) : TraceIsLinked(w, t)
    BY <2>1 DEF Accepted
  <2>3. ASSUME w.nodes[id] = "FixPattern" PROVE Linked(g, id, {"FIXES"})
    <3>1. PICK f \in ToSet(fixes) : f.id = id
      BY <1>1, <2>3 DEF IdsOf, ToSet
    <3> QED BY <1>2, <2>2, <3>1 DEF FixIsLinked, Linked
  <2>4. ASSUME w.nodes[id] = "TaskCard" PROVE Linked(g, id, {"VALIDATED_BY"})
    <3>1. PICK t \in ToSet(tasks) : t.id = id
      BY <1>1, <2>4 DEF IdsOf, ToSet
    <3> QED BY <1>2, <2>2, <3>1 DEF TaskIsLinked, Linked
  <2>5. ASSUME w.nodes[id] = "EvidenceTrace" PROVE Linked(g, id, TraceRelations)
    <3>1. PICK t \in ToSet(traces) : t.id = id
      BY <1>1, <2>5 DEF IdsOf, ToSet
    <3> QED BY <1>2, <2>2, <3>1 DEF TraceIsLinked, Linked, TraceRelations
  <2> QED BY <2>3, <2>4, <2>5
<1>7. Joined(g)
  <2>1. SUFFICES ASSUME NEW e \in w.edges
                 PROVE  /\ {e[1], e[3]} \subseteq DOMAIN w.nodes
                        /\ e[2] = "FIXES" => w.nodes[e[3]] = "FailureMode"
                        /\ e[2] = "TRANSFERABLE_TO" => Edge(e[1], "OBSERVED_IN", e[3]) \notin w.edges
    BY <1>2 DEF Joined
  <2>2. e[2] = "FIXES" => w.nodes[e[3]] = "FailureMode"
    BY <1>1, <1>3, <1>4, <1>5
  <2>3. ASSUME e[2] = "TRANSFERABLE_TO", Edge(e[1], "OBSERVED_IN", e[3]) \in w.edges PROVE FALSE
    <3>1. PICK t \in ToSet(tasks) : e[3] = t.id /\ e[1] \notin ToSet(t.failures)
      BY <1>5, <2>3
    <3>2. PICK o \in w.edges : o = <<e[1], "OBSERVED_IN", e[3]>>
      BY <2>3 DEF Edge
    <3>3. o[1] = e[1] /\ o[2] = "OBSERVED_IN" /\ o[3] = e[3]
      BY <3>2
    <3>4. PICK u \in ToSet(tasks) : e[3] = u.id /\ e[1] \in ToSet(u.failures)
      BY <1>5, <3>2, <3>3
    <3>5. Keyed(tasks)
      BY IdsAssumption DEF IdsAssumption, Catalogs
    <3>6. PICK i \in DOMAIN tasks : tasks[i] = t
      BY DEF ToSet
    <3>7. PICK j \in DOMAIN tasks : tasks[j] = u
      BY DEF ToSet
    <3>8. i = j
      BY <3>1, <3>4, <3>5, <3>6, <3>7 DEF Keyed
    <3> QED BY <3>1, <3>4, <3>6, <3>7, <3>8
  <2> QED BY <1>5, <2>2, <2>3
<1>8. OfCards(g, cards)
  <2>1. {id \in DOMAIN w.nodes : w.nodes[id] = "FixPattern"} = IdsOf(cards)
    BY <1>1, <1>3, <1>4
  <2>2. ASSUME NEW e \in w.edges, e[2] = "CONTRAINDICATED_FOR"
        PROVE  \E k \in DOMAIN cards : \E x \in ToSet(cards[k].anti) \cup ToSet(cards[k].contra) :
                  cards[k].id = e[1] /\ e[3] \in IdsIn[x]
    <3>1. PICK k \in DOMAIN fixes : \E x \in ToSet(fixes[k].anti) : fixes[k].id = e[1] /\ e[3] \in IdsIn[x]
      BY <1>5, <2>2
    <3>2. PICK x \in ToSet(fixes[k].anti) : fixes[k].id = e[1] /\ e[3] \in IdsIn[x]
      BY <3>1
    <3>3. k \in DOMAIN cards /\ cards[k].id = e[1] /\ x \in ToSet(cards[k].anti) \cup ToSet(cards[k].contra)
      BY <1>3, <3>1, <3>2
    <3> QED BY <3>2, <3>3
  <2> QED BY <1>2, <2>1, <2>2 DEF OfCards
<1> QED BY <1>6, <1>7, <1>8

-----------------------------------------------------------------------------
\* Between two steps: the graph on disk is sound, and so is the one a run is
\* about to write, which its cards are the cards of.
BuildingInv ==
    /\ building = [step |-> building.step, graph |-> building.graph, cards |-> building.cards]
    /\ building.step \in {"idle", "graph", "manifest"}
    /\ building.step # "idle" =>
          Linking(building.graph) /\ Joined(building.graph) /\ OfCards(building.graph, building.cards)
    /\ building.step = "manifest" => graph = building.graph
GraphInv ==
    /\ asset_version \in [Assets -> Nat]
    /\ \A a \in Assets : asset_version[a] \in DOMAIN AssetFiles[a]
    /\ BuildingInv
    /\ Linking(graph) /\ Joined(graph)
    /\ ~split /\ card_manifest # NoManifest => OfCards(graph, card_manifest)

LEMMA IdleIsFine ==
    ASSUME building' = NotBuilding PROVE BuildingInv'
<1>1. PICK b : b = building' /\ b = [step |-> "idle", graph |-> Unbuilt, cards |-> << >>]
  BY DEF NotBuilding
<1>2. b.step = "idle" /\ b = [step |-> b.step, graph |-> b.graph, cards |-> b.cards]
  BY <1>1
<1> QED BY <1>1, <1>2 DEF BuildingInv

\* GraphInv speaks of neither the server nor the counters.
LEMMA GraphInvKept ==
    ASSUME GraphInv, UNCHANGED <<asset_version, graph, card_manifest, building, split>>
    PROVE  GraphInv'
<1>1. /\ asset_version' = asset_version /\ graph' = graph /\ card_manifest' = card_manifest
      /\ building' = building /\ split' = split
  OBVIOUS
<1>2. BuildingInv'
  BY <1>1, Zenon DEF GraphInv, BuildingInv
<1>3. (Linking(graph) /\ Joined(graph))'
  BY <1>1 DEF GraphInv, Linking, Joined, Linked
<1>4. (~split /\ card_manifest # NoManifest => OfCards(graph, card_manifest))'
  BY <1>1 DEF GraphInv, OfCards
<1> QED BY <1>1, <1>2, <1>3, <1>4 DEF GraphInv

LEMMA GraphInvInit ==
    ASSUME GraphInit PROVE GraphInv
<1>1. asset_version \in [Assets -> Nat] /\ \A a \in Assets : asset_version[a] \in DOMAIN AssetFiles[a]
  <2>1. \A a \in Assets : 1 \in DOMAIN AssetFiles[a]
    BY GraphAssumption DEF GraphAssumption
  <2> QED BY <2>1 DEF GraphInit
<1>2. graph = Unbuilt /\ building = NotBuilding /\ card_manifest = NoManifest
  BY DEF GraphInit
<1>3. BuildingInv
  BY <1>2 DEF BuildingInv, NotBuilding
<1>4. Linking(graph) /\ Joined(graph)
  <2>1. graph.gated = FALSE /\ graph.edges = {}
    BY <1>2 DEF Unbuilt
  <2> QED BY <2>1 DEF Linking, Joined
<1> QED BY <1>1, <1>2, <1>3, <1>4 DEF GraphInv

LEMMA EditKeeps ==
    ASSUME GraphInv, NEW asset \in Assets, AssetEdited(asset) PROVE GraphInv'
<1>1. /\ graph' = graph /\ card_manifest' = card_manifest /\ building' = building /\ split' = split
      /\ asset_version' = [asset_version EXCEPT ![asset] = @ + 1]
      /\ asset_version[asset] < Len(AssetFiles[asset])
  BY DEF AssetEdited
<1>2. asset_version' \in [Assets -> Nat] /\ \A a \in Assets : asset_version'[a] \in DOMAIN AssetFiles[a]
  <2>1. asset_version \in [Assets -> Nat] /\ \A a \in Assets : asset_version[a] \in DOMAIN AssetFiles[a]
    BY DEF GraphInv
  <2>2. PICK n : n = Len(AssetFiles[asset])
    OBVIOUS
  <2>3. n \in Nat /\ DOMAIN AssetFiles[asset] = 1..n
    BY <2>2, GraphAssumption DEF GraphAssumption
  <2>4. PICK v : v = asset_version[asset]
    OBVIOUS
  <2>5. v \in 1..n /\ v < n
    BY <1>1, <2>1, <2>2, <2>3, <2>4
  <2>6. v + 1 \in 1..n /\ v + 1 \in Nat
    BY <2>3, <2>5
  <2>7. /\ asset_version'[asset] = v + 1 /\ asset_version' \in [Assets -> Nat]
        /\ \A a \in Assets \ {asset} : asset_version'[a] = asset_version[a]
    BY <1>1, <2>1, <2>4, <2>6
  <2> QED BY <2>1, <2>3, <2>6, <2>7
<1>3. BuildingInv'
  BY <1>1, Zenon DEF GraphInv, BuildingInv
<1>4. (Linking(graph) /\ Joined(graph))'
  BY <1>1, Zenon DEF GraphInv, Linking, Joined, Linked
<1>5. (~split /\ card_manifest # NoManifest => OfCards(graph, card_manifest))'
  BY <1>1, Zenon DEF GraphInv, OfCards
<1> QED BY <1>2, <1>3, <1>4, <1>5 DEF GraphInv

LEMMA BuiltKeeps ==
    ASSUME GraphInv, NEW allow \in BOOLEAN, Built(allow) PROVE GraphInv'
<1>1. PICK failures, candidates, tasks, embodiments, verifiers, traces :
          /\ failures = AssetNow("failures") /\ candidates = AssetNow("candidates")
          /\ tasks = AssetNow("tasks") /\ embodiments = AssetNow("embodiments")
          /\ verifiers = AssetNow("verifiers") /\ traces = AssetNow("traces")
  OBVIOUS
<1>2. PICK fixes, cards : fixes = FixesOf(candidates, failures) /\ cards = CardsOf(candidates, failures)
  OBVIOUS
<1>3. PICK w : w = Wired(failures, fixes, tasks, embodiments, verifiers, traces)
  OBVIOUS
<1>4. PICK g : g = [w EXCEPT !.gated = ~allow]
  OBVIOUS
<1>5. /\ UNCHANGED <<asset_version, graph, card_manifest, split>>
      /\ \/ building' = NotBuilding
         \/ /\ ~allow => Accepted(w, fixes, tasks, traces)
            /\ building' = [step |-> "graph", cards |-> cards, graph |-> g]
  BY <1>1, <1>2, <1>3, <1>4, Zenon DEF Built
<1>6. /\ failures \in Taxonomies /\ candidates \in Candidates /\ tasks \in Catalogs
      /\ embodiments \in ToSet(AssetFiles["embodiments"])
      /\ verifiers \in ToSet(AssetFiles["verifiers"]) /\ traces \in ToSet(AssetFiles["traces"])
  <2>1. \A a \in Assets : AssetNow(a) \in ToSet(AssetFiles[a])
    BY DEF GraphInv, AssetNow, ToSet
  <2> QED BY <1>1, <2>1 DEF Assets, Taxonomies, Candidates, Catalogs
<1>7. BuildingInv'
  <2>1. CASE building' = NotBuilding
    BY <2>1, IdleIsFine
  <2>2. CASE /\ ~allow => Accepted(w, fixes, tasks, traces)
             /\ building' = [step |-> "graph", cards |-> cards, graph |-> g]
    <3>1. PICK gate \in BOOLEAN : gate = ~allow
      OBVIOUS
    <3>2. Linking(g) /\ Joined(g) /\ OfCards(g, cards)
      <4>1. gate => Accepted(w, fixes, tasks, traces)
        BY <2>2, <3>1
      <4>2. g = [w EXCEPT !.gated = gate]
        BY <1>4, <3>1
      <4> QED BY <1>2, <1>3, <1>6, <4>1, <4>2, WiredSound
    <3> QED BY <2>2, <3>2 DEF BuildingInv
  <2> QED BY <1>5, <2>1, <2>2
<1>8. /\ asset_version' = asset_version /\ graph' = graph /\ card_manifest' = card_manifest /\ split' = split
  BY <1>5
<1> QED BY <1>7, <1>8 DEF GraphInv, Linking, Joined, OfCards, Linked

LEMMA GraphWrittenKeeps ==
    ASSUME GraphInv, GraphWritten PROVE GraphInv'
<1>1. PICK step, g, cards :
        /\ step = building.step /\ g = building.graph /\ cards = building.cards
        /\ building = [step |-> step, graph |-> g, cards |-> cards]
        /\ step # "idle" => Linking(g) /\ Joined(g) /\ OfCards(g, cards)
  BY DEF GraphInv, BuildingInv
<1>2. step = "graph" /\ graph' = g /\ split' = TRUE
      /\ building' = [step |-> "manifest", graph |-> g, cards |-> cards]
  BY <1>1 DEF GraphWritten
<1>3. BuildingInv'
  BY <1>1, <1>2 DEF BuildingInv
<1>4. (Linking(graph) /\ Joined(graph))'
  BY <1>1, <1>2 DEF Linking, Joined, Linked
<1>5. asset_version' = asset_version /\ ~(~split')
  BY <1>2 DEF GraphWritten
<1> QED BY <1>3, <1>4, <1>5 DEF GraphInv

LEMMA CardsWrittenKeeps ==
    ASSUME GraphInv, CardsWritten PROVE GraphInv'
<1>1. PICK step, g, cards :
        /\ step = building.step /\ g = building.graph /\ cards = building.cards
        /\ step # "idle" => Linking(g) /\ Joined(g) /\ OfCards(g, cards)
        /\ step = "manifest" => graph = g
  BY DEF GraphInv, BuildingInv
<1>2. step = "manifest" /\ card_manifest' = cards /\ building' = NotBuilding
      /\ asset_version' = asset_version /\ graph' = graph
  BY <1>1 DEF CardsWritten
<1>3. BuildingInv'
  BY <1>2, IdleIsFine
<1>4. OfCards(graph, card_manifest)'
  BY <1>1, <1>2 DEF OfCards
<1>5. (Linking(graph) /\ Joined(graph))'
  BY <1>2 DEF GraphInv, Linking, Joined, Linked
<1> QED BY <1>2, <1>3, <1>4, <1>5 DEF GraphInv

LEMMA BuildKilledKeeps ==
    ASSUME GraphInv, BuildKilled PROVE GraphInv'
<1>1. /\ asset_version' = asset_version /\ graph' = graph /\ card_manifest' = card_manifest
      /\ split' = split /\ building' = NotBuilding
  BY DEF BuildKilled
<1>2. BuildingInv'
  BY <1>1, IdleIsFine
<1> QED BY <1>1, <1>2 DEF GraphInv, Linking, Joined, OfCards, Linked

LEMMA PacksStep ==
    ASSUME GraphInv, [PacksNext]_packs_vars PROVE GraphInv'
<1>1. CASE \E a \in Assets : AssetEdited(a)
  BY <1>1, EditKeeps
<1>2. CASE \E allow \in BOOLEAN : Built(allow)
  BY <1>2, BuiltKeeps
<1>3. CASE GraphWritten
  BY <1>3, GraphWrittenKeeps
<1>4. CASE CardsWritten
  BY <1>4, CardsWrittenKeeps
<1>5. CASE BuildKilled
  BY <1>5, BuildKilledKeeps
<1>6. CASE ServerStarted
  <2>1. UNCHANGED <<asset_version, graph, card_manifest, building, split>>
    BY <1>6 DEF ServerStarted, graph_vars
  <2> QED BY <2>1, GraphInvKept
<1>7. CASE UNCHANGED packs_vars
  <2>1. UNCHANGED <<asset_version, graph, card_manifest, building, split>>
    BY <1>7 DEF packs_vars, graph_vars
  <2> QED BY <2>1, GraphInvKept
<1> QED BY <1>1, <1>2, <1>3, <1>4, <1>5, <1>6, <1>7 DEF PacksNext, GraphNext

LEMMA PacksFollow ==
    ASSUME GraphInv PROVE PacksFollowTheGraph
<1>1. SUFFICES ASSUME ~split, graph.gated, NEW answer \in Answers, answer.assets = OnDisk,
                      NEW i \in DOMAIN answer.whole.recommended,
                      NEW id, id = answer.whole.recommended[i].pattern
               PROVE  /\ Linked(graph, id, {"FIXES"})
                      /\ Edge(id, "CONTRAINDICATED_FOR", answer.whole.task) \in graph.edges =>
                            \E w \in ToSet(answer.whole.anti) : answer.whole.task \in IdsIn[w]
  BY Zenon DEF PacksFollowTheGraph
<1>2. PICK cards : cards = card_manifest
  OBVIOUS
<1>3. answer.assets.patterns = cards
  BY <1>1, <1>2 DEF OnDisk
<1>4. /\ cards # NoManifest /\ answer.assets.failures \in Taxonomies
      /\ \E candidates \in Candidates, failures \in Taxonomies : cards = CardsOf(candidates, failures)
      /\ \E picks, task : IsTask(task) /\ Ranked(picks, cards, answer.query.k) /\ MadeOf(answer, picks, task)
  BY <1>3, AnswersAre
<1>5. PICK candidates \in Candidates, failures \in Taxonomies : cards = CardsOf(candidates, failures)
  BY <1>4
<1>6. PICK picks, task : IsTask(task) /\ Ranked(picks, cards, answer.query.k) /\ MadeOf(answer, picks, task)
  BY <1>4
<1>7. DOMAIN cards = DOMAIN candidates
      /\ \A k \in DOMAIN candidates : IsCard(cards[k]) /\ cards[k].id = candidates[k].id
  BY <1>5, CardsAre
<1>8. OfCards(graph, cards)
  BY <1>1, <1>2, <1>4 DEF GraphInv
<1>9. i \in DOMAIN picks /\ id = picks[i].card.id
  <2>1. PICK best : best = answer.whole.recommended
    OBVIOUS
  <2>2. best \in Seq(ToSet(best)) /\ Len(best) = Len(picks)
    BY <1>6, <2>1 DEF MadeOf
  <2>3. picks \in Seq(ToSet(picks))
    BY <1>6 DEF Ranked
  <2>4. i \in DOMAIN picks
    BY <1>1, <2>1, <2>2, <2>3
  <2> QED BY <1>1, <1>6, <2>4 DEF MadeOf
<1>10. PICK j \in DOMAIN cards : picks[i].card = cards[j]
  BY <1>6, <1>9 DEF Ranked
<1>11. Linked(graph, id, {"FIXES"})
  <2>1. id \in IdsOf(cards)
    BY <1>9, <1>10 DEF IdsOf
  <2>2. id \in DOMAIN graph.nodes /\ graph.nodes[id] = "FixPattern"
    BY <1>8, <2>1 DEF OfCards
  <2> QED BY <1>1, <2>2 DEF GraphInv, Linking
<1>12. ASSUME Edge(id, "CONTRAINDICATED_FOR", answer.whole.task) \in graph.edges
       PROVE  \E w \in ToSet(answer.whole.anti) : answer.whole.task \in IdsIn[w]
  <2>1. PICK e \in graph.edges : e = <<id, "CONTRAINDICATED_FOR", answer.whole.task>>
    BY <1>12 DEF Edge
  <2>2. e[1] = id /\ e[2] = "CONTRAINDICATED_FOR" /\ e[3] = answer.whole.task
    BY <2>1
  <2>3. PICK k \in DOMAIN cards : \E w \in ToSet(cards[k].anti) \cup ToSet(cards[k].contra) :
              cards[k].id = e[1] /\ e[3] \in IdsIn[w]
    BY <1>8, <2>2 DEF OfCards
  <2>4. PICK w \in ToSet(cards[k].anti) \cup ToSet(cards[k].contra) : cards[k].id = e[1] /\ e[3] \in IdsIn[w]
    BY <2>3
  <2>5. Keyed(candidates)
    BY IdsAssumption DEF IdsAssumption, Candidates
  <2>6. k = j
    BY <1>7, <1>9, <1>10, <2>2, <2>4, <2>5 DEF Keyed
  <2>7. ToSet(picks[i].card.contra) \cup ToSet(picks[i].card.anti)
           \subseteq ToSet(Warnings(picks, task, answer.assets.failures))
    <3>1. \A x \in DOMAIN cards : IsCard(cards[x])
      BY <1>7
    <3> QED BY <1>4, <1>6, <1>9, <3>1, WarningsTold
  <2>8. answer.whole.anti = Warnings(picks, task, answer.assets.failures)
    BY <1>6 DEF MadeOf
  <2> QED BY <1>10, <2>2, <2>4, <2>6, <2>7, <2>8
<1> QED BY <1>11, <1>12

\* However the assets are edited, builds are refused or killed and servers are
\* started: the graph on disk is sound, the manifest and the packs are of that
\* graph, and packs share out the budget among the best patterns
\* (graph_builder_v2.py, build_physical_graph.py, task_pack_builder.py).
THEOREM PacksStand == PacksSpec => []PacksStandOnTheGraph
<1>1. PacksInit => GraphInv
  BY GraphInvInit DEF PacksInit
<1>2. GraphInv /\ [PacksNext]_packs_vars => GraphInv'
  BY PacksStep
<1>3. GraphInv => PacksStandOnTheGraph
  <2>1. SUFFICES ASSUME GraphInv PROVE PacksStandOnTheGraph
    OBVIOUS
  <2>2. GraphIsSound
    BY <2>1 DEF GraphInv, Linking, Joined, GraphIsSound, TraceRelations
  <2>3. ManifestIsOfGraph
    BY <2>1 DEF GraphInv, OfCards, ManifestIsOfGraph
  <2> QED BY <2>1, <2>2, <2>3, PacksInOrder, PacksFollow DEF PacksStandOnTheGraph
<1> QED BY <1>1, <1>2, <1>3, PTL DEF PacksSpec

-----------------------------------------------------------------------------
(* The ingest: for any set of pages, any number of runs, edits, reweightings *)
(* and kills, what the manifest, the heuristics table and the bridge say of  *)
(* each other.                                                               *)

\* What may be recorded: it was harvested, holds nothing, came too late to be
\* read, or a run failed to read it.
Good == Thin \cup processed \cup late \cup unread

\* A coroutine knows the content it has read: the page still has it, or got
\* another one since.
PageOK(p) ==
    /\ page[p].at \in {"asked", "found", "done"} =>
          /\ page[p].content \in 1..version[p]
          /\ version[p] = page[p].content \/ <<p, version[p]>> \in late
    /\ page[p].at = "done" => <<p, page[p].content>> \in Thin \cup processed \cup unread
    /\ page[p].at = "found" => <<p, page[p].content>> \in extracted
    /\ page[p].at \in {"asked", "found"} =>
          \A v \in 1..MaxVersion : <<p, v>> \in extracted => v <= page[p].content

\* A content marked "extracted" is stored, or its coroutine is about to store it.
RowOK(p, v) ==
    \/ \E u \in v..MaxVersion : heuristics[Home[p]] = <<p, u>>
    \/ page[p].at = "found" /\ page[p].content = v

\* Pages with ids of their own.
Separate == \A p, q \in Pages : Home[p] = Home[q] => p = q

RowsOK == \A p \in Pages, v \in 1..MaxVersion : <<p, v>> \in extracted \ lost => RowOK(p, v)

\* What a writer of the bridge is about to write has what the file has, unless
\* its copy is outdated.
RunCopyOK ==
    run \in {"merge", "write"} /\ "run" \notin outdated =>
        \A n \in Nodes : bridge[n] # "absent" => merged[n] = bridge[n]

WeighedCopyOK ==
    reweighing # "off" /\ "reweighter" \notin outdated =>
        \A n \in Nodes : bridge[n] # "absent" => weighed[n] \in {bridge[n], "weighted"}

IngestInv ==
    /\ TypeOK
    /\ run # "harvest" => \A p \in Pages : page[p].at = "idle"
    /\ \A p \in Pages : /\ manifest[p] # 0 => <<p, manifest[p]>> \in Good
                        /\ ram[p] # 0 => <<p, ram[p]>> \in Good
    /\ \A p \in Pages : PageOK(p)
    /\ \A p \in Pages, v \in 1..MaxVersion : <<p, v>> \in extracted => v <= version[p]
    /\ Separate => RowsOK
    /\ RunCopyOK
    /\ WeighedCopyOK

-----------------------------------------------------------------------------
LEMMA IngestInvInit == Init => IngestInv
<1> SUFFICES ASSUME Init PROVE IngestInv
    OBVIOUS
<1> USE IngestAssumption DEF Init
<1>1. TypeOK
    <2>1. /\ version \in [Pages -> 1..MaxVersion] /\ manifest \in [Pages -> 0..MaxVersion]
          /\ ram \in [Pages -> 0..MaxVersion]
        OBVIOUS
    <2>2. /\ heuristics \in [Nodes -> Content \cup {NoRow}]
          /\ page \in [Pages -> [at: {"idle", "start", "asked", "found", "done"},
                                 content: 0..MaxVersion]]
        BY DEF Parked
    <2>3. {bridge, merged, weighed} \subseteq [Nodes -> {"absent", "plain", "weighted"}]
        BY DEF NoFile
    <2> QED BY <2>1, <2>2, <2>3 DEF TypeOK
<1>2. \A p \in Pages : PageOK(p)
    BY DEF PageOK, Parked
<1> QED BY <1>1, <1>2 DEF IngestInv, Parked, RowsOK, RunCopyOK, WeighedCopyOK

-----------------------------------------------------------------------------
(* The steps that only move files.                                          *)

LEMMA BridgeStepsKeep ==
    IngestInv /\ (BridgeTruncated \/ BridgeWritten \/ ReweightTruncate \/ ReweightWritten) => IngestInv'
<1> SUFFICES ASSUME IngestInv,
                    BridgeTruncated \/ BridgeWritten \/ ReweightTruncate \/ ReweightWritten
             PROVE  IngestInv'
    OBVIOUS
<1> USE DEF BridgeTruncated, BridgeWritten, ReweightTruncate, ReweightWritten
<1>1. /\ UNCHANGED <<version, manifest, manifestWhole, tables, ram, page, target, runs, crashes, late, unread, lost>>
      /\ (run # "harvest" /\ run' # "harvest") \/ run' = run
    BY DEF history, proc
<1>2. TypeOK'
    <2>1. bridge' \in {bridge, merged, weighed} /\ merged' = merged /\ weighed' \in {weighed, NoFile}
        BY DEF proc, other
    <2>2. NoFile \in [Nodes -> {"absent", "plain", "weighted"}]
        BY DEF NoFile
    <2>3. bridgeWhole' \in BOOLEAN /\ outdated' \subseteq {"run", "reweighter"}
          /\ reweighing' \in {"off", "read", "write"}
          /\ run' \in {"off", "harvest", "muse", "merge", "write", "save", "saving"}
        BY DEF IngestInv, TypeOK, proc, other, history
    <2> QED BY <1>1, <2>1, <2>2, <2>3 DEF IngestInv, TypeOK, tables
<1>3. ASSUME NEW p \in Pages PROVE PageOK(p)'
    BY <1>1 DEF IngestInv, PageOK, tables
<1>4. RowsOK => RowsOK'
    BY <1>1 DEF RowsOK, RowOK, tables
<1>5. RunCopyOK'
    BY DEF IngestInv, RunCopyOK, proc, history
<1>6. WeighedCopyOK'
    BY DEF IngestInv, WeighedCopyOK, other, history
<1> QED BY <1>1, <1>2, <1>3, <1>4, <1>5, <1>6 DEF IngestInv, Good, tables

LEMMA ReweightReadKeeps == IngestInv /\ ReweightRead => IngestInv'
<1> SUFFICES ASSUME IngestInv, ReweightRead PROVE IngestInv'
    OBVIOUS
<1> USE DEF ReweightRead
<1>1. UNCHANGED <<version, files, tables, proc, runs, crashes, late, unread, lost>>
    OBVIOUS
<1>2. PICK ns \in SUBSET {n \in Nodes : bridge[n] = "plain"} :
         weighed' = [n \in Nodes |-> IF n \in ns THEN "weighted" ELSE bridge[n]]
    OBVIOUS
<1>3. weighed' \in [Nodes -> {"absent", "plain", "weighted"}]
    BY <1>2 DEF IngestInv, TypeOK
<1>4. TypeOK'
    <2>1. reweighing' = "read" /\ outdated' \subseteq {"run", "reweighter"}
        BY DEF IngestInv, TypeOK
    <2> QED BY <1>1, <1>3, <2>1 DEF IngestInv, TypeOK, files, tables, proc
<1>5. ASSUME NEW p \in Pages PROVE PageOK(p)'
    BY <1>1 DEF IngestInv, PageOK, tables, proc
<1>6. RowsOK => RowsOK'
    BY <1>1 DEF RowsOK, RowOK, tables, proc
<1>7. RunCopyOK'
    BY <1>1 DEF IngestInv, RunCopyOK, proc, files
<1>8. WeighedCopyOK'
    BY <1>1, <1>2 DEF WeighedCopyOK, files
<1> QED BY <1>1, <1>4, <1>5, <1>6, <1>7, <1>8 DEF IngestInv, Good, tables, files, proc

LEMMA ReweightCrashKeeps == IngestInv /\ ReweightCrash => IngestInv'
<1> SUFFICES ASSUME IngestInv, ReweightCrash PROVE IngestInv'
    OBVIOUS
<1> USE DEF ReweightCrash
<1>1. UNCHANGED <<version, files, tables, proc, runs, history>>
    OBVIOUS
<1>2. TypeOK'
    <2>1. weighed' \in [Nodes -> {"absent", "plain", "weighted"}]
        BY DEF NoFile
    <2>2. crashes' \in 0..MaxCrashes
        BY IngestAssumption DEF IngestInv, TypeOK
    <2> QED BY <1>1, <2>1, <2>2 DEF IngestInv, TypeOK, files, tables, proc, history
<1>3. ASSUME NEW p \in Pages PROVE PageOK(p)'
    BY <1>1 DEF IngestInv, PageOK, tables, proc, history
<1>4. RowsOK => RowsOK'
    BY <1>1 DEF RowsOK, RowOK, tables, proc, history
<1>5. RunCopyOK' /\ WeighedCopyOK'
    BY <1>1 DEF IngestInv, RunCopyOK, WeighedCopyOK, proc, files, history
<1> QED BY <1>1, <1>2, <1>3, <1>4, <1>5 DEF IngestInv, Good, tables, files, proc, history

\* The three steps of the run that touch neither its pages nor the bridge.
LEMMA ManifestStepsKeep == IngestInv /\ (ManifestTruncated \/ ManifestWritten) => IngestInv'
<1> SUFFICES ASSUME IngestInv, ManifestTruncated \/ ManifestWritten PROVE IngestInv'
    OBVIOUS
<1> USE DEF ManifestTruncated, ManifestWritten
<1>1. /\ UNCHANGED <<version, bridge, bridgeWhole, tables, ram, page, target, other, runs, crashes, history>>
      /\ run # "harvest" /\ run' \in {"saving", "off"}
      /\ manifest' \in {manifest, ram}
    BY DEF proc
<1>2. TypeOK'
    <2>1. merged' \in [Nodes -> {"absent", "plain", "weighted"}] /\ manifestWhole' \in BOOLEAN
        BY DEF NoFile, IngestInv, TypeOK
    <2> QED BY <1>1, <2>1 DEF IngestInv, TypeOK, tables, other, history
<1>3. ASSUME NEW p \in Pages PROVE PageOK(p)'
    BY <1>1 DEF IngestInv, PageOK, tables, history
<1>4. RowsOK => RowsOK'
    BY <1>1 DEF RowsOK, RowOK, tables, history
<1>5. RunCopyOK' /\ WeighedCopyOK'
    BY <1>1 DEF IngestInv, RunCopyOK, WeighedCopyOK, other, history
<1> QED BY <1>1, <1>2, <1>3, <1>4, <1>5 DEF IngestInv, Good, tables, other, history

LEMMA MintedKeeps == IngestInv /\ Minted => IngestInv'
<1> SUFFICES ASSUME IngestInv, Minted PROVE IngestInv'
    OBVIOUS
<1> USE DEF Minted
<1>1. UNCHANGED <<version, files, tables, ram, page, other, runs, crashes, late, unread, lost>>
    OBVIOUS
<1>2. PICK added \in SUBSET Nodes :
         /\ added \cap Clusters(Loaded) = {}
         /\ merged' = [n \in Nodes |-> IF n \in added THEN "plain" ELSE Loaded[n]]
         /\ run' \in {"save", "merge"}
    <2>1. PICK minted \in SUBSET target :
             LET new == minted \ Clusters(Loaded)
             IN  /\ merged' = [n \in Nodes |-> IF n \in new THEN "plain" ELSE Loaded[n]]
                 /\ run' = IF new = {} THEN "save" ELSE "merge"
        OBVIOUS
    <2>2. minted \ Clusters(Loaded) \in SUBSET Nodes
        BY DEF IngestInv, TypeOK
    <2> HIDE DEF Minted
    <2> WITNESS minted \ Clusters(Loaded) \in SUBSET Nodes
    <2> QED BY <2>1
<1>3. Loaded \in [Nodes -> {"absent", "plain", "weighted"}]
    BY DEF Loaded, NoFile, IngestInv, TypeOK
<1>4. TypeOK'
    <2>1. merged' \in [Nodes -> {"absent", "plain", "weighted"}]
        BY <1>2, <1>3
    <2>2. outdated' \subseteq {"run", "reweighter"} /\ target' \subseteq Nodes
        BY DEF IngestInv, TypeOK
    <2> QED BY <1>1, <1>2, <2>1, <2>2 DEF IngestInv, TypeOK, files, tables, other
<1>5. ASSUME NEW p \in Pages PROVE PageOK(p)'
    BY <1>1 DEF IngestInv, PageOK, tables
<1>6. RowsOK => RowsOK'
    BY <1>1 DEF RowsOK, RowOK, tables
<1>7. RunCopyOK'
    <2> SUFFICES ASSUME "run" \notin outdated', NEW n \in Nodes, bridge[n] # "absent"
                 PROVE  merged'[n] = bridge[n]
        BY <1>1 DEF RunCopyOK, files
    <2>1. Loaded = bridge
        BY DEF Loaded
    <2>2. n \notin added
        BY <1>2, <2>1 DEF Clusters
    <2> QED BY <1>2, <2>1, <2>2
<1>8. WeighedCopyOK'
    <2>1. "reweighter" \in outdated' <=> "reweighter" \in outdated
        OBVIOUS
    <2> QED BY <1>1, <2>1 DEF IngestInv, WeighedCopyOK, other, files
<1> QED BY <1>1, <1>2, <1>4, <1>5, <1>6, <1>7, <1>8 DEF IngestInv, Good, tables, files, other

-----------------------------------------------------------------------------
(* Edits and the coroutines.                                                *)

LEMMA PageEditKeeps ==
    ASSUME NEW e \in Pages, IngestInv, Edit(e)
    PROVE  IngestInv'
<1> USE IngestAssumption DEF Edit
<1>1. UNCHANGED <<files, tables, proc, other, runs, crashes, unread, lost, outdated>>
    OBVIOUS
<1>2. /\ version' \in [Pages -> 1..MaxVersion] /\ version'[e] = version[e] + 1
      /\ version[e] \in 1..MaxVersion /\ version[e] + 1 \in 1..MaxVersion
      /\ \A p \in Pages \ {e} : version'[p] = version[p]
    BY DEF IngestInv, TypeOK
<1>3. /\ late \subseteq late' /\ late' \subseteq Content
      /\ page[e].at \in {"asked", "found", "done"} => <<e, version'[e]>> \in late'
    BY <1>2 DEF IngestInv, TypeOK, Content
<1> HIDE DEF Edit
<1>4. TypeOK'
    <2>1. version' \in [Pages -> 1..MaxVersion] /\ late' \subseteq Content
        BY <1>2, <1>3
    <2>2. /\ UNCHANGED <<manifest, manifestWhole, bridge, bridgeWhole, processed, extracted, heuristics>>
          /\ UNCHANGED <<run, ram, page, target, merged, weighed, reweighing, runs, crashes, unread, lost, outdated>>
        BY <1>1 DEF files, tables, proc, other
    <2>3. TypeOK
        BY DEF IngestInv
    <2> QED BY <2>1, <2>2, <2>3 DEF TypeOK
<1>5. ASSUME NEW p \in Pages PROVE PageOK(p)'
    <2>1. PageOK(p) /\ page' = page /\ version[p] \in 1..MaxVersion
        BY <1>1 DEF IngestInv, TypeOK, proc
    <2>2. CASE p = e
        BY <1>1, <1>2, <1>3, <2>1, <2>2 DEF PageOK, tables
    <2>3. CASE p # e
        BY <1>1, <1>2, <1>3, <2>1, <2>3 DEF PageOK, tables
    <2> QED BY <2>2, <2>3
<1>6. ASSUME NEW p \in Pages, NEW v \in 1..MaxVersion, <<p, v>> \in extracted'
      PROVE  v <= version'[p]
    <2>1. v <= version[p] /\ version[p] \in 1..MaxVersion
        BY <1>1, <1>6 DEF IngestInv, TypeOK, tables
    <2> QED BY <1>2, <2>1
<1>7. RowsOK => RowsOK'
    BY <1>1 DEF RowsOK, RowOK, tables, proc
<1>8. RunCopyOK' /\ WeighedCopyOK'
    BY <1>1 DEF IngestInv, RunCopyOK, WeighedCopyOK, proc, files, other
<1> QED BY <1>1, <1>3, <1>4, <1>5, <1>6, <1>7, <1>8 DEF IngestInv, Good, tables, files, proc

LEMMA StartKeeps == IngestInv /\ Start => IngestInv'
<1> SUFFICES ASSUME IngestInv, Start PROVE IngestInv'
    OBVIOUS
<1> USE DEF Start
<1>1. UNCHANGED <<version, files, tables, target, merged, other, crashes, history>>
    OBVIOUS
<1>2. /\ page' \in [Pages -> [at: {"idle", "start", "asked", "found", "done"}, content: 0..MaxVersion]]
      /\ \A p \in Pages : page'[p].at \in {"idle", "start"}
    BY IngestAssumption DEF Parked
<1>3. ram' \in [Pages -> 0..MaxVersion] /\ \A p \in Pages : ram'[p] \in {manifest[p], 0}
    BY IngestAssumption DEF LoadedManifest, IngestInv, TypeOK
<1>4. TypeOK'
    <2>1. runs' \in 0..MaxRuns
        BY IngestAssumption DEF IngestInv, TypeOK
    <2>2. run' \in {"off", "harvest", "muse", "merge", "write", "save", "saving"}
        OBVIOUS
    <2> HIDE DEF Start
    <2> QED BY <1>1, <1>2, <1>3, <2>1, <2>2 DEF IngestInv, TypeOK, files, tables, other, history
<1>5. ASSUME NEW p \in Pages PROVE PageOK(p)'
    BY <1>2 DEF PageOK
<1>6. RowsOK => RowsOK'
    BY <1>1 DEF RowsOK, RowOK, tables, history, IngestInv
<1>7. RunCopyOK' /\ WeighedCopyOK'
    BY <1>1 DEF IngestInv, RunCopyOK, WeighedCopyOK, files, other, history
<1> QED BY <1>1, <1>3, <1>4, <1>5, <1>6, <1>7 DEF IngestInv, Good, tables, files, history

\* What the coroutine of page p may change, and what then follows for the pages.
LEMMA CoroutineKeeps ==
    ASSUME NEW p \in Pages, IngestInv, run = "harvest", TypeOK',
           UNCHANGED <<version, files, run, ram, target, merged, other, runs, crashes,
                       late, lost, outdated>>,
           \A q \in Pages \ {p} : page'[q] = page[q], unread \subseteq unread',
           processed \subseteq processed', extracted \subseteq extracted',
           \A q \in Pages \ {p}, v \in 1..MaxVersion : <<q, v>> \in extracted' => <<q, v>> \in extracted,
           \A v \in 1..MaxVersion : <<p, v>> \in extracted' => v <= version[p],
           PageOK(p)',
           Separate => RowsOK'
    PROVE  IngestInv'
<1>1. ASSUME NEW q \in Pages, q # p PROVE PageOK(q)'
    BY <1>1 DEF IngestInv, PageOK
<1>2. \A q \in Pages : PageOK(q)'
    BY <1>1
<1>3. RunCopyOK' /\ WeighedCopyOK'
    BY DEF IngestInv, RunCopyOK, WeighedCopyOK, files, other
<1>4. \A q \in Pages, v \in 1..MaxVersion : <<q, v>> \in extracted' => v <= version'[q]
    BY DEF IngestInv
<1> QED BY <1>2, <1>3, <1>4 DEF IngestInv, Good, files

LEMMA ReadPageKeeps ==
    ASSUME NEW p \in Pages, IngestInv, ReadPage(p)
    PROVE  IngestInv'
<1> USE DEF ReadPage
<1> DEFINE thin == <<p, version[p]>> \in Thin \cup processed
<1>1. /\ version[p] \in 1..MaxVersion
      /\ page \in [Pages -> [at: {"idle", "start", "asked", "found", "done"}, content: 0..MaxVersion]]
    BY DEF IngestInv, TypeOK
<1>2. /\ page' \in [Pages -> [at: {"idle", "start", "asked", "found", "done"}, content: 0..MaxVersion]]
      /\ page'[p] = [at |-> IF thin THEN "done" ELSE "asked", content |-> version[p]]
      /\ \A q \in Pages \ {p} : page'[q] = page[q]
    BY <1>1, IngestAssumption
<1>3. UNCHANGED <<version, files, tables, run, ram, target, merged, other, runs, crashes, history>>
    OBVIOUS
<1> HIDE DEF ReadPage
<1>4. TypeOK'
    BY <1>2, <1>3 DEF IngestInv, TypeOK, files, tables, other, history
<1>5. PageOK(p)'
    BY <1>1, <1>2, <1>3 DEF PageOK, IngestInv, tables
<1>6. Separate => RowsOK'
    BY <1>2, <1>3, SMTT(40) DEF RowsOK, RowOK, IngestInv, tables, history, ReadPage
<1> QED BY <1>2, <1>3, <1>4, <1>5, <1>6, CoroutineKeeps DEF IngestInv, tables, history, ReadPage

LEMMA ReadFailsKeeps ==
    ASSUME NEW p \in Pages, IngestInv, ReadFails(p)
    PROVE  IngestInv'
<1> USE DEF ReadFails
<1>1. /\ version[p] \in 1..MaxVersion
      /\ page \in [Pages -> [at: {"idle", "start", "asked", "found", "done"}, content: 0..MaxVersion]]
    BY DEF IngestInv, TypeOK
<1>2. /\ page' \in [Pages -> [at: {"idle", "start", "asked", "found", "done"}, content: 0..MaxVersion]]
      /\ page'[p] = [at |-> "done", content |-> version[p]] /\ page[p].at = "start"
      /\ \A q \in Pages \ {p} : page'[q] = page[q]
    BY <1>1, IngestAssumption
<1>3. /\ UNCHANGED <<version, files, tables, run, ram, target, merged, other, runs, crashes,
                     late, lost, outdated>>
      /\ unread' = unread \cup {<<p, version[p]>>} /\ unread' \subseteq Flaky /\ run = "harvest"
    BY DEF IngestInv, TypeOK
<1> HIDE DEF ReadFails
<1>4. TypeOK'
    BY <1>2, <1>3 DEF IngestInv, TypeOK, files, tables, other
<1>5. PageOK(p)'
    BY <1>1, <1>2, <1>3 DEF PageOK
<1>6. Separate => RowsOK'
    BY <1>2, <1>3, SMTT(40) DEF RowsOK, RowOK, IngestInv, tables
<1> QED BY <1>2, <1>3, <1>4, <1>5, <1>6, CoroutineKeeps DEF IngestInv, tables

LEMMA NothingExtractedKeeps ==
    ASSUME NEW p \in Pages, IngestInv, NothingExtracted(p)
    PROVE  IngestInv'
<1> USE DEF NothingExtracted
<1>1. page \in [Pages -> [at: {"idle", "start", "asked", "found", "done"}, content: 0..MaxVersion]]
      /\ version[p] \in 1..MaxVersion
    BY DEF IngestInv, TypeOK
<1>2. /\ page' \in [Pages -> [at: {"idle", "start", "asked", "found", "done"}, content: 0..MaxVersion]]
      /\ page'[p].at = "done" /\ page'[p].content = page[p].content
      /\ \A q \in Pages \ {p} : page'[q] = page[q]
    BY <1>1
<1>3. /\ UNCHANGED <<version, files, extracted, heuristics, run, ram, target, merged, other,
                     runs, crashes, history>>
      /\ processed' = processed \cup {<<p, page[p].content>>}
      /\ page[p].at = "asked" /\ page[p].content \in 1..version[p] /\ run = "harvest"
    BY DEF IngestInv, PageOK
<1> HIDE DEF NothingExtracted
<1>4. <<p, page[p].content>> \in Content
    BY <1>1, <1>3 DEF Content
<1>5. TypeOK'
    BY <1>2, <1>3, <1>4 DEF IngestInv, TypeOK, files, other, history
<1>6. PageOK(p)'
    BY <1>2, <1>3 DEF PageOK, IngestInv, history
<1>7. Separate => RowsOK'
    <2> SUFFICES ASSUME Separate, NEW q \in Pages, NEW v \in 1..MaxVersion,
                        <<q, v>> \in extracted' \ lost'
                 PROVE  RowOK(q, v)'
        BY DEF RowsOK
    <2>1. RowOK(q, v)
        BY <1>3 DEF IngestInv, RowsOK, history
    <2>2. \/ \E u \in v..MaxVersion : heuristics[Home[q]] = <<q, u>>
          \/ q # p /\ page[q].at = "found" /\ page[q].content = v
        BY <1>3, <2>1 DEF RowOK
    <2> QED BY <1>2, <1>3, <2>2 DEF RowOK
<1> QED BY <1>2, <1>3, <1>5, <1>6, <1>7, CoroutineKeeps DEF IngestInv, history

LEMMA MarkedKeeps ==
    ASSUME NEW p \in Pages, IngestInv, Marked(p)
    PROVE  IngestInv'
<1> USE DEF Marked
<1>1. page \in [Pages -> [at: {"idle", "start", "asked", "found", "done"}, content: 0..MaxVersion]]
      /\ version[p] \in 1..MaxVersion
    BY DEF IngestInv, TypeOK
<1>2. /\ page' \in [Pages -> [at: {"idle", "start", "asked", "found", "done"}, content: 0..MaxVersion]]
      /\ page'[p].at = "found" /\ page'[p].content = page[p].content
      /\ \A q \in Pages \ {p} : page'[q] = page[q]
    BY <1>1
<1>3. /\ UNCHANGED <<version, files, heuristics, run, ram, target, merged, other,
                     runs, crashes, history>>
      /\ processed' = processed \cup {<<p, page[p].content>>}
      /\ extracted' = extracted \cup {<<p, page[p].content>>}
      /\ page[p].at = "asked" /\ page[p].content \in 1..version[p] /\ run = "harvest"
    BY DEF IngestInv, PageOK
<1> HIDE DEF Marked
<1>4. <<p, page[p].content>> \in Content /\ page[p].content \in 1..MaxVersion
    BY <1>1, <1>3 DEF Content
<1>5. TypeOK'
    BY <1>2, <1>3, <1>4 DEF IngestInv, TypeOK, files, other, history
<1>6. PageOK(p)'
    BY <1>1, <1>2, <1>3, <1>4 DEF PageOK, IngestInv, history
<1>7. Separate => RowsOK'
    <2> SUFFICES ASSUME Separate, NEW q \in Pages, NEW v \in 1..MaxVersion,
                        <<q, v>> \in extracted' \ lost'
                 PROVE  RowOK(q, v)'
        BY DEF RowsOK
    <2>1. CASE <<q, v>> \in extracted
        <3>1. RowOK(q, v)
            BY <1>3, <2>1 DEF IngestInv, RowsOK, history
        <3>2. \/ \E u \in v..MaxVersion : heuristics[Home[q]] = <<q, u>>
              \/ q # p /\ page[q].at = "found" /\ page[q].content = v
            BY <1>3, <3>1 DEF RowOK
        <3> QED BY <1>2, <1>3, <3>2 DEF RowOK
    <2>2. CASE q = p /\ v = page[p].content
        BY <1>2, <2>2 DEF RowOK
    <2> QED BY <1>3, <2>1, <2>2
<1>8. \A v \in 1..MaxVersion : <<p, v>> \in extracted' => v <= version[p]
    BY <1>1, <1>3 DEF IngestInv
<1> QED BY <1>2, <1>3, <1>5, <1>6, <1>7, <1>8, CoroutineKeeps DEF history

LEMMA UpsertedKeeps ==
    ASSUME NEW p \in Pages, IngestInv, Upserted(p)
    PROVE  IngestInv'
<1> USE DEF Upserted
<1>1. page \in [Pages -> [at: {"idle", "start", "asked", "found", "done"}, content: 0..MaxVersion]]
      /\ version[p] \in 1..MaxVersion /\ Home[p] \in Nodes
      /\ heuristics \in [Nodes -> Content \cup {NoRow}]
    BY IngestAssumption DEF IngestInv, TypeOK
<1>2. /\ page' \in [Pages -> [at: {"idle", "start", "asked", "found", "done"}, content: 0..MaxVersion]]
      /\ page'[p].at = "done" /\ page'[p].content = page[p].content
      /\ \A q \in Pages \ {p} : page'[q] = page[q]
    BY <1>1
<1>3. /\ UNCHANGED <<version, files, processed, extracted, run, ram, target, merged, other,
                     runs, crashes, history>>
      /\ heuristics' = [heuristics EXCEPT ![Home[p]] = <<p, page[p].content>>]
      /\ page[p].at = "found" /\ page[p].content \in 1..version[p] /\ run = "harvest"
      /\ <<p, page[p].content>> \in extracted
      /\ \A v \in 1..MaxVersion : <<p, v>> \in extracted => v <= page[p].content
    BY DEF IngestInv, PageOK
<1> HIDE DEF Upserted
<1>4. page[p].content \in 1..MaxVersion /\ <<p, page[p].content>> \in Content
    BY <1>1, <1>3 DEF Content
<1>5. heuristics' \in [Nodes -> Content \cup {NoRow}] /\ heuristics'[Home[p]] = <<p, page[p].content>>
      /\ \A n \in Nodes \ {Home[p]} : heuristics'[n] = heuristics[n]
    BY <1>1, <1>3, <1>4
<1>6. TypeOK'
    BY <1>2, <1>3, <1>5 DEF IngestInv, TypeOK, files, other, history
<1>7. PageOK(p)'
    BY <1>2, <1>3 DEF PageOK, IngestInv, TypeOK, history
<1>8. Separate => RowsOK'
    <2> SUFFICES ASSUME Separate, NEW q \in Pages, NEW v \in 1..MaxVersion,
                        <<q, v>> \in extracted' \ lost'
                 PROVE  RowOK(q, v)'
        BY DEF RowsOK
    <2>1. CASE q = p
        <3>1. v <= page[p].content
            BY <1>3, <2>1
        <3>2. page[p].content \in v..MaxVersion
            BY <1>4, <3>1
        <3> QED BY <1>5, <2>1, <3>2 DEF RowOK
    <2>2. CASE q # p
        <3>1. RowOK(q, v)
            BY <1>3 DEF IngestInv, RowsOK, history
        <3>2. Home[q] \in Nodes \ {Home[p]}
            BY <2>2, IngestAssumption DEF Separate
        <3> QED BY <1>2, <1>5, <2>2, <3>1, <3>2 DEF RowOK
    <2> QED BY <2>1, <2>2
<1> QED BY <1>2, <1>3, <1>6, <1>7, <1>8, CoroutineKeeps DEF IngestInv, history

LEMMA HarvestedKeeps == IngestInv /\ Harvested => IngestInv'
<1> SUFFICES ASSUME IngestInv, Harvested PROVE IngestInv'
    OBVIOUS
<1> USE IngestAssumption DEF Harvested
<1>1. UNCHANGED <<version, files, tables, merged, other, runs, crashes, history>> /\ run' = "muse"
    OBVIOUS
<1>2. /\ page' \in [Pages -> [at: {"idle", "start", "asked", "found", "done"}, content: 0..MaxVersion]]
      /\ \A p \in Pages : page'[p].at = "idle"
    BY DEF Parked
<1>3. ram' \in [Pages -> 0..MaxVersion]
    BY DEF IngestInv, TypeOK
<1>4. ASSUME NEW p \in Pages, ram'[p] # 0 PROVE <<p, ram'[p]>> \in Good'
    <2>1. Good' = Good
        BY <1>1 DEF Good, tables, history
    <2>2. CASE page[p].at = "done"
        <3>1. ram'[p] = version[p]
            BY <2>2
        <3>2. PageOK(p)
            BY DEF IngestInv
        <3> QED BY <2>1, <2>2, <3>1, <3>2 DEF PageOK, Good
    <2>3. CASE page[p].at # "done"
        BY <1>4, <2>1, <2>3 DEF IngestInv
    <2> QED BY <2>2, <2>3
<1>5. TypeOK'
    <2>1. target' \subseteq Nodes
        OBVIOUS
    <2> QED BY <1>1, <1>2, <1>3, <2>1 DEF IngestInv, TypeOK, files, tables, other, history
<1>6. ASSUME NEW p \in Pages PROVE PageOK(p)'
    BY <1>2 DEF PageOK
<1>7. RowsOK => RowsOK'
    <2>1. ASSUME NEW p \in Pages, NEW v \in 1..MaxVersion, RowOK(p, v) PROVE RowOK(p, v)'
        BY <1>1, <2>1 DEF RowOK, tables
    <2> QED BY <1>1, <2>1 DEF RowsOK, tables, history
<1>8. RunCopyOK' /\ WeighedCopyOK'
    BY <1>1 DEF IngestInv, RunCopyOK, WeighedCopyOK, files, other, history
<1>9. \A p \in Pages : manifest'[p] # 0 => <<p, manifest'[p]>> \in Good'
    BY <1>1 DEF IngestInv, Good, files, tables, history
<1> QED BY <1>1, <1>2, <1>4, <1>5, <1>6, <1>7, <1>8, <1>9 DEF IngestInv, tables

LEMMA CrashKeeps == IngestInv /\ Crash => IngestInv'
<1> SUFFICES ASSUME IngestInv, Crash PROVE IngestInv'
    OBVIOUS
<1> USE IngestAssumption DEF Crash
<1>1. UNCHANGED <<version, files, tables, ram, other, runs, late, unread, outdated>> /\ run' = "off"
    OBVIOUS
<1>2. /\ page' \in [Pages -> [at: {"idle", "start", "asked", "found", "done"}, content: 0..MaxVersion]]
      /\ \A p \in Pages : page'[p].at = "idle"
    BY DEF Parked
<1>3. \A p \in Pages : page[p].at = "found" => <<p, page[p].content>> \in extracted
    BY DEF IngestInv, PageOK
<1>4. TypeOK'
    <2>1. crashes' \in 0..MaxCrashes /\ lost' \subseteq extracted
        BY <1>3 DEF IngestInv, TypeOK
    <2>2. merged' \in [Nodes -> {"absent", "plain", "weighted"}] /\ target' \subseteq Nodes
        BY DEF NoFile
    <2> QED BY <1>1, <1>2, <2>1, <2>2 DEF IngestInv, TypeOK, files, tables, other
<1>5. ASSUME NEW p \in Pages PROVE PageOK(p)'
    BY <1>2 DEF PageOK
<1>6. RowsOK => RowsOK'
    <2>1. ASSUME NEW p \in Pages, NEW v \in 1..MaxVersion, RowOK(p, v), <<p, v>> \notin lost'
          PROVE  RowOK(p, v)'
        BY <1>1, <2>1 DEF RowOK, tables
    <2>2. lost \subseteq lost'
        OBVIOUS
    <2> QED BY <1>1, <2>1, <2>2 DEF RowsOK, tables
<1>7. RunCopyOK' /\ WeighedCopyOK'
    BY <1>1 DEF IngestInv, RunCopyOK, WeighedCopyOK, files, other
<1> QED BY <1>1, <1>2, <1>4, <1>5, <1>6, <1>7 DEF IngestInv, Good, files, tables

-----------------------------------------------------------------------------
LEMMA IngestInvNext == IngestInv /\ [Next]_vars => IngestInv'
<1> SUFFICES ASSUME IngestInv, [Next]_vars PROVE IngestInv'
    OBVIOUS
<1>1. CASE Start \/ Harvested \/ Minted \/ Crash
    BY <1>1, StartKeeps, HarvestedKeeps, MintedKeeps, CrashKeeps
<1>2. CASE ManifestTruncated \/ ManifestWritten
    BY <1>2, ManifestStepsKeep
<1>3. CASE BridgeTruncated \/ BridgeWritten \/ ReweightTruncate \/ ReweightWritten
    BY <1>3, BridgeStepsKeep
<1>4. CASE ReweightRead \/ ReweightCrash
    BY <1>4, ReweightReadKeeps, ReweightCrashKeeps
<1>5. ASSUME NEW p \in Pages, \/ Edit(p) \/ ReadPage(p) \/ ReadFails(p) \/ NothingExtracted(p)
                              \/ Marked(p) \/ Upserted(p)
      PROVE  IngestInv'
    BY <1>5, PageEditKeeps, ReadPageKeeps, ReadFailsKeeps, NothingExtractedKeeps,
       MarkedKeeps, UpsertedKeeps
<1>6. CASE UNCHANGED vars
    <2>1. UNCHANGED <<version, files, tables, proc, other, runs, crashes, history>>
        BY <1>6 DEF vars
    <2>2. TypeOK' /\ (\A p \in Pages : PageOK(p))'
        BY <2>1 DEF files, tables, proc, other, history, IngestInv, TypeOK, PageOK
    <2>3. RunCopyOK' /\ WeighedCopyOK'
        BY <2>1 DEF files, proc, other, history, IngestInv, RunCopyOK, WeighedCopyOK
    <2>4. Separate => RowsOK'
        BY <2>1 DEF tables, proc, history, IngestInv, RowsOK, RowOK
    <2> QED BY <2>1, <2>2, <2>3, <2>4 DEF files, tables, proc, history, IngestInv, Good
<1> QED BY <1>1, <1>2, <1>3, <1>4, <1>5, <1>6 DEF Next

\* The inductive invariant: every copy a run or the reweighter holds in memory
\* fits the file it will overwrite (incremental_pipeline.py, bridge_reweighter.py).
THEOREM IngestInvariant == Spec => []IngestInv
<1> QED BY IngestInvInit, IngestInvNext, PTL DEF Spec

\* Every variable of the files, the tables, the run and the reweighter has its
\* type (incremental_pipeline.py, infra.py, bridge_reweighter.py).
THEOREM IngestTypes == Spec => []TypeOK
<1>1. IngestInv => TypeOK
    BY DEF IngestInv
<1> QED BY <1>1, IngestInvariant, PTL

\* What the manifest calls up to date was harvested, or came after its page was
\* read, or could not be read, whatever is edited, killed or reweighted meanwhile
\* and however the coroutines interleave.
THEOREM ManifestIsTrue == Spec => []ManifestTellsTruth
<1>1. IngestInv => ManifestTellsTruth
    BY DEF IngestInv, ManifestTellsTruth, Good
<1> QED BY <1>1, IngestInvariant, PTL

\* Between runs what was marked "extracted" is stored, if no two pages share the
\* id of their heuristic.
THEOREM MarkedIsStored ==
    ASSUME Separate
    PROVE  Spec => []ExtractedIsStored
<1>1. IngestInv => ExtractedIsStored
    <2> SUFFICES ASSUME IngestInv, run = "off", NEW c \in extracted \ lost
                 PROVE  \E v \in c[2]..MaxVersion : heuristics[Home[c[1]]] = <<c[1], v>>
        BY DEF ExtractedIsStored
    <2>1. PICK p \in Pages, v \in 1..MaxVersion : c = <<p, v>>
        BY DEF IngestInv, TypeOK, Content
    <2>2. RowOK(p, v) /\ page[p].at = "idle"
        BY <2>1, Separate DEF IngestInv, RowsOK
    <2> QED BY <2>1, <2>2 DEF RowOK
<1> QED BY <1>1, IngestInvariant, PTL

\* A writer of the bridge drops or unweighs only clusters its copy never had:
\* it could not parse the file, or the other writer finished since.
THEOREM FreshWritersKeep == Spec => KeptByFreshWriters
<1> DEFINE Excused == \/ run = "write" /\ run' = "save" /\ "run" \in outdated
                      \/ /\ reweighing = "write" /\ reweighing' = "off"
                         /\ "reweighter" \in outdated
<1>1. IngestInv /\ [Next]_vars => [Kept \/ Excused]_vars
    <2> SUFFICES ASSUME IngestInv, Next PROVE Kept \/ Excused
        OBVIOUS
    <2>1. CASE UNCHANGED bridge
        BY <2>1 DEF Kept
    <2>2. CASE BridgeWritten
        BY <2>2 DEF BridgeWritten, IngestInv, RunCopyOK, Kept
    <2>3. CASE ReweightWritten
        BY <2>3 DEF ReweightWritten, IngestInv, WeighedCopyOK, Kept
    <2> QED BY <2>1, <2>2, <2>3
        DEF Next, Start, Harvested, Minted, BridgeTruncated, ManifestTruncated, ManifestWritten,
            Crash, ReweightRead, ReweightTruncate, ReweightCrash, Edit, ReadPage, ReadFails,
            NothingExtracted, Marked, Upserted, files
<1> HIDE DEF Excused
<1>2. Spec => [][Kept \/ Excused]_vars
    BY <1>1, IngestInvariant, PTL DEF Spec
<1> QED BY <1>2, PTL DEF KeptByFreshWriters, Excused
=============================================================================
