-------------------------- MODULE Experiments_proofs --------------------------
(***************************************************************************)
(* The offline experiments hold what they promise for any panel, any       *)
(* archive, any number of versions, attempts and kills, the ranking of     *)
(* arms is fair however many trials crash, and what the logs of robots are *)
(* summed up to is what they held: proofs about RoutingRelease,            *)
(* PairedExperiment, PatternMining, ArmRanking and RobotEvents.            *)
(***************************************************************************)
EXTENDS RoutingRelease, PairedExperiment, PatternMining, ArmRanking, RobotEvents, FiniteSums,
        SequenceTheorems

-----------------------------------------------------------------------------
(* The release: what a freeze has written when it is at a step, and what    *)
(* the sums of a manifest were taken of.                                    *)

\* The files a freeze at step n has written.
Written(n) ==
    {f \in BundleFiles :
        \/ f \in {"bridge", "patterns"} /\ n >= 2
        \/ f \in {"health", "shas", "panel"} /\ n >= 3
        \/ f = "result" /\ n >= 4
        \/ f = "policy" /\ n >= 5
        \/ f = "manifest" /\ n >= 7}

\* The directory of a running freeze holds its own files and no other.
FreezeOK == freeze.at # 0 =>
    /\ freeze.health # -1
    /\ \A f \in Written(freeze.at) : bundle[f] # Gone /\ bundle[f][1] = attempt
    /\ \A f \in BundleFiles \ Written(freeze.at) : bundle[f] = Gone
    /\ freeze.at >= 3 => bundle["health"][2] = freeze.health
    /\ freeze.at >= 4 => bundle["result"][2] = TRUE

\* Sums that list a manifest list one whole freeze.
SumsOK == "manifest" \in DOMAIN sums =>
    /\ \A f \in BundleFiles : /\ f \in DOMAIN sums /\ sums[f] # Gone
                              /\ sums[f][1] = sums["manifest"][1]
    /\ sums["result"][2] = TRUE /\ sums["health"][2] # -1

ReleaseInv == ReleaseTypeOK /\ FreezeOK /\ SumsOK

LEMMA ReleaseInitInv == ReleaseAssumption /\ ReleaseInit => ReleaseInv
  BY DEF ReleaseAssumption, ReleaseInit, ReleaseInv, ReleaseTypeOK, FreezeOK, SumsOK,
         NoBundle, NoSums, Idle, BundleFiles

LEMMA ReleaseTypeStep ==
    ReleaseAssumption /\ ReleaseInv /\ [ReleaseNext]_release_vars => ReleaseTypeOK'
<1> SUFFICES ASSUME ReleaseAssumption, ReleaseTypeOK, [ReleaseNext]_release_vars
             PROVE  ReleaseTypeOK'
  BY DEF ReleaseInv
<1> USE DEF ReleaseAssumption, ReleaseTypeOK
<1>1. ASSUME NEW mode \in {"link", "copy"}, Published(mode) PROVE ReleaseTypeOK'
  BY <1>1 DEF Published
<1>2. CASE HowRestarted
  BY <1>2 DEF HowRestarted
<1>3. CASE AssetsChanged
  BY <1>3 DEF AssetsChanged
<1>4. CASE PublishKilled
  BY <1>4 DEF PublishKilled
<1>5. ASSUME NEW force \in BOOLEAN, FreezeStarted(force) PROVE ReleaseTypeOK'
  BY <1>5 DEF FreezeStarted, NoBundle, NoSums
<1>6. CASE RemovalKilled
  BY <1>6 DEF RemovalKilled, NoSums
<1>7. CASE AssetsFrozen
  BY <1>7 DEF AssetsFrozen, Wrote
<1>8. CASE RecordsFrozen
  BY <1>8 DEF RecordsFrozen, Wrote
<1>9. CASE PanelRun
  BY <1>9 DEF PanelRun, Wrote, Idle
<1>10. CASE PolicyFrozen
  BY <1>10 DEF PolicyFrozen, Wrote
<1>11. CASE SumsWritten
  BY <1>11 DEF SumsWritten, Present, Idle
<1>12. CASE ManifestWritten
  BY <1>12 DEF ManifestWritten, Wrote
<1>13. CASE FreezeKilled
  BY <1>13 DEF FreezeKilled, Idle
<1>14. CASE UNCHANGED release_vars
  BY <1>14 DEF release_vars
<1> QED BY <1>1, <1>2, <1>3, <1>4, <1>5, <1>6, <1>7, <1>8, <1>9, <1>10, <1>11, <1>12,
           <1>13, <1>14 DEF ReleaseNext

LEMMA ReleaseStep ==
    ReleaseAssumption /\ ReleaseInv /\ [ReleaseNext]_release_vars => FreezeOK' /\ SumsOK'
<1> SUFFICES ASSUME ReleaseAssumption, ReleaseTypeOK, FreezeOK, SumsOK,
                    [ReleaseNext]_release_vars
             PROVE  FreezeOK' /\ SumsOK'
  BY DEF ReleaseInv
<1>0. freeze.at \in 0..7 /\ freeze.health \in Int /\ freeze = [at |-> freeze.at, health |-> freeze.health]
  BY DEF ReleaseTypeOK
\* A step that touches neither the directory nor the freeze.
<1>1. CASE UNCHANGED <<bundle, sums, freeze, attempt>>
  BY <1>1 DEF FreezeOK, SumsOK
<1>2. CASE HowRestarted \/ AssetsChanged \/ PublishKilled
            \/ (\E mode \in {"link", "copy"} : Published(mode))
  BY <1>1, <1>2 DEF HowRestarted, AssetsChanged, PublishKilled, Published
<1>3. ASSUME NEW force \in BOOLEAN, FreezeStarted(force) PROVE FreezeOK' /\ SumsOK'
  <2>1. /\ freeze'.at = 1 /\ freeze'.health = loaded /\ loaded # -1
        /\ bundle' = NoBundle /\ sums' = NoSums
    BY <1>3 DEF FreezeStarted, Healthy
  <2>2. FreezeOK'
    BY <2>1 DEF FreezeOK, Written, NoBundle
  <2> QED BY <2>1, <2>2 DEF SumsOK, NoSums
<1>4. CASE RemovalKilled
  <2>1. /\ freeze'.at = 0
        /\ sums' = sums \/ sums' = NoSums
    BY <1>4 DEF RemovalKilled, Idle
  <2>2. SumsOK'
    <3>1. CASE sums' = sums
      BY <3>1 DEF SumsOK
    <3>2. CASE sums' = NoSums
      <4>1. DOMAIN sums' = {}
        BY <3>2 DEF NoSums
      <4> QED BY <4>1 DEF SumsOK
    <3> QED BY <2>1, <3>1, <3>2
  <2>3. FreezeOK'
    <3>1. ~(freeze'.at # 0)
      BY <2>1
    <3> QED BY <3>1 DEF FreezeOK
  <2> QED BY <2>2, <2>3
<1>5. CASE AssetsFrozen
  <2>1. /\ freeze.at = 1 /\ freeze'.at = 2 /\ freeze'.health = freeze.health
        /\ attempt' = attempt /\ sums' = sums
        /\ bundle' = [f \in BundleFiles |-> IF f \in {"bridge", "patterns"}
                                            THEN <<attempt, version>> ELSE bundle[f]]
    BY <1>0, <1>5 DEF AssetsFrozen, Wrote
  <2>2. SumsOK'
    BY <2>1 DEF SumsOK
  <2>3. FreezeOK'
    BY <2>1 DEF FreezeOK, Written, Gone
  <2> QED BY <2>2, <2>3
<1>6. CASE RecordsFrozen
  <2>1. /\ freeze.at = 2 /\ freeze'.at = 3 /\ freeze'.health = freeze.health
        /\ attempt' = attempt /\ sums' = sums
        /\ bundle' = [f \in BundleFiles |-> IF f \in {"health", "shas", "panel"}
                                            THEN <<attempt, freeze.health>> ELSE bundle[f]]
    BY <1>0, <1>6 DEF RecordsFrozen, Wrote
  <2>2. SumsOK'
    BY <2>1 DEF SumsOK
  <2>3. FreezeOK'
    BY <2>1 DEF FreezeOK, Written, Gone, BundleFiles
  <2> QED BY <2>2, <2>3
<1>7. CASE PanelRun
  <2>0. attempt' = attempt /\ sums' = sums /\ freeze.at = 3
    BY <1>7 DEF PanelRun
  <2>1. CASE freeze' = Idle
    BY <2>0, <2>1 DEF FreezeOK, SumsOK, Idle
  <2>2. CASE freeze' # Idle
    <3>1. /\ freeze'.at = 4 /\ freeze'.health = freeze.health
          /\ \E passed \in PanelVerdicts : passed /\
               bundle' = [f \in BundleFiles |-> IF f \in {"result"}
                                                THEN <<attempt, passed>> ELSE bundle[f]]
      BY <1>0, <1>7, <2>2 DEF PanelRun, Wrote
    <3>2. PICK passed \in PanelVerdicts : passed /\
               bundle' = [f \in BundleFiles |-> IF f \in {"result"}
                                                THEN <<attempt, passed>> ELSE bundle[f]]
      BY <3>1
    <3>3. passed = TRUE
      BY <3>2 DEF PanelVerdicts, Verdicts, ProbePasses
    <3>4. SumsOK'
      BY <2>0 DEF SumsOK
    <3>5. bundle' = [f \in BundleFiles |-> IF f \in {"result"}
                                           THEN <<attempt, TRUE>> ELSE bundle[f]]
      BY <3>2, <3>3
    <3>6. FreezeOK'
      <4>1. /\ freeze.health # -1
            /\ \A f \in Written(3) : bundle[f] # Gone /\ bundle[f][1] = attempt
            /\ \A f \in BundleFiles \ Written(3) : bundle[f] = Gone
            /\ bundle["health"][2] = freeze.health
        BY <2>0 DEF FreezeOK
      <4>2. /\ Written(4) = Written(3) \cup {"result"}
            /\ Written(4) \subseteq BundleFiles /\ "health" \in BundleFiles \ {"result"}
        BY DEF Written, BundleFiles
      <4>3. /\ bundle'["result"] = <<attempt, TRUE>>
            /\ \A f \in BundleFiles \ {"result"} : bundle'[f] = bundle[f]
        BY <3>5 DEF BundleFiles
      <4>4. \A f \in Written(4) : bundle'[f] # Gone /\ bundle'[f][1] = attempt
        BY <4>1, <4>2, <4>3 DEF Gone
      <4>5. \A f \in BundleFiles \ Written(4) : bundle'[f] = Gone
        BY <4>1, <4>2, <4>3
      <4>6. bundle'["health"][2] = freeze.health /\ bundle'["result"][2] = TRUE
        BY <4>1, <4>2, <4>3
      <4>7. freeze'.at = 4 /\ freeze'.health = freeze.health /\ attempt' = attempt
        BY <2>0, <3>1
      <4> QED BY <4>1, <4>4, <4>5, <4>6, <4>7 DEF FreezeOK
    <3> QED BY <3>4, <3>6
  <2> QED BY <2>1, <2>2
<1>8. CASE PolicyFrozen
  <2>1. /\ freeze.at = 4 /\ freeze'.at = 5 /\ freeze'.health = freeze.health
        /\ attempt' = attempt /\ sums' = sums
        /\ bundle' = [f \in BundleFiles |-> IF f \in {"policy"}
                                            THEN <<attempt, freeze.health>> ELSE bundle[f]]
    BY <1>0, <1>8 DEF PolicyFrozen, Wrote
  <2>2. SumsOK'
    BY <2>1 DEF SumsOK
  <2>3. FreezeOK'
    BY <2>1 DEF FreezeOK, Written, Gone, BundleFiles
  <2> QED BY <2>2, <2>3
<1>9. CASE SumsWritten
  <2>1. bundle' = bundle /\ attempt' = attempt /\ sums' = [f \in Present |-> bundle[f]]
    BY <1>9 DEF SumsWritten
  <2>2. CASE freeze.at = 5
    <3>1. freeze'.at = 6 /\ freeze'.health = freeze.health
      BY <1>0, <1>9, <2>2 DEF SumsWritten
    <3>2. bundle["manifest"] = Gone
      BY <2>2 DEF FreezeOK, Written, BundleFiles
    <3>3. SumsOK'
      BY <2>1, <3>2 DEF SumsOK, Present
    <3>4. FreezeOK'
      BY <2>1, <2>2, <3>1 DEF FreezeOK, Written
    <3> QED BY <3>3, <3>4
  <2>3. CASE freeze.at = 7
    <3>1. freeze' = Idle
      BY <1>9, <2>3 DEF SumsWritten
    <3>2. /\ \A f \in BundleFiles : bundle[f] # Gone /\ bundle[f][1] = attempt
          /\ bundle["result"][2] = TRUE /\ bundle["health"][2] # -1
      BY <2>3 DEF FreezeOK, Written, BundleFiles
    <3>3. SumsOK'
      BY <2>1, <3>2 DEF SumsOK, Present, BundleFiles
    <3> QED BY <3>1, <3>3 DEF FreezeOK, Idle
  <2> QED BY <1>9, <2>2, <2>3 DEF SumsWritten
<1>10. CASE ManifestWritten
  <2>1. /\ freeze.at = 6 /\ freeze'.at = 7 /\ freeze'.health = freeze.health
        /\ attempt' = attempt /\ sums' = sums
        /\ bundle' = [f \in BundleFiles |-> IF f \in {"manifest"}
                                            THEN <<attempt, version>> ELSE bundle[f]]
    BY <1>0, <1>10 DEF ManifestWritten, Wrote
  <2>2. SumsOK'
    BY <2>1 DEF SumsOK
  <2>3. FreezeOK'
    BY <2>1 DEF FreezeOK, Written, Gone, BundleFiles
  <2> QED BY <2>2, <2>3
<1>11. CASE FreezeKilled
  BY <1>11 DEF FreezeKilled, FreezeOK, SumsOK, Idle
<1>12. CASE UNCHANGED release_vars
  BY <1>1, <1>12 DEF release_vars
<1> QED BY <1>2, <1>3, <1>4, <1>5, <1>6, <1>7, <1>8, <1>9, <1>10, <1>11, <1>12
        DEF ReleaseNext

\* The types of the release and of the bundle, and what a freeze relies on.
THEOREM ReleaseInvariant == ReleaseSpec => []ReleaseInv
<1>1. ReleaseInv /\ [ReleaseNext]_release_vars => ReleaseInv'
  BY ReleaseAssumption, ReleaseTypeStep, ReleaseStep DEF ReleaseInv
<1> QED BY <1>1, ReleaseInitInv, ReleaseAssumption, PTL DEF ReleaseSpec

\* A bundle that verifies is one whole freeze whose panel passed, whatever was
\* killed, refused or overwritten and however often the freeze was tried.
THEOREM VerifiedBundle == ReleaseSpec => []VerifiedIsWhole
<1>1. ReleaseInv => VerifiedIsWhole
  <2> SUFFICES ASSUME SumsOK, Verifies
               PROVE  /\ \A f \in BundleFiles : bundle[f] # Gone
                      /\ \A f, g \in BundleFiles : bundle[f][1] = bundle[g][1]
                      /\ bundle["result"][2] /\ bundle["health"][2] # -1
    BY DEF ReleaseInv, VerifiedIsWhole
  <2>1. /\ \A f \in BundleFiles : /\ bundle[f] = sums[f] /\ sums[f] # Gone
                                  /\ sums[f][1] = sums["manifest"][1]
        /\ sums["result"][2] = TRUE /\ sums["health"][2] # -1
    BY DEF SumsOK, Verifies
  <2> QED BY <2>1 DEF BundleFiles
<1> QED BY <1>1, ReleaseInvariant, PTL

-----------------------------------------------------------------------------
(* The paired experiment: a summary is whole only after the replies are     *)
(* final, and its judgments are of those replies.                           *)

\* No reply is written once there is a summary to judge.
SummaryAfterReplies == step \in {"new", "verify"} => summary.state # "whole"

\* Every judgment in a whole summary is one its reply may get, or none yet.
JudgmentsAreOfReplies ==
    summary.state = "whole" =>
        \A t \in Tasks, side \in Sides :
            summary.of[t][side] \in JudgmentsOf(replyFiles[t][side]) \cup {Unjudged}

PairedInv ==
    /\ PairedTypeOK /\ SummaryAfterReplies /\ JudgmentsAreOfReplies
    /\ summary = [state |-> summary.state, of |-> summary.of]

\* Whatever a reply is, its judgments are judgments.
LEMMA JudgmentsTyped ==
    ASSUME NEW r
    PROVE  JudgmentsOf(r) \subseteq JudgedFiles \cup {Unscored(s) : s \in Invalid \cup {"none"}}
  BY DEF JudgmentsOf, Invalid

\* A reply that gets a score passed the gate.
LEMMA ScoredIsNotGated ==
    ASSUME NEW r, NEW j \in JudgmentsOf(r) \cup {Unjudged}, j.status = "scored"
    PROVE  ~Gated(r)
  BY DEF JudgmentsOf, Unjudged, Unscored

LEMMA NotJudgedTyped ==
    /\ NotJudged \in [Tasks -> [Sides -> JudgedFiles \cup {Unscored(s) : s \in Invalid \cup {"none"}}]]
    /\ \A t \in Tasks, side \in Sides : NotJudged[t][side] = Unjudged
  BY DEF NotJudged, Unjudged

LEMMA AgentRepliesTyped == AgentReplies \subseteq Replies
  BY DEF AgentReplies

LEMMA PairedInitInv == PairedInit => PairedInv
<1> SUFFICES ASSUME PairedInit PROVE PairedInv
  OBVIOUS
<1>1. replyFiles \in [Tasks -> [Sides -> Replies \cup {NoFile}]]
  BY DEF PairedInit, NoFiles
<1>2. PairedTypeOK
  BY <1>1, NotJudgedTyped DEF PairedInit, PairedTypeOK
<1> QED BY <1>2 DEF PairedInit, PairedInv, SummaryAfterReplies, JudgmentsAreOfReplies

LEMMA PairedStep == PairedInv /\ [PairedNext]_paired_vars => PairedInv'
<1> SUFFICES ASSUME PairedInv, [PairedNext]_paired_vars PROVE PairedInv'
  OBVIOUS
<1> USE DEF PairedInv
<1>1. CASE RunStarted
  BY <1>1 DEF RunStarted, PairedTypeOK, SummaryAfterReplies, JudgmentsAreOfReplies
<1>2. ASSUME NEW t \in Tasks, Replied(t) PROVE PairedInv'
  <2>1. PICK pair \in [Sides -> AgentReplies] : replyFiles' = [replyFiles EXCEPT ![t] = pair]
    BY <1>2 DEF Replied
  <2>2. step' = step /\ summary' = summary /\ step = "verify"
    BY <1>2 DEF Replied
  <2>3. pair \in [Sides -> Replies \cup {NoFile}]
    BY AgentRepliesTyped
  <2>4. replyFiles' \in [Tasks -> [Sides -> Replies \cup {NoFile}]]
    BY <2>1, <2>3 DEF PairedTypeOK
  <2> QED BY <2>2, <2>4 DEF PairedTypeOK, SummaryAfterReplies, JudgmentsAreOfReplies
<1>3. CASE VerifyKilled
  <2>1. /\ step = "verify" /\ step' = "judge"
        /\ summary' = summary \/ summary' = [summary EXCEPT !.state = "torn"]
    BY <1>3 DEF VerifyKilled
  <2>2. replyFiles' \in [Tasks -> [Sides -> Replies \cup {NoFile}]]
    <3>1. CASE replyFiles' = replyFiles
      BY <3>1 DEF PairedTypeOK
    <3>2. CASE \E t \in Tasks, r \in AgentReplies :
                 replyFiles' = [replyFiles EXCEPT ![t]["control"] = r]
      <4>1. PICK t \in Tasks : \E r \in AgentReplies :
                 replyFiles' = [replyFiles EXCEPT ![t]["control"] = r]
        BY <3>2
      <4>2. PICK r \in AgentReplies : replyFiles' = [replyFiles EXCEPT ![t]["control"] = r]
        BY <4>1
      <4>3. [replyFiles[t] EXCEPT !["control"] = r] \in [Sides -> Replies \cup {NoFile}]
        BY AgentRepliesTyped DEF PairedTypeOK
      <4> QED BY <4>2, <4>3 DEF PairedTypeOK
    <3> QED BY <1>3, <3>1, <3>2 DEF VerifyKilled
  <2>3. summary.state # "whole"
    BY <2>1 DEF SummaryAfterReplies
  <2>4. /\ summary'.of = summary.of /\ summary'.state \in {"missing", "torn"}
        /\ summary' = [state |-> summary'.state, of |-> summary'.of]
    BY <2>1, <2>3 DEF PairedTypeOK
  <2>5. PairedTypeOK'
    BY <2>1, <2>2, <2>4 DEF PairedTypeOK
  <2> QED BY <2>1, <2>4, <2>5 DEF SummaryAfterReplies, JudgmentsAreOfReplies
<1>4. CASE SummaryWritten
  <2>1. /\ summary'.state = "whole" /\ summary'.of = NotJudged
        /\ summary' = [state |-> summary'.state, of |-> summary'.of]
        /\ step' = "judge" /\ replyFiles' = replyFiles
    BY <1>4 DEF SummaryWritten
  <2>2. PairedTypeOK'
    BY <2>1, NotJudgedTyped DEF PairedTypeOK
  <2>3. JudgmentsAreOfReplies'
    BY <2>1, NotJudgedTyped DEF JudgmentsAreOfReplies
  <2> QED BY <2>1, <2>2, <2>3 DEF SummaryAfterReplies
<1>5. CASE Judged
  <2>1. PICK of \in [Tasks -> [Sides -> UNION {JudgmentsOf(r) : r \in Replies \cup {NoFile}}]] :
          /\ \A t \in Tasks, side \in Sides : of[t][side] \in JudgmentsOf(replyFiles[t][side])
          /\ summary' = [summary EXCEPT !.of = of]
    BY <1>5 DEF Judged
  <2>2. /\ summary'.state = "whole" /\ summary'.of = of
        /\ summary' = [state |-> summary'.state, of |-> summary'.of]
        /\ step' = "over" /\ replyFiles' = replyFiles
    BY <1>5, <2>1 DEF Judged
  <2>3. of \in [Tasks -> [Sides -> JudgedFiles \cup {Unscored(s) : s \in Invalid \cup {"none"}}]]
    BY JudgmentsTyped
  <2>4. PairedTypeOK'
    BY <2>2, <2>3 DEF PairedTypeOK
  <2>5. JudgmentsAreOfReplies'
    BY <2>1, <2>2 DEF JudgmentsAreOfReplies
  <2> QED BY <2>2, <2>4, <2>5 DEF SummaryAfterReplies
<1>6. CASE JudgeFailed
  <2>1. /\ step' = "over" /\ replyFiles' = replyFiles
        /\ summary' = summary \/ summary' = [summary EXCEPT !.state = "torn"]
    BY <1>6 DEF JudgeFailed
  <2>2. CASE summary' = summary
    BY <2>1, <2>2 DEF PairedTypeOK, SummaryAfterReplies, JudgmentsAreOfReplies
  <2>3. CASE summary' = [summary EXCEPT !.state = "torn"]
    <3>1. /\ summary'.of = summary.of /\ summary'.state = "torn"
          /\ summary' = [state |-> summary'.state, of |-> summary'.of]
      BY <2>3
    <3> QED BY <2>1, <3>1 DEF PairedTypeOK, SummaryAfterReplies, JudgmentsAreOfReplies
  <2> QED BY <2>1, <2>2, <2>3
<1>7. CASE UNCHANGED paired_vars
  BY <1>7 DEF paired_vars, PairedTypeOK, SummaryAfterReplies, JudgmentsAreOfReplies
<1> QED BY <1>1, <1>2, <1>3, <1>4, <1>5, <1>6, <1>7 DEF PairedNext

\* The types of an experiment, and that a summary is of the replies beside it.
THEOREM PairedInvariant == PairedSpec => []PairedInv
  BY PairedInitInv, PairedStep, PTL DEF PairedSpec

\* The uplift is of replies: for any panel and any scale of scores, the report
\* and the aggregation count the same pairs, and no pair with a side that was
\* never answered, or was answered by a short error marker, is among them.
THEOREM Uplift == PairedSpec => []UpliftIsOfReplies
<1>1. PairedInv => UpliftIsOfReplies
  <2> SUFFICES ASSUME PairedInv PROVE UpliftIsOfReplies
    OBVIOUS
  \* A judgment with a score has no invalid status.
  <2>1. ASSUME NEW t \in Tasks, HasDelta(summary.of[t]) PROVE PairStatus(summary.of[t]) = "valid"
    BY <2>1 DEF HasDelta, PairStatus, Invalid
  <2>2. Reported = Aggregated /\ Aggregated \cap Invalidated = {}
    BY <2>1 DEF Reported, Aggregated, Invalidated
  <2>3. Won \subseteq Aggregated
    BY DEF Won, Aggregated, Verdict
  <2>4. CountedIsReplied
    <3> SUFFICES ASSUME summary.state = "whole", NEW t \in Aggregated, NEW side \in Sides
                 PROVE  replyFiles[t][side] \notin {NoFile, "marker"}
      BY DEF CountedIsReplied
    <3>1. /\ summary.of[t][side].status = "scored"
          /\ summary.of[t][side] \in JudgmentsOf(replyFiles[t][side]) \cup {Unjudged}
      BY DEF Aggregated, HasDelta, PairedInv, JudgmentsAreOfReplies
    <3>2. ~Gated(replyFiles[t][side])
      BY <3>1, ScoredIsNotGated
    <3> QED BY <3>2 DEF Gated
  <2> QED BY <2>2, <2>3, <2>4 DEF UpliftIsOfReplies, ReportsAgree
<1> QED BY <1>1, PairedInvariant, PTL

-----------------------------------------------------------------------------
(* The mining: candidates.                                                  *)

\* The changes a candidate is made of are changes of the program, at least
\* one, and all of the kind the pattern is about.
LEMMA CandidateOK ==
    ASSUME NEW p \in Programs, NEW c \in Mined[p]
    PROVE  /\ c.id \in PatternIds /\ c.id[2] \in Kinds
           /\ c.mutations # {} /\ \A m \in c.mutations : m.kind = c.id[2]
           /\ \E m \in ChangesOf[p] : m.kind = c.id[2]
<1>1. c \in Candidates(p.name, ChangesOf[p])
  BY DEF Mined
<1>2. PICK x \in Extractors : \E r \in Rules[x] :
          /\ Matching(r, ChangesOf[p]) # {}
          /\ c.id = <<x, r.kind>> /\ c.mutations = Matching(r, ChangesOf[p])
  BY <1>1 DEF Candidates
<1>r. PICK r \in Rules[x] :
          /\ Matching(r, ChangesOf[p]) # {}
          /\ c.id = <<x, r.kind>> /\ c.mutations = Matching(r, ChangesOf[p])
  BY <1>2
<1>3. c.id \in PatternIds
  BY <1>r DEF PatternIds
<1>4. \A m \in c.mutations : m \in ChangesOf[p] /\ m.kind = c.id[2]
  BY <1>r DEF Matching
<1>5. PICK m \in c.mutations : TRUE
  BY <1>r
<1>6. \A d \in ChangesOf[p] : d.kind \in Kinds
  <2>1. \A d \in Mutations(p.base, p.cand) : d.kind \in Kinds
    BY DEF Mutations, Naming
  <2> QED BY <2>1 DEF ChangesOf
<1> QED BY <1>r, <1>3, <1>4, <1>5, <1>6

\* A general extractor, or that of PID controllers, finds a time budget and a
\* swap of the optimizer, but in a robotics task that is no PID tuning.
LEMMA LessonFound ==
    ASSUME NEW p \in Programs, NEW k \in LeftToPid, NEW m \in ChangesOf[p], m.kind = k,
           Family(p.name) # "robotics" \/ Looks("pid", p.name, ChangesOf[p])
    PROVE  \E c \in Mined[p] : c.id[2] = k
<1> DEFINE Found(x, r) == [id |-> <<x, r.kind>>,
                           family |-> IF r.family = "task" THEN Family(p.name) ELSE r.family,
                           mutations |-> Matching(r, ChangesOf[p])]
<1>1. ASSUME NEW x \in Extractors, NEW r \in Rules[x], Looks(x, p.name, ChangesOf[p]),
             r.kind = k, r.target = "any",
             r.family = "task" => Family(p.name) # "robotics"
      PROVE  \E c \in Mined[p] : c.id[2] = k
  <2>1. m \in Matching(r, ChangesOf[p])
    BY <1>1 DEF Matching
  <2>2. Found(x, r) \in Candidates(p.name, ChangesOf[p])
    <3> DEFINE Of(y) == {Found(y, q) : q \in {q \in Rules[y] :
                           /\ Looks(y, p.name, ChangesOf[p])
                           /\ Matching(q, ChangesOf[p]) # {}
                           /\ q.family = "task" /\ q.kind \in LeftToPid =>
                                 Family(p.name) # "robotics"}}
    <3>1. Found(x, r) \in Of(x)
      BY <1>1, <2>1
    <3>2. Candidates(p.name, ChangesOf[p]) = UNION {Of(y) : y \in Extractors}
      BY DEF Candidates
    <3> HIDE DEF Of
    <3> QED BY <3>1, <3>2
  <2>3. Found(x, r).id[2] = k
    BY <1>1
  <2> QED BY <2>2, <2>3 DEF Mined
<1>2. /\ {"pid", "systems", "optimizer"} \subseteq Extractors
      /\ Rules["pid"] = PidRules /\ Rules["systems"] = SystemsRules /\ Rules["optimizer"] = OptimizerRules
  BY DEF Extractors, Rules
<1>3. CASE Looks("pid", p.name, ChangesOf[p])
  <2>1. PICK r \in PidRules : r.kind = k /\ r.target = "any" /\ r.family = "robotics"
    BY DEF PidRules, Rule, LeftToPid
  <2> QED BY <1>1, <1>2, <1>3, <2>1
<1>4. CASE ~Looks("pid", p.name, ChangesOf[p])
  <2>1. \A x \in {"systems", "optimizer"} : Looks(x, p.name, ChangesOf[p])
    BY DEF Looks
  <2>2. PICK x \in {"systems", "optimizer"} : \E r \in Rules[x] : r.kind = k /\ r.target = "any"
    <3>1. CASE k = "add_time_budget"
      <4>1. \E r \in SystemsRules : r.kind = k /\ r.target = "any"
        BY <3>1 DEF SystemsRules, Rule
      <4> QED BY <1>2, <4>1
    <3>2. CASE k = "swap_optimizer"
      <4>1. \E r \in OptimizerRules : r.kind = k /\ r.target = "any"
        BY <3>2 DEF OptimizerRules, Rule
      <4> QED BY <1>2, <4>1
    <3> QED BY <3>1, <3>2 DEF LeftToPid
  <2> QED BY <1>1, <1>2, <1>4, <2>1, <2>2
<1> QED BY <1>3, <1>4

-----------------------------------------------------------------------------
(* The mining: what is counted.                                             *)

\* Files is a sum, so the files of a part of the archive are no more than
\* those of the whole, and one program has at least one.
FilesOf(S) == [a \in S |-> a.files]

LEMMA FilesIsSum ==
    ASSUME NEW S, IsFiniteSet(S), \A a \in S : a.files \in Nat
    PROVE  Files(S) = FoldSum(FilesOf(S))
<1>1. PICK f : f = FilesOf(S)
  OBVIOUS
<1>2. DOMAIN f = S /\ \A a \in S : f[a] = a.files /\ f[a] \in Int
  BY <1>1 DEF FilesOf
<1>3. PICK G : G = TheSums(f)
  OBVIOUS
<1>4. SumsOf(G, f, S) /\ FoldSum(f) = G[S]
  BY <1>2, <1>3, SumUnfolded
<1> DEFINE Counts(h) == h = [s \in SUBSET S |-> IF s = {} THEN 0
                                                ELSE First(s).files + h[s \ {First(s)}]]
           h == CHOOSE g : Counts(g)
<1>5. Files(S) = h[S]
  BY DEF Files, MapThenSumSet, MapThenFoldSet, First
<1>6. Counts(G)
  <2>1. Commutes(G, f, S)
    BY <1>2, <1>4, SumsCommute
  <2>2. ASSUME NEW s \in SUBSET S, s # {} PROVE G[s] = First(s).files + G[s \ {First(s)}]
    <3>1. First(s) \in s /\ First(s) \in S /\ s \ {First(s)} \in SUBSET S
      BY <2>2, FirstIn
    <3>2. G[s] = G[s \ {First(s)}] + f[First(s)] /\ G[s \ {First(s)}] \in Int /\ f[First(s)] \in Int
      BY <1>2, <2>1, <3>1 DEF Commutes
    <3> QED BY <1>2, <3>1, <3>2
  <2>3. G[{}] = 0 /\ G = [s \in SUBSET S |-> G[s]]
    BY <1>4 DEF SumsOf
  <2> QED BY <2>2, <2>3
<1>7. Counts(h)
  <2> HIDE DEF Counts
  <2> QED BY <1>6
<1>8. Follows(h, f, S)
  <2>1. \A s \in SUBSET S : s # {} => First(s) \in S
    BY FirstIn
  <2>2. h[{}] = 0 /\ \A s \in SUBSET S : s # {} => h[s] = First(s).files + h[s \ {First(s)}]
    <3> HIDE DEF h
    <3> QED BY <1>7
  <2> HIDE DEF Counts, h
  <2> QED BY <1>2, <2>1, <2>2 DEF Follows
<1>9. \A s \in SUBSET S : h[s] = G[s]
  <2> HIDE DEF h, Counts
  <2> QED BY <1>2, <1>4, <1>8, SumsUnique
<1> QED BY <1>1, <1>4, <1>5, <1>9

LEMMA FilesGrow ==
    ASSUME NEW S, IsFiniteSet(S), \A a \in S : a.files \in Nat, NEW R \in SUBSET S
    PROVE  /\ Files(R) \in Nat /\ Files(S) \in Nat /\ Files(R) <= Files(S)
           /\ \A a \in S : a.files <= Files(S)
<1>1. PICK f : f = FilesOf(S)
  OBVIOUS
<1>2. f \in [S -> Nat] /\ \A a \in S : f[a] = a.files
  BY <1>1 DEF FilesOf
<1>3. On(f, R) = FilesOf(R) /\ IsFiniteSet(R)
  BY <1>1, FS_Subset DEF On, FilesOf
<1>4. Files(S) = FoldSum(f) /\ Files(R) = FoldSum(On(f, R))
  BY <1>1, <1>3, FilesIsSum
<1> QED BY <1>2, <1>4, PartSumsToLess, SumOfOne

-----------------------------------------------------------------------------
(* The mining: catalog and cards.                                           *)

\* What an entry, a card and a program of the archive are, given what was shown.
EntryEarned(id, entry) ==
    /\ id \in PatternIds /\ id[2] \in Kinds
    /\ entry.count \in Nat \ {0} /\ entry.count <= earned[id[2]]
    /\ {m.kind : m \in entry.mutations} = {id[2]}
CardEarned(id, card) ==
    /\ id \in PatternIds /\ id[2] \in Kinds
    /\ card \in CardType /\ card.kinds = {id[2]}
    /\ card.n <= earned[id[2]]
    /\ card.grade = "A" => card.n >= GradeA

ArchiveOK == /\ IsFiniteSet(archive)
             /\ \A a \in archive : a.program \in Programs /\ a.files \in Copies

MiningInv ==
    /\ ArchiveOK
    /\ earned \in [Kinds -> Nat] /\ kills \in 0..MaxKills
    /\ \A id \in DOMAIN catalog : EntryEarned(id, catalog[id])
    /\ \A id \in DOMAIN cards : CardEarned(id, cards[id])
    /\ \A id \in DOMAIN todo : CardEarned(id, todo[id])

LEMMA MiningInitInv == MiningInit => MiningInv
<1> SUFFICES ASSUME MiningInit PROVE MiningInv
  OBVIOUS
<1>1. DOMAIN catalog = {} /\ DOMAIN cards = {} /\ DOMAIN todo = {}
  BY DEF MiningInit
<1>2. ArchiveOK
  BY FS_EmptySet DEF MiningInit, ArchiveOK
<1>3. earned \in [Kinds -> Nat] /\ kills \in 0..MaxKills
  BY MiningAssumption DEF MiningInit
<1> QED BY <1>1, <1>2, <1>3 DEF MiningInv

LEMMA ArchivedStep ==
    ASSUME MiningInv, Archived PROVE MiningInv'
<1>1. PICK p \in Programs, n \in Copies : archive' = archive \cup {[program |-> p, files |-> n]}
  BY DEF Archived
<1>2. ArchiveOK'
  <2>1. IsFiniteSet(archive')
    BY <1>1, FS_AddElement DEF MiningInv, ArchiveOK
  <2> QED BY <1>1, <2>1 DEF MiningInv, ArchiveOK
<1>3. UNCHANGED <<catalog, cards, todo, kills, earned>>
  BY DEF Archived
<1> QED BY <1>2, <1>3 DEF MiningInv, EntryEarned, CardEarned

\* The files behind an entry are of programs that show its kind of change.
Showing(k) == {a \in Trajectories : \E m \in ChangesOf[a.program] : m.kind = k}

LEMMA EntryOfArchive ==
    ASSUME ArchiveOK, NEW id \in Merged
    PROVE  /\ id \in PatternIds /\ id[2] \in Kinds
           /\ Entry(id).count \in Nat \ {0}
           /\ Files(Showing(id[2])) \in Nat /\ Entry(id).count <= Files(Showing(id[2]))
           /\ {m.kind : m \in Entry(id).mutations} = {id[2]}
<1>1. PICK a \in Trajectories : \E c \in Mined[a.program] : c.id = id
  BY DEF Merged
<1>2. a \in Behind(id)
  BY <1>1 DEF Behind
<1>3. \A b \in Trajectories : b.program \in Programs /\ b.files \in Nat \ {0}
  BY MiningAssumption DEF ArchiveOK, Trajectories
<1>4. PICK c \in Mined[a.program] : c.id = id
  BY <1>1
<1>5. id \in PatternIds /\ id[2] \in Kinds
  BY <1>3, <1>4, CandidateOK
<1>6. Behind(id) \in SUBSET Showing(id[2])
  <2> SUFFICES ASSUME NEW b \in Behind(id) PROVE b \in Showing(id[2])
    OBVIOUS
  <2>1. b \in Trajectories /\ \E d \in Mined[b.program] : d.id = id
    BY DEF Behind
  <2>2. \E m \in ChangesOf[b.program] : m.kind = id[2]
    BY <1>3, <2>1, CandidateOK
  <2> QED BY <2>1, <2>2 DEF Showing
<1>7. IsFiniteSet(Showing(id[2])) /\ Showing(id[2]) \subseteq Trajectories
  BY FS_Subset DEF ArchiveOK, Showing, Trajectories
<1>8. Entry(id).count = Files(Behind(id))
  BY DEF Entry, EvidenceCount
<1>9. /\ Files(Behind(id)) \in Nat /\ Files(Showing(id[2])) \in Nat
      /\ Files(Behind(id)) <= Files(Showing(id[2]))
  BY <1>3, <1>6, <1>7, FilesGrow
<1>10. a.files <= Files(Behind(id)) /\ a.files \in Nat \ {0}
  <2>1. IsFiniteSet(Behind(id)) /\ \A b \in Behind(id) : b.files \in Nat
    BY <1>3, <1>6, <1>7, FS_Subset
  <2>2. Behind(id) \in SUBSET Behind(id)
    OBVIOUS
  <2> QED BY <1>1, <1>2, <1>3, <2>1, <2>2, FilesGrow
<1>11. {m.kind : m \in Entry(id).mutations} = {id[2]}
  <2>1. \A m \in Entry(id).mutations : m.kind = id[2]
    <3> SUFFICES ASSUME NEW m \in Entry(id).mutations PROVE m.kind = id[2]
      OBVIOUS
    <3>1. PICK b \in Behind(id) : \E d \in Mined[b.program] : d.id = id /\ m \in d.mutations
      BY DEF Entry
    <3>2. b.program \in Programs
      BY <1>3, <1>6, <1>7
    <3> QED BY <3>1, <3>2, CandidateOK
  <2>2. \E m \in Entry(id).mutations : TRUE
    <3>1. c.mutations # {}
      BY <1>3, <1>4, CandidateOK
    <3>2. c.mutations \subseteq Entry(id).mutations
      BY <1>2, <1>4 DEF Entry
    <3> QED BY <3>1, <3>2
  <2> HIDE DEF Entry
  <2> QED BY <2>1, <2>2
<1> QED BY <1>5, <1>8, <1>9, <1>10, <1>11

LEMMA ExtractedStep ==
    ASSUME MiningInv, Extracted PROVE MiningInv'
<1>1. ArchiveOK /\ IsFiniteSet(Trajectories) /\ \A a \in Trajectories : a.files \in Nat
  BY FS_Subset, MiningAssumption DEF MiningInv, ArchiveOK, Trajectories
<1>2. \A k \in Kinds : Files(Showing(k)) \in Nat
  <2> TAKE k \in Kinds
  <2>1. IsFiniteSet(Showing(k)) /\ \A a \in Showing(k) : a.files \in Nat
    BY <1>1, FS_Subset DEF Showing
  <2>2. Showing(k) \in SUBSET Showing(k)
    OBVIOUS
  <2> QED BY <2>1, <2>2, FilesGrow
<1>3. earned' = [k \in Kinds |-> IF Files(Showing(k)) > earned[k] THEN Files(Showing(k)) ELSE earned[k]]
  BY DEF Extracted, Showing
<1>4. /\ earned' \in [Kinds -> Nat]
      /\ \A k \in Kinds : earned'[k] >= earned[k] /\ earned'[k] >= Files(Showing(k))
  BY <1>2, <1>3 DEF MiningInv
<1>5. UNCHANGED <<archive, cards, todo, kills>>
  BY DEF Extracted
<1>6. \A id \in DOMAIN catalog' : EntryEarned(id, catalog[id])'
  <2> SUFFICES ASSUME NEW id \in Merged PROVE EntryEarned(id, catalog[id])'
    BY DEF Extracted
  <2>1. catalog'[id] = Entry(id)
    BY DEF Extracted
  <2>2. /\ id \in PatternIds /\ id[2] \in Kinds
        /\ Entry(id).count \in Nat \ {0}
        /\ Files(Showing(id[2])) \in Nat /\ Entry(id).count <= Files(Showing(id[2]))
        /\ {m.kind : m \in Entry(id).mutations} = {id[2]}
    BY <1>1, EntryOfArchive
  <2>3. Entry(id).count <= earned'[id[2]]
    BY <1>4, <2>2
  <2> QED BY <2>1, <2>2, <2>3 DEF EntryEarned
<1>7. ASSUME NEW id, NEW card, CardEarned(id, card) PROVE CardEarned(id, card)'
  <2>1. id[2] \in Kinds /\ card.n \in Nat /\ card.n <= earned[id[2]] /\ earned[id[2]] \in Nat
    BY <1>7 DEF CardEarned, CardType, MiningInv
  <2>2. card.n <= earned'[id[2]]
    BY <1>4, <2>1
  <2> QED BY <1>7, <2>2 DEF CardEarned
<1> QED BY <1>4, <1>5, <1>6, <1>7 DEF MiningInv, ArchiveOK

LEMMA RenderedStep ==
    ASSUME MiningInv, Rendered PROVE MiningInv'
<1>1. \A id \in DOMAIN todo' : CardEarned(id, todo'[id])
  <2> SUFFICES ASSUME NEW id \in DOMAIN catalog PROVE CardEarned(id, Card(catalog[id]))
    BY DEF Rendered
  <2>1. EntryEarned(id, catalog[id])
    BY DEF MiningInv
  <2>2. /\ Card(catalog[id]).n = catalog[id].count
        /\ Card(catalog[id]).kinds = {id[2]}
        /\ Card(catalog[id]).grade = "A" => catalog[id].count >= GradeA
        /\ Card(catalog[id]) \in CardType
    BY <2>1 DEF Card, CardType, EntryEarned
  <2> HIDE DEF Card
  <2> QED BY <2>1, <2>2 DEF EntryEarned, CardEarned
<1>2. UNCHANGED <<archive, catalog, cards, kills, earned>>
  BY DEF Rendered
<1> QED BY <1>1, <1>2 DEF MiningInv, ArchiveOK, EntryEarned, CardEarned

LEMMA CardWrittenStep ==
    ASSUME MiningInv, CardWritten PROVE MiningInv'
<1>1. PICK id \in DOMAIN todo :
          /\ cards' = [i \in DOMAIN cards \cup {id} |-> IF i = id THEN todo[id] ELSE cards[i]]
          /\ todo' = [i \in DOMAIN todo \ {id} |-> todo[i]]
  BY DEF CardWritten
<1>2. UNCHANGED <<archive, catalog, kills, earned>>
  BY DEF CardWritten
<1>3. \A i \in DOMAIN cards' : CardEarned(i, cards'[i])
  BY <1>1 DEF MiningInv
<1>4. \A i \in DOMAIN todo' : CardEarned(i, todo'[i])
  BY <1>1 DEF MiningInv
<1> QED BY <1>2, <1>3, <1>4 DEF MiningInv, ArchiveOK, EntryEarned, CardEarned

LEMMA CompileKilledStep ==
    ASSUME MiningInv, CompileKilled PROVE MiningInv'
<1>1. DOMAIN todo' = {} /\ kills' \in 0..MaxKills
  BY MiningAssumption DEF CompileKilled, MiningInv
<1>2. UNCHANGED <<archive, catalog, cards, earned>>
  BY DEF CompileKilled
<1> QED BY <1>1, <1>2 DEF MiningInv, ArchiveOK, EntryEarned, CardEarned

\* A catalog counts what its archive showed, a card what a catalog counted,
\* and "earned" never falls.
THEOREM MiningInvariant == MiningSpec => []MiningInv
<1>1. MiningInv /\ [MiningNext]_mining_vars => MiningInv'
  <2> SUFFICES ASSUME MiningInv, [MiningNext]_mining_vars PROVE MiningInv'
    OBVIOUS
  <2>1. CASE UNCHANGED mining_vars
    BY <2>1 DEF mining_vars, MiningInv, ArchiveOK, EntryEarned, CardEarned
  <2>2. CASE MiningNext
    BY <2>2, ArchivedStep, ExtractedStep, RenderedStep, CardWrittenStep, CompileKilledStep
       DEF MiningNext
  <2> QED BY <2>1, <2>2
<1> QED BY <1>1, MiningInitInv, PTL DEF MiningSpec

\* What the mining keeps is well formed, for any programs and any gates.
THEOREM MiningTyped == MiningSpec => []MiningTypeOK
<1>1. MiningInv => MiningTypeOK
  BY DEF MiningInv, ArchiveOK, EntryEarned, CardEarned, MiningTypeOK
<1> QED BY <1>1, MiningInvariant, PTL

\* A card never claims more trajectories, or a better grade, than one archive
\* showed for its kind of change, and no time budget and no swap of the
\* optimizer outside robotics is overlooked: for any programs, any number of
\* copies, and wherever a compilation is killed.
THEOREM MinedEvidence == MiningSpec => []MinedEvidenceStands
<1>1. MiningInv => CardsAreEarned
  <2> SUFFICES ASSUME MiningInv, NEW id \in DOMAIN cards
               PROVE  /\ cards[id].kinds = {id[2]}
                      /\ cards[id].n <= earned[id[2]]
                      /\ cards[id].grade = "A" => earned[id[2]] >= GradeA
    BY DEF CardsAreEarned
  <2>1. CardEarned(id, cards[id]) /\ earned \in [Kinds -> Nat]
    BY DEF MiningInv
  <2> QED BY <2>1, MiningAssumption DEF CardEarned, CardType
<1>2. MiningInv => LessonsOfOtherFamilies
  <2> SUFFICES ASSUME MiningInv, NEW a \in Trajectories, NEW k \in LeftToPid,
                      NEW m \in ChangesOf[a.program], m.kind = k,
                      Family(a.program.name) # "robotics"
                         \/ Looks("pid", a.program.name, ChangesOf[a.program])
               PROVE  \E c \in Mined[a.program] : c.id[2] = k
    BY DEF LessonsOfOtherFamilies
  <2>1. a.program \in Programs
    BY DEF MiningInv, ArchiveOK, Trajectories
  <2> QED BY <2>1, LessonFound
<1> QED BY <1>1, <1>2, MiningInvariant, PTL DEF MinedEvidenceStands

-----------------------------------------------------------------------------
(* The type invariant.                                                      *)

LEMMA RankInitTyped == RankInit => RankTypeOK
  BY DEF RankInit, RankTypeOK

LEMMA CellRunTyped ==
    ASSUME RankTypeOK, CellRun PROVE RankTypeOK'
<1>1. PICK cell : cell = CHOOSE c \in Cells : TRUE
  OBVIOUS
<1>2. cell \in shape.tasks \X Arms
  BY <1>1 DEF CellRun, Cells
<1>3. PICK ran : ran = {cell[1]} \X {cell[2]} \X shape.seeds
  OBVIOUS
<1>4. UNCHANGED <<shape, direction>>
  BY DEF CellRun
<1>5. PICK f \in [shape.seeds -> Outcomes] :
          results' = [k \in DOMAIN results \cup ran |->
                        IF k \in DOMAIN results THEN results[k] ELSE f[k[3]]]
  BY <1>1, <1>3 DEF CellRun
<1>6. \A k \in ran : k \in Trials /\ f[k[3]] \in Outcomes
  BY <1>2, <1>3 DEF Trials
<1>7. DOMAIN results' \subseteq Trials /\ \A k \in DOMAIN results' : results'[k] \in Outcomes
  BY <1>5, <1>6 DEF RankTypeOK
<1> QED BY <1>4, <1>7 DEF RankTypeOK, Trials, Outcomes

LEMMA RankTyped == RankSpec => []RankTypeOK
<1>1. RankTypeOK /\ [RankNext]_rank_vars => RankTypeOK'
  <2> SUFFICES ASSUME RankTypeOK, [RankNext]_rank_vars PROVE RankTypeOK'
    OBVIOUS
  <2>1. CASE UNCHANGED rank_vars
    BY <2>1 DEF rank_vars, RankTypeOK, Trials, Outcomes
  <2>2. CASE RankNext
    BY <2>2, CellRunTyped DEF RankNext
  <2> QED BY <2>1, <2>2
<1> QED BY <1>1, RankInitTyped, PTL DEF RankSpec

-----------------------------------------------------------------------------
(* Means.                                                                   *)

Placed(t) == Arms \ Missing(t)

LEMMA Sizes ==
    ASSUME RankTypeOK PROVE IsFiniteSet(shape.tasks) /\ IsFiniteSet(shape.seeds)
  BY ArmAssumption DEF RankTypeOK

\* A mean is a sum of integers over at least one trial.
LEMMA MeanOK ==
    ASSUME RankTypeOK, NEW t \in shape.tasks, NEW a \in Placed(t)
    PROVE  Mean(t, a)[1] \in Int /\ Mean(t, a)[2] \in Nat \ {0}
<1>1. PICK S : S = Scored(t, a)
  OBVIOUS
<1>2. IsFiniteSet(S) /\ S # {}
  BY <1>1, Sizes, FS_Subset DEF Scored, Placed, Missing, HasMean
<1>3. \A s \in S : results[<<t, a, s>>][1] \in Int
  <2> TAKE s \in S
  <2>1. results[<<t, a, s>>] \in Outcomes /\ results[<<t, a, s>>] # Crashed
    BY <1>1 DEF Scored, RankTypeOK
  <2>2. PICK p \in shape.points : results[<<t, a, s>>] = <<p>>
    BY <2>1 DEF Outcomes
  <2> QED BY <2>2, ArmAssumption DEF RankTypeOK
<1>4. PICK f : f = [s \in S |-> results[<<t, a, s>>][1]]
  OBVIOUS
<1>5. PICK g : SumsOf(g, f, S)
  BY <1>2, SumsExist
<1> DEFINE Adds(h) == h = [s \in SUBSET S |-> IF s = {} THEN 0
                              ELSE h[s \ {First(s)}] + results[<<t, a, First(s)>>][1]]
           totals == CHOOSE h : Adds(h)
<1>6. Mean(t, a)[1] = totals[S] /\ Mean(t, a)[2] = Cardinality(S)
  BY <1>1 DEF Mean, SumOver, FoldSet, MapThenFoldSet, First
<1>7. \A h : Adds(h) <=> SumsOf(h, f, S)
  <2>1. \A s \in SUBSET S : s # {} => f[First(s)] = results[<<t, a, First(s)>>][1]
    BY <1>4, FirstIn
  <2> QED BY <2>1 DEF SumsOf
<1>8. SumsOf(totals, f, S)
  <2> HIDE DEF Adds
  <2> QED BY <1>5, <1>7
<1>9. totals[S] \in Int
  <2>1. \A s \in S : f[s] \in Int
    BY <1>3, <1>4
  <2> HIDE DEF totals
  <2> QED BY <1>2, <1>8, <2>1, SumsCommute DEF Commutes
<1>10. Cardinality(S) \in Nat \ {0}
  BY <1>2, FS_CardinalityType, FS_EmptySet
<1> HIDE DEF totals
<1> QED BY <1>6, <1>9, <1>10

-----------------------------------------------------------------------------
(* The order of the arms of a task: comparing two means is comparing their  *)
(* cross products, which is transitive since no mean is of nothing.         *)

LEMMA CrossTransitive ==
    ASSUME NEW x \in Int, NEW y \in Int, NEW z \in Int,
           NEW l \in Nat \ {0}, NEW m \in Nat \ {0}, NEW n \in Nat \ {0},
           x * m - y * l >= 0, y * n - z * m >= 0
    PROVE  x * n - z * l >= 0
<1>1. (x * m - y * l) * n >= 0 /\ (y * n - z * m) * l >= 0
  OBVIOUS
<1>2. (x * n - z * l) * m = (x * m - y * l) * n + (y * n - z * m) * l
  OBVIOUS
<1>3. (x * n - z * l) * m >= 0
  BY <1>1, <1>2
<1> QED BY <1>3

LEMMA GapOK ==
    ASSUME RankTypeOK, NEW t \in shape.tasks, NEW a \in Placed(t), NEW b \in Placed(t)
    PROVE  Gap(t, a, b) \in Int /\ Gap(t, b, a) = - Gap(t, a, b) /\ Gap(t, a, a) = 0
<1>1. PICK x, l : x = Mean(t, a)[1] /\ l = Mean(t, a)[2]
  OBVIOUS
<1>2. PICK y, m : y = Mean(t, b)[1] /\ m = Mean(t, b)[2]
  OBVIOUS
<1>3. x \in Int /\ y \in Int /\ l \in Int /\ m \in Int
  BY <1>1, <1>2, MeanOK
<1>4. Gap(t, a, b) = x * m - y * l /\ Gap(t, b, a) = y * l - x * m /\ Gap(t, a, a) = x * l - x * l
  BY <1>1, <1>2 DEF Gap
<1>5. x * m \in Int /\ y * l \in Int /\ x * l \in Int
  BY <1>3
<1> QED BY <1>4, <1>5

LEMMA GapTransitive ==
    ASSUME RankTypeOK, NEW t \in shape.tasks,
           NEW a \in Placed(t), NEW b \in Placed(t), NEW c \in Placed(t),
           Gap(t, a, b) >= 0, Gap(t, b, c) >= 0
    PROVE  Gap(t, a, c) >= 0
<1>1. PICK x, l : x = Mean(t, a)[1] /\ l = Mean(t, a)[2]
  OBVIOUS
<1>2. PICK y, m : y = Mean(t, b)[1] /\ m = Mean(t, b)[2]
  OBVIOUS
<1>3. PICK z, n : z = Mean(t, c)[1] /\ n = Mean(t, c)[2]
  OBVIOUS
<1>4. /\ x \in Int /\ y \in Int /\ z \in Int
      /\ l \in Nat \ {0} /\ m \in Nat \ {0} /\ n \in Nat \ {0}
  BY <1>1, <1>2, <1>3, MeanOK
<1>5. x * m - y * l >= 0 /\ y * n - z * m >= 0
  BY <1>1, <1>2, <1>3 DEF Gap
<1>6. x * n - z * l >= 0
  BY <1>4, <1>5, CrossTransitive
<1> QED BY <1>1, <1>3, <1>6 DEF Gap

\* Means of a task are in one order, and only equal means tie.
LEMMA OrderOK ==
    ASSUME RankTypeOK, NEW t \in shape.tasks,
           NEW a \in Placed(t), NEW b \in Placed(t), NEW c \in Placed(t)
    PROVE  /\ ~(Beats(t, a, b) /\ Beats(t, b, a))
           /\ Gap(t, a, b) = 0 <=> ~Beats(t, a, b) /\ ~Beats(t, b, a)
           /\ ~Beats(t, b, a) /\ ~Beats(t, c, b) => ~Beats(t, c, a)
<1>1. HasMean(t, a) /\ HasMean(t, b) /\ HasMean(t, c)
  BY DEF Placed, Missing
<1>2. /\ Gap(t, a, b) \in Int /\ Gap(t, b, a) = - Gap(t, a, b)
      /\ Gap(t, b, c) \in Int /\ Gap(t, c, b) = - Gap(t, b, c)
      /\ Gap(t, a, c) \in Int /\ Gap(t, c, a) = - Gap(t, a, c)
  BY GapOK
<1>3. Gap(t, a, b) >= 0 /\ Gap(t, b, c) >= 0 => Gap(t, a, c) >= 0
  BY GapTransitive
<1>4. Gap(t, c, b) >= 0 /\ Gap(t, b, a) >= 0 => Gap(t, c, a) >= 0
  BY GapTransitive
<1> QED BY <1>1, <1>2, <1>3, <1>4 DEF Beats

-----------------------------------------------------------------------------
(* Ranks.  Twice the rank of an arm is one more than the arms that beat it  *)
(* and the arms it does not beat, which makes both of them small for a good *)
(* arm.                                                                     *)

\* The arms of S that beat a, and those a does not beat (a is one of them).
Over(t, S, a) == {b \in S : Beats(t, b, a)}
Among(t, S, a) == {b \in S : ~Beats(t, a, b)}
RankIn(t, S, a) == Cardinality(Over(t, S, a)) + Cardinality(Among(t, S, a)) + 1

LEMMA PlacedFinite == \A t : IsFiniteSet(Placed(t)) /\ Placed(t) \subseteq Arms
  BY ArmAssumption, FS_Subset DEF Placed

LEMMA CountsOf ==
    ASSUME NEW t, NEW S, IsFiniteSet(S), NEW a
    PROVE  /\ IsFiniteSet(Over(t, S, a)) /\ Cardinality(Over(t, S, a)) \in Nat
           /\ IsFiniteSet(Among(t, S, a)) /\ Cardinality(Among(t, S, a)) \in Nat
           /\ Cardinality(S) \in Nat
<1>1. IsFiniteSet(Over(t, S, a)) /\ IsFiniteSet(Among(t, S, a))
  BY FS_Subset DEF Over, Among
<1> QED BY <1>1, FS_CardinalityType

\* What the code ranks by is the rank among the arms with a mean.
LEMMA RankIsPosition ==
    ASSUME RankTypeOK, NEW t \in shape.tasks, NEW a \in Placed(t)
    PROVE  TwiceRank(t, a) = RankIn(t, Placed(t), a) /\ TwiceRank(t, a) \in Nat
<1>1. PICK tied : tied = {b \in Placed(t) : Gap(t, a, b) = 0}
  OBVIOUS
<1>2. PICK ahead : ahead = Over(t, Placed(t), a)
  OBVIOUS
<1>3. PICK among : among = Among(t, Placed(t), a)
  OBVIOUS
<1>4. TwiceRank(t, a) = 2 * Cardinality(ahead) + Cardinality(tied) + 1
  <2>1. a \notin Missing(t)
    BY DEF Placed
  <2> QED BY <1>1, <1>2, <2>1 DEF TwiceRank, Over, Placed
<1>5. among = ahead \cup tied /\ ahead \cap tied = {}
  <2>1. \A b \in Placed(t) : /\ ~(Beats(t, a, b) /\ Beats(t, b, a))
                             /\ Gap(t, a, b) = 0 <=> ~Beats(t, a, b) /\ ~Beats(t, b, a)
    BY OrderOK
  <2> QED BY <1>1, <1>2, <1>3, <2>1 DEF Over, Among
<1>6. IsFiniteSet(ahead) /\ IsFiniteSet(tied)
  BY <1>1, <1>2, PlacedFinite, FS_Subset DEF Over
<1>7. Cardinality(among) = Cardinality(ahead) + Cardinality(tied)
  <2>1. Cardinality(ahead \cap tied) = 0
    BY <1>5, FS_EmptySet
  <2>2. Cardinality(ahead \cup tied) = Cardinality(ahead) + Cardinality(tied) - Cardinality(ahead \cap tied)
    BY <1>6, FS_Union
  <2>3. Cardinality(ahead) \in Nat /\ Cardinality(tied) \in Nat
    BY <1>6, FS_CardinalityType
  <2> QED BY <1>5, <2>1, <2>2, <2>3
<1>8. Cardinality(ahead) \in Nat /\ Cardinality(tied) \in Nat
  BY <1>6, FS_CardinalityType
<1>9. RankIn(t, Placed(t), a) = Cardinality(ahead) + Cardinality(among) + 1
  BY <1>2, <1>3 DEF RankIn
<1> QED BY <1>4, <1>7, <1>8, <1>9

LEMMA RankOfMissing ==
    ASSUME NEW t, NEW a \in Missing(t)
    PROVE  /\ TwiceRank(t, a) = 2 * (Cardinality(Placed(t)) + 1)
           /\ Cardinality(Placed(t)) \in Nat /\ TwiceRank(t, a) \in Nat
<1>1. TwiceRank(t, a) = 2 * (Cardinality(Placed(t)) + 1)
  BY DEF TwiceRank, Placed
<1>2. Cardinality(Placed(t)) \in Nat
  BY PlacedFinite, FS_CardinalityType
<1> QED BY <1>1, <1>2

LEMMA RankIsNat ==
    ASSUME RankTypeOK, NEW t \in shape.tasks, NEW a \in Arms PROVE TwiceRank(t, a) \in Nat
<1>1. CASE a \in Placed(t)
  BY <1>1, RankIsPosition
<1>2. CASE a \in Missing(t)
  BY <1>2, RankOfMissing
<1> QED BY <1>1, <1>2 DEF Placed

\* Fewer arms beat, and more arms fall to, an arm that is at least as good.
LEMMA BetterIsAhead ==
    ASSUME RankTypeOK, NEW t \in shape.tasks, NEW a \in Placed(t), NEW b \in Placed(t),
           ~Beats(t, b, a)
    PROVE  /\ TwiceRank(t, a) <= TwiceRank(t, b)
           /\ TwiceRank(t, a) < TwiceRank(t, b) <=> Beats(t, a, b)
<1>1. PICK S : S = Placed(t)
  OBVIOUS
<1>2. /\ TwiceRank(t, a) = Cardinality(Over(t, S, a)) + Cardinality(Among(t, S, a)) + 1
      /\ TwiceRank(t, b) = Cardinality(Over(t, S, b)) + Cardinality(Among(t, S, b)) + 1
  BY <1>1, RankIsPosition DEF RankIn
<1>3. /\ IsFiniteSet(Over(t, S, b)) /\ Cardinality(Over(t, S, a)) \in Nat /\ Cardinality(Over(t, S, b)) \in Nat
      /\ IsFiniteSet(Among(t, S, b)) /\ Cardinality(Among(t, S, a)) \in Nat /\ Cardinality(Among(t, S, b)) \in Nat
  BY <1>1, PlacedFinite, CountsOf
<1>4. Over(t, S, a) \subseteq Over(t, S, b) /\ Among(t, S, a) \subseteq Among(t, S, b)
  <2>1. ASSUME NEW c \in S, Beats(t, c, a) PROVE Beats(t, c, b)
    BY <1>1, <2>1, OrderOK
  <2>2. ASSUME NEW c \in S, ~Beats(t, a, c) PROVE ~Beats(t, b, c)
    BY <1>1, <2>2, OrderOK
  <2> QED BY <2>1, <2>2 DEF Over, Among
<1>5. /\ Cardinality(Over(t, S, a)) <= Cardinality(Over(t, S, b))
      /\ Cardinality(Among(t, S, a)) <= Cardinality(Among(t, S, b))
      /\ Over(t, S, a) # Over(t, S, b) => Cardinality(Over(t, S, a)) # Cardinality(Over(t, S, b))
  BY <1>3, <1>4, FS_Subset
<1>6. CASE Beats(t, a, b)
  <2>1. a \in Over(t, S, b) /\ a \notin Over(t, S, a)
    BY <1>1, <1>6, OrderOK DEF Over
  <2> QED BY <1>2, <1>3, <1>5, <1>6, <2>1
<1>7. CASE ~Beats(t, a, b)
  <2>1. Over(t, S, a) = Over(t, S, b) /\ Among(t, S, a) = Among(t, S, b)
    <3>1. ASSUME NEW c \in S, Beats(t, c, b) PROVE Beats(t, c, a)
      BY <1>1, <1>7, <3>1, OrderOK
    <3>2. ASSUME NEW c \in S, ~Beats(t, b, c) PROVE ~Beats(t, a, c)
      BY <1>1, <1>7, <3>2, OrderOK
    <3> QED BY <1>4, <3>1, <3>2 DEF Over, Among
  <2> QED BY <1>2, <1>3, <1>7, <2>1
<1> QED BY <1>6, <1>7

\* An arm that is not worse has no higher rank, and a lower one exactly if the
\* other is worse.
LEMMA RankDecides ==
    ASSUME RankTypeOK, NEW t \in shape.tasks, NEW a \in Arms, NEW b \in Arms, NotWorse(t, a, b)
    PROVE  /\ TwiceRank(t, a) <= TwiceRank(t, b)
           /\ TwiceRank(t, a) < TwiceRank(t, b) <=> ~NotWorse(t, b, a)
<1>1. \A c \in Arms : c \in Placed(t) <=> HasMean(t, c)
  BY DEF Placed, Missing
<1>2. \A c, d : Beats(t, c, d) => HasMean(t, c) /\ HasMean(t, d)
  BY DEF Beats
<1>3. CASE a \in Placed(t) /\ b \in Placed(t)
  BY <1>1, <1>3, BetterIsAhead DEF NotWorse
<1>4. CASE a \in Placed(t) /\ b \notin Placed(t)
  <2>1. PICK S : S = Placed(t)
    OBVIOUS
  <2>2. TwiceRank(t, b) = 2 * (Cardinality(S) + 1) /\ Cardinality(S) \in Nat
    BY <1>4, <2>1, RankOfMissing DEF Placed
  <2>3. TwiceRank(t, a) = Cardinality(Over(t, S, a)) + Cardinality(Among(t, S, a)) + 1
    BY <1>4, <2>1, RankIsPosition DEF RankIn
  <2>4. Cardinality(Over(t, S, a)) <= Cardinality(S) /\ Cardinality(Among(t, S, a)) <= Cardinality(S)
    BY <2>1, PlacedFinite, FS_Subset DEF Over, Among
  <2>5. Cardinality(Over(t, S, a)) \in Nat /\ Cardinality(Among(t, S, a)) \in Nat
    BY <2>1, PlacedFinite, CountsOf
  <2>6. ~NotWorse(t, b, a)
    BY <1>1, <1>4 DEF NotWorse
  <2>7. TwiceRank(t, a) < TwiceRank(t, b)
    BY <2>2, <2>3, <2>4, <2>5
  <2> QED BY <2>6, <2>7, RankIsNat
<1>5. CASE a \notin Placed(t)
  <2>1. ~HasMean(t, a) /\ ~HasMean(t, b)
    BY <1>1, <1>5 DEF NotWorse
  <2>2. NotWorse(t, b, a)
    BY <1>2, <2>1 DEF NotWorse
  <2>3. a \in Missing(t) /\ b \in Missing(t)
    BY <2>1 DEF Missing
  <2>4. TwiceRank(t, a) = TwiceRank(t, b) /\ TwiceRank(t, a) \in Nat
    BY <2>3, RankOfMissing
  <2> QED BY <2>2, <2>4
<1> QED BY <1>3, <1>4, <1>5

-----------------------------------------------------------------------------
(* Sums of ranks.                                                           *)

\* avg_rank sums the ranks of an arm over the tasks.
RanksOf(a) == [t \in shape.tasks |-> TwiceRank(t, a)]

LEMMA RankSumIsSum ==
    ASSUME RankTypeOK, NEW a \in Arms
    PROVE  RankSum(a) = FoldSum(RanksOf(a)) /\ RanksOf(a) \in [shape.tasks -> Nat]
<1>1. PICK D : D = shape.tasks
  OBVIOUS
<1>2. PICK f : f = RanksOf(a)
  OBVIOUS
<1>3. IsFiniteSet(D) /\ f \in [D -> Nat] /\ \A t \in D : f[t] = TwiceRank(t, a)
  BY <1>1, <1>2, Sizes, RankIsNat DEF RanksOf
<1>4. PICK g : SumsOf(g, f, D)
  BY <1>3, SumsExist
<1> DEFINE Adds(h) == h = [s \in SUBSET D |-> IF s = {} THEN 0
                              ELSE h[s \ {First(s)}] + TwiceRank(First(s), a)]
           totals == CHOOSE h : Adds(h)
<1>5. RankSum(a) = totals[D]
  BY <1>1 DEF RankSum, FoldSet, MapThenFoldSet, First
<1>6. \A h : Adds(h) <=> SumsOf(h, f, D)
  <2>1. \A s \in SUBSET D : s # {} => f[First(s)] = TwiceRank(First(s), a)
    BY <1>3, FirstIn
  <2> QED BY <2>1 DEF SumsOf
<1>7. SumsOf(totals, f, D)
  <2> HIDE DEF Adds
  <2> QED BY <1>4, <1>6
<1> HIDE DEF totals
<1>8. Follows(totals, f, D)
  BY <1>7 DEF SumsOf, Follows
<1>9. DOMAIN f = D /\ \A t \in D : f[t] \in Int
  BY <1>3
<1>10. FoldSum(f) = totals[D]
  BY <1>3, <1>8, <1>9, SumKnown
<1> QED BY <1>1, <1>2, <1>3, <1>5, <1>10

\* Dominance decides between two arms.
LEMMA DominanceOfRanks == RankTypeOK => DominanceDecides
<1> SUFFICES ASSUME RankTypeOK, NEW a \in Arms, NEW b \in Arms,
                    \A t \in shape.tasks : NotWorse(t, a, b)
             PROVE  Outranks(a, b) <=> \E t \in shape.tasks : ~NotWorse(t, b, a)
  BY DEF DominanceDecides
<1>1. PICK f : f = RanksOf(a)
  OBVIOUS
<1>2. PICK g : g = RanksOf(b)
  OBVIOUS
<1>3. PICK D : D = shape.tasks
  OBVIOUS
<1>4. /\ f \in [D -> Nat] /\ g \in [D -> Nat] /\ IsFiniteSet(D)
      /\ RankSum(a) = FoldSum(f) /\ RankSum(b) = FoldSum(g)
  BY <1>1, <1>2, <1>3, RankSumIsSum, Sizes
<1>5. \A t \in D : f[t] <= g[t] /\ (f[t] < g[t] <=> ~NotWorse(t, b, a))
  BY <1>1, <1>2, <1>3, RankDecides DEF RanksOf
<1>6. CASE \E t \in D : ~NotWorse(t, b, a)
  <2>1. PICK t \in D : f[t] < g[t]
    BY <1>5, <1>6
  <2>2. FoldSum(f) \in Nat /\ FoldSum(g) \in Nat /\ FoldSum(f) - f[t] <= FoldSum(g) - g[t]
    BY <1>4, <1>5, SumGrows
  <2>3. f[t] \in Nat /\ g[t] \in Nat
    BY <1>4
  <2>4. FoldSum(f) < FoldSum(g)
    BY <2>1, <2>2, <2>3
  <2> QED BY <1>3, <1>4, <1>6, <2>4 DEF Outranks
<1>7. CASE \A t \in D : NotWorse(t, b, a)
  <2>1. \A t \in D : f[t] = g[t]
    BY <1>4, <1>5, <1>7
  <2>2. f = g
    BY <1>4, <2>1
  <2>3. FoldSum(f) \in Nat
    BY <1>4, SumNat
  <2> QED BY <1>3, <1>4, <1>7, <2>2, <2>3 DEF Outranks
<1> QED BY <1>6, <1>7

\* Of two arms, one beats the other or both are among those it does not beat,
\* so the ranks of any arms among themselves add up to the same.
LEMMA RanksAmong ==
    ASSUME RankTypeOK, NEW t \in shape.tasks, NEW S \in SUBSET Placed(t)
    PROVE  FoldSum([a \in S |-> RankIn(t, S, a)]) = Cardinality(S) * (Cardinality(S) + 1)
<1>1. PICK D : D = Placed(t)
  OBVIOUS
<1> DEFINE Ranks(s) == [a \in s |-> RankIn(t, s, a)]
           Good == {s \in SUBSET D : FoldSum(Ranks(s)) = Cardinality(s) * (Cardinality(s) + 1)}
<1>2. IsFiniteSet(D) /\ \A s \in SUBSET D : IsFiniteSet(s)
  BY <1>1, PlacedFinite, FS_Subset
<1>3. {} \in Good
  <2>1. Ranks({}) = [x \in {} |-> 0]
    OBVIOUS
  <2>2. FoldSum([x \in {} |-> 0]) = 0
    BY <1>2, SumOfNone
  <2>3. FoldSum(Ranks({})) = 0 /\ Cardinality({}) = 0
    BY <2>1, <2>2, FS_EmptySet
  <2> HIDE DEF Ranks
  <2> QED BY <2>3
<1>4. ASSUME NEW s \in SUBSET D, s # {}, s \ {First(s)} \in Good PROVE s \in Good
  <2>1. PICK x \in s : x = First(s)
    BY <1>4, FirstIn
  <2>2. PICK r : r = s \ {x}
    OBVIOUS
  <2>3. IsFiniteSet(s) /\ IsFiniteSet(r) /\ x \notin r /\ r \subseteq s /\ s = r \cup {x}
    BY <1>2, <2>2
  <2>4. Cardinality(s) = Cardinality(r) + 1 /\ Cardinality(r) \in Nat
    BY <2>3, FS_AddElement, FS_CardinalityType
  <2>5. FoldSum(Ranks(r)) = Cardinality(r) * (Cardinality(r) + 1)
    BY <1>4, <2>1, <2>2
  <2>6. PICK lost : lost = {a \in r : Beats(t, x, a)}
    OBVIOUS
  <2>7. PICK kept : kept = {a \in r : ~Beats(t, a, x)}
    OBVIOUS
  <2>8. PICK l : l = [a \in r |-> IF a \in lost THEN 1 ELSE 0]
    OBVIOUS
  <2>9. PICK k : k = [a \in r |-> IF a \in kept THEN 1 ELSE 0]
    OBVIOUS
  <2>10. /\ FoldSum(l) = Cardinality(lost) /\ FoldSum(k) = Cardinality(kept)
         /\ lost \in SUBSET r /\ kept \in SUBSET r
    BY <2>3, <2>6, <2>7, <2>8, <2>9, SumOfOnes
  <2>11. \A a \in s : ~Beats(t, a, a)
    BY <1>1, OrderOK
  \* x adds one or two to the rank of an arm it is not beaten by.
  <2>12. ASSUME NEW a \in r PROVE RankIn(t, s, a) = RankIn(t, r, a) + l[a] + k[a]
    <3>1. /\ Over(t, s, a) = IF Beats(t, x, a) THEN Over(t, r, a) \cup {x} ELSE Over(t, r, a)
          /\ Among(t, s, a) = IF Beats(t, a, x) THEN Among(t, r, a) ELSE Among(t, r, a) \cup {x}
          /\ x \notin Over(t, r, a) /\ x \notin Among(t, r, a)
      BY <2>3 DEF Over, Among
    <3>2. /\ IsFiniteSet(Over(t, r, a)) /\ Cardinality(Over(t, r, a)) \in Nat
          /\ IsFiniteSet(Among(t, r, a)) /\ Cardinality(Among(t, r, a)) \in Nat
      BY <2>3, CountsOf
    <3>3. Cardinality(Over(t, s, a)) = Cardinality(Over(t, r, a)) + l[a]
      <4>1. l[a] = IF Beats(t, x, a) THEN 1 ELSE 0
        BY <2>6, <2>8, <2>12
      <4>2. Cardinality(Over(t, r, a) \cup {x}) = Cardinality(Over(t, r, a)) + 1
        BY <3>1, <3>2, FS_AddElement
      <4> QED BY <3>1, <3>2, <4>1, <4>2
    <3>4. Cardinality(Among(t, s, a)) = Cardinality(Among(t, r, a)) + k[a]
      <4>1. k[a] = IF Beats(t, a, x) THEN 0 ELSE 1
        BY <2>7, <2>9, <2>12
      <4>2. Cardinality(Among(t, r, a) \cup {x}) = Cardinality(Among(t, r, a)) + 1
        BY <3>1, <3>2, FS_AddElement
      <4> QED BY <3>1, <3>2, <4>1, <4>2
    <3>5. l[a] \in Nat /\ k[a] \in Nat
      BY <2>8, <2>9
    <3> QED BY <3>2, <3>3, <3>4, <3>5 DEF RankIn
  \* The rank of x itself.
  <2>13. RankIn(t, s, x) = Cardinality(r \ kept) + Cardinality(r \ lost) + 2
    <3>1. Over(t, s, x) = r \ kept
      BY <2>3, <2>7, <2>11 DEF Over
    <3>2. Among(t, s, x) = (r \ lost) \cup {x}
      BY <2>3, <2>6, <2>11 DEF Among
    <3>3. IsFiniteSet(r \ lost) /\ IsFiniteSet(r \ kept)
      BY <2>3, FS_Subset
    <3>4. Cardinality((r \ lost) \cup {x}) = Cardinality(r \ lost) + 1
      BY <2>3, <3>3, FS_AddElement
    <3>5. Cardinality(r \ lost) \in Nat /\ Cardinality(r \ kept) \in Nat
      BY <3>3, FS_CardinalityType
    <3> QED BY <3>1, <3>2, <3>4, <3>5 DEF RankIn
  <2>14. /\ Cardinality(r \ lost) = Cardinality(r) - Cardinality(lost)
         /\ Cardinality(r \ kept) = Cardinality(r) - Cardinality(kept)
         /\ Cardinality(lost) \in Nat /\ Cardinality(kept) \in Nat
    <3>1. IsFiniteSet(lost) /\ IsFiniteSet(kept)
      BY <2>3, <2>10, FS_Subset
    <3>2. r \cap lost = lost /\ r \cap kept = kept
      BY <2>10
    <3> QED BY <2>3, <3>1, <3>2, FS_Difference, FS_CardinalityType
  <2>15. RankIn(t, s, x) = 2 * Cardinality(r) - Cardinality(lost) - Cardinality(kept) + 2
    BY <2>4, <2>13, <2>14
  <2>16. PICK f : f = Ranks(s)
    OBVIOUS
  <2>17. PICK g : g = Ranks(r)
    OBVIOUS
  <2>18. /\ f \in [s -> Nat] /\ g \in [r -> Nat] /\ l \in [r -> Nat] /\ k \in [r -> Nat]
         /\ \A a \in s : f[a] = RankIn(t, s, a)
         /\ \A a \in r : g[a] = RankIn(t, r, a)
    <3>1. \A a : RankIn(t, s, a) \in Nat /\ RankIn(t, r, a) \in Nat
      BY <2>3, CountsOf DEF RankIn
    <3> QED BY <2>8, <2>9, <2>16, <2>17, <3>1
  <2> HIDE DEF Ranks
  <2>19. /\ FoldSum(f) \in Int /\ FoldSum(On(f, r)) \in Int
         /\ FoldSum(f) = FoldSum(On(f, r)) + f[x]
    <3>1. DOMAIN f = s /\ \A d \in s : f[d] \in Int
      BY <2>18
    <3> QED BY <2>2, <2>3, <3>1, SumWithout
  <2>20. PICK i : i = [a \in r |-> l[a] + k[a]]
    OBVIOUS
  <2>21. i \in [r -> Nat] /\ \A a \in r : i[a] = l[a] + k[a]
    BY <2>18, <2>20
  <2>22. FoldSum(i) = Cardinality(lost) + Cardinality(kept)
    BY <2>3, <2>10, <2>18, <2>21, SumAdds
  <2>23. On(f, r) \in [r -> Nat] /\ \A a \in r : On(f, r)[a] = g[a] + i[a]
    <3>1. \A a \in r : On(f, r)[a] = f[a] /\ f[a] = RankIn(t, s, a) /\ f[a] \in Nat
      BY <2>3, <2>18 DEF On
    <3>2. \A a \in r : f[a] = g[a] + i[a]
      <4> TAKE a \in r
      <4>1. f[a] = RankIn(t, r, a) + l[a] + k[a] /\ g[a] = RankIn(t, r, a) /\ i[a] = l[a] + k[a]
        BY <2>12, <2>18, <2>21, <3>1
      <4>2. g[a] \in Nat /\ l[a] \in Nat /\ k[a] \in Nat
        BY <2>18
      <4> QED BY <4>1, <4>2
    <3> QED BY <3>1, <3>2 DEF On
  <2>24. FoldSum(On(f, r)) = FoldSum(g) + FoldSum(i)
    <3>1. PICK o : o = On(f, r)
      OBVIOUS
    <3>2. o \in [r -> Nat] /\ \A a \in r : o[a] = g[a] + i[a]
      BY <2>23, <3>1
    <3>3. FoldSum(o) = FoldSum(g) + FoldSum(i)
      <4>1. IsFiniteSet(r) /\ g \in [r -> Nat] /\ i \in [r -> Nat]
        BY <2>3, <2>18, <2>21
      <4> QED BY <3>2, <4>1, SumAdds
    <3> QED BY <3>1, <3>3
  <2>25. FoldSum(f) = Cardinality(r) * (Cardinality(r) + 1) + 2 * Cardinality(r) + 2
    <3>1. FoldSum(g) = Cardinality(r) * (Cardinality(r) + 1)
      BY <2>5, <2>17
    <3>2. f[x] = 2 * Cardinality(r) - Cardinality(lost) - Cardinality(kept) + 2
      BY <2>15, <2>18
    <3>3. Cardinality(r) * (Cardinality(r) + 1) \in Int
      BY <2>4
    <3> QED BY <2>4, <2>14, <2>19, <2>22, <2>24, <3>1, <3>2, <3>3
  <2>26. FoldSum(f) = Cardinality(s) * (Cardinality(s) + 1)
    BY <2>4, <2>25
  <2> QED BY <2>16, <2>26
<1>5. SUBSET D \subseteq Good
  <2> HIDE DEF Good
  <2> QED BY <1>2, <1>3, <1>4, SubsetInduction
<1> QED BY <1>1, <1>5

LEMMA RanksOfTask == RankTypeOK => RanksAddUp
<1> SUFFICES ASSUME RankTypeOK, NEW t \in shape.tasks
             PROVE  FoldSet(LAMBDA a, n : n + TwiceRank(t, a), 0, Arms \ Missing(t))
                        = Cardinality(Arms \ Missing(t)) * (Cardinality(Arms \ Missing(t)) + 1)
  BY DEF RanksAddUp
<1>1. PICK D : D = Placed(t)
  OBVIOUS
<1>2. PICK f : f = [a \in D |-> RankIn(t, D, a)]
  OBVIOUS
<1>3. /\ IsFiniteSet(D) /\ D = Arms \ Missing(t) /\ DOMAIN f = D
      /\ \A a \in D : f[a] = TwiceRank(t, a) /\ f[a] \in Int
  BY <1>1, <1>2, PlacedFinite, RankIsPosition DEF Placed
<1>4. PICK g : SumsOf(g, f, D)
  BY <1>3, SumsExist
<1> DEFINE Adds(h) == h = [s \in SUBSET D |-> IF s = {} THEN 0
                              ELSE h[s \ {First(s)}] + TwiceRank(t, First(s))]
           totals == CHOOSE h : Adds(h)
<1>5. FoldSet(LAMBDA a, n : n + TwiceRank(t, a), 0, D) = totals[D]
  BY DEF FoldSet, MapThenFoldSet, First
<1>6. \A h : Adds(h) <=> SumsOf(h, f, D)
  <2>1. \A s \in SUBSET D : s # {} => f[First(s)] = TwiceRank(t, First(s))
    BY <1>3, FirstIn
  <2> QED BY <2>1 DEF SumsOf
<1>7. SumsOf(totals, f, D)
  <2> HIDE DEF Adds
  <2> QED BY <1>4, <1>6
<1> HIDE DEF totals
<1>8. Follows(totals, f, D)
  BY <1>7 DEF SumsOf, Follows
<1>9. FoldSum(f) = totals[D]
  BY <1>3, <1>8, SumKnown
<1>10. FoldSum(f) = Cardinality(D) * (Cardinality(D) + 1)
  BY <1>1, <1>2, RanksAmong
<1> QED BY <1>3, <1>5, <1>9, <1>10

-----------------------------------------------------------------------------
(* The performance profile.                                                 *)

\* Among finitely many arms with a mean there is one no other beats.
LEMMA BestExists ==
    ASSUME RankTypeOK, NEW t \in shape.tasks, Placed(t) # {}
    PROVE  BestOf(t) \in Placed(t)
<1>1. PICK D : D = Placed(t)
  OBVIOUS
<1>2. IsFiniteSet(D)
  BY <1>1, PlacedFinite
<1> DEFINE Good == {s \in SUBSET D : s # {} => \E a \in s : \A b \in s : ~Beats(t, b, a)}
<1>3. {} \in Good
  OBVIOUS
<1>4. ASSUME NEW s \in SUBSET D, s # {}, s \ {First(s)} \in Good PROVE s \in Good
  <2>1. PICK x \in s : x = First(s)
    BY <1>4, FirstIn
  <2>2. ~Beats(t, x, x)
    BY <1>1, OrderOK
  <2>3. CASE s \ {x} = {}
    <3>1. \A b \in s : ~Beats(t, b, x)
      BY <2>2, <2>3
    <3> QED BY <2>1, <3>1
  <2>4. CASE s \ {x} # {}
    <3>1. PICK a \in s \ {x} : \A b \in s \ {x} : ~Beats(t, b, a)
      BY <1>4, <2>1, <2>4
    <3>2. CASE Beats(t, x, a)
      <4>1. ~Beats(t, a, x)
        BY <1>1, <2>1, <3>1, <3>2, OrderOK
      <4>2. ASSUME NEW b \in s \ {x} PROVE ~Beats(t, b, x)
        BY <1>1, <2>1, <3>1, <4>1, <4>2, OrderOK
      <4>3. \A b \in s : ~Beats(t, b, x)
        BY <2>2, <4>2
      <4> QED BY <2>1, <4>3
    <3>3. CASE ~Beats(t, x, a)
      <4>1. \A b \in s : ~Beats(t, b, a)
        BY <3>1, <3>3
      <4> QED BY <3>1, <4>1
    <3> QED BY <3>2, <3>3
  <2> QED BY <2>3, <2>4
<1>5. SUBSET D \subseteq Good
  <2> HIDE DEF Good
  <2> QED BY <1>2, <1>3, <1>4, SubsetInduction
<1>6. PICK a \in D : \A b \in D : ~Beats(t, b, a)
  BY <1>1, <1>5
<1>7. \A b \in Arms : ~Beats(t, b, a)
  BY <1>1, <1>6 DEF Beats, Placed, Missing
<1> QED BY <1>1, <1>6, <1>7 DEF BestOf, Placed

\* A larger tolerance only loosens each of the four comparisons of Within, and
\* the best score meets all of them.  p stands for the score of an arm and q
\* for the best, over one denominator.
LEMMA Tolerance ==
    ASSUME NEW p \in Int, NEW q \in Int, NEW u \in Nat, NEW v \in Nat, 100 <= u, u <= v
    PROVE  /\ q > 0 /\ u * p >= 100 * q => v * p >= 100 * q
           /\ q <= 0 /\ 100 * p >= u * q => 100 * p >= v * q
           /\ q > 0 /\ 100 * p <= u * q => 100 * p <= v * q
           /\ q <= 0 /\ u * p <= 100 * q => v * p <= 100 * q
           /\ q > 0 => u * q >= 100 * q
           /\ q <= 0 => u * q <= 100 * q
<1>1. \A r \in Int : r >= 0 => r * u <= r * v
  OBVIOUS
<1>2. \A r \in Int : r <= 0 => r * u >= r * v
  OBVIOUS
<1>3. \A r \in Int : (r >= 0 => r * u >= 100 * r) /\ (r <= 0 => r * u <= 100 * r)
  OBVIOUS
<1>4. \A r \in Int : (r < 0 => r * u < 0) /\ (r > 0 => r * u > 0)
  OBVIOUS
<1>5. u * p = p * u /\ u * q = q * u /\ v * p = p * v /\ v * q = q * v
  OBVIOUS
<1>6. p * u \in Int /\ q * u \in Int /\ p * v \in Int /\ q * v \in Int
  OBVIOUS
<1> QED BY <1>1, <1>2, <1>3, <1>4, <1>5, <1>6

\* Within, over one denominator.
LEMMA WithinOK ==
    ASSUME RankTypeOK, NEW t \in shape.tasks, NEW a \in Placed(t)
    PROVE  \E p \in Int, q \in Int :
              /\ a = BestOf(t) => p = q
              /\ \A tau \in Nat :
                   Within(t, a, tau) <=>
                     IF direction[t] = "maximize"
                     THEN IF q > 0 THEN tau * p >= 100 * q ELSE 100 * p >= tau * q
                     ELSE IF q > 0 THEN 100 * p <= tau * q ELSE tau * p <= 100 * q
<1>1. PICK x, n : x = Mean(t, a)[1] /\ n = Mean(t, a)[2]
  OBVIOUS
<1>2. PICK b, m : b = Mean(t, BestOf(t))[1] /\ m = Mean(t, BestOf(t))[2]
  OBVIOUS
<1>3. x \in Int /\ b \in Int /\ n \in Nat \ {0} /\ m \in Nat \ {0}
  BY <1>1, <1>2, MeanOK, BestExists
<1>4. PICK p \in Int, q \in Int : p = x * m /\ q = b * n
  BY <1>3
<1>5. q > 0 <=> b > 0
  BY <1>3, <1>4
<1>6. a = BestOf(t) => p = q
  BY <1>1, <1>2, <1>4
<1>7. ASSUME NEW tau \in Nat
      PROVE  /\ tau * x * m = tau * p /\ 100 * b * n = 100 * q
             /\ 100 * x * m = 100 * p /\ tau * b * n = tau * q
  BY <1>3, <1>4
<1>8. ASSUME NEW tau \in Nat
      PROVE  Within(t, a, tau) <=>
               IF direction[t] = "maximize"
               THEN IF q > 0 THEN tau * p >= 100 * q ELSE 100 * p >= tau * q
               ELSE IF q > 0 THEN 100 * p <= tau * q ELSE tau * p <= 100 * q
  <2>1. Within(t, a, tau) <=>
          IF direction[t] = "maximize"
          THEN IF b > 0 THEN tau * x * m >= 100 * b * n ELSE 100 * x * m >= tau * b * n
          ELSE IF b > 0 THEN 100 * x * m <= tau * b * n ELSE tau * x * m <= 100 * b * n
    BY <1>1, <1>2 DEF Within
  <2> QED BY <1>5, <1>7, <2>1
<1> QED BY <1>6, <1>8

LEMMA ProfileOfTasks == RankTypeOK => ProfileRises
<1> SUFFICES ASSUME RankTypeOK PROVE ProfileRises
  OBVIOUS
<1>1. \A t : \A a \in Arms : a \in Placed(t) <=> HasMean(t, a)
  BY DEF Placed, Missing
<1>2. \A u \in Taus : u \in Nat /\ 100 <= u
  BY ArmAssumption
<1>3. ASSUME NEW a \in Arms, NEW u \in Taus, NEW v \in Taus, u <= v, NEW t \in Solved(a, u)
      PROVE  t \in Solved(a, v)
  <2>1. t \in shape.tasks /\ a \in Placed(t) /\ HasMean(t, a) /\ Within(t, a, u)
    BY <1>1, <1>3 DEF Solved
  <2>2. PICK p \in Int, q \in Int :
              /\ \A tau \in Nat :
                   Within(t, a, tau) <=>
                     IF direction[t] = "maximize"
                     THEN IF q > 0 THEN tau * p >= 100 * q ELSE 100 * p >= tau * q
                     ELSE IF q > 0 THEN 100 * p <= tau * q ELSE tau * p <= 100 * q
    BY <2>1, WithinOK
  <2>3. Within(t, a, v)
    BY <1>2, <1>3, <2>1, <2>2, Tolerance
  <2> QED BY <2>1, <2>3 DEF Solved
<1>4. ASSUME NEW t \in shape.tasks, NEW u \in Taus, Missing(t) # Arms
      PROVE  t \in Solved(BestOf(t), u)
  <2>1. BestOf(t) \in Placed(t)
    BY <1>4, BestExists DEF Placed, Missing
  <2>2. PICK p \in Int, q \in Int :
              /\ p = q
              /\ \A tau \in Nat :
                   Within(t, BestOf(t), tau) <=>
                     IF direction[t] = "maximize"
                     THEN IF q > 0 THEN tau * p >= 100 * q ELSE 100 * p >= tau * q
                     ELSE IF q > 0 THEN 100 * p <= tau * q ELSE tau * p <= 100 * q
    BY <2>1, WithinOK
  <2>3. Within(t, BestOf(t), u)
    BY <1>2, <2>2, Tolerance
  <2>4. HasMean(t, BestOf(t))
    BY <2>1 DEF Placed, Missing
  <2> QED BY <2>3, <2>4 DEF Solved
<1> QED BY <1>3, <1>4 DEF ProfileRises

LEMMA TrendsOfTasks == TrendsAreGains
  BY DEF TrendsAreGains, SignificantTasks, PositiveDeltas, Beats, Wins

\* The ranking is fair, at the end of a sweep and before it: for any arms,
\* tasks, seeds and integer scores, in either direction and with any trials
\* crashed, dominance decides, the ranks of a task share the positions, the
\* profile only rises with the tolerance, and a trend that counts is a gain.
THEOREM Ranking == RankSpec => []RankingIsFair
<1>1. RankTypeOK => RankingIsFair
  BY DominanceOfRanks, RanksOfTask, ProfileOfTasks, TrendsOfTasks DEF RankingIsFair
<1> QED BY <1>1, RankTyped, PTL

-----------------------------------------------------------------------------
(* The logs of robots: rows become events.                                  *)

IsEvent(e) ==
    /\ e.type \in EventTypes /\ e.robot \in Robots /\ e.sev \in Info..Critical
    /\ IsList(e.fp) /\ Len(e.fp) \in 1..3
EventList(s) == IsList(s) /\ \A i \in DOMAIN s : IsEvent(s[i])

LEMMA ListIs ==
    ASSUME NEW s, IsList(s)
    PROVE  Len(s) \in Nat /\ DOMAIN s = 1..Len(s) /\ s = [i \in 1..Len(s) |-> s[i]]
  BY DEF IsList

LEMMA IsAList ==
    ASSUME NEW n \in Nat, NEW s, s = [i \in 1..n |-> s[i]]
    PROVE  IsList(s) /\ Len(s) = n /\ DOMAIN s = 1..n
<1>1. \A i \in 1..n : s[i] \in ToSet(s)
  BY DEF ToSet
<1> QED BY <1>1 DEF IsList

\* Of a finite list, what is at some of its places, in order.
LEMMA AtPlacesOK ==
    ASSUME NEW s, NEW n \in Nat, NEW places \in SUBSET (1..n)
    PROVE  /\ Cardinality(places) \in Nat /\ IsList(AtPlaces(s, places))
           /\ DOMAIN AtPlaces(s, places) = 1..Cardinality(places)
           /\ \A k \in 1..Cardinality(places) :
                Nth(places, k) \in places /\ AtPlaces(s, places)[k] = s[Nth(places, k)]
<1>1. IsFiniteSet(1..n)
  BY FS_Interval
<1>2. IsFiniteSet(places) /\ places \in SUBSET Int
  <2>1. IsFiniteSet(places)
    BY <1>1, FS_Subset
  <2> QED BY <2>1
<1>3. Cardinality(places) \in Nat
  BY <1>2, FS_CardinalityType
<1>4. ASSUME NEW k \in 1..Cardinality(places) PROVE Nth(places, k) \in places
  <2>1. PICK R : R = {p \in places \X places : p[1] < p[2]}
    OBVIOUS
  <2>2. \A x, y \in places : <<x, y>> \in R <=> x < y
    BY <2>1
  <2>3. LinearOn(R, places)
    BY <1>2, <2>2 DEF LinearOn
  <2>4. PICK x \in places : Cardinality(Preceding(R, places, x)) = k - 1
    BY <1>2, <2>3, PlacesTaken
  <2>5. Preceding(R, places, x) = {j \in places : j < x}
    BY <2>2 DEF Preceding
  <2> QED BY <2>4, <2>5 DEF Nth
<1>5. PICK t : t = AtPlaces(s, places)
  OBVIOUS
<1>6. t = [k \in 1..Cardinality(places) |-> s[Nth(places, k)]]
  BY <1>5 DEF AtPlaces
<1>7. t = [k \in 1..Cardinality(places) |-> t[k]]
  BY <1>6
<1>8. IsList(t) /\ DOMAIN t = 1..Cardinality(places)
  BY <1>3, <1>7, IsAList
<1> QED BY <1>3, <1>4, <1>5, <1>6, <1>8

LEMMA NoEvent == EventList(<< >>)
  BY DEF EventList, IsList, ToSet

LEMMA OneEvent == ASSUME NEW e, IsEvent(e) PROVE EventList(<<e>>)
<1>1. PICK s : s = <<e>>
  OBVIOUS
<1>2. s = [i \in 1..1 |-> s[i]] /\ \A i \in 1..1 : s[i] = e
  BY <1>1
<1> QED BY <1>1, <1>2, IsAList DEF EventList

LEMMA Joined ==
    ASSUME NEW s, NEW t, EventList(s), EventList(t)
    PROVE  EventList(s \o t)
<1>1. PICK S : S = ToSet(s) \cup ToSet(t)
  OBVIOUS
<1>2. s \in Seq(S) /\ t \in Seq(S)
  BY <1>1 DEF EventList, IsList
<1>3. PICK u : u = s \o t
  OBVIOUS
<1>4. /\ u \in Seq(S) /\ Len(u) = Len(s) + Len(t)
      /\ \A i \in 1..Len(u) : u[i] = IF i <= Len(s) THEN s[i] ELSE t[i - Len(s)]
  BY <1>2, <1>3
<1>5. Len(u) \in Nat /\ u = [i \in 1..Len(u) |-> u[i]]
  BY <1>4
<1>6. IsList(u) /\ DOMAIN u = 1..Len(u)
  BY <1>5, IsAList
<1>7. ASSUME NEW i \in DOMAIN u PROVE IsEvent(u[i])
  <2>1. DOMAIN s = 1..Len(s) /\ DOMAIN t = 1..Len(t) /\ Len(s) \in Nat /\ Len(t) \in Nat
    BY ListIs DEF EventList
  <2>2. \/ i <= Len(s) /\ i \in DOMAIN s
        \/ ~(i <= Len(s)) /\ i - Len(s) \in DOMAIN t
    BY <1>4, <1>6, <2>1
  <2> QED BY <1>4, <1>6, <2>1, <2>2 DEF EventList
<1> QED BY <1>3, <1>6, <1>7 DEF EventList

\* A fingerprint keeps the part that is not empty.
LEMMA TrimmedOK ==
    ASSUME NEW a, NEW b
    PROVE  IsList(Trimmed(<<"collision", a, b>>)) /\ Len(Trimmed(<<"collision", a, b>>)) \in 1..3
<1>1. PICK parts : parts = <<"collision", a, b>>
  OBVIOUS
<1>2. DOMAIN parts = 1..3 /\ parts[1] = "collision" /\ parts \in Seq(ToSet(parts))
  BY <1>1 DEF ToSet
<1>3. PICK S : S = {0} \cup {i \in DOMAIN parts : parts[i] # ""}
  OBVIOUS
<1>4. S \subseteq 0..3 /\ 1 \in S
  <2>1. ASSUME NEW i \in S PROVE i \in 0..3
    <3>1. i = 0 \/ i \in 1..3
      BY <1>2, <1>3
    <3> QED BY <3>1
  <2>2. parts[1] # "" /\ 1 \in DOMAIN parts
    BY <1>2
  <2> QED BY <1>3, <2>1, <2>2
<1>5. \E m \in S : \A y \in S : m >= y
  <2>1. CASE 3 \in S
    BY <1>4, <2>1
  <2>2. CASE 3 \notin S /\ 2 \in S
    BY <1>4, <2>2
  <2>3. CASE 3 \notin S /\ 2 \notin S
    BY <1>4, <2>3
  <2> QED BY <2>1, <2>2, <2>3
<1>6. PICK m : m = Max(S)
  OBVIOUS
<1>7. m \in S /\ m >= 1
  BY <1>4, <1>5, <1>6 DEF Max
<1>8. m \in 1..3
  BY <1>4, <1>7
<1>9. PICK t : t = SubSeq(parts, 1, m)
  OBVIOUS
<1>10. t \in Seq(ToSet(parts)) /\ Len(t) = m
  BY <1>2, <1>8, <1>9
<1>11. Len(t) \in Nat /\ t = [i \in 1..Len(t) |-> t[i]]
  BY <1>8, <1>10
<1>12. IsList(t)
  BY <1>11, IsAList
<1>13. Trimmed(parts) = t
  BY <1>3, <1>6, <1>9 DEF Trimmed
<1> QED BY <1>1, <1>8, <1>10, <1>12, <1>13

LEMMA ShortLists ==
    /\ \A a : IsList(<<a>>) /\ Len(<<a>>) = 1
    /\ \A a, b : IsList(<<a, b>>) /\ Len(<<a, b>>) = 2
    /\ \A a, b, c : IsList(<<a, b, c>>) /\ Len(<<a, b, c>>) = 3
<1>1. ASSUME NEW a PROVE IsList(<<a>>) /\ Len(<<a>>) = 1
  BY DEF IsList, ToSet
<1>2. ASSUME NEW a, NEW b PROVE IsList(<<a, b>>) /\ Len(<<a, b>>) = 2
  BY DEF IsList, ToSet
<1>3. ASSUME NEW a, NEW b, NEW c PROVE IsList(<<a, b, c>>) /\ Len(<<a, b, c>>) = 3
  BY DEF IsList, ToSet
<1> QED BY <1>1, <1>2, <1>3

LEMMA EventIs ==
    ASSUME NEW type \in EventTypes, NEW robot \in Robots, NEW sev \in Info..Critical,
           NEW fp, IsList(fp), Len(fp) \in 1..3, NEW signal
    PROVE  IsEvent(Event(type, robot, sev, fp, signal))
  BY DEF IsEvent, Event

LEMMA CollisionIs ==
    ASSUME NEW robot \in Robots, NEW contact, NEW sev \in Info..Critical
    PROVE  IsEvent(Collision(robot, contact, sev))
<1>1. "collision" \in EventTypes
  BY DEF EventTypes, Stem
<1> QED BY <1>1, TrimmedOK, EventIs DEF Collision

LEMMA TypesAre ==
    EventTypes = {"collision", "safety_stop", "joint_limit_violation", "controller_error",
                  "sensor_outlier", "task_timeout", "trajectory_deviation", "actuator_saturation"}
  BY DEF EventTypes, Stem

LEMMA SeveritiesAre == Info \in Info..Critical /\ Warning \in Info..Critical /\ Critical \in Info..Critical
  BY DEF Info, Warning, Critical

LEMMA FollowTyped == ASSUME NEW r, r.robot \in Robots PROVE EventList(FollowEvents(r))
<1>1. IsEvent(Event("trajectory_deviation", r.robot, Warning, <<"trajectory", r.goal>>, r.error))
  BY TypesAre, SeveritiesAre, ShortLists, EventIs
<1> QED BY <1>1, NoEvent, OneEvent DEF FollowEvents

LEMMA JointIs == ASSUME NEW robot \in Robots, NEW joint PROVE IsEvent(JointEvent(robot, joint))
  BY TypesAre, SeveritiesAre, ShortLists, EventIs DEF JointEvent

LEMMA RosbagTyped ==
    ASSUME NEW r, r.robot \in Robots, r.format = "rosbag", RowOK(r)
    PROVE  EventList(RosbagEvents(r))
<1>1. EventList(EStopEvents(r))
  <2>1. IsEvent(Event("safety_stop", r.robot, Critical, <<"emergency_stop">>, 0))
    BY TypesAre, SeveritiesAre, ShortLists, EventIs
  <2> QED BY <2>1, NoEvent, OneEvent DEF EStopEvents
<1>2. EventList(ContactEvents(r))
  <2> DEFINE worst == r.contacts[Strongest(r.contacts)]
  <2>1. \A sev \in Info..Critical : EventList(<<Collision(r.robot, worst, sev)>>)
    BY CollisionIs, OneEvent
  <2>2. (IF worst.force > 80 THEN Critical ELSE Warning) \in Info..Critical
    BY SeveritiesAre
  <2> QED BY <2>1, <2>2, NoEvent DEF ContactEvents
<1>3. r.topic = "joint_states" => EventList(JointEvents(r))
  <2> SUFFICES ASSUME r.topic = "joint_states" PROVE EventList(JointEvents(r))
    OBVIOUS
  <2>1. PICK s : s = JointEvents(r)
    OBVIOUS
  <2>2. IsList(r.flagged)
    BY DEF RowOK
  <2>3. DOMAIN r.flagged = 1..Len(r.flagged) /\ Len(r.flagged) \in Nat
    BY <2>2, ListIs
  <2>4. s = [i \in 1..Len(r.flagged) |-> s[i]]
    BY <2>1, <2>3 DEF JointEvents
  <2>5. \A i \in 1..Len(r.flagged) : IsEvent(s[i])
    BY <2>1, <2>3, JointIs DEF JointEvents
  <2> QED BY <2>1, <2>3, <2>4, <2>5, IsAList DEF EventList
<1>4. EventList(ControllerEvents(r))
  <2>1. IsEvent(Event("controller_error", r.robot, Warning, <<"controller", r.name, r.status>>, 0))
    BY TypesAre, SeveritiesAre, ShortLists, EventIs
  <2> QED BY <2>1, NoEvent, OneEvent DEF ControllerEvents
<1>5. EventList(SensorEvents(r))
  <2>1. IsEvent(Event("sensor_outlier", r.robot, Warning, <<"sensor", r.name, r.status>>, 0))
    BY TypesAre, SeveritiesAre, ShortLists, EventIs
  <2> QED BY <2>1, OneEvent DEF SensorEvents
<1>6. EventList(TaskEventsOf(r))
  <2>1. IsEvent(Event("task_timeout", r.robot, Warning, <<"task", r.name>>, 0))
    BY TypesAre, SeveritiesAre, ShortLists, EventIs
  <2> QED BY <2>1, NoEvent, OneEvent DEF TaskEventsOf
<1>7. EventList(FollowEvents(r))
  BY FollowTyped
<1> QED BY <1>1, <1>2, <1>3, <1>4, <1>5, <1>6, <1>7, NoEvent DEF RosbagEvents

LEMMA TagTyped ==
    ASSUME NEW robot \in Robots, NEW tag, TagEvents(robot, tag) # << >>
    PROVE  IsEvent(Head(TagEvents(robot, tag)))
<1>1. PICK name : name = Lower(tag.name)
  OBVIOUS
<1>2. /\ IsEvent(Event("actuator_saturation", robot, Warning, <<"saturation", "actuator", name>>, 0))
      /\ IsEvent(Event("controller_error", robot, Critical, <<"controller", "nan", tag.what>>, 0))
      /\ IsEvent(JointEvent(robot, name))
      /\ IsEvent(Event("sensor_outlier", robot, Warning, <<"sensor", name, tag.what>>, 0))
      /\ IsEvent(Event("task_timeout", robot, Warning, <<"task", "rollout_timeout">>, 0))
  BY TypesAre, SeveritiesAre, ShortLists, EventIs, JointIs
<1>3. PICK es : es = TagEvents(robot, tag)
  OBVIOUS
<1>4. es = << >> \/ \E e : IsEvent(e) /\ es = <<e>>
  BY <1>1, <1>2, <1>3 DEF TagEvents
<1> QED BY <1>3, <1>4

LEMMA MujocoTyped ==
    ASSUME NEW r, r.robot \in Robots, r.format = "mujoco", RowOK(r)
    PROVE  EventList(MujocoEvents(r))
<1>1. IsList(r.contacts) /\ IsList(r.tags)
  BY DEF RowOK
<1>2. EventList(MujocoContacts(r))
  <2>1. PICK places : places = {i \in DOMAIN r.contacts : r.contacts[i].force >= 1}
    OBVIOUS
  <2>2. Len(r.contacts) \in Nat /\ places \in SUBSET (1..Len(r.contacts))
    BY <1>1, <2>1, ListIs
  <2>3. PICK felt : felt = AtPlaces(r.contacts, places)
    OBVIOUS
  <2>4. DOMAIN felt = 1..Cardinality(places) /\ Cardinality(places) \in Nat
    BY <2>2, <2>3, AtPlacesOK
  <2>5. PICK s : s = MujocoContacts(r)
    OBVIOUS
  <2>6. s = [i \in DOMAIN felt |->
                Collision(r.robot, felt[i], IF felt[i].force > 50 THEN Critical ELSE Warning)]
    BY <2>1, <2>3, <2>5 DEF MujocoContacts
  <2>7. s = [i \in 1..Cardinality(places) |-> s[i]]
    BY <2>4, <2>6
  <2>8. ASSUME NEW i \in DOMAIN felt PROVE IsEvent(s[i])
    <3>1. (IF felt[i].force > 50 THEN Critical ELSE Warning) \in Info..Critical
      BY SeveritiesAre
    <3> QED BY <2>6, <3>1, CollisionIs
  <2> QED BY <2>4, <2>5, <2>7, <2>8, IsAList DEF EventList
<1>3. EventList(MujocoTags(r))
  <2>1. PICK events : events = [i \in DOMAIN r.tags |-> TagEvents(r.robot, r.tags[i])]
    OBVIOUS
  <2>2. PICK places : places = {i \in DOMAIN events : events[i] # << >>}
    OBVIOUS
  <2>3. Len(r.tags) \in Nat /\ places \in SUBSET (1..Len(r.tags))
    BY <1>1, <2>1, <2>2, ListIs
  <2>4. PICK some : some = AtPlaces(events, places)
    OBVIOUS
  <2>5. /\ DOMAIN some = 1..Cardinality(places) /\ Cardinality(places) \in Nat
        /\ \A k \in DOMAIN some : \E i \in places : some[k] = events[i]
    <3>1. PICK n \in Nat : places \in SUBSET (1..n)
      BY <2>3
    <3>2. Cardinality(places) \in Nat /\ DOMAIN some = 1..Cardinality(places)
      BY <2>4, <3>1, AtPlacesOK
    <3>3. ASSUME NEW k \in 1..Cardinality(places) PROVE \E i \in places : some[k] = events[i]
      <4>1. Nth(places, k) \in places /\ some[k] = events[Nth(places, k)]
        BY <2>4, <3>1, AtPlacesOK
      <4> QED BY <4>1
    <3> QED BY <3>2, <3>3
  <2>6. PICK s : s = MujocoTags(r)
    OBVIOUS
  <2>7. s = [i \in DOMAIN some |-> Head(some[i])]
    BY <2>1, <2>2, <2>4, <2>6 DEF MujocoTags
  <2>8. s = [i \in 1..Cardinality(places) |-> s[i]]
    BY <2>5, <2>7
  <2>9. ASSUME NEW k \in DOMAIN some PROVE IsEvent(s[k])
    <3>1. PICK i \in places : some[k] = events[i]
      BY <2>5
    <3>2. events[i] # << >> /\ events[i] = TagEvents(r.robot, r.tags[i])
      BY <2>1, <2>2
    <3> QED BY <2>7, <3>1, <3>2, TagTyped
  <2> QED BY <2>5, <2>6, <2>8, <2>9, IsAList DEF EventList
<1>4. EventList(MujocoContacts(r) \o MujocoTags(r))
  BY <1>2, <1>3, Joined
<1> QED BY <1>4, FollowTyped, Joined DEF MujocoEvents

LEMMA GivenIs == \A sev, default \in Info..Critical : \A given : Given(given, default) \in Info..Critical
  BY SeveritiesAre DEF Given

LEMMA IsaacMapped ==
    ASSUME NEW kind \in DOMAIN IsaacMap
    PROVE  IsaacMap[kind][1] \in EventTypes /\ IsaacMap[kind][2] \in Info..Critical
  BY TypesAre, SeveritiesAre DEF IsaacMap

LEMMA IsaacPrinted ==
    ASSUME NEW kind \in DOMAIN IsaacMap, NEW e
    PROVE  IsList(IsaacPrint(kind, e)) /\ Len(IsaacPrint(kind, e)) \in 1..3
<1>1. kind \in {"collision", "self_collision", "joint_limit", "joint_violation",
                "torque_saturation", "velocity_saturation", "sensor_dropout", "imu_spike",
                "task_terminated", "task_failed", "policy_diverged", "trajectory_error"}
  BY DEF IsaacMap
<1> QED BY <1>1, TrimmedOK, ShortLists DEF IsaacPrint

LEMMA IsaacTyped ==
    ASSUME NEW r, r.robot \in Robots, r.format = "isaac", RowOK(r)
    PROVE  EventList(IsaacEvents(r))
<1> DEFINE Tells(e) == /\ e.kind \in DOMAIN IsaacMap
                       /\ e.kind \in {"task_terminated", "task_failed"} =>
                             e.reason \in {"timeout", "time_limit"}
           AsEvent(e) == Event(IsaacMap[e.kind][1], r.robot, Given(e.sev, IsaacMap[e.kind][2]),
                               IsaacPrint(e.kind, e), e.sev)
<1>1. PICK places : places = {i \in DOMAIN r.events : Tells(r.events[i])}
  OBVIOUS
<1>2. Len(r.events) \in Nat /\ places \in SUBSET (1..Len(r.events))
  <2>1. IsList(r.events)
    BY DEF RowOK
  <2> QED BY <1>1, <2>1, ListIs
<1>3. PICK taken : taken = AtPlaces(r.events, places)
  OBVIOUS
<1>4. /\ DOMAIN taken = 1..Cardinality(places) /\ Cardinality(places) \in Nat
      /\ \A k \in DOMAIN taken : \E i \in places : taken[k] = r.events[i]
  <2>1. PICK n \in Nat : places \in SUBSET (1..n)
    BY <1>2
  <2>2. Cardinality(places) \in Nat /\ DOMAIN taken = 1..Cardinality(places)
    BY <1>3, <2>1, AtPlacesOK
  <2>3. ASSUME NEW k \in 1..Cardinality(places) PROVE \E i \in places : taken[k] = r.events[i]
    <3>1. Nth(places, k) \in places /\ taken[k] = r.events[Nth(places, k)]
      BY <1>3, <2>1, AtPlacesOK
    <3> QED BY <3>1
  <2> QED BY <2>2, <2>3
<1>5. PICK s : s = IsaacEvents(r)
  OBVIOUS
<1>6. s = [i \in DOMAIN taken |-> AsEvent(taken[i])]
  BY <1>1, <1>3, <1>5 DEF IsaacEvents
<1>7. s = [i \in 1..Cardinality(places) |-> s[i]]
  BY <1>4, <1>6
<1>8. ASSUME NEW k \in DOMAIN taken PROVE IsEvent(s[k])
  <2>1. taken[k].kind \in DOMAIN IsaacMap
    BY <1>1, <1>4
  <2> QED BY <1>6, <2>1, IsaacMapped, IsaacPrinted, GivenIs, EventIs, SeveritiesAre
<1> QED BY <1>4, <1>5, <1>7, <1>8, IsAList DEF EventList

LEMMA FoxgloveMapped ==
    ASSUME NEW c \in DOMAIN FoxgloveMap
    PROVE  FoxgloveMap[c][1] \in EventTypes /\ FoxgloveMap[c][2] \in Info..Critical
  BY TypesAre, SeveritiesAre DEF FoxgloveMap

LEMMA FoxgloveTyped ==
    ASSUME NEW r, r.robot \in Robots
    PROVE  EventList(FoxgloveEvents(r))
<1>1. \A c : IsList(FoxglovePrint(c, r)) /\ Len(FoxglovePrint(c, r)) \in 1..3
  BY TrimmedOK, ShortLists DEF FoxglovePrint
<1> SUFFICES ASSUME r.category \in DOMAIN FoxgloveMap PROVE EventList(FoxgloveEvents(r))
  BY NoEvent DEF FoxgloveEvents
<1>2. IsEvent(Event(FoxgloveMap[r.category][1], r.robot, Given(r.sev, FoxgloveMap[r.category][2]),
                    FoxglovePrint(r.category, r), r.sev))
  BY <1>1, FoxgloveMapped, GivenIs, EventIs
<1> QED BY <1>2, OneEvent DEF FoxgloveEvents

\* Whatever a row of any format holds, it becomes a list of events.
LEMMA RowsBecomeEvents ==
    ASSUME RobotAssumption, NEW r \in Rows
    PROVE  EventList(EventsOf(r))
<1>1. RowOK(r) /\ r.robot \in Robots
  BY DEF RobotAssumption, Robots
<1>2. r.format \in {"rosbag", "isaac", "mujoco", "foxglove"}
  BY <1>1 DEF RowOK
<1> QED BY <1>1, <1>2, RosbagTyped, IsaacTyped, MujocoTyped, FoxgloveTyped DEF EventsOf

-----------------------------------------------------------------------------
(* The mapper: buckets tell what was read.                                  *)

Happened == UNION {ToSet(EventsOf(r)) : r \in Rows}

LEMMA AppendedList ==
    ASSUME NEW s, IsList(s), NEW x
    PROVE  /\ IsList(Append(s, x)) /\ Len(Append(s, x)) = Len(s) + 1
           /\ Append(s, x)[Len(s) + 1] = x /\ \A i \in 1..Len(s) : Append(s, x)[i] = s[i]
<1>1. PICK S : S = ToSet(s) \cup {x}
  OBVIOUS
<1>2. s \in Seq(S) /\ x \in S
  BY <1>1 DEF IsList
<1>3. PICK t : t = Append(s, x)
  OBVIOUS
<1>4. /\ t \in Seq(S) /\ Len(t) = Len(s) + 1
      /\ t[Len(s) + 1] = x /\ \A i \in 1..Len(s) : t[i] = s[i]
  BY <1>2, <1>3
<1>5. Len(t) \in Nat /\ t = [i \in 1..Len(t) |-> t[i]]
  BY <1>4
<1> QED BY <1>3, <1>4, <1>5, IsAList

LEMMA HappenedAreEvents ==
    ASSUME RobotAssumption
    PROVE  /\ \A r \in Rows : EventsOf(r) \in Seq(Happened)
           /\ \A e \in Happened : IsEvent(e)
<1>1. ASSUME NEW r \in Rows PROVE EventsOf(r) \in Seq(Happened) /\ \A e \in ToSet(EventsOf(r)) : IsEvent(e)
  <2>1. PICK s : s = EventsOf(r)
    OBVIOUS
  <2>2. s \in Seq(ToSet(s)) /\ \A i \in DOMAIN s : IsEvent(s[i])
    BY <2>1, RowsBecomeEvents DEF EventList, IsList
  <2>3. ToSet(s) \subseteq Happened
    BY <2>1 DEF Happened
  <2> QED BY <2>1, <2>2, <2>3 DEF ToSet
<1> QED BY <1>1 DEF Happened

\* The events of a kind among those read.
OfKey(read, key) == {n \in DOMAIN read : KeyOf(read[n]) = key}

IsBucket(b) ==
    /\ b = [first |-> b.first, events |-> b.events, robots |-> b.robots, sev |-> b.sev,
            signals |-> b.signals]
    /\ b.first \in Happened
    /\ IsList(b.events) /\ Len(b.events) # 0 /\ b.events[1] = b.first
    /\ IsList(b.signals) /\ Len(b.signals) = Len(b.events)
    /\ IsList(b.robots) /\ \A i, j \in DOMAIN b.robots : b.robots[i] = b.robots[j] => i = j

\* A bucket counts the events mine, has the severity of the worst and their robots.
TellsOf(b, read, mine) ==
    /\ Len(b.events) = Cardinality(mine)
    /\ (\E n \in mine : read[n].sev = b.sev) /\ \A n \in mine : read[n].sev <= b.sev
    /\ ToSet(b.robots) = {read[n].robot : n \in mine}

BucketsTell(read, bs) ==
    /\ IsList(bs)
    /\ \A i, j \in DOMAIN bs : KeyOf(bs[i].first) = KeyOf(bs[j].first) => i = j
    /\ \A n \in DOMAIN read : \E i \in DOMAIN bs : KeyOf(bs[i].first) = KeyOf(read[n])
    /\ \A i \in DOMAIN bs : IsBucket(bs[i]) /\ TellsOf(bs[i], read, OfKey(read, KeyOf(bs[i].first)))

\* One more event read.
OneMore(read, e, later) ==
    /\ later \in Seq(Happened) /\ Len(read) \in Nat /\ Len(later) = Len(read) + 1
    /\ later[Len(read) + 1] = e /\ \A n \in 1..Len(read) : later[n] = read[n]
    /\ \A key : OfKey(read, key) \in SUBSET (1..Len(read)) /\ IsFiniteSet(OfKey(read, key))
    /\ \A key : key # KeyOf(e) => OfKey(later, key) = OfKey(read, key)
    /\ OfKey(later, KeyOf(e)) = OfKey(read, KeyOf(e)) \cup {Len(read) + 1}

LEMMA LaterIs ==
    ASSUME NEW read \in Seq(Happened), NEW e \in Happened, NEW later, later = Append(read, e)
    PROVE  OneMore(read, e, later)
<1>1. /\ later \in Seq(Happened) /\ Len(read) \in Nat /\ Len(later) = Len(read) + 1
      /\ later[Len(read) + 1] = e /\ \A n \in 1..Len(read) : later[n] = read[n]
  OBVIOUS
<1>2. DOMAIN read = 1..Len(read) /\ DOMAIN later = 1..(Len(read) + 1)
  BY <1>1
<1>3. ASSUME NEW key PROVE OfKey(read, key) \in SUBSET (1..Len(read)) /\ IsFiniteSet(OfKey(read, key))
  <2>1. OfKey(read, key) \in SUBSET (1..Len(read))
    BY <1>2 DEF OfKey
  <2>2. IsFiniteSet(1..Len(read))
    BY <1>1, FS_Interval
  <2> QED BY <2>1, <2>2, FS_Subset
<1>4. ASSUME NEW n PROVE n \in DOMAIN later <=> n \in DOMAIN read \/ n = Len(read) + 1
  BY <1>1, <1>2
<1>5. ASSUME NEW key PROVE OfKey(later, key) = OfKey(read, key) \cup {n \in {Len(read) + 1} : KeyOf(e) = key}
  BY <1>1, <1>2, <1>4 DEF OfKey
<1>6. ASSUME NEW key, key # KeyOf(e) PROVE OfKey(later, key) = OfKey(read, key)
  BY <1>5, <1>6
<1>7. OfKey(later, KeyOf(e)) = OfKey(read, KeyOf(e)) \cup {Len(read) + 1}
  BY <1>5
<1> QED BY <1>1, <1>3, <1>6, <1>7 DEF OneMore

\* The bucket of another kind is not disturbed.
LEMMA OthersTell ==
    ASSUME NEW read \in Seq(Happened), NEW e \in Happened, NEW later, OneMore(read, e, later),
           NEW b, KeyOf(b.first) # KeyOf(e), TellsOf(b, read, OfKey(read, KeyOf(b.first)))
    PROVE  TellsOf(b, later, OfKey(later, KeyOf(b.first)))
<1>1. PICK mine : mine = OfKey(read, KeyOf(b.first))
  OBVIOUS
<1>2. OfKey(later, KeyOf(b.first)) = mine /\ \A n \in mine : later[n] = read[n]
  BY <1>1 DEF OneMore
<1>3. {later[n].robot : n \in mine} = {read[n].robot : n \in mine}
  BY <1>2
<1> QED BY <1>1, <1>2, <1>3 DEF TellsOf

\* The bucket an event opens.
LEMMA OpenedTells ==
    ASSUME NEW read \in Seq(Happened), NEW e \in Happened, IsEvent(e), NEW later, OneMore(read, e, later),
           OfKey(read, KeyOf(e)) = {}
    PROVE  /\ IsBucket(NewBucket(e)) /\ KeyOf(NewBucket(e).first) = KeyOf(e)
           /\ TellsOf(NewBucket(e), later, OfKey(later, KeyOf(e)))
<1>1. PICK n : n = Len(read) + 1
  OBVIOUS
<1>2. OfKey(later, KeyOf(e)) = {n} /\ later[n] = e
  BY <1>1 DEF OneMore
<1>3. PICK b : b = NewBucket(e)
  OBVIOUS
<1>4. /\ b.first = e /\ b.events = <<e>> /\ b.robots = <<e.robot>> /\ b.sev = e.sev
      /\ b.signals = <<e.signal>>
      /\ b = [first |-> b.first, events |-> b.events, robots |-> b.robots, sev |-> b.sev,
              signals |-> b.signals]
  BY <1>3 DEF NewBucket
<1>5. /\ IsList(b.events) /\ IsList(b.robots) /\ IsList(b.signals)
      /\ Len(b.events) = 1 /\ Len(b.robots) = 1 /\ Len(b.signals) = 1
  BY <1>4, ShortLists
<1>6. \A i, j \in DOMAIN b.robots : i = j
  BY <1>4
<1>7. IsBucket(b)
  BY <1>4, <1>5, <1>6 DEF IsBucket
<1>8. ToSet(b.robots) = {later[k].robot : k \in {n}}
  <2>1. DOMAIN b.robots = {1} /\ b.robots[1] = e.robot
    BY <1>4
  <2> QED BY <1>2, <2>1 DEF ToSet
<1>9. Len(b.events) = Cardinality({n})
  BY <1>5, FS_Singleton
<1>10. e.sev \in Int
  BY DEF IsEvent, Info, Critical
<1>11. TellsOf(b, later, {n})
  BY <1>2, <1>4, <1>8, <1>9, <1>10 DEF TellsOf
<1> QED BY <1>2, <1>3, <1>4, <1>7, <1>11

\* The bucket an event grows.
LEMMA GrownTells ==
    ASSUME RobotAssumption,
           NEW read \in Seq(Happened), NEW e \in Happened, NEW later, OneMore(read, e, later),
           NEW b, IsBucket(b), KeyOf(b.first) = KeyOf(e), TellsOf(b, read, OfKey(read, KeyOf(e)))
    PROVE  /\ IsBucket(Grown(b, e)) /\ Grown(b, e).first = b.first
           /\ TellsOf(Grown(b, e), later, OfKey(later, KeyOf(e)))
<1>1. PICK mine : mine = OfKey(read, KeyOf(e))
  OBVIOUS
<1>2. PICK n : n = Len(read) + 1
  OBVIOUS
<1>3. /\ OfKey(later, KeyOf(e)) = mine \cup {n} /\ later[n] = e /\ n \notin mine /\ IsFiniteSet(mine)
      /\ \A k \in mine : later[k] = read[k] /\ k \in 1..Len(read)
  <2>1. mine \in SUBSET (1..Len(read)) /\ Len(read) \in Nat
    BY <1>1 DEF OneMore
  <2>2. n \notin mine
    BY <1>2, <2>1
  <2>3. IsFiniteSet(mine)
    BY <1>1 DEF OneMore
  <2> QED BY <1>1, <1>2, <2>1, <2>2, <2>3 DEF OneMore
<1>4. PICK c : c = Grown(b, e)
  OBVIOUS
<1>5. /\ c.first = b.first /\ c.events = Append(b.events, e) /\ c.signals = Append(b.signals, e.signal)
      /\ c.robots = (IF Contains(b.robots, e.robot) THEN b.robots ELSE Append(b.robots, e.robot))
      /\ c.sev = MaxSeverity(b.sev, e.sev)
      /\ c = [first |-> c.first, events |-> c.events, robots |-> c.robots, sev |-> c.sev,
              signals |-> c.signals]
  <2>1. PICK f, es, rs, v, gs : b = [first |-> f, events |-> es, robots |-> rs, sev |-> v, signals |-> gs]
    BY DEF IsBucket
  <2> QED BY <1>4, <2>1 DEF Grown
<1>6. /\ IsList(c.events) /\ Len(c.events) = Len(b.events) + 1 /\ c.events[1] = b.events[1]
      /\ IsList(c.signals) /\ Len(c.signals) = Len(b.signals) + 1
      /\ Len(b.events) \in Nat
  BY <1>5, AppendedList, ListIs DEF IsBucket
<1>7. /\ IsList(c.robots) /\ \A i, j \in DOMAIN c.robots : c.robots[i] = c.robots[j] => i = j
      /\ ToSet(c.robots) = ToSet(b.robots) \cup {e.robot}
  <2>1. IsList(b.robots) /\ DOMAIN b.robots = 1..Len(b.robots) /\ Len(b.robots) \in Nat
    BY ListIs DEF IsBucket
  <2>2. CASE Contains(b.robots, e.robot)
    <3>1. e.robot \in ToSet(b.robots)
      BY <2>1, <2>2 DEF Contains, ToSet
    <3> QED BY <1>5, <2>1, <2>2, <3>1 DEF IsBucket
  <2>3. CASE ~Contains(b.robots, e.robot)
    <3>1. PICK t, m : t = c.robots /\ m = Len(b.robots)
      OBVIOUS
    <3>2. /\ IsList(t) /\ Len(t) = m + 1 /\ t[m + 1] = e.robot /\ \A i \in 1..m : t[i] = b.robots[i]
      BY <1>5, <2>1, <2>3, <3>1, AppendedList
    <3>3. DOMAIN t = 1..(m + 1)
      BY <3>2, ListIs
    <3>4. \A i \in 1..m : t[i] # e.robot
      BY <2>3, <3>1, <3>2 DEF Contains
    <3>5. \A i : i \in DOMAIN t <=> i \in 1..m \/ i = m + 1
      BY <2>1, <3>1, <3>3
    <3>6. \A i, j \in DOMAIN t : t[i] = t[j] => i = j
      <4> TAKE i, j \in DOMAIN t
      <4>1. CASE i \in 1..m /\ j \in 1..m
        BY <2>1, <3>1, <3>2, <4>1 DEF IsBucket
      <4>2. CASE i = m + 1 \/ j = m + 1
        BY <3>2, <3>4, <3>5, <4>2
      <4> QED BY <3>5, <4>1, <4>2
    <3>7. ToSet(t) = ToSet(b.robots) \cup {e.robot}
      <4>1. ToSet(t) = {t[i] : i \in 1..m} \cup {t[m + 1]}
        BY <3>5 DEF ToSet
      <4>2. {t[i] : i \in 1..m} = ToSet(b.robots)
        <5>1. {t[i] : i \in 1..m} = {b.robots[i] : i \in 1..m}
          BY <3>2
        <5>2. DOMAIN b.robots = 1..m
          BY <2>1, <3>1
        <5> QED BY <5>1, <5>2 DEF ToSet
      <4> QED BY <3>2, <4>1, <4>2
    <3> QED BY <3>1, <3>2, <3>6, <3>7
  <2> QED BY <2>2, <2>3
<1>8. IsBucket(c)
  BY <1>5, <1>6, <1>7 DEF IsBucket
<1>9. Len(c.events) = Cardinality(mine \cup {n})
  <2>1. Len(b.events) = Cardinality(mine)
    BY <1>1 DEF TellsOf
  <2>2. Cardinality(mine \cup {n}) = Cardinality(mine) + 1
    BY <1>3, FS_AddElement
  <2> QED BY <1>6, <2>1, <2>2
<1>10. /\ e.sev \in Int /\ \A k \in mine : read[k].sev \in Int
  <2>1. \A k \in mine : read[k] \in Happened
    BY <1>3
  <2> QED BY <2>1, HappenedAreEvents DEF IsEvent, Info, Critical
<1>11. PICK k \in mine : read[k].sev = b.sev
  BY <1>1 DEF TellsOf
<1>12. c.sev \in {e.sev, b.sev} /\ c.sev >= e.sev /\ c.sev >= b.sev /\ b.sev \in Int
  BY <1>5, <1>10, <1>11 DEF MaxSeverity
<1>13. (\E j \in mine \cup {n} : later[j].sev = c.sev) /\ \A j \in mine \cup {n} : later[j].sev <= c.sev
  <2>1. later[n].sev = e.sev /\ later[k].sev = b.sev
    BY <1>3, <1>11
  <2>2. ASSUME NEW j \in mine PROVE later[j].sev <= c.sev
    <3>1. read[j].sev <= b.sev
      BY <1>1 DEF TellsOf
    <3> QED BY <1>3, <1>10, <1>12, <3>1
  <2> QED BY <1>10, <1>11, <1>12, <2>1, <2>2
<1>14. ToSet(c.robots) = {later[j].robot : j \in mine \cup {n}}
  <2>1. ToSet(b.robots) = {read[j].robot : j \in mine}
    BY <1>1 DEF TellsOf
  <2>2. {later[j].robot : j \in mine \cup {n}} = {read[j].robot : j \in mine} \cup {later[n].robot}
    BY <1>3
  <2> QED BY <1>3, <1>7, <2>1, <2>2
<1>15. TellsOf(c, later, mine \cup {n})
  BY <1>9, <1>13, <1>14 DEF TellsOf
<1> QED BY <1>3, <1>4, <1>5, <1>8, <1>15

\* Whether a bucket of its kind is there or not, one more event is told.
LEMMA IngestedTells ==
    ASSUME RobotAssumption,
           NEW read \in Seq(Happened), NEW e \in Happened, NEW later, OneMore(read, e, later),
           NEW bs, BucketsTell(read, bs)
    PROVE  BucketsTell(later, Ingested(bs, e))
<1>1. PICK known : known = {i \in DOMAIN bs : KeyOf(bs[i].first) = KeyOf(e)}
  OBVIOUS
<1>2. PICK cs : cs = Ingested(bs, e)
  OBVIOUS
<1>3. Len(bs) \in Nat /\ DOMAIN bs = 1..Len(bs) /\ bs = [i \in 1..Len(bs) |-> bs[i]]
  BY ListIs DEF BucketsTell
<1>4. /\ DOMAIN read = 1..Len(read) /\ DOMAIN later = 1..(Len(read) + 1) /\ Len(read) \in Nat
      /\ later[Len(read) + 1] = e /\ \A n \in 1..Len(read) : later[n] = read[n]
  BY DEF OneMore
<1>5. \A n : n \in DOMAIN later <=> n \in DOMAIN read \/ n = Len(read) + 1
  BY <1>4
<1>6. ASSUME NEW i \in DOMAIN bs, KeyOf(bs[i].first) # KeyOf(e)
      PROVE  IsBucket(bs[i]) /\ TellsOf(bs[i], later, OfKey(later, KeyOf(bs[i].first)))
  <2>1. IsBucket(bs[i]) /\ TellsOf(bs[i], read, OfKey(read, KeyOf(bs[i].first)))
    BY DEF BucketsTell
  <2>2. PICK b : b = bs[i]
    OBVIOUS
  <2>3. KeyOf(b.first) # KeyOf(e) /\ TellsOf(b, read, OfKey(read, KeyOf(b.first)))
    BY <1>6, <2>1, <2>2
  <2>4. TellsOf(b, later, OfKey(later, KeyOf(b.first)))
    BY <2>3, OthersTell
  <2> QED BY <2>1, <2>2, <2>4
<1>7. CASE known = {}
  <2>1. OfKey(read, KeyOf(e)) = {}
    <3> SUFFICES ASSUME NEW n \in DOMAIN read, KeyOf(read[n]) = KeyOf(e) PROVE FALSE
      BY DEF OfKey
    <3>1. PICK i \in DOMAIN bs : KeyOf(bs[i].first) = KeyOf(read[n])
      BY DEF BucketsTell
    <3> QED BY <1>1, <1>7, <3>1
  <2>2. PICK b : b = NewBucket(e)
    OBVIOUS
  <2>3. IsBucket(b) /\ KeyOf(b.first) = KeyOf(e) /\ TellsOf(b, later, OfKey(later, KeyOf(e)))
    BY <2>1, <2>2, OpenedTells, HappenedAreEvents
  <2>4. cs = Append(bs, b)
    BY <1>1, <1>2, <1>7, <2>2 DEF Ingested
  <2>5. /\ IsList(cs) /\ Len(cs) = Len(bs) + 1 /\ cs[Len(bs) + 1] = b /\ \A i \in 1..Len(bs) : cs[i] = bs[i]
    BY <2>4, AppendedList DEF BucketsTell
  <2>6. DOMAIN cs = 1..(Len(bs) + 1)
    BY <2>5, ListIs
  <2>7. \A i : i \in DOMAIN cs <=> i \in DOMAIN bs \/ i = Len(bs) + 1
    BY <1>3, <2>6
  <2>8. ASSUME NEW i \in DOMAIN cs, NEW j \in DOMAIN cs, KeyOf(cs[i].first) = KeyOf(cs[j].first)
        PROVE  i = j
    <3>1. CASE i \in DOMAIN bs /\ j \in DOMAIN bs
      BY <1>3, <2>5, <2>8, <3>1 DEF BucketsTell
    <3>2. CASE i \in DOMAIN bs /\ j = Len(bs) + 1
      <4>1. KeyOf(bs[i].first) = KeyOf(e)
        BY <1>3, <2>3, <2>5, <2>8, <3>2
      <4> QED BY <1>1, <1>7, <3>2, <4>1
    <3>3. CASE i = Len(bs) + 1 /\ j \in DOMAIN bs
      <4>1. KeyOf(bs[j].first) = KeyOf(e)
        BY <1>3, <2>3, <2>5, <2>8, <3>3
      <4> QED BY <1>1, <1>7, <3>3, <4>1
    <3> QED BY <2>7, <3>1, <3>2, <3>3
  <2>9. ASSUME NEW n \in DOMAIN later PROVE \E i \in DOMAIN cs : KeyOf(cs[i].first) = KeyOf(later[n])
    <3>1. CASE n \in DOMAIN read
      <4>1. PICK i \in DOMAIN bs : KeyOf(bs[i].first) = KeyOf(read[n])
        BY <3>1 DEF BucketsTell
      <4>2. i \in DOMAIN cs /\ cs[i] = bs[i] /\ later[n] = read[n]
        BY <1>3, <1>4, <2>5, <2>7, <3>1
      <4> QED BY <4>1, <4>2
    <3>2. CASE n = Len(read) + 1
      <4>1. Len(bs) + 1 \in DOMAIN cs /\ KeyOf(cs[Len(bs) + 1].first) = KeyOf(later[n])
        BY <1>4, <2>3, <2>5, <2>7, <3>2
      <4> QED BY <4>1
    <3> QED BY <1>5, <3>1, <3>2
  <2>10. ASSUME NEW i \in DOMAIN cs
         PROVE  IsBucket(cs[i]) /\ TellsOf(cs[i], later, OfKey(later, KeyOf(cs[i].first)))
    <3>1. CASE i \in DOMAIN bs
      <4>1. cs[i] = bs[i] /\ KeyOf(bs[i].first) # KeyOf(e)
        BY <1>1, <1>3, <1>7, <2>5, <3>1
      <4> QED BY <1>6, <3>1, <4>1
    <3>2. CASE i = Len(bs) + 1
      BY <2>3, <2>5, <3>2
    <3> QED BY <2>7, <3>1, <3>2
  <2> QED BY <1>2, <2>5, <2>8, <2>9, <2>10 DEF BucketsTell
<1>8. CASE known # {}
  <2>1. PICK k : k = CHOOSE i \in known : TRUE
    OBVIOUS
  <2>2. k \in DOMAIN bs /\ KeyOf(bs[k].first) = KeyOf(e)
    BY <1>1, <1>8, <2>1
  <2>3. PICK b, c : b = bs[k] /\ c = Grown(b, e)
    OBVIOUS
  <2>4. cs = [bs EXCEPT ![k] = c]
    BY <1>1, <1>2, <1>8, <2>1, <2>2, <2>3 DEF Ingested
  <2>5. DOMAIN cs = DOMAIN bs /\ cs[k] = c /\ \A i \in DOMAIN bs : i # k => cs[i] = bs[i]
    BY <2>2, <2>4
  <2>6. IsList(cs)
    <3>1. cs = [i \in 1..Len(bs) |-> cs[i]]
      BY <1>3, <2>4
    <3> QED BY <1>3, <3>1, IsAList
  <2>7. IsBucket(b) /\ TellsOf(b, read, OfKey(read, KeyOf(e))) /\ KeyOf(b.first) = KeyOf(e)
    BY <2>2, <2>3 DEF BucketsTell
  <2>8. IsBucket(c) /\ c.first = b.first /\ TellsOf(c, later, OfKey(later, KeyOf(e)))
    BY <2>3, <2>7, GrownTells
  <2>9. \A i \in DOMAIN bs : cs[i].first = bs[i].first
    BY <2>3, <2>5, <2>8
  <2>10. \A i, j \in DOMAIN cs : KeyOf(cs[i].first) = KeyOf(cs[j].first) => i = j
    BY <2>5, <2>9 DEF BucketsTell
  <2>11. ASSUME NEW n \in DOMAIN later PROVE \E i \in DOMAIN cs : KeyOf(cs[i].first) = KeyOf(later[n])
    <3>1. CASE n \in DOMAIN read
      <4>1. PICK i \in DOMAIN bs : KeyOf(bs[i].first) = KeyOf(read[n])
        BY <3>1 DEF BucketsTell
      <4> QED BY <1>4, <2>5, <2>9, <3>1, <4>1
    <3>2. CASE n = Len(read) + 1
      BY <1>4, <2>2, <2>5, <2>9, <3>2
    <3> QED BY <1>5, <3>1, <3>2
  <2>12. ASSUME NEW i \in DOMAIN cs
         PROVE  IsBucket(cs[i]) /\ TellsOf(cs[i], later, OfKey(later, KeyOf(cs[i].first)))
    <3>1. CASE i = k
      BY <2>5, <2>7, <2>8, <3>1
    <3>2. CASE i # k
      <4>1. KeyOf(bs[i].first) # KeyOf(e)
        BY <2>2, <2>5, <3>2 DEF BucketsTell
      <4> QED BY <1>6, <2>5, <3>2, <4>1
    <3> QED BY <3>1, <3>2
  <2> QED BY <1>2, <2>6, <2>10, <2>11, <2>12 DEF BucketsTell
<1> QED BY <1>7, <1>8

\* g is the fold of ingest over the events at each set of places, from the first on.
Ingests(g, bs, es, D) ==
    g = [s \in SUBSET D |-> IF s = {} THEN bs ELSE Ingested(g[s \ {Max(s)}], es[Max(s)])]

\* There is such a fold: the recursion ends.
LEMMA IngestsExist ==
    ASSUME NEW n \in Nat, NEW bs, NEW es
    PROVE  \E g : Ingests(g, bs, es, 1..n)
<1>0. PICK D : D = 1..n
  OBVIOUS
<1> DEFINE Upto(m) == {s \in SUBSET D : Cardinality(s) <= m}
           Part(g, m) == g = [s \in Upto(m) |-> IF s = {} THEN bs
                                              ELSE Ingested(g[s \ {Max(s)}], es[Max(s)])]
           Bad == {m \in Nat : ~\E g : Part(g, m)}
<1>a. IsFiniteSet(D) /\ \A s \in SUBSET D : s # {} => Max(s) \in s
  <2>1. IsFiniteSet(D)
    BY <1>0, FS_Interval
  <2>2. ASSUME NEW s \in SUBSET D, s # {} PROVE Max(s) \in s
    <3>1. s \in SUBSET Nat /\ \A i \in s : i <= n
      BY <1>0
    <3> QED BY <2>2, <3>1, MaxIsIn
  <2> QED BY <2>1, <2>2
<1>1. \A s \in SUBSET D : Cardinality(s) \in Nat /\ Cardinality(s) <= Cardinality(D)
  BY <1>a, FS_Subset, FS_CardinalityType
<1>2. Bad = {}
  <2> SUFFICES ASSUME Bad # {} PROVE FALSE
    OBVIOUS
  <2>1. PICK m \in Bad : \A l \in Bad : ~(l < m)
    <3>1. Bad \in SUBSET Nat
      OBVIOUS
    <3> HIDE DEF Bad
    <3> QED BY <3>1, LeastNat
  <2>2. m # 0
    <3>1. \A s \in Upto(0) : s = {}
      BY <1>a, <1>1, FS_Subset, FS_EmptySet
    <3>2. Part([s \in Upto(0) |-> bs], 0)
      BY <3>1
    <3> QED BY <3>2
  <2>3. PICK g : Part(g, m - 1)
    <3>1. m - 1 \in Nat /\ m - 1 < m
      BY <2>2
    <3>2. m - 1 \notin Bad
      BY <2>1, <3>1
    <3> QED BY <3>1, <3>2
  <2> DEFINE h == [s \in Upto(m) |-> IF s = {} THEN bs ELSE Ingested(g[s \ {Max(s)}], es[Max(s)])]
  <2>4. ASSUME NEW s \in Upto(m), s # {} PROVE h[s \ {Max(s)}] = g[s \ {Max(s)}]
    <3>1. Cardinality(s \ {Max(s)}) = Cardinality(s) - 1 /\ s \ {Max(s)} \in SUBSET D
      BY <1>a, <2>4, FS_Subset, FS_RemoveElement
    <3>2. s \ {Max(s)} \in Upto(m - 1) /\ s \ {Max(s)} \in Upto(m)
      BY <1>1, <3>1
    <3> QED BY <2>3, <3>2
  <2>5. Part(h, m)
    BY <2>4
  <2> QED BY <2>1, <2>5
<1>3. PICK g : Part(g, Cardinality(D))
  BY <1>2, <1>a, FS_CardinalityType
<1>4. Upto(Cardinality(D)) = SUBSET D
  BY <1>1
<1> HIDE DEF Upto
<1>5. Ingests(g, bs, es, D)
  BY <1>3, <1>4 DEF Ingests
<1> QED BY <1>0, <1>5

\* The mapper takes the events of a row one by one.
LEMMA FoldIngests ==
    ASSUME RobotAssumption, NEW es \in Seq(Happened), NEW read \in Seq(Happened),
           NEW bs, BucketsTell(read, bs)
    PROVE  BucketsTell(read \o es, FoldLeft(Ingested, bs, es))
<1>1. PICK n \in Nat, m \in Nat : n = Len(es) /\ m = Len(read) /\ DOMAIN es = 1..n /\ DOMAIN read = 1..m
  OBVIOUS
<1>2. PICK g : g = CHOOSE h : Ingests(h, bs, es, 1..n)
  OBVIOUS
<1>3. Ingests(g, bs, es, 1..n)
  BY <1>2, IngestsExist
<1>4. FoldLeft(Ingested, bs, es) = g[1..n]
  BY <1>1, <1>2 DEF FoldLeft, MapThenFoldSet, Ingests
<1>5. PICK sofar : sofar = [k \in 0..n |-> [i \in 1..(m + k) |-> IF i <= m THEN read[i] ELSE es[i - m]]]
  OBVIOUS
<1>6. ASSUME NEW k \in 0..n
      PROVE  /\ sofar[k] \in Seq(Happened) /\ Len(sofar[k]) = m + k
             /\ \A i \in 1..(m + k) : sofar[k][i] = IF i <= m THEN read[i] ELSE es[i - m]
  <2>1. PICK t : t = sofar[k]
    OBVIOUS
  <2>2. t = [i \in 1..(m + k) |-> IF i <= m THEN read[i] ELSE es[i - m]] /\ m + k \in Nat
    BY <1>5, <2>1
  <2>3. ASSUME NEW i \in 1..(m + k) PROVE (IF i <= m THEN read[i] ELSE es[i - m]) \in Happened
    <3>1. CASE i <= m
      BY <1>1, <3>1
    <3>2. CASE ~(i <= m)
      <4>1. i - m \in 1..n
        BY <1>1, <3>2
      <4> QED BY <1>1, <3>2, <4>1
    <3> QED BY <3>1, <3>2
  <2>4. PICK l \in Nat : l = m + k
    OBVIOUS
  <2>5. t \in [1..l -> Happened]
    BY <2>2, <2>3, <2>4
  <2>6. t \in Seq(Happened) /\ Len(t) = l
    BY <2>5, SMTT(40)
  <2> QED BY <2>1, <2>2, <2>4, <2>6
<1>7. PICK Good : Good = {k \in 0..n : BucketsTell(sofar[k], g[1..k])}
  OBVIOUS
<1>8. 0 \in Good
  <2>1. sofar[0] = read
    <3>1. sofar[0] \in Seq(Happened) /\ Len(sofar[0]) = m /\ \A i \in 1..m : sofar[0][i] = read[i]
      BY <1>6
    <3> QED BY <1>1, <3>1
  <2>2. 1..0 = {} /\ g[{}] = bs
    BY <1>3 DEF Ingests
  <2> QED BY <1>7, <2>1, <2>2
<1>9. ASSUME NEW k \in 0..(n - 1), k \in Good PROVE k + 1 \in Good
  <2>1. k \in 0..n /\ k + 1 \in 0..n /\ k + 1 \in 1..n
    BY <1>9
  <2>2. PICK part, s : part = 1..k /\ s = 1..(k + 1)
    OBVIOUS
  <2>3. Max(s) = k + 1
    <3>1. s \in SUBSET Nat /\ k + 1 \in s /\ \A i \in s : i <= k + 1
      BY <2>1, <2>2
    <3>2. Max(s) \in s /\ \A i \in s : i <= Max(s)
      BY <2>1, <3>1, MaxIsIn
    <3>3. Max(s) <= k + 1 /\ k + 1 <= Max(s) /\ Max(s) \in Nat
      BY <3>1, <3>2
    <3> QED BY <2>1, <3>3
  <2>4. s \ {k + 1} = part /\ s # {} /\ s \in SUBSET (1..n)
    <3>1. \A i : i \in s \ {k + 1} <=> i \in part
      BY <2>1, <2>2
    <3>2. \A i \in s : i \in 1..n
      BY <2>1, <2>2
    <3>3. k + 1 \in s
      BY <2>1, <2>2
    <3> QED BY <3>1, <3>2, <3>3
  <2>5. g[s] = Ingested(g[part], es[k + 1])
    BY <1>3, <2>3, <2>4 DEF Ingests
  <2>6. PICK e \in Happened : e = es[k + 1]
    BY <1>1, <2>1
  <2>7. sofar[k + 1] = Append(sofar[k], e)
    <3>1. PICK t, u : t = sofar[k] /\ u = sofar[k + 1]
      OBVIOUS
    <3>2. /\ t \in Seq(Happened) /\ Len(t) = m + k
          /\ \A i \in 1..(m + k) : t[i] = IF i <= m THEN read[i] ELSE es[i - m]
      BY <1>6, <2>1, <3>1
    <3>3. /\ u \in Seq(Happened) /\ Len(u) = m + (k + 1)
          /\ \A i \in 1..(m + (k + 1)) : u[i] = IF i <= m THEN read[i] ELSE es[i - m]
      BY <1>6, <2>1, <3>1
    <3>4. u[m + (k + 1)] = e
      <4>1. m + (k + 1) \in 1..(m + (k + 1)) /\ ~(m + (k + 1) <= m) /\ (m + (k + 1)) - m = k + 1
        BY <2>1
      <4> QED BY <2>6, <3>3, <4>1
    <3>5. ASSUME NEW i \in 1..(m + k) PROVE u[i] = t[i]
      <4>1. i \in 1..(m + (k + 1))
        BY <2>1
      <4> QED BY <3>2, <3>3, <4>1
    <3>6. PICK v : v = Append(t, e)
      OBVIOUS
    <3>7. v \in Seq(Happened) /\ Len(v) = (m + k) + 1 /\ v[(m + k) + 1] = e /\ \A i \in 1..(m + k) : v[i] = t[i]
      BY <3>2, <3>6
    <3>8. m + (k + 1) = (m + k) + 1
      BY <2>1
    <3>9. PICK l \in Nat : l = m + k
      BY <2>1
    <3>10. \A i \in 1..(l + 1) : i \in 1..l \/ i = l + 1
      OBVIOUS
    <3>11. \A i \in 1..(l + 1) : u[i] = v[i]
      BY <3>4, <3>5, <3>7, <3>8, <3>9, <3>10
    <3>12. u = v
      BY <3>3, <3>7, <3>8, <3>9, <3>11, SeqEqual
    <3> QED BY <3>1, <3>6, <3>12
  <2>8. BucketsTell(sofar[k], g[part]) /\ sofar[k] \in Seq(Happened)
    BY <1>6, <1>7, <1>9, <2>1, <2>2
  <2>9. OneMore(sofar[k], e, sofar[k + 1])
    BY <2>7, <2>8, LaterIs
  <2>10. BucketsTell(sofar[k + 1], Ingested(g[part], e))
    BY <2>8, <2>9, IngestedTells
  <2> QED BY <1>7, <2>1, <2>2, <2>5, <2>6, <2>10
<1>10. n \in Good
  <2>1. 0..n \subseteq Good
    BY <1>8, <1>9, CountingUp
  <2> QED BY <2>1
<1>11. sofar[n] = read \o es
  <2>1. PICK t, u : t = sofar[n] /\ u = read \o es
    OBVIOUS
  <2>2. /\ t \in Seq(Happened) /\ Len(t) = m + n
        /\ \A i \in 1..(m + n) : t[i] = IF i <= m THEN read[i] ELSE es[i - m]
    <3>1. n \in 0..n
      BY <1>1
    <3> QED BY <1>6, <2>1, <3>1
  <2>3. /\ u \in Seq(Happened) /\ Len(u) = m + n
        /\ \A i \in 1..(m + n) : u[i] = IF i <= m THEN read[i] ELSE es[i - m]
    BY <1>1, <2>1
  <2>4. PICK l \in Nat : l = m + n
    OBVIOUS
  <2>5. t = u
    <3>1. Len(t) = l /\ Len(u) = l /\ \A i \in 1..l : t[i] = u[i]
      BY <2>2, <2>3, <2>4
    <3> QED BY <2>2, <2>3, <3>1, SeqEqual
  <2> QED BY <2>1, <2>5
<1> QED BY <1>4, <1>7, <1>10, <1>11

-----------------------------------------------------------------------------
(* The summary.                                                             *)

LEMMA KeysAre == \A e, d : KeyOf(e) = KeyOf(d) <=> e.type = d.type /\ e.fp = d.fp
  BY DEF KeyOf

\* The stems of two types differ in their first word.
LEMMA StemsDiffer ==
    /\ \A t \in EventTypes : IsList(Stem[t]) /\ Len(Stem[t]) >= 1
    /\ \A t, u \in EventTypes : Stem[t][1] = Stem[u][1] => t = u
<1>1. /\ Stem["collision"] = <<"collision", "with", "environment">>
      /\ Stem["safety_stop"] = <<"safety", "stop", "triggered">>
      /\ Stem["joint_limit_violation"] = <<"joint", "limit", "violation">>
      /\ Stem["controller_error"] = <<"controller", "divergence">>
      /\ Stem["sensor_outlier"] = <<"sensor", "outlier">>
      /\ Stem["task_timeout"] = <<"task", "timeout">>
      /\ Stem["trajectory_deviation"] = <<"trajectory", "follow", "error">>
      /\ Stem["actuator_saturation"] = <<"actuator", "saturation">>
  BY DEF Stem
<1>2. \A t \in EventTypes : IsList(Stem[t]) /\ Len(Stem[t]) >= 1
  <2>1. /\ \A a, b : IsList(<<a, b>>) /\ Len(<<a, b>>) >= 1
        /\ \A a, b, c : IsList(<<a, b, c>>) /\ Len(<<a, b, c>>) >= 1
    BY ShortLists
  <2> TAKE t \in EventTypes
  <2>2. (\E a, b : Stem[t] = <<a, b>>) \/ (\E a, b, c : Stem[t] = <<a, b, c>>)
    BY <1>1, TypesAre
  <2> QED BY <2>1, <2>2
<1>3. /\ Stem["collision"][1] = "collision"
      /\ Stem["safety_stop"][1] = "safety"
      /\ Stem["joint_limit_violation"][1] = "joint"
      /\ Stem["controller_error"][1] = "controller"
      /\ Stem["sensor_outlier"][1] = "sensor"
      /\ Stem["task_timeout"][1] = "task"
      /\ Stem["trajectory_deviation"][1] = "trajectory"
      /\ Stem["actuator_saturation"][1] = "actuator"
  BY <1>1
<1>4. \A t, u \in EventTypes : Stem[t][1] = Stem[u][1] => t = u
  BY <1>3, TypesAre
<1> QED BY <1>2, <1>4

\* An identifier begins with the stem of its type.
LEMMA IdBeginsWithStem ==
    ASSUME NEW e, IsEvent(e)
    PROVE  IdOf(e)[1] = Stem[e.type][1]
<1>1. PICK words : words = [i \in DOMAIN e.fp |-> Lower(e.fp[i])]
  OBVIOUS
<1>2. PICK places : places = {i \in DOMAIN words : words[i] # ""}
  OBVIOUS
<1>3. PICK extra : extra = SafeId(e.fp)
  OBVIOUS
<1>4. IsList(extra)
  <2>1. extra = AtPlaces(words, places)
    BY <1>1, <1>2, <1>3 DEF SafeId
  <2>2. DOMAIN e.fp = 1..Len(e.fp) /\ Len(e.fp) \in Nat
    BY ListIs DEF IsEvent
  <2>3. PICK n \in Nat : places \in SUBSET (1..n)
    BY <1>1, <1>2, <2>2
  <2> QED BY <2>1, <2>3, AtPlacesOK
<1>5. PICK stem : stem = Stem[e.type]
  OBVIOUS
<1>6. IsList(stem) /\ Len(stem) >= 1
  BY <1>5, StemsDiffer DEF IsEvent
<1>7. (stem \o extra)[1] = stem[1]
  <2>1. PICK S : S = ToSet(stem) \cup ToSet(extra)
    OBVIOUS
  <2>2. stem \in Seq(S) /\ extra \in Seq(S)
    BY <1>4, <1>6, <2>1 DEF IsList
  <2> QED BY <1>6, <2>2
<1> QED BY <1>3, <1>5, <1>7 DEF IdOf

\* What is in at least two of a finite set are two of them.
LEMMA TwoOf ==
    ASSUME NEW S, IsFiniteSet(S)
    PROVE  Cardinality(S) >= 2 <=> \E a, b \in S : a # b
<1>1. Cardinality(S) \in Nat
  BY FS_CardinalityType
<1>2. ASSUME Cardinality(S) >= 2 PROVE \E a, b \in S : a # b
  <2>1. PICK a \in S : TRUE
    BY <1>2, FS_EmptySet
  <2>2. S # {a}
    BY <1>2, FS_Singleton
  <2> QED BY <2>1, <2>2
<1>3. ASSUME NEW a \in S, NEW b \in S, a # b PROVE Cardinality(S) >= 2
  <2>1. Cardinality({a}) = 1 /\ IsFiniteSet({a}) /\ b \notin {a}
    BY <1>3, FS_Singleton
  <2>3. Cardinality({a} \cup {b}) = 1 + 1
    BY <2>1, FS_AddElement
  <2>2. {a} \cup {b} \subseteq S
    OBVIOUS
  <2>4. Cardinality({a} \cup {b}) <= Cardinality(S)
    BY <2>2, FS_Subset
  <2> QED BY <1>1, <2>3, <2>4
<1> QED BY <1>2, <1>3

LEMMA ImageIsFinite ==
    ASSUME NEW D, IsFiniteSet(D), NEW f
    PROVE  IsFiniteSet({f[x] : x \in D})
<1>1. PICK T, g : T = {f[x] : x \in D} /\ g = [x \in D |-> f[x]]
  OBVIOUS
<1>2. g \in Surjection(D, T)
  BY <1>1 DEF Surjection
<1> QED BY <1>1, <1>2, FS_Surjection

LEMMA ListIsFinite ==
    ASSUME NEW s, IsList(s)
    PROVE  IsFiniteSet(ToSet(s)) /\ IsFiniteSet(DOMAIN s)
<1>1. IsFiniteSet(DOMAIN s)
  BY ListIs, FS_Interval
<1>2. IsFiniteSet({s[i] : i \in DOMAIN s})
  BY <1>1, ImageIsFinite
<1> QED BY <1>1, <1>2 DEF ToSet

\* The summary of a report is what the buckets tell of what was read.
SummaryIs(read, fs, passed) ==
    LET Same(e, f) == e.type = f.type /\ e.fp = f.fp
    IN  /\ \A e \in ToSet(read) : Cardinality({f \in fs : Same(e, f)}) = 1
        /\ \A f \in fs :
              LET mine == {n \in DOMAIN read : Same(read[n], f)}
              IN  /\ f.count = Cardinality(mine)
                  /\ f.sev = Max({read[n].sev : n \in mine})
                  /\ ToSet(f.robots) = {read[n].robot : n \in mine}
                  /\ Len(f.robots) = Cardinality(ToSet(f.robots))
        /\ \A f, g \in fs : f.id = g.id => f.type = g.type
        /\ passed <=>
              \E d, e \in ToSet(read) :
                 /\ d.robot # e.robot
                 /\ Same(d, e) \/ \E p, q \in FixPatterns, f, g \in Taxonomy :
                       /\ p.id = q.id /\ f.id \in p.failures /\ g.id \in q.failures
                       /\ d.type \in FailureEventTypes(f)
                       /\ e.type \in FailureEventTypes(g)

FailureFields(b, f) ==
    /\ f.id = IdOf(b.first) /\ f.type = b.first.type /\ f.fp = b.first.fp /\ f.sev = b.sev
    /\ f.robots = b.robots /\ f.count = Len(b.events)

LEMMA FailureIs == ASSUME NEW b PROVE FailureFields(b, Failure(b))
  BY DEF Failure, FailureFields

LEMMA CountOfDistinct ==
    ASSUME NEW s, IsList(s), \A i, j \in DOMAIN s : s[i] = s[j] => i = j
    PROVE  Len(s) = Cardinality(ToSet(s))
<1>1. Len(s) \in Nat /\ DOMAIN s = 1..Len(s)
  BY ListIs
<1>2. IsFiniteSet(1..Len(s)) /\ Cardinality(1..Len(s)) = Len(s)
  BY <1>1, FS_Interval
<1>3. PICK T, g : T = ToSet(s) /\ g = [i \in 1..Len(s) |-> s[i]]
  OBVIOUS
<1>4. g \in Surjection(1..Len(s), T) /\ g \in Injection(1..Len(s), T)
  BY <1>1, <1>3 DEF Surjection, Injection, IsInjective, ToSet
<1> QED BY <1>2, <1>3, <1>4, FS_Surjection

\* A failure tells of the events of its kind.
TellsOfKind(f, read) ==
    LET mine == {n \in DOMAIN read : read[n].type = f.type /\ read[n].fp = f.fp}
    IN  /\ f.count = Cardinality(mine)
        /\ f.sev = Max({read[n].sev : n \in mine})
        /\ ToSet(f.robots) = {read[n].robot : n \in mine}
        /\ IsList(f.robots) /\ Len(f.robots) = Cardinality(ToSet(f.robots))

LEMMA FailureTells ==
    ASSUME RobotAssumption, NEW read \in Seq(Happened), NEW bs, BucketsTell(read, bs),
           NEW f \in Emitted(bs)
    PROVE  TellsOfKind(f, read)
<1>0. PICK i \in DOMAIN bs : f = Failure(bs[i])
  BY DEF Emitted
<1>1. PICK b : b = bs[i] /\ IsBucket(b) /\ TellsOf(b, read, OfKey(read, KeyOf(b.first)))
  BY DEF BucketsTell
<1>2. FailureFields(b, f)
  BY <1>0, <1>1, FailureIs
<1>3. PICK mine : mine = {n \in DOMAIN read : read[n].type = f.type /\ read[n].fp = f.fp}
  OBVIOUS
<1>4. mine = OfKey(read, KeyOf(b.first))
  BY <1>2, <1>3, KeysAre DEF OfKey, FailureFields
<1>5. TellsOf(b, read, mine)
  BY <1>1, <1>4
<1>6. f.sev = Max({read[n].sev : n \in mine})
  <2>1. PICK S : S = {read[n].sev : n \in mine}
    OBVIOUS
  <2>2. f.sev \in S /\ \A v \in S : v <= f.sev
    BY <1>2, <1>5, <2>1 DEF TellsOf, FailureFields
  <2>3. S \subseteq Int
    <3>1. \A n \in mine : read[n] \in Happened
      BY <1>3
    <3> QED BY <2>1, <3>1, HappenedAreEvents DEF IsEvent, Info, Critical
  <2>4. Max(S) \in S /\ \A v \in S : Max(S) >= v
    <3>1. \A v \in S : f.sev >= v
      BY <2>2, <2>3
    <3> QED BY <2>2, <3>1 DEF Max
  <2>5. f.sev = Max(S)
    <3>1. PICK v, w : v = f.sev /\ w = Max(S)
      OBVIOUS
    <3>2. v \in Int /\ w \in Int /\ v <= w /\ v >= w
      BY <2>2, <2>3, <2>4, <3>1
    <3> QED BY <3>1, <3>2
  <2> QED BY <2>1, <2>5
<1>7. IsList(f.robots) /\ Len(f.robots) = Cardinality(ToSet(f.robots))
  BY <1>1, <1>2, CountOfDistinct DEF IsBucket, FailureFields
<1>8. f.count = Cardinality(mine) /\ ToSet(f.robots) = {read[n].robot : n \in mine}
  BY <1>2, <1>5 DEF TellsOf, FailureFields
<1> QED BY <1>3, <1>6, <1>7, <1>8 DEF TellsOfKind

\* What is a bucket's failure, among the failures.
LEMMA OneOfAKind ==
    ASSUME NEW read \in Seq(Happened), NEW bs, BucketsTell(read, bs), NEW e \in ToSet(read)
    PROVE  \E i \in DOMAIN bs :
              {f \in Emitted(bs) : e.type = f.type /\ e.fp = f.fp} = {Failure(bs[i])}
<1>1. PICK n \in DOMAIN read : read[n] = e
  BY DEF ToSet
<1>2. PICK i \in DOMAIN bs : KeyOf(bs[i].first) = KeyOf(e)
  BY <1>1 DEF BucketsTell
<1>3. \A f \in Emitted(bs) : \E j \in DOMAIN bs : f = Failure(bs[j])
  BY DEF Emitted
<1>4. Failure(bs[i]) \in Emitted(bs)
  BY DEF Emitted
<1>5. \A j \in DOMAIN bs : Failure(bs[j]).type = bs[j].first.type /\ Failure(bs[j]).fp = bs[j].first.fp
  BY FailureIs DEF FailureFields
<1>6. e.type = Failure(bs[i]).type /\ e.fp = Failure(bs[i]).fp
  BY <1>2, <1>5, KeysAre
<1>7. ASSUME NEW j \in DOMAIN bs, e.type = Failure(bs[j]).type, e.fp = Failure(bs[j]).fp PROVE j = i
  <2>1. KeyOf(bs[j].first) = KeyOf(e)
    BY <1>5, <1>7, KeysAre
  <2> QED BY <1>2, <2>1 DEF BucketsTell
<1> QED BY <1>3, <1>4, <1>6, <1>7

LEMMA RobotsOfAKind ==
    ASSUME RobotAssumption, NEW read \in Seq(Happened), NEW bs, BucketsTell(read, bs), NEW e \in ToSet(read)
    PROVE  \E f \in Emitted(bs) : f.type = e.type /\ f.fp = e.fp /\ e.robot \in ToSet(f.robots)
<1>1. PICK n \in DOMAIN read : read[n] = e
  BY DEF ToSet
<1>2. PICK i \in DOMAIN bs : KeyOf(bs[i].first) = KeyOf(e)
  BY <1>1 DEF BucketsTell
<1>3. PICK f : f = Failure(bs[i])
  OBVIOUS
<1>4. f.type = e.type /\ f.fp = e.fp
  BY <1>2, <1>3, FailureIs, KeysAre, ZenonT(40) DEF FailureFields
<1>5. PICK mine : mine = {k \in DOMAIN read : read[k].type = f.type /\ read[k].fp = f.fp}
  OBVIOUS
<1>6. ToSet(f.robots) = {read[k].robot : k \in mine}
  <2>1. f \in Emitted(bs)
    BY <1>3 DEF Emitted
  <2>2. TellsOfKind(f, read)
    BY <2>1, FailureTells
  <2> QED BY <1>5, <2>2 DEF TellsOfKind
<1>7. n \in mine
  BY <1>1, <1>4, <1>5
<1>8. e.robot \in ToSet(f.robots)
  BY <1>1, <1>6, <1>7
<1> QED BY <1>3, <1>4, <1>8 DEF Emitted

LEMMA RobotsHappened ==
    ASSUME RobotAssumption, NEW read \in Seq(Happened), NEW bs, BucketsTell(read, bs),
           NEW f \in Emitted(bs), NEW robot \in ToSet(f.robots)
    PROVE  \E e \in ToSet(read) : e.robot = robot /\ e.type = f.type /\ e.fp = f.fp
<1>1. TellsOfKind(f, read)
  BY FailureTells
<1>2. PICK mine : mine = {k \in DOMAIN read : read[k].type = f.type /\ read[k].fp = f.fp}
  OBVIOUS
<1>3. ToSet(f.robots) = {read[k].robot : k \in mine}
  BY <1>1, <1>2 DEF TellsOfKind
<1>4. PICK k \in mine : robot = read[k].robot
  BY <1>3
<1>5. read[k] \in ToSet(read) /\ read[k].type = f.type /\ read[k].fp = f.fp
  BY <1>2 DEF ToSet
<1> QED BY <1>4, <1>5

\* Failures that one pattern fixes.
FixedTogether(t, u) ==
    \E p, q \in FixPatterns, f, g \in Taxonomy :
        /\ p.id = q.id /\ f.id \in p.failures /\ g.id \in q.failures
        /\ t \in FailureEventTypes(f) /\ u \in FailureEventTypes(g)

LEMMA TransfersAre ==
    ASSUME NEW t \in EventTypes, NEW u \in EventTypes
    PROVE  FixedTogether(t, u) <=> \E p : p \in TransferTable[t] /\ p \in TransferTable[u]
<1>1. ASSUME NEW v \in EventTypes, NEW x
      PROVE  x \in TransferTable[v] <=> \E p \in FixPatterns : \E f \in Taxonomy :
                p.id = x /\ f.id \in p.failures /\ v \in FailureEventTypes(f)
  BY DEF TransferTable
<1>2. ASSUME FixedTogether(t, u) PROVE \E p : p \in TransferTable[t] /\ p \in TransferTable[u]
  <2>1. PICK p \in FixPatterns, q \in FixPatterns, f \in Taxonomy, g \in Taxonomy :
           /\ p.id = q.id /\ f.id \in p.failures /\ g.id \in q.failures
           /\ t \in FailureEventTypes(f) /\ u \in FailureEventTypes(g)
    BY <1>2 DEF FixedTogether
  <2> QED BY <1>1, <2>1
<1>3. ASSUME NEW x, x \in TransferTable[t], x \in TransferTable[u] PROVE FixedTogether(t, u)
  <2>1. PICK p \in FixPatterns, f \in Taxonomy : p.id = x /\ f.id \in p.failures /\ t \in FailureEventTypes(f)
    BY <1>1, <1>3
  <2>2. PICK q \in FixPatterns, g \in Taxonomy : q.id = x /\ g.id \in q.failures /\ u \in FailureEventTypes(g)
    BY <1>1, <1>3
  <2> QED BY <2>1, <2>2 DEF FixedTogether
<1> QED BY <1>2, <1>3

\* The failures a pattern fixes, and the robots they happened on.
FixedBy(fs, p) == {f \in fs : p \in TransferTable[f.type]}
RobotsFixedBy(fs, p) == UNION {ToSet(f.robots) : f \in FixedBy(fs, p)}

LEMMA GateIs ==
    ASSUME RobotAssumption, NEW read \in Seq(Happened), NEW bs, BucketsTell(read, bs)
    PROVE  Accepted(Emitted(bs)) <=>
              \E d, e \in ToSet(read) :
                 d.robot # e.robot /\ ((d.type = e.type /\ d.fp = e.fp) \/ FixedTogether(d.type, e.type))
<1>1. PICK fs : fs = Emitted(bs)
  OBVIOUS
<1>2. /\ \A e \in ToSet(read) : \E f \in fs : f.type = e.type /\ f.fp = e.fp /\ e.robot \in ToSet(f.robots)
      /\ \A f \in fs : \A robot \in ToSet(f.robots) :
            \E e \in ToSet(read) : e.robot = robot /\ e.type = f.type /\ e.fp = f.fp
  BY <1>1, RobotsOfAKind, RobotsHappened
<1>3. \A e \in ToSet(read) : e.type \in EventTypes
  <2>1. \A e \in ToSet(read) : e \in Happened
    BY DEF ToSet
  <2> QED BY <2>1, HappenedAreEvents DEF IsEvent
<1>4. ASSUME NEW f \in fs
      PROVE  /\ IsList(f.robots) /\ Len(f.robots) = Cardinality(ToSet(f.robots))
             /\ f.type \in EventTypes
  <2>1. PICK i \in DOMAIN bs : f = Failure(bs[i])
    BY <1>1 DEF Emitted
  <2>2. f.type = bs[i].first.type /\ bs[i].first \in Happened
    BY <2>1, FailureIs DEF FailureFields, BucketsTell, IsBucket
  <2>3. TellsOfKind(f, read)
    BY <1>1, FailureTells
  <2>4. f.type \in EventTypes
    BY <2>2, HappenedAreEvents DEF IsEvent
  <2> QED BY <2>3, <2>4 DEF TellsOfKind
<1>5. IsFiniteSet(fs)
  <2>1. PICK F : F = [i \in DOMAIN bs |-> Failure(bs[i])]
    OBVIOUS
  <2>2. fs = {F[i] : i \in DOMAIN bs}
    BY <1>1, <2>1 DEF Emitted
  <2> QED BY <2>2, ListIsFinite, ImageIsFinite DEF BucketsTell
<1>6. \A f, g \in fs : f.type = g.type /\ f.fp = g.fp => f = g
  <2> TAKE f, g \in fs
  <2>1. PICK i \in DOMAIN bs, j \in DOMAIN bs : f = Failure(bs[i]) /\ g = Failure(bs[j])
    BY <1>1 DEF Emitted
  <2>2. f.type = bs[i].first.type /\ f.fp = bs[i].first.fp /\ g.type = bs[j].first.type /\ g.fp = bs[j].first.fp
    BY <2>1, FailureIs DEF FailureFields
  <2>3. ASSUME f.type = g.type, f.fp = g.fp PROVE i = j
    <3>1. KeyOf(bs[i].first) = KeyOf(bs[j].first)
      BY <2>2, <2>3, KeysAre, ZenonT(40)
    <3> QED BY <3>1 DEF BucketsTell
  <2> QED BY <2>1, <2>3
<1>7. CrossFailures(fs) # {} <=> \E d, e \in ToSet(read) : d.robot # e.robot /\ d.type = e.type /\ d.fp = e.fp
  <2>1. \A f \in fs : f \in CrossFailures(fs) <=> \E a, b \in ToSet(f.robots) : a # b
    <3> TAKE f \in fs
    <3>1. IsFiniteSet(ToSet(f.robots))
      BY <1>4, ListIsFinite
    <3>2. Cardinality(ToSet(f.robots)) >= 2 <=> \E a, b \in ToSet(f.robots) : a # b
      BY <3>1, TwoOf
    <3> QED BY <1>4, <3>2 DEF CrossFailures
  <2>2. ASSUME NEW f \in CrossFailures(fs)
        PROVE  \E d, e \in ToSet(read) : d.robot # e.robot /\ d.type = e.type /\ d.fp = e.fp
    <3>1. f \in fs
      BY DEF CrossFailures
    <3>2. PICK a \in ToSet(f.robots), b \in ToSet(f.robots) : a # b
      BY <2>1, <3>1
    <3>3. PICK d \in ToSet(read) : d.robot = a /\ d.type = f.type /\ d.fp = f.fp
      BY <1>2, <3>1
    <3>4. PICK e \in ToSet(read) : e.robot = b /\ e.type = f.type /\ e.fp = f.fp
      BY <1>2, <3>1
    <3> QED BY <3>2, <3>3, <3>4
  <2>3. ASSUME NEW d \in ToSet(read), NEW e \in ToSet(read), d.robot # e.robot, d.type = e.type, d.fp = e.fp
        PROVE  CrossFailures(fs) # {}
    <3>1. PICK f \in fs : f.type = d.type /\ f.fp = d.fp /\ d.robot \in ToSet(f.robots)
      BY <1>2
    <3>2. PICK g \in fs : g.type = e.type /\ g.fp = e.fp /\ e.robot \in ToSet(g.robots)
      BY <1>2
    <3>3. f = g
      BY <1>6, <2>3, <3>1, <3>2
    <3> QED BY <2>1, <2>3, <3>1, <3>2, <3>3
  <2> QED BY <2>2, <2>3
<1>8. \A p : IsFiniteSet(RobotsFixedBy(fs, p))
  <2> TAKE p
  <2>1. IsFiniteSet(FixedBy(fs, p)) /\ FixedBy(fs, p) \subseteq fs
    <3>1. FixedBy(fs, p) \subseteq fs
      BY DEF FixedBy
    <3> QED BY <1>5, <3>1, FS_Subset
  <2>2. PICK F : F = [f \in FixedBy(fs, p) |-> ToSet(f.robots)]
    OBVIOUS
  <2>3. IsFiniteSet({F[f] : f \in FixedBy(fs, p)})
    BY <2>1, ImageIsFinite
  <2>4. \A T \in {F[f] : f \in FixedBy(fs, p)} : IsFiniteSet(T)
    BY <1>4, <2>1, <2>2, ListIsFinite
  <2>5. IsFiniteSet(UNION {F[f] : f \in FixedBy(fs, p)})
    BY <2>3, <2>4, FS_UNION
  <2>6. UNION {F[f] : f \in FixedBy(fs, p)} = RobotsFixedBy(fs, p)
    BY <2>2 DEF RobotsFixedBy
  <2> QED BY <2>5, <2>6
<1>9. CrossRows(PatternRows(fs)) # {} <=>
         \E p \in UNION {TransferTable[f.type] : f \in fs} : Cardinality(RobotsFixedBy(fs, p)) >= 2
  <2>1. PatternRows(fs) = {[pattern |-> p, types |-> {f.type : f \in FixedBy(fs, p)},
                            robots |-> RobotsFixedBy(fs, p)] :
                              p \in UNION {TransferTable[f.type] : f \in fs}}
    BY DEF PatternRows, FixedBy, RobotsFixedBy
  <2>2. \A row \in PatternRows(fs) : \E p \in UNION {TransferTable[f.type] : f \in fs} :
           row.robots = RobotsFixedBy(fs, p)
    BY <2>1
  <2>3. ASSUME NEW p \in UNION {TransferTable[f.type] : f \in fs}
        PROVE  \E row \in PatternRows(fs) : row.robots = RobotsFixedBy(fs, p)
    <3>1. PICK row : row = [pattern |-> p, types |-> {f.type : f \in FixedBy(fs, p)},
                            robots |-> RobotsFixedBy(fs, p)]
      OBVIOUS
    <3>2. row \in PatternRows(fs)
      BY <2>1, <3>1
    <3>3. row.robots = RobotsFixedBy(fs, p)
      BY <3>1
    <3> QED BY <3>2, <3>3
  <2> QED BY <2>2, <2>3 DEF CrossRows
<1>10. CrossRows(PatternRows(fs)) # {} <=>
          \E d, e \in ToSet(read) : d.robot # e.robot /\ FixedTogether(d.type, e.type)
  <2>1. ASSUME NEW p \in UNION {TransferTable[f.type] : f \in fs}, Cardinality(RobotsFixedBy(fs, p)) >= 2
        PROVE  \E d, e \in ToSet(read) : d.robot # e.robot /\ FixedTogether(d.type, e.type)
    <3>1. PICK a \in RobotsFixedBy(fs, p), b \in RobotsFixedBy(fs, p) : a # b
      BY <1>8, <2>1, TwoOf
    <3>2. PICK f \in FixedBy(fs, p), g \in FixedBy(fs, p) : a \in ToSet(f.robots) /\ b \in ToSet(g.robots)
      BY DEF RobotsFixedBy
    <3>3. f \in fs /\ g \in fs /\ p \in TransferTable[f.type] /\ p \in TransferTable[g.type]
      BY DEF FixedBy
    <3>4. PICK d \in ToSet(read) : d.robot = a /\ d.type = f.type
      BY <1>2, <3>2, <3>3
    <3>5. PICK e \in ToSet(read) : e.robot = b /\ e.type = g.type
      BY <1>2, <3>2, <3>3
    <3>6. FixedTogether(d.type, e.type)
      BY <1>3, <3>3, <3>4, <3>5, TransfersAre
    <3> QED BY <3>1, <3>4, <3>5, <3>6
  <2>2. ASSUME NEW d \in ToSet(read), NEW e \in ToSet(read), d.robot # e.robot, FixedTogether(d.type, e.type)
        PROVE  \E p \in UNION {TransferTable[f.type] : f \in fs} : Cardinality(RobotsFixedBy(fs, p)) >= 2
    <3>1. PICK p : p \in TransferTable[d.type] /\ p \in TransferTable[e.type]
      BY <1>3, <2>2, TransfersAre
    <3>2. PICK f \in fs : f.type = d.type /\ d.robot \in ToSet(f.robots)
      BY <1>2
    <3>3. PICK g \in fs : g.type = e.type /\ e.robot \in ToSet(g.robots)
      BY <1>2
    <3>4. f \in FixedBy(fs, p) /\ g \in FixedBy(fs, p)
      BY <3>1, <3>2, <3>3 DEF FixedBy
    <3>5. d.robot \in RobotsFixedBy(fs, p) /\ e.robot \in RobotsFixedBy(fs, p)
      BY <3>2, <3>3, <3>4 DEF RobotsFixedBy
    <3>6. Cardinality(RobotsFixedBy(fs, p)) >= 2
      BY <1>8, <2>2, <3>5, TwoOf
    <3>7. p \in UNION {TransferTable[h.type] : h \in fs}
      BY <3>1, <3>2
    <3> QED BY <3>6, <3>7
  <2> QED BY <1>9, <2>1, <2>2
<1> QED BY <1>1, <1>7, <1>10 DEF Accepted

LEMMA SummaryHolds ==
    ASSUME RobotAssumption, NEW read \in Seq(Happened), NEW bs, BucketsTell(read, bs)
    PROVE  SummaryIs(read, Emitted(bs), Accepted(Emitted(bs)))
<1>1. \A e \in ToSet(read) : Cardinality({f \in Emitted(bs) : e.type = f.type /\ e.fp = f.fp}) = 1
  <2> TAKE e \in ToSet(read)
  <2>1. PICK i \in DOMAIN bs : {f \in Emitted(bs) : e.type = f.type /\ e.fp = f.fp} = {Failure(bs[i])}
    BY OneOfAKind
  <2> QED BY <2>1, FS_Singleton
<1>2. ASSUME NEW f \in Emitted(bs)
      PROVE  LET mine == {n \in DOMAIN read : read[n].type = f.type /\ read[n].fp = f.fp}
             IN  /\ f.count = Cardinality(mine)
                 /\ f.sev = Max({read[n].sev : n \in mine})
                 /\ ToSet(f.robots) = {read[n].robot : n \in mine}
                 /\ Len(f.robots) = Cardinality(ToSet(f.robots))
  <2>1. TellsOfKind(f, read)
    BY FailureTells
  <2> QED BY <2>1 DEF TellsOfKind
<1>3. ASSUME NEW f \in Emitted(bs), NEW g \in Emitted(bs), f.id = g.id PROVE f.type = g.type
  <2>1. PICK i \in DOMAIN bs, j \in DOMAIN bs : f = Failure(bs[i]) /\ g = Failure(bs[j])
    BY DEF Emitted
  <2>2. bs[i].first \in Happened /\ bs[j].first \in Happened
    BY DEF BucketsTell, IsBucket
  <2>3. IsEvent(bs[i].first) /\ IsEvent(bs[j].first)
    BY <2>2, HappenedAreEvents
  <2>4. /\ f.id = IdOf(bs[i].first) /\ f.type = bs[i].first.type
        /\ g.id = IdOf(bs[j].first) /\ g.type = bs[j].first.type
    BY <2>1, FailureIs DEF FailureFields
  <2>5. /\ IdOf(bs[i].first)[1] = Stem[bs[i].first.type][1]
        /\ IdOf(bs[j].first)[1] = Stem[bs[j].first.type][1]
        /\ bs[i].first.type \in EventTypes /\ bs[j].first.type \in EventTypes
    <3>1. \A e : IsEvent(e) => IdOf(e)[1] = Stem[e.type][1]
      BY IdBeginsWithStem
    <3>2. \A e : IsEvent(e) => e.type \in EventTypes
      BY DEF IsEvent
    <3> QED BY <2>3, <3>1, <3>2
  <2>6. Stem[f.type][1] = Stem[g.type][1] /\ f.type \in EventTypes /\ g.type \in EventTypes
    BY <1>3, <2>4, <2>5, ZenonT(40)
  <2> QED BY <2>6, StemsDiffer
<1>4. Accepted(Emitted(bs)) <=>
         \E d, e \in ToSet(read) :
            d.robot # e.robot /\ ((d.type = e.type /\ d.fp = e.fp) \/ FixedTogether(d.type, e.type))
  BY GateIs
<1> QED BY <1>1, <1>2, <1>3, <1>4 DEF SummaryIs, FixedTogether

-----------------------------------------------------------------------------
(* Descriptions: a card and the constraints are of the same description.    *)

Described ==
    \E docs \in SUBSET Urdfs :
        /\ constraints = UNION {UrdfConstraints(d) : d \in docs}
        /\ embodiments = {CardOf(d) : d \in docs}

LEMMA IdOfThree == \A a, b, w : Append(<<a, b>>, w) = <<a, b, w>>
<1> SUFFICES ASSUME NEW a, NEW b, NEW w PROVE Append(<<a, b>>, w) = <<a, b, w>>
  OBVIOUS
<1>1. PICK s : s = <<a, b>>
  OBVIOUS
<1>2. IsList(s) /\ Len(s) = 2 /\ s[1] = a /\ s[2] = b
  <2>1. Len(s) = 2 /\ s[1] = a /\ s[2] = b /\ s = [i \in 1..2 |-> s[i]]
    BY <1>1
  <2> QED BY <2>1, IsAList
<1>3. /\ IsList(Append(s, w)) /\ Len(Append(s, w)) = Len(s) + 1
      /\ Append(s, w)[Len(s) + 1] = w /\ \A i \in 1..Len(s) : Append(s, w)[i] = s[i]
  <2>1. IsList(s)
    BY <1>2
  <2> QED BY <2>1, AppendedList, ZenonT(40)
<1>4. PICK t : t = Append(s, w)
  OBVIOUS
<1>5. IsList(t) /\ Len(t) = 3 /\ t[1] = a /\ t[2] = b /\ t[3] = w
  <2>1. /\ IsList(t) /\ Len(t) = Len(s) + 1 /\ t[Len(s) + 1] = w
        /\ \A i \in 1..Len(s) : t[i] = s[i]
    BY <1>3, <1>4
  <2>2. Len(t) = 3 /\ t[3] = w /\ 1 \in 1..Len(s) /\ 2 \in 1..Len(s)
    BY <1>2, <2>1
  <2> QED BY <1>2, <2>1, <2>2
<1>6. t = [i \in 1..3 |-> t[i]]
  BY <1>5, ListIs
<1>7. PICK u : u = <<a, b, w>>
  OBVIOUS
<1>8. u = [i \in 1..3 |-> u[i]] /\ u[1] = a /\ u[2] = b /\ u[3] = w
  BY <1>7
<1>9. \A i \in 1..3 : t[i] = u[i]
  BY <1>5, <1>8
<1>10. t = u
  BY <1>6, <1>8, <1>9
<1> QED BY <1>1, <1>4, <1>7, <1>10

\* What the constraints of a joint are about.
LEMMA JointConstraintsAre ==
    ASSUME NEW doc, NEW joint
    PROVE  /\ \A c \in JointConstraints(doc, joint) :
                 \E what \in {"position", "velocity", "effort"} :
                    c.id = <<Lower(doc.robot), Lower(joint.name), what>>
           /\ joint.lower # Nothing /\ joint.upper # Nothing =>
                 \A cap : (\E c \in JointConstraints(doc, joint) :
                              c.id = <<Lower(doc.robot), Lower(joint.name), "position">> /\ c.cap = cap)
                          <=> cap = <<joint.lower, joint.upper>>
<1>1. PICK id : id = <<Lower(doc.robot), Lower(joint.name)>>
  OBVIOUS
<1> DEFINE low == Bound(doc, joint, joint.lower, -1)
           high == Bound(doc, joint, joint.upper, 1)
           Cap(what) == Overridden(doc, joint, what, joint[what])
<1>2. PICK P : P = {[id |-> Append(id, "position"), cap |-> <<low, high>>] :
                      x \in {y \in {1} : low # Nothing /\ high # Nothing}}
  OBVIOUS
<1>3. PICK Q : Q = {[id |-> Append(id, what), cap |-> Cap(what)] :
                      what \in {w \in {"velocity", "effort"} : Cap(w) # Nothing}}
  OBVIOUS
<1>4. JointConstraints(doc, joint) = P \cup Q
  BY <1>1, <1>2, <1>3 DEF JointConstraints
<1>5. \A what : Append(id, what) = <<Lower(doc.robot), Lower(joint.name), what>>
  BY <1>1, IdOfThree
<1>6. \A c \in Q : c.id = <<Lower(doc.robot), Lower(joint.name), "velocity">>
                   \/ c.id = <<Lower(doc.robot), Lower(joint.name), "effort">>
  <2> HIDE DEF low, high, Cap
  <2> TAKE c \in Q
  <2>1. PICK what \in {w \in {"velocity", "effort"} : Cap(w) # Nothing} :
           c = [id |-> Append(id, what), cap |-> Cap(what)]
    BY <1>3
  <2>2. c.id = <<Lower(doc.robot), Lower(joint.name), what>>
    BY <2>1, <1>5
  <2> QED BY <2>1, <2>2
<1>7. \A c \in P : c.id = <<Lower(doc.robot), Lower(joint.name), "position">> /\ c.cap = <<low, high>>
  <2> HIDE DEF low, high, Cap
  <2> TAKE c \in P
  <2>1. c = [id |-> Append(id, "position"), cap |-> <<low, high>>]
    BY <1>2
  <2> QED BY <2>1, <1>5
<1>8. ASSUME joint.lower # Nothing, joint.upper # Nothing, NEW cap
      PROVE  (\E c \in JointConstraints(doc, joint) :
                 c.id = <<Lower(doc.robot), Lower(joint.name), "position">> /\ c.cap = cap)
             <=> cap = <<joint.lower, joint.upper>>
  <2>1. low = joint.lower /\ high = joint.upper
    BY <1>8 DEF Bound
  <2>2. [id |-> Append(id, "position"), cap |-> <<low, high>>] \in P
    BY <1>2, <1>8, <2>1
  <2>3. \E c \in P : c.id = <<Lower(doc.robot), Lower(joint.name), "position">> /\ c.cap = <<low, high>>
    BY <1>7, <2>2
  <2>4. \A c \in Q : c.id # <<Lower(doc.robot), Lower(joint.name), "position">>
    BY <1>6
  <2> HIDE DEF low, high
  <2> QED BY <1>4, <1>7, <2>1, <2>3, <2>4
<1>9. \A c \in JointConstraints(doc, joint) : \E what \in {"position", "velocity", "effort"} :
         c.id = <<Lower(doc.robot), Lower(joint.name), what>>
  BY <1>4, <1>6, <1>7
<1> QED BY <1>8, <1>9

LEMMA DescribedAsDeclared ==
    ASSUME RobotAssumption, Described
    PROVE  PositionsAsDeclared
<1>1. PICK docs \in SUBSET Urdfs : /\ constraints = UNION {UrdfConstraints(d) : d \in docs}
                                   /\ embodiments = {CardOf(d) : d \in docs}
  BY DEF Described
<1> SUFFICES ASSUME NEW card \in embodiments, NEW r \in card.ranges, r[1] \in card.actuators
             PROVE  {c.cap : c \in {d \in constraints :
                        d.id = <<Lower(card.robot), Lower(r[1]), "position">>}} = {<<r[2], r[3]>>}
  BY DEF PositionsAsDeclared
<1>2. PICK doc \in docs : card = CardOf(doc)
  BY <1>1
<1>3. PICK i \in DOMAIN doc.joints :
         /\ doc.joints[i].lower # Nothing /\ doc.joints[i].upper # Nothing
         /\ r = <<doc.joints[i].name, doc.joints[i].lower, doc.joints[i].upper>>
  BY <1>2 DEF CardOf
<1>4. PICK k \in DOMAIN doc.joints : doc.joints[k].type # "fixed" /\ doc.joints[k].name = r[1]
  BY <1>2 DEF CardOf
<1>5. k = i /\ doc \in Urdfs
  BY <1>3, <1>4 DEF RobotAssumption
<1>6. PICK joint : joint = doc.joints[i]
  OBVIOUS
<1>7. /\ card.robot = doc.robot /\ r[1] = joint.name /\ r[2] = joint.lower /\ r[3] = joint.upper
      /\ joint.lower # Nothing /\ joint.upper # Nothing /\ joint.type # "fixed"
  BY <1>2, <1>3, <1>4, <1>5, <1>6 DEF CardOf
<1>8. PICK id : id = <<Lower(doc.robot), Lower(joint.name), "position">>
  OBVIOUS
<1>9. JointConstraints(doc, joint) \subseteq constraints
  <2>1. JointConstraints(doc, joint) \subseteq UrdfConstraints(doc)
    BY <1>6, <1>7 DEF UrdfConstraints
  <2> QED BY <1>1, <2>1
<1>10. ASSUME NEW c \in constraints, c.id = id PROVE c \in JointConstraints(doc, joint)
  <2>1. PICK d \in docs : c \in UrdfConstraints(d)
    BY <1>1
  <2>2. PICK j \in DOMAIN d.joints : c \in JointConstraints(d, d.joints[j])
    BY <2>1 DEF UrdfConstraints
  <2>3. PICK what : c.id = <<Lower(d.robot), Lower(d.joints[j].name), what>>
    BY <2>2, JointConstraintsAre
  <2>4. Lower(d.robot) = Lower(doc.robot) /\ Lower(d.joints[j].name) = Lower(joint.name)
    BY <1>8, <1>10, <2>3
  <2>5. d = doc
    BY <2>4 DEF RobotAssumption
  <2>6. j = i
    BY <1>5, <1>6, <2>4, <2>5 DEF RobotAssumption
  <2> QED BY <1>6, <2>2, <2>5, <2>6
<1>11. \A cap : (\E c \in JointConstraints(doc, joint) : c.id = id /\ c.cap = cap)
                <=> cap = <<joint.lower, joint.upper>>
  BY <1>7, <1>8, JointConstraintsAre
<1>12. \A cap : (\E c \in constraints : c.id = id /\ c.cap = cap) <=> cap = <<joint.lower, joint.upper>>
  BY <1>9, <1>10, <1>11
<1>13. {c.cap : c \in {d \in constraints : d.id = id}} = {<<joint.lower, joint.upper>>}
  BY <1>12
<1> QED BY <1>7, <1>8, <1>13

LEMMA ConstraintKinds ==
    ASSUME Described, NEW c \in constraints
    PROVE  Last(c.id) \in {"position", "velocity", "effort"}
<1>1. PICK docs \in SUBSET Urdfs : constraints = UNION {UrdfConstraints(d) : d \in docs}
  BY DEF Described
<1>2. PICK d \in docs : c \in UrdfConstraints(d)
  BY <1>1
<1>3. PICK j \in DOMAIN d.joints : c \in JointConstraints(d, d.joints[j])
  BY <1>2 DEF UrdfConstraints
<1>4. PICK what \in {"position", "velocity", "effort"} :
         c.id = <<Lower(d.robot), Lower(d.joints[j].name), what>>
  BY <1>3, JointConstraintsAre
<1> QED BY <1>4 DEF Last

-----------------------------------------------------------------------------
(* Candidates, and the whole.                                               *)

LEMMA MinedOK ==
    ASSUME NEW ts, IsList(ts), NEW c \in MinedFromTraces(ts)
    PROVE  /\ c.evidence \in Nat
           /\ c.key[1] = "pattern" => c.key[2] \notin KnownPatterns
           /\ \A arm \in {"true", "placebo"} :
                 \E t \in ToSet(ts) : GroupKey(t) = c.key /\ t.arm = arm /\ t.delta # Nothing
<1>1. PICK i \in DOMAIN ts : /\ ts[i].pattern \notin KnownPatterns
                             /\ c.key = GroupKey(ts[i])
                             /\ c.evidence = Cardinality(GroupOf(ts, c.key))
                             /\ ArmOf(ts, c.key, "true") # {} /\ ArmOf(ts, c.key, "placebo") # {}
  BY DEF MinedFromTraces, AdjustedReaches
<1>2. c.evidence \in Nat
  <2>1. IsFiniteSet(DOMAIN ts) /\ GroupOf(ts, c.key) \subseteq DOMAIN ts
    BY ListIsFinite DEF GroupOf
  <2> QED BY <1>1, <2>1, FS_Subset, FS_CardinalityType
<1>3. c.key[1] = "pattern" => c.key[2] \notin KnownPatterns
  BY <1>1 DEF GroupKey
<1>4. ASSUME NEW arm \in {"true", "placebo"}
      PROVE  \E t \in ToSet(ts) : GroupKey(t) = c.key /\ t.arm = arm /\ t.delta # Nothing
  <2>1. PICK k \in ArmOf(ts, c.key, arm) : TRUE
    BY <1>1
  <2> QED BY <2>1 DEF ArmOf, GroupOf, ToSet
<1> QED BY <1>2, <1>3, <1>4

RobotInv ==
    /\ rank \in 1..5
    /\ seen \in Seq(Happened) /\ BucketsTell(seen, buckets)
    /\ Described
    /\ \/ report = << >>
       \/ \E x : report = <<x>> /\ SummaryIs(seen, x.failures, x.passed)
    /\ IsList(robotTraces) /\ Len(robotTraces) <= MaxTaskEvents
    /\ \A c \in robotCandidates : c.evidence \in Nat
    /\ CandidatesOfBothArms

LEMMA RobotInitInv == RobotAssumption /\ RobotInit => RobotInv
<1> SUFFICES ASSUME RobotAssumption, RobotInit PROVE RobotInv
  OBVIOUS
<1>1. IsList(<< >>) /\ Len(<< >>) = 0 /\ DOMAIN << >> = {}
  BY DEF IsList, ToSet
<1>2. seen \in Seq(Happened) /\ BucketsTell(seen, buckets)
  BY <1>1 DEF RobotInit, BucketsTell
<1>3. Described
  <2>1. constraints = UNION {UrdfConstraints(d) : d \in {}} /\ embodiments = {CardOf(d) : d \in {}}
    BY DEF RobotInit
  <2> QED BY <2>1 DEF Described
<1> QED BY <1>1, <1>2, <1>3 DEF RobotInit, RobotInv, CandidatesOfBothArms, RobotAssumption

LEMMA ReadRowStep ==
    ASSUME RobotAssumption, RobotInv, NEW r \in Rows, ReadRow(r)
    PROVE  RobotInv'
<1>1. EventsOf(r) \in Seq(Happened)
  BY HappenedAreEvents
<1>2. seen' \in Seq(Happened) /\ BucketsTell(seen', buckets')
  <2>1. seen' = seen \o EventsOf(r) /\ buckets' = FoldLeft(Ingested, buckets, EventsOf(r))
    BY DEF ReadRow
  <2>2. seen \in Seq(Happened) /\ BucketsTell(seen, buckets)
    BY DEF RobotInv
  <2>3. BucketsTell(seen \o EventsOf(r), FoldLeft(Ingested, buckets, EventsOf(r)))
    BY <1>1, <2>2, FoldIngests
  <2> QED BY <1>1, <2>1, <2>2, <2>3
<1>3. rank' \in 1..5
  BY DEF ReadRow, Rank, RobotAssumption, RowOK
<1>4. /\ report' = << >>
      /\ UNCHANGED <<constraints, embodiments, robotTraces, robotCandidates>>
  BY DEF ReadRow
<1> QED BY <1>2, <1>3, <1>4 DEF RobotInv, Described, CandidatesOfBothArms

LEMMA ProcessUrdfStep ==
    ASSUME RobotInv, NEW doc \in Urdfs, ProcessUrdf(doc)
    PROVE  RobotInv'
<1>1. PICK docs \in SUBSET Urdfs : /\ constraints = UNION {UrdfConstraints(d) : d \in docs}
                                   /\ embodiments = {CardOf(d) : d \in docs}
  BY DEF RobotInv, Described
<1>2. PICK more : more = docs \cup {doc}
  OBVIOUS
<1>3. constraints' = UNION {UrdfConstraints(d) : d \in more}
  BY <1>1, <1>2 DEF ProcessUrdf
<1>4. embodiments' = {CardOf(d) : d \in more}
  BY <1>1, <1>2 DEF ProcessUrdf
<1>5. Described'
  BY <1>2, <1>3, <1>4 DEF Described
<1>6. /\ rank' = 5 /\ UNCHANGED <<seen, buckets, report, robotTraces, robotCandidates>>
  BY DEF ProcessUrdf
<1> QED BY <1>5, <1>6 DEF RobotInv, CandidatesOfBothArms

LEMMA ReportSummaryStep ==
    ASSUME RobotAssumption, RobotInv, ReportSummary
    PROVE  RobotInv'
<1>1. UNCHANGED <<rank, seen, buckets, constraints, embodiments, robotTraces, robotCandidates>>
  BY DEF ReportSummary
<1>2. PICK x : /\ report' = <<x>> /\ x.failures = Emitted(buckets) /\ x.passed = Accepted(Emitted(buckets))
  BY DEF ReportSummary
<1>3. SummaryIs(seen, x.failures, x.passed)
  BY <1>2, SummaryHolds DEF RobotInv
<1>4. SummaryIs(seen, x.failures, x.passed)'
  BY <1>1, <1>3
<1> QED BY <1>1, <1>2, <1>4 DEF RobotInv, Described, CandidatesOfBothArms

LEMMA ReadTaskEventStep ==
    ASSUME RobotAssumption, RobotInv, NEW e \in TaskEvents, ReadTaskEvent(e)
    PROVE  RobotInv'
<1>1. UNCHANGED <<rank, seen, buckets, constraints, embodiments, report, robotCandidates>>
  BY DEF ReadTaskEvent
<1>2. /\ IsList(robotTraces') /\ Len(robotTraces') <= MaxTaskEvents
      /\ ToSet(robotTraces) \subseteq ToSet(robotTraces')
  <2>1. IsList(robotTraces) /\ Len(robotTraces) \in Nat /\ DOMAIN robotTraces = 1..Len(robotTraces)
        /\ Len(robotTraces) < MaxTaskEvents /\ MaxTaskEvents \in Nat
    BY ListIs DEF RobotInv, ReadTaskEvent, RobotAssumption
  <2>2. CASE IsRun(e)
    <3>1. robotTraces' = Append(robotTraces, Trace(e))
      BY <2>2 DEF ReadTaskEvent
    <3>2. PICK t, u : t = robotTraces /\ u = robotTraces'
      OBVIOUS
    <3>3. IsList(u) /\ Len(u) = Len(t) + 1 /\ \A i \in 1..Len(t) : u[i] = t[i]
      BY <2>1, <3>1, <3>2, AppendedList
    <3>4. DOMAIN u = 1..(Len(t) + 1)
      BY <3>3, ListIs
    <3>5. \A i \in DOMAIN t : i \in DOMAIN u /\ u[i] = t[i]
      BY <2>1, <3>2, <3>3, <3>4
    <3>6. ToSet(t) \subseteq ToSet(u)
      BY <3>5 DEF ToSet
    <3> QED BY <2>1, <3>2, <3>3, <3>6
  <2>3. CASE ~IsRun(e)
    BY <2>1, <2>3 DEF ReadTaskEvent
  <2> QED BY <2>2, <2>3
<1>3. CandidatesOfBothArms'
  BY <1>1, <1>2 DEF RobotInv, CandidatesOfBothArms
<1>4. Described'
  BY <1>1 DEF RobotInv, Described
<1> QED BY <1>1, <1>2, <1>3, <1>4 DEF RobotInv

LEMMA ExtractCandidatesStep ==
    ASSUME RobotInv, ExtractCandidates
    PROVE  RobotInv'
<1>1. UNCHANGED <<rank, seen, buckets, constraints, embodiments, report, robotTraces>>
  BY DEF ExtractCandidates
<1>2. robotCandidates' = MinedFromTraces(robotTraces) /\ IsList(robotTraces)
  BY DEF ExtractCandidates, RobotInv
<1>3. CandidatesOfBothArms' /\ \A c \in robotCandidates' : c.evidence \in Nat
  BY <1>1, <1>2, MinedOK DEF CandidatesOfBothArms
<1>4. Described'
  BY <1>1 DEF RobotInv, Described
<1> QED BY <1>1, <1>3, <1>4 DEF RobotInv

\* What the logs hold is what the buckets tell, the constraints and cards are of
\* the same descriptions, and candidates have their witnesses: at every step.
THEOREM RobotInvariant == RobotSpec => []RobotInv
<1>1. ASSUME RobotInv, [RobotNext]_robot_vars PROVE RobotInv'
  <2>1. CASE UNCHANGED robot_vars
    BY <1>1, <2>1 DEF robot_vars, RobotInv, Described, CandidatesOfBothArms
  <2>2. CASE RobotNext
    BY <1>1, <2>2, RobotAssumption, ReadRowStep, ProcessUrdfStep, ReportSummaryStep, ReadTaskEventStep,
       ExtractCandidatesStep DEF RobotNext, RobotLogNext, RobotEvidenceNext
  <2> QED BY <1>1, <2>1, <2>2
<1>2. RobotInit => RobotInv
  BY RobotAssumption, RobotInitInv
<1> QED BY <1>1, <1>2, PTL DEF RobotSpec

\* The types, for any rows, descriptions and events of tasks.
THEOREM RobotTyped == RobotSpec => []RobotTypeOK
<1>1. ASSUME RobotInv PROVE RobotTypeOK
  <2>1. \A i \in DOMAIN seen :
           /\ seen[i].type \in EventTypes /\ seen[i].robot \in Robots
           /\ seen[i].sev \in Info..Critical /\ Len(seen[i].fp) \in 1..3
    <3> TAKE i \in DOMAIN seen
    <3>1. seen[i] \in Happened
      BY <1>1 DEF RobotInv
    <3> QED BY <3>1, RobotAssumption, HappenedAreEvents DEF IsEvent
  <2>2. \A i \in DOMAIN buckets : /\ buckets[i].first = Head(buckets[i].events)
                                  /\ Len(buckets[i].signals) = Len(buckets[i].events)
    <3> TAKE i \in DOMAIN buckets
    <3>1. PICK b : b = buckets[i] /\ IsBucket(b)
      BY <1>1 DEF RobotInv, BucketsTell
    <3>2. Head(b.events) = b.events[1]
      BY <3>1 DEF IsBucket, IsList
    <3> QED BY <3>1, <3>2 DEF IsBucket
  <2>3. \A c \in constraints : Last(c.id) \in {"position", "velocity", "effort"}
    BY <1>1, ConstraintKinds DEF RobotInv
  <2>4. Len(report) <= 1
    <3>1. CASE report = << >>
      BY <3>1
    <3>2. ASSUME NEW x, report = <<x>> PROVE Len(report) <= 1
      BY <3>2
    <3> QED BY <1>1, <3>1, <3>2 DEF RobotInv
  <2> QED BY <1>1, <2>1, <2>2, <2>3, <2>4 DEF RobotInv, RobotTypeOK
<1> QED BY <1>1, RobotInvariant, PTL

\* What robots' logs, descriptions and task runs are summed up to is what they
\* held: for any rows, descriptions and events, in any order.
THEOREM RobotFindings == RobotSpec => []RobotFindingsHold
<1>1. ASSUME RobotInv PROVE RobotFindingsHold
  <2>1. SummaryOfSeen
    <3> SUFFICES ASSUME report # << >> PROVE SummaryOfSeen
      BY DEF SummaryOfSeen
    <3>1. PICK x : report = <<x>> /\ SummaryIs(seen, x.failures, x.passed)
      BY <1>1 DEF RobotInv
    <3>2. report[1] = x
      BY <3>1
    <3> QED BY <3>1, <3>2 DEF SummaryOfSeen, SummaryIs
  <2>2. PositionsAsDeclared
    BY <1>1, RobotAssumption, DescribedAsDeclared DEF RobotInv
  <2> QED BY <1>1, <2>1, <2>2 DEF RobotInv, RobotFindingsHold
<1> QED BY <1>1, RobotInvariant, PTL
=============================================================================
