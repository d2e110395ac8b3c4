--------------------------- MODULE PairedExperiment ---------------------------
(***************************************************************************)
(* The paired experiment of the scripts: run_paired_ab.py makes a          *)
(* directory per run and seed and calls, one after the other,              *)
(* verify_frontier_eng.py (one reply per task and arm, then summary.json)  *)
(* and judge_frontier_eng.py (scores the replies into the summary, reports *)
(* the uplift).  multiseed_aggregate.py reads the summaries of the seeds.  *)
(* A process may be killed at any point; nothing is resumed.  The model    *)
(* is of one seed: the seeds share no file.                                *)
(***************************************************************************)
EXTENDS Integers, FiniteSets

CONSTANTS
    Tasks,      \* the panel
    MaxScore,   \* 10: judges score 0..10
    Long        \* may an error marker exceed _INVALID_AGENT_MAX_BYTES?

ASSUME PairedAssumption ==
    IsFiniteSet(Tasks) /\ MaxScore \in Nat /\ Long \in BOOLEAN

Sides == {"control", "treatment"}

\* A reply: the answer of a model, or what stands in the file instead.  The
\* detail of an HTTP error or of a parse failure is up to 200 characters of the
\* body, behind a prefix.
Answer == "answer"
Markers == {"marker"} \cup IF Long THEN {"long_marker"} ELSE {}
Replies == {Answer} \cup Markers
NoFile == "no_file"

\* _call_agent, once its transient retries are used up: an empty content is
\* retried with a larger budget, and only an account without balance, in the
\* last error, is answered by the fallback model.
Responses == {"content", "empty", "payment", "error"}
AgentAnswers(first, larger, glm) ==
    LET last == IF first = "empty" THEN larger ELSE first IN
    last = "content" \/ (last = "payment" /\ glm = "content")

\* The replies of a call.  Only the HTTP and parse errors quote a body.
AgentReplies ==
    {r \in Replies : \E first, larger \in Responses, glm \in {"content", "error"} :
        IF AgentAnswers(first, larger, glm) THEN r = Answer
        ELSE r = "marker" \/ (r = "long_marker" /\ first # "empty")}

\* A judgment: a score, or the status of an arm without one.
Invalid == {"invalid_provider_failure", "invalid_judge_failure", "invalid_judge_parse"}
JudgedFiles == [status : {"scored"}, score : 0..MaxScore]
Unscored(status) == [status |-> status, score |-> 0]
Unjudged == Unscored("none")

VARIABLES
    step,       \* of the run: "new", "verify", "judge", "over"
    replyFiles, \* the reply files: task -> side -> reply, or NoFile
    summary     \* summary.json: "missing", "torn" or "whole", and its judgments

paired_vars == <<step, replyFiles, summary>>

-----------------------------------------------------------------------------
(* judge_frontier_eng.                                                      *)

\* Mutant of Gated: the gate looks for an empty reply only.
GatedEmpty(r) == r = NoFile

\* _invalid_agent_response_reason: an empty reply, or one that is short, starts
\* with a bracket and is a known marker or a single bracketed line.
Gated(r) == r \in {NoFile, "marker"}

\* _judge_one: the judgments a reply may get.  The judge may answer nothing, on
\* both providers, or nothing that holds a score.
JudgmentsOf(r) ==
    IF Gated(r) THEN {Unscored("invalid_provider_failure")}
    ELSE JudgedFiles \cup {Unscored("invalid_judge_failure"), Unscored("invalid_judge_parse")}

\* _pair_status; an entry that was never judged has no status and passes.
PairStatus(p) ==
    IF \E side \in Sides : p[side].status \in Invalid THEN "invalid" ELSE "valid"

\* The pairs _print_report counts, and those multiseed_aggregate does.
Delta(p) == p["treatment"].score - p["control"].score
HasDelta(p) == \A side \in Sides : p[side].status = "scored"
Reported == {t \in Tasks : PairStatus(summary.of[t]) = "valid" /\ HasDelta(summary.of[t])}
Aggregated == {t \in Tasks : HasDelta(summary.of[t])}

\* multiseed counts the verdicts of all entries against the pairs with a delta.
Verdict(p) == IF ~HasDelta(p) THEN "skipped"
              ELSE IF Delta(p) > 0 THEN "treatment_better"
              ELSE IF Delta(p) < 0 THEN "control_better" ELSE "tie"
Won == {t \in Tasks : Verdict(summary.of[t]) = "treatment_better"}
Invalidated == {t \in Tasks : PairStatus(summary.of[t]) = "invalid"}

-----------------------------------------------------------------------------

NoFiles == [t \in Tasks |-> [side \in Sides |-> NoFile]]
NotJudged == [t \in Tasks |-> [side \in Sides |-> Unjudged]]

PairedTypeOK ==
    /\ step \in {"new", "verify", "judge", "over"}
    /\ replyFiles \in [Tasks -> [Sides -> Replies \cup {NoFile}]]
    /\ summary.state \in {"missing", "torn", "whole"}
    /\ summary.of \in [Tasks -> [Sides -> JudgedFiles \cup {Unscored(s) : s \in Invalid \cup {"none"}}]]

PairedInit ==
    /\ step = "new" /\ replyFiles = NoFiles
    /\ summary = [state |-> "missing", of |-> NotJudged]

\* main: refuses a label whose directory exists, and a HOW that is not healthy.
RunStarted ==
    /\ step = "new"
    /\ step' = "verify"
    /\ UNCHANGED <<replyFiles, summary>>

\* The replies of a task, in the order of the panel.  A treatment that HOW could
\* not provide is sent without one, as a treatment all the same.
Replied(t) ==
    /\ step = "verify" /\ replyFiles[t] = NoFiles[t]
    /\ \E pair \in [Sides -> AgentReplies] : replyFiles' = [replyFiles EXCEPT ![t] = pair]
    /\ UNCHANGED <<step, summary>>

\* The kill takes verify between the two files of a task, or later.
VerifyKilled ==
    /\ step = "verify"
    /\ \/ \E t \in Tasks, r \in AgentReplies :
            replyFiles[t] = NoFiles[t] /\ replyFiles' = [replyFiles EXCEPT ![t]["control"] = r]
       \/ replyFiles' = replyFiles
    /\ step' = "judge"        \* its return code is recorded, not looked at
    /\ summary' \in {summary, [summary EXCEPT !.state = "torn"]}

SummaryWritten ==
    /\ step = "verify" /\ \A t \in Tasks : replyFiles[t] # NoFiles[t]
    /\ summary' = [state |-> "whole", of |-> NotJudged] /\ step' = "judge"
    /\ UNCHANGED replyFiles

\* _judge_all, by run_paired_ab, by multiseed_aggregate or by hand: all replies
\* are judged in memory, and the summary is rewritten in place.
Judged ==
    /\ step \in {"judge", "over"} /\ summary.state = "whole"
    /\ \E of \in [Tasks -> [Sides -> UNION {JudgmentsOf(r) : r \in Replies \cup {NoFile}}]] :
         /\ \A t \in Tasks, side \in Sides : of[t][side] \in JudgmentsOf(replyFiles[t][side])
         /\ summary' = [summary EXCEPT !.of = of]
    /\ step' = "over"
    /\ UNCHANGED replyFiles

\* No summary, or one that cannot be parsed: the judge raises.  Or it is killed.
JudgeFailed ==
    /\ step \in {"judge", "over"}
    /\ summary' \in IF summary.state = "whole"
                    THEN {summary, [summary EXCEPT !.state = "torn"]} ELSE {summary}
    /\ step' = "over"
    /\ UNCHANGED replyFiles

PairedNext ==
    \/ RunStarted \/ VerifyKilled \/ SummaryWritten \/ Judged \/ JudgeFailed
    \/ \E t \in Tasks : Replied(t)

PairedSpec == PairedInit /\ [][PairedNext]_paired_vars

-----------------------------------------------------------------------------
(* Properties.                                                              *)

\* The report of the judge and the aggregation over seeds, which decide on
\* different fields, count the same pairs; a win is one of them, and no pair is
\* both counted and shown as excluded.
ReportsAgree ==
    summary.state = "whole" =>
        /\ Reported = Aggregated
        /\ Won \subseteq Aggregated /\ Aggregated \cap Invalidated = {}

\* What is counted was replied to on both sides; a short error marker on one
\* side excludes the pair.
CountedIsReplied ==
    summary.state = "whole" =>
        \A t \in Aggregated, side \in Sides : replyFiles[t][side] \notin {NoFile, "marker"}

UpliftIsOfReplies == ReportsAgree /\ CountedIsReplied

\* The comment over _INVALID_AGENT_PREFIXES: markers are not candidate
\* responses and are caught at the gate.
MarkersAreNotJudged ==
    \A t \in Aggregated, side \in Sides : replyFiles[t][side] = Answer
=============================================================================
