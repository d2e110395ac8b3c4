----------------------------- MODULE EvidenceLoop -----------------------------
(***************************************************************************)
(* How outcomes become verdicts: EvidenceTraceWriter appends traces to a   *)
(* JSONL file (evidence_writer.py), distill_evidence.py reads it back and  *)
(* replaces evidence_stats.json (evidence_distill.py).  All of it for one  *)
(* pattern: nothing in these files relates two.                            *)
(*                                                                         *)
(* A kill may cut an append anywhere: nothing, part of the line, the line  *)
(* without its newline, or all of it.  The file is opened for append, and  *)
(* never repaired.                                                         *)
(***************************************************************************)
EXTENDS Integers, FiniteSetsExt

CONSTANTS
    Deltas,        \* best_delta_5, or delta_score, in hundredths
    MinSamples,    \* MIN_SAMPLE_SIZE
    Promote,       \* ADJUSTED_PROMOTE_THRESHOLD, in hundredths
    MaxTraces,     \* bound on the appends
    MaxKills       \* bound on the kills

ASSUME EvidenceAssumption ==
    /\ Deltas \subseteq Int /\ IsFiniteSet(Deltas)
    /\ MinSamples \in Nat \ {0} /\ Promote \in Nat
    /\ MaxTraces \in Nat /\ MaxKills \in Nat

Unmeasured == <<>>            \* no fifth step was scored
Scores == {Unmeasured} \cup {<<d>> : d \in Deltas}
Arms == {"true", "placebo"}   \* the others take no part in a verdict
Traces == Arms \X Scores

VARIABLES
    lines,         \* the whole lines of the file: how many of each trace
    tail,          \* what follows the last newline: Clean, Cut, or a trace
    acked,         \* history: the traces whose append returned
    joined,        \* history: those that went into a line with a cut-off one
    sent,          \* history: the traces whose append was called
    reading,       \* what the distiller has read, or NotReading
    stats,         \* evidence_stats.json: what it was distilled from, or NoStats
    kills

evidence_vars == <<lines, tail, acked, joined, sent, reading, stats, kills>>

Clean == <<>>
Cut == <<"cut">>
NotReading == <<>>
NoStats == <<>>
NoTraces == [t \in Traces |-> 0]
Plus(f, t) == [f EXCEPT ![t] = @ + 1]

Total(f) == FoldSet(LAMBDA t, n : n + f[t], 0, DOMAIN f)

-----------------------------------------------------------------------------
(* distill.                                                                 *)

Count(f, arm) == Total([s \in Scores |-> f[<<arm, s>>]])
Measured(f, arm) == Count(f, arm) - f[<<arm, Unmeasured>>]
SumOf(f, arm) == FoldSet(LAMBDA d, n : n + d * f[<<arm, <<d>>>>], 0, Deltas)

\* Mutant of Adjustable: a control without samples counts as zero.
AdjustableToZero(f) == Measured(f, "true") > 0

\* _adjusted_uplift: None unless both arms have a measured trace.
Adjustable(f) == Measured(f, "true") > 0 /\ Measured(f, "placebo") > 0

\* mean(true) - mean(placebo), times both numbers of samples (1 for none).
Weight(f, arm) == IF Measured(f, arm) = 0 THEN 1 ELSE Measured(f, arm)
Uplift(f) == SumOf(f, "true") * Weight(f, "placebo") - SumOf(f, "placebo") * Weight(f, "true")

\* is_promoted, is_demoted.  The samples are counted whether measured or not.
Verdict(f) ==
    IF Count(f, "true") < MinSamples \/ ~Adjustable(f) THEN "hold"
    ELSE LET scale == Weight(f, "true") * Weight(f, "placebo") IN
         IF Uplift(f) >= Promote * scale THEN "promote"
         ELSE IF Uplift(f) <= -Promote * scale THEN "demote" ELSE "hold"

-----------------------------------------------------------------------------

EvidenceTypeOK ==
    /\ \A f \in {lines, acked, joined, sent} : f \in [Traces -> 0..(MaxTraces + MaxKills)]
    /\ tail \in {Clean, Cut} \cup Traces
    /\ reading = NotReading \/ reading \in [Traces -> Nat]
    /\ stats = NoStats \/ stats \in [Traces -> Nat]
    /\ kills \in 0..MaxKills

EvidenceInit ==
    /\ lines = NoTraces /\ tail = Clean
    /\ acked = NoTraces /\ joined = NoTraces /\ sent = NoTraces
    /\ reading = NotReading /\ stats = NoStats
    /\ kills = 0

\* append: the line is written, flushed and synced.  After a tail that was cut
\* off it becomes the end of a line that cannot be parsed.
TraceAppended(t) ==
    /\ Total(sent) < MaxTraces
    /\ sent' = Plus(sent, t) /\ acked' = Plus(acked, t)
    /\ IF tail = Clean
       THEN lines' = Plus(lines, t) /\ joined' = joined
       ELSE lines' = lines /\ joined' = Plus(joined, t)
    /\ tail' = Clean
    /\ UNCHANGED <<reading, stats, kills>>

\* The writer is killed in append.  The parts of a line that fit behind a cut
\* tail only make it longer.
TraceAppendKilled(t) ==
    /\ Total(sent) < MaxTraces /\ kills < MaxKills
    /\ kills' = kills + 1 /\ sent' = Plus(sent, t)
    /\ IF tail = Clean
       THEN \/ tail' \in {Cut, t} /\ lines' = lines
            \/ tail' = tail /\ lines' = Plus(lines, t)
       ELSE tail' \in {Cut, Clean} /\ lines' = lines
    /\ UNCHANGED <<acked, joined, reading, stats>>

\* stream_traces skips what it cannot parse; a tail that is a whole trace counts.
Readable == IF tail \in Traces THEN Plus(lines, tail) ELSE lines

DistillRead ==
    /\ reading = NotReading
    /\ reading' = Readable
    /\ UNCHANGED <<lines, tail, acked, joined, sent, stats, kills>>

\* write_stats replaces the file, whatever the coverage gates say.
StatsReplaced ==
    /\ reading # NotReading
    /\ stats' = reading /\ reading' = NotReading
    /\ UNCHANGED <<lines, tail, acked, joined, sent, kills>>

DistillKilled ==
    /\ reading # NotReading /\ kills < MaxKills
    /\ kills' = kills + 1 /\ reading' = NotReading
    /\ UNCHANGED <<lines, tail, acked, joined, sent, stats>>

EvidenceNext ==
    \/ DistillRead \/ StatsReplaced \/ DistillKilled
    \/ \E t \in Traces : TraceAppended(t) \/ TraceAppendKilled(t)

EvidenceSpec == EvidenceInit /\ [][EvidenceNext]_evidence_vars

-----------------------------------------------------------------------------
(* Properties.                                                              *)

\* A verdict is earned: no kill, torn line or overlapping distillation makes
\* evidence_stats.json promote or demote a pattern that was not sent enough
\* times in the true arm, or whose uplift no placebo was measured against
\* (_adjusted_uplift refuses "treatment - 0").
VerdictsAreEarned ==
    stats # NoStats /\ Verdict(stats) # "hold" =>
        /\ Count(sent, "true") >= MinSamples
        /\ \A arm \in Arms : Measured(sent, arm) > 0

\* An append that returned is in the file for good, unless it was the first one
\* after a kill that cut the line before it.
AcknowledgedIsKept ==
    \A t \in Traces : lines[t] >= acked[t] - joined[t]

EvidenceIsSound == VerdictsAreEarned /\ AcknowledgedIsKept /\ Total(joined) <= kills
=============================================================================
