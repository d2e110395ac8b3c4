---------------------------- MODULE TrendReports ----------------------------
(* Uplift trends (stats_analyze): each run fetches the statistics HOW keeps,  *)
(* writes them to a snapshot file named by the second, reads the last files   *)
(* back, and labels a pattern by the slope of its uplift over them.  A run    *)
(* that cannot fetch goes on with the files it has; one killed in the middle  *)
(* of the write leaves a file that later runs skip.                           *)
(*                                                                            *)
(* One pattern is followed; its uplift is in multiples of the threshold of a  *)
(* trend, 0.005 a snapshot, and Absent when HOW has no number for it.         *)
EXTENDS Integers, Sequences, FiniteSets, FiniteSetsExt

CONSTANTS Uplifts,     \* the averages HOW may report
          Absent,      \* HOW does not list the pattern
          Window,      \* snapshots a trend is taken over (10)
          MinPoints,   \* fewer are no trend (3)
          MaxSecond,   \* bound on the clock
          MaxReports   \* bound on the reports

ASSUME TrendAssumption ==
    /\ Uplifts \subseteq Int /\ Absent \notin Uplifts
    /\ {Window, MinPoints, MaxSecond, MaxReports} \subseteq Nat \ {0} /\ MinPoints >= 2

VARIABLES second,   \* the clock that names the snapshots
          snapshots,\* by second: the uplift in that file, "none" or "torn"
          payload,  \* what the run has fetched and not written yet
          reports,  \* reports started
          taken,    \* history: <<second, uplift>> of the snapshots completed
          report    \* trends.json: the label, and `taken` when it was made
trend_vars == <<second, snapshots, payload, reports, taken, report>>

Seconds == 1..MaxSecond
UpliftsSeen == Uplifts \cup {Absent}
Labels == {"improving", "degrading", "flat", "insufficient", "untracked"}

TrendTypeOK ==
    /\ second \in Seconds
    /\ snapshots \in [Seconds -> [state : {"none", "torn"}] \cup
                             [state : {"whole"}, uplift : UpliftsSeen]]
    /\ payload \in [step : {"idle", "unavailable"}] \cup
                   [step : {"fetched"}, uplift : UpliftsSeen]
    /\ reports \in 0..MaxReports
    /\ taken \in Seq(Seconds \X UpliftsSeen) /\ Len(taken) <= MaxReports
    /\ report.label \in Labels /\ Len(report.taken) <= Len(taken)

TrendInit ==
    /\ second = 1
    /\ snapshots = [s \in Seconds |-> [state |-> "none"]]
    /\ payload = [step |-> "idle"]
    /\ reports = 0
    /\ taken = << >>
    /\ report = [label |-> "untracked", taken |-> << >>]

(* ------------------------------- the trend ------------------------------ *)

\* The snapshots that can be read, and the last Window of them.
Snapshots(fs) == {s \in Seconds : fs[s].state = "whole"}
Recent(at) == {s \in at : Cardinality({r \in at : r > s}) < Window}

\* The pattern's own samples, oldest first: the snapshots that list it.
Nth(at, n) == CHOOSE s \in at : Cardinality({r \in at : r < s}) = n - 1
Series(fs) ==
    LET listing == {s \in Recent(Snapshots(fs)) : fs[s].uplift # Absent}
    IN  [n \in 1..Cardinality(listing) |-> fs[Nth(listing, n)].uplift]

\* Mutant: the abscissa of the regression is not centred.
RiseRaw(ys) ==
    MapThenSumSet(LAMBDA i : 2 * (i - 1) * ys[i], DOMAIN ys)

\* Least squares over x = 0 .. n - 1, without the division: twice the sum of
\* (x - mean x) * y, and the sum of squared deviations, n(n^2 - 1) / 12.
Rise(ys) ==
    MapThenSumSet(LAMBDA i : (2 * (i - 1) - (Len(ys) - 1)) * ys[i], DOMAIN ys)

SlopeOver(ys) == 6 * Rise(ys) > Len(ys) * (Len(ys) * Len(ys) - 1)
SlopeUnder(ys) == 6 * Rise(ys) < -(Len(ys) * (Len(ys) * Len(ys) - 1))

Classified(ys) ==
    CASE Len(ys) = 0 -> "untracked"
      [] Len(ys) \in 1..(MinPoints - 1) -> "insufficient"
      [] Len(ys) >= MinPoints /\ SlopeOver(ys) -> "improving"
      [] Len(ys) >= MinPoints /\ SlopeUnder(ys) -> "degrading"
      [] OTHER -> "flat"

(* ------------------------------- the reports ------------------------------- *)

Tick ==
    /\ second < MaxSecond
    /\ second' = second + 1
    /\ UNCHANGED <<snapshots, payload, reports, taken, report>>

\* GET /wiki/v1/stats, or a failure the run only logs, or --no-snapshot.
Fetch ==
    /\ payload.step = "idle" /\ reports < MaxReports
    /\ payload' \in [step : {"unavailable"}] \cup [step : {"fetched"}, uplift : UpliftsSeen]
    /\ reports' = reports + 1
    /\ UNCHANGED <<second, snapshots, taken, report>>

\* The snapshot replaces one of the same second; the run then reads them all
\* back and writes its report.
SnapshotAndAnalyze ==
    /\ payload.step # "idle"
    /\ LET fs == IF payload.step = "fetched"
                 THEN [snapshots EXCEPT ![second] =
                          [state |-> "whole", uplift |-> payload.uplift]]
                 ELSE snapshots
           seen == IF payload.step = "fetched"
                   THEN Append(taken, <<second, payload.uplift>>) ELSE taken
       IN /\ snapshots' = fs
          /\ taken' = seen
          /\ report' = [label |-> Classified(Series(fs)), taken |-> seen]
    /\ payload' = [step |-> "idle"]
    /\ UNCHANGED <<second, reports>>

\* Killed while the file is written in place.
SnapshotKilled ==
    /\ payload.step = "fetched"
    /\ snapshots' = [snapshots EXCEPT ![second] = [state |-> "torn"]]
    /\ payload' = [step |-> "idle"]
    /\ UNCHANGED <<second, reports, taken, report>>

TrendNext == Tick \/ Fetch \/ SnapshotAndAnalyze \/ SnapshotKilled
TrendSpec == TrendInit /\ [][TrendNext]_trend_vars

(* ------------------------------ properties ------------------------------ *)

\* By how much the uplift rose from one number HOW reported of the pattern to
\* the next, over the history of a report.
Rises(history) ==
    LET listing == {i \in DOMAIN history : history[i][2] # Absent}
        Adjacent(i, j) == i < j /\ \A k \in listing : ~(i < k /\ k < j)
    IN  {history[p[2]][2] - history[p[1]][2] : p \in {q \in listing \X listing : Adjacent(q[1], q[2])}}

\* Whatever snapshots a kill tore, a second overwrote or the window left
\* out, a pattern that HOW never reported to fall is not in the "degrading"
\* section of the report (the one that drives deprecation), one never reported
\* to rise is not "improving", and one followed for as long as a trend needs,
\* rising by more than the threshold each time, is not reported flat.
TrendFollowsSeries ==
    LET rises == Rises(report.taken)
    IN  /\ (\A d \in rises : d >= 0) => report.label # "degrading"
        /\ (\A d \in rises : d <= 0) => report.label # "improving"
        /\ (\A d \in rises : d > 1) => report.label # "flat"
=============================================================================
