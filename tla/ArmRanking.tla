------------------------------ MODULE ArmRanking ------------------------------
(***************************************************************************)
(* The arm comparison of ab_harness.py: run_matrix sweeps tasks, arms and  *)
(* seeds, and the report ranks the arms within each task, averages the     *)
(* ranks, compares each arm with the baseline and draws the performance    *)
(* profile.                                                                *)
(*                                                                         *)
(* Scores are integers and means are kept as <<sum, n>>, so comparisons    *)
(* are exact.  The code rounds a mean to six decimals before it compares   *)
(* it, and every rate to four after; neither rounding is modelled.         *)
(***************************************************************************)
EXTENDS Integers, FiniteSets, FiniteSetsExt

CONSTANTS
    Arms,       \* contains Baseline and True
    Baseline, True,
    Shapes,     \* the sweeps: their tasks, seeds and the scores trials return
    Taus,       \* tolerances of the profile, in percent
    SigTenths   \* the z of the significance threshold, in tenths (p < 0.1: 16)

ASSUME ArmAssumption ==
    /\ {Baseline, True} \subseteq Arms /\ IsFiniteSet(Arms)
    /\ Taus \subseteq {t \in Nat : t >= 100}
    /\ \A s \in Shapes : /\ IsFiniteSet(s.tasks) /\ IsFiniteSet(s.seeds)
                         /\ s.points \subseteq Int
    /\ SigTenths \in Nat

Crashed == <<>>                              \* score None, valid False
VARIABLES
    shape,      \* the sweep
    direction,  \* objective_direction of each task
    results     \* the trials so far: <<task, arm, seed>> -> outcome

rank_vars == <<shape, direction, results>>

Trials == shape.tasks \X Arms \X shape.seeds
Outcomes == {Crashed} \cup {<<p>> : p \in shape.points}

-----------------------------------------------------------------------------
(* Cells and means.                                                         *)

\* _aggregate_cells: the seeds of a cell with a score.
Scored(t, a) ==
    {s \in shape.seeds : <<t, a, s>> \in DOMAIN results /\ results[<<t, a, s>>] # Crashed}
HasMean(t, a) == Scored(t, a) # {}
SumOver(t, a, Op(_)) == FoldSet(LAMBDA s, n : n + Op(results[<<t, a, s>>][1]), 0, Scored(t, a))
Mean(t, a) == <<SumOver(t, a, LAMBDA x : x), Cardinality(Scored(t, a))>>

\* The difference of two means, times both numbers of samples.
Gap(t, a, b) == Mean(t, a)[1] * Mean(t, b)[2] - Mean(t, b)[1] * Mean(t, a)[2]

\* a's mean strictly beats b's in the direction of the task.
Beats(t, a, b) ==
    /\ HasMean(t, a) /\ HasMean(t, b)
    /\ IF direction[t] = "maximize" THEN Gap(t, a, b) > 0 ELSE Gap(t, a, b) < 0

\* The wins of pairwise_win_rate, on the tasks both have a mean of.
Wins(a, b) == {t \in shape.tasks : Beats(t, a, b)}

-----------------------------------------------------------------------------
(* Ranks.                                                                   *)

Missing(t) == {a \in Arms : ~HasMean(t, a)}

\* Mutant of TwiceRank: an arm without a valid run ranks first.
TwiceRankSpared(t, a) ==
    IF a \in Missing(t) THEN 2
    ELSE LET ahead == {b \in Arms \ Missing(t) : Beats(t, b, a)}
             tied == {b \in Arms \ Missing(t) : Gap(t, a, b) = 0} IN
         2 * Cardinality(ahead) + Cardinality(tied) + 1

\* _rank_arms_within_task, twice: ties share the mean of their positions, and
\* the arms without a valid run come after all others.
TwiceRank(t, a) ==
    IF a \in Missing(t) THEN 2 * (Cardinality(Arms \ Missing(t)) + 1)
    ELSE LET ahead == {b \in Arms \ Missing(t) : Beats(t, b, a)}
             tied == {b \in Arms \ Missing(t) : Gap(t, a, b) = 0} IN
         2 * Cardinality(ahead) + Cardinality(tied) + 1

\* avg_rank, times twice the number of tasks.
RankSum(a) == FoldSet(LAMBDA t, n : n + TwiceRank(t, a), 0, shape.tasks)

-----------------------------------------------------------------------------
(* Significance: |t| > z for Welch's t, without the square root.            *)

Spread(t, a) ==
    LET n == Mean(t, a)[2] IN
    n * SumOver(t, a, LAMBDA x : x * x) - Mean(t, a)[1] * Mean(t, a)[1]

Significant(t, a, b) ==
    LET n == Mean(t, a)[2]  m == Mean(t, b)[2] IN
    /\ n >= 2 /\ m >= 2
    /\ IF Spread(t, a) = 0 /\ Spread(t, b) = 0 THEN Gap(t, a, b) # 0
       ELSE 100 * Gap(t, a, b) * Gap(t, a, b) * (n - 1) * (m - 1)
            > SigTenths * SigTenths *
              (Spread(t, a) * m * m * (m - 1) + Spread(t, b) * n * n * (n - 1))

\* The gates that compare an arm: average rank, positive deltas, and trend.
Outranks(a, b) == RankSum(a) < RankSum(b)
PositiveDeltas == {t \in shape.tasks : Beats(t, True, Baseline)}
SignificantTasks == {t \in PositiveDeltas : Significant(t, True, Baseline)}

-----------------------------------------------------------------------------
(* performance_profile.                                                     *)

\* The arm with the best mean of a task.
BestOf(t) == CHOOSE a \in Arms \ Missing(t) : \A b \in Arms : ~Beats(t, b, a)

\* Score within tau of the best.  Dividing a positive best by tau loosens
\* maximize; for a best of zero or less it is the product that does.
Within(t, a, tau) ==
    LET x == Mean(t, a)  best == Mean(t, BestOf(t))
        divided == 100 * best[1] * x[2]     \* against tau * x
        multiplied == tau * best[1] * x[2]  \* against 100 * x
    IN  IF direction[t] = "maximize"
        THEN IF best[1] > 0 THEN tau * x[1] * best[2] >= divided
                            ELSE 100 * x[1] * best[2] >= multiplied
        ELSE IF best[1] > 0 THEN 100 * x[1] * best[2] <= multiplied
                            ELSE tau * x[1] * best[2] <= divided

Solved(a, tau) == {t \in shape.tasks : HasMean(t, a) /\ Within(t, a, tau)}

-----------------------------------------------------------------------------

RankTypeOK ==
    /\ shape \in Shapes
    /\ direction \in [shape.tasks -> {"maximize", "minimize"}]
    /\ DOMAIN results \subseteq Trials
    /\ \A k \in DOMAIN results : results[k] \in Outcomes

RankInit ==
    /\ shape \in Shapes
    /\ direction \in [shape.tasks -> {"maximize", "minimize"}]
    /\ results = [k \in {} |-> Crashed]

\* run_matrix: all seeds of the next task and arm.  The order of the sweep is
\* of no consequence to the results.
Cells == {c \in shape.tasks \X Arms :
            ~\E s \in shape.seeds : <<c[1], c[2], s>> \in DOMAIN results}

CellRun ==
    /\ Cells # {}
    /\ LET cell == CHOOSE c \in Cells : TRUE IN
       \E f \in [shape.seeds -> Outcomes] :
         results' = [k \in DOMAIN results \cup {cell[1]} \X {cell[2]} \X shape.seeds |->
                        IF k \in DOMAIN results THEN results[k] ELSE f[k[3]]]
    /\ UNCHANGED <<shape, direction>>

RankNext == CellRun

RankSpec == RankInit /\ [][RankNext]_rank_vars

-----------------------------------------------------------------------------
(* Properties of the report, which is made when every cell has run.         *)

\* a is at least as good as b on a task; an arm without a valid run is worse
\* than any with one.
NotWorse(t, a, b) == ~Beats(t, b, a) /\ (HasMean(t, b) => HasMean(t, a))

\* An arm that is at least as good as another on every task, and better on one,
\* outranks it, whatever the directions, the ties and the crashed trials.
DominanceDecides ==
    \A a, b \in Arms :
        (\A t \in shape.tasks : NotWorse(t, a, b)) =>
            (Outranks(a, b) <=> \E t \in shape.tasks : ~NotWorse(t, b, a))

\* The ranks of the arms with a score are a fair share of the positions.
RanksAddUp ==
    \A t \in shape.tasks :
        LET m == Cardinality(Arms \ Missing(t)) IN
        FoldSet(LAMBDA a, n : n + TwiceRank(t, a), 0, Arms \ Missing(t)) = m * (m + 1)

\* A larger tolerance never solves fewer tasks, and the best arm of a task
\* solves it at every tolerance, also when scores are zero or negative.
ProfileRises ==
    /\ \A a \in Arms, u, v \in Taus : u <= v => Solved(a, u) \subseteq Solved(a, v)
    /\ \A t \in shape.tasks, u \in Taus : Missing(t) # Arms => t \in Solved(BestOf(t), u)

\* A trend that counts is a gain, and no trial of a deterministic pair of equal
\* means counts.
TrendsAreGains ==
    \A t \in SignificantTasks : Gap(t, True, Baseline) # 0 /\ t \in Wins(True, Baseline)

RankingIsFair ==
    Cells = {} => DominanceDecides /\ RanksAddUp /\ ProfileRises /\ TrendsAreGains
=============================================================================
