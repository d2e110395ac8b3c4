----------------------------- MODULE MCExperiments -----------------------------
(* The offline experiments for TLC: the ranking of the arms of the ablation   *)
(* harness, the paired experiment of a seed, the release of a bridge, the     *)
(* mining of patterns, the logs of robots, and the import of bundles into a   *)
(* store.  A behaviour is about one of them; the others stay in their initial *)
(* state.                                                                     *)
EXTENDS ArmRanking, PairedExperiment, RoutingRelease, PatternMining, MCRobotEvents,
        MCLegacyImport

VARIABLE part

\* The ranking starts from a sweep, so its parts differ from the start.
ExperimentsInit ==
    /\ part \in {"ranking", "paired", "release", "mining", "logs", "evidence", "stores"}
    /\ RankInit /\ PairedInit /\ ReleaseInit /\ MiningInit
    /\ RobotInit /\ StoresInit
    /\ part # "stores" => memory = EmptyMemory
    /\ part # "ranking" => /\ shape = CHOOSE s \in Shapes : TRUE
                           /\ direction = [t \in shape.tasks |-> "maximize"]

ExperimentsNext ==
    /\ part' = part
    /\ \/ /\ part = "ranking" /\ RankNext
          /\ UNCHANGED <<paired_vars, release_vars, mining_vars, robot_vars, stores_vars>>
       \/ /\ part = "paired" /\ PairedNext
          /\ UNCHANGED <<rank_vars, release_vars, mining_vars, robot_vars, stores_vars>>
       \/ /\ part = "release" /\ ReleaseNext
          /\ UNCHANGED <<rank_vars, paired_vars, mining_vars, robot_vars, stores_vars>>
       \/ /\ part = "mining" /\ MiningNext
          /\ UNCHANGED <<rank_vars, paired_vars, release_vars, robot_vars, stores_vars>>
       \/ /\ \/ part = "logs" /\ RobotLogNext
             \/ part = "evidence" /\ RobotEvidenceNext
          /\ UNCHANGED <<rank_vars, paired_vars, release_vars, mining_vars, stores_vars>>
       \/ /\ part = "stores" /\ StoresNext
          /\ UNCHANGED <<rank_vars, paired_vars, release_vars, mining_vars, robot_vars>>

ExperimentsSpec ==
    ExperimentsInit
    /\ [][ExperimentsNext]_<<part, rank_vars, paired_vars, release_vars, mining_vars, robot_vars,
                             stores_vars>>

\* Every variable of each has its type.
ExperimentsTypeOK ==
    RankTypeOK /\ PairedTypeOK /\ ReleaseTypeOK /\ MiningTypeOK /\ RobotTypeOK /\ StoresTypeOK

-----------------------------------------------------------------------------
\* Sweeps: two tasks and one seed, one task of four scores, two seeds.
MCShapes == {[tasks |-> {"t1", "t2"}, seeds |-> {1}, points |-> {0, 2}],
             [tasks |-> {"t1"}, seeds |-> {1}, points |-> {-2, -1, 0, 2}],
             [tasks |-> {"t1"}, seeds |-> {1, 2}, points |-> {-1, 2}]}

\* The text of a program: the names and literals the detectors compare, and how
\* often each of the counted words is shown.
Text(names, random, shown) ==
    [names |-> names, random |-> random,
     shows |-> [k \in Kinds |-> IF k \in DOMAIN shown THEN shown[k] ELSE 0]]
Plain  == Text({}, TRUE, [none |-> 0])
Budget == Text({}, FALSE, [add_time_budget |-> 1, swap_optimizer |-> 1])
Trial(name, base, cand) == [name |-> name, found |-> TRUE, base |-> base, cand |-> cand]

\* A task of each family, a name that fits two, a missing baseline, and a
\* program that changes nothing.
MCPrograms == {
    Trial({"tuning"}, Plain, Budget),
    Trial({"pid"}, Plain, Text({<<"set_parameter_zero", "ki">>, <<"add_output_clamp", "command">>},
                               FALSE, [add_time_budget |-> 2])),
    Trial({"robot"}, Plain, Text({<<"set_parameter_zero", "other">>}, FALSE,
                                 [add_time_budget |-> 1])),
    Trial({"aes"}, Text({}, FALSE, [unroll_loop |-> 1]),
                   Text({}, FALSE, [unroll_loop |-> 4, vectorize_loop |-> 1])),
    Trial({"shop", "aes"}, Text({}, TRUE, [add_kernel_fusion |-> 2]),
          Text({}, FALSE, [add_kernel_fusion |-> 1, vectorize_loop |-> 2, swap_optimizer |-> 1])),
    [name |-> {"kernel"}, found |-> FALSE, base |-> Plain, cand |-> Budget],
    Trial({}, Budget, Budget) }
=============================================================================
