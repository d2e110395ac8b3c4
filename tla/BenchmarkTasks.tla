---------------------------- MODULE BenchmarkTasks -----------------------------
(* extract_frontier_task_cards.py: a task card for every task directory of a  *)
(* benchmark tree (extractors/benchmark_extractor.py), and the catalog        *)
(* task_cards.yaml, replaced when enough cards were made.                     *)
(*                                                                            *)
(* A file is the sequence of its lines; a line is its kind, its text and the  *)
(* words the extractor looks for in it.  A file that is not there is empty,   *)
(* which the extractor does not tell from an empty one.                       *)
EXTENDS Integers, Sequences, SequencesExt, FiniteSetsExt, TLC
CONSTANTS
    SnakeOf,    \* [families -> their names in snake case]
    MinCards    \* gate of the catalog (47)
ASSUME CatalogAssumption == MinCards \in Nat

\* FAMILY_TO_DOMAIN; a family it does not have counts as computing.
DomainOfFamily(family) ==
    CASE family \in {"Robotics", "Astrodynamics", "AdditiveManufacturing", "PowerSystems",
                     "SustainableDataCenterControl"} -> "Control_Locomotion"
      [] family \in {"QuantumComputing", "ParticlePhysics", "MolecularMechanics", "Optics",
                     "EnergyStorage", "CommunicationEngineering", "WirelessChannelSimulation",
                     "Aerodynamics", "StructuralOptimization", "ReactionOptimisation"} -> "World_Physics"
      [] family = "SingleCellAnalysis" -> "Learning_Training"
      [] family \in {"InventoryOptimization", "JobShop", "PyPortfolioOpt", "EngDesign"} ->
            "Planning_Decision"
      [] OTHER -> "Systems_Compute"

\* FAMILY_RECOMMENDATIONS, its failure modes.
CommonFailures(family) ==
    LET unbounded == "failure_actuator_output_unbounded"
        explosion == "failure_gradient_explosion"
        divergence == "failure_planning_divergence"
        compile == "failure_simulator_compile_failure"
    IN  CASE family = "Robotics" ->
                <<"failure_pid_integrator_windup", unbounded, "failure_actuator_clamp_missing">>
          [] family \in {"Astrodynamics", "PowerSystems"} -> <<unbounded, divergence>>
          [] family \in {"AdditiveManufacturing", "Optics", "EnergyStorage"} -> <<unbounded, explosion>>
          [] family \in {"SustainableDataCenterControl", "JobShop", "InventoryOptimization",
                         "EngDesign"} -> <<divergence>>
          [] family \in {"KernelEngineering", "Cryptographic", "ComputerSystems"} -> <<compile>>
          [] family \in {"ElectronicDesignAutomation", "QuantumComputing"} -> <<compile, divergence>>
          [] family = "Aerodynamics" -> <<explosion, compile>>
          [] family \in {"CommunicationEngineering", "ParticlePhysics", "ReactionOptimisation"} ->
                <<explosion, divergence>>
          [] family = "MolecularMechanics" -> <<explosion>>
          [] family = "StructuralOptimization" -> <<explosion, unbounded>>
          [] family = "WirelessChannelSimulation" -> <<compile, explosion>>
          [] family = "SingleCellAnalysis" -> <<explosion, "failure_ppo_entropy_collapse">>
          [] family = "PyPortfolioOpt" -> <<divergence, explosion>>
          [] OTHER -> << >>

-----------------------------------------------------------------------------
Says(passage) == UNION {passage[i].words : i \in DOMAIN passage}
TextsOf(passage) == [i \in DOMAIN passage |-> passage[i].text]
Once(texts) == FoldLeft(LAMBDA kept, t : IF Contains(kept, t) THEN kept ELSE Append(kept, t),
                        << >>, texts)

\* METRIC_PATTERNS: the first that occurs, combined_score if none does.
Metrics == <<"score_0_to_1", "combined_score", "makespan", "score_best", "score_lb", "throughput",
             "geom_mean_ns", "itae", "ber", "mean_rms", "mean_strehl", "gate_count">>
MetricOf(md) ==
    LET named == {i \in DOMAIN Metrics : Metrics[i] \in Says(md)}
    IN  IF named = {} THEN "combined_score" ELSE Metrics[Min(named)]

\* METRIC_DIRECTION.  It has every metric that is ever detected, so the prose is
\* not looked at.
DirectionOf(metric) ==
    IF metric \in {"makespan", "geom_mean_ns", "itae", "ber", "mean_rms", "gate_count"}
    THEN "minimize" ELSE "maximize"

\* _detect_artifact_type: what the suffix says, or else the text.
ArtifactOf(dir) ==
    CASE dir.program = "py" -> "python"
      [] dir.program \in {"cpp", "cc", "cxx", "c", "h", "hpp"} -> "cpp"
      [] dir.program \in {"cu", "cuh"} -> "cuda"
      [] dir.program \in {"yaml", "yml"} -> "yaml"
      [] dir.program = "json" -> "params"
      [] "triton" \in Says(dir.md) -> "triton"
      [] "cuda" \in Says(dir.md) -> "cuda"
      [] "c++" \in Says(dir.md) -> "cpp"
      [] OTHER -> "python"

\* _detect_verifier_type
VerifierOf(words) ==
    CASE words \cap {"popcorn", "leaderboard", "gpu", "kernel", "cuda", "triton"} # {} ->
            "benchmark_harness"
      [] words \cap {"simulator", "rollout", "scenario", "wind", "dynamics"} # {} -> "simulator"
      [] words \cap {"evaluate.py", "evaluator.py", "eval.py", "verifier"} # {} -> "checker_script"
      [] words \cap {"unit test", "pytest"} # {} -> "unit_test"
      [] OTHER -> "checker_script"

\* _extract_hard_constraints: the bullets of constraints.txt, or its lines, or
\* the bullets of the first section of Task.md that is about constraints.
Bullets == {"bullet", "note"}
SectionFrom(md, at) ==
    LET later == {j \in (at + 1)..Len(md) : md[j].kind = "section"}
    IN  SubSeq(md, at + 1, IF later = {} THEN Len(md) ELSE Min(later) - 1)
SectionsAbout(md, topic) ==
    {i \in DOMAIN md : md[i].kind = "section" /\ topic \in md[i].words}
HardConstraints(dir) ==
    LET listed == SelectSeq(dir.constraints, LAMBDA l : l.kind \in Bullets)
        prose == SelectSeq(dir.constraints, LAMBDA l : l.kind = "prose")
        sections == SectionsAbout(dir.md, "constraints")
        told == IF sections = {} THEN << >>
                ELSE SelectSeq(SectionFrom(dir.md, Min(sections)), LAMBDA l : l.kind = "bullet")
        texts == Once(TextsOf(IF listed # << >> THEN listed
                              ELSE IF prose # << >> THEN prose ELSE told))
    IN  SubSeq(texts, 1, Min({12, Len(texts)}))

\* _extract_baseline_description: the first line that says something below the
\* heading of the problem, or else the first of the file.
Baseline(md) ==
    LET Told(passage) == SelectSeq(passage, LAMBDA l : l.kind \notin {"section", "comment", "blank"})
        problems == SectionsAbout(md, "problem")
        below == IF problems = {} THEN << >> ELSE Told(SubSeq(md, Min(problems) + 1, Len(md)))
    IN  IF below # << >> THEN below[1].text
        ELSE IF Told(md) # << >> THEN Told(md)[1].text ELSE "nothing"

\* extract_task_card
TaskCard(dir) ==
    LET family == SnakeOf[dir.family]
        metric == MetricOf(dir.md)
    IN  [id        |-> "task_" \o family \o "_" \o dir.snake,
         idname    |-> <<<<"task">>>> \o dir.familyname \o dir.name,
         name      |-> dir.name,
         family    |-> family \o "_optimization",
         benchmark |-> <<<<"frontier">>, <<"eng">>>>,
         domain    |-> DomainOfFamily(dir.family),
         artifact  |-> ArtifactOf(dir),
         metric    |-> metric,
         direction |-> DirectionOf(metric),
         verifier  |-> VerifierOf(Says(dir.md) \cup dir.command),
         hard      |-> HardConstraints(dir),
         about     |-> dir.snake,
         baseline  |-> Baseline(dir.md),
         failures  |-> CommonFailures(dir.family)]

\* is_parent_index: tasks below it, or hardly a text.
IsParentIndex(dir) == dir.parent \/ dir.stub

\* extract_from_corpus, the directories in the order of their paths.
CardsOfCorpus(corpus) ==
    LET leaves == SelectSeq(corpus, LAMBDA d : ~IsParentIndex(d))
    IN  [i \in DOMAIN leaves |-> TaskCard(leaves[i])]

\* main --apply: too few cards leave the catalog as it is.
CatalogAfter(corpus, catalog) ==
    LET cards == CardsOfCorpus(corpus)
    IN  IF Len(cards) < MinCards THEN catalog ELSE cards
=============================================================================
