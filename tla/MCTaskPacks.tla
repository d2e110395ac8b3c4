------------------------------ MODULE MCTaskPacks ------------------------------
(* TaskPacks for TLC: a benchmark tree before and after it grew, and cards a  *)
(* person shortened; failures with and without the generic ones; three and    *)
(* six candidates; traces that are sound, of no pattern, or torn.             *)
EXTENDS TaskPacks, BenchmarkTasks

MCSnakeOf == [Robotics |-> "robotics", Cryptographic |-> "cryptographic", JobShop |-> "job_shop"]
MCFamilies ==
    "robotics_optimization" :> <<<<"robotics">>, <<"optimization">>>> @@
    "cryptographic_optimization" :> <<<<"cryptographic">>, <<"optimization">>>> @@
    "job_shop_optimization" :> <<<<"job">>, <<"shop">>, <<"optimization">>>>

Line(kind, text, words) == [kind |-> kind, text |-> text, words |-> words]
PidTask == <<Line("section", "title", {}), Line("prose", "intro", {"rollout", "itae"}),
             Line("section", "the problem", {"problem"}), Line("blank", "blank", {}),
             Line("prose", "tune_gains", {"makespan"}),
             Line("section", "rules", {"constraints"}), Line("bullet", "no_overshoot", {}),
             Line("note", "see_paper", {}), Line("bullet", "no_overshoot", {}),
             Line("section", "end", {}), Line("bullet", "not_a_rule", {})>>
Dir(family, familyname, name, snake, md, program, command, constraints) ==
    [family |-> family, familyname |-> familyname, name |-> name, snake |-> snake, md |-> md,
     program |-> program, command |-> command, constraints |-> constraints,
     parent |-> FALSE, stub |-> FALSE]
Pid == Dir("Robotics", <<<<"robotics">>>>, <<<<"pid">>, <<"tuning">>>>, "pid_tuning", PidTask,
           "py", {}, << >>)
Hover == Dir("Robotics", <<<<"robotics">>>>, <<<<"quadrotor">>, <<"hover">>>>, "quadrotor_hover",
             <<Line("prose", "hover", {"wind"})>>, "", {"evaluate.py"},
             <<Line("label", "rules", {}), Line("prose", "stay_level", {})>>)
Aes == Dir("Cryptographic", <<<<"cryptographic">>>>, <<<<"aes">>, <<"128">>>>, "aes_128",
           <<Line("comment", "aes", {"throughput", "c++"})>>, "", {"kernel"},
           <<Line("comment", "rules", {}), Line("bullet", "constant_time", {}),
             Line("note", "no_tables", {})>>)
Shop == Dir("JobShop", <<<<"job">>, <<"shop">>>>, <<<<"abz">>>>, "abz", << >>, "json", {}, << >>)
Grown == <<[Shop EXCEPT !.parent = TRUE], Aes, Shop, Pid, Hover>>
FirstCatalog == CatalogAfter(<<Aes, Pid, Hover>>, << >>)
SecondCatalog == CatalogAfter(Grown, FirstCatalog)
\* A person strikes a failure from one of two sisters; a third catalog is refused.
Shortened == [CatalogAfter(<<Shop>>, FirstCatalog) EXCEPT ![3].failures = FirstOf(@, 1)]

Failure(id, domain, symptom, signals, contra) ==
    [id |-> id, domain |-> domain, symptom |-> symptom, causes |-> <<"cause">>,
     signals |-> signals, contra |-> contra]
Windup == Failure("failure_pid_integrator_windup", "Control_Locomotion", "integral_grows",
                  <<"overshoot", "saturation">>, <<"do_not_raise_ki", "not_for_hover">>)
FewFailures == <<Windup, Failure("failure_actuator_clamp_missing", "Control_Locomotion", "no_clamp",
                                 <<"saturation">>, <<"do_not_raise_ki">>)>>
MoreFailures == FewFailures \o
    <<Failure("failure_generic_runaway_search", "Systems_Compute", "runs_on", << >>, << >>),
      Failure("failure_simulator_compile_failure", "Systems_Compute", "no_build", <<"saturation">>,
              <<"no_tables">>)>>

Candidate(id, family, failure, kinds, diagnosis, next, signal, contra, n) ==
    [id |-> id, family |-> family, failure |-> failure, kinds |-> kinds, diagnosis |-> diagnosis,
     next |-> <<next>>, target |-> <<"search_loop">>, signal |-> signal, contra |-> contra, n |-> n]
FewCandidates ==
    <<Candidate("compiled_generic_time_budget", "other_optimization", "", {"add_time_budget"},
                "runs_on", "add_deadline", "stays_valid", << >>, 2),
      Candidate("compiled_zero_integral_gain", "robotics_optimization",
                "failure_pid_integrator_windup", {"set_parameter_zero", "add_time_budget"},
                "integral_grows", "zero_gain", "overshoot", <<"do_not_raise_ki">>, 5),
      Candidate("compiled_clamp", "robotics_optimization", "failure_unheard_of",
                {"add_output_clamp"}, "no_clamp", "clamp_output", "saturation", << >>, 0)>>
MoreCandidates == FewCandidates \o
    [i \in 1..4 |-> Candidate(<<"compiled_a", "compiled_b", "compiled_c", "compiled_d">>[i],
                              "robotics_optimization", "", {"add_output_clamp"}, "runs_on",
                              "pin_literal", "stays_valid", <<"long_warning">>, i)]
Trace(id, pattern, delta) == [id |-> id, pattern |-> pattern, delta |-> delta]
SoundTraces == <<Trace("trace_1", "compiled_clamp", 3), Trace("trace_2", "retired", -1),
                 Trace("trace_3", "compiled_zero_integral_gain", 0)>>

MCAssetFiles ==
    [failures |-> <<FewFailures, MoreFailures>>,
     tasks |-> <<FirstCatalog, Shortened, SecondCatalog>>,
     candidates |-> <<FewCandidates, MoreCandidates>>,
     embodiments |-> <<<<[id |-> "embodiment_quadrotor"]>>>>,
     verifiers |-> <<<<[id |-> "verifier_sim", type |-> "simulator"],
                       [id |-> "verifier_bench", type |-> "benchmark_harness"]>>,
                     <<[id |-> "verifier_sim", type |-> "simulator"],
                       [id |-> "verifier_rollout", type |-> "simulator"],
                       [id |-> "verifier_bench", type |-> "benchmark_harness"],
                       [id |-> "verifier_script", type |-> "checker_script"]>>>>,
     traces |-> <<SoundTraces, Append(SoundTraces, Trace("trace_4", "", 2)),
                  Append(SoundTraces, TornTrace)>>]

MCFamilyOf ==
    "robotics_optimization" :> [domain |-> "Control_Locomotion", embodiments |-> {"uav", "manipulator"}] @@
    "unknown_optimization" :> [domain |-> "Systems_Compute", embodiments |-> {}]
MCWider == "compiled_generic_time_budget" :> {"robotics_optimization", "job_shop_optimization"}
MCFailureOfKind ==
    <<[kind |-> "add_time_budget", failure |-> "failure_generic_runaway_search"],
      [kind |-> "add_output_clamp", failure |-> "failure_actuator_clamp_missing"],
      [kind |-> "set_parameter_zero", failure |-> "failure_pid_integrator_windup"]>>
MCEmbodimentsOf == "robotics_optimization" :> {"embodiment_quadrotor"}
MCDomains == {"Control_Locomotion", "Systems_Compute", "Planning_Decision"}
MCHints == {"quadrotor", "robotics", "kernel"}
MCHintOfFamily == "robotics_optimization" :> "manipulator" @@ "cryptographic_optimization" :> "gpu_kernel"

\* The texts, with the words that matter in them.
MCTexts ==
    "pid_tuning" :> {"pid", "tuning"} @@ "quadrotor_hover" :> {"quadrotor", "hover"} @@
    "aes_128" :> {"aes"} @@ "abz" :> {"abz"} @@ "nothing" :> {} @@ "aes" :> {"aes"} @@
    "intro" :> {"tune"} @@ "tune_gains" :> {"tune", "gains"} @@ "hover" :> {"hover", "wind"} @@
    "integral_grows" :> {"integral", "grows"} @@ "no_clamp" :> {"clamp", "missing"} @@
    "runs_on" :> {"search", "runs"} @@ "no_build" :> {"build", "fails"} @@ "cause" :> {"gains"} @@
    "overshoot" :> {"overshoot"} @@ "saturation" :> {"saturation", "actuator"} @@
    "stays_valid" :> {"score", "valid"} @@ "search_loop" :> {"search", "loop"} @@
    "add_deadline" :> {"deadline"} @@ "zero_gain" :> {"zero", "gains"} @@
    "clamp_output" :> {"clamp", "output"} @@ "pin_literal" :> {"pin"} @@
    "do_not_raise_ki" :> {"raise"} @@ "not_for_hover" :> {"hover"} @@ "no_tables" :> {"tables"} @@
    "long_warning" :> {"long"} @@ "do_not_embed_tuning_values" :> {"values"} @@
    "no_overshoot" :> {} @@ "stay_level" :> {} @@ "constant_time" :> {} @@ "see_paper" :> {} @@
    "verifier_returns_valid" :> {} @@ "metric_moves" :> {}
MCIdsIn == [t \in DOMAIN MCTexts |->
              CASE t = "not_for_hover" -> {"task_robotics_quadrotor_hover", "task_nowhere"}
                [] t = "no_tables" -> {"verifier_bench"} [] OTHER -> {}]
MCSizeOf == [t \in DOMAIN MCTexts |-> CASE t = "long_warning" -> 190 [] t = "no_overshoot" -> 110 [] OTHER -> 4]
MCLeadOf == [t \in DOMAIN MCTexts |-> IF t = "pin_literal" THEN 0 ELSE IF t = "zero_gain" THEN 30 ELSE 3]
MCSampleWeight == [n \in 1..5 |-> <<228, 361, 455, 529, 589>>[n]]

\* The queries: a plain one, a short budget, a family that fits by its parts, a
\* benchmark, a name that fits nothing; and packs that must be cut a little or much.
Query(name, benchmark, budget, k, max) ==
    [name |-> name, benchmark |-> benchmark, budget |-> budget, k |-> k, max |-> max]
MCQueries == {
    Query(<<<<"pid">>, <<"tuning">>>>, << >>, 20, 5, 1200),
    Query(<<<<"quadrotor">>, <<"hover">>>>, << >>, 2, 5, 200),
    Query(<<<<"hover">>>>, << >>, 7, 7, 352),
    Query(<<<<"pid">>, <<"loop">>, <<"tuning">>>>, << >>, 5, 2, 1200),
    Query(<<<<"crypto">>, <<"aes", "128">>>>, << >>, 4, 3, 1200),
    Query(<<<<"sorting">>>>, <<<<"frontier">>>>, 9, 1, 1200),
    Query(<<<<"sorting">>>>, << >>, 9, 1, 1200),
    Query(<<<<"pid">>>>, << >>, 20, 7, 200) }
=============================================================================
