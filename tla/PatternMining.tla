---------------------------- MODULE PatternMining ----------------------------
(* From an archive of optimised programs to pattern cards:                   *)
(* extract_trajectory_patterns compares every program with its baseline,     *)
(* classifies what changed (code_diff_summarizer), lets the extractors turn  *)
(* the changes into candidate patterns (trajectory_extractor), merges them   *)
(* over the archive and replaces the catalog; compile_pattern_cards renders  *)
(* a card for each entry, one file after the other.                          *)
(*                                                                           *)
(* A source text is the number of times it shows each feature a detector     *)
(* looks for, a task name the set of words the extractors look for in it,    *)
(* and a card the facts it states of its evidence.                           *)
EXTENDS Integers, Sequences, SequencesExt, FiniteSetsExt, TLC

CONSTANTS Programs,         \* what an archive may hold: a program with its
                            \*   task name and, if found, its baseline
          Copies,           \* program files found under one task directory
          MinTrajectories,  \* gate of the catalog (10)
          MinCandidates,    \* gate of the catalog (4)
          GradeA,           \* trajectories behind a card of grade A (5)
          MaxPrograms, MaxKills

ASSUME MiningAssumption ==
    /\ Copies \subseteq Nat \ {0}
    /\ {MinTrajectories, MinCandidates, MaxPrograms, MaxKills} \subseteq Nat
    /\ GradeA \in Nat \ {0}

VARIABLES archive,   \* programs, with the number of files each
          catalog,   \* trajectory_patterns.yaml: entries by id
          cards,     \* compiled_patterns: card by pattern id
          todo,      \* cards the compiler has rendered and not written yet
          kills,
          earned     \* history: by kind, the most programs of one archive
                     \*   whose catalog was published that show it
mining_vars == <<archive, catalog, cards, todo, kills, earned>>

(* ---------------------- changes (code_diff_summarizer) ------------------- *)

\* How a detector decides that a change of its kind was made: the feature
\* became more frequent by so many, it was not there at all, a name (or line,
\* or tuned value) is new, a random search gave way to a structured optimizer,
\* or several kernels to fewer.
FirstSeen == "first"
NewName == "name"

GeneralDetectors ==
    [set_parameter_zero |-> [how |-> NewName], add_output_clamp |-> [how |-> NewName],
     add_input_validation |-> [how |-> NewName], add_time_budget |-> [how |-> FirstSeen],
     add_initialization_seed |-> [how |-> FirstSeen], swap_optimizer |-> [how |-> "swap"],
     vectorize_loop |-> [how |-> "gain", by |-> 2]]
\* A pragma that unrolls a loop counts as three calls of a round.
CryptoDetectors ==
    [add_lookup_table |-> [how |-> NewName], unroll_loop |-> [how |-> "gain", by |-> 3],
     add_branchless_select |-> [how |-> "gain", by |-> 1],
     add_constant_time_compare |-> [how |-> FirstSeen]]
KernelDetectors ==
    [add_shared_memory_tile |-> [how |-> FirstSeen], adjust_block_size |-> [how |-> NewName],
     add_kernel_fusion |-> [how |-> "fuse"], add_warp_specialization |-> [how |-> FirstSeen],
     add_async_copy |-> [how |-> FirstSeen]]
SchedulingDetectors ==
    [reorder_operations |-> [how |-> "gain", by |-> 1],
     add_priority_heuristic |-> [how |-> NewName], add_dispatch_rule |-> [how |-> FirstSeen],
     add_dependency_constraint |-> [how |-> "gain", by |-> 2]]
Detectors == GeneralDetectors @@ CryptoDetectors @@ KernelDetectors @@ SchedulingDetectors
Kinds == DOMAIN Detectors
Naming == {k \in Kinds : Detectors[k].how = NewName}

Detected(kind, base, cand) ==
    LET before == base.shows[kind]
        after == cand.shows[kind]
    IN  CASE Detectors[kind].how = "gain" -> after >= before + Detectors[kind].by
          [] Detectors[kind].how = FirstSeen -> before = 0 /\ after > 0
          [] Detectors[kind].how = "swap" -> base.random /\ after > 0
          [] Detectors[kind].how = "fuse" -> before >= 2 /\ after < before
          [] Detectors[kind].how = NewName -> FALSE

\* The targets the extractors tell apart: integral gains, other gains of a
\* PID controller, actuator commands.
Targets == {"ki", "gain", "command", "other"}
Mutations(base, cand) ==
    [kind : {k \in Kinds : Detected(k, base, cand)}, target : {"none"}] \cup
    {m \in [kind : Naming, target : Targets] :
        <<m.kind, m.target>> \in cand.names \ base.names}

(* ------------------- candidates (trajectory_extractor) ------------------- *)

\* The family of a task is that of the first rule that knows a word of its name.
FamilyWords ==
    << <<{"pid", "robot"}, "robotics">>, <<{"aes"}, "cryptographic">>,
       <<{"kernel"}, "kernel_engineering">>, <<{"shop"}, "job_shop">>,
       <<{"inventory"}, "inventory">>, <<{"optics"}, "optics">>,
       <<{"battery"}, "energy_storage">> >>
Family(name) ==
    LET known == SelectSeq(FamilyWords, LAMBDA f : f[1] \cap name # {})
    IN  IF known = << >> THEN "unknown" ELSE Head(known)[2]

\* What an extractor looks for: a kind of change, of a target where that
\* matters, and the family of the pattern ("task" for that of the task).
Rule(kind, target, family) == [kind |-> kind, target |-> target, family |-> family]
PidRules == {Rule("set_parameter_zero", "ki", "robotics"),
             Rule("add_output_clamp", "command", "robotics"),
             Rule("swap_optimizer", "any", "robotics"),
             Rule("add_time_budget", "any", "robotics")}
SystemsRules == {Rule("vectorize_loop", "any", "task"),
                 Rule("add_input_validation", "any", "task"),
                 Rule("add_time_budget", "any", "task")}
OptimizerRules == {Rule("add_initialization_seed", "any", "task"),
                   Rule("swap_optimizer", "any", "task")}
AesRules == {Rule(k, "any", "cryptographic") : k \in DOMAIN CryptoDetectors}
CudaRules == {Rule(k, "any", "kernel_engineering") : k \in DOMAIN KernelDetectors}
SchedulingRules == {Rule(k, "any", "job_shop") : k \in DOMAIN SchedulingDetectors}
Rules == [pid |-> PidRules, systems |-> SystemsRules, optimizer |-> OptimizerRules,
          aes |-> AesRules, cuda |-> CudaRules, scheduling |-> SchedulingRules]
Extractors == DOMAIN Rules
PatternIds == UNION {{<<x, r.kind>> : r \in Rules[x]} : x \in Extractors}

\* The general extractors leave time budgets and swaps of robotics to the
\* PID extractor.
LeftToPid == {"add_time_budget", "swap_optimizer"}

\* Which extractors look at a trajectory: by a word of the name (one word here
\* for all that mean the same), or by the changes themselves.
OwnWords == [pid |-> {"pid", "tuning"}, aes |-> {"aes"}, cuda |-> {"kernel"},
             scheduling |-> {"shop", "inventory"}]
Looks(x, name, muts) ==
    \/ x \in {"systems", "optimizer"}
    \/ x \in DOMAIN OwnWords /\ OwnWords[x] \cap name # {}
    \/ x = "pid" /\ \E m \in muts : m.target \in {"ki", "gain"}
    \/ x \in {"aes", "cuda", "scheduling"} /\
          \E m \in muts, r \in Rules[x] : m.kind = r.kind

Matching(r, muts) == {m \in muts : m.kind = r.kind /\ r.target \in {"any", m.target}}

\* The candidates of one trajectory: the pattern, its family, its changes.
Candidates(name, muts) ==
    UNION {{[id |-> <<x, r.kind>>,
             family |-> IF r.family = "task" THEN Family(name) ELSE r.family,
             mutations |-> Matching(r, muts)] :
               r \in {q \in Rules[x] :
                        /\ Looks(x, name, muts)
                        /\ Matching(q, muts) # {}
                        /\ q.family = "task" /\ q.kind \in LeftToPid =>
                              Family(name) # "robotics"}} : x \in Extractors}

(* ----------------------- catalog and cards (scripts) --------------------- *)

\* The changes in a program and what is mined from it; nothing where the task
\* has no baseline to compare with.
ChangesOf == [p \in Programs |-> IF p.found THEN Mutations(p.base, p.cand) ELSE {}]
Mined == [p \in Programs |-> Candidates(p.name, ChangesOf[p])]
Trajectories == {a \in archive : a.program.found}

\* One candidate per program file; those of one id are merged.
Behind(id) == {a \in Trajectories : \E c \in Mined[a.program] : c.id = id}
Files(S) == MapThenSumSet(LAMBDA a : a.files, S)

\* Mutant of EvidenceCount: every change counts, not every trajectory.
EvidenceOfChanges(id) ==
    MapThenSumSet(LAMBDA a : a.files * Cardinality(ChangesOf[a.program]), Behind(id))

EvidenceCount(id) == Files(Behind(id))

Merged == UNION {{c.id : c \in Mined[a.program]} : a \in Trajectories}
Entry(id) ==
    [count |-> EvidenceCount(id),
     mutations |-> UNION {c.mutations :
                            c \in {d \in UNION {Mined[a.program] : a \in Behind(id)} :
                                      d.id = id}}]

\* Mutant of Card: few trajectories are no grade at all.
CardUngraded(entry) == [n |-> entry.count,
                        grade |-> IF entry.count >= GradeA THEN "A" ELSE "none",
                        kinds |-> {m.kind : m \in entry.mutations}]

\* compile_pattern_card: in staging, with the evidence and its grade.
Card(entry) == [n |-> entry.count,
                grade |-> IF entry.count >= GradeA THEN "A" ELSE "B",
                kinds |-> {m.kind : m \in entry.mutations}]

\* Another task is archived, with one program file or several.
Archived ==
    /\ Cardinality(archive) < MaxPrograms
    /\ \E p \in Programs \ {a.program : a \in archive}, n \in Copies :
          archive' = archive \cup {[program |-> p, files |-> n]}
    /\ UNCHANGED <<catalog, cards, todo, kills, earned>>

\* extract_trajectory_patterns --apply: nothing is written unless both gates
\* are met; the catalog is then replaced as a whole.
Extracted ==
    /\ Files(Trajectories) >= MinTrajectories
    /\ Cardinality(Merged) >= MinCandidates
    /\ catalog' = [id \in Merged |-> Entry(id)]
    /\ earned' = [k \in Kinds |->
          LET shown == Files({a \in Trajectories :
                                \E m \in ChangesOf[a.program] : m.kind = k})
          IN  IF shown > earned[k] THEN shown ELSE earned[k]]
    /\ UNCHANGED <<archive, cards, todo, kills>>

\* compile_pattern_cards --apply renders every card before it writes one.
Rendered ==
    /\ todo = << >> /\ DOMAIN catalog # {}
    /\ todo' = [id \in DOMAIN catalog |-> Card(catalog[id])]
    /\ UNCHANGED <<archive, catalog, cards, kills, earned>>

\* One file is replaced; those no catalog mentions any more stay.
CardWritten ==
    /\ \E id \in DOMAIN todo :
          /\ cards' = [i \in DOMAIN cards \cup {id} |->
                          IF i = id THEN todo[id] ELSE cards[i]]
          /\ todo' = [i \in DOMAIN todo \ {id} |-> todo[i]]
    /\ UNCHANGED <<archive, catalog, kills, earned>>

CompileKilled ==
    /\ todo # << >> /\ kills < MaxKills
    /\ todo' = << >> /\ kills' = kills + 1
    /\ UNCHANGED <<archive, catalog, cards, earned>>

MiningInit ==
    /\ archive = {} /\ catalog = << >> /\ cards = << >> /\ todo = << >> /\ kills = 0
    /\ earned = [k \in Kinds |-> 0]
MiningNext == Archived \/ Extracted \/ Rendered \/ CardWritten \/ CompileKilled
MiningSpec == MiningInit /\ [][MiningNext]_mining_vars

(* ------------------------------- properties ------------------------------ *)

CardType == [n : Nat, grade : {"A", "B"}, kinds : SUBSET Kinds]

\* Every variable has its type.
MiningTypeOK ==
    /\ \A a \in archive : a.program \in Programs /\ a.files \in Copies
    /\ {DOMAIN catalog, DOMAIN cards, DOMAIN todo} \subseteq SUBSET PatternIds
    /\ \A id \in DOMAIN catalog : catalog[id].count \in Nat \ {0}
    /\ \A id \in DOMAIN cards : cards[id] \in CardType
    /\ \A id \in DOMAIN todo : todo[id] \in CardType
    /\ kills \in 0..MaxKills
    /\ earned \in [Kinds -> Nat]

\* A card is of the kind of change its pattern is about, and the trajectories it
\* counts (and the grade they give it) were really shown by as many programs of
\* one archive, however old the card is and wherever a compilation was killed.
CardsAreEarned ==
    \A id \in DOMAIN cards :
        /\ cards[id].kinds = {id[2]}
        /\ cards[id].n <= earned[id[2]]
        /\ cards[id].grade = "A" => earned[id[2]] >= GradeA

\* Every time budget and every swap of the optimizer in the archive is mined, by
\* the PID extractor or by a general one, but for robotics tasks that are no PID
\* tuning, which neither of them looks at.
LessonsOfOtherFamilies ==
    \A a \in Trajectories, k \in LeftToPid :
        /\ \E m \in ChangesOf[a.program] : m.kind = k
        /\ Family(a.program.name) # "robotics" \/ Looks("pid", a.program.name, ChangesOf[a.program])
        => \E c \in Mined[a.program] : c.id[2] = k

\* What an agent is told on a card is backed by the archive, and what the
\* archive teaches outside that gap is in the candidates.
MinedEvidenceStands == CardsAreEarned /\ LessonsOfOtherFamilies
=============================================================================
