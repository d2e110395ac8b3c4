----------------------------- MODULE RobotEvents -----------------------------
(* Simulation and robot logs (sim_ingest): the adapters turn rows of four    *)
(* formats into events, the mapper collapses events of one kind into         *)
(* failures, the harness of cross_embodiment looks for fix patterns of the   *)
(* catalog that fit failures of several robots; robot descriptions become    *)
(* constraints; events of a task run become evidence, and evidence on        *)
(* unknown patterns becomes candidates.                                      *)
(*                                                                           *)
(* A fingerprint is the sequence of its parts ("joint::elbow" is             *)
(* <<"joint", "elbow">>), a text the set of its words.                       *)
EXTENDS Integers, Sequences, SequencesExt, FiniteSetsExt, TLC

CONSTANTS Rows,        \* rows a log may hold, see the adapters
          LowerOf,     \* lower-case form of the names that have another one
          DomainOf,    \* domain of the robots _domain_for knows
          Taxonomy,    \* failures of the taxonomy: [id, words]
          FixPatterns, \* patterns of the graph: [id, failures]
          Urdfs,       \* robot descriptions: [robot, joints, overrides]
          TaskEvents,  \* events of task runs, see Trace
          KnownPatterns,
          MinTraceCount, PromoteUplift,
          MaxRows, MaxTaskEvents,
          Nothing      \* None: no limit, no value

\* Rows are of the four formats and hold lists where the adapters read lists;
\* a robot is described once, and its joints differ in more than case.
IsList(s) == s \in Seq(ToSet(s))
RowOK(r) ==
    /\ r.format \in {"rosbag", "isaac", "mujoco", "foxglove"}
    /\ r.format = "mujoco" => IsList(r.contacts) /\ IsList(r.tags)
    /\ r.format = "isaac" => IsList(r.events)
    /\ r.format = "rosbag" => /\ r.topic = "contacts" => IsList(r.contacts)
                              /\ r.topic = "joint_states" => IsList(r.flagged)

Lower(name) == IF name \in DOMAIN LowerOf THEN LowerOf[name] ELSE name

ASSUME RobotAssumption ==
    /\ {MinTraceCount, MaxRows, MaxTaskEvents} \subseteq Nat
    /\ \A r \in Rows : RowOK(r)
    /\ \A d, e \in Urdfs : Lower(d.robot) = Lower(e.robot) => d = e
    /\ \A d \in Urdfs : \A i, j \in DOMAIN d.joints :
          Lower(d.joints[i].name) = Lower(d.joints[j].name) => i = j

VARIABLES rank,         \* rank of the format ingest_sim_logs is reading
          seen,         \* events read, in order
          buckets,      \* buckets of EventToFailureMapper in order of creation
          constraints,  \* constraints of the descriptions parsed
          embodiments,  \* and the cards of their robots
          report,       \* what ingest_sim_logs prints and dumps, or << >>
          robotTraces,  \* evidence traces of events with a task_run envelope
          robotCandidates
robot_vars == <<rank, seen, buckets, constraints, embodiments, report, robotTraces, robotCandidates>>

(* ----------------------------- event schema ------------------------------ *)

Info == 0
Warning == 1
Critical == 2

\* The type of an event and the words of the failure it maps to.
Stem ==
    [collision |-> <<"collision", "with", "environment">>,
     safety_stop |-> <<"safety", "stop", "triggered">>,
     joint_limit_violation |-> <<"joint", "limit", "violation">>,
     controller_error |-> <<"controller", "divergence">>,
     sensor_outlier |-> <<"sensor", "outlier">>,
     task_timeout |-> <<"task", "timeout">>,
     trajectory_deviation |-> <<"trajectory", "follow", "error">>,
     actuator_saturation |-> <<"actuator", "saturation">>]
EventTypes == DOMAIN Stem

\* The items of a list that are at some of its places, in order.
Nth(places, n) == CHOOSE i \in places : Cardinality({j \in places : j < i}) = n - 1
AtPlaces(s, places) == [n \in 1..Cardinality(places) |-> s[Nth(places, n)]]

\* Empty names at the end of a fingerprint go (rstrip of the colons).
Trimmed(parts) == SubSeq(parts, 1, Max({0} \cup {i \in DOMAIN parts : parts[i] # ""}))

Event(type, robot, sev, fp, signal) ==
    [type |-> type, robot |-> robot, sev |-> sev, fp |-> fp, signal |-> signal]

(* ------------------------------- adapters -------------------------------- *)

Collision(robot, contact, sev) ==
    Event("collision", robot, sev, Trimmed(<<"collision", contact.a, contact.b>>), contact.force)

\* rosbag: one event of a message, but one for every flagged joint of
\* joint_states.  Of the contacts of a message only the strongest counts.
Strongest(contacts) ==
    CHOOSE i \in DOMAIN contacts :
        /\ \A j \in DOMAIN contacts : contacts[j].force <= contacts[i].force
        /\ \A j \in 1..(i - 1) : contacts[j].force < contacts[i].force

EStopEvents(r) ==
    IF r.pressed THEN <<Event("safety_stop", r.robot, Critical, <<"emergency_stop">>, 0)>>
    ELSE << >>
ContactEvents(r) ==
    IF r.contacts = << >> THEN << >>
    ELSE LET worst == r.contacts[Strongest(r.contacts)]
         IN  IF worst.force < 5 THEN << >>
             ELSE <<Collision(r.robot, worst, IF worst.force > 80 THEN Critical ELSE Warning)>>
JointEvent(robot, joint) ==
    Event("joint_limit_violation", robot, Critical, <<"joint", joint>>, 0)
JointEvents(r) ==
    [i \in DOMAIN r.flagged |-> JointEvent(r.robot, r.flagged[i])]
ControllerEvents(r) ==
    IF r.status \notin {"error", "failure", "diverged", "windup"} THEN << >>
    ELSE <<Event("controller_error", r.robot, Warning, <<"controller", r.name, r.status>>, 0)>>
SensorEvents(r) ==
    <<Event("sensor_outlier", r.robot, Warning, <<"sensor", r.name, r.status>>, 0)>>
FollowEvents(r) ==
    IF r.error <= r.tolerance THEN << >>
    ELSE <<Event("trajectory_deviation", r.robot, Warning, <<"trajectory", r.goal>>, r.error)>>
TaskEventsOf(r) ==
    IF r.status # "timeout" THEN << >>
    ELSE <<Event("task_timeout", r.robot, Warning, <<"task", r.name>>, 0)>>

RosbagEvents(r) ==
    CASE r.topic = "e_stop" -> EStopEvents(r)
      [] r.topic = "contacts" -> ContactEvents(r)
      [] r.topic = "joint_states" -> JointEvents(r)
      [] r.topic = "controller_state" -> ControllerEvents(r)
      [] r.topic = "sensor_alert" -> SensorEvents(r)
      [] r.topic = "trajectory_status" -> FollowEvents(r)
      [] r.topic = "task_status" -> TaskEventsOf(r)
      [] OTHER -> << >>

\* MuJoCo: every contact above the noise, every tag (in lower case, with the
\* name in it), the follow error.
MujocoContacts(r) ==
    LET felt == AtPlaces(r.contacts, {i \in DOMAIN r.contacts : r.contacts[i].force >= 1})
    IN  [i \in DOMAIN felt |->
            Collision(r.robot, felt[i], IF felt[i].force > 50 THEN Critical ELSE Warning)]

Divergences == {"nan_in_ctrl", "nan_in_qpos", "nan_in_qvel", "policy_diverged"}
TagEvents(robot, tag) ==
    LET name == Lower(tag.name)
    IN  CASE tag.what = "actuator_limit" ->
               <<Event("actuator_saturation", robot, Warning,
                       <<"saturation", "actuator", name>>, 0)>>
          [] tag.what \in Divergences ->
               <<Event("controller_error", robot, Critical, <<"controller", "nan", tag.what>>, 0)>>
          [] tag.what = "joint_limit" -> <<JointEvent(robot, name)>>
          [] tag.what \in {"imu_spike", "sensor_dropout"} ->
               <<Event("sensor_outlier", robot, Warning, <<"sensor", name, tag.what>>, 0)>>
          [] tag.what = "rollout_timeout" ->
               <<Event("task_timeout", robot, Warning, <<"task", "rollout_timeout">>, 0)>>
          [] OTHER -> << >>
MujocoTags(r) ==
    LET events == [i \in DOMAIN r.tags |-> TagEvents(r.robot, r.tags[i])]
        some == AtPlaces(events, {i \in DOMAIN events : events[i] # << >>})
    IN  [i \in DOMAIN some |-> Head(some[i])]

MujocoEvents(r) ==
    MujocoContacts(r) \o MujocoTags(r) \o FollowEvents(r)

\* Isaac Sim: an event by its kind; the severity given, where it is one.
IsaacMap ==
    [collision |-> <<"collision", Warning>>, self_collision |-> <<"collision", Warning>>,
     joint_limit |-> <<"joint_limit_violation", Critical>>,
     joint_violation |-> <<"joint_limit_violation", Critical>>,
     torque_saturation |-> <<"actuator_saturation", Warning>>,
     velocity_saturation |-> <<"actuator_saturation", Warning>>,
     sensor_dropout |-> <<"sensor_outlier", Warning>>,
     imu_spike |-> <<"sensor_outlier", Warning>>,
     task_terminated |-> <<"task_timeout", Warning>>,
     task_failed |-> <<"task_timeout", Warning>>,
     policy_diverged |-> <<"controller_error", Warning>>,
     trajectory_error |-> <<"trajectory_deviation", Warning>>]

IsaacPrint(kind, e) ==
    CASE kind \in {"collision", "self_collision"} -> Trimmed(<<"collision", e.a, e.b>>)
      [] kind \in {"joint_limit", "joint_violation"} -> <<"joint", e.a>>
      [] kind = "torque_saturation" -> <<"saturation", "torque", e.a>>
      [] kind = "velocity_saturation" -> <<"saturation", "velocity", e.a>>
      [] kind \in {"sensor_dropout", "imu_spike"} -> <<"sensor", e.a, kind>>
      [] kind \in {"task_terminated", "task_failed"} -> <<"task", e.a>>
      [] kind = "policy_diverged" -> <<"controller", e.a, "diverged">>
      [] kind = "trajectory_error" -> <<"trajectory", e.a>>

Given(sev, default) == IF sev \in {Info, Warning, Critical} THEN sev ELSE default

IsaacEvents(r) ==
    LET Tells(e) == /\ e.kind \in DOMAIN IsaacMap
                    /\ e.kind \in {"task_terminated", "task_failed"} =>
                          e.reason \in {"timeout", "time_limit"}
        taken == AtPlaces(r.events, {i \in DOMAIN r.events : Tells(r.events[i])})
        AsEvent(e) == Event(IsaacMap[e.kind][1], r.robot, Given(e.sev, IsaacMap[e.kind][2]),
                            IsaacPrint(e.kind, e), e.sev)
    IN  [i \in DOMAIN taken |-> AsEvent(taken[i])]

\* Foxglove: an annotation by its category.
FoxgloveMap ==
    [collision |-> <<"collision", Warning>>,
     estop |-> <<"safety_stop", Critical>>, e_stop |-> <<"safety_stop", Critical>>,
     safety_stop |-> <<"safety_stop", Critical>>,
     joint_limit |-> <<"joint_limit_violation", Critical>>,
     joint_violation |-> <<"joint_limit_violation", Critical>>,
     controller_error |-> <<"controller_error", Warning>>,
     sensor_outlier |-> <<"sensor_outlier", Warning>>,
     sensor_dropout |-> <<"sensor_outlier", Warning>>,
     task_timeout |-> <<"task_timeout", Warning>>,
     trajectory_error |-> <<"trajectory_deviation", Warning>>,
     actuator_saturation |-> <<"actuator_saturation", Warning>>]

FoxglovePrint(c, r) ==
    CASE c = "collision" -> Trimmed(<<"collision", r.a, r.b>>)
      [] c \in {"joint_limit", "joint_violation"} -> <<"joint", r.a>>
      [] c \in {"estop", "e_stop", "safety_stop"} -> <<"emergency_stop">>
      [] c = "controller_error" -> <<"controller", r.a>>
      [] c \in {"sensor_outlier", "sensor_dropout"} -> <<"sensor", r.a, c>>
      [] OTHER -> <<"foxglove", Lower(r.label)>>

FoxgloveEvents(r) ==
    IF r.category \notin DOMAIN FoxgloveMap THEN << >>
    ELSE <<Event(FoxgloveMap[r.category][1], r.robot,
                 Given(r.sev, FoxgloveMap[r.category][2]), FoxglovePrint(r.category, r), r.sev)>>

EventsOf(r) ==
    CASE r.format = "rosbag" -> RosbagEvents(r)
      [] r.format = "isaac" -> IsaacEvents(r)
      [] r.format = "mujoco" -> MujocoEvents(r)
      [] r.format = "foxglove" -> FoxgloveEvents(r)

\* The order in which ingest_sim_logs reads the formats.
Rank == [rosbag |-> 1, isaac |-> 2, mujoco |-> 3, foxglove |-> 4]

(* -------------------------------- mapper --------------------------------- *)

KeyOf(e) == <<e.type, e.fp>>

\* The words of an identifier made of a fingerprint: lower case, no empty ones.
SafeId(fp) ==
    LET words == [i \in DOMAIN fp |-> Lower(fp[i])]
    IN  AtPlaces(words, {i \in DOMAIN words : words[i] # ""})

\* The identifier: the stem alone where the fingerprint adds nothing to it.
IdOf(e) ==
    LET extra == SafeId(e.fp)
    IN  IF extra # << >> /\ ~IsPrefix(Stem[e.type], extra) THEN Stem[e.type] \o extra
        ELSE Stem[e.type]

DomainFor(robot) == IF robot \in DOMAIN DomainOf THEN DomainOf[robot] ELSE "World_Physics"

MaxSeverity(a, b) == IF a >= b THEN a ELSE b

NewBucket(e) ==
    [first |-> e, events |-> <<e>>, robots |-> <<e.robot>>, sev |-> e.sev,
     signals |-> <<e.signal>>]

\* Mutant: a bucket keeps the severity of its first event.
GrownMild(b, e) ==
    [b EXCEPT !.events = Append(@, e),
              !.robots = IF Contains(@, e.robot) THEN @ ELSE Append(@, e.robot),
              !.signals = Append(@, e.signal)]

\* ingest: add an event to its bucket.
Grown(b, e) ==
    [b EXCEPT !.events = Append(@, e),
              !.robots = IF Contains(@, e.robot) THEN @ ELSE Append(@, e.robot),
              !.sev = MaxSeverity(@, e.sev),
              !.signals = Append(@, e.signal)]
Ingested(bs, e) ==
    LET known == {i \in DOMAIN bs : KeyOf(bs[i].first) = KeyOf(e)}
    IN  IF known = {} THEN Append(bs, NewBucket(e))
        ELSE [bs EXCEPT ![CHOOSE i \in known : TRUE] = Grown(@, e)]

\* The first of equal items stays.
DedupKeepOrder(s) ==
    FoldLeft(LAMBDA kept, x : IF Contains(kept, x) THEN kept ELSE Append(kept, x), << >>, s)

Failure(b) ==
    [id |-> IdOf(b.first), type |-> b.first.type, fp |-> b.first.fp,
     domain |-> DomainFor(Head(b.robots)), sev |-> b.sev, robots |-> b.robots,
     count |-> Len(b.events), signals |-> DedupKeepOrder(b.signals)]

\* emit; the order by identifier is left out, two failures may share one.
Emitted(bs) == {Failure(bs[i]) : i \in DOMAIN bs}

(* ---------------------------- cross embodiment --------------------------- *)

\* Words that say a failure of the taxonomy is of a type.  Aliases with an
\* underscore are no words of a text and never match.
Aliases ==
    [collision |-> {"collision", "contact", "contacts", "impact"},
     safety_stop |-> {"safety", "estop", "e_stop", "halt"},
     joint_limit_violation |-> {"joint", "joints", "position_limit", "torque_limit"},
     controller_error |-> {"controller", "divergence", "windup", "wind_up", "integral",
                           "integrator", "pid", "tracking", "nan"},
     sensor_outlier |-> {"sensor", "outlier", "dropout", "spike"},
     task_timeout |-> {"timeout", "budget", "runaway", "wallclock", "wall_clock"},
     trajectory_deviation |-> {"trajectory", "follow", "deviation", "planning", "plan",
                               "diverges", "diverge"},
     actuator_saturation |-> {"actuator", "saturation", "saturate", "saturated", "clamp",
                              "command"}]
FailureEventTypes(f) == {t \in EventTypes : f.words \cap Aliases[t] # {}}

\* derive_pattern_transfer_table: the patterns that fix a failure of a type.
TransferTable ==
    [t \in EventTypes |->
        {p.id : p \in {q \in FixPatterns :
            \E f \in Taxonomy : t \in FailureEventTypes(f) /\ f.id \in q.failures}}]

PatternRows(fs) ==
    {[pattern |-> p,
      types |-> {f.type : f \in {g \in fs : p \in TransferTable[g.type]}},
      robots |-> UNION {ToSet(f.robots) : f \in {g \in fs : p \in TransferTable[g.type]}}] :
        p \in UNION {TransferTable[f.type] : f \in fs}}
CrossRows(rows) == {row \in rows : Cardinality(row.robots) >= 2}
CrossFailures(fs) == {f \in fs : Len(f.robots) >= 2}

\* The gate of ingest_sim_logs: some evidence of reuse.
Accepted(fs) == CrossRows(PatternRows(fs)) # {} \/ CrossFailures(fs) # {}

(* ----------------------- robot descriptions (urdf) ----------------------- *)

Overridden(doc, joint, what, own) ==
    IF joint.name \in DOMAIN doc.overrides /\ doc.overrides[joint.name][what] # Nothing
    THEN doc.overrides[joint.name][what] ELSE own

\* A position override fills the bounds the description leaves out, those of
\* velocity and effort replace them.
Bound(doc, joint, own, sign) ==
    IF own # Nothing \/ Overridden(doc, joint, "position", Nothing) = Nothing THEN own
    ELSE sign * Overridden(doc, joint, "position", Nothing)

JointConstraints(doc, joint) ==
    LET id == <<Lower(doc.robot), Lower(joint.name)>>
        low == Bound(doc, joint, joint.lower, -1)
        high == Bound(doc, joint, joint.upper, 1)
        Cap(what) == Overridden(doc, joint, what, joint[what])
    IN  {[id |-> Append(id, "position"), cap |-> <<low, high>>] :
            x \in {y \in {1} : low # Nothing /\ high # Nothing}} \cup
        {[id |-> Append(id, what), cap |-> Cap(what)] :
            what \in {w \in {"velocity", "effort"} : Cap(w) # Nothing}}

UrdfConstraints(doc) ==
    UNION {JointConstraints(doc, doc.joints[i]) :
             i \in {j \in DOMAIN doc.joints : doc.joints[j].type # "fixed"}}

\* The kind of robot: by a word of its name, else by its joints that turn.
NameWords ==
    << <<{"ur5", "kuka", "xarm", "arm"}, "manipulator">>,
       <<{"go2", "spot", "quadruped", "anymal"}, "quadruped">>,
       <<{"g1", "h1", "humanoid", "atlas"}, "humanoid">>,
       <<{"turtlebot", "wheel", "kiwi"}, "wheeled_robot">>,
       <<{"quadrotor", "drone", "uav"}, "uav">> >>
EmbodimentType(doc) ==
    LET fitting == SelectSeq(NameWords, LAMBDA w : w[1] \cap doc.words # {})
        turning == {i \in DOMAIN doc.joints : doc.joints[i].type \in {"revolute", "continuous"}}
    IN  IF fitting # << >> THEN Head(fitting)[2]
        ELSE IF Cardinality(turning) >= 5 THEN "manipulator" ELSE "wheeled_robot"

\* The card of the robot states the limits of its own description.
CardOf(doc) ==
    [robot |-> doc.robot, type |-> EmbodimentType(doc),
     actuators |-> {doc.joints[i].name :
                      i \in {j \in DOMAIN doc.joints : doc.joints[j].type # "fixed"}},
     ranges |-> {<<doc.joints[i].name, doc.joints[i].lower, doc.joints[i].upper>> :
                   i \in {j \in DOMAIN doc.joints : /\ doc.joints[j].lower # Nothing
                                                    /\ doc.joints[j].upper # Nothing}}]

(* ------------------------------- evidence -------------------------------- *)

\* An event becomes evidence if it names its run and task and has a score
\* before; fields of no known value get their defaults.
Default(x, values, d) == IF x \in values THEN x ELSE d
IsRun(e) == e.run # Nothing /\ e.task # Nothing /\ e.pre # Nothing
Trace(e) ==
    [run |-> e.run, task |-> e.task, pattern |-> e.pattern,
     arm |-> Default(e.arm, {"baseline", "true", "placebo", "shuffled"}, "true"),
     delta |-> e.delta]

\* The group of a trace: its pattern, or its task where it has none.
GroupKey(t) == IF t.pattern # Nothing THEN <<"pattern", t.pattern>> ELSE <<"task", t.task>>
GroupOf(ts, k) ==
    {i \in DOMAIN ts : ts[i].pattern \notin KnownPatterns /\ GroupKey(ts[i]) = k}
ArmOf(ts, k, arm) == {i \in GroupOf(ts, k) : ts[i].arm = arm /\ ts[i].delta # Nothing}
Total(ts, places) == MapThenSumSet(LAMBDA i : ts[i].delta, places)

\* The means differ by the threshold (both times both counts).
AdjustedReaches(ts, true, placebo) ==
    /\ true # {} /\ placebo # {}
    /\ Total(ts, true) * Cardinality(placebo) - Total(ts, placebo) * Cardinality(true)
          >= PromoteUplift * Cardinality(true) * Cardinality(placebo)

MinedFromTraces(ts) ==
    LET Ripe(k) == /\ Cardinality(GroupOf(ts, k)) >= MinTraceCount
                   /\ AdjustedReaches(ts, ArmOf(ts, k, "true"), ArmOf(ts, k, "placebo"))
        unknown == {i \in DOMAIN ts : ts[i].pattern \notin KnownPatterns}
    IN  {[name |-> Lower(k[2]), key |-> k, evidence |-> Cardinality(GroupOf(ts, k))] :
            k \in {j \in {GroupKey(ts[i]) : i \in unknown} : Ripe(j)}}

(* -------------------------------- actions -------------------------------- *)

RobotInit ==
    /\ rank = 1 /\ seen = << >> /\ buckets = << >> /\ constraints = {} /\ embodiments = {}
    /\ report = << >> /\ robotTraces = << >> /\ robotCandidates = {}

\* The mapper takes the events when all are read; it works through them one by
\* one, as they come.
ReadRow(r) ==
    /\ report = << >>
    /\ Len(seen) < MaxRows
    /\ Rank[r.format] >= rank
    /\ rank' = Rank[r.format]
    /\ seen' = seen \o EventsOf(r)
    /\ buckets' = FoldLeft(Ingested, buckets, EventsOf(r))
    /\ UNCHANGED <<constraints, embodiments, report, robotTraces, robotCandidates>>

ProcessUrdf(doc) ==
    /\ report = << >>
    /\ constraints' = constraints \cup UrdfConstraints(doc)
    /\ embodiments' = embodiments \cup {CardOf(doc)}
    /\ rank' = 5
    /\ UNCHANGED <<seen, buckets, report, robotTraces, robotCandidates>>

ReportSummary ==
    /\ report = << >>
    /\ seen # << >> \/ constraints # {}
    /\ LET fs == Emitted(buckets)
       IN  report' = <<[events |-> Len(seen), failures |-> fs, rows |-> PatternRows(fs),
                        passed |-> Accepted(fs)]>>
    /\ UNCHANGED <<rank, seen, buckets, constraints, embodiments, robotTraces, robotCandidates>>

\* ingest_robot_evidence reads an event; the miner works on what there is.
ReadTaskEvent(e) ==
    /\ Len(robotTraces) < MaxTaskEvents
    /\ robotTraces' = IF IsRun(e) THEN Append(robotTraces, Trace(e)) ELSE robotTraces
    /\ UNCHANGED <<rank, seen, buckets, constraints, embodiments, report, robotCandidates>>

ExtractCandidates ==
    /\ robotCandidates' = MinedFromTraces(robotTraces)
    /\ UNCHANGED <<rank, seen, buckets, constraints, embodiments, report, robotTraces>>

\* The two scripts, of different files.
RobotLogNext ==
    \/ \E r \in Rows : ReadRow(r)
    \/ \E doc \in Urdfs : ProcessUrdf(doc)
    \/ ReportSummary
RobotEvidenceNext ==
    \/ \E e \in TaskEvents : ReadTaskEvent(e)
    \/ ExtractCandidates
RobotNext == RobotLogNext \/ RobotEvidenceNext

RobotSpec == RobotInit /\ [][RobotNext]_robot_vars

(* ------------------------------ properties ------------------------------- *)

Robots == {r.robot : r \in Rows}

\* Every variable has its type.
RobotTypeOK ==
    /\ rank \in 1..5
    /\ \A i \in DOMAIN seen :
          /\ seen[i].type \in EventTypes /\ seen[i].robot \in Robots
          /\ seen[i].sev \in Info..Critical /\ Len(seen[i].fp) \in 1..3
    /\ \A i \in DOMAIN buckets :
          /\ buckets[i].first = Head(buckets[i].events)
          /\ Len(buckets[i].signals) = Len(buckets[i].events)
    /\ \A c \in constraints : Last(c.id) \in {"position", "velocity", "effort"}
    /\ Len(report) <= 1
    /\ Len(robotTraces) <= MaxTaskEvents
    /\ \A c \in robotCandidates : c.evidence \in Nat

\* What ingest_sim_logs reports is what the logs held: one failure for every
\* kind of event, which counts each event of that kind once, has the severity
\* of the worst, names exactly the robots it happened on, and an identifier
\* that no failure of another type has; and the gate of reuse is passed exactly
\* if two robots share a kind of event or failures that one pattern fixes.
SummaryOfSeen ==
    report # << >> =>
        LET fs == report[1].failures
            Same(e, f) == e.type = f.type /\ e.fp = f.fp
        IN  /\ \A e \in ToSet(seen) : Cardinality({f \in fs : Same(e, f)}) = 1
            /\ \A f \in fs :
                  LET mine == {n \in DOMAIN seen : Same(seen[n], f)}
                  IN  /\ f.count = Cardinality(mine)
                      /\ f.sev = Max({seen[n].sev : n \in mine})
                      /\ ToSet(f.robots) = {seen[n].robot : n \in mine}
                      /\ Len(f.robots) = Cardinality(ToSet(f.robots))
            /\ \A f, g \in fs : f.id = g.id => f.type = g.type
            /\ report[1].passed <=>
                  \E d, e \in ToSet(seen) :
                     /\ d.robot # e.robot
                     /\ Same(d, e) \/ \E p, q \in FixPatterns, f, g \in Taxonomy :
                           /\ p.id = q.id /\ f.id \in p.failures /\ g.id \in q.failures
                           /\ d.type \in FailureEventTypes(f)
                           /\ e.type \in FailureEventTypes(g)

\* The range a robot's card states for an actuator is the range its constraint
\* enforces, whatever the controller file says: an override fills in a missing
\* bound, it never moves one.
PositionsAsDeclared ==
    \A card \in embodiments : \A r \in card.ranges :
        r[1] \in card.actuators =>
            LET id == <<Lower(card.robot), Lower(r[1]), "position">>
            IN  {c.cap : c \in {d \in constraints : d.id = id}} = {<<r[2], r[3]>>}

\* A pattern mined from robots is not one of the catalog, and was measured with
\* the true hint and with a placebo.
CandidatesOfBothArms ==
    \A c \in robotCandidates :
        /\ c.key[1] = "pattern" => c.key[2] \notin KnownPatterns
        /\ \A arm \in {"true", "placebo"} :
              \E t \in ToSet(robotTraces) :
                 GroupKey(t) = c.key /\ t.arm = arm /\ t.delta # Nothing

RobotFindingsHold == SummaryOfSeen /\ PositionsAsDeclared /\ CandidatesOfBothArms
=============================================================================
