---------------------------- MODULE MCRobotEvents ----------------------------
(* RobotEvents for TLC: rows of every topic, tag, kind and category, two      *)
(* robots, a fingerprint in both cases, one description with and one without  *)
(* bounds of its own, evidence on a new, a known and no pattern.              *)
EXTENDS RobotEvents

Hit(a, force) == [a |-> a, b |-> "table", force |-> force]
MCRows == {
  [format |-> "rosbag", topic |-> "contacts", robot |-> "ur5",
   contacts |-> <<Hit("gripper", 3), Hit("arm", 90)>>],
  [format |-> "rosbag", topic |-> "contacts", robot |-> "ur5", contacts |-> <<Hit("arm", 3)>>],
  [format |-> "rosbag", topic |-> "joint_states", robot |-> "ur5", flagged |-> <<"Elbow", "wrist">>],
  [format |-> "rosbag", topic |-> "e_stop", robot |-> "ur5", pressed |-> TRUE],
  [format |-> "rosbag", topic |-> "controller_state", robot |-> "rover", name |-> "pid", status |-> "windup"],
  [format |-> "rosbag", topic |-> "sensor_alert", robot |-> "rover", name |-> "imu", status |-> "imu_spike"],
  [format |-> "rosbag", topic |-> "trajectory_status", robot |-> "ur5", goal |-> "goal",
   error |-> 7, tolerance |-> 5],
  [format |-> "rosbag", topic |-> "task_status", robot |-> "ur5", name |-> "timeout", status |-> "timeout"],
  [format |-> "mujoco", robot |-> "ur5", contacts |-> <<Hit("arm", 2), Hit("arm", 60)>>,
   tags |-> << >>, goal |-> "goal", error |-> 0, tolerance |-> 5],
  [format |-> "mujoco", robot |-> "rover", contacts |-> << >>,
   tags |-> <<[what |-> "joint_limit", name |-> "Elbow"], [what |-> "imu_spike", name |-> "imu"],
              [what |-> "nan_in_ctrl", name |-> ""], [what |-> "reset", name |-> ""]>>,
   goal |-> "goal", error |-> 6, tolerance |-> 5],
  [format |-> "mujoco", robot |-> "rover", contacts |-> << >>,
   tags |-> <<[what |-> "rollout_timeout", name |-> ""], [what |-> "actuator_limit", name |-> "3"]>>,
   goal |-> "goal", error |-> 0, tolerance |-> 5],
  [format |-> "isaac", robot |-> "rover", events |-> <<[kind |-> "collision", a |-> "arm",
                                                        b |-> "table", reason |-> "", sev |-> Info],
         [kind |-> "task_failed", a |-> "pick", b |-> "", reason |-> "crash", sev |-> -1],
         [kind |-> "unheard_of", a |-> "", b |-> "", reason |-> "", sev |-> -1]>>],
  [format |-> "isaac", robot |-> "ur5", events |-> <<[kind |-> "joint_limit", a |-> "elbow",
                                                      b |-> "", reason |-> "", sev |-> Warning],
         [kind |-> "task_failed", a |-> "pick", b |-> "", reason |-> "timeout", sev |-> -1]>>],
  [format |-> "foxglove", robot |-> "rover", category |-> "collision", a |-> "arm", b |-> "",
   sev |-> Critical, label |-> ""],
  [format |-> "foxglove", robot |-> "rover", category |-> "task_timeout", a |-> "", b |-> "",
   sev |-> -1, label |-> "Late"],
  [format |-> "foxglove", robot |-> "rover", category |-> "remark", a |-> "", b |-> "", sev |-> -1,
   label |-> "Late"] }
MCLowerOf == [Elbow |-> "elbow", Late |-> "late", UR5 |-> "ur5"]
MCDomainOf == [ur5 |-> "Control_Locomotion"]
MCTaxonomy == {[id |-> "f1", words |-> {"joint", "saturation"}], [id |-> "f2", words |-> {"windup", "pid"}],
               [id |-> "f3", words |-> {"cache"}]}
MCFixPatterns == {[id |-> "anti_windup", failures |-> {"f1", "f2"}], [id |-> "evict", failures |-> {"f3"}]}
Joint(n, t, lo, hi, v) == [name |-> n, type |-> t, lower |-> lo, upper |-> hi, velocity |-> v,
                           effort |-> Nothing]
MCUrdfs == {[robot |-> "UR5", words |-> {"ur5"},
             joints |-> <<Joint("Elbow", "revolute", -2, 2, 3), Joint("base", "fixed", 0, 0, 1)>>,
             overrides |-> [Elbow |-> [position |-> 4, velocity |-> 5, effort |-> 1]]],
            [robot |-> "rover", words |-> {"rover"},
             joints |-> <<Joint("wheel", "continuous", Nothing, Nothing, 3),
                                             Joint("mast", "revolute", Nothing, 1, 3)>>,
             overrides |-> [mast |-> [position |-> 4, velocity |-> Nothing, effort |-> Nothing]]]}
TE(p, arm, d) == [run |-> "r", task |-> "pick", pre |-> 0, pattern |-> p, arm |-> arm, delta |-> d]
MCTaskEvents == {TE(p, a, d) : p \in {"new", "old", Nothing}, a \in {"true", "placebo"}, d \in {1, 4}} \cup
   {TE("new", "other", Nothing), [TE("new", "true", 4) EXCEPT !.pre = Nothing]}
=============================================================================
