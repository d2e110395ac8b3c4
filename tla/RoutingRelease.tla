--------------------------- MODULE RoutingRelease ---------------------------
(***************************************************************************)
(* How the bridge reaches the HOW server and how a release is frozen:      *)
(* publish_to_how.py links or copies the assets into HOW's tree behind a   *)
(* coverage gate, HOW loads them when it starts, verify_routing_panel.py   *)
(* probes it, and freeze_bundle.py collects bridge, panel result, commits  *)
(* and hashes into data/frozen/<label>.  The assets keep changing, and     *)
(* every script may be killed between, and inside, its file operations.    *)
(*                                                                         *)
(* A file is known by what it was made from: the attempt that wrote it and *)
(* the version of the assets, or the verdict of the panel.                 *)
(***************************************************************************)
EXTENDS Integers, Sequences, FiniteSets

CONSTANTS
    Covered,       \* versions that pass _validate_topic_coverage
    MaxVersion,    \* bound on the versions of the assets
    MaxAttempts    \* bound on the freezes under one label

ASSUME ReleaseAssumption ==
    /\ MaxVersion \in Nat /\ MaxAttempts \in Nat
    /\ Covered \subseteq 0..MaxVersion

\* What freeze writes, in order; sha256sum.txt is written twice.
BundleFiles == {"bridge", "patterns", "health", "shas", "panel", "result", "policy", "manifest"}
Gone == <<>>

VARIABLES
    version,    \* of data/assets
    served,     \* HOW's data/assets: <<>>, <<"link">>, <<"copy", v>>, <<"partial">>
    loaded,     \* the version HOW serves, -1: it has no assets or is down
    bundle,     \* the files under the label
    sums,       \* sha256sum.txt: file -> content, for the files it lists
    freeze,     \* the running freeze: [at, health], at = 0 for none
    attempt     \* freezes started

release_vars == <<version, served, loaded, bundle, sums, freeze, attempt>>

NoSums == [f \in {} |-> Gone]
NoBundle == [f \in BundleFiles |-> Gone]
Idle == [at |-> 0, health |-> -1]

-----------------------------------------------------------------------------
(* The panel.                                                               *)

\* An entry of the panel, and the answer of HOW to it.
Entries == [expects : BOOLEAN, abstains : BOOLEAN, forbids : BOOLEAN]
Answers == [strategy : {"CATALYST", "SAFETY", "FREE_EXPLORATION"},
            injected : BOOLEAN, top : {"expected", "forbidden", "other", "none"}]

\* _probe, of an entry that names its patterns: a forbidden one fails whether
\* it was injected or not; what is not injected counts as abstaining.
ProbePasses(e, a) ==
    /\ ~(e.forbids /\ a.top = "forbidden")
    /\ \/ e.expects /\ a.top = "expected"
       \/ e.abstains /\ (~a.injected \/ a.strategy = "FREE_EXPLORATION")

\* The answers for which an entry passes, fails; the panel passes if all do.
Verdicts(e) == {ProbePasses(e, a) : a \in Answers}
PanelVerdicts == UNION {Verdicts(e) : e \in {x \in Entries : x.expects \/ x.abstains}}

\* _check_health of the panel and the gate of freeze.
Healthy == loaded # -1

-----------------------------------------------------------------------------

ReleaseTypeOK ==
    /\ version \in 0..MaxVersion /\ attempt \in 0..MaxAttempts
    /\ served \in {<<>>, <<"link">>, <<"partial">>} \cup {<<"copy", v>> : v \in 0..MaxVersion}
    /\ loaded \in -1..MaxVersion
    /\ DOMAIN bundle = BundleFiles /\ DOMAIN sums \subseteq BundleFiles
    /\ freeze \in [at : 0..7, health : -1..MaxVersion]

ReleaseInit ==
    /\ version = 0 /\ served = <<>> /\ loaded = -1
    /\ bundle = NoBundle /\ sums = NoSums /\ freeze = Idle /\ attempt = 0

\* Any of the scripts that write the bridge.
AssetsChanged ==
    /\ version < MaxVersion /\ version' = version + 1
    /\ UNCHANGED <<served, loaded, bundle, sums, freeze, attempt>>

\* _validate_topic_coverage, before either mode.
TopicsCovered == version \in Covered

\* publish_symlink, publish_copy.
Published(mode) ==
    /\ TopicsCovered
    /\ served' = IF mode = "link" THEN <<"link">> ELSE <<"copy", version>>
    /\ UNCHANGED <<version, loaded, bundle, sums, freeze, attempt>>

\* The copy is killed after the old tree was removed.
PublishKilled ==
    /\ TopicsCovered
    /\ served' \in {<<>>, <<"partial">>}
    /\ UNCHANGED <<version, loaded, bundle, sums, freeze, attempt>>

\* HOW starts, or fails to: what it loads is what it finds.
HowRestarted ==
    /\ loaded' = CASE served = <<"link">> -> version
                   [] Len(served) = 2 -> served[2]
                   [] OTHER -> -1
    /\ UNCHANGED <<version, served, bundle, sums, freeze, attempt>>

Wrote(fs, content) == bundle' = [f \in BundleFiles |-> IF f \in fs THEN content ELSE bundle[f]]

\* freeze, up to the new directory; --force removes the old one.
FreezeStarted(force) ==
    /\ freeze = Idle /\ attempt < MaxAttempts /\ Healthy
    /\ force \/ (bundle = NoBundle /\ sums = NoSums)
    /\ freeze' = [at |-> 1, health |-> loaded] /\ attempt' = attempt + 1
    /\ bundle' = NoBundle /\ sums' = NoSums
    /\ UNCHANGED <<version, served, loaded>>

\* rmtree is killed: any of the files are left.
RemovalKilled ==
    /\ freeze = Idle /\ attempt < MaxAttempts /\ Healthy
    /\ \E left \in SUBSET BundleFiles :
         bundle' = [f \in BundleFiles |-> IF f \in left THEN bundle[f] ELSE Gone]
    /\ sums' \in {sums, NoSums}
    /\ attempt' = attempt + 1
    /\ UNCHANGED <<version, served, loaded, freeze>>

AssetsFrozen ==
    /\ freeze.at = 1
    /\ Wrote({"bridge", "patterns"}, <<attempt, version>>)
    /\ freeze' = [freeze EXCEPT !.at = 2]
    /\ UNCHANGED <<version, served, loaded, sums, attempt>>

RecordsFrozen ==
    /\ freeze.at = 2
    /\ Wrote({"health", "shas", "panel"}, <<attempt, freeze.health>>)
    /\ freeze' = [freeze EXCEPT !.at = 3]
    /\ UNCHANGED <<version, served, loaded, sums, attempt>>

\* _run_panel: the report is written, and the freeze refuses unless all passed.
\* A HOW that went away refuses without a report.
PanelRun ==
    /\ freeze.at = 3
    /\ \E passed \in PanelVerdicts :
         IF Healthy
         THEN /\ Wrote({"result"}, <<attempt, passed>>)
              /\ freeze' = IF passed THEN [freeze EXCEPT !.at = 4] ELSE Idle
         ELSE bundle' = bundle /\ freeze' = Idle
    /\ UNCHANGED <<version, served, loaded, sums, attempt>>

PolicyFrozen ==
    /\ freeze.at = 4
    /\ Wrote({"policy"}, <<attempt, freeze.health>>)
    /\ freeze' = [freeze EXCEPT !.at = 5]
    /\ UNCHANGED <<version, served, loaded, sums, attempt>>

\* Mutant of Present: what a walk that skips the panel result would list.
PresentUnproven == {f \in BundleFiles \ {"result"} : bundle[f] # Gone}

\* _walk_bundle.
Present == {f \in BundleFiles : bundle[f] # Gone}

\* The sums are written before the manifest, and again after it.
SumsWritten ==
    /\ freeze.at \in {5, 7}
    /\ sums' = [f \in Present |-> bundle[f]]
    /\ freeze' = IF freeze.at = 7 THEN Idle ELSE [freeze EXCEPT !.at = 6]
    /\ UNCHANGED <<version, served, loaded, bundle, attempt>>

\* The counts are those of the assets, read again.
ManifestWritten ==
    /\ freeze.at = 6
    /\ Wrote({"manifest"}, <<attempt, version>>)
    /\ freeze' = [freeze EXCEPT !.at = 7]
    /\ UNCHANGED <<version, served, loaded, sums, attempt>>

FreezeKilled ==
    /\ freeze # Idle
    /\ freeze' = Idle
    /\ UNCHANGED <<version, served, loaded, bundle, sums, attempt>>

ReleaseNext ==
    \/ AssetsChanged \/ PublishKilled \/ HowRestarted
    \/ \E mode \in {"link", "copy"} : Published(mode)
    \/ \E force \in BOOLEAN : FreezeStarted(force)
    \/ RemovalKilled \/ AssetsFrozen \/ RecordsFrozen \/ PanelRun \/ PolicyFrozen
    \/ SumsWritten \/ ManifestWritten \/ FreezeKilled

ReleaseSpec == ReleaseInit /\ [][ReleaseNext]_release_vars

-----------------------------------------------------------------------------
(* Properties.                                                              *)

\* sha256sum -c finds nothing wrong, and the manifest is among what it checks.
Verifies == "manifest" \in DOMAIN sums /\ \A f \in DOMAIN sums : bundle[f] = sums[f]

\* The integrity check is sound: whatever was killed, refused or overwritten, a
\* bundle that verifies is complete, all of it is of one freeze, its panel
\* passed and HOW had assets when it began.
VerifiedIsWhole ==
    Verifies =>
        /\ \A f \in BundleFiles : bundle[f] # Gone
        /\ \A f, g \in BundleFiles : bundle[f][1] = bundle[g][1]
        /\ bundle["result"][2] /\ bundle["health"][2] # -1
=============================================================================
