---------------------------- MODULE MCLegacyImport -----------------------------
(* LegacyImport for TLC: two releases of a store that share a unit, the first *)
(* of them again as a plain bridge, bridges whose names collide, and clients  *)
(* that write each table, again, changed, or before what it refers to.        *)
EXTENDS LegacyImport

MCWords == 1 :> <<"wheel", "slips">> @@ 2 :> <<"arm", "stalls">> @@ 3 :> <<"wheel", "stalls">> @@
           4 :> <<"slips", "wheel">>

ReleasedUnit(key, text) == [key |-> key, text |-> text]
Cluster(key, safe, named, text, patterns) ==
    [key |-> key, safe |-> safe, named |-> named, text |-> text, patterns |-> patterns]
BridgeOf(hash, origin, clusters, files) ==
    [hash |-> hash, origin |-> origin, sound |-> TRUE, damaged |-> FALSE, clusters |-> clusters,
     files |-> files]
PatternFile(stem, alias, hash) == [stem |-> stem, alias |-> alias, hash |-> hash]
FirstRelease == RenderedRelease(1, <<ReleasedUnit(1, 1), ReleasedUnit(2, 2)>>)
MCBundles ==
    <<FirstRelease,
      RenderedRelease(2, <<ReleasedUnit(1, 1), ReleasedUnit(3, 3)>>),
      [FirstRelease EXCEPT !.origin = 1],
      BridgeOf(4, 1, <<Cluster(5, 5, TRUE, 1, << >>), Cluster(6, 5, TRUE, 2, << >>)>>, << >>),
      BridgeOf(5, 1, <<Cluster(7, 7, FALSE, 1, << >>), Cluster(8, 8, TRUE, 3, <<80, 99>>)>>,
               <<PatternFile(8, 80, 38), PatternFile(9, 9, 39)>>),
      BridgeOf(6, 1, <<Cluster(8, 8, TRUE, 3, <<8, 80>>)>>, <<PatternFile(8, 80, 38)>>),
      [FirstRelease EXCEPT !.damaged = TRUE],
      [FirstRelease EXCEPT !.sound = FALSE]>>

PinnedId == <<9, 1>>
Embedded(f, v) == [g \in VectorFields |-> IF g = f THEN v ELSE NoVector]
UnitRow(id, text, status, vectors, ros) ==
    [id |-> id, text |-> text, type |-> "failure_lesson", status |-> status, snapshots |-> {PinnedId},
     evidence |-> {<<9, 3>>}, robots |-> {"g1"}, ros |-> ros, simulator |-> "", vectors |-> vectors]
TheUnit == UnitRow(<<9, 4>>, 1, "draft", Embedded("problem", 1), "humble")
ClaimRow(id, unit) ==
    [id |-> id, subject |-> 1, snapshots |-> {PinnedId}, evidence |-> {<<9, 3>>}, unit |-> unit,
     status |-> "active"]
SourceRow == [id |-> <<9, 0>>, url |-> <<9, 9>>, latest |-> PinnedId]
SnapshotRow == [id |-> PinnedId, source |-> <<9, 0>>, version |-> <<9, 1>>]
DocumentRow == [id |-> <<9, 2>>, snapshot |-> PinnedId, path |-> 1, title |-> 1, origin |-> 0]
EvidenceRow == [id |-> <<9, 3>>, snapshot |-> PinnedId, document |-> <<9, 2>>, says |-> <<1, 0>>]
FeedbackRow(verdict) == [id |-> <<9, 5>>, verdict |-> verdict, at |-> 1]
RelationRow(id, confidence) ==
    [id |-> id, from |-> <<9, 4>>, to |-> <<9, 6>>, confidence |-> confidence, evidence |-> <<9, 3>>]

MCStartingStores ==
    <<<< >>,
      <<CallTo("sources", SourceRow), CallTo("snapshots", SnapshotRow), CallTo("documents", DocumentRow),
        CallTo("evidence", EvidenceRow), CallTo("units", TheUnit),
        CallTo("feedback", [FeedbackRow("useful") EXCEPT !.id = <<9, 7>>])>>>>

MCClientWrites ==
    <<<<CallTo("units", [TheUnit EXCEPT !.vectors = Embedded("problem", 2)])>>,
      <<CallTo("units", [TheUnit EXCEPT !.status = "verified"]),
        CallTo("relations", RelationRow(<<9, 1>>, 5)),
        CallTo("relations", RelationRow(<<9, 2>>, 9))>>,
      <<CallTo("units", [TheUnit EXCEPT !.text = 4, !.vectors = Embedded("code", 1), !.ros = "jazzy"])>>,
      <<CallTo("claims", ClaimRow(<<9, 1>>, <<9, 4>>)), CallTo("claims", ClaimRow(<<9, 2>>, << >>)),
        CallTo("disagreements", [id |-> <<9, 1>>, claims |-> {<<9, 1>>, <<9, 2>>},
                                 status |-> "pending_review", at |-> 1])>>,
      <<CallTo("claims", ClaimRow(<<9, 3>>, <<9, 9>>))>>,
      <<CallTo("pages", [id |-> <<9, 1>>, snapshot |-> PinnedId, project |-> 1, order |-> 2]),
        CallTo("pages", [id |-> <<9, 2>>, snapshot |-> PinnedId, project |-> 1, order |-> 1]),
        CallTo("cards", [id |-> <<9, 1>>, snapshot |-> PinnedId]),
        CallTo("components", [id |-> <<9, 1>>, snapshot |-> PinnedId])>>,
      <<CallTo("packs", [id |-> <<9, 1>>]), CallTo("documents", [DocumentRow EXCEPT !.title = 2])>>,
      <<CallTo("feedback", FeedbackRow("stale"))>>,
      <<CallTo("feedback", FeedbackRow("useful"))>>,
      <<CallTo("governance", [id |-> <<9, 5>>, decision |-> "apply"])>>,
      <<CallTo("versions", [id |-> <<9, 1>>, at |-> 3])>>,
      <<CallTo("snapshots", [SnapshotRow EXCEPT !.id = <<9, 8>>])>>,
      <<CallTo("documents", [DocumentRow EXCEPT !.id = <<9, 8>>, !.snapshot = <<0, 2>>])>>>>

MCSearches ==
    {[query |-> <<"wheel", "slips">>, vectors |-> [problem |-> 1], filters |-> NoFilter, limit |-> 9],
     [query |-> <<"stalls">>, vectors |-> [problem |-> 2, code |-> 1],
      filters |-> [NoFilter EXCEPT !.status = {"draft"}, !.ros = "humble"], limit |-> 2],
     [query |-> << >>, vectors |-> << >>,
      filters |-> [NoFilter EXCEPT !.types = {"failure_lesson"}], limit |-> 1]}
=============================================================================
