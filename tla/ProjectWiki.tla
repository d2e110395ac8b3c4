----------------------------- MODULE ProjectWiki -----------------------------
(* What the wiki compiler (wiki/compiler.py, wiki/knowledge_units.py) and the *)
(* claim compiler (claims.py) make of the documents of one snapshot of a      *)
(* repository: the inventory, the components, the pages with their evidence,  *)
(* the knowledge units and the claims.  Static functions of the documents;    *)
(* SourceCollection stores their results.                                     *)
(*                                                                            *)
(* A path is the sequence of its names, a text the sequence of its lines, a   *)
(* line the set of the words the compilers look for.  A hash is the content   *)
(* hashed: the revision of a text, a tuple, or the documents of a component.  *)
EXTENDS Integers, FiniteSets, Sequences, SequencesExt, FiniteSetsExt

CONSTANTS
    NameWords,    \* [names -> sets of words]: the words that occur in a name
    PathRank,     \* [paths -> Nat]: the order of paths as strings
    Steers,       \* [revisions -> what .rosclaw/know.yaml says at that one]
    SymbolNames   \* the names a class or a function of a repository can have

Listing(s) == s \in Seq(ToSet(s))
Paths == DOMAIN PathRank
ASSUME WikiAssumption ==
    /\ \A p \in Paths : PathRank[p] \in Nat /\ Listing(p)
    /\ {<<"repository_metadata.json">>, <<".rosclaw", "repo_facts.json">>} \subseteq Paths

\* tuples of integers as Python compares them
TupleLess(s, t) ==
    \E i \in DOMAIN s : s[i] < t[i] /\ \A j \in 1..(i - 1) : s[j] = t[j]
Ahead(keys, i, j) == TupleLess(keys[i], keys[j]) \/ (keys[i] = keys[j] /\ i < j)
\* The entries of seq at the indices `at`, as sorted() orders them by their keys:
\* entries with one key keep their order.
Sorted(seq, at, keys) ==
    LET place == [i \in at |-> Cardinality({j \in at : Ahead(keys, j, i)}) + 1] IN
    [n \in 1..Cardinality(at) |-> seq[CHOOSE i \in at : place[i] = n]]
Those(seq, at) == Sorted(seq, at, [i \in at |-> << >>])

Says(doc) == UNION {doc.lines[i] : i \in DOMAIN doc.lines}
SaysAny(docs) == UNION {Says(docs[i]) : i \in DOMAIN docs}
InPath(path, words) == \E i \in DOMAIN path : NameWords[path[i]] \cap words # {}
InName(path, words) == NameWords[Last(path)] \cap words # {}
Under(path, roots) == Len(path) > 1 /\ Head(path) \in roots
PathsOf(docs) == {docs[i].path : i \in DOMAIN docs}

SteerPath == <<".rosclaw", "know.yaml">>
MetadataPath == <<"repository_metadata.json">>
FactsPath == <<".rosclaw", "repo_facts.json">>

\* A file that does not parse, or of another schema, is ignored with a warning.
Steering(docs) ==
    IF SteerPath \notin PathsOf(docs) THEN [exclude |-> {}, priority |-> {}, warns |-> FALSE]
    ELSE LET said == Steers[SelectSeq(docs, LAMBDA d : d.path = SteerPath)[1].rev[1]] IN
         IF said.kind # "v1" THEN [exclude |-> {}, priority |-> {}, warns |-> TRUE]
         ELSE [exclude |-> said.exclude, priority |-> said.priority, warns |-> FALSE]

Steered(docs, steer) ==
    LET kept == {i \in DOMAIN docs : docs[i].path \notin steer.exclude} IN
    Sorted(docs, kept, [i \in kept |-> <<IF docs[i].path \in steer.priority THEN 0 ELSE 1,
                                        PathRank[docs[i].path]>>])

FrameworkOf == [isaac_lab |-> "isaac_lab", isaac_sim |-> "isaac_sim", mujoco |-> "mujoco",
                gazebo |-> "gazebo", torch |-> "pytorch", pytorch |-> "pytorch"]
SimulatorNames == {"isaac_lab", "isaac_sim", "mujoco", "gazebo"}
RobotMarkers == {"unitree_g1", "unitree_h1", "humanoid", "quadruped"}
RosDistros == {"noetic", "foxy", "galactic", "humble", "iron", "jazzy"}
BuildFiles == {"pyproject", "setup", "cmakelists", "package_xml", "cargo", "package_json"}

\* A Python file that does not parse has no structure; other languages are
\* read line by line and give names only.
PythonStructure(doc) ==
    IF "syntax_error" \in Says(doc) THEN [symbols |-> {}, entry |-> FALSE]
    ELSE [symbols |-> Says(doc) \cap SymbolNames, entry |-> "__main__" \in Says(doc)]
GenericStructure(doc) == [symbols |-> Says(doc) \cap SymbolNames, entry |-> FALSE]

\* The rows (issues, releases, pull requests) of an endpoint document.
RowsOf(docs, name) ==
    FlattenSeq([i \in DOMAIN docs |->
        IF docs[i].path[1] = ".rosclaw" /\ InName(docs[i].path, {name})
        THEN SelectSeq(docs[i].lines, LAMBDA line : "row" \in line) ELSE << >>])

Inventory(docs) ==
    LET said == SaysAny(docs)
        frameworks == {FrameworkOf[w] : w \in said \cap DOMAIN FrameworkOf}
        python == {i \in DOMAIN docs : docs[i].language = "python"} IN
    [paths       |-> PathsOf(docs),
     languages   |-> {docs[i].language : i \in DOMAIN docs} \ {""},
     build       |-> UNION {NameWords[p[1]] \cap BuildFiles : p \in {q \in PathsOf(docs) : Len(q) = 1}},
     frameworks  |-> frameworks,
     simulators  |-> frameworks \cap SimulatorNames,
     robots      |-> said \cap RobotMarkers,
     distros     |-> said \cap RosDistros,
     unknowns    |-> (IF said \cap RobotMarkers = {} THEN {"robot"} ELSE {}) \cup
                     (IF frameworks \cap SimulatorNames = {} THEN {"simulator"} ELSE {}),
     container   |-> \E p \in PathsOf(docs) : InName(p, {"dockerfile"}),
     symbols     |-> UNION {PythonStructure(docs[i]).symbols : i \in python},
     entrypoints |-> {docs[i].path : i \in {j \in python : PythonStructure(docs[j]).entry}},
     rows        |-> RowsOf(docs, "issues") \o RowsOf(docs, "releases"),
     pulls       |-> RowsOf(docs, "pulls")]

\* A component is a root of the tree; what the acquisition added is none.
CodeIn(docs) ==
    {i \in DOMAIN docs : docs[i].path[1] # ".rosclaw" /\ docs[i].path # MetadataPath}
ComponentOf(project, snapshot, docs, root) ==
    LET items == {i \in CodeIn(docs) : docs[i].path[1] = root}
        Structure(d) == IF d.language = "python" THEN PythonStructure(d) ELSE GenericStructure(d) IN
    [project |-> project, snapshot |-> snapshot, root |-> root,
     type    |-> IF Cardinality(items) > 1 THEN "module" ELSE "file",
     symbols |-> UNION {Structure(docs[i]).symbols : i \in items},
     hash    |-> {<<docs[i].path, docs[i].rev>> : i \in items}]
Components(project, snapshot, docs) ==
    {ComponentOf(project, snapshot, docs, root) : root \in {docs[i].path[1] : i \in CodeIn(docs)}}

ExcerptLines == 12
Smaller(m, n) == IF m < n THEN m ELSE n
Larger(m, n) == IF m > n THEN m ELSE n

\* Evidence is a range of lines of one document of one snapshot.
EvidenceFor(doc) ==
    [document |-> doc.id, snapshot |-> doc.snapshot, path |-> doc.path, rev |-> doc.rev,
     from |-> 1, to |-> Larger(1, Smaller(ExcerptLines, Len(doc.lines)))]

\* The inventory as a document of the snapshot it is about.
FactsDocument(snapshot, inventory, components, docs) ==
    LET rev == <<inventory, {c.root : c \in components},
                 {<<docs[i].path, docs[i].rev>> : i \in DOMAIN docs}>> IN
    [id |-> <<snapshot, FactsPath, rev>>, snapshot |-> snapshot, path |-> FactsPath, rev |-> rev,
     type |-> "deterministic_fact_inventory", language |-> "json", bytes |-> 0,
     lines |-> <<{"facts"}, inventory.frameworks \cup inventory.robots \cup inventory.distros
                             \cup inventory.build \cup inventory.symbols>>]

\* A page shows the paths it is about; the overview the inventory as well.
PageText(type, docs, inventory) ==
    <<type, [i \in DOMAIN docs |-> docs[i].path],
      IF type = "overview"
      THEN <<inventory.languages, inventory.frameworks, inventory.robots, inventory.simulators,
             Cardinality(inventory.paths), Cardinality(inventory.symbols)>>
      ELSE << >> >>

ChangedPaths(docs, previous) ==
    LET Pairs(ds) == {<<ds[i].path, ds[i].rev>> : i \in DOMAIN ds} IN
    {pair[1] : pair \in (Pairs(docs) \ Pairs(previous)) \cup (Pairs(previous) \ Pairs(docs))}

PageTypes == <<"overview", "architecture", "training", "deployment", "robot_interface",
               "issues_and_releases", "configuration">>
\* _PAGE_RULES
OnPage(type, doc) ==
    CASE type = "overview" -> "readme" \in NameWords[Head(doc.path)] \/ doc.path = MetadataPath
      [] type = "architecture" -> Under(doc.path, {"src", "source"})
      [] type = "training" -> InPath(doc.path, {"train", "policy", "reward", "env"})
      [] type = "deployment" -> InPath(doc.path, {"deploy", "hardware", "docker"})
      [] type = "robot_interface" -> Says(doc) \cap {"topic", "service", "action_space", "urdf"} # {}
      [] type = "issues_and_releases" -> doc.path[1] = ".rosclaw" /\ doc.path[2] = "github"
      [] type = "configuration" -> InName(doc.path, {"yaml", "toml", "json"})

PageEvidence == 20
CardEvidence == 50

\* The overview is always there, of the first document when nothing fits it.
MatchedBy(type, docs) == Those(docs, {i \in DOMAIN docs : OnPage(type, docs[i])})
ShownOn(type, docs) == IF MatchedBy(type, docs) = << >> THEN <<docs[1]>> ELSE MatchedBy(type, docs)
CitedOn(type, docs) ==
    LET shown == ShownOn(type, docs) IN SubSeq(shown, 1, Smaller(PageEvidence, Len(shown)))
PageOf(project, snapshot, docs, inventory, k) ==
    LET shown == ShownOn(PageTypes[k], docs)
        cited == CitedOn(PageTypes[k], docs) IN
    [project |-> project, snapshot |-> snapshot, type |-> PageTypes[k], order |-> k - 1,
     text |-> PageText(PageTypes[k], shown, inventory),
     evidence |-> {EvidenceFor(cited[i]) : i \in DOMAIN cited},
     about |-> {shown[i].path : i \in DOMAIN shown}]
PagesOf(project, snapshot, docs, inventory) ==
    {PageOf(project, snapshot, docs, inventory, k) :
        k \in {j \in DOMAIN PageTypes :
                 PageTypes[j] = "overview" \/ MatchedBy(PageTypes[j], docs) # << >>}}

\* compile_project_wiki: what it raises, or the result it stores.
Compiled(source, snapshot, docs, previous) ==
    LET steer == Steering(docs)
        kept == Steered(docs, steer) IN
    IF docs = << >> \/ (\E i \in DOMAIN docs : docs[i].snapshot # snapshot) \/ kept = << >>
    THEN [raises |-> TRUE]
    ELSE LET project == source.page
             inventory == Inventory(kept)
             components == Components(project, snapshot, kept)
             facts == FactsDocument(snapshot, inventory, components, kept)
             pages == PagesOf(project, snapshot, kept, inventory)
             all == <<EvidenceFor(facts)>> \o [i \in DOMAIN kept |-> EvidenceFor(kept[i])] IN
         [raises |-> FALSE, documents |-> ToSet(kept) \cup {facts}, inventory |-> inventory,
          components |-> components, pages |-> pages, evidence |-> ToSet(all), order |-> all,
          changed |-> ChangedPaths(kept, previous), warns |-> steer.warns,
          rebuilt |-> {p.type : p \in {q \in pages :
                          q.about \cap ChangedPaths(kept, previous) # {}}},
          card |-> [project |-> project, snapshot |-> snapshot, robots |-> inventory.robots,
                    simulators |-> inventory.simulators, distros |-> inventory.distros,
                    components |-> {c.root : c \in components}, limits |-> inventory.unknowns,
                    cites |-> {all[i] : i \in 1..Smaller(CardEvidence, Len(all))}]]

UnitTypeOf(type) ==
    CASE type = "overview" -> "project_capability"
      [] type = "architecture" -> "design_pattern"
      [] type = "deployment" -> "integration_recipe"
      [] type = "robot_interface" -> "compatibility"
      [] type = "issues_and_releases" -> "failure_lesson"
      [] OTHER -> "implementation"

\* compile_knowledge_units: a unit per page, bound to the evidence of the page;
\* only a single distribution or simulator becomes a constraint of the unit.
UnitsOf(wiki) ==
    LET Only(S) == IF Cardinality(S) = 1 THEN S ELSE {} IN
    {[id |-> <<p.snapshot, p.type, p.text>>, type |-> UnitTypeOf(p.type), page |-> p.type,
      snapshot |-> wiki.card.snapshot, project |-> wiki.card.project,
      limits |-> wiki.card.limits \cup {"static"},
      needs |-> Only(wiki.card.distros) \cup Only(wiki.card.simulators),
      robots |-> wiki.card.robots, evidence |-> p.evidence] : p \in wiki.pages}

\* _focused_evidence: the first line, of the documents whose path fits first,
\* that has one of the terms, any line when there is no term; a pinned excerpt
\* when no line has one.
FocusedEvidence(wiki, stored, terms, fitting) ==
    LET order == wiki.order
        Lines(e) == {n \in 1..Len(stored[e.document].lines) :
                        terms = {} \/ stored[e.document].lines[n] \cap terms # {}}
        Leading(at) == Sorted(order, at, [i \in at |->
                        <<IF order[i].path \in fitting THEN 0 ELSE 1, PathRank[order[i].path]>>])[1]
        hits == {i \in DOMAIN order : order[i].document \in DOMAIN stored /\ Lines(order[i]) # {}} IN
    IF hits = {} THEN Leading(DOMAIN order)
    ELSE [Leading(hits) EXCEPT !.from = Min(Lines(Leading(hits))), !.to = Min(Lines(Leading(hits)))]

\* compile_claims: what each claim says of the project, the unit it belongs to,
\* and its evidence.  (The notes of releases are in ClaimGovernance.)
ClaimsOf(wiki, units, stored) ==
    LET UnitFor(type) == IF \E u \in units : u.page = type
                         THEN (CHOOSE u \in units : u.page = type).id
                         ELSE (CHOOSE u \in units : u.page = "overview").id
        Claim(type, predicate, about, object, evidence, inferred) ==
            [active |-> TRUE, unit |-> UnitFor(type), subject |-> <<wiki.card.project, about>>,
             snapshot |-> wiki.card.snapshot,
             predicate |-> predicate, object |-> object, evidence |-> evidence, inferred |-> inferred]
        paths == {wiki.order[i].path : i \in DOMAIN wiki.order}
        InComponent(c) ==
            Those(wiki.order, {i \in DOMAIN wiki.order : wiki.order[i].path[1] = c.root})[1]
        inventory == wiki.inventory
        markers == inventory.robots \cup inventory.simulators \cup inventory.distros \cup inventory.frameworks
        facts == {wiki.order[1]}
        build == {FocusedEvidence(wiki, stored, inventory.build, {p \in paths : InName(p, BuildFiles)})}
        row == Head(inventory.rows \o inventory.pulls \o <<{}>>) \ {"row"}
        title == Head(inventory.rows \o <<{}>>) \ {"row"}
        issue == {FocusedEvidence(wiki, stored, title,
                                  {p \in paths : InName(p, {"issues", "releases", "pulls"})})}
        compatible == {FocusedEvidence(wiki, stored, markers,
                                       {p \in paths : InPath(p, {"readme", "docs"})})}
    IN  {Claim("architecture", "contains_component", c.root, {c.root}, {InComponent(c)}, FALSE)
            : c \in wiki.components} \cup
        {Claim("architecture", "defines_symbols", c.root, c.symbols,
               {FocusedEvidence(wiki, stored, {CHOOSE s \in c.symbols : TRUE},
                                {p \in paths : p[1] = c.root})}, FALSE)
            : c \in {d \in wiki.components : d.symbols # {}}} \cup
        {Claim("overview", "indexed_component_paths", "", wiki.card.components, facts, FALSE),
         Claim("overview", "build_and_package_systems", "", inventory.build, build, FALSE),
         Claim("overview", "indexed_scope_limitation", "", wiki.card.limits, facts, TRUE),
         Claim("overview", "issue_release_or_pr", "", row, issue, inventory.rows \o inventory.pulls = << >>),
         Claim("overview", "compatibility_markers", "", markers, compatible, markers = {})} \cup
        {Claim(u.page, "documents", u.page, {u.page}, u.evidence, TRUE) : u \in units}

\* audit_claims: what it finds wrong with the evidence of stored claims.
AuditFailures(claims, documents, evidence, snapshots) ==
    LET Unsound(e) ==
            \/ e.snapshot \notin snapshots
            \/ ~\E d \in documents : d.id = e.document /\ d.rev = e.rev
            \/ e \notin evidence
    IN  UNION {{<<c, e>> : e \in {x \in c.evidence : Unsound(x)}} : c \in claims}
=============================================================================
