-------------------------- MODULE MCSourceCollection --------------------------
(* SourceCollection for TLC: a repository at two commits, whose steering file *)
(* is sound, broken or leaves nothing; a paper with two abstracts under one   *)
(* version; official pages, one of them the page of the repository; remote    *)
(* tools of which one needs what the client cannot give.                      *)
EXTENDS SourceCollection

MCNameWords ==
    "README.md" :> {"readme"} @@ "src" :> {} @@ "train.py" :> {"train"} @@ "deploy" :> {"deploy"} @@
    "node.py" :> {} @@ "robot.yaml" :> {"yaml"} @@ "weights.pt" :> {"binary"} @@ ".." :> {} @@
    ".rosclaw" :> {} @@ "know.yaml" :> {"yaml"} @@ "github" :> {} @@ "issues.json" :> {"issues", "json"} @@
    "repository_metadata.json" :> {"json"} @@ "repo_facts.json" :> {"json"} @@
    "pyproject.toml" :> {"pyproject", "toml"}
MCLanguage(name) ==
    CASE name \in {"README.md", "abstract.md", "structure", "contents", "answer", "documentation",
                   "documentation_search", "code_search", "resolution"} -> "markdown"
      [] name \in {"train.py", "node.py"} -> "python"
      [] name \in {"robot.yaml", "know.yaml"} -> "yaml"
      [] name = "pyproject.toml" -> "toml"
      [] OTHER -> ""
DocumentNames == {"abstract.md", "official-document", "structure", "contents", "answer", "documentation",
                  "documentation_search", "code_search", "resolution"}
MCLanguageOf == [name \in DOMAIN MCNameWords \cup DocumentNames |-> MCLanguage(name)]
Files == <<<<"README.md">>, <<"pyproject.toml">>, <<"src", "train.py">>, <<"deploy", "node.py">>,
           <<"robot.yaml">>, SteerPath, <<"src", "weights.pt">>, <<"src", "..", "node.py">>>>
IssuesPath == <<".rosclaw", "github", "issues.json">>
MCPathRank == [p \in ToSet(Files) \cup {<<"src">>, IssuesPath, MetadataPath, FactsPath} |->
    CASE p = FactsPath -> 1 [] p = IssuesPath -> 2 [] p = SteerPath -> 3 [] p = <<"README.md">> -> 4
      [] p = <<"deploy", "node.py">> -> 5 [] p = <<"pyproject.toml">> -> 6 [] p = MetadataPath -> 7
      [] p = <<"robot.yaml">> -> 8 [] OTHER -> 9]
MCSteers == [r \in 0..3 |-> CASE r = 1 -> [kind |-> "v1", exclude |-> {<<"deploy", "node.py">>},
                                           priority |-> {<<"src", "train.py">>}]
                              [] r = 2 -> [kind |-> "v1", priority |-> {},
                                           exclude |-> ToSet(Files) \cup {IssuesPath, MetadataPath}]
                              [] OTHER -> [kind |-> "unparsed"]]

File(rev, bytes, lines) ==
    [rev |-> <<rev>>, bytes |-> bytes, crs |-> 0, nul |-> FALSE, base64 |-> TRUE, fails |-> FALSE,
     lines |-> lines]
Blob(p, n) == [path |-> p, blob |-> TRUE, size |-> n]
Contents(commit, steer) ==
    <<"README.md">> :> [File(1, 9, <<{"mujoco"}, {"humanoid", "topic"}>>) EXCEPT !.crs = 1] @@
    <<"pyproject.toml">> :> File(1, 4, <<{"pyproject"}>>) @@
    <<"src", "train.py">> :> File(commit, 8, <<{"Policy", "torch"}, {"__main__"}>>) @@
    <<"deploy", "node.py">> :> File(1, 4, <<{"syntax_error"}>>) @@
    <<"robot.yaml">> :> [File(1, 4, <<{"humble"}>>) EXCEPT !.fails = (commit = 2)] @@
    SteerPath :> File(steer, 4, <<{}>>)
Repository(commit, steer, stars, over) ==
    [name |-> "arm", url |-> [page |-> "github/arm", case |-> "lower"], branch |-> "main", stars |-> stars,
     pinned |-> commit # 3, truncated |-> FALSE, commit |-> commit,
     metadata |-> File(commit, 4, <<{"arm"}>>),
     tree |-> [i \in DOMAIN Files |-> Blob(Files[i], 4)]
              \o <<[path |-> <<"src">>, blob |-> FALSE, size |-> 0]>>,
     files |-> Contents(commit, steer), endpoints |-> <<IssuesPath>>,
     answers |-> IssuesPath :> [File(commit, IF over THEN 99 ELSE 4, <<{"row", "Policy"}>>)
                                   EXCEPT !.fails = (steer = 3)]]
Nameless == [Repository(1, 0, 0, FALSE) EXCEPT !.name = ""]
Paper(abstract) == [url |-> [page |-> "arxiv/1", case |-> "lower"], title |-> "arms", version |-> "v1",
                    abstract |-> abstract, bytes |-> 8]
Manual(page, terms, version, rev, https) ==
    [url |-> [page |-> page, case |-> "mixed"], terms |-> terms, version |-> version, https |-> https,
     fails |-> FALSE, bytes |-> 8, file |-> File(rev, 8, <<{"official"}>>)]
Tools == <<[name |-> "fetch_documentation", fits |-> TRUE], [name |-> "fetch_url_content", fits |-> TRUE],
           [name |-> "fetch_documentation", fits |-> FALSE], [name |-> "search_code", fits |-> TRUE]>>
World(repositories, abstract, catalog, external) ==
    [repositories |-> repositories, papers |-> <<Paper(abstract)>>, catalog |-> catalog,
     external |-> external, tools |-> Tools]
MCWorlds == <<
    World(<<Nameless, Repository(1, 1, 0, FALSE)>>, 1, <<Manual("manual", {"arm"}, Absent, 1, TRUE)>>, FALSE),
    World(<<Repository(2, 0, 90000, FALSE)>>, 2, <<Manual("manual", {"arm"}, Absent, 2, TRUE),
                                               Manual("github/arm", {"arm"}, "v1", 1, TRUE)>>, FALSE),
    World(<<Repository(2, 0, 0, FALSE)>>, 1, << >>, FALSE),
    World(<<Repository(1, 2, 0, FALSE)>>, 1, << >>, FALSE),
    World(<<Repository(1, 3, 0, FALSE)>>, 1, << >>, TRUE),
    [World(<<Repository(2, 0, 0, TRUE)>>, 1, << >>, TRUE) EXCEPT !.tools[1].fits = FALSE],
    World(<<Repository(3, 0, 0, FALSE)>>, 1, <<Manual("plain", {"arm"}, "v1", 1, FALSE),
                                               Manual("apart", {"leg"}, "v1", 1, TRUE)>>, FALSE)>>
MCIdRank == [id \in {"github/arm", "arxiv/1", "manual", "plain", "apart", "deepwiki:arm",
                     "gitmcp:arm", "context7:ros"} |->
    CASE id = "github/arm" -> 3 [] id = "arxiv/1" -> 1 [] id = "manual" -> 2 [] id = "plain" -> 5
      [] id = "apart" -> 6 [] id = "deepwiki:arm" -> 4 [] id = "gitmcp:arm" -> 7 [] OTHER -> 8]
Ask(most, budget, repository, types) ==
    [max_sources |-> most, token_budget |-> budget, terms |-> {"arm"}, repository |-> repository,
     types |-> types,
     library |-> "ros", perspectives |-> <<"mechanism", "mechanism">>, constrained |-> TRUE]
MCRequests == <<Ask(2, 12, Absent, {"paper"}), Ask(3, 6, "arm", {}),
                [Ask(4, 20, "arm", {"web"}) EXCEPT !.perspectives = << >>]>>
MCSymbolNames == {"Policy"}
=============================================================================
