---------------------------- MODULE SourceAdapters ---------------------------
(* What the source adapters (sources/) make of what their services answer:    *)
(* the offers of a discovery, the snapshot an offer is pinned to and the      *)
(* documents of a snapshot, and the calls and replies of the client of the    *)
(* remote tools (sources/mcp_http.py).  SourceCollection runs them.           *)
(*                                                                            *)
(* A URL is [page, case]: folding it leaves the page.  An identifier is what  *)
(* it is a hash of.  Scores are in hundredths.  A file is [bytes, crs, nul,   *)
(* rev, lines]: its size, its CR LF line ends, whether it has a NUL byte.     *)
EXTENDS ProjectWiki

CONSTANTS
    Absent,
    MaxDocuments, MaxDocumentBytes, MaxRepositoryBytes, MaxResponseBytes,
    IdRank,            \* [source ids -> Nat]: the order of the hashes
    LanguageOf,        \* [names -> language of the suffix, "" for none]
    ToolBytes          \* the size of an answer of a remote tool

\* What a service lists is a sequence, of things the constants are about.
RepositoryOK(r) ==
    /\ r.stars \in Nat /\ IdRank[r.url.page] \in Nat /\ Listing(r.tree) /\ Listing(r.endpoints)
    /\ {e.path : e \in ToSet(r.tree)} \cup ToSet(r.endpoints) \subseteq Paths
WorldOK(w) ==
    /\ Listing(w.repositories) /\ Listing(w.papers) /\ Listing(w.catalog)
    /\ \A r \in ToSet(w.repositories) : RepositoryOK(r)
    /\ \A x \in ToSet(w.papers) \cup ToSet(w.catalog) : IdRank[x.url.page] \in Nat
RequestOK(r) ==
    /\ r.max_sources \in Nat /\ r.token_budget \in Nat
    /\ IsFiniteSet(r.terms) /\ Listing(r.perspectives)
    /\ r.repository # Absent => \A a \in {"deepwiki", "gitmcp"} : IdRank[a \o ":" \o r.repository] \in Nat
    /\ IdRank["context7:" \o r.library] \in Nat
ASSUME AdapterAssumption == MaxDocuments \in Nat

Remote == {"deepwiki", "gitmcp", "context7"}
Adapters == Remote \cup {"github", "official_docs", "arxiv", "web"}

-----------------------------------------------------------------------------
(* Guards of sources/security.py and sources/http.py.                         *)

SafePath(path) == path # << >> /\ \A i \in DOMAIN path : path[i] \notin {"", ".", ".."}
ProbablyBinary(path, nul) == InName(path, {"binary"}) \/ nul
\* Line ends are normalised; nothing suspicious is erased.
Normalized(file) == [file EXCEPT !.bytes = @ - file.crs, !.crs = 0]
\* UrllibTransport.get: the reply, or the error that stands for it.
Got(reply, limit) ==
    IF reply.fails THEN "unavailable" ELSE IF reply.bytes > limit THEN "over_limit" ELSE "ok"

-----------------------------------------------------------------------------
(* Discovery: a sequence of offers per adapter.                               *)

Offer(adapter, id, url, type, ref, authority, qualification) ==
    [adapter |-> adapter, source |-> id, page |-> url.page, type |-> type, ref |-> ref,
     authority |-> authority, qualification |-> qualification]

FirstOf(seq, n) == SubSeq(seq, 1, Smaller(n, Len(seq)))

Authority(repository) == Smaller(100, 55 + (repository.stars \div 1000))
GithubOffers(world, request) ==
    LET found == FirstOf(world.repositories, request.max_sources)
        named == Those(found, {i \in DOMAIN found : found[i].name # ""}) IN
    [i \in DOMAIN named |->
        Offer("github", named[i].url.page, named[i].url, "repository", named[i].branch,
              Authority(named[i]), 50)]

ArxivOffers(world, request) ==
    LET found == FirstOf(world.papers, request.max_sources)
        named == Those(found, {i \in DOMAIN found : found[i].title # ""}) IN
    [i \in DOMAIN named |-> Offer("arxiv", named[i].url.page, named[i].url, "paper",
                                  named[i].version, 85, 60)]

\* OfficialDocsAdapter.discover: ranked by the share of the topic's words.
Share(spec, terms) ==
    (100 * Cardinality(terms \cap spec.terms)) \div Larger(1, Cardinality(terms))
OfficialOffers(catalog, request) ==
    LET terms == request.terms
        fitting == {i \in DOMAIN catalog : Share(catalog[i], terms) > 0 \/ terms = {}}
        ranked == FirstOf(Sorted(catalog, fitting, [i \in fitting |->
                              <<-Share(catalog[i], terms), IdRank[catalog[i].url.page]>>]),
                          request.max_sources) IN
    [i \in DOMAIN ranked |->
        Offer("official_docs", ranked[i].url.page, ranked[i].url, "official_documentation",
              ranked[i].version, 100, Larger(50, Share(ranked[i], terms)))]

DerivedOffers(adapter, type, qualification, request) ==
    IF request.repository = Absent THEN << >>
    ELSE LET page == adapter \o ":" \o request.repository IN
         <<Offer(adapter, page, [page |-> page], type, Absent, 65, qualification)>>
DeepWikiOffers(request) ==
    DerivedOffers("deepwiki", "derived_repository_documentation", 80, request)
GitMcpOffers(request) == DerivedOffers("gitmcp", "derived_repository_retrieval", 75, request)

\* Every library has the one canonical URL of the service.
Context7Offers(request) ==
    IF request.types # {} /\ request.types \cap {"official_documentation", "web"} = {} THEN << >>
    ELSE <<Offer("context7", "context7:" \o request.library, [page |-> "context7"],
                 "derived_version_documentation", Absent, 65, 70)>>

\* An adapter that is not configured is a placeholder, which offers nothing.
Configured(world, offers) == IF world.external THEN offers ELSE << >>

-----------------------------------------------------------------------------
(* Snapshots.                                                                 *)

Fails == [fails |-> TRUE]
\* The kind and value of the version identify a snapshot of a source in the store.
Pin(id, offer, kind, value) ==
    [fails |-> FALSE, id |-> id, source |-> offer.source, version |-> <<kind, value>>]

RepositoryOf(world, offer) == CHOOSE r \in ToSet(world.repositories) : r.url.page = offer.page

\* A commit that does not pin the branch, or a truncated tree, is refused.
GithubSnapshot(world, offer) ==
    LET repository == RepositoryOf(world, offer) IN
    IF ~repository.pinned \/ repository.truncated THEN Fails
    ELSE Pin(<<"github", repository.name, repository.commit>>, offer, "git_commit", repository.commit)

\* The identity of a paper's snapshot is its version, whatever the abstract says.
ArxivSnapshot(offer) ==
    Pin(<<"arxiv", offer.source, offer.ref>>, offer, "document_version", offer.ref)

\* A declared version names the snapshot; else the content does.
OfficialSnapshot(world, offer) ==
    LET spec == CHOOSE s \in ToSet(world.catalog) : s.url.page = offer.page IN
    IF ~spec.https \/ Got(spec, MaxDocumentBytes) # "ok" THEN Fails
    ELSE LET version == IF offer.ref # Absent THEN offer.ref ELSE spec.file.rev IN
         Pin(<<"official", offer.page, version, spec.file.rev>>, offer,
             IF offer.ref # Absent THEN "document_version" ELSE "timestamp", version)

\* The snapshot of a remote adapter is named after all its answers.
RemoteSnapshot(offer, got) == Pin(<<offer.adapter, offer.source, got>>, offer, "content_sha256", got)

-----------------------------------------------------------------------------
(* Documents.                                                                 *)

Document(snapshot, path, type, file) ==
    [id |-> <<snapshot, path, file.rev>>, snapshot |-> snapshot, path |-> path, rev |-> file.rev,
     type |-> type, language |-> LanguageOf[Last(path)], bytes |-> file.bytes, lines |-> file.lines]

InterestingNames == {"readme", "license", "dockerfile", "requirements"} \cup BuildFiles
InterestingRoots == {"docs", "examples", "configs", "scripts", "train", "deploy", "tests", "src"}
ReadSuffixes == {"python", "cpp", "c", "yaml", "markdown"}

\* GitHubAdapter._selected_tree_paths
SelectedPaths(tree) ==
    LET Priority(p) == IF InName(p, InterestingNames) THEN 0 ELSE IF Under(p, InterestingRoots) THEN 1 ELSE 2
        kept == {i \in DOMAIN tree :
                   LET e == tree[i] IN
                   /\ e.blob /\ SafePath(e.path) /\ ~ProbablyBinary(e.path, FALSE)
                   /\ e.size <= MaxDocumentBytes
                   /\ Priority(e.path) < 2 \/ LanguageOf[Last(e.path)] \in ReadSuffixes}
        ranked == Sorted(tree, kept, [i \in kept |->
                     <<Priority(tree[i].path), Len(tree[i].path), PathRank[tree[i].path]>>]) IN
    [i \in 1..Smaller(MaxDocuments, Len(ranked)) |-> ranked[i].path]

\* The entries of seq before the first that takes more than there is room for:
\* fitting are the lengths that leave room.
UpTo(seq, fitting) ==
    SubSeq(seq, 1, Max({n \in 0..Len(seq) : \A k \in 1..n : k \in fitting}))
BytesOf(docs) == FoldLeft(LAMBDA n, d : n + d.bytes, 0, docs)

\* A file that cannot be had is skipped, one too much is the end.
FilesRead(repository) ==
    LET paths == SelectedPaths(repository.tree)
        File(i) == repository.files[paths[i]]
        readable == Those(paths, {i \in DOMAIN paths :
                       /\ Got(File(i), 2 * MaxDocumentBytes) = "ok" /\ File(i).base64
                       /\ File(i).bytes <= MaxDocumentBytes
                       /\ ~ProbablyBinary(paths[i], File(i).nul)})
        files == [i \in DOMAIN readable |-> repository.files[readable[i]]] IN
    UpTo(readable, {n \in DOMAIN readable :
        repository.metadata.bytes + BytesOf(SubSeq(files, 1, n)) <= MaxRepositoryBytes})

EndpointType(path) ==
    CASE InName(path, {"releases"}) -> "release"
      [] InName(path, {"issues"}) -> "issue"
      [] InName(path, {"pulls"}) -> "pull_request"
      [] OTHER -> "repository_metadata"

\* GitHubAdapter.fetch_documents: the metadata, the files, the endpoints; an
\* endpoint that is down is left out, one over the limit fails the whole.
GithubDocuments(world, offer, snapshot) ==
    LET repository == RepositoryOf(world, offer)
        endpoints == repository.endpoints
        read == FilesRead(repository)
        Reached(e) == Got(repository.answers[e], MaxResponseBytes)
        up == Those(endpoints, {i \in DOMAIN endpoints : Reached(endpoints[i]) = "ok"})
        TypeOf(path) == IF LanguageOf[Last(path)] \in {"python", "cpp", "c"}
                        THEN "source_code" ELSE "documentation"
        FileAt(path) == Document(snapshot, path, TypeOf(path), Normalized(repository.files[path]))
        AnswerAt(path) ==
            Document(snapshot, path, EndpointType(path), Normalized(repository.answers[path])) IN
    IF \E i \in DOMAIN endpoints : Reached(endpoints[i]) = "over_limit" THEN Absent
    ELSE <<Document(snapshot, MetadataPath, "repository_metadata", repository.metadata)>>
         \o [i \in DOMAIN read |-> FileAt(read[i])] \o [i \in DOMAIN up |-> AnswerAt(up[i])]

ArxivDocuments(world, offer, snapshot) ==
    LET paper == CHOOSE p \in ToSet(world.papers) : p.url.page = offer.page IN
    <<Document(snapshot, <<"abstract.md">>, "paper_abstract",
        [rev |-> <<paper.title, paper.abstract>>, bytes |-> paper.bytes,
         lines |-> <<{"title"}, {"abstract"}>>])>>

OfficialDocuments(world, offer, snapshot) ==
    LET spec == CHOOSE s \in ToSet(world.catalog) : s.url.page = offer.page IN
    <<Document(snapshot, <<"official-document">>, "official_documentation", Normalized(spec.file))>>

\* Derived documentation: one document per answer, in the order of the keys.
RemoteKeys == [deepwiki |-> <<"structure", "contents", "answer">>,
               gitmcp |-> <<"documentation", "documentation_search", "code_search">>,
               context7 |-> <<"resolution", "documentation">>]
RemoteDocuments(offer, snapshot, got) ==
    LET all == RemoteKeys[offer.adapter]
        keys == Those(all, {i \in DOMAIN all : all[i] \in DOMAIN got}) IN
    [i \in DOMAIN keys |->
        Document(snapshot, <<".rosclaw", offer.adapter, keys[i]>>, "derived_documentation",
                 [rev |-> <<keys[i], got[keys[i]].kind, got[keys[i]].asked, got[keys[i]].answered>>,
                  bytes |-> ToolBytes, lines |-> <<{"answer"}>>])]

-----------------------------------------------------------------------------
(* The client of the remote tools: the calls of an adapter, one request each, *)
(* and what a reply does to them.  A call is [method, key, primed]: primed    *)
(* once the server has been initialised for it.                               *)

Call(method, key) == [method |-> method, key |-> key, primed |-> FALSE]
Handshake == <<Call("initialize", ""), Call("notify", "")>>
AsClient(keys) == Handshake \o [i \in DOMAIN keys |-> Call("call", keys[i])]

FirstCalls(adapter) ==
    CASE adapter = "deepwiki" -> AsClient(<<"structure", "contents", "answer">>)
      [] adapter = "gitmcp" -> Handshake \o <<Call("list", "")>>
      [] adapter = "context7" -> AsClient(<<"resolution", "documentation">>)

\* GitMCPAdapter: which of the advertised tools serve which key, the first of a
\* key only; each is called by a client of its own.
ToolKey(tool) ==
    CASE tool.name = "fetch_documentation" -> "documentation"
      [] tool.name = "search_documentation" -> "documentation_search"
      [] tool.name = "search_code" -> "code_search"
      [] OTHER -> ""
SelectedTools(tools) ==
    SelectSeq([i \in DOMAIN tools |-> IF \E j \in 1..(i - 1) : ToolKey(tools[j]) = ToolKey(tools[i])
                                      THEN [tools[i] EXCEPT !.name = ""] ELSE tools[i]],
              LAMBDA t : ToolKey(t) # "")
ToolCalls(selected) ==
    FlattenSeq([i \in DOMAIN selected |->
                   <<Call("fresh", "")>> \o AsClient(<<ToolKey(selected[i])>>)])

NewSession(adapter) ==
    [calls |-> FirstCalls(adapter), next_id |-> 1, informed |-> FALSE, got |-> << >>, fails |-> FALSE]

\* A client that knows nothing of its server initialises again before a call.
Prepared(session) ==
    LET call == Head(session.calls) IN
    IF call.method = "fresh"
    THEN [session EXCEPT !.calls = Tail(@), !.next_id = 1, !.informed = FALSE]
    ELSE IF call.method \in {"list", "call"} /\ ~session.informed /\ ~call.primed
    THEN [session EXCEPT !.calls = Handshake \o <<[call EXCEPT !.primed = TRUE]>> \o Tail(@)]
    ELSE session

\* What the transport and the decoder make of an exchange, worst first.
ReplyKinds == {"down", "over_limit", "moved", "garbled", "empty", "error", "other_id", "bare",
               "refused", "answer"}
\* MCPStreamableHttpClient._request: does the reply to a request fail?
RefusesReply(call, request_id, reply) ==
    IF call.method = "notify" THEN reply.kind \in {"over_limit", "garbled"}
    ELSE \/ reply.kind \in {"down", "over_limit", "moved", "garbled", "empty", "error"}
         \/ reply.id # request_id
         \/ reply.kind = "refused" /\ call.method = "call"

\* The session after a reply to its first call.  A notification asks for no
\* answer; an empty result is an answer too.
Replied(session, reply, tools) ==
    LET call == Head(session.calls)
        request_id == session.next_id
        after == [session EXCEPT !.calls = Tail(@),
                                 !.next_id = IF call.method = "notify" THEN @ ELSE @ + 1]
        selected == IF reply.kind = "bare" THEN << >> ELSE SelectedTools(tools) IN
    IF RefusesReply(call, request_id, reply) THEN [session EXCEPT !.calls = << >>, !.fails = TRUE]
    ELSE CASE call.method = "notify" -> after
           [] call.method = "initialize" -> [after EXCEPT !.informed = (reply.kind # "bare")]
           [] call.method = "list" ->
                [after EXCEPT !.calls = ToolCalls(selected),
                              !.fails = selected = << >> \/ \E i \in DOMAIN selected : ~selected[i].fits]
           [] OTHER ->
                [after EXCEPT !.got = [k \in DOMAIN @ \cup {call.key} |->
                                 IF k # call.key THEN @[k]
                                 ELSE [asked |-> request_id, answered |-> reply.id, kind |-> reply.kind]],
                              !.fails = call.key = "resolution" /\ reply.kind = "bare"]
=============================================================================
