--------------------------- MODULE SourceCollection ---------------------------
(* A research run of sources/orchestrator.py over its adapters: it discovers, *)
(* keeps the best offer per page, takes a snapshot and the documents of one   *)
(* offer after another within its deadline and budgets, and stores them, a    *)
(* repository compiled to a wiki, units and claims.  An adapter may fail, a   *)
(* remote tool answer anything, the deadline pass, the process be killed      *)
(* between two writes, and a later run finds other contents upstream.         *)
EXTENDS SourceAdapters

CONSTANTS
    Worlds,            \* what the services can hold
    CollectRequests,   \* what can be asked: [max_sources, token_budget, terms,
                       \* repository, library, types, perspectives]
    MaxTotalDocuments, MaxTotalBytes,
    MaxRuns, MaxSourceFaults       \* bounds of the model

ASSUME CollectionAssumption ==
    /\ {MaxTotalDocuments, MaxTotalBytes, MaxRuns, MaxSourceFaults} \subseteq Nat
    /\ \A w \in DOMAIN Worlds : WorldOK(Worlds[w])
    /\ \A r \in DOMAIN CollectRequests : RequestOK(CollectRequests[r])

VARIABLES
    collecting,   \* the run under way: the locals of ResearchOrchestrator.run
    shelf,        \* the tables of the store that a run writes
    runs_made, source_faults

collection_vars == <<collecting, shelf, runs_made, source_faults>>

AtRestCollecting ==
    [phase |-> "idle", request |-> 0, world |-> 0,
     discovered |-> {}, qualified |-> << >>, queue |-> << >>,
     documents |-> 0, bytes |-> 0, tokens |-> 0, sources |-> << >>, warnings |-> {},
     session |-> Absent, pin |-> Absent, batch |-> << >>, wiki |-> Absent, units |-> {}]
EmptyShelf ==
    [latest |-> << >>, snapshots |-> {}, documents |-> {}, evidence |-> {}, components |-> {},
     pages |-> {}, cards |-> {}, units |-> {}, relations |-> {}, claims |-> {}]

Asked == CollectRequests[collecting.request]
Upstream == Worlds[collecting.world]
Current == Head(collecting.queue)
To(phase) == collecting' = [collecting EXCEPT !.phase = phase]
\* The loop goes on with the next offer.
NextOffer(run) ==
    [run EXCEPT !.phase = "next", !.queue = Tail(@), !.session = Absent, !.pin = Absent,
                !.batch = << >>, !.wiki = Absent, !.units = {}]
Warned(run, warning) == [run EXCEPT !.warnings = @ \cup {warning}]
Skip(warning) == collecting' = NextOffer(Warned(collecting, warning))
Fault(n) == source_faults + n <= MaxSourceFaults /\ source_faults' = source_faults + n

-----------------------------------------------------------------------------
(* planner.py                                                                 *)

DefaultPerspectives == <<"existing_projects", "mechanism", "implementation", "compatibility",
                         "failure_modes", "deployment">>
MaxPerspectives == 12
\* Perspectives without repetition, each with its questions; only the context
\* of the request covers anything yet.
ResearchPlan(request) ==
    LET asked == IF request.perspectives = << >> THEN DefaultPerspectives ELSE request.perspectives
        distinct == Those(asked, {i \in DOMAIN asked : \A j \in 1..(i - 1) : asked[j] # asked[i]})
        kept == FirstOf(distinct, MaxPerspectives) IN
    [perspectives |-> kept,
     coverage |-> [p \in ToSet(kept) |->
                     IF p = "compatibility" /\ request.constrained THEN "partial" ELSE "missing"],
     stops |-> [sources |-> request.max_sources, enough |-> Smaller(request.max_sources, 8),
                tokens |-> request.token_budget]]

-----------------------------------------------------------------------------
(* The run.                                                                   *)

StartCollecting(request, world) ==
    /\ collecting.phase = "idle" /\ runs_made < MaxRuns
    /\ runs_made' = runs_made + 1
    /\ collecting' = [AtRestCollecting EXCEPT !.phase = "discover", !.request = request, !.world = world]
    /\ UNCHANGED <<shelf, source_faults>>

Preference(offer) == <<-offer.qualification, -offer.authority>>
\* The first of the best offers of every page, in the order of the adapters.
BestPerPage(offers) ==
    LET keys == [i \in DOMAIN offers |-> Preference(offers[i])] IN
    {i \in DOMAIN offers :
        ~\E j \in DOMAIN offers : offers[j].page = offers[i].page /\ Ahead(keys, j, i)}
Qualified(offers, most) ==
    FirstOf(Sorted(offers, BestPerPage(offers),
                   [i \in BestPerPage(offers) |->
                      <<-offers[i].qualification, -offers[i].authority, IdRank[offers[i].source]>>]),
            most)

\* What the adapters that answer offer, in the order of their names.
AllOffers(failing) ==
    LET By(a, offers) == IF a \in failing THEN << >> ELSE offers IN
    By("arxiv", ArxivOffers(Upstream, Asked))
    \o By("context7", Configured(Upstream, Context7Offers(Asked)))
    \o By("deepwiki", Configured(Upstream, DeepWikiOffers(Asked)))
    \o By("github", GithubOffers(Upstream, Asked))
    \o By("gitmcp", Configured(Upstream, GitMcpOffers(Asked)))
    \o By("official_docs", OfficialOffers(Upstream.catalog, Asked))
    \o By("web", << >>)

\* An adapter that fails or is too slow offers nothing and leaves a warning.
Discover(failing) ==
    /\ collecting.phase = "discover" /\ Fault(Cardinality(failing))
    /\ LET offers == AllOffers(failing)
           qualified == Qualified(offers, Asked.max_sources) IN
       collecting' = [collecting EXCEPT !.phase = "next", !.discovered = ToSet(offers),
                        !.qualified = qualified, !.queue = qualified,
                        !.warnings = {<<"discover_failed", a>> : a \in failing}]
    /\ UNCHANGED <<shelf, runs_made>>

\* Reached at the head of the loop, the deadline ends it.
DeadlinePasses ==
    /\ collecting.phase = "next" /\ collecting.queue # << >> /\ Fault(1)
    /\ collecting' = [Warned(collecting, <<"deadline", "">>) EXCEPT !.phase = "done", !.queue = << >>]
    /\ UNCHANGED <<shelf, runs_made>>

IngestFailed == Skip(<<"ingest_failed", Current.source>>)

\* A snapshot, taken at once or by the calls of a session.
TakeSnapshot ==
    /\ collecting.phase = "next" /\ collecting.queue # << >>
    /\ IF Current.adapter \in Remote
       THEN collecting' = [collecting EXCEPT !.phase = "session", !.session = NewSession(Current.adapter)]
       ELSE LET pin == CASE Current.adapter = "github" -> GithubSnapshot(Upstream, Current)
                         [] Current.adapter = "arxiv" -> ArxivSnapshot(Current)
                         [] OTHER -> OfficialSnapshot(Upstream, Current) IN
            IF pin.fails THEN IngestFailed
            ELSE collecting' = [collecting EXCEPT !.phase = "fetch", !.pin = pin]
    /\ UNCHANGED <<shelf, runs_made, source_faults>>

\* One request of a session and the reply to it.
Exchange(kind) ==
    /\ collecting.phase = "session" /\ collecting.session.calls # << >> /\ ~collecting.session.fails
    /\ IF kind = "answer" THEN UNCHANGED source_faults ELSE Fault(1)
    /\ LET session == Prepared(collecting.session)
           id == IF kind = "other_id" THEN session.next_id + 1 ELSE session.next_id IN
       collecting' = [collecting EXCEPT !.session =
           IF Head(collecting.session.calls).method = "fresh" THEN session
           ELSE Replied(session, [kind |-> kind, id |-> id], Upstream.tools)]
    /\ UNCHANGED <<shelf, runs_made>>

SessionEnds ==
    /\ collecting.phase = "session"
    /\ collecting.session.calls = << >> \/ collecting.session.fails
    /\ IF collecting.session.fails THEN IngestFailed
       ELSE collecting' = [collecting EXCEPT !.phase = "fetch",
                             !.pin = RemoteSnapshot(Current, collecting.session.got)]
    /\ UNCHANGED <<shelf, runs_made, source_faults>>

\* A snapshot or its documents that take too long are given up.
IngestTimesOut ==
    /\ collecting.phase \in {"session", "fetch"} /\ Fault(1)
    /\ IngestFailed
    /\ UNCHANGED <<shelf, runs_made>>

Tokens(doc) == Larger(1, (doc.bytes + 3) \div 4)
TokensIn(docs) == FoldLeft(LAMBDA n, d : n + Tokens(d), 0, docs)
\* Mutant: the token budget holds for each offer, not for the run.
WithinLimitsEach(run, docs) ==
    UpTo(docs, {n \in DOMAIN docs : TokensIn(SubSeq(docs, 1, n)) <= Asked.token_budget})
\* The documents up to the first that exceeds one of the three limits.
WithinLimits(run, docs) ==
    UpTo(docs, {n \in DOMAIN docs :
        /\ run.documents + n <= MaxTotalDocuments
        /\ run.bytes + BytesOf(SubSeq(docs, 1, n)) <= MaxTotalBytes
        /\ run.tokens + TokensIn(SubSeq(docs, 1, n)) <= Asked.token_budget})

\* What the adapter finds of the offer under way.
DocumentsFetched ==
    LET id == collecting.pin.id IN
    CASE Current.adapter = "github" -> GithubDocuments(Upstream, Current, id)
      [] Current.adapter = "arxiv" -> ArxivDocuments(Upstream, Current, id)
      [] Current.adapter = "official_docs" -> OfficialDocuments(Upstream, Current, id)
      [] OTHER -> RemoteDocuments(Current, id, collecting.session.got)
TakeDocuments(docs) ==
    LET kept == WithinLimits(collecting, docs)
        run == IF Len(kept) < Len(docs) THEN Warned(collecting, <<"exhausted", "">>) ELSE collecting IN
    IF docs = Absent THEN IngestFailed
    ELSE IF kept = << >> THEN collecting' = NextOffer(Warned(run, <<"empty", Current.source>>))
    ELSE collecting' = [run EXCEPT !.phase = "source", !.batch = kept]
Fetch ==
    /\ collecting.phase = "fetch" /\ TakeDocuments(DocumentsFetched)
    /\ UNCHANGED <<shelf, runs_made, source_faults>>

WriteSource ==
    /\ collecting.phase = "source" /\ To("snapshot")
    /\ shelf' = [shelf EXCEPT !.latest = [s \in DOMAIN @ \cup {Current.source} |->
                                            IF s = Current.source THEN collecting.pin.id ELSE @[s]]]
    /\ UNCHANGED <<runs_made, source_faults>>

\* put_snapshot refuses another record of a snapshot, or of a version of a
\* source, that it has; the time of the fetch is part of the record.
Refused(pin) ==
    \E s \in shelf.snapshots :
        /\ s.source = pin.source
        /\ s.version = pin.version
        /\ s.fetched # runs_made \/ s.id # pin.id
WriteSnapshot ==
    /\ collecting.phase = "snapshot"
    /\ LET pin == collecting.pin IN
       IF Refused(pin) THEN To("failed") /\ UNCHANGED shelf
       ELSE /\ shelf' = [shelf EXCEPT !.snapshots = @ \cup
                 {[id |-> pin.id, source |-> pin.source, version |-> pin.version, fetched |-> runs_made]}]
            /\ collecting' = [collecting EXCEPT
                 !.phase = IF Current.type = "repository" THEN "wiki" ELSE "documents",
                 !.sources = Append(@, Current.source),
                 !.documents = @ + Len(collecting.batch),
                 !.bytes = @ + BytesOf(collecting.batch),
                 !.tokens = @ + TokensIn(collecting.batch)]
    /\ UNCHANGED <<runs_made, source_faults>>

\* The documents of what is no repository are stored one by one.
WriteDocument ==
    /\ collecting.phase = "documents"
    /\ IF collecting.batch = << >> THEN collecting' = NextOffer(collecting) /\ UNCHANGED shelf
       ELSE /\ shelf' = [shelf EXCEPT !.documents = @ \cup {Head(collecting.batch)}]
            /\ collecting' = [collecting EXCEPT !.batch = Tail(@)]
    /\ UNCHANGED <<runs_made, source_faults>>

\* The wiki in one transaction.  Steering that leaves no document raises.
StoreWiki(wiki) ==
    IF wiki.raises THEN To("failed") /\ UNCHANGED shelf
    ELSE /\ shelf' = [shelf EXCEPT !.documents = @ \cup wiki.documents, !.evidence = @ \cup wiki.evidence,
                        !.components = @ \cup wiki.components, !.pages = @ \cup wiki.pages,
                        !.cards = {c \in @ : c.project # wiki.card.project} \cup {wiki.card}]
         /\ collecting' = [collecting EXCEPT !.phase = "units", !.wiki = wiki]
WriteWiki ==
    /\ collecting.phase = "wiki"
    /\ StoreWiki(Compiled([page |-> Current.page], collecting.pin.id, collecting.batch, << >>))
    /\ UNCHANGED <<runs_made, source_faults>>

WriteUnits ==
    /\ collecting.phase = "units"
    /\ LET units == UnitsOf(collecting.wiki) IN
       /\ shelf' = [shelf EXCEPT !.units = @ \cup units,
                      !.relations = @ \cup {<<u.id, "DOCUMENTS", u.project>> : u \in units}]
       /\ collecting' = [collecting EXCEPT !.phase = "claims", !.units = units]
    /\ UNCHANGED <<runs_made, source_faults>>

\* A claim supersedes those of its source that say something else of the same.
Superseding(table, new) ==
    {IF \E n \in new : n.subject = c.subject /\ n.predicate = c.predicate /\ n.object # c.object
     THEN [c EXCEPT !.active = FALSE] ELSE c : c \in table} \cup new
WriteClaims ==
    /\ collecting.phase = "claims"
    /\ LET stored == [id \in {d.id : d \in shelf.documents} |-> CHOOSE d \in shelf.documents : d.id = id]
           claims == ClaimsOf(collecting.wiki, collecting.units, stored)
           evidence == shelf.evidence \cup UNION {c.evidence : c \in claims}
           failures == AuditFailures(claims, shelf.documents, evidence, {s.id : s \in shelf.snapshots}) IN
       /\ shelf' = [shelf EXCEPT !.claims = Superseding(@, claims), !.evidence = evidence]
       /\ collecting' = NextOffer(IF failures = {} THEN collecting
                                  ELSE Warned(collecting, <<"citation_verifier_failed", Current.source>>))
    /\ UNCHANGED <<runs_made, source_faults>>

LoopEnds ==
    /\ collecting.phase = "next" /\ collecting.queue = << >> /\ To("done")
    /\ UNCHANGED <<shelf, runs_made, source_faults>>
\* ResearchRunResult
RunStatus == IF collecting.sources = << >> THEN "degraded" ELSE "completed"

\* The result, or the exception, goes to the worker; a kill ends the run anywhere.
RunReturns ==
    /\ collecting.phase \in {"done", "failed"}
    /\ collecting' = AtRestCollecting
    /\ UNCHANGED <<shelf, runs_made, source_faults>>
CollectorKilled ==
    /\ collecting.phase \notin {"idle", "done", "failed"} /\ Fault(1)
    /\ collecting' = AtRestCollecting
    /\ UNCHANGED <<shelf, runs_made>>

CollectionInit ==
    /\ collecting = AtRestCollecting /\ shelf = EmptyShelf
    /\ runs_made = 0 /\ source_faults = 0

CollectionNext ==
    \/ \E request \in DOMAIN CollectRequests, world \in DOMAIN Worlds : StartCollecting(request, world)
    \/ \E failing \in SUBSET Adapters : Discover(failing)
    \/ \E kind \in ReplyKinds : Exchange(kind)
    \/ DeadlinePasses \/ TakeSnapshot \/ SessionEnds \/ IngestTimesOut \/ Fetch
    \/ WriteSource \/ WriteSnapshot \/ WriteDocument \/ WriteWiki \/ WriteUnits \/ WriteClaims
    \/ LoopEnds \/ RunReturns \/ CollectorKilled

CollectionSpec == CollectionInit /\ [][CollectionNext]_collection_vars

-----------------------------------------------------------------------------
(* Properties.                                                                *)

\* Every variable has its type.
CollectionTypeOK ==
    /\ collecting.phase \in {"idle", "discover", "next", "session", "fetch", "source", "snapshot",
                             "documents", "wiki", "units", "claims", "done", "failed"}
    /\ DOMAIN shelf = DOMAIN EmptyShelf
    /\ runs_made \in 0..MaxRuns /\ source_faults \in 0..MaxSourceFaults

\* max_sources, token_budget and the totals of the constructor hold over all
\* the offers together, whatever failed or was dropped in between.
WithinBudgets ==
    collecting.phase # "idle" =>
        /\ Len(collecting.qualified) <= Asked.max_sources
        /\ collecting.documents <= MaxTotalDocuments /\ collecting.bytes <= MaxTotalBytes
        /\ collecting.tokens <= Asked.token_budget
        /\ collecting.documents >= Len(collecting.sources)
        /\ Len(ResearchPlan(Asked).perspectives) <= MaxPerspectives

\* One offer per page, none that was discovered better; who is left out is no
\* better than who is in.
BestOfEveryPage ==
    /\ \A i, j \in DOMAIN collecting.qualified :
          collecting.qualified[i].page = collecting.qualified[j].page => i = j
    /\ \A o \in collecting.discovered :
          \/ \E i \in DOMAIN collecting.qualified :
                /\ collecting.qualified[i].page = o.page
                /\ ~TupleLess(Preference(o), Preference(collecting.qualified[i]))
          \/ /\ Len(collecting.qualified) = Asked.max_sources
             /\ \A i \in DOMAIN collecting.qualified :
                   ~TupleLess(Preference(o), Preference(collecting.qualified[i]))

\* What a remote tool said is the answer to the call it is kept for.
AnswersOfTheirCalls ==
    collecting.session # Absent =>
        \A k \in DOMAIN collecting.session.got :
            collecting.session.got[k].asked = collecting.session.got[k].answered

\* Whatever is killed or refused, a stored row only refers to stored rows: a
\* snapshot to its source, documents, pages and components to their snapshot, evidence to
\* its document and revision, pages, units and claims to their evidence, which
\* the citation verifier would find.
PinnedToStored ==
    LET snapshots == {s.id : s \in shelf.snapshots} IN
    /\ \A s \in shelf.snapshots : s.source \in DOMAIN shelf.latest
    /\ \A d \in shelf.documents : d.snapshot \in snapshots
    /\ \A e \in shelf.evidence : \E d \in shelf.documents : d.id = e.document /\ d.rev = e.rev
    /\ \A r \in shelf.pages \cup shelf.components : r.snapshot \in snapshots
    /\ \A p \in shelf.pages : p.evidence # {} /\ p.evidence \subseteq shelf.evidence
    /\ \A c \in shelf.cards : c.snapshot \in snapshots /\ c.cites \subseteq shelf.evidence
    /\ \A u \in shelf.units : \E p \in shelf.pages : u.evidence = p.evidence /\ u.snapshot = p.snapshot
    /\ \A r \in shelf.relations : \E c \in shelf.cards : c.project = r[3]
    /\ AuditFailures(shelf.claims, shelf.documents, shelf.evidence, snapshots) = {}

\* A collection keeps to its budgets, to the best offers, to answers of its own
\* calls, and stores nothing that cites what is not stored.
CollectionIsBoundedAndPinned ==
    WithinBudgets /\ BestOfEveryPage /\ AnswersOfTheirCalls /\ PinnedToStored
=============================================================================
