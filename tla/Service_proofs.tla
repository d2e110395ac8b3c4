---------------------------- MODULE Service_proofs ----------------------------
(***************************************************************************)
(* What the service keeps: proofs about FeedbackGovernance, SourceRefresh, *)
(* UnitIndex and ReferencePacks, for any set of ids, any number of         *)
(* requests, packs, commits, puts, errors, kills and restarts.             *)
(***************************************************************************)
EXTENDS FeedbackGovernance, SourceRefresh, UnitIndex, ReferencePacks, FiniteSums, TLAPS

-----------------------------------------------------------------------------
(* Whatever is posted, reviewed, repeated or killed: an answered feedback   *)
(* has its governance record.                                               *)

\* The request between its two writes stands on feedback that is stored; it
\* is what PutGovernance will write.
ServingIsStored == serving # Unset => feedback[serving.id] = serving.verdict

\* The copy "rosclaw-know review" has read may be old, but it is of a record
\* that is there, and of the verdict that was stored.
EditedIsGoverned ==
    editing # Unset =>
        /\ governance[editing.id] # Unset
        /\ editing.record.verdict = feedback[editing.id]

FeedbackInv ==
    FeedbackTypeOK /\ AnsweredIsGoverned /\ ServingIsStored /\ EditedIsGoverned

\* governance_for_feedback makes a record of the verdict it is given.
LEMMA RouteIsRecord ==
    ASSUME NEW v \in Verdicts
    PROVE  Route(v) \in Record /\ Route(v).verdict = v
BY DEF Route, Record, Open, Settled

\* A review changes the status only.
LEMMA DecideIsRecord ==
    ASSUME NEW r \in Record, NEW decision
    PROVE  Decide(r, decision) \in Record /\ Decide(r, decision).verdict = r.verdict
BY DEF Decide, Record, Open, Settled

LEMMA FeedbackInvInit == FeedbackInit => FeedbackInv
BY FeedbackAssumption DEF FeedbackInit, FeedbackInv, FeedbackTypeOK, AnsweredIsGoverned,
    ServingIsStored, EditedIsGoverned, Serving

LEMMA FeedbackInvNext == FeedbackInv /\ [FeedbackNext]_feedback_vars => FeedbackInv'
<1> SUFFICES ASSUME FeedbackInv, [FeedbackNext]_feedback_vars
             PROVE  FeedbackInv'
    OBVIOUS
<1> USE FeedbackAssumption
<1> USE DEF Serving, FeedbackInv, FeedbackTypeOK, AnsweredIsGoverned, ServingIsStored, EditedIsGoverned
<1>1. ASSUME NEW r \in Request, Post(r)
      PROVE  FeedbackInv'
    BY <1>1 DEF Post
<1>2. ASSUME NEW r \in Request, PutFeedback(r)
      PROVE  FeedbackInv'
    <2>1. r.id \in Ids /\ r.verdict \in Verdicts
        BY DEF Request
    <2>2. FeedbackTypeOK'
        BY <1>2, <2>1 DEF PutFeedback
    <2>3. \A f \in Ids : feedback[f] # Unset => feedback'[f] = feedback[f]
        BY <1>2, <2>1 DEF PutFeedback
    <2>4. \A f \in Ids : governance[f] # Unset => feedback[f] # Unset
        BY DEF Record
    <2>5. AnsweredIsGoverned'
        BY <1>2, <2>3, <2>4 DEF PutFeedback
    <2>6. ServingIsStored'
        BY <1>2, <2>1 DEF PutFeedback
    <2>7. EditedIsGoverned'
        BY <1>2, <2>3, <2>4 DEF PutFeedback
    <2> QED BY <2>2, <2>5, <2>6, <2>7
<1>3. CASE PutGovernance
    <2>1. serving.id \in Ids /\ serving.verdict \in Verdicts /\ serving # Unset
        BY <1>3 DEF PutGovernance
    <2>2. Route(serving.verdict) \in Record /\ Route(serving.verdict).verdict = serving.verdict
        BY <2>1, RouteIsRecord
    <2>3. feedback[serving.id] = serving.verdict
        BY <2>1
    <2> QED BY <1>3, <2>1, <2>2, <2>3 DEF PutGovernance
<1>4. CASE FeedbackCrash
    BY <1>4 DEF FeedbackCrash
<1>5. ASSUME NEW f \in Ids, ReviewRead(f)
      PROVE  FeedbackInv'
    BY <1>5 DEF ReviewRead
<1>6. ASSUME NEW decision, ReviewWrite(decision)
      PROVE  FeedbackInv'
    <2>1. editing \in [id: Ids, record: Record] /\ editing # Unset
        BY <1>6 DEF ReviewWrite
    <2>2. /\ Decide(editing.record, decision) \in Record
          /\ Decide(editing.record, decision).verdict = editing.record.verdict
        BY <2>1, DecideIsRecord
    <2> QED BY <1>6, <2>1, <2>2 DEF ReviewWrite
<1>7. ASSUME NEW decision, NEW f \in Ids, ReviewOverApi(f, decision)
      PROVE  FeedbackInv'
    <2>1. governance[f] \in Record
        BY <1>7 DEF ReviewOverApi
    <2>2. /\ Decide(governance[f], decision) \in Record
          /\ Decide(governance[f], decision).verdict = governance[f].verdict
        BY <2>1, DecideIsRecord
    <2>3. governance' = [governance EXCEPT ![f] = Decide(governance[f], decision)]
        BY <1>7 DEF ReviewOverApi
    <2> QED BY <1>7, <2>1, <2>2, <2>3 DEF ReviewOverApi
<1>8. CASE UNCHANGED feedback_vars
    BY <1>8 DEF feedback_vars
<1> QED BY <1>1, <1>2, <1>3, <1>4, <1>5, <1>6, <1>7, <1>8 DEF FeedbackNext

\* The inductive invariant: the request between its two writes, and the copy the
\* CLI edits, stand on what is stored (store/seekdb.py, put_feedback; cli.py).
THEOREM FeedbackInvariant == FeedbackSpec => []FeedbackInv
<1> QED BY FeedbackInvInit, FeedbackInvNext, PTL DEF FeedbackSpec

\* Every variable of the feedback store and its queue has its type.
THEOREM FeedbackTypes == FeedbackSpec => []FeedbackTypeOK
<1>1. FeedbackInv => FeedbackTypeOK
    BY DEF FeedbackInv
<1> QED BY <1>1, FeedbackInvariant, PTL

\* Every answered POST has its governance record, of the verdict stored first,
\* through crashes between the two writes, reused ids, late duplicates, and
\* reviews that write back an old copy.
THEOREM FeedbackIsGoverned == FeedbackSpec => []AnsweredIsGoverned
<1>1. FeedbackInv => AnsweredIsGoverned
    BY DEF FeedbackInv
<1> QED BY <1>1, FeedbackInvariant, PTL

-----------------------------------------------------------------------------
(* What a refresh and a research run keep while they write over each other. *)

IngestOpen == {"ingest_put", "ingest_compile"}

\* What a coroutine may rely on between its writes.
LocalsOK(r) ==
    LET me == request[r] IN
    /\ me.step \in {"fetch"} \cup Writing => me.commit \in Commits /\ me.fetched_at \in 1..MaxFetches
    /\ me.step \in {"compile", "source", "mark", "ingest_compile"} => snapshots[me.commit] # 0
    /\ me.step \in {"source", "mark"} => me.commit \in compiled
    /\ me.step \in {"ingest_source", "ingest_put", "ingest_compile"} => me.kind = "research"
    /\ me.step # "mark" => me.marked = {}

\* The source names a compiled snapshot, or one that a research run is about to
\* compile or has left uncompiled.
LatestOK ==
    latest \in compiled \cup cut
        \/ \E r \in Requests : request[r].step \in IngestOpen /\ request[r].commit = latest

\* A pack of replaced evidence is stale, or a refresh is about to mark it.
PackOK(p) ==
    packs[p].asOf \in packs[p].cites /\ packs[p].asOf # latest =>
        \/ packs[p].stale
        \/ \E r \in Requests : /\ request[r].step = "mark"
                               /\ request[r].previous = packs[p].asOf
                               /\ p \notin request[r].marked

RefreshInv ==
    /\ RefreshTypeOK
    /\ compiled \subseteq Kept
    /\ \A r \in Requests : LocalsOK(r)
    /\ LatestOK
    /\ missed \/ \A p \in Packs : PackOK(p)

-----------------------------------------------------------------------------
LEMMA StepsAreTyped ==
    /\ Writing \subseteq Step
    /\ IngestOpen \subseteq Writing
    /\ AtRest \in Locals
    /\ NoPack \in Pack
BY RefreshAssumption DEF Writing, Step, IngestOpen, AtRest, Locals, NoPack, Pack

LEMMA RefreshInvInit == RefreshInit => RefreshInv
<1> SUFFICES ASSUME RefreshInit PROVE RefreshInv
    OBVIOUS
<1> USE RefreshAssumption, StepsAreTyped DEF RefreshInit
<1>1. RefreshTypeOK
    <2>1. snapshots \in [Commits -> 0..MaxFetches + 1]
        OBVIOUS
    <2>2. packs \in [Packs -> Pack] /\ request \in [Requests -> Locals]
        OBVIOUS
    <2>3. head \in Commits /\ latest \in 0..MaxCommit /\ compiled \subseteq Commits
        BY DEF Commits
    <2>4. fetches \in 0..MaxFetches /\ refresh_crashes \in 0..MaxRefreshCrashes
        OBVIOUS
    <2>5. missed \in BOOLEAN /\ cut \subseteq Commits
        OBVIOUS
    <2> QED BY <2>1, <2>2, <2>3, <2>4, <2>5 DEF RefreshTypeOK
<1>2. compiled \subseteq Kept
    BY DEF Kept, Commits
<1>3. ASSUME NEW r \in Requests PROVE LocalsOK(r)
    BY DEF LocalsOK, AtRest, Writing
<1>4. LatestOK
    BY DEF LatestOK
<1>5. ASSUME NEW p \in Packs PROVE PackOK(p)
    BY DEF PackOK, NoPack
<1> QED BY <1>1, <1>2, <1>3, <1>4, <1>5 DEF RefreshInv

-----------------------------------------------------------------------------
(* The steps, one lemma each.                                               *)

LEMMA PushKeeps == RefreshInv /\ Push => RefreshInv'
BY RefreshAssumption
DEF RefreshInv, Push, RefreshTypeOK, LocalsOK, LatestOK, PackOK, Kept, Commits, store, history

LEMMA RequestedKeeps ==
    ASSUME NEW r \in Requests, NEW kind \in Kinds, RefreshInv, Requested(r, kind)
    PROVE  RefreshInv'
<1> USE RefreshAssumption DEF Requested, store, history
<1>1. request[r].step = "idle" /\ latest \in 0..MaxCommit
    BY DEF Reached, RefreshInv, RefreshTypeOK
<1> DEFINE new == [AtRest EXCEPT !.step = "snapshot", !.kind = kind, !.previous = latest]
<1>2. request' = [request EXCEPT ![r] = new]
    OBVIOUS
<1>3. new \in Locals /\ new.step = "snapshot" /\ new.marked = {}
    <2>1. AtRest \in Locals /\ AtRest.marked = {}
        BY StepsAreTyped DEF AtRest
    <2>2. kind \in {"refresh", "research"} /\ "snapshot" \in Step
        BY DEF Step
    <2> HIDE DEF Requested
    <2> QED BY <2>1, <2>2, <1>1 DEF Locals
<1> HIDE DEF new
<1>4. RefreshTypeOK'
    BY <1>2, <1>3 DEF RefreshInv, RefreshTypeOK
<1>5. ASSUME NEW q \in Requests PROVE LocalsOK(q)'
    BY <1>2, <1>3 DEF RefreshInv, RefreshTypeOK, LocalsOK, Writing
<1>6. LatestOK'
    BY <1>1, <1>2, <1>3 DEF RefreshInv, RefreshTypeOK, LatestOK, IngestOpen
<1>7. (missed \/ \A p \in Packs : PackOK(p))'
    BY <1>1, <1>2, <1>3 DEF RefreshInv, RefreshTypeOK, PackOK
<1>8. (compiled \subseteq Kept)'
    BY DEF RefreshInv, Kept
<1> QED BY <1>4, <1>5, <1>6, <1>7, <1>8 DEF RefreshInv

\* A coroutine that stops leaves what the others may rely on, and the packs
\* unless it was marking them.
LEMMA DoneIsTyped ==
    ASSUME NEW r \in Requests, RefreshInv, Done(r)
    PROVE  /\ request' \in [Requests -> Locals]
           /\ request'[r] = AtRest
           /\ \A q \in Requests \ {r} : request'[q] = request[q]
BY StepsAreTyped DEF Done, RefreshInv, RefreshTypeOK

LEMMA ProceedIsTyped ==
    ASSUME NEW r \in Requests, NEW to \in Step, RefreshInv, Proceed(r, to)
    PROVE  /\ request' \in [Requests -> Locals]
           /\ request'[r].step = to
           /\ request'[r].kind = request[r].kind
           /\ request'[r].previous = request[r].previous
           /\ request'[r].commit = request[r].commit
           /\ request'[r].fetched_at = request[r].fetched_at
           /\ request'[r].marked = request[r].marked
           /\ \A q \in Requests \ {r} : request'[q] = request[q]
BY DEF Proceed, RefreshInv, RefreshTypeOK, Locals

\* What a coroutine at rest relies on: nothing.
LEMMA AtRestIsSound ==
    /\ AtRest.step = "idle" /\ AtRest.marked = {}
    /\ "idle" \notin {"fetch"} \cup Writing
    /\ "idle" \notin IngestOpen
BY DEF AtRest, Writing, IngestOpen

\* A request that ends leaves uncompiled exactly what it was about to compile.
LEMMA AbandonsIsCut ==
    ASSUME NEW r \in Requests, RefreshInv
    PROVE  /\ Abandons(r) \subseteq Commits
           /\ request[r].step \in IngestOpen => request[r].commit \in compiled \cup Abandons(r)
BY StepsAreTyped DEF Abandons, IngestOpen, RefreshInv, LocalsOK

LEMMA SnapshotTakenKeeps ==
    ASSUME NEW r \in Requests, RefreshInv, SnapshotTaken(r)
    PROVE  RefreshInv'
<1> USE RefreshAssumption DEF SnapshotTaken, store, history
<1>1. /\ request[r].step = "snapshot" /\ request[r].marked = {}
      /\ head \in Commits /\ fetches \in 0..MaxFetches /\ fetches + 1 \in 1..MaxFetches
    BY DEF Reached, RefreshInv, RefreshTypeOK, LocalsOK
<1>2. fetches' \in 0..MaxFetches /\ UNCHANGED <<head, latest, snapshots, compiled, packs, refresh_crashes, missed, cut>>
    BY <1>1
<1>3. CASE Done(r)
    <2> HIDE DEF SnapshotTaken
    <2>1. /\ request' \in [Requests -> Locals] /\ request'[r] = AtRest
          /\ \A q \in Requests \ {r} : request'[q] = request[q]
        BY <1>3, DoneIsTyped
    <2>2. RefreshTypeOK'
        BY <1>2, <2>1 DEF RefreshInv, RefreshTypeOK
    <2>3. ASSUME NEW q \in Requests PROVE LocalsOK(q)'
        BY <1>2, <2>1, AtRestIsSound DEF RefreshInv, LocalsOK
    <2>4. LatestOK'
        BY <1>1, <1>2, <2>1 DEF RefreshInv, LatestOK, IngestOpen
    <2>5. (missed \/ \A p \in Packs : PackOK(p))'
        BY <1>1, <1>2, <2>1 DEF RefreshInv, PackOK
    <2> QED BY <1>2, <2>2, <2>3, <2>4, <2>5 DEF RefreshInv, Kept
<1>4. CASE request' = [request EXCEPT ![r].step = "fetch", ![r].commit = head,
                                      ![r].fetched_at = fetches + 1]
    <2>1. /\ request' \in [Requests -> Locals]
          /\ request'[r].step = "fetch" /\ request'[r].commit = head
          /\ request'[r].fetched_at = fetches + 1 /\ request'[r].marked = {}
          /\ \A q \in Requests \ {r} : request'[q] = request[q]
        <3> HIDE DEF SnapshotTaken
        <3> DEFINE new == [request[r] EXCEPT !.step = "fetch", !.commit = head,
                                             !.fetched_at = fetches + 1]
        <3>1. request[r] \in Locals /\ request \in [Requests -> Locals]
            BY DEF RefreshInv, RefreshTypeOK
        <3>2. head \in 0..MaxCommit /\ fetches + 1 \in 0..MaxFetches /\ "fetch" \in Step
            BY <1>1 DEF Commits, Step
        <3>3. /\ new \in Locals /\ new.step = "fetch" /\ new.commit = head
              /\ new.fetched_at = fetches + 1 /\ new.marked = {}
            BY <1>1, <3>1, <3>2 DEF Locals
        <3>4. request' = [request EXCEPT ![r] = new]
            BY <1>4, <3>1 DEF Locals
        <3> HIDE DEF new
        <3> QED BY <3>1, <3>3, <3>4
    <2>2. RefreshTypeOK'
        BY <1>2, <2>1 DEF RefreshInv, RefreshTypeOK
    <2>3. ASSUME NEW q \in Requests PROVE LocalsOK(q)'
        BY <1>1, <1>2, <2>1 DEF RefreshInv, LocalsOK, Writing
    <2>4. LatestOK'
        BY <1>1, <1>2, <2>1 DEF RefreshInv, LatestOK, IngestOpen
    <2>5. (missed \/ \A p \in Packs : PackOK(p))'
        BY <1>1, <1>2, <2>1 DEF RefreshInv, PackOK
    <2> QED BY <1>2, <2>2, <2>3, <2>4, <2>5 DEF RefreshInv, Kept
<1> QED BY <1>3, <1>4 DEF Done

LEMMA FetchedKeeps ==
    ASSUME NEW r \in Requests, RefreshInv, Fetched(r)
    PROVE  RefreshInv'
<1> USE DEF Fetched, store, history
<1>1. request[r].step = "fetch"
    BY DEF Reached
<1>2. UNCHANGED <<head, latest, snapshots, compiled, packs, fetches, refresh_crashes, missed, cut>>
    OBVIOUS
<1>3. request[r].marked = {} /\ request[r].kind \in {"refresh", "research"}
    BY <1>1 DEF RefreshInv, RefreshTypeOK, LocalsOK, Locals
<1>4. CASE Done(r)
    <2>1. /\ request' \in [Requests -> Locals] /\ request'[r] = AtRest
          /\ \A q \in Requests \ {r} : request'[q] = request[q]
        BY <1>4, DoneIsTyped
    <2>2. ASSUME NEW q \in Requests PROVE LocalsOK(q)'
        BY <1>2, <2>1, AtRestIsSound DEF RefreshInv, LocalsOK
    <2>3. LatestOK'
        BY <1>1, <1>2, <2>1 DEF RefreshInv, LatestOK, IngestOpen
    <2>4. (missed \/ \A p \in Packs : PackOK(p))'
        BY <1>1, <1>2, <2>1 DEF RefreshInv, PackOK
    <2> QED BY <1>2, <2>1, <2>2, <2>3, <2>4 DEF RefreshInv, RefreshTypeOK, Kept
<1>5. CASE Proceed(r, IF request[r].kind = "refresh" THEN "put" ELSE "ingest_source")
    <2>1. PICK to \in Step :
             /\ Proceed(r, to)
             /\ to = IF request[r].kind = "refresh" THEN "put" ELSE "ingest_source"
        BY <1>5 DEF Step
    <2>2. /\ request' \in [Requests -> Locals] /\ request'[r].step = to
          /\ request'[r].kind = request[r].kind
          /\ request'[r].commit = request[r].commit
          /\ request'[r].fetched_at = request[r].fetched_at
          /\ request'[r].marked = request[r].marked
          /\ \A q \in Requests \ {r} : request'[q] = request[q]
        BY <2>1, ProceedIsTyped
    <2>3. ASSUME NEW q \in Requests PROVE LocalsOK(q)'
        BY <1>1, <1>2, <1>3, <2>1, <2>2 DEF RefreshInv, LocalsOK, Writing
    <2>4. LatestOK'
        BY <1>1, <1>2, <2>2 DEF RefreshInv, LatestOK, IngestOpen
    <2>5. (missed \/ \A p \in Packs : PackOK(p))'
        BY <1>1, <1>2, <2>2 DEF RefreshInv, PackOK
    <2> QED BY <1>2, <2>2, <2>3, <2>4, <2>5 DEF RefreshInv, RefreshTypeOK, Kept
<1> QED BY <1>4, <1>5

\* A stored snapshot stays what it is (put_snapshot refuses another record).
LEMMA PutKeepsHistory ==
    ASSUME NEW r \in Requests, NEW from \in {"put", "ingest_put"}, NEW to \in Step,
           RefreshInv, PutSnapshot(r, from, to)
    PROVE  /\ \A c \in Kept : snapshots'[c] = snapshots[c]
           /\ snapshots' \in [Commits -> 0..MaxFetches + 1]
           /\ Kept \subseteq Kept'
<1>1. request[r].commit \in Commits /\ request[r].fetched_at \in 1..MaxFetches
    BY DEF RefreshInv, LocalsOK, PutSnapshot, Reached, Writing
<1>2. request[r].fetched_at \in 0..MaxFetches + 1 /\ request[r].fetched_at # 0
    BY <1>1, RefreshAssumption
<1>3. snapshots \in [Commits -> 0..MaxFetches + 1]
    BY DEF RefreshInv, RefreshTypeOK
<1>4. CASE UNCHANGED snapshots
    BY <1>3, <1>4 DEF Kept
<1>5. CASE /\ snapshots[request[r].commit] \in {0, request[r].fetched_at}
           /\ snapshots' = [snapshots EXCEPT ![request[r].commit] = request[r].fetched_at]
    BY <1>1, <1>2, <1>3, <1>5 DEF Kept
<1> QED BY <1>4, <1>5 DEF PutSnapshot

LEMMA PutSnapshotKeeps ==
    ASSUME NEW r \in Requests, NEW from, NEW to, RefreshInv, PutSnapshot(r, from, to),
           <<from, to>> \in {<<"put", "compile">>, <<"ingest_put", "ingest_compile">>}
    PROVE  RefreshInv'
<1>1. from \in {"put", "ingest_put"} /\ to \in Step /\ request[r].step = from
    BY DEF PutSnapshot, Reached, Step
<1>2. /\ \A c \in Kept : snapshots'[c] = snapshots[c]
      /\ snapshots' \in [Commits -> 0..MaxFetches + 1]
      /\ Kept \subseteq Kept'
    BY <1>1, PutKeepsHistory
<1>3. UNCHANGED <<head, latest, compiled, packs, fetches, refresh_crashes, missed>>
    BY DEF PutSnapshot
<1>4. /\ request[r].commit \in Commits /\ request[r].fetched_at # 0 /\ request[r].marked = {}
      /\ from = "ingest_put" => request[r].kind = "research"
    BY <1>1, RefreshAssumption DEF RefreshInv, LocalsOK, Writing
<1>5. \A q \in Requests :
         LocalsOK(q) /\ request[q].step \in {"compile", "source", "mark", "ingest_compile"}
            => snapshots'[request[q].commit] # 0
    BY <1>2, RefreshAssumption DEF LocalsOK, Kept, Writing
<1>6. CASE Proceed(r, to) /\ UNCHANGED cut
           /\ snapshots' = [snapshots EXCEPT ![request[r].commit] = request[r].fetched_at]
    <2>1. /\ request' \in [Requests -> Locals] /\ request'[r].step = to
          /\ request'[r].kind = request[r].kind
          /\ request'[r].commit = request[r].commit
          /\ request'[r].fetched_at = request[r].fetched_at
          /\ request'[r].marked = request[r].marked
          /\ \A q \in Requests \ {r} : request'[q] = request[q]
        BY <1>1, <1>6, ProceedIsTyped
    <2>2. snapshots'[request[r].commit] # 0
        BY <1>4, <1>6 DEF RefreshInv, RefreshTypeOK
    <2>3. ASSUME NEW q \in Requests PROVE LocalsOK(q)'
        BY <1>1, <1>3, <1>4, <1>5, <2>1, <2>2 DEF RefreshInv, LocalsOK, Writing
    <2>4. LatestOK'
        BY <1>1, <1>3, <1>6, <2>1 DEF RefreshInv, LatestOK, IngestOpen
    <2>5. (missed \/ \A p \in Packs : PackOK(p))'
        BY <1>1, <1>3, <2>1 DEF RefreshInv, PackOK
    <2>6. RefreshTypeOK'
        BY <1>2, <1>3, <1>6, <2>1 DEF RefreshInv, RefreshTypeOK
    <2> QED BY <1>2, <1>3, <2>3, <2>4, <2>5, <2>6 DEF RefreshInv
<1>7. CASE /\ Done(r) /\ UNCHANGED snapshots
           /\ cut' = cut \cup Abandons(r)
    <2>1. /\ request' \in [Requests -> Locals] /\ request'[r] = AtRest
          /\ \A q \in Requests \ {r} : request'[q] = request[q]
        BY <1>7, DoneIsTyped
    <2>2. ASSUME NEW q \in Requests PROVE LocalsOK(q)'
        BY <1>3, <1>7, <2>1, AtRestIsSound DEF RefreshInv, LocalsOK
    <2>3. LatestOK'
        BY <1>1, <1>3, <1>7, <2>1, AbandonsIsCut DEF RefreshInv, LatestOK
    <2>4. (missed \/ \A p \in Packs : PackOK(p))'
        BY <1>1, <1>3, <2>1 DEF RefreshInv, PackOK
    <2>5. RefreshTypeOK'
        <3>1. cut' \subseteq Commits
            BY <1>7, AbandonsIsCut DEF RefreshInv, RefreshTypeOK
        <3> QED BY <1>2, <1>3, <2>1, <3>1 DEF RefreshInv, RefreshTypeOK
    <2> QED BY <1>2, <1>3, <2>2, <2>3, <2>4, <2>5 DEF RefreshInv
<1> QED BY <1>6, <1>7 DEF PutSnapshot

\* A compilation that succeeds.
LEMMA CompiledKeeps ==
    ASSUME NEW r \in Requests, NEW from, NEW to, RefreshInv, Reached(r, from),
           compiled' = compiled \cup {request[r].commit},
           IF to = "idle" THEN Done(r) ELSE Proceed(r, to),
           UNCHANGED <<head, latest, snapshots, packs, fetches, refresh_crashes, missed, cut>>,
           <<from, to>> \in {<<"compile", "source">>, <<"ingest_compile", "idle">>}
    PROVE  RefreshInv'
<1>1. request[r].step = from /\ from \in Writing /\ to \in Step
    BY DEF Reached, Writing, Step
<1>2. UNCHANGED <<head, latest, snapshots, packs, fetches, refresh_crashes, missed, cut>>
    OBVIOUS
<1>3. /\ request[r].commit \in Kept /\ request[r].marked = {} /\ Kept \subseteq Commits
      /\ compiled' = compiled \cup {request[r].commit}
    BY <1>1 DEF RefreshInv, LocalsOK, Kept
<1>4. \A q \in Requests : request'[q] = request[q] => LocalsOK(q)'
    BY <1>2, <1>3 DEF RefreshInv, LocalsOK
<1>5. (compiled \subseteq Kept)' /\ (compiled \subseteq Commits)'
    BY <1>2, <1>3 DEF RefreshInv, Kept
<1>6. CASE to = "idle" /\ Done(r)
    <2>1. /\ request' \in [Requests -> Locals] /\ request'[r] = AtRest
          /\ \A q \in Requests \ {r} : request'[q] = request[q]
        BY <1>6, DoneIsTyped
    <2>2. LocalsOK(r)'
        BY <2>1, AtRestIsSound DEF LocalsOK
    <2>3. LatestOK'
        BY <1>2, <1>3, <2>1 DEF RefreshInv, LatestOK
    <2>4. (missed \/ \A p \in Packs : PackOK(p))'
        BY <1>1, <1>2, <1>3, <2>1 DEF RefreshInv, PackOK
    <2> QED BY <1>2, <1>4, <1>5, <2>1, <2>2, <2>3, <2>4 DEF RefreshInv, RefreshTypeOK
<1>7. CASE to = "source" /\ Proceed(r, to)
    <2>1. /\ request' \in [Requests -> Locals] /\ request'[r].step = to
          /\ request'[r].commit = request[r].commit
          /\ request'[r].fetched_at = request[r].fetched_at
          /\ request'[r].marked = request[r].marked
          /\ \A q \in Requests \ {r} : request'[q] = request[q]
        BY <1>1, <1>7, ProceedIsTyped
    <2>2. LocalsOK(r) /\ from = "compile"
        BY <1>7 DEF RefreshInv
    <2>3. LocalsOK(r)'
        BY <1>1, <1>2, <1>3, <1>7, <2>1, <2>2 DEF LocalsOK, Writing
    <2>4. LatestOK'
        BY <1>1, <1>2, <1>3, <2>1 DEF RefreshInv, LatestOK
    <2>5. (missed \/ \A p \in Packs : PackOK(p))'
        BY <1>1, <1>2, <1>3, <1>7, <2>1 DEF RefreshInv, PackOK
    <2> QED BY <1>2, <1>4, <1>5, <2>1, <2>3, <2>4, <2>5 DEF RefreshInv, RefreshTypeOK
<1> QED BY <1>6, <1>7

\* One that raises ends its request, with nothing more compiled.
LEMMA CompileRaisesKeeps ==
    ASSUME NEW r \in Requests, RefreshInv, request[r].step # "mark", Done(r),
           cut' = cut \cup Abandons(r),
           UNCHANGED <<head, latest, snapshots, compiled, packs, fetches, refresh_crashes, missed>>
    PROVE  RefreshInv'
<1>1. /\ request' \in [Requests -> Locals] /\ request'[r] = AtRest
      /\ \A q \in Requests \ {r} : request'[q] = request[q]
    BY DoneIsTyped
<1>2. ASSUME NEW q \in Requests PROVE LocalsOK(q)'
    BY <1>1, AtRestIsSound DEF RefreshInv, LocalsOK
<1>3. LatestOK'
    BY <1>1, AbandonsIsCut DEF RefreshInv, LatestOK
<1>4. (missed \/ \A p \in Packs : PackOK(p))'
    BY <1>1 DEF RefreshInv, PackOK
<1>5. cut' \subseteq Commits
    BY AbandonsIsCut DEF RefreshInv, RefreshTypeOK
<1> QED BY <1>1, <1>2, <1>3, <1>4, <1>5 DEF RefreshInv, RefreshTypeOK, Kept

LEMMA CompileAllKeeps ==
    ASSUME NEW r \in Requests, NEW from, NEW to, RefreshInv, CompileAll(r, from, to),
           <<from, to>> \in {<<"compile", "source">>, <<"ingest_compile", "idle">>}
    PROVE  RefreshInv'
<1>1. request[r].step # "mark"
    BY DEF CompileAll, Reached
<1> QED BY <1>1, CompiledKeeps, CompileRaisesKeeps DEF CompileAll

LEMMA SourceWrittenKeeps ==
    ASSUME NEW r \in Requests, NEW from, NEW to, RefreshInv, SourceWritten(r, from, to),
           <<from, to>> \in {<<"source", "mark">>, <<"ingest_source", "ingest_put">>}
    PROVE  RefreshInv'
<1>1. request[r].step = from /\ from \in Writing /\ to \in Step /\ Proceed(r, to)
    BY DEF SourceWritten, Reached, Writing, Step
<1>2. UNCHANGED <<head, snapshots, compiled, packs, fetches, refresh_crashes, cut>>
    BY DEF SourceWritten
<1>3. /\ request[r].commit \in Commits /\ request[r].fetched_at \in 1..MaxFetches
      /\ request[r].marked = {} /\ latest' = request[r].commit
      /\ from = "source" => request[r].commit \in compiled /\ snapshots[request[r].commit] # 0
      /\ from = "ingest_source" => request[r].kind = "research"
    BY <1>1 DEF RefreshInv, LocalsOK, SourceWritten, Writing
<1>4. /\ request' \in [Requests -> Locals] /\ request'[r].step = to
      /\ request'[r].kind = request[r].kind
      /\ request'[r].previous = request[r].previous
      /\ request'[r].commit = request[r].commit
      /\ request'[r].fetched_at = request[r].fetched_at
      /\ request'[r].marked = request[r].marked
      /\ \A q \in Requests \ {r} : request'[q] = request[q]
    BY <1>1, ProceedIsTyped
<1>5. RefreshTypeOK'
    <2>1. latest' \in 0..MaxCommit
        BY <1>3, RefreshAssumption DEF Commits
    <2>2. missed' \in BOOLEAN
        BY DEF SourceWritten
    <2> QED BY <1>2, <1>4, <2>1, <2>2 DEF RefreshInv, RefreshTypeOK
<1>6. ASSUME NEW q \in Requests PROVE LocalsOK(q)'
    <2>1. CASE q = r
        BY <1>2, <1>3, <1>4, <2>1 DEF LocalsOK, Writing
    <2>2. CASE q # r
        BY <1>2, <1>4, <2>2 DEF RefreshInv, LocalsOK
    <2> QED BY <2>1, <2>2
<1>7. LatestOK'
    BY <1>2, <1>3, <1>4 DEF LatestOK, IngestOpen
<1>8. ASSUME ~missed', NEW p \in Packs PROVE PackOK(p)'
    <2>1. PackOK(p) /\ packs' = packs
        BY <1>2, <1>8 DEF RefreshInv, SourceWritten
    <2>2. CASE latest' = latest
        BY <1>1, <1>4, <2>1, <2>2 DEF PackOK
    <2>3. CASE latest' # latest
        <3>1. request[r].kind # "research" /\ request[r].previous = latest
            BY <1>8, <2>3 DEF SourceWritten
        <3>2. to = "mark" /\ from = "source"
            BY <1>3, <3>1
        <3>3. CASE packs[p].asOf = latest
            BY <1>3, <1>4, <2>1, <3>1, <3>2, <3>3 DEF PackOK
        <3>4. CASE packs[p].asOf # latest
            BY <1>1, <1>4, <2>1, <3>2, <3>4 DEF PackOK
        <3> QED BY <3>3, <3>4
    <2> QED BY <2>2, <2>3
<1>9. (compiled \subseteq Kept)'
    BY <1>2 DEF RefreshInv, Kept
<1> QED BY <1>5, <1>6, <1>7, <1>8, <1>9 DEF RefreshInv

LEMMA MarkStaleKeeps ==
    ASSUME NEW r \in Requests, RefreshInv, MarkStale(r)
    PROVE  RefreshInv'
<1>1. request[r].step = "mark"
    BY DEF MarkStale, Reached
<1>2. UNCHANGED <<head, latest, snapshots, compiled, fetches, refresh_crashes, missed, cut>>
    BY DEF MarkStale, history
<1>3. CASE \E p \in Outdated(r) \ request[r].marked :
             /\ packs' = [packs EXCEPT ![p].stale = TRUE]
             /\ request' = [request EXCEPT ![r].marked = @ \cup {p}]
    <2>1. PICK p \in Packs :
             /\ packs' = [packs EXCEPT ![p].stale = TRUE]
             /\ request' = [request EXCEPT ![r].marked = @ \cup {p}]
        BY <1>3 DEF Outdated
    <2>2. packs \in [Packs -> Pack] /\ request \in [Requests -> Locals]
        BY DEF RefreshInv, RefreshTypeOK
    <2>3. /\ packs' \in [Packs -> Pack]
          /\ packs'[p].stale
          /\ \A o \in Packs : packs'[o].asOf = packs[o].asOf /\ packs'[o].cites = packs[o].cites
          /\ \A o \in Packs \ {p} : packs'[o] = packs[o]
        BY <2>1, <2>2 DEF Pack
    <2>4. /\ request' \in [Requests -> Locals]
          /\ request'[r].marked = request[r].marked \cup {p}
          /\ \A q \in Requests : /\ request'[q].step = request[q].step
                                 /\ request'[q].kind = request[q].kind
                                 /\ request'[q].previous = request[q].previous
                                 /\ request'[q].commit = request[q].commit
                                 /\ request'[q].fetched_at = request[q].fetched_at
          /\ \A q \in Requests \ {r} : request'[q] = request[q]
        BY <2>1, <2>2 DEF Locals
    <2>5. ASSUME NEW q \in Requests PROVE LocalsOK(q)'
        BY <1>1, <1>2, <2>4 DEF RefreshInv, LocalsOK
    <2>6. LatestOK'
        BY <1>2, <2>4 DEF RefreshInv, LatestOK
    <2>7. ASSUME NEW o \in Packs, PackOK(o) PROVE PackOK(o)'
        <3>1. CASE o = p
            BY <2>3, <3>1 DEF PackOK
        <3>2. CASE o # p
            BY <1>2, <2>3, <2>4, <2>7, <3>2 DEF PackOK
        <3> QED BY <3>1, <3>2
    <2> QED BY <1>2, <2>3, <2>4, <2>5, <2>6, <2>7 DEF RefreshInv, RefreshTypeOK, Kept
<1>4. CASE Outdated(r) \subseteq request[r].marked /\ Done(r) /\ UNCHANGED packs
    <2>1. /\ request' \in [Requests -> Locals] /\ request'[r] = AtRest
          /\ \A q \in Requests \ {r} : request'[q] = request[q]
        BY <1>4, DoneIsTyped
    <2>2. ASSUME NEW q \in Requests PROVE LocalsOK(q)'
        BY <1>2, <2>1, AtRestIsSound DEF RefreshInv, LocalsOK
    <2>3. LatestOK'
        BY <1>1, <1>2, <2>1 DEF RefreshInv, LatestOK, IngestOpen
    <2>4. ASSUME NEW p \in Packs, PackOK(p) PROVE PackOK(p)'
        BY <1>2, <1>4, <2>1, <2>4 DEF PackOK, Outdated
    <2> QED BY <1>2, <1>4, <2>1, <2>2, <2>3, <2>4 DEF RefreshInv, RefreshTypeOK, Kept
<1> QED BY <1>3, <1>4 DEF MarkStale

LEMMA BuildPackKeeps ==
    ASSUME NEW p \in Packs, RefreshInv, BuildPack(p)
    PROVE  RefreshInv'
<1>1. PICK S \in SUBSET compiled :
         packs' = [packs EXCEPT ![p] = [cites |-> S, stale |-> FALSE, asOf |-> latest]]
    BY DEF BuildPack
<1>2. UNCHANGED <<head, latest, snapshots, compiled, request, fetches, refresh_crashes, missed, cut>>
    BY DEF BuildPack, history
<1>3. [cites |-> S, stale |-> FALSE, asOf |-> latest] \in Pack
    BY DEF RefreshInv, RefreshTypeOK, Pack
<1>4. packs' \in [Packs -> Pack] /\ packs'[p].asOf = latest
      /\ \A o \in Packs \ {p} : packs'[o] = packs[o]
    BY <1>1, <1>3 DEF RefreshInv, RefreshTypeOK
<1>5. ASSUME NEW o \in Packs, PackOK(o) PROVE PackOK(o)'
    BY <1>2, <1>4, <1>5 DEF PackOK
<1> QED BY <1>2, <1>4, <1>5 DEF RefreshInv, RefreshTypeOK, LocalsOK, LatestOK, Kept

LEMMA RefreshCrashKeeps == RefreshInv /\ RefreshCrash => RefreshInv'
<1> SUFFICES ASSUME RefreshInv, RefreshCrash PROVE RefreshInv'
    OBVIOUS
<1>1. UNCHANGED <<head, latest, snapshots, compiled, packs, fetches>>
    BY DEF RefreshCrash, store
<1>2. request' = [r \in Requests |-> AtRest] /\ request' \in [Requests -> Locals]
    BY StepsAreTyped DEF RefreshCrash
<1>3. refresh_crashes' \in 0..MaxRefreshCrashes /\ missed' \in BOOLEAN /\ cut' \subseteq Commits
    BY RefreshAssumption, AbandonsIsCut DEF RefreshCrash, RefreshInv, RefreshTypeOK
<1>4. ASSUME NEW r \in Requests PROVE LocalsOK(r)'
    BY <1>2, AtRestIsSound DEF LocalsOK
<1>5. LatestOK'
    <2>1. cut \subseteq cut' /\ \A r \in Requests : Abandons(r) \subseteq cut'
        BY DEF RefreshCrash
    <2>2. ASSUME NEW r \in Requests, request[r].step \in IngestOpen, request[r].commit = latest
          PROVE  latest \in compiled \cup cut'
        BY <2>1, <2>2, AbandonsIsCut
    <2> QED BY <1>1, <2>1, <2>2 DEF RefreshInv, LatestOK
<1>6. ASSUME ~missed', NEW p \in Packs PROVE PackOK(p)'
    BY <1>1, <1>6 DEF RefreshInv, PackOK, RefreshCrash
<1> QED BY <1>1, <1>2, <1>3, <1>4, <1>5, <1>6 DEF RefreshInv, RefreshTypeOK, Kept

-----------------------------------------------------------------------------
LEMMA RefreshInvNext == RefreshInv /\ [RefreshNext]_refresh_vars => RefreshInv'
<1> SUFFICES ASSUME RefreshInv, [RefreshNext]_refresh_vars PROVE RefreshInv'
    OBVIOUS
<1>1. CASE Push
    BY <1>1, PushKeeps
<1>2. ASSUME NEW r \in Requests, NEW kind \in Kinds, Requested(r, kind) PROVE RefreshInv'
    BY <1>2, RequestedKeeps
<1>3. ASSUME NEW r \in Requests, SnapshotTaken(r) \/ Fetched(r) PROVE RefreshInv'
    BY <1>3, SnapshotTakenKeeps, FetchedKeeps
<1>4. ASSUME NEW r \in Requests, RefreshWrites(r) PROVE RefreshInv'
    BY <1>4, PutSnapshotKeeps, CompileAllKeeps, SourceWrittenKeeps, MarkStaleKeeps DEF RefreshWrites
<1>5. ASSUME NEW r \in Requests, IngestWrites(r) PROVE RefreshInv'
    BY <1>5, PutSnapshotKeeps, CompileAllKeeps, SourceWrittenKeeps DEF IngestWrites
<1>6. ASSUME NEW p \in Packs, BuildPack(p) PROVE RefreshInv'
    BY <1>6, BuildPackKeeps
<1>7. CASE RefreshCrash
    BY <1>7, RefreshCrashKeeps
<1>8. CASE UNCHANGED refresh_vars
    BY <1>8 DEF refresh_vars, history, RefreshInv, RefreshTypeOK, LocalsOK, LatestOK, PackOK, Kept
<1> QED BY <1>1, <1>2, <1>3, <1>4, <1>5, <1>6, <1>7, <1>8 DEF RefreshNext

\* The inductive invariant: what a coroutine of operations.py or orchestrator.py
\* has read or written is still true at its next write.
THEOREM RefreshInvariant == RefreshSpec => []RefreshInv
<1> QED BY RefreshInvInit, RefreshInvNext, PTL DEF RefreshSpec

\* Every variable of the store and of the coroutines has its type.
THEOREM RefreshTypes == RefreshSpec => []RefreshTypeOK
<1>1. RefreshInv => RefreshTypeOK
    BY DEF RefreshInv
<1> QED BY <1>1, RefreshInvariant, PTL

\* Whenever another request can look, the snapshot the source record names is
\* stored and compiled, or was named by a research run that ended, killed, refused
\* or raising, before it had compiled it.
THEOREM SourceIsCompiled == RefreshSpec => []CurrentIsCompiled
<1>1. RefreshInv => CurrentIsCompiled
    BY DEF RefreshInv, LatestOK, CurrentIsCompiled, Calm, IngestOpen, Writing
<1> QED BY <1>1, RefreshInvariant, PTL

\* Packs of replaced evidence are stale, however many requests, packs and
\* commits there are, as long as no replacement escaped the marking.
THEOREM ReplacedIsStale == RefreshSpec => []ReplacedEvidenceIsStale
<1>1. RefreshInv => ReplacedEvidenceIsStale
    BY DEF RefreshInv, PackOK, ReplacedEvidenceIsStale, ReplacedPacksAreStale, Calm, Writing
<1> QED BY <1>1, RefreshInvariant, PTL

\* No request alters or loses a stored snapshot.
THEOREM SnapshotsAreHistory == RefreshSpec => HistoryPreserved
<1>1. RefreshInv /\ [RefreshNext]_refresh_vars
        => [\A c \in Kept : snapshots'[c] = snapshots[c]]_refresh_vars
    <2> SUFFICES ASSUME RefreshInv, RefreshNext
                 PROVE  \A c \in Kept : snapshots'[c] = snapshots[c]
        OBVIOUS
    <2>1. ASSUME NEW r \in Requests, RefreshWrites(r) \/ IngestWrites(r)
          PROVE  \A c \in Kept : snapshots'[c] = snapshots[c]
        <3>1. CASE PutSnapshot(r, "put", "compile") \/ PutSnapshot(r, "ingest_put", "ingest_compile")
            <4>1. "compile" \in Step /\ "ingest_compile" \in Step
                BY DEF Step
            <4> QED BY <3>1, <4>1, PutKeepsHistory
        <3>2. CASE UNCHANGED snapshots
            BY <3>2
        <3> QED BY <2>1, <3>1, <3>2
            DEF RefreshWrites, IngestWrites, CompileAll, SourceWritten, MarkStale
    <2>2. CASE UNCHANGED snapshots
        BY <2>2
    <2> QED BY <2>1, <2>2
        DEF RefreshNext, Push, Requested, SnapshotTaken, Fetched, BuildPack, RefreshCrash, store
<1> QED BY <1>1, RefreshInvariant, PTL DEF RefreshSpec, HistoryPreserved

-----------------------------------------------------------------------------
(* For any texts, statuses, dimensions and shapes of embeddings: the        *)
(* indexes agree with the committed unit.                                   *)

\* The first n embeddings of a unit are those of its text.
FieldsDone(unit, n) ==
    \A i \in 1..4 : i < n => LET f == VECTOR_FIELDS[i] IN
        unit.vectors[f] = None \/ vector[f][unit.vectors[f]] = unit.text

\* The first n analyzers have the text of a unit, or are reported.
TextsDone(unit, n) ==
    \A i \in 1..3 : i < n => LET a == FULLTEXT_ANALYZERS[i] IN
        a \in degraded \/ fulltext[a] = unit.text

RowDone(unit) ==
    \/ "native_hybrid_sql" \in degraded \/ NativeDim(unit) = None
    \/ native[NativeDim(unit)] # None /\ native[NativeDim(unit)].text = unit.text

\* How far the call has come, and what it has written by then.
CallOK ==
    /\ put.step = "idle" <=> put = Resting
    /\ put.step # "idle" => put.unit \in Unit
    /\ put.mode = "first" => base = None
    /\ put.mode = "kept" => put.step \in {"idle", "base"}
    /\ put.mode = "kept" /\ put.step = "base" =>
          base # None /\ put.unit.text = base.text /\ put.unit.vectors = base.vectors
    /\ put.mode # "kept" =>
          /\ put.step \in {"vectors", "fulltext", "native", "base"}
          /\ put.step = "vectors" => FieldsDone(put.unit, put.next)
          /\ put.step \in {"fulltext", "native", "base"} => FieldsDone(put.unit, 5)
          /\ put.step = "fulltext" => put.next <= 4 /\ TextsDone(put.unit, put.next)
          /\ put.step \in {"native", "base"} => TextsDone(put.unit, 4)
          /\ put.step = "native" => NativeDim(put.unit) # None
          /\ put.step = "base" => RowDone(put.unit)

\* The committed unit, while no call is rewriting its indexes.
CommittedOK ==
    ~torn /\ put.mode = "kept" /\ base # None =>
        /\ FieldsDone(base, 5)
        /\ crashes = 0 => TextsDone(base, 4) /\ RowDone(base)

UnitInv == TypeOK /\ Features \ opened \subseteq degraded /\ CallOK /\ CommittedOK

-----------------------------------------------------------------------------
LEMMA FieldNames ==
    /\ DOMAIN VECTOR_FIELDS = 1..4 /\ Len(VECTOR_FIELDS) = 4
    /\ Fields = {"problem", "mechanism", "content", "code"}
    /\ \A i \in 1..4 : VECTOR_FIELDS[i] \in Fields
    /\ \A f \in Fields : \E i \in 1..4 : f = VECTOR_FIELDS[i]
    /\ \A i, j \in 1..4 : VECTOR_FIELDS[i] = VECTOR_FIELDS[j] => i = j
BY DEF VECTOR_FIELDS, Fields

LEMMA AnalyzerNames ==
    /\ DOMAIN FULLTEXT_ANALYZERS = 1..3 /\ Len(FULLTEXT_ANALYZERS) = 3
    /\ Analyzers = {"ngram", "beng", "ik"}
    /\ \A i \in 1..3 : FULLTEXT_ANALYZERS[i] \in Analyzers
    /\ \A a \in Analyzers : \E i \in 1..3 : a = FULLTEXT_ANALYZERS[i]
    /\ \A i, j \in 1..3 : FULLTEXT_ANALYZERS[i] = FULLTEXT_ANALYZERS[j] => i = j
    /\ Features = {"ngram", "beng", "ik", "native_hybrid_sql"}
BY DEF FULLTEXT_ANALYZERS, Analyzers, Features

\* The native row is in the table of a dimension, if the unit has embeddings.
LEMMA NativeDimIsDim ==
    ASSUME NEW unit \in Unit
    PROVE  NativeDim(unit) \in Dims \cup {None}
<1> DEFINE given == {i \in DOMAIN NATIVE_FIELDS : unit.vectors[NATIVE_FIELDS[i]] # None}
           first == CHOOSE i \in given : \A j \in given : i <= j
<1>1. /\ DOMAIN NATIVE_FIELDS = 1..4
      /\ \A i \in 1..4 : NATIVE_FIELDS[i] \in Fields
    BY FieldNames DEF NATIVE_FIELDS
<1>2. unit.vectors \in [Fields -> Dims \cup {None}]
    BY UnitAssumption DEF Unit
<1>3. ASSUME given # {} PROVE \E i \in given : \A j \in given : i <= j
    BY <1>1, <1>3
<1>4. ASSUME given # {} PROVE first \in 1..4
    BY <1>1, <1>3, <1>4
<1> QED BY <1>1, <1>2, <1>4 DEF NativeDim

LEMMA UnitInvInit == Init => UnitInv
<1> SUFFICES ASSUME Init PROVE UnitInv
    OBVIOUS
<1> USE UnitAssumption DEF Init
<1>1. TypeOK
    <2>1. vector \in [Fields -> [Dims -> Stored(Texts)]] /\ fulltext \in [Analyzers -> Stored(Texts)]
          /\ native \in [Dims -> Stored([text: Texts, status: Statuses])]
        BY DEF Stored
    <2>2. put \in [unit: Stored(Unit), step: {"idle", "vectors", "fulltext", "native", "base"},
                   next: 1..5, mode: {"first", "update", "kept"}]
        BY DEF Stored, Resting
    <2>3. base \in Stored(Unit) /\ torn \in BOOLEAN
        BY DEF Stored
    <2>4. opened \in Opens /\ degraded \subseteq Features
        OBVIOUS
    <2>5. puts \in 0..MaxPuts /\ faults \in 0..MaxFaults /\ crashes \in 0..MaxCrashes
        OBVIOUS
    <2> HIDE DEF Init
    <2> QED BY <2>1, <2>2, <2>3, <2>4, <2>5 DEF TypeOK
<1>2. CallOK
    BY DEF CallOK, Resting
<1> QED BY <1>1, <1>2 DEF UnitInv, CommittedOK

-----------------------------------------------------------------------------
(* The steps.                                                               *)

Calls == [unit: Stored(Unit), step: {"idle", "vectors", "fulltext", "native", "base"},
          next: 1..5, mode: {"first", "update", "kept"}]

LEMMA RestingIsCall ==
    /\ Resting \in Calls
    /\ Resting.step = "idle" /\ Resting.mode = "kept" /\ Resting.next = 1
BY DEF Resting, Calls, Stored

LEMMA BeginKeeps ==
    ASSUME NEW unit \in Unit, UnitInv, Begin(unit)
    PROVE  UnitInv'
<1> USE UnitAssumption DEF Begin
<1>1. UNCHANGED <<base, indexes, opened, degraded, faults, crashes, torn>> /\ put = Resting
    OBVIOUS
<1>2. puts' \in 0..MaxPuts
    BY DEF UnitInv, TypeOK
<1>7. unit \in Stored(Unit)
    BY DEF Stored
<1>3. CASE base # None /\ base.text = unit.text
    <2> DEFINE kept == [unit EXCEPT !.vectors = base.vectors]
    <2>1. base \in Unit
        BY <1>3 DEF UnitInv, TypeOK, Stored
    <2>2. kept \in Unit /\ kept.text = base.text /\ kept.vectors = base.vectors
        BY <1>3, <2>1 DEF Unit
    <2>3. put' = [Resting EXCEPT !.unit = kept, !.step = "base"]
        BY <1>3
    <2>8. kept \in Stored(Unit)
        BY <2>2 DEF Stored
    <2> HIDE DEF kept, Begin
    <2>4. /\ put' \in Calls /\ put'.unit = kept /\ put'.step = "base" /\ put'.mode = "kept"
        BY <2>8, <2>3, RestingIsCall DEF Calls
    <2>5. TypeOK'
        BY <1>1, <1>2, <2>4 DEF UnitInv, TypeOK, Calls, indexes, Stored
    <2>6. CallOK'
        BY <1>1, <1>3, <2>2, <2>4, RestingIsCall DEF CallOK
    <2>7. CommittedOK'
        BY <1>1, RestingIsCall DEF UnitInv, CommittedOK, FieldsDone, TextsDone, RowDone, indexes
    <2> QED BY <1>1, <2>5, <2>6, <2>7 DEF UnitInv
<1>4. CASE ~(base # None /\ base.text = unit.text)
    <2>1. put' = [Resting EXCEPT !.unit = unit, !.step = "vectors",
                                 !.mode = IF base = None THEN "first" ELSE "update"]
        BY <1>4
    <2> HIDE DEF Begin
    <2>2. /\ put' \in Calls /\ put'.unit = unit /\ put'.step = "vectors" /\ put'.next = 1
          /\ put'.mode = IF base = None THEN "first" ELSE "update"
        BY <1>7, <2>1, RestingIsCall DEF Calls
    <2>9. FieldsDone(put.unit, put.next)'
        BY <2>2 DEF FieldsDone
    <2>3. TypeOK'
        BY <1>1, <1>2, <2>2 DEF UnitInv, TypeOK, Calls, indexes, Stored
    <2>4. CallOK'
        BY <1>1, <2>2, <2>9, RestingIsCall DEF CallOK
    <2>5. CommittedOK'
        BY <2>2 DEF CommittedOK
    <2> QED BY <1>1, <2>3, <2>4, <2>5 DEF UnitInv
<1> QED BY <1>3, <1>4

\* A call that ends by an exception or a kill: of an update it leaves a torn
\* unit, of a first put none, of a kept one what was there.
LEMMA EndedKeeps ==
    ASSUME UnitInv, TypeOK', put' = Resting, base' = base,
           Features \ opened' \subseteq degraded',
           torn' = (torn \/ put.mode = "update"),
           put.mode = "kept" => UNCHANGED indexes,
           crashes' = 0 => crashes = 0 /\ degraded' = degraded
    PROVE  UnitInv'
<1>1. CallOK'
    BY RestingIsCall DEF CallOK
<1>2. CommittedOK'
    <2> SUFFICES ASSUME ~torn', base # None
                 PROVE  FieldsDone(base, 5)' /\ (crashes' = 0 => TextsDone(base, 4)' /\ RowDone(base)')
        BY DEF CommittedOK
    <2>1. put.mode = "kept" /\ ~torn
        BY DEF UnitInv, TypeOK, CallOK
    <2> QED BY <2>1 DEF UnitInv, CommittedOK, FieldsDone, TextsDone, RowDone, indexes
<1> QED BY <1>1, <1>2 DEF UnitInv

LEMMA VectorWrittenKeeps == UnitInv /\ VectorWritten => UnitInv'
<1> SUFFICES ASSUME UnitInv, VectorWritten PROVE UnitInv'
    OBVIOUS
<1> DEFINE f == VECTOR_FIELDS[put.next]
           d == put.unit.vectors[f]
           after == IF d = None THEN vector ELSE [vector EXCEPT ![f][d] = put.unit.text]
<1>1. /\ put.step = "vectors" /\ put.next \in 1..4 /\ put.mode # "kept" /\ put.unit \in Unit
      /\ put \in Calls /\ base \in Stored(Unit)
      /\ vector \in [Fields -> [Dims -> Stored(Texts)]]
    BY FieldNames DEF VectorWritten, UnitInv, TypeOK, CallOK, Calls
<1>2. f \in Fields /\ d \in Dims \cup {None} /\ put.unit.text \in Texts
    BY <1>1, FieldNames, UnitAssumption DEF Unit
<1>3. /\ after \in [Fields -> [Dims -> Stored(Texts)]]
      /\ d # None => after[f][d] = put.unit.text
      /\ \A g \in Fields \ {f} : after[g] = vector[g]
    BY <1>1, <1>2 DEF Stored
<1>4. /\ \/ /\ vector' = after
            /\ put' = [put EXCEPT !.next = @ + 1]
            /\ UNCHANGED <<faults, puts, crashes, torn>>
         \/ d # None /\ Raise /\ vector' \in {vector, after}
      /\ UNCHANGED <<base, fulltext, native, opened, degraded>>
    BY DEF VectorWritten
<1> HIDE DEF after, f, d
<1>5. CASE /\ vector' = after
           /\ put' = [put EXCEPT !.next = @ + 1]
           /\ UNCHANGED <<faults, puts, crashes, torn>>
    <2>1. /\ put' \in Calls /\ put'.step = "vectors" /\ put'.next = put.next + 1
          /\ put'.unit = put.unit /\ put'.mode = put.mode
        BY <1>1, <1>5 DEF Calls
    <2>2. TypeOK'
        BY <1>3, <1>4, <1>5, <2>1 DEF UnitInv, TypeOK, Calls, Stored
    <2>3. FieldsDone(put.unit, put.next)'
        <3> SUFFICES ASSUME NEW i \in 1..4, i < put.next + 1
                     PROVE  LET g == VECTOR_FIELDS[i] IN
                              \/ put.unit.vectors[g] = None
                              \/ vector'[g][put.unit.vectors[g]] = put.unit.text
            BY <1>5, <2>1 DEF FieldsDone
        <3>1. CASE i = put.next
            BY <1>3, <1>5, <3>1 DEF f, d
        <3>2. CASE i # put.next
            <4>1. i < put.next /\ VECTOR_FIELDS[i] \in Fields \ {f}
                BY <1>1, <3>2, FieldNames DEF f
            <4>2. FieldsDone(put.unit, put.next)
                BY <1>1 DEF UnitInv, CallOK
            <4> QED BY <1>3, <1>5, <4>1, <4>2 DEF FieldsDone
        <3> QED BY <3>1, <3>2
    <2>4. CallOK'
        BY <1>1, <1>4, <2>1, <2>3, RestingIsCall DEF UnitInv, CallOK
    <2>5. CommittedOK'
        BY <1>1, <2>1 DEF CommittedOK
    <2> QED BY <1>4, <2>2, <2>4, <2>5 DEF UnitInv
<1>6. CASE d # None /\ Raise /\ vector' \in {vector, after}
    <2>1. faults' \in 0..MaxFaults /\ torn' \in BOOLEAN /\ torn' = (torn \/ put.mode = "update")
          /\ put' = Resting /\ UNCHANGED <<puts, crashes>>
        BY <1>6, UnitAssumption DEF Raise, UnitInv, TypeOK
    <2>2. vector' \in [Fields -> [Dims -> Stored(Texts)]]
        BY <1>1, <1>3, <1>6
    <2>3. TypeOK'
        BY <1>4, <2>1, <2>2, RestingIsCall DEF UnitInv, TypeOK, Calls, Stored
    <2> QED BY <1>1, <1>4, <2>1, <2>3, EndedKeeps DEF UnitInv
<1> QED BY <1>4, <1>5, <1>6

\* Between two groups of writes only the step changes.
LEMMA GotoIsCall ==
    ASSUME UnitInv, NEW to \in {"fulltext", "native", "base"}, Goto(to)
    PROVE  /\ put' \in Calls /\ put'.step = to /\ put'.next = 1
           /\ put'.unit = put.unit /\ put'.mode = put.mode
<1>1. put \in Calls /\ put' = [put EXCEPT !.step = to, !.next = 1]
    BY DEF UnitInv, TypeOK, Calls, Goto
<1>2. 1 \in 1..5
    OBVIOUS
<1> QED BY <1>1, <1>2 DEF Calls

LEMMA VectorsDoneKeeps == UnitInv /\ VectorsDone => UnitInv'
<1> SUFFICES ASSUME UnitInv, VectorsDone PROVE UnitInv'
    OBVIOUS
<1>1. /\ UNCHANGED <<base, indexes, opened, degraded, bounds, torn>>
      /\ put.step = "vectors" /\ put.next > 4 /\ Goto("fulltext")
    BY FieldNames DEF VectorsDone
<1>2. /\ put' \in Calls /\ put'.step = "fulltext" /\ put'.next = 1
      /\ put'.unit = put.unit /\ put'.mode = put.mode
    BY <1>1, GotoIsCall
<1>3. put.unit \in Unit /\ put.mode # "kept" /\ FieldsDone(put.unit, put.next) /\ put.next \in 1..5
      /\ (put.mode = "first" => base = None)
    BY <1>1 DEF UnitInv, TypeOK, CallOK
<1>4. FieldsDone(put.unit, 5)' /\ TextsDone(put.unit, put.next)'
    BY <1>1, <1>2, <1>3 DEF FieldsDone, TextsDone, indexes
<1>5. CallOK'
    BY <1>1, <1>2, <1>3, <1>4, RestingIsCall DEF CallOK
<1>6. TypeOK'
    BY <1>1, <1>2 DEF UnitInv, TypeOK, Calls, indexes, bounds, Stored
<1> QED BY <1>1, <1>2, <1>3, <1>5, <1>6 DEF UnitInv, CommittedOK

LEMMA FulltextWrittenKeeps == UnitInv /\ FulltextWritten => UnitInv'
<1> SUFFICES ASSUME UnitInv, FulltextWritten PROVE UnitInv'
    OBVIOUS
<1> DEFINE a == FULLTEXT_ANALYZERS[put.next]
           after == [fulltext EXCEPT ![a] = put.unit.text]
<1>1. /\ put.step = "fulltext" /\ put.next \in 1..3 /\ put.mode # "kept" /\ put.unit \in Unit
      /\ put \in Calls /\ a \in Analyzers /\ put.unit.text \in Texts
      /\ fulltext \in [Analyzers -> Stored(Texts)]
      /\ put.mode = "first" => base = None
    BY AnalyzerNames DEF FulltextWritten, UnitInv, TypeOK, CallOK, Calls, Unit
<1>2. /\ \/ /\ fulltext' = (IF a \in opened THEN after ELSE fulltext)
            /\ UNCHANGED <<faults, degraded>>
         \/ a \in opened /\ Degrade(a) /\ fulltext' \in {fulltext, after}
      /\ put' = [put EXCEPT !.next = @ + 1]
      /\ UNCHANGED <<base, vector, native, opened, puts, crashes, torn>>
    BY DEF FulltextWritten
<1>3. /\ after \in [Analyzers -> Stored(Texts)] /\ after[a] = put.unit.text
      /\ \A b \in Analyzers \ {a} : after[b] = fulltext[b]
    BY <1>1 DEF Stored
<1>4. a \in Features /\ Analyzers \subseteq Features
    BY <1>1 DEF Features
<1> HIDE DEF after
<1>5. /\ fulltext' \in [Analyzers -> Stored(Texts)] /\ degraded \subseteq degraded'
      /\ degraded' \subseteq Features /\ faults' \in 0..MaxFaults
      /\ \A b \in Analyzers \ {a} : fulltext'[b] = fulltext[b]
    BY <1>1, <1>2, <1>3, <1>4, UnitAssumption DEF Degrade, UnitInv, TypeOK
<1>6. a \in degraded' \/ fulltext'[a] = put.unit.text
    BY <1>2, <1>3, <1>4 DEF Degrade, UnitInv
<1>7. /\ put' \in Calls /\ put'.step = "fulltext" /\ put'.next = put.next + 1
      /\ put'.unit = put.unit /\ put'.mode = put.mode
    BY <1>1, <1>2 DEF Calls
<1>8. TextsDone(put.unit, put.next)'
    <2> SUFFICES ASSUME NEW i \in 1..3, i < put.next + 1
                 PROVE  \/ FULLTEXT_ANALYZERS[i] \in degraded'
                        \/ fulltext'[FULLTEXT_ANALYZERS[i]] = put.unit.text
        BY <1>7 DEF TextsDone
    <2>1. CASE i = put.next
        BY <1>6, <2>1
    <2>2. CASE i # put.next
        <3>1. i < put.next /\ FULLTEXT_ANALYZERS[i] \in Analyzers \ {a}
            BY <1>1, <2>2, AnalyzerNames
        <3>2. TextsDone(put.unit, put.next)
            BY <1>1 DEF UnitInv, CallOK
        <3> QED BY <1>5, <3>1, <3>2 DEF TextsDone
    <2> QED BY <2>1, <2>2
<1>9. FieldsDone(put.unit, 5)'
    BY <1>1, <1>2, <1>7 DEF UnitInv, CallOK, FieldsDone
<1>10. CallOK'
    <2>1. put'.next <= 4 /\ put'.mode # "kept" /\ put'.unit \in Unit /\ put' # Resting
        BY <1>1, <1>7, RestingIsCall
    <2>2. put'.mode = "first" => base' = None
        BY <1>1, <1>2, <1>7
    <2> QED BY <1>7, <1>8, <1>9, <2>1, <2>2, RestingIsCall DEF CallOK
<1>11. TypeOK'
    BY <1>2, <1>5, <1>7 DEF UnitInv, TypeOK, Calls, Stored
<1> QED BY <1>1, <1>2, <1>5, <1>7, <1>10, <1>11 DEF UnitInv, CommittedOK

LEMMA FulltextDoneKeeps == UnitInv /\ FulltextDone => UnitInv'
<1> SUFFICES ASSUME UnitInv, FulltextDone PROVE UnitInv'
    OBVIOUS
<1>1. /\ UNCHANGED <<base, indexes, opened, degraded, bounds, torn>>
      /\ put.step = "fulltext" /\ put.next > 3
    BY AnalyzerNames DEF FulltextDone
<1>2. PICK to \in {"native", "base"} :
         /\ Goto(to)
         /\ to = IF "native_hybrid_sql" \in opened /\ NativeDim(put.unit) # None
                 THEN "native" ELSE "base"
    BY DEF FulltextDone
<1>3. /\ put' \in Calls /\ put'.step = to /\ put'.next = 1
      /\ put'.unit = put.unit /\ put'.mode = put.mode
    BY <1>2, GotoIsCall
<1>4. /\ put.unit \in Unit /\ put.mode # "kept" /\ FieldsDone(put.unit, 5) /\ put.next = 4
      /\ TextsDone(put.unit, put.next) /\ (put.mode = "first" => base = None)
    BY <1>1 DEF UnitInv, TypeOK, CallOK
<1>5. FieldsDone(put.unit, 5)' /\ TextsDone(put.unit, 4)'
    BY <1>1, <1>3, <1>4 DEF FieldsDone, TextsDone, indexes
<1>6. to = "base" => RowDone(put.unit)'
    BY <1>1, <1>2, <1>3 DEF UnitInv, RowDone, Features
<1>7. to = "native" => NativeDim(put.unit)' # None
    BY <1>2, <1>3
<1>8. CallOK'
    BY <1>1, <1>3, <1>4, <1>5, <1>6, <1>7, RestingIsCall DEF CallOK
<1>9. TypeOK'
    BY <1>1, <1>3 DEF UnitInv, TypeOK, Calls, indexes, bounds, Stored
<1> QED BY <1>1, <1>3, <1>4, <1>8, <1>9 DEF UnitInv, CommittedOK

LEMMA NativeWrittenKeeps == UnitInv /\ NativeWritten => UnitInv'
<1> SUFFICES ASSUME UnitInv, NativeWritten PROVE UnitInv'
    OBVIOUS
<1> DEFINE d == NativeDim(put.unit)
           row == [text |-> put.unit.text, status |-> put.unit.status]
           after == [native EXCEPT ![d] = row]
<1>1. /\ put.step = "native" /\ put.mode # "kept" /\ put.unit \in Unit /\ put \in Calls
      /\ d # None /\ FieldsDone(put.unit, 5) /\ TextsDone(put.unit, 4)
      /\ native \in [Dims -> Stored([text: Texts, status: Statuses])]
      /\ put.mode = "first" => base = None
    BY DEF NativeWritten, UnitInv, TypeOK, CallOK, Calls
<1>2. d \in Dims
    BY <1>1, NativeDimIsDim
<1>3. /\ \/ native' = after /\ UNCHANGED <<faults, degraded>>
         \/ Degrade("native_hybrid_sql") /\ native' \in {native, after}
      /\ Goto("base")
      /\ UNCHANGED <<base, vector, fulltext, opened, puts, crashes, torn>>
    BY DEF NativeWritten
<1>4. row \in [text: Texts, status: Statuses]
    BY <1>1 DEF Unit
<1>5. after \in [Dims -> Stored([text: Texts, status: Statuses])] /\ after[d] = row
    BY <1>1, <1>2, <1>4 DEF Stored
<1>6. row # None
    BY <1>4, UnitAssumption
<1>7. /\ put' \in Calls /\ put'.step = "base" /\ put'.next = 1
      /\ put'.unit = put.unit /\ put'.mode = put.mode
    BY <1>3, GotoIsCall
<1>8. RowDone(put.unit)'
    <2>1. CASE native' = after
        <3>1. native'[d] # None /\ native'[d].text = put.unit.text
            BY <1>5, <1>6, <2>1
        <3> QED BY <1>7, <3>1 DEF RowDone
    <2>2. CASE Degrade("native_hybrid_sql")
        BY <2>2 DEF Degrade, RowDone
    <2> QED BY <1>3, <2>1, <2>2
<1> HIDE DEF after, row, d
<1>9. /\ native' \in [Dims -> Stored([text: Texts, status: Statuses])] /\ degraded \subseteq degraded'
      /\ degraded' \subseteq Features /\ faults' \in 0..MaxFaults
    <2>1. native' \in [Dims -> Stored([text: Texts, status: Statuses])]
        BY <1>1, <1>3, <1>5
    <2>2. degraded \subseteq degraded' /\ degraded' \subseteq Features
        BY <1>3 DEF Degrade, UnitInv, TypeOK, Features
    <2>3. faults' \in 0..MaxFaults
        BY <1>3, UnitAssumption DEF Degrade, UnitInv, TypeOK
    <2> QED BY <2>1, <2>2, <2>3
<1>10. FieldsDone(put.unit, 5)' /\ TextsDone(put.unit, 4)'
    BY <1>1, <1>3, <1>7, <1>9 DEF FieldsDone, TextsDone
<1>11. CallOK'
    BY <1>1, <1>3, <1>7, <1>8, <1>10, RestingIsCall DEF CallOK
<1>12. TypeOK'
    BY <1>3, <1>7, <1>9 DEF UnitInv, TypeOK, Calls, Stored
<1> QED BY <1>1, <1>3, <1>7, <1>9, <1>11, <1>12 DEF UnitInv, CommittedOK

\* The commit: the unit's indexes were written by this call, or are those of the
\* committed unit, whose text and embeddings it keeps.
LEMMA BaseWrittenKeeps == UnitInv /\ BaseWritten => UnitInv'
<1> SUFFICES ASSUME UnitInv, BaseWritten PROVE UnitInv'
    OBVIOUS
<1>1. /\ put.step = "base" /\ put.unit \in Unit /\ CallOK
      /\ UNCHANGED <<indexes, opened, degraded>>
    BY DEF BaseWritten, UnitInv, CallOK
<1>2. CASE base' = put.unit /\ put' = Resting /\ torn' = (torn /\ put.mode = "kept")
           /\ UNCHANGED bounds
    <2>1. TypeOK'
        <3>1. base' \in Stored(Unit) /\ torn' \in BOOLEAN
            BY <1>1, <1>2 DEF Stored, UnitInv, TypeOK
        <3> QED BY <1>1, <1>2, <3>1, RestingIsCall DEF UnitInv, TypeOK, Calls, Stored, indexes, bounds
    <2>2. CallOK'
        BY <1>2, RestingIsCall DEF CallOK
    <2>3. CommittedOK'
        <3> SUFFICES ASSUME ~torn'
                     PROVE  FieldsDone(base, 5)' /\ (crashes' = 0 => TextsDone(base, 4)' /\ RowDone(base)')
            BY DEF CommittedOK
        <3>1. CASE put.mode # "kept"
            BY <1>1, <1>2, <3>1 DEF CallOK, FieldsDone, TextsDone, RowDone, indexes
        <3>2. CASE put.mode = "kept"
            <4>1. /\ base # None /\ ~torn /\ put.unit.text = base.text
                  /\ put.unit.vectors = base.vectors
                BY <1>1, <1>2, <3>2 DEF CallOK
            <4>2. FieldsDone(base, 5) /\ (crashes = 0 => TextsDone(base, 4) /\ RowDone(base))
                BY <3>2, <4>1 DEF UnitInv, CommittedOK
            <4>3. NativeDim(put.unit) = NativeDim(base)
                BY <4>1 DEF NativeDim
            <4> QED BY <1>1, <1>2, <4>1, <4>2, <4>3 DEF FieldsDone, TextsDone, RowDone, indexes, bounds
        <3> QED BY <3>1, <3>2
    <2> QED BY <1>1, <2>1, <2>2, <2>3 DEF UnitInv
<1>3. CASE Raise /\ UNCHANGED base
    <2>1. /\ faults' \in 0..MaxFaults /\ torn' = (torn \/ put.mode = "update") /\ torn' \in BOOLEAN
          /\ put' = Resting /\ UNCHANGED <<puts, crashes>>
        BY <1>3, UnitAssumption DEF Raise, UnitInv, TypeOK
    <2>2. TypeOK'
        BY <1>1, <1>3, <2>1, RestingIsCall DEF UnitInv, TypeOK, Calls, Stored, indexes
    <2> QED BY <1>1, <1>3, <2>1, <2>2, EndedKeeps DEF UnitInv
<1> QED BY <1>2, <1>3 DEF BaseWritten

LEMMA CrashKeeps == UnitInv /\ Crash => UnitInv'
<1> SUFFICES ASSUME UnitInv, Crash PROVE UnitInv'
    OBVIOUS
<1>1. /\ crashes' = crashes + 1 /\ crashes < MaxCrashes /\ put' = Resting
      /\ opened' \in Opens /\ degraded' = Features \ opened'
      /\ torn' = (torn \/ put.mode = "update")
      /\ UNCHANGED <<base, indexes, puts, faults>>
    BY DEF Crash
<1>2. crashes' \in 0..MaxCrashes /\ crashes' # 0 /\ torn' \in BOOLEAN
    BY <1>1, UnitAssumption DEF UnitInv, TypeOK
<1>3. TypeOK'
    BY <1>1, <1>2, RestingIsCall DEF UnitInv, TypeOK, Calls, Stored, indexes
<1>4. Features \ opened' \subseteq degraded'
    BY <1>1
<1> QED BY <1>1, <1>2, <1>3, <1>4, EndedKeeps

-----------------------------------------------------------------------------
LEMMA UnitInvNext == UnitInv /\ [Next]_vars => UnitInv'
<1> SUFFICES ASSUME UnitInv, [Next]_vars PROVE UnitInv'
    OBVIOUS
<1>1. ASSUME NEW unit \in Unit, Begin(unit) PROVE UnitInv'
    BY <1>1, BeginKeeps
<1>2. CASE Written
    BY <1>2, VectorWrittenKeeps, VectorsDoneKeeps, FulltextWrittenKeeps, FulltextDoneKeeps,
       NativeWrittenKeeps, BaseWrittenKeeps DEF Written
<1>3. CASE Crash
    BY <1>3, CrashKeeps
<1>4. CASE UNCHANGED vars
    BY <1>4 DEF vars, indexes, UnitInv, TypeOK, CallOK, CommittedOK, FieldsDone, TextsDone, RowDone
<1> QED BY <1>1, <1>2, <1>3, <1>4 DEF Next

\* The inductive invariant: at each write of upsert_unit, what it has written and
\* what it has not (store/seekdb.py).
THEOREM UnitInvariant == Spec => []UnitInv
<1> QED BY UnitInvInit, UnitInvNext, PTL DEF Spec

\* A unit a reader finds by an embedding has the text that was embedded, however
\* often it is put, whatever write raises and whenever the process dies, unless an
\* update stopped halfway and none was carried through since.
THEOREM CommittedUnitIsEmbedded == Spec => []CommittedIsEmbedded
<1>1. UnitInv => CommittedIsEmbedded
    <2> SUFFICES ASSUME UnitInv, ~torn, put = Resting, base # None, NEW f \in Fields
                 PROVE  Embedded(f)
        BY DEF CommittedIsEmbedded, InterruptedIsInvisible
    <2>1. PICK i \in 1..4 : f = VECTOR_FIELDS[i]
        BY FieldNames
    <2>2. FieldsDone(base, 5)
        BY RestingIsCall DEF UnitInv, CommittedOK
    <2> QED BY <2>1, <2>2 DEF FieldsDone, Embedded
<1> QED BY <1>1, UnitInvariant, PTL

\* An index that lacks the committed text is reported by the store that wrote it.
THEOREM CommittedUnitIsIndexed == Spec => []IndexedOrDegraded
<1>1. UnitInv => IndexedOrDegraded
    <2> SUFFICES ASSUME UnitInv, put = Resting, base # None, ~torn, crashes = 0
                 PROVE  /\ \A a \in Analyzers \ degraded : fulltext[a] = base.text
                        /\ "native_hybrid_sql" \notin degraded /\ NativeDim(base) # None =>
                              /\ native[NativeDim(base)] # None
                              /\ native[NativeDim(base)].text = base.text
        BY DEF IndexedOrDegraded
    <2>1. TextsDone(base, 4) /\ RowDone(base)
        BY RestingIsCall DEF UnitInv, CommittedOK
    <2>2. ASSUME NEW a \in Analyzers \ degraded PROVE fulltext[a] = base.text
        <3>1. PICK i \in 1..3 : a = FULLTEXT_ANALYZERS[i]
            BY AnalyzerNames
        <3> QED BY <2>1, <3>1 DEF TextsDone
    <2> QED BY <2>1, <2>2 DEF RowDone
<1> QED BY <1>1, UnitInvariant, PTL
-----------------------------------------------------------------------------
(* Packs: what they rank and where they are cut.                            *)

\* Hits or survivors: no two are of one unit.
HitSet(S) ==
    /\ S \in SUBSET [unit: Units, score: Nat]
    /\ \A g, h \in S : g.unit = h.unit => g = h

LEMMA UnitsOK ==
    /\ IsFiniteSet(Units) /\ 0 \notin Units
    /\ \A u \in Units : u \in Int /\ UnitOf[u].tokens \in Nat /\ UnitOf[u].confidence \in Nat
  BY PackAssumption DEF PackAssumption

LEMMA HitOK ==
    ASSUME NEW S, HitSet(S), NEW h \in S
    PROVE  h.unit \in Units /\ h.unit \in Int /\ h.score \in Nat
  BY UnitsOK DEF HitSet

LEMMA HitSetFinite == ASSUME NEW S, HitSet(S) PROVE IsFiniteSet(S)
<1>1. PICK f : f = [h \in S |-> h.unit]
  OBVIOUS
<1>2. f \in Injection(S, Units)
  BY <1>1 DEF HitSet, Injection, IsInjective
<1> QED BY <1>2, FS_Injection, UnitsOK

\* ByScore lists the hits of a set, each once, better ones first; a hit is at
\* the place that the number of better ones says.
LEMMA ByScoreOK ==
    ASSUME NEW S, HitSet(S), NEW B, B = ByScore(S)
    PROVE  /\ B \in Seq(S) /\ Len(B) = Cardinality(S)
           /\ ToSet(B) = S
           /\ \A i, j \in DOMAIN B : i < j <=> Better(B[i], B[j])
           /\ \A n \in DOMAIN B : \A h \in S :
                 Cardinality({g \in S : Better(g, h)}) = n - 1 <=> h = B[n]
<1>1. PICK R : R = {p \in S \X S : Better(p[1], p[2])}
  OBVIOUS
<1>2. \A g, h \in S : <<g, h>> \in R <=> Better(g, h)
  BY <1>1
<1>3. \A h \in S : h.unit \in Int /\ h.score \in Int
  BY HitOK
<1>4. LinearOn(R, S)
  <2>1. \A x \in S : ~Better(x, x)
    BY <1>3 DEF Better
  <2>2. \A x, y, z \in S : Better(x, y) /\ Better(y, z) => Better(x, z)
    BY <1>3 DEF Better
  <2>3. \A x, y \in S : x # y => Better(x, y) \/ Better(y, x)
    BY <1>3 DEF Better, HitSet
  <2> QED BY <1>2, <2>1, <2>2, <2>3 DEF LinearOn
<1>5. IsFiniteSet(S) /\ Cardinality(S) \in Nat
  BY HitSetFinite, FS_CardinalityType
<1>6. \A h \in S : {g \in S : Better(g, h)} = Preceding(R, S, h)
  BY <1>2 DEF Preceding
<1>13. \A g, h \in S :
         /\ Cardinality(Preceding(R, S, g)) \in 0..(Cardinality(S) - 1)
         /\ <<g, h>> \in R => Cardinality(Preceding(R, S, g)) < Cardinality(Preceding(R, S, h))
         /\ Cardinality(Preceding(R, S, g)) = Cardinality(Preceding(R, S, h)) => g = h
  BY <1>4, <1>5, PlacesDiffer
<1>7. ASSUME NEW n \in 1..Cardinality(S)
      PROVE  B[n] \in S /\ Cardinality(Preceding(R, S, B[n])) = n - 1
  <2>1. \E h \in S : Cardinality(Preceding(R, S, h)) = n - 1
    BY <1>4, <1>5, PlacesTaken
  <2>2. B[n] = CHOOSE h \in S : Cardinality({g \in S : Better(g, h)}) = n - 1
    BY DEF ByScore
  <2> QED BY <1>6, <2>1, <2>2
<1>8. B \in Seq(S) /\ Len(B) = Cardinality(S) /\ DOMAIN B = 1..Cardinality(S)
  <2>1. DOMAIN B = 1..Cardinality(S) /\ B \in [1..Cardinality(S) -> S]
    BY <1>7 DEF ByScore
  <2> QED BY <1>5, <2>1
<1>9. \A n \in DOMAIN B : \A h \in S :
         Cardinality({g \in S : Better(g, h)}) = n - 1 <=> h = B[n]
  <2> TAKE n \in DOMAIN B
  <2> TAKE h \in S
  <2>1. B[n] \in S /\ Cardinality(Preceding(R, S, B[n])) = n - 1
    BY <1>7, <1>8
  <2>2. {g \in S : Better(g, h)} = Preceding(R, S, h)
    BY <1>6
  <2> QED BY <1>13, <2>1, <2>2
<1>10. \A h \in S : \E n \in DOMAIN B : h = B[n]
  <2> TAKE h \in S
  <2>5. PICK c : c = Cardinality(Preceding(R, S, h))
    OBVIOUS
  <2>6. c \in 0..(Cardinality(S) - 1)
    BY <1>13, <2>5
  <2>1. PICK n : n = c + 1
    OBVIOUS
  <2>2. n \in 1..Cardinality(S) /\ Cardinality(Preceding(R, S, h)) = n - 1
    BY <1>5, <2>1, <2>5, <2>6
  <2>3. n \in DOMAIN B /\ {g \in S : Better(g, h)} = Preceding(R, S, h)
    BY <1>6, <1>8, <2>2
  <2>4. h = B[n]
    BY <1>9, <2>2, <2>3
  <2> QED BY <2>3, <2>4
<1>11. ASSUME NEW i \in DOMAIN B, NEW j \in DOMAIN B PROVE i < j <=> Better(B[i], B[j])
  <2>1. /\ B[i] \in S /\ Cardinality(Preceding(R, S, B[i])) = i - 1
        /\ B[j] \in S /\ Cardinality(Preceding(R, S, B[j])) = j - 1
    BY <1>7, <1>8
  <2>2. Better(B[i], B[j]) => i - 1 < j - 1
    BY <1>2, <1>13, <2>1
  <2>3. Better(B[j], B[i]) => j - 1 < i - 1
    BY <1>2, <1>13, <2>1
  <2>4. B[i] # B[j] => Better(B[i], B[j]) \/ Better(B[j], B[i])
    BY <1>2, <1>4, <2>1 DEF LinearOn
  <2>5. B[i] = B[j] => i - 1 = j - 1
    BY <2>1
  <2>6. i \in Int /\ j \in Int
    BY <1>8
  <2> QED BY <2>2, <2>3, <2>4, <2>5, <2>6
<1>12. ToSet(B) = S
  BY <1>7, <1>8, <1>10 DEF ToSet
<1> QED BY <1>8, <1>9, <1>11, <1>12

\* If those of a part are all better than the rest, the list begins with them.
LEMMA BestPartFirst ==
    ASSUME NEW S, HitSet(S), NEW P \in SUBSET S,
           \A h \in P : \A g \in S \ P : Better(h, g)
    PROVE  /\ IsPrefix(ByScore(P), ByScore(S))
           /\ \A i \in (Len(ByScore(P)) + 1)..Len(ByScore(S)) : ByScore(S)[i] \in S \ P
<1>1. PICK A : A = ByScore(P)
  OBVIOUS
<1>2. PICK B : B = ByScore(S)
  OBVIOUS
<1>3. HitSet(P)
  BY DEF HitSet
<1>4. /\ A \in Seq(P) /\ Len(A) = Cardinality(P) /\ ToSet(A) = P
      /\ \A n \in DOMAIN A : \A h \in P :
            Cardinality({g \in P : Better(g, h)}) = n - 1 <=> h = A[n]
  BY <1>1, <1>3, ByScoreOK
<1>5. /\ B \in Seq(S) /\ Len(B) = Cardinality(S) /\ ToSet(B) = S
      /\ \A i, j \in DOMAIN B : i < j <=> Better(B[i], B[j])
      /\ \A n \in DOMAIN B : \A h \in S :
            Cardinality({g \in S : Better(g, h)}) = n - 1 <=> h = B[n]
  BY <1>2, ByScoreOK
<1>6. IsFiniteSet(S) /\ Cardinality(P) \in Nat /\ Cardinality(S) \in Nat
      /\ Cardinality(P) <= Cardinality(S)
  BY HitSetFinite, FS_Subset, FS_CardinalityType
<1>7. \A h \in P : {g \in S : Better(g, h)} = {g \in P : Better(g, h)}
  <2>1. \A h, g \in S : Better(h, g) => ~Better(g, h)
    BY HitOK DEF Better
  <2> QED BY <2>1
<1>8. \A n \in DOMAIN A : n \in DOMAIN B /\ A[n] \in P /\ A[n] = B[n]
  <2> TAKE n \in DOMAIN A
  <2>1. n \in 1..Len(A) /\ n \in DOMAIN B
    BY <1>4, <1>5, <1>6
  <2>2. A[n] \in P
    BY <1>4, <2>1
  <2>3. Cardinality({g \in P : Better(g, A[n])}) = n - 1
    BY <1>4, <2>2
  <2> QED BY <1>5, <1>7, <2>1, <2>2, <2>3
<1>9. Len(A) \in Nat /\ Len(B) \in Nat /\ Len(A) <= Len(B)
      /\ DOMAIN A = 1..Len(A) /\ DOMAIN B = 1..Len(B)
  BY <1>4, <1>5, <1>6
<1>10. IsPrefix(A, B)
  <2>1. /\ SubSeq(A, 1, Len(A)) = [i \in 1..Len(A) |-> A[i]]
        /\ SubSeq(B, 1, Len(A)) = [i \in 1..Len(A) |-> B[i]]
    BY <1>4, <1>5, <1>9
  <2> QED BY <1>8, <1>9, <2>1 DEF IsPrefix
<1>11. ASSUME NEW i \in (Len(A) + 1)..Len(B) PROVE B[i] \in S \ P
  <2>1. i \in DOMAIN B /\ B[i] \in S
    BY <1>5, <1>9
  <2>2. SUFFICES ASSUME B[i] \in P PROVE FALSE
    BY <2>1
  <2>3. PICK n \in DOMAIN A : A[n] = B[i]
    BY <1>4, <2>2 DEF ToSet
  <2>4. n \in DOMAIN B /\ B[n] = B[i] /\ n < i
    BY <1>8, <1>9, <2>3
  <2>5. Better(B[n], B[i])
    BY <1>5, <2>1, <2>4
  <2>6. B[i].score \in Int /\ B[i].unit \in Int
    BY <2>1, HitOK
  <2> QED BY <2>4, <2>5, <2>6 DEF Better
<1> QED BY <1>1, <1>2, <1>10, <1>11

\* The sum of the tokens of a list of units.
TokenCosts(units) == [i \in DOMAIN units |-> UnitOf[units[i]].tokens]

LEMMA TokensAreSum ==
    ASSUME NEW units \in Seq(Units)
    PROVE  /\ TokensOf(units) = FoldSum(TokenCosts(units))
           /\ TokenCosts(units) \in [1..Len(units) -> Nat]
           /\ TokensOf(units) \in Nat
<1>1. PICK D : D = DOMAIN units
  OBVIOUS
<1>2. PICK f : f = TokenCosts(units)
  OBVIOUS
<1>3. D = 1..Len(units) /\ IsFiniteSet(D)
  BY <1>1, FS_Interval
<1>4. f \in [D -> Nat] /\ \A i \in D : f[i] = UnitOf[units[i]].tokens
  BY <1>1, <1>2, UnitsOK DEF TokenCosts
<1>5. PICK g : SumsOf(g, f, D)
  BY <1>3, SumsExist
<1> DEFINE Adds(h) == h = [s \in SUBSET D |-> IF s = {} THEN 0
                              ELSE h[s \ {First(s)}] + UnitOf[units[First(s)]].tokens]
           sums == CHOOSE h : Adds(h)
<1>6. TokensOf(units) = sums[D]
  BY <1>1 DEF TokensOf, FoldSet, MapThenFoldSet, First
<1>7. \A h : Adds(h) <=> SumsOf(h, f, D)
  <2>1. \A s \in SUBSET D : s # {} => f[First(s)] = UnitOf[units[First(s)]].tokens
    BY <1>4, FirstIn
  <2> QED BY <2>1 DEF SumsOf
<1>8. SumsOf(sums, f, D)
  <2> HIDE DEF Adds
  <2> QED BY <1>5, <1>7
<1> HIDE DEF sums
<1>9. Follows(sums, f, D)
  BY <1>8 DEF SumsOf, Follows
<1>10. DOMAIN f = D /\ \A t \in D : f[t] \in Int
  BY <1>4
<1>11. FoldSum(f) = sums[D]
  BY <1>3, <1>9, <1>10, SumKnown
<1>12. FoldSum(f) \in Nat
  BY <1>3, <1>4, SumNat
<1> QED BY <1>2, <1>3, <1>4, <1>6, <1>11, <1>12

LEMMA TokensOfPrefix ==
    ASSUME NEW units \in Seq(Units), NEW n \in Nat, n + 1 <= Len(units)
    PROVE  TokensOf(SubSeq(units, 1, n + 1))
              = TokensOf(SubSeq(units, 1, n)) + UnitOf[units[n + 1]].tokens
<1>1. PICK s : s = SubSeq(units, 1, n + 1)
  OBVIOUS
<1>2. PICK t : t = SubSeq(units, 1, n)
  OBVIOUS
<1>3. /\ s \in Seq(Units) /\ Len(s) = n + 1 /\ \A i \in 1..(n + 1) : s[i] = units[i]
      /\ t \in Seq(Units) /\ Len(t) = n /\ \A i \in 1..n : t[i] = units[i]
  BY <1>1, <1>2
<1>4. PICK f : f = TokenCosts(s)
  OBVIOUS
<1>5. PICK g : g = TokenCosts(t)
  OBVIOUS
<1>6. /\ TokensOf(s) = FoldSum(f) /\ f \in [1..(n + 1) -> Nat]
      /\ TokensOf(t) = FoldSum(g) /\ g \in [1..n -> Nat]
  BY <1>3, <1>4, <1>5, TokensAreSum
<1>7. f[n + 1] = UnitOf[units[n + 1]].tokens /\ \A i \in 1..n : f[i] = g[i]
  <2>1. DOMAIN s = 1..(n + 1) /\ DOMAIN t = 1..n
    BY <1>3
  <2>2. f[n + 1] = UnitOf[s[n + 1]].tokens /\ \A i \in 1..n : f[i] = UnitOf[s[i]].tokens
    BY <1>4, <2>1 DEF TokenCosts
  <2>3. \A i \in 1..n : g[i] = UnitOf[t[i]].tokens
    BY <1>5, <2>1 DEF TokenCosts
  <2> QED BY <1>3, <2>2, <2>3
<1>8. PICK D : D = 1..(n + 1)
  OBVIOUS
<1>9. IsFiniteSet(D) /\ n + 1 \in D /\ D \ {n + 1} = 1..n
  <2>1. IsFiniteSet(1..(n + 1))
    BY FS_Interval
  <2> QED BY <1>8, <2>1
<1>10. On(f, D \ {n + 1}) = g
  BY <1>6, <1>7, <1>9 DEF On
<1>11. DOMAIN f = D /\ \A d \in D : f[d] \in Int
  BY <1>6, <1>8
<1>12. FoldSum(f) = FoldSum(On(f, D \ {n + 1})) + f[n + 1]
  BY <1>9, <1>11, SumWithout
<1> QED BY <1>1, <1>2, <1>6, <1>7, <1>10, <1>12

\* Where a pack is cut.
LEMMA TakenOK ==
    ASSUME NEW units \in Seq(Units), NEW q \in PackQueries, NEW n, n = Taken(units, q)
    PROVE  /\ n \in 0..Len(units) /\ n <= q.top_k
           /\ TokensOf(SubSeq(units, 1, n)) <= q.budget
           /\ n < Len(units) =>
                 \/ n = q.top_k
                 \/ TokensOf(SubSeq(units, 1, n)) + UnitOf[units[n + 1]].tokens > q.budget
<1>1. PICK fits : fits = {k \in 0..Len(units) : k <= q.top_k /\ TokensOf(SubSeq(units, 1, k)) <= q.budget}
  OBVIOUS
<1>2. q.top_k \in Nat /\ q.budget \in Nat
  BY PackAssumption DEF PackAssumption
<1>3. 0 \in fits
  <2>1. SubSeq(units, 1, 0) = << >>
    OBVIOUS
  <2>2. TokensOf(<< >>) = FoldSum(TokenCosts(<< >>))
    <3>1. << >> \in Seq(Units)
      OBVIOUS
    <3> QED BY <3>1, TokensAreSum
  <2>3. TokenCosts(<< >>) = [x \in {} |-> 0]
    BY DEF TokenCosts
  <2>4. TokensOf(<< >>) = 0
    BY <2>2, <2>3, SumOfNone, FS_EmptySet
  <2>5. TokensOf(SubSeq(units, 1, 0)) = 0
    BY <2>1, <2>4
  <2>6. 0 \in 0..Len(units) /\ 0 <= q.top_k /\ TokensOf(SubSeq(units, 1, 0)) <= q.budget
    BY <1>2, <2>5
  <2> HIDE DEF TokensOf
  <2> QED BY <1>1, <2>6
<1>4. fits \in SUBSET Nat /\ \A i \in fits : i <= Len(units)
  BY <1>1
<1>5. n \in fits /\ \A i \in fits : i <= n
  <2>1. n = Max(fits) /\ Len(units) \in Nat
    BY <1>1 DEF Taken
  <2> QED BY <1>3, <1>4, <2>1, MaxIsIn
<1>6. n \in 0..Len(units) /\ n <= q.top_k /\ TokensOf(SubSeq(units, 1, n)) <= q.budget
  BY <1>1, <1>5
<1>7. ASSUME n < Len(units), n # q.top_k
      PROVE  TokensOf(SubSeq(units, 1, n)) + UnitOf[units[n + 1]].tokens > q.budget
  <2>1. n + 1 \in 0..Len(units) /\ n + 1 <= q.top_k /\ ~(n + 1 <= n)
    BY <1>2, <1>6, <1>7
  <2>2. ~(TokensOf(SubSeq(units, 1, n + 1)) <= q.budget)
    BY <1>1, <1>5, <2>1
  <2>3. SubSeq(units, 1, n + 1) \in Seq(Units)
    BY <2>1
  <2>4. TokensOf(SubSeq(units, 1, n + 1)) \in Nat
    BY <2>3, TokensAreSum
  <2>5. TokensOf(SubSeq(units, 1, n + 1))
           = TokensOf(SubSeq(units, 1, n)) + UnitOf[units[n + 1]].tokens
    BY <1>6, <2>1, TokensOfPrefix
  <2> QED BY <1>2, <2>2, <2>4, <2>5
<1> QED BY <1>6, <1>7
-----------------------------------------------------------------------------
(* Scores: a survivor has none exactly if it is incompatible.               *)

Incompatible(u, q) == CompatibilityOf(u, AskedOf(q)) = "incompatible"

LEMMA CompatibilityOK ==
    ASSUME NEW u, NEW asked, NEW c, c = CompatibilityScore[CompatibilityOf(u, asked)]
    PROVE  c \in Nat /\ (c = 0 <=> CompatibilityOf(u, asked) = "incompatible")
<1>1. CompatibilityOf(u, asked)
         \in {"incompatible", "unknown", "compatible", "partially_compatible"}
  BY DEF CompatibilityOf
<1> QED BY <1>1 DEF CompatibilityScore

LEMMA TruthOK ==
    ASSUME NEW u \in Units PROVE TruthOf(u) \in Nat
<1>1. PICK T : T = {ClaimOf[c].truth : c \in ValidClaims(u)}
  OBVIOUS
<1>2. T \in SUBSET Nat
  BY <1>1, PackAssumption DEF PackAssumption, ValidClaims, ClaimsAbout
<1>3. T # {} => Min(T) \in Nat
  <2> HAVE T # {}
  <2>1. PICK n \in T : \A m \in T : ~(m < n)
    BY <1>2, LeastNat
  <2>2. \A m \in T : n <= m
    BY <1>2, <2>1
  <2>3. Min(T) \in T
    BY <2>2 DEF Min
  <2> QED BY <1>2, <2>3
<1>4. ValidClaims(u) # {} => T # {}
  BY <1>1
<1> QED BY <1>1, <1>3, <1>4, UnitsOK DEF TruthOf

LEMMA ScoredOK ==
    ASSUME NEW h \in [unit: Units, score: Nat], h.score > 0, PassesGuards(h.unit),
           NEW asked, NEW s, s = Scored(h, asked)
    PROVE  /\ s \in [unit: Units, score: Nat] /\ s.unit = h.unit
           /\ s.score = 0 <=> CompatibilityOf(h.unit, asked) = "incompatible"
<1>1. PICK c : c = CompatibilityScore[CompatibilityOf(h.unit, asked)]
  OBVIOUS
<1>2. c \in Nat /\ (c = 0 <=> CompatibilityOf(h.unit, asked) = "incompatible")
  BY <1>1, CompatibilityOK
<1>3. PICK t : t = TruthOf(h.unit)
  OBVIOUS
<1>4. t \in Nat /\ t > 0
  BY <1>3, TruthOK DEF PassesGuards
<1>5. PICK n : n = h.score * t
  OBVIOUS
<1>6. n \in Nat /\ n > 0
  <2>1. \A x, y \in Nat : x > 0 /\ y > 0 => x * y \in Nat /\ x * y > 0
    OBVIOUS
  <2> QED BY <1>4, <1>5, <2>1
<1>7. s.unit = h.unit /\ s.score = n * c /\ s = [unit |-> h.unit, score |-> n * c]
  BY <1>1, <1>3, <1>5 DEF Scored, FinalScore
<1>8. n * c \in Nat /\ (n * c = 0 <=> c = 0)
  <2>1. \A x, y \in Nat : x > 0 => x * y \in Nat /\ (x * y = 0 <=> y = 0)
    OBVIOUS
  <2> QED BY <1>2, <1>6, <2>1
<1> QED BY <1>2, <1>7, <1>8

-----------------------------------------------------------------------------
(* What retrieve holds while others write.                                  *)

\* The hits are of different units, each with a score.
HitsOK(hits) ==
    /\ hits \in Seq([unit: Units, score: Nat])
    /\ \A i \in DOMAIN hits : hits[i].score > 0
    /\ \A i, j \in DOMAIN hits : hits[i].unit = hits[j].unit => i = j

\* The hits examined so far that pass now.
PassedSoFar(b) == {b.hits[i] : i \in {k \in 1..(b.at - 1) : PassesGuards(b.hits[k].unit)}}

\* A survivor is a hit that passed the guards, and one that passed them all
\* along survives; while nothing is written, the survivors are those that pass.
SurvivorsOK(b) ==
    /\ HitSet(b.survivors)
    /\ \A s \in b.survivors :
          /\ s.unit \in b.once
          /\ \E i \in 1..(b.at - 1) : s.unit = b.hits[i].unit
          /\ s.score = 0 <=> Incompatible(s.unit, b.query)
    /\ \A i \in 1..(b.at - 1) :
          b.hits[i].unit \in b.always => \E s \in b.survivors : s.unit = b.hits[i].unit
    /\ Passing \subseteq b.once /\ b.always \subseteq Passing
    /\ b.quiet => b.survivors = {Scored(h, AskedOf(b.query)) : h \in PassedSoFar(b)}

BuildOK ==
    build.step = "examine" =>
        /\ build \in BuildType /\ build.at <= Len(build.hits) + 1
        /\ HitsOK(build.hits) /\ SurvivorsOK(build)

PacksOK ==
    \A k \in DOMAIN reference_packs :
        LET pack == reference_packs[k] IN
        /\ ItemsAreWarranted(pack) /\ NothingVanishes(pack)
        /\ PackIsFull(pack) /\ IncompatibleComeLast(pack)

PacksInv == PackTypeOK /\ BuildOK /\ PacksOK

\* While nothing is written, explain accepts what the pack begins with.
LEMMA ExplainedOK ==
    ASSUME BuildOK PROVE AsExplained
<1> SUFFICES ASSUME build.step = "examine", build.at > Len(build.hits), build.quiet
             PROVE  LET asked == AskedOf(build.query)
                        ranked == ByScore(build.survivors)
                        accepted == Accepted(build.hits, build.query) IN
                    /\ IsPrefix(accepted, ranked)
                    /\ \A i \in (Len(accepted) + 1)..Len(ranked) :
                          CompatibilityOf(ranked[i].unit, asked) = "incompatible"
  BY DEF AsExplained
<1>1. PICK S : S = build.survivors
  OBVIOUS
<1>2. PICK asked : asked = AskedOf(build.query)
  OBVIOUS
<1>3. PICK P : P = {Scored(h, asked) : h \in {g \in ToSet(build.hits) : RejectedFor(g.unit, asked) = {}}}
  OBVIOUS
<1>4. Accepted(build.hits, build.query) = ByScore(P)
  BY <1>2, <1>3 DEF Accepted
<1>5. /\ HitSet(S) /\ HitsOK(build.hits)
      /\ \A s \in S : s.score = 0 <=> CompatibilityOf(s.unit, asked) = "incompatible"
  BY <1>1, <1>2 DEF BuildOK, SurvivorsOK, Incompatible
<1>6. S = {Scored(h, asked) : h \in {g \in ToSet(build.hits) : PassesGuards(g.unit)}}
  <2>1. build.at = Len(build.hits) + 1 /\ DOMAIN build.hits = 1..Len(build.hits)
    BY DEF BuildOK, BuildType, HitsOK
  <2>2. PassedSoFar(build) = {g \in ToSet(build.hits) : PassesGuards(g.unit)}
    BY <2>1 DEF PassedSoFar, ToSet
  <2> QED BY <1>1, <1>2, <2>2 DEF BuildOK, SurvivorsOK
<1>7. \A u \in Units : RejectedFor(u, asked) = {}
         <=> PassesGuards(u) /\ CompatibilityOf(u, asked) # "incompatible"
  <2> TAKE u \in Units
  <2>1. TruthOf(u) \in Nat
    BY TruthOK
  <2>2. ClaimsAbout(u) # {} /\ ValidClaims(u) = {} => TruthOf(u) = 0
    BY DEF TruthOf
  <2> QED BY <2>1, <2>2 DEF RejectedFor, PassesGuards
<1>8. \A h \in ToSet(build.hits) : h.unit \in Units /\ Scored(h, asked).unit = h.unit
  <2>3. PICK hits : hits = build.hits
    OBVIOUS
  <2>4. PICK T : T = [unit: Units, score: Nat]
    OBVIOUS
  <2>6. hits \in Seq(T)
    BY <1>5, <2>3, <2>4 DEF HitsOK
  <2>7. \A i \in DOMAIN hits : hits[i] \in T
    BY <2>6
  <2>5. \A i \in DOMAIN hits : hits[i] \in [unit: Units, score: Nat]
    BY <2>4, <2>7
  <2>1. \A i \in DOMAIN build.hits : build.hits[i] \in [unit: Units, score: Nat]
    BY <2>3, <2>5
  <2>2. \A h \in ToSet(build.hits) : h.unit \in Units
    BY <2>1 DEF ToSet
  <2> QED BY <2>2 DEF Scored
<1>9. P = {s \in S : CompatibilityOf(s.unit, asked) # "incompatible"}
  BY <1>3, <1>6, <1>7, <1>8
<1>10. \A h \in P : \A g \in S \ P : Better(h, g)
  <2>1. \A h \in P : h.score > 0 /\ h.score \in Nat
    BY <1>5, <1>9, HitOK
  <2>2. \A g \in S \ P : g.score = 0
    BY <1>5, <1>9
  <2> QED BY <2>1, <2>2 DEF Better
<1>11. /\ IsPrefix(ByScore(P), ByScore(S))
       /\ \A i \in (Len(ByScore(P)) + 1)..Len(ByScore(S)) : ByScore(S)[i] \in S \ P
  BY <1>5, <1>9, <1>10, BestPartFirst
<1> QED BY <1>1, <1>2, <1>4, <1>9, <1>11

\* The pack of a build that has examined every hit.
LEMMA PackIsOK ==
    ASSUME BuildOK, build.step = "examine", build.at > Len(build.hits),
           NEW pack, pack = PackOf(build)
    PROVE  /\ ItemsAreWarranted(pack) /\ NothingVanishes(pack)
           /\ PackIsFull(pack) /\ IncompatibleComeLast(pack)
<1>1. PICK S : S = build.survivors
  OBVIOUS
<1>2. PICK q : q = build.query
  OBVIOUS
<1>3. PICK ranked : ranked = ByScore(S)
  OBVIOUS
<1>4. PICK units : units = UnitsIn(ranked)
  OBVIOUS
<1>5. PICK n : n = Taken(units, q)
  OBVIOUS
<1>6. /\ pack.items = SubSeq(ranked, 1, n)
      /\ pack.cursor = IF n < Len(units) THEN units[n + 1] ELSE 0
      /\ pack.later = SubSeq(units, n + 1, Len(units))
      /\ pack.asked = q /\ pack.hits = {build.hits[i].unit : i \in DOMAIN build.hits}
      /\ pack.once = build.once /\ pack.always = build.always
  BY <1>1, <1>2, <1>3, <1>4, <1>5 DEF PackOf
<1>7. HitSet(S) /\ q \in PackQueries
  BY <1>1, <1>2 DEF BuildOK, SurvivorsOK, BuildType
<1>8. /\ ranked \in Seq(S) /\ ToSet(ranked) = S
      /\ \A i, j \in DOMAIN ranked : i < j <=> Better(ranked[i], ranked[j])
  BY <1>3, <1>7, ByScoreOK
<1>9. /\ units \in Seq(Units) /\ Len(units) = Len(ranked) /\ Len(units) \in Nat
      /\ DOMAIN units = 1..Len(units) /\ DOMAIN ranked = 1..Len(units)
      /\ \A i \in 1..Len(units) : units[i] = ranked[i].unit /\ ranked[i] \in S /\ units[i] \in Units
  <2>1. DOMAIN ranked = 1..Len(ranked) /\ Len(ranked) \in Nat
        /\ \A i \in 1..Len(ranked) : ranked[i] \in S
    BY <1>8
  <2>2. \A i \in 1..Len(ranked) : ranked[i].unit \in Units
    BY <1>7, <2>1, HitOK
  <2>3. units = [i \in 1..Len(ranked) |-> ranked[i].unit]
    BY <1>4, <2>1 DEF UnitsIn
  <2>4. units \in [1..Len(ranked) -> Units]
    BY <2>2, <2>3
  <2> QED BY <2>1, <2>2, <2>3, <2>4
<1>10. /\ n \in 0..Len(units) /\ n <= q.top_k
       /\ TokensOf(SubSeq(units, 1, n)) <= q.budget
       /\ n < Len(units) =>
             \/ n = q.top_k
             \/ TokensOf(SubSeq(units, 1, n)) + UnitOf[units[n + 1]].tokens > q.budget
  BY <1>5, <1>7, <1>9, TakenOK
<1>11. /\ ItemsOf(pack) = SubSeq(units, 1, n)
       /\ Len(ItemsOf(pack)) = n /\ DOMAIN ItemsOf(pack) = 1..n
       /\ \A i \in 1..n : ItemsOf(pack)[i] = units[i]
  <2>1. pack.items = [i \in 1..n |-> ranked[i]] /\ SubSeq(units, 1, n) = [i \in 1..n |-> units[i]]
    BY <1>6, <1>8, <1>9, <1>10
  <2>2. DOMAIN pack.items = 1..n
    BY <2>1
  <2>3. ItemsOf(pack) = [i \in 1..n |-> units[i]]
    BY <1>9, <1>10, <2>1, <2>2 DEF ItemsOf, UnitsIn
  <2> QED BY <1>10, <2>1, <2>3
<1>12. \A s \in S : s.unit \in build.once
          /\ (s.score = 0 <=> CompatibilityOf(s.unit, AskedOf(q)) = "incompatible")
  BY <1>1, <1>2 DEF BuildOK, SurvivorsOK, Incompatible
<1>13. ItemsAreWarranted(pack)
  <2>1. \A i \in 1..n : units[i] \in build.once
    BY <1>9, <1>10, <1>12
  <2>2. ToSet(ItemsOf(pack)) = {units[i] : i \in 1..n}
    BY <1>11 DEF ToSet
  <2> QED BY <1>6, <2>1, <2>2 DEF ItemsAreWarranted
<1>14. NothingVanishes(pack)
  <2>1. \A i \in DOMAIN build.hits : build.hits[i].unit \in build.always =>
           \E s \in S : s.unit = build.hits[i].unit
    <3>1. build.at = Len(build.hits) + 1 /\ DOMAIN build.hits = 1..Len(build.hits)
      BY DEF BuildOK, BuildType, HitsOK
    <3> QED BY <1>1, <3>1 DEF BuildOK, SurvivorsOK
  <2>2. \A s \in S : \E i \in 1..Len(units) : units[i] = s.unit
    BY <1>8, <1>9 DEF ToSet
  <2>3. /\ pack.later = [i \in 1..(Len(units) - n) |-> units[n + i]]
        /\ pack.later \in Seq(Units) /\ Len(pack.later) = Len(units) - n
    <3>1. PICK m : m = Len(units) - n
      OBVIOUS
    <3>2. m \in Nat /\ Len(units) - (n + 1) + 1 = m /\ n \in Int
      BY <1>9, <1>10, <3>1
    <3>3. pack.later = [i \in 1..(Len(units) - (n + 1) + 1) |-> units[(n + 1) + i - 1]]
      BY <1>6, <1>9, <1>10
    <3>4. \A i \in 1..m : (n + 1) + i - 1 = n + i /\ units[n + i] \in Units
      BY <1>9, <1>10, <3>1, <3>2
    <3>5. pack.later = [i \in 1..m |-> units[n + i]]
      BY <3>2, <3>3, <3>4
    <3>6. pack.later \in [1..m -> Units]
      BY <3>4, <3>5
    <3>7. pack.later \in Seq(Units) /\ Len(pack.later) = m
      BY <3>2, <3>6
    <3> QED BY <3>1, <3>5, <3>7
  <2>7. /\ Len(units) \in Nat /\ n \in Nat /\ n <= Len(units)
        /\ pack.later \in Seq(Units) /\ Len(pack.later) = Len(units) - n
    BY <1>9, <1>10, <2>3
  <2>4. \A i \in 1..Len(units) : units[i] \in ToSet(ItemsOf(pack)) \cup ToSet(pack.later)
    <3> TAKE i \in 1..Len(units)
    <3>1. CASE i <= n
      <4>1. i \in DOMAIN ItemsOf(pack) /\ ItemsOf(pack)[i] = units[i]
        BY <1>11, <2>7, <3>1
      <4> QED BY <4>1 DEF ToSet
    <3>2. CASE i > n
      <4>1. i - n \in 1..(Len(units) - n) /\ n + (i - n) = i
        BY <2>7, <3>2
      <4>2. i - n \in DOMAIN pack.later /\ pack.later[i - n] = units[i]
        BY <2>3, <4>1
      <4> QED BY <4>2 DEF ToSet
    <3> QED BY <2>7, <3>1, <3>2
  <2>5. pack.hits \cap pack.always \subseteq ToSet(ItemsOf(pack)) \cup ToSet(pack.later)
    BY <1>6, <2>1, <2>2, <2>4
  <2>6. pack.cursor = 0 <=> pack.later = << >>
    <3>1. CASE n < Len(units)
      <4>1. units[n + 1] \in Units
        BY <1>9, <1>10, <3>1
      <4>2. pack.cursor # 0
        BY <1>6, <3>1, <4>1, UnitsOK
      <4>3. pack.later # << >>
        <5>1. Len(pack.later) # 0
          BY <2>7, <3>1
        <5> QED BY <5>1
      <4> QED BY <4>2, <4>3
    <3>2. CASE ~(n < Len(units))
      <4>1. Len(pack.later) = 0 /\ pack.cursor = 0
        BY <1>6, <2>7, <3>2
      <4> QED BY <2>7, <4>1
    <3> QED BY <3>1, <3>2
  <2> QED BY <2>5, <2>6 DEF NothingVanishes
<1>15. PackIsFull(pack)
  <2>1. CASE n < Len(units)
    BY <1>6, <1>10, <1>11, <2>1 DEF PackIsFull
  <2>2. CASE ~(n < Len(units))
    BY <1>6, <1>10, <1>11, <2>2 DEF PackIsFull
  <2> QED BY <2>1, <2>2
<1>16. IncompatibleComeLast(pack)
  <2> SUFFICES ASSUME NEW i \in 1..n, NEW j \in 1..n, i < j,
                      CompatibilityOf(units[i], AskedOf(q)) = "incompatible"
               PROVE  CompatibilityOf(units[j], AskedOf(q)) = "incompatible"
    <3>1. pack.asked = q /\ DOMAIN ItemsOf(pack) = 1..n
          /\ \A i \in 1..n : ItemsOf(pack)[i] = units[i]
      BY <1>6, <1>11
    <3> QED BY <3>1 DEF IncompatibleComeLast
  <2>1. /\ i \in 1..Len(units) /\ j \in 1..Len(units)
        /\ ranked[i] \in S /\ ranked[j] \in S
        /\ units[i] = ranked[i].unit /\ units[j] = ranked[j].unit
    BY <1>9, <1>10
  <2>2. Better(ranked[i], ranked[j]) /\ ranked[i].score = 0
    BY <1>8, <1>9, <1>12, <2>1
  <2>3. ranked[j].score \in Nat
    BY <1>7, <2>1, HitOK
  <2>4. ranked[j].score = 0
    BY <2>2, <2>3 DEF Better
  <2> QED BY <1>12, <2>1, <2>4
<1> QED BY <1>13, <1>14, <1>15, <1>16
-----------------------------------------------------------------------------
(* Every step keeps the invariant.                                          *)

\* What a search finds and what its links lead to.
LEMMA ExpandedOK ==
    ASSUME NEW n \in Nat, n <= Len(HitScores), NEW found \in [1..n -> Units],
           IsInjective(found), NEW limit, NEW E, E = Expanded(found, limit)
    PROVE  HitSet(E) /\ \A h \in E : h.score > 0
<1>1. \A i \in 1..n : HitScores[i] \in Nat /\ HitScores[i] > 0
  <2>1. HitScores \in Seq(Nat \ {0}) /\ Len(HitScores) \in Nat
    BY PackAssumption DEF PackAssumption
  <2>2. \A i \in 1..Len(HitScores) : HitScores[i] \in Nat \ {0}
    BY <2>1
  <2> QED BY <2>1, <2>2
<1>2. \A i \in DOMAIN Links : Links[i].confidence \in Nat /\ Links[i].confidence > 0
  <2>1. PICK T : T = [from: {l.from : l \in ToSet(Links)}, to: {l.to : l \in ToSet(Links)},
                      confidence: Nat \ {0}]
    OBVIOUS
  <2>2. Links \in Seq(T)
    BY <2>1, PackAssumption DEF PackAssumption
  <2>3. \A i \in DOMAIN Links : Links[i] \in T
    BY <2>2
  <2>4. \A l \in T : l.confidence \in Nat \ {0}
    BY <2>1
  <2> QED BY <2>3, <2>4
<1>3. DOMAIN Links \subseteq Int
  BY PackAssumption DEF PackAssumption
<1>4. \A x, y \in Nat : x > 0 /\ y > 0 => x * y \in Nat /\ x * y > 0
  OBVIOUS
<1>5. PICK A : A = {[unit |-> found[i], score |-> 16 * HitScores[i]] : i \in DOMAIN found}
  OBVIOUS
<1>6. PICK Q : Q = {p \in FirstSteps(found) :
                      Cardinality({o \in FirstSteps(found) : Sooner(o, p)})
                         < Max({1, limit - Len(found)})}
  OBVIOUS
<1>7. PICK B : B = {[unit |-> EndOf(found, p),
                     score |-> 3 * Links[p[2]].confidence * HitScores[p[1]]] : p \in Q}
  OBVIOUS
<1>8. E = A \cup B
  BY <1>5, <1>6, <1>7 DEF Expanded
<1>9. \A h \in A : /\ h \in [unit: Units, score: Nat] /\ h.score > 0
                   /\ h.unit \in ToSet(found)
                   /\ \E i \in 1..n : h = [unit |-> found[i], score |-> 16 * HitScores[i]]
  <2>1. \A i \in 1..n : /\ 16 * HitScores[i] \in Nat /\ 16 * HitScores[i] > 0
                        /\ found[i] \in Units /\ found[i] \in ToSet(found)
    BY <1>1 DEF ToSet
  <2> QED BY <1>5, <2>1
<1>10. \A p \in Q : /\ p \in (1..n) \X (DOMAIN Links) /\ p \in FirstSteps(found)
                    /\ EndOf(found, p) \in Units \ ToSet(found)
  BY <1>6 DEF FirstSteps, StepsOf
<1>11. \A p \in Q :
          /\ 3 * Links[p[2]].confidence * HitScores[p[1]] \in Nat
          /\ 3 * Links[p[2]].confidence * HitScores[p[1]] > 0
  <2> TAKE p \in Q
  <2>1. PICK c : c = Links[p[2]].confidence
    OBVIOUS
  <2>2. PICK s : s = HitScores[p[1]]
    OBVIOUS
  <2>3. c \in Nat /\ c > 0 /\ s \in Nat /\ s > 0
    BY <1>1, <1>2, <1>10, <2>1, <2>2
  <2>4. 3 * c \in Nat /\ 3 * c > 0
    BY <2>3
  <2>5. (3 * c) * s \in Nat /\ (3 * c) * s > 0
    BY <1>4, <2>3, <2>4
  <2> QED BY <2>1, <2>2, <2>5
<1>12. \A h \in B : /\ h \in [unit: Units, score: Nat] /\ h.score > 0
                    /\ h.unit \notin ToSet(found)
  BY <1>7, <1>10, <1>11
<1>13. \A o, p \in Q : EndOf(found, o) = EndOf(found, p) => o = p
  <2> SUFFICES ASSUME NEW o \in Q, NEW p \in Q, EndOf(found, o) = EndOf(found, p)
               PROVE  o = p
    OBVIOUS
  <2>1. ~Sooner(o, p) /\ ~Sooner(p, o)
    BY <1>10 DEF FirstSteps
  <2>2. o[1] \in Int /\ o[2] \in Int /\ p[1] \in Int /\ p[2] \in Int
        /\ o = <<o[1], o[2]>> /\ p = <<p[1], p[2]>>
    BY <1>3, <1>10
  <2>3. o[1] = p[1] /\ o[2] = p[2]
    BY <2>1, <2>2 DEF Sooner
  <2> QED BY <2>2, <2>3
<1>14. \A g, h \in A : g.unit = h.unit => g = h
  <2> SUFFICES ASSUME NEW g \in A, NEW h \in A, g.unit = h.unit PROVE g = h
    OBVIOUS
  <2>1. PICK i \in 1..n : g = [unit |-> found[i], score |-> 16 * HitScores[i]]
    BY <1>9
  <2>2. PICK j \in 1..n : h = [unit |-> found[j], score |-> 16 * HitScores[j]]
    BY <1>9
  <2>3. i = j
    BY <2>1, <2>2 DEF IsInjective
  <2> QED BY <2>1, <2>2, <2>3
<1>15. \A g, h \in B : g.unit = h.unit => g = h
  <2> SUFFICES ASSUME NEW g \in B, NEW h \in B, g.unit = h.unit PROVE g = h
    OBVIOUS
  <2>1. PICK o \in Q : g = [unit |-> EndOf(found, o),
                            score |-> 3 * Links[o[2]].confidence * HitScores[o[1]]]
    BY <1>7
  <2>2. PICK p \in Q : h = [unit |-> EndOf(found, p),
                            score |-> 3 * Links[p[2]].confidence * HitScores[p[1]]]
    BY <1>7
  <2>3. o = p
    BY <1>13, <2>1, <2>2
  <2> QED BY <2>1, <2>2, <2>3
<1> QED BY <1>8, <1>9, <1>12, <1>14, <1>15 DEF HitSet

LEMMA PacksInitInv == PackInit => PacksInv
<1> SUFFICES ASSUME PackInit PROVE PacksInv
  OBVIOUS
<1>1. PackTypeOK
  <2>1. claim_book \in [DOMAIN ClaimOf -> ClaimStates]
    BY DEF PackInit, ClaimStates
  <2>2. MaxPacksBuilt \in Nat /\ MaxStoreWrites \in Nat
    BY PackAssumption DEF PackAssumption
  <2> QED BY <2>1, <2>2 DEF PackInit, PackTypeOK
<1> QED BY <1>1 DEF PackInit, PacksInv, BuildOK, PacksOK, NoBuild

\* What a build holds, with the lists of hits typed.
LEMMA HitsTyped ==
    ASSUME NEW S, HitSet(S), \A h \in S : h.score > 0
    PROVE  HitsOK(ByScore(S))
<1>1. PICK B : B = ByScore(S)
  OBVIOUS
<1>2. /\ B \in Seq(S) /\ Len(B) = Cardinality(S)
      /\ \A i, j \in DOMAIN B : i < j <=> Better(B[i], B[j])
  BY <1>1, ByScoreOK
<1>3. DOMAIN B = 1..Len(B) /\ Len(B) \in Nat /\ \A i \in DOMAIN B : B[i] \in S
  BY <1>2
<1>4. B \in Seq([unit: Units, score: Nat])
  <2>1. PICK T : T = [unit: Units, score: Nat]
    OBVIOUS
  <2>2. \A i \in DOMAIN B : B[i] \in T
    BY <1>3, <2>1 DEF HitSet
  <2>3. B \in [1..Len(B) -> T]
    BY <1>2, <1>3, <2>2
  <2>4. B \in Seq(T)
    BY <1>3, <2>3
  <2> QED BY <2>1, <2>4
<1>5. ASSUME NEW i \in DOMAIN B, NEW j \in DOMAIN B, B[i].unit = B[j].unit PROVE i = j
  <2>1. B[i] = B[j]
    BY <1>3, <1>5 DEF HitSet
  <2>2. ~Better(B[i], B[j]) /\ ~Better(B[j], B[i])
    BY <1>3, <2>1, HitOK DEF Better
  <2>3. ~(i < j) /\ ~(j < i)
    BY <1>2, <2>2
  <2> QED BY <1>3, <2>3
<1> QED BY <1>1, <1>3, <1>4, <1>5 DEF HitsOK

LEMMA RecalledKeeps ==
    ASSUME PacksInv, NEW q \in PackQueries, Recalled(q) PROVE PacksInv'
<1>1. PICK n \in {m \in 0..Len(HitScores) : m <= RecallLimit(q)} :
      \E found \in {s \in [1..n -> MayRecall(q)] : IsInjective(s)} :
          build' = [step |-> "examine", query |-> q, at |-> 1, quiet |-> TRUE,
                    hits |-> ByScore(Expanded(found, RecallLimit(q))),
                    survivors |-> {}, once |-> Passing, always |-> Passing]
  BY DEF Recalled
<1>2. PICK found \in {s \in [1..n -> MayRecall(q)] : IsInjective(s)} :
          build' = [step |-> "examine", query |-> q, at |-> 1, quiet |-> TRUE,
                    hits |-> ByScore(Expanded(found, RecallLimit(q))),
                    survivors |-> {}, once |-> Passing, always |-> Passing]
  BY <1>1
<1>3. n \in Nat /\ n <= Len(HitScores) /\ found \in [1..n -> Units] /\ IsInjective(found)
  <2>1. Len(HitScores) \in Nat
    BY PackAssumption DEF PackAssumption
  <2> QED BY <2>1, <1>2 DEF MayRecall
<1>4. PICK hits : hits = ByScore(Expanded(found, RecallLimit(q)))
  OBVIOUS
<1>5. HitsOK(hits)
  BY <1>3, <1>4, ExpandedOK, HitsTyped
<1>6. Passing' = Passing /\ UNCHANGED <<claim_book, stored, reference_packs, store_writes>>
  BY DEF Recalled, Passing, PassesGuards, EvidenceCloses, TruthOf, Disputed, ValidClaims, ClaimsAbout
<1>7. build' \in BuildType /\ build'.at <= Len(build'.hits) + 1
  <2>1. Passing \subseteq Units
    BY DEF Passing
  <2>2. Len(hits) \in Nat
    BY <1>5 DEF HitsOK
  <2> QED BY <1>2, <1>4, <1>5, <2>1, <2>2 DEF BuildType, HitsOK
<1>8. SurvivorsOK(build)'
  <2>1. 1..(1 - 1) = {}
    OBVIOUS
  <2>2. PassedSoFar(build)' = {}
    BY <1>2, <2>1 DEF PassedSoFar
  <2>3. HitSet({})
    BY DEF HitSet
  <2> QED BY <1>2, <1>6, <2>1, <2>2, <2>3 DEF SurvivorsOK
<1>9. BuildOK'
  BY <1>2, <1>4, <1>5, <1>7, <1>8 DEF BuildOK
<1>10. PackTypeOK'
  <2>1. packs_built' \in 0..MaxPacksBuilt
    BY PackAssumption DEF PackAssumption, PacksInv, PackTypeOK, Recalled
  <2> QED BY <1>6, <1>7, <2>1 DEF PacksInv, PackTypeOK
<1>11. PacksOK'
  BY <1>6 DEF PacksInv, PacksOK
<1> QED BY <1>9, <1>10, <1>11 DEF PacksInv
LEMMA ExaminedKeeps == ASSUME PacksInv, Examined PROVE PacksInv'
<1>1. PICK hit : hit = build.hits[build.at]
  OBVIOUS
<1>2. PICK asked : asked = AskedOf(build.query)
  OBVIOUS
<1>3. PICK more : more = IF PassesGuards(hit.unit) THEN {Scored(hit, asked)} ELSE {}
  OBVIOUS
<1>4. /\ build.step = "examine" /\ build \in BuildType
      /\ build.at <= Len(build.hits) /\ build.at \in Nat \ {0}
      /\ HitsOK(build.hits) /\ SurvivorsOK(build)
  BY DEF PacksInv, BuildOK, Examined, BuildType
<1>5. /\ build'.step = "examine" /\ build'.query = build.query /\ build'.at = build.at + 1
      /\ build'.quiet = build.quiet /\ build'.hits = build.hits
      /\ build'.survivors = build.survivors \cup more
      /\ build'.once = build.once /\ build'.always = build.always
      /\ build' = [build EXCEPT !.at = build.at + 1, !.survivors = build.survivors \cup more]
  BY <1>1, <1>2, <1>3, <1>4 DEF Examined, BuildType
<1>6. UNCHANGED <<claim_book, stored, reference_packs, packs_built, store_writes>>
  BY DEF Examined
<1>7. /\ Passing' = Passing /\ \A u : PassesGuards(u)' = PassesGuards(u)
      /\ \A h, a : Scored(h, a)' = Scored(h, a)
  BY <1>6 DEF Passing, PassesGuards, EvidenceCloses, Disputed, Scored, FinalScore, TruthOf,
              ValidClaims, ClaimsAbout
<1>8. /\ hit \in [unit: Units, score: Nat] /\ hit.score > 0 /\ hit.unit \in Units
      /\ build.at \in DOMAIN build.hits /\ DOMAIN build.hits = 1..Len(build.hits)
      /\ Len(build.hits) \in Nat
  <2>1. PICK T : T = [unit: Units, score: Nat]
    OBVIOUS
  <2>2. PICK hits : hits = build.hits
    OBVIOUS
  <2>3. hits \in Seq(T) /\ build.at \in 1..Len(hits) /\ Len(hits) \in Nat
    BY <1>4, <2>1, <2>2 DEF HitsOK
  <2>4. hits[build.at] \in T /\ DOMAIN hits = 1..Len(hits)
    BY <2>3
  <2> QED BY <1>1, <1>4, <2>1, <2>2, <2>3, <2>4 DEF HitsOK
<1>9. ASSUME NEW s \in more
      PROVE  /\ s = Scored(hit, asked) /\ PassesGuards(hit.unit)
             /\ s \in [unit: Units, score: Nat] /\ s.unit = hit.unit /\ s.unit \in Passing
             /\ s.score = 0 <=> Incompatible(s.unit, build.query)
  <2>1. s = Scored(hit, asked) /\ PassesGuards(hit.unit)
    BY <1>3
  <2> QED BY <1>2, <1>8, <2>1, ScoredOK DEF Incompatible, Passing
<1>10. \A s \in build.survivors : s.unit # hit.unit
  <2> TAKE s \in build.survivors
  <2>1. PICK i \in 1..(build.at - 1) : s.unit = build.hits[i].unit
    BY <1>4 DEF SurvivorsOK
  <2>2. i \in DOMAIN build.hits /\ i # build.at
    BY <1>4, <1>8, <2>1
  <2> QED BY <1>1, <1>4, <1>8, <2>1, <2>2 DEF HitsOK
<1>11. HitSet(build'.survivors)
  <2>1. \A s, t \in more : s = t
    BY <1>9
  <2> QED BY <1>4, <1>5, <1>9, <1>10, <2>1 DEF SurvivorsOK, HitSet
<1>12. SurvivorsOK(build)'
  <2>1. ASSUME NEW s \in build'.survivors
        PROVE  /\ s.unit \in build.once
               /\ \E i \in 1..build.at : s.unit = build.hits[i].unit
               /\ s.score = 0 <=> Incompatible(s.unit, build.query)
    <3>1. CASE s \in build.survivors
      <4>1. 1..(build.at - 1) \subseteq 1..build.at
        BY <1>4
      <4> QED BY <1>4, <3>1, <4>1 DEF SurvivorsOK
    <3>2. CASE s \in more
      <4>1. build.at \in 1..build.at
        BY <1>4
      <4> QED BY <1>1, <1>4, <1>9, <3>2, <4>1 DEF SurvivorsOK
    <3> QED BY <1>5, <3>1, <3>2
  <2>2. ASSUME NEW i \in 1..build.at, build.hits[i].unit \in build.always
        PROVE  \E s \in build'.survivors : s.unit = build.hits[i].unit
    <3>1. CASE i = build.at
      <4>1. PassesGuards(hit.unit)
        BY <1>1, <1>4, <2>2, <3>1 DEF SurvivorsOK, Passing
      <4>2. Scored(hit, asked) \in more
        BY <1>3, <4>1
      <4> QED BY <1>1, <1>5, <1>9, <3>1, <4>2
    <3>2. CASE i # build.at
      <4>1. i \in 1..(build.at - 1)
        BY <1>4, <3>2
      <4> QED BY <1>4, <1>5, <2>2, <4>1 DEF SurvivorsOK
    <3> QED BY <3>1, <3>2
  <2>3. build.quiet => build'.survivors = {Scored(h, asked) : h \in PassedSoFar(build)'}
    <3>2. PassedSoFar(build)'
             = {build.hits[i] : i \in {k \in 1..build.at : PassesGuards(build.hits[k].unit)}}
      <4>1. build'.at - 1 = build.at
        BY <1>4, <1>5
      <4> QED BY <1>5, <1>7, <4>1 DEF PassedSoFar
    <3>3. PassedSoFar(build)' = PassedSoFar(build) \cup (IF PassesGuards(hit.unit) THEN {hit} ELSE {})
      <4>1. 1..build.at = 1..(build.at - 1) \cup {build.at}
        BY <1>4
      <4> QED BY <1>1, <3>2, <4>1 DEF PassedSoFar
    <3>4. build.quiet => build.survivors = {Scored(h, asked) : h \in PassedSoFar(build)}
      BY <1>2, <1>4 DEF SurvivorsOK
    <3> QED BY <1>3, <1>5, <3>3, <3>4
  <2>4. /\ Passing' \subseteq build'.once /\ build'.always \subseteq Passing'
    BY <1>4, <1>5, <1>7 DEF SurvivorsOK
  <2>5. build'.at - 1 = build.at
    BY <1>4, <1>5
  <2>6. \A u : Incompatible(u, build'.query) = Incompatible(u, build.query)
    BY <1>5
  <2>7. build'.quiet =>
           build'.survivors = {Scored(h, AskedOf(build.query)) : h \in PassedSoFar(build)}'
    <3>1. \A h : Scored(h, AskedOf(build.query))' = Scored(h, asked)
      BY <1>2, <1>5, <1>6 DEF Scored, FinalScore, TruthOf, ValidClaims, ClaimsAbout
    <3> QED BY <1>5, <2>3, <3>1
  <2> QED BY <1>5, <1>11, <2>1, <2>2, <2>4, <2>5, <2>6, <2>7 DEF SurvivorsOK
<1>13. build' \in BuildType /\ build'.at <= Len(build'.hits) + 1
  <2>1. build'.survivors \in SUBSET [unit: Units, score: Nat]
    BY <1>11 DEF HitSet
  <2>2. build.survivors \cup more \in SUBSET [unit: Units, score: Nat]
    BY <1>5, <2>1
  <2>3. build.at + 1 \in Nat \ {0} /\ build.at + 1 <= Len(build.hits) + 1
    BY <1>4, <1>8
  <2>4. [build EXCEPT !.at = build.at + 1, !.survivors = build.survivors \cup more] \in BuildType
    BY <1>4, <2>2, <2>3 DEF BuildType
  <2>5. build' \in BuildType
    BY <1>5, <2>4
  <2> QED BY <1>5, <2>3, <2>5
<1>14. BuildOK'
  BY <1>4, <1>5, <1>12, <1>13 DEF BuildOK
<1>15. PackTypeOK' /\ PacksOK'
  BY <1>6, <1>13 DEF PacksInv, PackTypeOK, PacksOK
<1> QED BY <1>14, <1>15 DEF PacksInv

LEMMA PackBuiltKeeps == ASSUME PacksInv, PackBuilt PROVE PacksInv'
<1>1. BuildOK' /\ build' = NoBuild
  BY DEF PackBuilt, NoBuild, BuildOK
<1>2. PICK pack : pack = PackOf(build)
  OBVIOUS
<1>3. /\ ItemsAreWarranted(pack) /\ NothingVanishes(pack)
      /\ PackIsFull(pack) /\ IncompatibleComeLast(pack)
  BY <1>2, PackIsOK DEF PacksInv, PackBuilt
<1>4. build.query \in PackQueries
  BY DEF PacksInv, BuildOK, PackBuilt, BuildType
<1>5. PacksOK'
  <2>1. \A k \in DOMAIN reference_packs' :
           \/ reference_packs'[k] = pack
           \/ k \in DOMAIN reference_packs /\ reference_packs'[k] = reference_packs[k]
    BY <1>2 DEF PackBuilt
  <2> QED BY <1>3, <2>1 DEF PacksInv, PacksOK
<1>6. PackTypeOK'
  BY <1>1, <1>4 DEF PackBuilt, PacksInv, PackTypeOK
<1> QED BY <1>1, <1>5, <1>6 DEF PacksInv

\* What another process writes: the build goes on, no longer quiet.
LEMMA NoticedKeeps ==
    ASSUME BuildOK, PackTypeOK, Noticed
    PROVE  BuildOK' /\ (build' = NoBuild \/ build' \in BuildType)
<1>1. CASE build.step = "idle"
  BY <1>1 DEF Noticed, BuildOK, PackTypeOK, BuildType
<1>2. CASE build.step # "idle"
  <2>1. /\ build.step = "examine" /\ build \in BuildType
        /\ build.at <= Len(build.hits) + 1 /\ HitsOK(build.hits) /\ SurvivorsOK(build)
    BY <1>2 DEF BuildOK, PackTypeOK, BuildType, NoBuild
  <2>2. build' = [build EXCEPT !.quiet = FALSE, !.once = build.once \cup Passing',
                               !.always = build.always \cap Passing']
    BY <1>2, <2>1 DEF Noticed, BuildType
  <2>3. /\ build'.step = "examine" /\ build'.query = build.query /\ build'.at = build.at
        /\ build'.quiet = FALSE /\ build'.hits = build.hits
        /\ build'.survivors = build.survivors
        /\ build'.once = build.once \cup Passing' /\ build'.always = build.always \cap Passing'
    BY <2>1, <2>2 DEF BuildType
  <2>4. Passing' \subseteq Units
    BY DEF Passing
  <2>5. build' \in BuildType
    BY <2>1, <2>2, <2>4 DEF BuildType
  <2>6. SurvivorsOK(build)'
    BY <2>1, <2>3 DEF SurvivorsOK, Incompatible
  <2> QED BY <2>1, <2>3, <2>5, <2>6 DEF BuildOK
<1> QED BY <1>1, <1>2

LEMMA WrittenKeeps ==
    ASSUME PacksInv,
           \/ \E c \in DOMAIN ClaimOf, state \in ClaimStates : ClaimWritten(c, state)
           \/ \E s \in AllEvidence : SnapshotStored(s)
    PROVE  PacksInv'
<1>1. Noticed /\ UNCHANGED <<reference_packs, packs_built>>
  BY DEF ClaimWritten, SnapshotStored
<1>2. BuildOK' /\ (build' = NoBuild \/ build' \in BuildType)
  BY <1>1, NoticedKeeps DEF PacksInv
<1>3. PacksOK'
  BY <1>1 DEF PacksInv, PacksOK
<1>4. claim_book' \in [DOMAIN ClaimOf -> ClaimStates] /\ stored' \subseteq AllEvidence
  BY DEF PacksInv, PackTypeOK, ClaimWritten, SnapshotStored
<1>5. store_writes' \in 0..MaxStoreWrites
  BY PackAssumption DEF PackAssumption, PacksInv, PackTypeOK, ClaimWritten, SnapshotStored
<1> QED BY <1>1, <1>2, <1>3, <1>4, <1>5 DEF PacksInv, PackTypeOK

LEMMA PacksInvNext == PacksInv /\ [PackNext]_pack_vars => PacksInv'
<1> SUFFICES ASSUME PacksInv, [PackNext]_pack_vars PROVE PacksInv'
  OBVIOUS
<1>1. CASE \E q \in PackQueries : Recalled(q)
  BY <1>1, RecalledKeeps
<1>2. CASE Examined
  BY <1>2, ExaminedKeeps
<1>3. CASE PackBuilt
  BY <1>3, PackBuiltKeeps
<1>4. CASE \/ \E c \in DOMAIN ClaimOf, state \in ClaimStates : ClaimWritten(c, state)
           \/ \E s \in AllEvidence : SnapshotStored(s)
  BY <1>4, WrittenKeeps
<1>5. CASE UNCHANGED pack_vars
  <2>1. /\ Passing' = Passing /\ \A u : PassesGuards(u)' = PassesGuards(u)
        /\ \A h, a : Scored(h, a)' = Scored(h, a)
    BY <1>5 DEF pack_vars, Passing, PassesGuards, EvidenceCloses, Disputed, Scored, FinalScore,
                TruthOf, ValidClaims, ClaimsAbout
  <2>2. PassedSoFar(build)' = PassedSoFar(build)
    BY <1>5, <2>1 DEF pack_vars, PassedSoFar
  <2>3. SurvivorsOK(build) => SurvivorsOK(build)'
    BY <1>5, <2>1, <2>2 DEF pack_vars, SurvivorsOK
  <2> QED BY <1>5, <2>3 DEF pack_vars, PacksInv, BuildOK, PacksOK, PackTypeOK
<1> QED BY <1>1, <1>2, <1>3, <1>4, <1>5 DEF PackNext

THEOREM PacksInvariant == PackSpec => []PacksInv
<1> QED BY PacksInitInv, PacksInvNext, PTL DEF PackSpec

THEOREM PacksTyped == PackSpec => []PackTypeOK
<1>1. PacksInv => PackTypeOK
  BY DEF PacksInv
<1> QED BY <1>1, PacksInvariant, PTL

THEOREM WarrantedPacks == PackSpec => []PacksAreWarranted
<1>1. PacksInv => PacksAreWarranted
  BY ExplainedOK DEF PacksInv, PacksOK, PacksAreWarranted
<1> QED BY <1>1, PacksInvariant, PTL
=============================================================================
