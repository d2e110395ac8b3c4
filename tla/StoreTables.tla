------------------------------ MODULE StoreTables ------------------------------
(* The two stores of the KnowStore contract, table by table: the dictionaries *)
(* of store/memory.py and the collections of store/seekdb.py.  A row is a     *)
(* record with its id; a put answers the tables it leaves and what it returns *)
(* or raises.  An id is a pair of numbers, a text is a number.                *)
EXTENDS Integers, Sequences, SequencesExt, FiniteSets, FiniteSetsExt, TLC

CONSTANT NoVector      \* a unit without an embedding of a field

TableNames ==
    {"sources", "snapshots", "documents", "evidence", "cards", "components", "pages", "units",
     "claims", "disagreements", "relations", "packs", "feedback", "governance", "versions"}
EmptyMemory ==
    [part \in TableNames \cup {"embedded", "embedding_writes"} |->
        IF part = "embedding_writes" THEN 0 ELSE << >>]
EmptySeek == [part \in TableNames \cup {"vectors", "fulltext", "native"} |-> << >>]

VectorFields == {"problem", "mechanism", "content", "code"}

\* f with id taken to x, whatever it was.
Taking(f, id, x) == [i \in DOMAIN f \cup {id} |-> IF i = id THEN x ELSE f[i]]

TableRows(s, t) == {s[t][id] : id \in DOMAIN s[t]}
Stored(s, t, id) == id \in DOMAIN s[t]
Result(s, answer) == [tables |-> s, answer |-> answer]
Kept(s, t, row) == [s EXCEPT ![t] = Taking(@, row.id, row)]
Version(snapshot) == <<snapshot.source, snapshot.version>>
\* The routes of feedback_governance.py that differ in their status.
RoutedStatus(verdict) == IF verdict \in {"useful", "irrelevant"} THEN "signal_recorded" ELSE "pending_review"
GovernanceFor(feedback) ==
    [id |-> feedback.id, queue |-> feedback.verdict, status |-> RoutedStatus(feedback.verdict),
     at |-> feedback.at]
Reviewed(record, decision) ==
    [record EXCEPT !.status = IF decision = "apply" THEN "reviewed" ELSE "dismissed"]

-----------------------------------------------------------------------------
(* store/memory.py                                                            *)

MemUpsert(s, t, row) ==
    IF Stored(s, t, row.id) /\ s[t][row.id] = row THEN Result(s, "same")
    ELSE Result(Kept(s, t, row), "written")
MemDiffers(s, t, row) == Stored(s, t, row.id) /\ s[t][row.id] # row

MemSnapshot(s, row) ==
    IF MemDiffers(s, "snapshots", row) THEN Result(s, "immutable")
    ELSE IF Stored(s, "snapshots", row.id) THEN Result(s, "same")
    ELSE IF \E o \in TableRows(s, "snapshots") : Version(o) = Version(row) THEN Result(s, "immutable")
    ELSE Result(Kept(s, "snapshots", row), "written")

MemDocument(s, row) ==
    IF ~Stored(s, "snapshots", row.snapshot) THEN Result(s, "unknown")
    ELSE IF MemDiffers(s, "documents", row) THEN Result(s, "immutable")
    ELSE MemUpsert(s, "documents", row)

MemEvidence(s, row) ==
    IF ~Stored(s, "snapshots", row.snapshot) \/ ~Stored(s, "documents", row.document)
    THEN Result(s, "unknown")
    ELSE IF MemDiffers(s, "evidence", row) THEN Result(s, "immutable")
    ELSE MemUpsert(s, "evidence", row)

\* Cards, components and pages may be written over.
MemOfSnapshot(s, t, row) ==
    IF Stored(s, "snapshots", row.snapshot) THEN MemUpsert(s, t, row) ELSE Result(s, "unknown")

MemCited(s, row) ==
    /\ \A id \in row.snapshots : Stored(s, "snapshots", id)
    /\ \A id \in row.evidence : Stored(s, "evidence", id)

\* The embeddings stand as long as the text does, whatever the call brings.
Embeddings(row) == {f \in VectorFields : row.vectors[f] # NoVector}
Reembedded(s, row) ==
    [Kept(s, "units", row) EXCEPT
        !.embedded = Taking(@, row.id, row.text),
        !.embedding_writes = IF Embeddings(row) = {} THEN @ ELSE @ + 1]
MemUnit(s, row) ==
    LET known == Stored(s, "units", row.id)
        stands == known /\ row.id \in DOMAIN s.embedded /\ s.embedded[row.id] = row.text IN
    IF ~MemCited(s, row) THEN Result(s, "unknown")
    ELSE IF known /\ s.units[row.id] = row THEN Result(s, "same")
    ELSE IF stands
         THEN Result(Kept(s, "units", [row EXCEPT !.vectors = s.units[row.id].vectors]), "written")
         ELSE Result(Reembedded(s, row), "written")

MemClaim(s, row) ==
    IF MemCited(s, row) /\ (row.unit = << >> \/ Stored(s, "units", row.unit))
    THEN MemUpsert(s, "claims", row) ELSE Result(s, "unknown")

MemDisagreement(s, row) ==
    IF \A id \in row.claims : Stored(s, "claims", id)
    THEN MemUpsert(s, "disagreements", row) ELSE Result(s, "unknown")

MemRelation(s, row) ==
    IF Stored(s, "evidence", row.evidence) THEN MemUpsert(s, "relations", row) ELSE Result(s, "unknown")

\* A repeated delivery routes the feedback again.
MemFeedback(s, row) ==
    IF MemDiffers(s, "feedback", row) THEN Result(s, "conflict")
    ELSE LET put == MemUpsert(s, "feedback", row) IN
         Result(MemUpsert(put.tables, "governance", GovernanceFor(row)).tables, put.answer)

MemReview(s, row) ==
    IF Stored(s, "governance", row.id)
    THEN Result(Kept(s, "governance", Reviewed(s.governance[row.id], row.decision)), "reviewed")
    ELSE Result(s, "none")

MemVersion(s, row) ==
    IF MemDiffers(s, "versions", row) THEN Result(s, "conflict") ELSE MemUpsert(s, "versions", row)

MemCall(s, call) ==
    LET t == call.table row == call.row IN
    CASE t = "snapshots" -> MemSnapshot(s, row)
      [] t = "documents" -> MemDocument(s, row)
      [] t = "evidence" -> MemEvidence(s, row)
      [] t \in {"cards", "components", "pages"} -> MemOfSnapshot(s, t, row)
      [] t = "units" -> MemUnit(s, row)
      [] t = "claims" -> MemClaim(s, row)
      [] t = "disagreements" -> MemDisagreement(s, row)
      [] t = "relations" -> MemRelation(s, row)
      [] t = "feedback" -> MemFeedback(s, row)
      [] t = "governance" -> MemReview(s, row)
      [] t = "versions" -> MemVersion(s, row)
      [] OTHER -> MemUpsert(s, t, row)

-----------------------------------------------------------------------------
(* store/seekdb.py                                                            *)

\* A payload that decodes to what is there is not written.
SeekPut(s, t, row) ==
    IF Stored(s, t, row.id) /\ s[t][row.id] = row THEN Result(s, "same")
    ELSE Result(Kept(s, t, row), "written")
SeekFixed(s, t, row, error) ==
    IF Stored(s, t, row.id) /\ s[t][row.id] # row THEN Result(s, error) ELSE SeekPut(s, t, row)

SeekSnapshot(s, row) ==
    IF Stored(s, "snapshots", row.id) THEN SeekFixed(s, "snapshots", row, "immutable")
    ELSE IF \E o \in TableRows(s, "snapshots") : Version(o) = Version(row) /\ o # row
         THEN Result(s, "immutable")
         ELSE SeekPut(s, "snapshots", row)

SeekDocument(s, row) ==
    IF Stored(s, "snapshots", row.snapshot) THEN SeekFixed(s, "documents", row, "immutable")
    ELSE Result(s, "unknown")

SeekEvidence(s, row) ==
    IF Stored(s, "snapshots", row.snapshot) /\ Stored(s, "documents", row.document)
    THEN SeekFixed(s, "evidence", row, "immutable") ELSE Result(s, "unknown")

SeekOfSnapshot(s, t, row) ==
    IF Stored(s, "snapshots", row.snapshot) THEN SeekPut(s, t, row) ELSE Result(s, "unknown")

SeekCited(s, row) ==
    /\ \A id \in row.snapshots : Stored(s, "snapshots", id)
    /\ \A id \in row.evidence : Stored(s, "evidence", id)

\* With another text, its embeddings are written over those it had; one that it
\* no longer has stays in the collection of its field.
Indexed(s, row) ==
    LET keys == {<<f, row.id>> : f \in Embeddings(row)} IN
    [s EXCEPT
       !.vectors = [key \in DOMAIN @ \cup keys |-> IF key \in keys THEN row.vectors[key[1]] ELSE @[key]],
       !.fulltext = Taking(@, row.id, row.text),
       !.native = IF Embeddings(row) = {} THEN @ ELSE Taking(@, row.id, row.status)]
SeekUnit(s, row) ==
    IF ~SeekCited(s, row) THEN Result(s, "unknown")
    ELSE IF Stored(s, "units", row.id) /\ s.units[row.id].text = row.text
         THEN SeekPut(s, "units", [row EXCEPT !.vectors = s.units[row.id].vectors])
         ELSE SeekPut(Indexed(s, row), "units", row)

SeekClaim(s, row) ==
    IF SeekCited(s, row) /\ (row.unit = << >> \/ Stored(s, "units", row.unit))
    THEN SeekPut(s, "claims", row) ELSE Result(s, "unknown")

SeekDisagreement(s, row) ==
    IF \A id \in row.claims : Stored(s, "claims", id)
    THEN SeekPut(s, "disagreements", row) ELSE Result(s, "unknown")

SeekRelation(s, row) ==
    IF Stored(s, "evidence", row.evidence) THEN SeekPut(s, "relations", row) ELSE Result(s, "unknown")

\* The feedback is put first, its place in the queue after it.
FeedbackStored(s, row) == SeekFixed(s, "feedback", row, "conflict")
SeekFeedback(s, row) ==
    LET put == FeedbackStored(s, row) IN
    IF put.answer = "conflict" THEN put
    ELSE Result(SeekPut(put.tables, "governance", GovernanceFor(row)).tables, put.answer)

SeekReview(s, row) ==
    IF ~Stored(s, "governance", row.id) THEN Result(s, "none")
    ELSE Result(SeekPut(s, "governance", Reviewed(s.governance[row.id], row.decision)).tables, "reviewed")

SeekVersion(s, row) == SeekFixed(s, "versions", row, "conflict")

SeekCall(s, call) ==
    LET t == call.table row == call.row IN
    CASE t = "snapshots" -> SeekSnapshot(s, row)
      [] t = "documents" -> SeekDocument(s, row)
      [] t = "evidence" -> SeekEvidence(s, row)
      [] t \in {"cards", "components", "pages"} -> SeekOfSnapshot(s, t, row)
      [] t = "units" -> SeekUnit(s, row)
      [] t = "claims" -> SeekClaim(s, row)
      [] t = "disagreements" -> SeekDisagreement(s, row)
      [] t = "relations" -> SeekRelation(s, row)
      [] t = "feedback" -> SeekFeedback(s, row)
      [] t = "governance" -> SeekReview(s, row)
      [] t = "versions" -> SeekVersion(s, row)
      [] OTHER -> SeekPut(s, t, row)

-----------------------------------------------------------------------------
(* The reads of both: what is listed, in which order, and how much of it.     *)

IdLess(a, b) == \E i \in DOMAIN a : a[i] < b[i] /\ \A j \in 1..(i - 1) : a[j] = b[j]
Listed(rows, Before(_, _)) == SetToSortSeq(rows, Before)
\* seq[:limit]: a negative limit takes from the end.
Sliced(seq, limit) ==
    SubSeq(seq, 1, IF limit < 0 THEN Max({0, Len(seq) + limit}) ELSE Min({limit, Len(seq)}))
FirstUpTo(seq, limit) == IF limit <= 0 THEN << >> ELSE Sliced(seq, limit)

ListDocuments(s, snapshot) ==
    Listed({d \in TableRows(s, "documents") : d.snapshot = snapshot},
           LAMBDA a, b : IdLess(<<a.path>> \o a.id, <<b.path>> \o b.id))
ListPages(s, project) ==
    Listed({p \in TableRows(s, "pages") : p.project = project},
           LAMBDA a, b : IdLess(<<a.order>> \o a.id, <<b.order>> \o b.id))
ListClaims(s, unit, snapshot, status) ==
    Listed({c \in TableRows(s, "claims") :
              /\ unit = << >> \/ c.unit = unit
              /\ snapshot = << >> \/ snapshot \in c.snapshots
              /\ status = "" \/ c.status = status},
           LAMBDA a, b : IdLess(<<a.subject>> \o a.id, <<b.subject>> \o b.id))
\* The newest first.
Newest(rows) == Listed(rows, LAMBDA a, b : IdLess(<<b.at>> \o b.id, <<a.at>> \o a.id))
ListDisagreements(s, status, limit) ==
    FirstUpTo(Newest({d \in TableRows(s, "disagreements") : status = "" \/ d.status = status}), limit)
ListGovernance(s, queue, status, limit) ==
    FirstUpTo(Newest({g \in TableRows(s, "governance") :
                        /\ queue = "" \/ g.queue = queue
                        /\ status = "" \/ g.status = status}), limit)
\* The most certain first.
Related(s, entity, limit) ==
    Sliced(Listed({r \in TableRows(s, "relations") : entity \in {r.from, r.to}},
                  LAMBDA a, b : IdLess(<<-a.confidence>> \o a.id, <<-b.confidence>> \o b.id)), limit)
LatestVersion(s) ==
    {v \in TableRows(s, "versions") : \A w \in TableRows(s, "versions") : w.at <= v.at}
Statistics(s) == [t \in TableNames \ {"documents", "evidence", "components", "relations", "versions"} |->
                    Cardinality(DOMAIN s[t])]
=============================================================================
