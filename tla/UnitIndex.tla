------------------------------- MODULE UnitIndex -------------------------------
(***************************************************************************)
(* One knowledge unit in the SeekDB store (store/seekdb.py, upsert_unit):  *)
(* its base record, its embeddings in one collection per field and         *)
(* dimension, its text in one collection per analyzer and, on a server,    *)
(* its row in the native hybrid table of the dimension.                    *)
(*                                                                         *)
(* A put writes them one after the other and the base record last.  Each   *)
(* write is atomic, the put is not: any write may raise, the process may   *)
(* die, and readers join the collections on the unit's id at any time.     *)
(***************************************************************************)
EXTENDS Naturals, Sequences

CONSTANTS
    Texts,         \* title, problem, mechanism and implementation of the unit
    Statuses,      \* review status, which the embedding hash leaves out
    Dims,          \* dimensions of embeddings
    Shapes,        \* which embeddings callers give: field -> dimension, None
    Opens,         \* which optional indexes may open with the store
    MaxPuts,       \* bound on calls of upsert_unit
    MaxFaults,     \* bound on writes that raise
    MaxCrashes,    \* bound on restarts of the process
    None

VECTOR_FIELDS     == <<"problem", "mechanism", "content", "code">>
NATIVE_FIELDS     == <<"content", "problem", "code", "mechanism">>
FULLTEXT_ANALYZERS == <<"ngram", "beng", "ik">>

Fields    == {VECTOR_FIELDS[i] : i \in DOMAIN VECTOR_FIELDS}
Analyzers == {FULLTEXT_ANALYZERS[i] : i \in DOMAIN FULLTEXT_ANALYZERS}
Features  == Analyzers \cup {"native_hybrid_sql"}

ASSUME UnitAssumption ==
    /\ None \notin Texts /\ None \notin Statuses /\ None \notin Dims
    /\ None \notin [text: Texts, status: Statuses]
    /\ Shapes \subseteq [Fields -> Dims \cup {None}]
    /\ Opens \subseteq SUBSET Features
    /\ MaxPuts \in Nat /\ MaxFaults \in Nat /\ MaxCrashes \in Nat

Unit == [text: Texts, status: Statuses, vectors: Shapes]

VARIABLES
    base,          \* the unit's record, None before the first commit
    vector,        \* field and dimension -> the text embedded there, None
    fulltext,      \* analyzer -> the text indexed there, None
    native,        \* dimension -> text and status of the native row, None
    opened,        \* the optional indexes that opened with this store object
    degraded,      \* degraded features the store object reports
    put,           \* the call under way: its unit, where it is, and whether it
                   \*   is the first one, an update, or keeps the embeddings
    puts, faults, crashes,
    torn           \* history: an update stopped halfway and no later one was
                   \*   carried through

indexes == <<vector, fulltext, native>>
bounds  == <<puts, faults, crashes>>
vars    == <<base, vector, fulltext, native, opened, degraded, put, puts, faults, crashes, torn>>

Resting == [unit |-> None, step |-> "idle", next |-> 1, mode |-> "kept"]

\* The embedding the native row takes: the first one there is.
NativeDim(unit) ==
    LET given == {i \in DOMAIN NATIVE_FIELDS : unit.vectors[NATIVE_FIELDS[i]] # None}
        first == CHOOSE i \in given : \A j \in given : i <= j
    IN  IF given = {} THEN None ELSE unit.vectors[NATIVE_FIELDS[first]]

Goto(step) == put' = [put EXCEPT !.step = step, !.next = 1]

\* The call ends by an exception of its own, at some write.
Raise ==
    /\ faults < MaxFaults
    /\ faults' = faults + 1
    /\ put' = Resting
    /\ torn' = (torn \/ put.mode = "update")
    /\ UNCHANGED <<puts, crashes>>

\* Mutant of Degrade: the exception is swallowed.
DegradeSilently(feature) ==
    /\ faults < MaxFaults
    /\ faults' = faults + 1
    /\ UNCHANGED degraded

\* Mutant of Degrade: the feature reported does not say which index.
DegradeUnnamed(feature) ==
    /\ faults < MaxFaults
    /\ faults' = faults + 1
    /\ degraded' = degraded \cup {"fulltext"}

\* An exception that the call survives and reports as a degraded feature.
Degrade(feature) ==
    /\ faults < MaxFaults
    /\ faults' = faults + 1
    /\ degraded' = degraded \cup {feature}

-----------------------------------------------------------------------------
(* The call.                                                                *)

\* The embedding hash covers the text only: a unit with the same text keeps the
\* embeddings that are stored and goes straight to its base record.
Begin(unit) ==
    /\ put = Resting
    /\ puts < MaxPuts
    /\ puts' = puts + 1
    /\ put' = IF base # None /\ base.text = unit.text
              THEN [Resting EXCEPT !.unit = [unit EXCEPT !.vectors = base.vectors],
                                   !.step = "base"]
              ELSE [Resting EXCEPT !.unit = unit, !.step = "vectors",
                                   !.mode = IF base = None THEN "first" ELSE "update"]
    /\ UNCHANGED <<base, indexes, opened, degraded, faults, crashes, torn>>

\* The next field in order; one without an embedding is passed over.  upsert may
\* raise, or refresh_index after it.
VectorWritten ==
    /\ put.step = "vectors" /\ put.next <= Len(VECTOR_FIELDS)
    /\ LET f == VECTOR_FIELDS[put.next]
           d == put.unit.vectors[f]
           stored == IF d = None THEN vector
                     ELSE [vector EXCEPT ![f][d] = put.unit.text]
       IN  \/ /\ vector' = stored
              /\ put' = [put EXCEPT !.next = @ + 1]
              /\ UNCHANGED <<faults, puts, crashes, torn>>
           \/ d # None /\ Raise /\ vector' \in {vector, stored}
    /\ UNCHANGED <<base, fulltext, native, opened, degraded>>

VectorsDone ==
    /\ put.step = "vectors" /\ put.next > Len(VECTOR_FIELDS)
    /\ Goto("fulltext")
    /\ UNCHANGED <<base, indexes, opened, degraded, bounds, torn>>

\* The collections that opened, in order; one that raises is reported degraded
\* and the put goes on.
FulltextWritten ==
    /\ put.step = "fulltext" /\ put.next <= Len(FULLTEXT_ANALYZERS)
    /\ LET a == FULLTEXT_ANALYZERS[put.next]
           stored == [fulltext EXCEPT ![a] = put.unit.text]
       IN  \/ /\ fulltext' = (IF a \in opened THEN stored ELSE fulltext)
              /\ UNCHANGED <<faults, degraded>>
           \/ a \in opened /\ Degrade(a) /\ fulltext' \in {fulltext, stored}
    /\ put' = [put EXCEPT !.next = @ + 1]
    /\ UNCHANGED <<base, vector, native, opened, puts, crashes, torn>>

FulltextDone ==
    /\ put.step = "fulltext" /\ put.next > Len(FULLTEXT_ANALYZERS)
    /\ Goto(IF "native_hybrid_sql" \in opened /\ NativeDim(put.unit) # None THEN "native" ELSE "base")
    /\ UNCHANGED <<base, indexes, opened, degraded, bounds, torn>>

\* NativeHybridQueryEngine.put commits the row and then refreshes the vector
\* index and waits for it: it may raise before or after the commit.
NativeWritten ==
    /\ put.step = "native"
    /\ LET row == [text |-> put.unit.text, status |-> put.unit.status]
           stored == [native EXCEPT ![NativeDim(put.unit)] = row]
       IN  \/ native' = stored /\ UNCHANGED <<faults, degraded>>
           \/ Degrade("native_hybrid_sql") /\ native' \in {native, stored}
    /\ Goto("base")
    /\ UNCHANGED <<base, vector, fulltext, opened, puts, crashes, torn>>

\* The commit; a record equal to the stored one is not written.
BaseWritten ==
    /\ put.step = "base"
    /\ \/ /\ base' = put.unit
          /\ put' = Resting
          /\ torn' = (torn /\ put.mode = "kept")
          /\ UNCHANGED bounds
       \/ base # put.unit /\ Raise /\ UNCHANGED base
    /\ UNCHANGED <<indexes, opened, degraded>>

\* Mutant of Written: the record is committed before its indexes.
WrittenBaseFirst ==
    \/ /\ put.step = "vectors" /\ put.next = 1 /\ base # put.unit
       /\ base' = put.unit
       /\ UNCHANGED <<indexes, opened, degraded, put, bounds, torn>>
    \/ base = put.unit /\ VectorWritten
    \/ VectorsDone \/ FulltextWritten \/ FulltextDone \/ NativeWritten
    \/ BaseWritten

Written ==
    \/ VectorWritten \/ VectorsDone
    \/ FulltextWritten \/ FulltextDone
    \/ NativeWritten
    \/ BaseWritten

\* The process dies and another one opens the store: what the first one reported
\* is gone, and an index that cannot be opened is degraded at once.  (An embedded
\* store is one whose native table never opens.)
Crash ==
    /\ crashes < MaxCrashes
    /\ crashes' = crashes + 1
    /\ put' = Resting
    /\ opened' \in Opens /\ degraded' = Features \ opened'
    /\ torn' = (torn \/ put.mode = "update")
    /\ UNCHANGED <<base, indexes, puts, faults>>

Init ==
    /\ base = None
    /\ vector = [f \in Fields |-> [d \in Dims |-> None]]
    /\ fulltext = [a \in Analyzers |-> None]
    /\ native = [d \in Dims |-> None]
    /\ opened \in Opens /\ degraded = Features \ opened
    /\ put = Resting
    /\ puts = 0 /\ faults = 0 /\ crashes = 0
    /\ torn = FALSE

Next ==
    \/ \E unit \in Unit : Begin(unit)
    \/ Written
    \/ Crash

Spec == Init /\ [][Next]_vars

-----------------------------------------------------------------------------
(* Properties.                                                              *)

Stored(S) == S \cup {None}

\* Every variable has its type (KnowledgeUnitV2 and the collections it is in).
TypeOK ==
    /\ base \in Stored(Unit)
    /\ vector \in [Fields -> [Dims -> Stored(Texts)]]
    /\ fulltext \in [Analyzers -> Stored(Texts)]
    /\ native \in [Dims -> Stored([text: Texts, status: Statuses])]
    /\ opened \in Opens /\ degraded \subseteq Features
    /\ put \in [unit: Stored(Unit), step: {"idle", "vectors", "fulltext", "native", "base"},
                next: 1..5, mode: {"first", "update", "kept"}]
    /\ puts \in 0..MaxPuts /\ faults \in 0..MaxFaults /\ crashes \in 0..MaxCrashes
    /\ torn \in BOOLEAN

Embedded(f) == base.vectors[f] = None \/ vector[f][base.vectors[f]] = base.text

\* Between two calls, a reader that finds the unit by an embedding its record
\* names finds the text that was embedded (seekdb.py:6-7, the base record is
\* committed last).  Rows left in the collection of another dimension, which a
\* search still reads (seekdb.py:799-806), are not named and not covered.
InterruptedIsInvisible ==
    put = Resting /\ base # None => \A f \in Fields : Embedded(f)

\* That holds through interrupted first writes, repeated puts, changes of the
\* status or of the embeddings; and an update that is carried through repairs
\* what an interrupted one left.
CommittedIsEmbedded == ~torn => InterruptedIsInvisible

\* A text index or native row that lacks the committed text is reported degraded
\* by the store that wrote it, for as long as that process lives (capabilities).
IndexedOrDegraded ==
    put = Resting /\ base # None /\ ~torn /\ crashes = 0 =>
        /\ \A a \in Analyzers \ degraded : fulltext[a] = base.text
        /\ "native_hybrid_sql" \notin degraded /\ NativeDim(base) # None =>
              /\ native[NativeDim(base)] # None
              /\ native[NativeDim(base)].text = base.text
=============================================================================
