---------------------------- MODULE Stores_proofs ----------------------------
(***************************************************************************)
(* The two stores of the KnowStore contract agree, for any bundles, any    *)
(* transactions of other clients, any searches and any number of kills:    *)
(* proofs about StoreTables, StoreSearch and LegacyImport.                 *)
(***************************************************************************)
EXTENDS LegacyImport, FiniteSums, SequenceTheorems

-----------------------------------------------------------------------------
(* One call: what it leaves of the tables.                                  *)

IsMemory(m) == DOMAIN m = TableNames \cup {"embedded", "embedding_writes"}
IsSeek(s) == DOMAIN s = TableNames \cup {"vectors", "fulltext", "native"}

\* Rows of these are never written over.
FixedTables == {"snapshots", "documents", "evidence", "versions"}

\* What a call refers to.
Needs(s, t, row) ==
    /\ t \in {"documents", "evidence", "cards", "components", "pages"} => Stored(s, "snapshots", row.snapshot)
    /\ t = "evidence" => Stored(s, "documents", row.document)
    /\ t \in {"units", "claims"} => SeekCited(s, row)
    /\ t = "claims" => row.unit = << >> \/ Stored(s, "units", row.unit)
    /\ t = "disagreements" => \A id \in row.claims : Stored(s, "claims", id)
    /\ t = "relations" => Stored(s, "evidence", row.evidence)

To(call, t) == call.table = t

Same(s, z) == \A u \in TableNames : z[u] = s[u]

\* The tables z are those of s with one row put.
OneRow(s, z, t, id, new) == \A u \in TableNames : z[u] = IF u = t THEN Taking(s[t], id, new) ELSE s[u]

HasRow(z, t, row) == row.id \in DOMAIN z[t] /\ z[t][row.id] = row

\* The row of a unit that is put: with the embeddings it had, when they stand.
NewRow(s, t, row, new) ==
    \/ new = row
    \/ /\ t = "units" /\ row.id \in DOMAIN s["units"]
       /\ new = [row EXCEPT !.vectors = s["units"][row.id].vectors]

\* Feedback is put, and its place in the queue.
FeedbackPut(s, z, row) ==
    /\ \A u \in TableNames \ {"feedback", "governance"} : z[u] = s[u]
    /\ \/ z["feedback"] = s["feedback"] /\ row.id \in DOMAIN s["feedback"]
       \/ z["feedback"] = Taking(s["feedback"], row.id, row)
    /\ \/ z["governance"] = s["governance"] /\ row.id \in DOMAIN s["governance"]
       \/ z["governance"] = Taking(s["governance"], row.id, GovernanceFor(row))

\* The tables of s are left alone, or a row is put, or feedback is, with its
\* place in the queue.
Effect(s, z, call) ==
    LET t == call.table row == call.row IN
    \/ Same(s, z)
    \/ /\ t \notin {"feedback", "governance"} /\ Needs(s, t, row)
       /\ t \in FixedTables => row.id \notin DOMAIN s[t]
       /\ \E new : NewRow(s, t, row, new) /\ OneRow(s, z, t, row.id, new)
    \/ /\ t = "governance" /\ row.id \in DOMAIN s["governance"]
       /\ OneRow(s, z, t, row.id, Reviewed(s["governance"][row.id], row.decision))
    \/ t = "feedback" /\ FeedbackPut(s, z, row)

\* What a call that is not refused leaves for good.
Done(z, call) ==
    LET t == call.table row == call.row IN
    /\ t \in FixedTables \cup {"units"} => row.id \in DOMAIN z[t]
    /\ t \in FixedTables => z[t][row.id] = row

LEMMA TakingIs ==
    ASSUME NEW f, NEW id, NEW x
    PROVE  /\ DOMAIN Taking(f, id, x) = DOMAIN f \cup {id} /\ Taking(f, id, x)[id] = x
           /\ \A i \in DOMAIN f : i # id => Taking(f, id, x)[i] = f[i]
           /\ Taking(f, id, x) = [i \in DOMAIN Taking(f, id, x) |-> Taking(f, id, x)[i]]
           /\ f = [i \in DOMAIN f |-> f[i]] /\ id \in DOMAIN f /\ f[id] = x => Taking(f, id, x) = f
  BY DEF Taking

LEMMA TakingStays ==
    ASSUME NEW f, NEW id, NEW x, f = [i \in DOMAIN f |-> f[i]], id \in DOMAIN f, f[id] = x
    PROVE  Taking(f, id, x) = f
<1>1. DOMAIN f \cup {id} = DOMAIN f
  OBVIOUS
<1>2. \A i \in DOMAIN f : (IF i = id THEN x ELSE f[i]) = f[i]
  OBVIOUS
<1>3. [i \in DOMAIN f |-> IF i = id THEN x ELSE f[i]] = [i \in DOMAIN f |-> f[i]]
  BY <1>2
<1> QED BY <1>1, <1>3 DEF Taking

LEMMA KeptIs ==
    ASSUME NEW s, NEW t, t \in TableNames, TableNames \subseteq DOMAIN s, NEW row, NEW k, k = Kept(s, t, row)
    PROVE  DOMAIN k = DOMAIN s /\ HasRow(k, t, row) /\ OneRow(s, k, t, row.id, row)
<1>1. DOMAIN k = DOMAIN s /\ \A u \in DOMAIN s : k[u] = IF u = t THEN Taking(s[t], row.id, row) ELSE s[u]
  BY DEF Kept
<1>2. k[t] = Taking(s[t], row.id, row)
  BY <1>1
<1>3. row.id \in DOMAIN k[t] /\ k[t][row.id] = row
  BY <1>2 DEF Taking
<1> QED BY <1>1, <1>3 DEF HasRow, OneRow

LEMMA SeekPutIs ==
    ASSUME NEW s, NEW t, t \in TableNames, IsSeek(s), NEW row, NEW r, r = SeekPut(s, t, row)
    PROVE  /\ IsSeek(r.tables) /\ HasRow(r.tables, t, row)
           /\ \/ r.answer = "same" /\ r.tables = s
              \/ r.answer = "written" /\ OneRow(s, r.tables, t, row.id, row) /\ ~HasRow(s, t, row)
<1>0. TableNames \subseteq DOMAIN s
  BY DEF IsSeek
<1>1. CASE HasRow(s, t, row)
  BY <1>1 DEF SeekPut, Result, Stored, HasRow
<1>2. CASE ~HasRow(s, t, row)
  <2>1. r = [tables |-> Kept(s, t, row), answer |-> "written"]
    BY <1>2 DEF SeekPut, Result, HasRow, Stored
  <2>2. PICK k : k = Kept(s, t, row)
    OBVIOUS
  <2>3. DOMAIN k = DOMAIN s /\ HasRow(k, t, row) /\ OneRow(s, k, t, row.id, row)
    BY <1>0, <2>2, KeptIs
  <2>4. IsSeek(k)
    BY <2>3 DEF IsSeek
  <2> QED BY <1>2, <2>1, <2>2, <2>3, <2>4
<1> QED BY <1>1, <1>2

LEMMA SeekFixedIs ==
    ASSUME NEW s, NEW t, t \in TableNames, IsSeek(s), NEW row, NEW error, NEW r, r = SeekFixed(s, t, row, error)
    PROVE  /\ IsSeek(r.tables)
           /\ \/ r.answer = error /\ r.tables = s /\ row.id \in DOMAIN s[t] /\ s[t][row.id] # row
              \/ r.answer = "same" /\ r.tables = s /\ HasRow(s, t, row)
              \/ /\ r.answer = "written" /\ OneRow(s, r.tables, t, row.id, row) /\ HasRow(r.tables, t, row)
                 /\ row.id \notin DOMAIN s[t]
<1>1. CASE Stored(s, t, row.id) /\ s[t][row.id] # row
  BY <1>1 DEF SeekFixed, Result, Stored
<1>2. CASE ~(Stored(s, t, row.id) /\ s[t][row.id] # row)
  <2>1. r = SeekPut(s, t, row)
    BY <1>2 DEF SeekFixed
  <2>2. /\ IsSeek(r.tables) /\ HasRow(r.tables, t, row)
        /\ \/ r.answer = "same" /\ r.tables = s
           \/ r.answer = "written" /\ OneRow(s, r.tables, t, row.id, row) /\ ~HasRow(s, t, row)
    BY <2>1, SeekPutIs
  <2> QED BY <1>2, <2>2 DEF Stored, HasRow
<1> QED BY <1>1, <1>2

\* What is shown of a call: the tables it may leave, nothing when it is refused,
\* and what it leaves for good when it is not.
Shows(s, r, call) ==
    /\ Effect(s, r.tables, call)
    /\ Raises(r.answer) => Same(s, r.tables)
    /\ ~Raises(r.answer) => Done(r.tables, call)

LEMMA SameIs == ASSUME NEW s PROVE Same(s, s)
  BY DEF Same

\* A call that puts what is fixed from then on.
LEMMA FixedShows ==
    ASSUME NEW s, IsSeek(s), NEW call, call.table \in TableNames, NEW error, Raises(error),
           call.table \in FixedTables, Needs(s, call.table, call.row),
           NEW r, r = SeekFixed(s, call.table, call.row, error)
    PROVE  IsSeek(r.tables) /\ Shows(s, r, call)
<1>1. PICK t, row : t = call.table /\ row = call.row
  OBVIOUS
<1>2. /\ IsSeek(r.tables)
      /\ \/ r.answer = error /\ r.tables = s /\ row.id \in DOMAIN s[t] /\ s[t][row.id] # row
         \/ r.answer = "same" /\ r.tables = s /\ HasRow(s, t, row)
         \/ /\ r.answer = "written" /\ OneRow(s, r.tables, t, row.id, row) /\ HasRow(r.tables, t, row)
            /\ row.id \notin DOMAIN s[t]
  BY <1>1, SeekFixedIs
<1>3. t \notin {"feedback", "governance", "units"} /\ t \in FixedTables
  BY <1>1 DEF FixedTables
<1>4. ~Raises("same") /\ ~Raises("written")
  BY DEF Raises
<1>5. CASE r.answer = error /\ r.tables = s
  BY <1>2, <1>5, SameIs DEF Shows, Effect
<1>6. CASE r.answer = "same" /\ r.tables = s /\ HasRow(s, t, row)
  BY <1>1, <1>2, <1>3, <1>4, <1>6, SameIs DEF Shows, Effect, Done, HasRow
<1>7. CASE /\ r.answer = "written" /\ OneRow(s, r.tables, t, row.id, row) /\ HasRow(r.tables, t, row)
           /\ row.id \notin DOMAIN s[t]
  <2>1. Effect(s, r.tables, call)
    <3>1. NewRow(s, t, row, row)
      BY DEF NewRow
    <3> QED BY <1>1, <1>3, <1>7, <3>1 DEF Effect
  <2>2. Done(r.tables, call)
    BY <1>1, <1>3, <1>7 DEF Done, HasRow
  <2> QED BY <1>2, <1>4, <1>7, <2>1, <2>2 DEF Shows
<1> QED BY <1>2, <1>5, <1>6, <1>7

\* A call that may write over what there is.
LEMMA PutShows ==
    ASSUME NEW s, IsSeek(s), NEW call, call.table \in TableNames,
           call.table \notin FixedTables \cup {"units", "feedback", "governance"},
           Needs(s, call.table, call.row),
           NEW r, r = SeekPut(s, call.table, call.row)
    PROVE  IsSeek(r.tables) /\ Shows(s, r, call)
<1>1. PICK t, row : t = call.table /\ row = call.row
  OBVIOUS
<1>a. r = SeekPut(s, t, row) /\ t \in TableNames
  BY <1>1
<1>2. /\ IsSeek(r.tables) /\ HasRow(r.tables, t, row)
      /\ \/ r.answer = "same" /\ r.tables = s
         \/ r.answer = "written" /\ OneRow(s, r.tables, t, row.id, row) /\ ~HasRow(s, t, row)
  BY <1>a, SeekPutIs
<1>3. ~Raises("same") /\ ~Raises("written") /\ NewRow(s, t, row, row)
  BY DEF Raises, NewRow
<1>4. Done(r.tables, call)
  BY DEF Done
<1>5. Effect(s, r.tables, call)
  BY <1>1, <1>2, <1>3, SameIs DEF Effect
<1> QED BY <1>2, <1>3, <1>4, <1>5 DEF Shows

LEMMA RefusedShows ==
    ASSUME NEW s, IsSeek(s), NEW call, NEW error, Raises(error), NEW r, r = Result(s, error)
    PROVE  IsSeek(r.tables) /\ Shows(s, r, call)
  BY SameIs DEF Shows, Effect, Result

\* Places in the queue of the governance are known by the feedback they are for.
IsPlace(g) == g = [id |-> g.id, queue |-> g.queue, status |-> g.status, at |-> g.at]
Queued(s) == \A id \in DOMAIN s["governance"] : IsPlace(s["governance"][id]) /\ s["governance"][id].id = id

LEMMA TablesAre ==
    /\ {"sources", "snapshots", "documents", "evidence", "cards", "components", "pages", "units", "claims",
        "disagreements", "relations", "packs", "feedback", "governance", "versions"} = TableNames
    /\ FixedTables \subseteq TableNames
    /\ \A t \in TableNames : t \notin {"embedded", "embedding_writes", "vectors", "fulltext", "native"}
  BY DEF TableNames, FixedTables

LEMMA UnitShows ==
    ASSUME NEW s, IsSeek(s), NEW call, To(call, "units"), IsUnit(call.row),
           NEW r, r = SeekUnit(s, call.row)
    PROVE  IsSeek(r.tables) /\ Shows(s, r, call)
<1>1. PICK row : row = call.row
  OBVIOUS
<1>2. "units" \in TableNames /\ "units" \notin FixedTables /\ ~Raises("same") /\ ~Raises("written") /\
        Raises("unknown")
  BY DEF TableNames, FixedTables, Raises
<1>3. CASE ~SeekCited(s, row)
  BY <1>1, <1>2, <1>3, RefusedShows DEF SeekUnit
<1>4. ASSUME NEW z, IsSeek(z), Same(s, z), SeekCited(s, row),
           NEW new, NewRow(s, "units", row, new), new.id = row.id,
             r = SeekPut(z, "units", new), z = s \/ ~HasRow(z, "units", new)
      PROVE  IsSeek(r.tables) /\ Shows(s, r, call)
  <2>0. PICK t : t = "units"
    OBVIOUS
  <2>a. r = SeekPut(z, t, new) /\ t \in TableNames /\ IsSeek(z)
    BY <1>2, <1>4, <2>0
  <2>b. /\ IsSeek(r.tables) /\ HasRow(r.tables, t, new)
        /\ \/ r.answer = "same" /\ r.tables = z
           \/ r.answer = "written" /\ OneRow(z, r.tables, t, new.id, new) /\ ~HasRow(z, t, new)
    BY <2>a, SeekPutIs
  <2>1. /\ IsSeek(r.tables) /\ HasRow(r.tables, "units", new)
        /\ \/ r.answer = "same" /\ r.tables = z
           \/ r.answer = "written" /\ OneRow(z, r.tables, "units", new.id, new) /\ ~HasRow(z, "units", new)
    BY <2>0, <2>b
  <2>2. Done(r.tables, call)
    BY <1>1, <1>2, <1>4, <2>1 DEF To, Done, HasRow
  <2>3. CASE r.answer = "same" /\ r.tables = z
    <3>1. Effect(s, r.tables, call)
      BY <1>4, <2>3 DEF To, Effect
    <3> QED BY <1>2, <2>1, <2>2, <2>3, <3>1 DEF Shows
  <2>4. CASE r.answer = "written" /\ OneRow(z, r.tables, "units", new.id, new)
    <3>1. OneRow(s, r.tables, "units", row.id, new)
      BY <1>2, <1>4, <2>4 DEF OneRow, Same
    <3>2. Needs(s, "units", row)
      BY <1>4 DEF Needs
    <3>3. Effect(s, r.tables, call)
      BY <1>1, <1>2, <1>4, <3>1, <3>2 DEF To, Effect
    <3> QED BY <1>2, <2>1, <2>2, <2>4, <3>3 DEF Shows
  <2> QED BY <2>1, <2>3, <2>4
<1>5. CASE SeekCited(s, row) /\ Stored(s, "units", row.id) /\ s.units[row.id].text = row.text
  <2>1. PICK new : new = [row EXCEPT !.vectors = s.units[row.id].vectors]
    OBVIOUS
  <2>2. r = SeekPut(s, "units", new)
    BY <1>1, <1>5, <2>1 DEF SeekUnit
  <2>3. new.id = row.id
    BY <1>1, <2>1 DEF IsUnit
  <2>4. NewRow(s, "units", row, new)
    BY <1>5, <2>1 DEF NewRow, Stored
  <2> QED BY <1>4, <1>5, <2>2, <2>3, <2>4, SameIs
<1>6. CASE SeekCited(s, row) /\ ~(Stored(s, "units", row.id) /\ s.units[row.id].text = row.text)
  <2>1. PICK z : z = Indexed(s, row)
    OBVIOUS
  <2>2. IsSeek(z) /\ \A u \in DOMAIN s \ {"vectors", "fulltext", "native"} : z[u] = s[u]
    BY <2>1 DEF Indexed, IsSeek
  <2>3. Same(s, z)
    BY <2>2, TablesAre DEF Same, IsSeek
  <2>4. r = SeekPut(z, "units", row)
    BY <1>1, <1>6, <2>1 DEF SeekUnit
  <2>5. ~HasRow(z, "units", row)
    <3>1. z["units"] = s["units"]
      BY <1>2, <2>3 DEF Same
    <3> QED BY <1>6, <3>1 DEF HasRow, Stored
  <2>6. NewRow(s, "units", row, row)
    BY DEF NewRow
  <2> QED BY <1>4, <1>6, <2>2, <2>3, <2>4, <2>5, <2>6
<1> QED BY <1>3, <1>5, <1>6

\* What a put does to the table t.
PutInto(s, z, t, row) ==
    /\ \A u \in TableNames : u # t => z[u] = s[u]
    /\ \/ z[t] = s[t] /\ row.id \in DOMAIN s[t]
       \/ z[t] = Taking(s[t], row.id, row)

LEMMA PutAt ==
    ASSUME NEW s, IsSeek(s), NEW t, t \in TableNames, NEW row, NEW r, r = SeekPut(s, t, row)
    PROVE  IsSeek(r.tables) /\ PutInto(s, r.tables, t, row)
<1>1. /\ IsSeek(r.tables) /\ HasRow(r.tables, t, row)
      /\ \/ r.answer = "same" /\ r.tables = s
         \/ r.answer = "written" /\ OneRow(s, r.tables, t, row.id, row) /\ ~HasRow(s, t, row)
  BY SeekPutIs
<1> QED BY <1>1 DEF HasRow, OneRow, PutInto

LEMMA FeedbackShows ==
    ASSUME NEW s, IsSeek(s), NEW call, To(call, "feedback"), NEW r, r = SeekFeedback(s, call.row)
    PROVE  IsSeek(r.tables) /\ Shows(s, r, call)
<1>1. PICK row : row = call.row
  OBVIOUS
<1>2. PICK f, g : f = "feedback" /\ g = "governance"
  OBVIOUS
<1>3. f \in TableNames /\ g \in TableNames /\ f # g /\ f \notin FixedTables \cup {"units"}
  BY <1>2 DEF TableNames, FixedTables
<1>4. PICK put : put = SeekFixed(s, f, row, "conflict")
  OBVIOUS
<1>5. /\ IsSeek(put.tables)
      /\ \/ put.answer = "conflict" /\ put.tables = s /\ row.id \in DOMAIN s[f] /\ s[f][row.id] # row
         \/ put.answer = "same" /\ put.tables = s /\ HasRow(s, f, row)
         \/ /\ put.answer = "written" /\ OneRow(s, put.tables, f, row.id, row) /\ HasRow(put.tables, f, row)
            /\ row.id \notin DOMAIN s[f]
  BY <1>3, <1>4, SeekFixedIs
<1>6. ~Raises("same") /\ ~Raises("written") /\ Raises("conflict") /\ "same" # "conflict" /\
        "written" # "conflict"
  BY DEF Raises
<1>7. Done(r.tables, call)
  BY <1>2, <1>3 DEF To, Done
<1>8. CASE put.answer = "conflict"
  <2>1. r = put
    BY <1>1, <1>2, <1>4, <1>8 DEF SeekFeedback, FeedbackStored
  <2>2. r.tables = s /\ r.answer = "conflict"
    BY <1>5, <1>6, <1>8, <2>1
  <2> QED BY <1>6, <2>2, SameIs DEF To, Shows, Effect
<1>9. CASE put.answer # "conflict"
  <2>1. PICK place : place = GovernanceFor(row)
    OBVIOUS
  <2>0. PICK z : z = put.tables
    OBVIOUS
  <2>2. PICK next : next = SeekPut(z, g, place)
    OBVIOUS
  <2>3. r = [tables |-> next.tables, answer |-> put.answer]
    BY <1>1, <1>2, <1>4, <1>9, <2>0, <2>1, <2>2 DEF SeekFeedback, FeedbackStored, Result
  <2>a. g \in TableNames /\ IsSeek(z)
    BY <1>3, <1>5, <2>0
  <2>b. IsSeek(next.tables) /\ PutInto(z, next.tables, g, place)
    BY <2>2, <2>a, PutAt
  <2>4. /\ IsSeek(next.tables)
        /\ \A u \in TableNames : u # g => next.tables[u] = z[u]
        /\ \/ next.tables[g] = z[g] /\ place.id \in DOMAIN z[g]
           \/ next.tables[g] = Taking(z[g], place.id, place)
    BY <2>b DEF PutInto
  <2>5. place.id = row.id
    BY <2>1 DEF GovernanceFor
  <2>6. /\ \/ z[f] = s[f] /\ row.id \in DOMAIN s[f]
           \/ z[f] = Taking(s[f], row.id, row)
        /\ \A u \in TableNames : u # f => z[u] = s[u]
    BY <1>3, <1>5, <1>9, <2>0 DEF OneRow, HasRow
  <2>7. FeedbackPut(s, next.tables, row)
    <3>1. \A u \in TableNames \ {f, g} : next.tables[u] = s[u]
      BY <2>4, <2>6
    <3>2. \/ next.tables[f] = s[f] /\ row.id \in DOMAIN s[f]
          \/ next.tables[f] = Taking(s[f], row.id, row)
      BY <1>3, <2>4, <2>6
    <3>3. \/ next.tables[g] = s[g] /\ row.id \in DOMAIN s[g]
          \/ next.tables[g] = Taking(s[g], row.id, place)
      BY <1>3, <2>4, <2>5, <2>6
    <3> QED BY <1>2, <2>1, <3>1, <3>2, <3>3 DEF FeedbackPut
  <2>8. Effect(s, r.tables, call)
    BY <1>1, <2>3, <2>7 DEF To, Effect
  <2>9. ~Raises(r.answer)
    BY <1>5, <1>6, <1>9, <2>3
  <2> QED BY <1>7, <2>3, <2>4, <2>8, <2>9 DEF Shows
<1> QED BY <1>8, <1>9

LEMMA ReviewShows ==
    ASSUME NEW s, IsSeek(s), Queued(s), NEW call, To(call, "governance"), NEW r, r = SeekReview(s, call.row)
    PROVE  IsSeek(r.tables) /\ Shows(s, r, call)
<1>1. PICK row, g : row = call.row /\ g = "governance"
  OBVIOUS
<1>2. g \in TableNames /\ g \notin FixedTables \cup {"units"} /\ ~Raises("none") /\ ~Raises("reviewed")
  BY <1>1 DEF TableNames, FixedTables, Raises
<1>3. Done(r.tables, call)
  BY <1>1, <1>2 DEF To, Done
<1>4. CASE row.id \notin DOMAIN s[g]
  <2>1. r = [tables |-> s, answer |-> "none"]
    BY <1>1, <1>4 DEF SeekReview, Result, Stored
  <2> QED BY <1>2, <1>3, <2>1, SameIs DEF To, Shows, Effect
<1>5. CASE row.id \in DOMAIN s[g]
  <2>1. PICK new : new = Reviewed(s[g][row.id], row.decision)
    OBVIOUS
  <2>2. new.id = row.id
    <3>1. PICK old : old = s[g][row.id]
      OBVIOUS
    <3>2. IsPlace(old) /\ old.id = row.id
      BY <1>1, <1>5, <3>1 DEF Queued
    <3> QED BY <2>1, <3>1, <3>2 DEF Reviewed, IsPlace
  <2>3. PICK put : put = SeekPut(s, g, new)
    OBVIOUS
  <2>4. r = [tables |-> put.tables, answer |-> "reviewed"]
    BY <1>1, <1>5, <2>1, <2>3 DEF SeekReview, Result, Stored
  <2>a. g \in TableNames
    BY <1>2
  <2>b. IsSeek(put.tables)
    BY <2>3, <2>a, SeekPutIs
  <2>5. \/ put.answer = "same" /\ put.tables = s
        \/ put.answer = "written" /\ OneRow(s, put.tables, g, new.id, new) /\ ~HasRow(s, g, new)
    BY <2>3, <2>a, SeekPutIs
  <2>6. Effect(s, put.tables, call)
    BY <1>1, <1>5, <2>1, <2>2, <2>5, SameIs DEF To, Effect
  <2> QED BY <1>2, <1>3, <2>4, <2>b, <2>5, <2>6 DEF Shows
<1> QED BY <1>4, <1>5

IsCall(call) == call.table \in TableNames /\ (call.table = "units" => IsUnit(call.row))

LEMMA SnapshotShows ==
    ASSUME NEW s, IsSeek(s), NEW call, To(call, "snapshots"), NEW r, r = SeekSnapshot(s, call.row)
    PROVE  IsSeek(r.tables) /\ Shows(s, r, call)
<1>1. PICK row, t : row = call.row /\ t = "snapshots"
  OBVIOUS
<1>2. t \in TableNames /\ t \in FixedTables /\ Raises("immutable") /\ call.table = t
  BY <1>1 DEF TableNames, FixedTables, Raises, To
<1>3. Needs(s, t, row)
  BY <1>1 DEF Needs
<1>4. CASE r = Result(s, "immutable")
  BY <1>2, <1>4, RefusedShows
<1>5. CASE r = SeekFixed(s, t, row, "immutable")
  BY <1>1, <1>2, <1>3, <1>5, FixedShows
<1>6. CASE r = SeekPut(s, t, row) /\ ~Stored(s, t, row.id)
  <2>1. r = SeekFixed(s, t, row, "immutable")
    BY <1>6 DEF SeekFixed
  <2> QED BY <1>5, <2>1
<1>7. r = Result(s, "immutable") \/ r = SeekFixed(s, t, row, "immutable") \/
        (r = SeekPut(s, t, row) /\ ~Stored(s, t, row.id))
  BY <1>1 DEF SeekSnapshot
<1> QED BY <1>4, <1>5, <1>6, <1>7

\* What a call answers: nothing is put, or a row is put by one of the two puts.
Puts(s, r, call, error) ==
    \/ r = Result(s, error)
    \/ /\ Needs(s, call.table, call.row) /\ call.table \in FixedTables
       /\ r = SeekFixed(s, call.table, call.row, error)
    \/ /\ Needs(s, call.table, call.row) /\
            call.table \notin FixedTables \cup {"units", "feedback", "governance"}
       /\ r = SeekPut(s, call.table, call.row)

LEMMA PutsShow ==
    ASSUME NEW s, IsSeek(s), NEW call, call.table \in TableNames, NEW error, Raises(error), NEW r,
           Puts(s, r, call, error)
    PROVE  IsSeek(r.tables) /\ Shows(s, r, call)
<1>1. CASE r = Result(s, error)
  BY <1>1, RefusedShows
<1>2. CASE /\ Needs(s, call.table, call.row) /\ call.table \in FixedTables
           /\ r = SeekFixed(s, call.table, call.row, error)
  BY <1>2, FixedShows
<1>3. CASE /\ Needs(s, call.table, call.row) /\
                call.table \notin FixedTables \cup {"units", "feedback", "governance"}
           /\ r = SeekPut(s, call.table, call.row)
  BY <1>3, PutShows
<1> QED BY <1>1, <1>2, <1>3 DEF Puts

LEMMA SeekShows ==
    ASSUME NEW s, IsSeek(s), Queued(s), NEW call, IsCall(call), NEW r, r = SeekCall(s, call)
    PROVE  IsSeek(r.tables) /\ Shows(s, r, call)
<1>1. PICK t, row : t = call.table /\ row = call.row
  OBVIOUS
<1>2. t \in TableNames
  BY <1>1 DEF IsCall
<1>3. Raises("unknown") /\ Raises("immutable") /\ Raises("conflict")
  BY DEF Raises
<1>4. CASE t = "snapshots"
  <2>1. r = SeekSnapshot(s, row)
    BY <1>1, <1>4, Zenon DEF SeekCall
  <2> QED BY <1>1, <1>4, <2>1, SnapshotShows DEF To
<1>5. CASE t = "documents"
  <2>1. r = SeekDocument(s, row)
    BY <1>1, <1>5, Zenon DEF SeekCall
  <2>2. Puts(s, r, call, "unknown") \/ Puts(s, r, call, "immutable")
    BY <1>1, <1>5, <2>1 DEF SeekDocument, Puts, Needs, FixedTables
  <2> QED BY <1>1, <1>2, <1>3, <2>2, PutsShow
<1>6. CASE t = "evidence"
  <2>1. r = SeekEvidence(s, row)
    BY <1>1, <1>6, Zenon DEF SeekCall
  <2>2. Puts(s, r, call, "unknown") \/ Puts(s, r, call, "immutable")
    BY <1>1, <1>6, <2>1 DEF SeekEvidence, Puts, Needs, FixedTables
  <2> QED BY <1>1, <1>2, <1>3, <2>2, PutsShow
<1>7. CASE t \in {"cards", "components", "pages"}
  <2>1. r = SeekOfSnapshot(s, t, row)
    BY <1>1, <1>7, Zenon DEF SeekCall
  <2>2. Puts(s, r, call, "unknown")
    BY <1>1, <1>7, <2>1 DEF SeekOfSnapshot, Puts, Needs, FixedTables
  <2> QED BY <1>1, <1>2, <1>3, <2>2, PutsShow
<1>8. CASE t = "units"
  <2>1. r = SeekUnit(s, row)
    BY <1>1, <1>8, Zenon DEF SeekCall
  <2> QED BY <1>1, <1>8, <2>1, UnitShows DEF To, IsCall
<1>9. CASE t = "claims"
  <2>1. r = SeekClaim(s, row)
    BY <1>1, <1>9, Zenon DEF SeekCall
  <2>2. Puts(s, r, call, "unknown")
    BY <1>1, <1>9, <2>1 DEF SeekClaim, Puts, Needs, FixedTables
  <2> QED BY <1>1, <1>2, <1>3, <2>2, PutsShow
<1>10. CASE t = "disagreements"
  <2>1. r = SeekDisagreement(s, row)
    BY <1>1, <1>10, Zenon DEF SeekCall
  <2>2. Puts(s, r, call, "unknown")
    BY <1>1, <1>10, <2>1 DEF SeekDisagreement, Puts, Needs, FixedTables
  <2> QED BY <1>1, <1>2, <1>3, <2>2, PutsShow
<1>11. CASE t = "relations"
  <2>1. r = SeekRelation(s, row)
    BY <1>1, <1>11, Zenon DEF SeekCall
  <2>2. Puts(s, r, call, "unknown")
    BY <1>1, <1>11, <2>1 DEF SeekRelation, Puts, Needs, FixedTables
  <2> QED BY <1>1, <1>2, <1>3, <2>2, PutsShow
<1>12. CASE t = "feedback"
  <2>1. r = SeekFeedback(s, row)
    BY <1>1, <1>12, Zenon DEF SeekCall
  <2> QED BY <1>1, <1>12, <2>1, FeedbackShows DEF To
<1>13. CASE t = "governance"
  <2>1. r = SeekReview(s, row)
    BY <1>1, <1>13, Zenon DEF SeekCall
  <2> QED BY <1>1, <1>13, <2>1, ReviewShows DEF To
<1>14. CASE t = "versions"
  <2>1. r = SeekVersion(s, row)
    BY <1>1, <1>14, Zenon DEF SeekCall
  <2>2. Puts(s, r, call, "conflict")
    BY <1>1, <1>14, <2>1 DEF SeekVersion, Puts, Needs, FixedTables
  <2> QED BY <1>1, <1>2, <1>3, <2>2, PutsShow
<1>15. CASE t \in {"sources", "packs"}
  <2>1. r = SeekPut(s, t, row)
    BY <1>1, <1>15, Zenon DEF SeekCall
  <2>2. Puts(s, r, call, "unknown")
    BY <1>1, <1>15, <2>1 DEF Puts, Needs, FixedTables
  <2> QED BY <1>1, <1>2, <1>3, <2>2, PutsShow
<1> QED BY <1>2, <1>4, <1>5, <1>6, <1>7, <1>8, <1>9, <1>10, <1>11, <1>12, <1>13, <1>14, <1>15 DEF TableNames

-----------------------------------------------------------------------------
(* One call on both stores.                                                 *)

\* The text that each unit was embedded with is its own.
Embeds(m) ==
    /\ DOMAIN m["embedded"] = DOMAIN m["units"]
    /\ \A id \in DOMAIN m["units"] : m["embedded"][id] = m["units"][id].text

\* Each table is a table.
AreTables(s) == \A u \in TableNames : s[u] = [i \in DOMAIN s[u] |-> s[u][i]]
Keyed(s) == \A id \in DOMAIN s["snapshots"] : s["snapshots"][id].id = id

\* The same call on both: they are left alike and answer alike.
Twins(call, a, b) ==
    /\ IsMemory(a.tables) /\ Same(b.tables, a.tables) /\ Embeds(a.tables)
    /\ Raises(a.answer) <=> Raises(b.answer)
    /\ Alike(call, a.answer, b.answer)

LEMMA RefusedTwins ==
    ASSUME NEW m, NEW s, IsMemory(m), Same(s, m), Embeds(m), NEW call, NEW error,
           NEW a, a = Result(m, error), NEW b, b = Result(s, error)
    PROVE  Twins(call, a, b)
  BY DEF Twins, Result, Alike

LEMMA UpsertTwins ==
    ASSUME NEW m, NEW s, IsMemory(m), IsSeek(s), Same(s, m), Embeds(m), NEW call,
           NEW t, t \in TableNames, t # "units",
           NEW row, NEW a, a = MemUpsert(m, t, row), NEW b, b = SeekPut(s, t, row)
    PROVE  Twins(call, a, b)
<1>1. TableNames \subseteq DOMAIN m /\ TableNames \subseteq DOMAIN s
  BY DEF IsMemory, IsSeek
<1>2. m[t] = s[t]
  BY DEF Same
<1>3. CASE HasRow(m, t, row)
  <2>1. a = [tables |-> m, answer |-> "same"] /\ b = [tables |-> s, answer |-> "same"]
    BY <1>2, <1>3 DEF HasRow, Stored, MemUpsert, SeekPut, Result
  <2> QED BY <2>1 DEF Twins, Alike
<1>4. CASE ~HasRow(m, t, row)
  <2>1. PICK k, l : k = Kept(m, t, row) /\ l = Kept(s, t, row)
    OBVIOUS
  <2>2. a = [tables |-> k, answer |-> "written"] /\ b = [tables |-> l, answer |-> "written"]
    BY <1>2, <1>4, <2>1 DEF HasRow, Stored, MemUpsert, SeekPut, Result
  <2>3. DOMAIN k = DOMAIN m /\ \A u \in DOMAIN m : k[u] = IF u = t THEN Taking(m[t], row.id, row) ELSE m[u]
    BY <2>1 DEF Kept
  <2>4. DOMAIN l = DOMAIN s /\ \A u \in DOMAIN s : l[u] = IF u = t THEN Taking(s[t], row.id, row) ELSE s[u]
    BY <2>1 DEF Kept
  <2>5. Same(l, k)
    BY <1>1, <1>2, <2>3, <2>4 DEF Same
  <2>6. IsMemory(k)
    BY <2>3 DEF IsMemory
  <2>7. Embeds(k)
    <3>1. "embedded" \in DOMAIN m /\ "units" \in DOMAIN m /\ t # "embedded"
      BY <1>1, TablesAre DEF IsMemory
    <3>2. k["embedded"] = m["embedded"] /\ k["units"] = m["units"]
      BY <2>3, <3>1
    <3> QED BY <3>2 DEF Embeds
  <2> QED BY <2>2, <2>5, <2>6, <2>7 DEF Twins, Alike
<1> QED BY <1>3, <1>4

LEMMA UnitTwins ==
    ASSUME NEW m, NEW s, IsMemory(m), IsSeek(s), Same(s, m), Embeds(m), AreTables(m),
           NEW call, To(call, "units"),
           IsUnit(call.row), NEW a, a = MemUnit(m, call.row), NEW b, b = SeekUnit(s, call.row)
    PROVE  Twins(call, a, b)
<1>1. PICK row, u : row = call.row /\ u = "units"
  OBVIOUS
<1>2. u \in TableNames /\ u \in DOMAIN m /\ u \in DOMAIN s /\ u # "embedded"
  BY <1>1 DEF TableNames, IsMemory, IsSeek
<1>3. m[u] = s[u] /\ \A t \in TableNames : m[t] = s[t]
  BY <1>2 DEF Same
<1>4. MemCited(m, row) <=> SeekCited(s, row)
  <2>1. m["snapshots"] = s["snapshots"] /\ m["evidence"] = s["evidence"]
    BY <1>3 DEF TableNames
  <2> QED BY <2>1 DEF MemCited, SeekCited, Stored
<1>5. CASE ~MemCited(m, row)
  <2>1. a = Result(m, "unknown") /\ b = Result(s, "unknown")
    BY <1>1, <1>4, <1>5 DEF MemUnit, SeekUnit
  <2> QED BY <2>1, RefusedTwins
<1>6. CASE MemCited(m, row) /\ HasRow(m, u, row)
  <2>1. a = Result(m, "same")
    BY <1>1, <1>6 DEF MemUnit, HasRow, Stored
  <2>2. [row EXCEPT !.vectors = s[u][row.id].vectors] = row
    <3>1. s[u][row.id] = row
      BY <1>3, <1>6 DEF HasRow
    <3> QED BY <1>1, <3>1 DEF IsUnit
  <2>3. b = SeekPut(s, u, row)
    BY <1>1, <1>3, <1>4, <1>6, <2>2 DEF SeekUnit, HasRow, Stored
  <2>4. b = Result(s, "same")
    BY <1>3, <1>6, <2>3 DEF SeekPut, HasRow, Stored
  <2> QED BY <2>1, <2>4, RefusedTwins
<1>7. CASE MemCited(m, row) /\ ~HasRow(m, u, row) /\ row.id \in DOMAIN m[u] /\ m[u][row.id].text = row.text
  <2>1. PICK new : new = [row EXCEPT !.vectors = m[u][row.id].vectors]
    OBVIOUS
  <2>2. PICK k : k = Kept(m, u, new)
    OBVIOUS
  <2>3. row.id \in DOMAIN m["embedded"] /\ m["embedded"][row.id] = row.text
    BY <1>1, <1>7 DEF Embeds
  <2>4. a = [tables |-> k, answer |-> "written"]
    BY <1>1, <1>7, <2>1, <2>2, <2>3 DEF MemUnit, HasRow, Stored, Result
  <2>5. b = SeekPut(s, u, new)
    BY <1>1, <1>3, <1>4, <1>7, <2>1 DEF SeekUnit, Stored
  <2>6. new.id = row.id /\ new.text = row.text
    BY <1>1, <2>1 DEF IsUnit
  <2>7. DOMAIN k = DOMAIN m /\ \A t \in DOMAIN m : k[t] = IF t = u THEN Taking(m[u], row.id, new) ELSE m[t]
    BY <2>2, <2>6 DEF Kept
  <2>8. IsMemory(k)
    BY <2>7 DEF IsMemory
  <2>9. Embeds(k)
    <3>1. k["embedded"] = m["embedded"] /\ k[u] = Taking(m[u], row.id, new)
      BY <1>2, <2>7 DEF IsMemory
    <3>2. DOMAIN k[u] = DOMAIN m[u] /\ k[u][row.id] = new /\ \A i \in DOMAIN m[u] : i # row.id =>
            k[u][i] = m[u][i]
      BY <1>7, <3>1 DEF Taking
    <3> QED BY <1>1, <2>3, <2>6, <3>1, <3>2 DEF Embeds
  <2>10. Same(b.tables, k) /\ b.answer \in {"same", "written"}
    <3>1. CASE HasRow(s, u, new)
      <4>1. b = [tables |-> s, answer |-> "same"]
        BY <2>5, <3>1 DEF SeekPut, HasRow, Stored, Result
      <4>2. Taking(m[u], row.id, new) = m[u]
        <5>1. m[u] = [i \in DOMAIN m[u] |-> m[u][i]] /\ row.id \in DOMAIN m[u] /\ m[u][row.id] = new
          BY <1>2, <1>3, <2>6, <3>1 DEF AreTables, HasRow
        <5>2. PICK f : f = m[u]
          OBVIOUS
        <5>3. f = [i \in DOMAIN f |-> f[i]] /\ row.id \in DOMAIN f /\ f[row.id] = new
          BY <5>1, <5>2
        <5>4. Taking(f, row.id, new) = f
          BY <5>3, TakingStays
        <5> QED BY <5>2, <5>4
      <4>3. \A t \in TableNames : k[t] = m[t]
        BY <2>7, <4>2 DEF IsMemory
      <4> QED BY <1>3, <4>1, <4>3 DEF Same
    <3>2. CASE ~HasRow(s, u, new)
      <4>1. PICK l : l = Kept(s, u, new)
        OBVIOUS
      <4>2. b = [tables |-> l, answer |-> "written"]
        BY <2>5, <3>2, <4>1 DEF SeekPut, HasRow, Stored, Result
      <4>3. DOMAIN l = DOMAIN s /\ \A t \in DOMAIN s : l[t] = IF t = u THEN Taking(s[u], row.id, new) ELSE s[t]
        BY <2>6, <4>1 DEF Kept
      <4>4. Same(l, k)
        BY <1>3, <2>7, <4>3 DEF Same, IsMemory, IsSeek
      <4> QED BY <4>2, <4>4
    <3> QED BY <3>1, <3>2
  <2>11. ~Raises("same") /\ ~Raises("written")
    BY DEF Raises
  <2> QED BY <2>4, <2>8, <2>9, <2>10, <2>11 DEF Twins, Alike, To
<1>8. CASE MemCited(m, row) /\ ~HasRow(m, u, row) /\ ~(row.id \in DOMAIN m[u] /\ m[u][row.id].text = row.text)
  <2>1. PICK k, l, kk : k = Reembedded(m, row) /\ l = Kept(Indexed(s, row), u, row) /\ kk = Kept(m, u, row)
    OBVIOUS
  <2>2. ~(row.id \in DOMAIN m[u] /\ row.id \in DOMAIN m["embedded"] /\ m["embedded"][row.id] = row.text)
    BY <1>1, <1>8 DEF Embeds
  <2>3. a = [tables |-> k, answer |-> "written"]
    BY <1>1, <1>8, <2>1, <2>2 DEF MemUnit, HasRow, Stored, Result
  <2>4. PICK z : z = Indexed(s, row)
    OBVIOUS
  <2>5. IsSeek(z) /\ \A t \in DOMAIN s \ {"vectors", "fulltext", "native"} : z[t] = s[t]
    BY <2>4 DEF Indexed, IsSeek
  <2>6. \A t \in TableNames : z[t] = s[t]
    BY <2>5, TablesAre DEF IsSeek
  <2>7. b = SeekPut(z, u, row)
    BY <1>1, <1>3, <1>4, <1>8, <2>4 DEF SeekUnit, Stored
  <2>8. b = [tables |-> l, answer |-> "written"]
    BY <1>2, <1>3, <1>8, <2>1, <2>4, <2>6, <2>7 DEF SeekPut, HasRow, Stored, Result
  <2>9. DOMAIN l = DOMAIN z /\ \A t \in DOMAIN z : l[t] = IF t = u THEN Taking(z[u], row.id, row) ELSE z[t]
    BY <2>1, <2>4 DEF Kept
  <2>10. DOMAIN kk = DOMAIN m /\ \A t \in DOMAIN m : kk[t] = IF t = u THEN Taking(m[u], row.id, row) ELSE m[t]
    BY <2>1 DEF Kept
  <2>11. /\ DOMAIN k = DOMAIN m /\ k["embedded"] = Taking(kk["embedded"], row.id, row.text)
         /\ \A t \in DOMAIN m \ {"embedded", "embedding_writes"} : k[t] = kk[t]
    <3>1. k = [kk EXCEPT !.embedded = Taking(@, row.id, row.text),
                         !.embedding_writes = IF Embeddings(row) = {} THEN @ ELSE @ + 1]
      BY <1>1, <2>1 DEF Reembedded
    <3>2. DOMAIN kk = TableNames \cup {"embedded", "embedding_writes"}
      BY <2>10 DEF IsMemory
    <3> QED BY <2>10, <3>1, <3>2
  <2>12. \A t \in TableNames : k[t] = IF t = u THEN Taking(m[u], row.id, row) ELSE m[t]
    BY <2>10, <2>11, TablesAre DEF IsMemory
  <2>13. \A t \in TableNames : l[t] = IF t = u THEN Taking(s[u], row.id, row) ELSE s[t]
    BY <1>2, <2>5, <2>6, <2>9 DEF IsSeek
  <2>14. Same(l, k) /\ IsMemory(k)
    BY <1>3, <2>11, <2>12, <2>13 DEF Same, IsMemory
  <2>15. Embeds(k)
    <3>1. kk["embedded"] = m["embedded"]
      BY <1>2, <2>10 DEF IsMemory
    <3>2. k[u] = Taking(m[u], row.id, row) /\ k["embedded"] = Taking(m["embedded"], row.id, row.text)
      BY <1>2, <2>11, <2>12, <3>1
    <3> QED BY <1>1, <3>2 DEF Embeds, Taking
  <2> QED BY <2>3, <2>8, <2>14, <2>15 DEF Twins, Alike
<1> QED BY <1>5, <1>6, <1>7, <1>8

\* A call that puts what is fixed from then on.
LEMMA FixedTwins ==
    ASSUME NEW m, NEW s, IsMemory(m), IsSeek(s), Same(s, m), Embeds(m), NEW call,
           NEW t, t \in TableNames, t # "units",
           NEW error, NEW row,
           NEW a, a = (IF MemDiffers(m, t, row) THEN Result(m, error) ELSE MemUpsert(m, t, row)),
           NEW b, b = SeekFixed(s, t, row, error)
    PROVE  Twins(call, a, b)
<1>1. m[t] = s[t]
  BY DEF Same
<1>2. CASE MemDiffers(m, t, row)
  <2>1. a = Result(m, error) /\ b = Result(s, error)
    BY <1>1, <1>2 DEF MemDiffers, Stored, SeekFixed
  <2> QED BY <2>1, RefusedTwins
<1>3. CASE ~MemDiffers(m, t, row)
  <2>1. a = MemUpsert(m, t, row) /\ b = SeekPut(s, t, row)
    BY <1>1, <1>3 DEF MemDiffers, Stored, SeekFixed
  <2> QED BY <2>1, UpsertTwins
<1> QED BY <1>2, <1>3

\* Of a store whose snapshots are known by their ids, a version that another row
\* has is one that any row has.
LEMMA SnapshotTwins ==
    ASSUME NEW m, NEW s, IsMemory(m), IsSeek(s), Same(s, m), Embeds(m), Keyed(m), NEW call,
           NEW row, NEW a, a = MemSnapshot(m, row), NEW b, b = SeekSnapshot(s, row)
    PROVE  Twins(call, a, b)
<1>0. PICK t : t = "snapshots"
  OBVIOUS
<1>1. m[t] = s[t] /\ t \in TableNames /\ t # "units"
  BY <1>0 DEF Same, TableNames
<1>2. CASE Stored(m, t, row.id)
  <2>1. a = (IF MemDiffers(m, t, row) THEN Result(m, "immutable") ELSE MemUpsert(m, t, row))
    BY <1>0, <1>2 DEF MemSnapshot, MemDiffers, MemUpsert
  <2>2. b = SeekFixed(s, t, row, "immutable")
    BY <1>0, <1>1, <1>2 DEF SeekSnapshot, Stored
  <2> QED BY <1>1, <2>1, <2>2, FixedTwins
<1>3. CASE ~Stored(m, t, row.id)
  <2>1. TableRows(m, t) = TableRows(s, t)
    BY <1>1 DEF TableRows
  <2>2. row \notin TableRows(m, t)
    BY <1>0, <1>3 DEF TableRows, Stored, Keyed
  <2>3. CASE \E o \in TableRows(m, t) : Version(o) = Version(row)
    <3>1. a = Result(m, "immutable")
      BY <1>0, <1>3, <2>3 DEF MemSnapshot, MemDiffers
    <3>2. b = Result(s, "immutable")
      BY <1>0, <1>1, <1>3, <2>1, <2>2, <2>3 DEF SeekSnapshot, Stored
    <3> QED BY <3>1, <3>2, RefusedTwins
  <2>4. CASE ~\E o \in TableRows(m, t) : Version(o) = Version(row)
    <3>1. a = MemUpsert(m, t, row)
      BY <1>0, <1>3, <2>4 DEF MemSnapshot, MemDiffers, MemUpsert
    <3>2. b = SeekPut(s, t, row)
      BY <1>0, <1>1, <1>3, <2>1, <2>4 DEF SeekSnapshot, Stored
    <3> QED BY <1>1, <3>1, <3>2, UpsertTwins
  <2> QED BY <2>3, <2>4
<1> QED BY <1>2, <1>3

LEMMA FeedbackTwins ==
    ASSUME NEW m, NEW s, IsMemory(m), IsSeek(s), Same(s, m), Embeds(m), NEW call,
           NEW row, NEW a, a = MemFeedback(m, row), NEW b, b = SeekFeedback(s, row)
    PROVE  Twins(call, a, b)
<1>0. PICK f, g : f = "feedback" /\ g = "governance"
  OBVIOUS
<1>1. m[f] = s[f] /\ f \in TableNames /\ f # "units" /\ g \in TableNames /\ g # "units"
  BY <1>0 DEF Same, TableNames
<1>2. CASE MemDiffers(m, f, row)
  <2>1. a = Result(m, "conflict")
    BY <1>0, <1>2 DEF MemFeedback
  <2>2. SeekFixed(s, f, row, "conflict") = [tables |-> s, answer |-> "conflict"]
    BY <1>1, <1>2 DEF MemDiffers, SeekFixed, Stored, Result
  <2>3. b = Result(s, "conflict")
    BY <1>0, <2>2 DEF SeekFeedback, FeedbackStored, Result
  <2> QED BY <2>1, <2>3, RefusedTwins
<1>3. CASE ~MemDiffers(m, f, row)
  <2>1. PICK mp, sp, place : mp = MemUpsert(m, f, row) /\ sp = SeekPut(s, f, row) /\ place = GovernanceFor(row)
    OBVIOUS
  <2>2. Twins(call, mp, sp)
    BY <1>1, <2>1, UpsertTwins
  <2>3. IsSeek(sp.tables) /\ sp.answer \in {"same", "written"} /\ mp.answer \in {"same", "written"}
    <3>1. IsSeek(sp.tables)
      BY <1>1, <2>1, PutAt
    <3>2. sp.answer \in {"same", "written"} /\ mp.answer \in {"same", "written"}
      BY <2>1 DEF MemUpsert, SeekPut, Result
    <3> QED BY <3>1, <3>2
  <2>4. PICK mz, sz : mz = mp.tables /\ sz = sp.tables
    OBVIOUS
  <2>5. PICK mq, sq : mq = MemUpsert(mz, g, place) /\ sq = SeekPut(sz, g, place)
    OBVIOUS
  <2>6. a = [tables |-> mq.tables, answer |-> mp.answer]
    BY <1>0, <1>3, <2>1, <2>4, <2>5 DEF MemFeedback, Result
  <2>7. SeekFixed(s, f, row, "conflict") = sp
    BY <1>1, <1>3, <2>1 DEF MemDiffers, SeekFixed, Stored
  <2>8. b = [tables |-> sq.tables, answer |-> sp.answer]
    BY <1>0, <2>1, <2>3, <2>4, <2>5, <2>7 DEF SeekFeedback, FeedbackStored, Result
  <2>9. IsMemory(mz) /\ Same(sz, mz) /\ Embeds(mz) /\ IsSeek(sz)
    BY <2>2, <2>3, <2>4 DEF Twins
  <2>10. Twins(call, mq, sq)
    BY <1>1, <2>5, <2>9, UpsertTwins
  <2>11. ~Raises("same") /\ ~Raises("written")
    BY DEF Raises
  <2> QED BY <2>2, <2>6, <2>8, <2>10 DEF Twins
<1> QED BY <1>2, <1>3

LEMMA ReviewTwins ==
    ASSUME NEW m, NEW s, IsMemory(m), IsSeek(s), Same(s, m), Embeds(m), AreTables(m), Queued(m), NEW call,
           NEW row, NEW a, a = MemReview(m, row), NEW b, b = SeekReview(s, row)
    PROVE  Twins(call, a, b)
<1>0. PICK g : g = "governance"
  OBVIOUS
<1>1. m[g] = s[g] /\ g \in TableNames /\ g # "units" /\ ~Raises("none") /\ ~Raises("reviewed")
  BY <1>0 DEF Same, TableNames, Raises
<1>2. CASE row.id \notin DOMAIN m[g]
  <2>1. a = Result(m, "none") /\ b = Result(s, "none")
    BY <1>0, <1>1, <1>2 DEF MemReview, SeekReview, Stored
  <2> QED BY <2>1, RefusedTwins
<1>3. CASE row.id \in DOMAIN m[g]
  <2>1. PICK new, old : new = Reviewed(m[g][row.id], row.decision) /\ old = m[g][row.id]
    OBVIOUS
  <2>2. new.id = row.id
    <3>1. IsPlace(old) /\ old.id = row.id
      BY <1>0, <1>3, <2>1 DEF Queued
    <3> QED BY <2>1, <3>1 DEF Reviewed, IsPlace
  <2>3. PICK k, put : k = Kept(m, g, new) /\ put = SeekPut(s, g, new)
    OBVIOUS
  <2>4. a = [tables |-> k, answer |-> "reviewed"]
    BY <1>0, <1>3, <2>1, <2>3 DEF MemReview, Stored, Result
  <2>5. b = [tables |-> put.tables, answer |-> "reviewed"]
    BY <1>0, <1>1, <1>3, <2>1, <2>3 DEF SeekReview, Stored, Result
  <2>6. PICK up : up = MemUpsert(m, g, new)
    OBVIOUS
  <2>7. Twins(call, up, put)
    BY <1>1, <2>3, <2>6, UpsertTwins
  <2>8. TableNames \subseteq DOMAIN m
    BY DEF IsMemory
  <2>9. DOMAIN k = DOMAIN m /\ HasRow(k, g, new) /\ OneRow(m, k, g, new.id, new)
    BY <1>1, <2>3, <2>8, KeptIs
  <2>10. Same(up.tables, k)
    <3>1. CASE HasRow(m, g, new)
      <4>1. up = [tables |-> m, answer |-> "same"]
        BY <2>6, <3>1 DEF MemUpsert, Stored, HasRow, Result
      <4>2. PICK f : f = m[g]
        OBVIOUS
      <4>3. f = [i \in DOMAIN f |-> f[i]]
        BY <1>1, <4>2 DEF AreTables
      <4>4. new.id \in DOMAIN f /\ f[new.id] = new
        BY <3>1, <4>2 DEF HasRow
      <4>5. Taking(f, new.id, new) = f
        BY <4>3, <4>4, TakingStays
      <4> QED BY <2>9, <4>1, <4>2, <4>5 DEF OneRow, Same
    <3>2. CASE ~HasRow(m, g, new)
      <4>1. up = [tables |-> k, answer |-> "written"]
        BY <2>3, <2>6, <3>2 DEF MemUpsert, Stored, HasRow, Result
      <4> QED BY <4>1, SameIs
    <3> QED BY <3>1, <3>2
  <2>11. IsMemory(k)
    BY <2>9 DEF IsMemory
  <2>12. Embeds(k)
    <3>1. \A u \in DOMAIN m : u # g => k[u] = m[u]
      BY <2>3 DEF Kept
    <3>2. "embedded" \in DOMAIN m /\ "units" \in DOMAIN m /\ g # "embedded" /\ g # "units"
      BY <1>0, TablesAre DEF IsMemory
    <3>3. k["embedded"] = m["embedded"] /\ k["units"] = m["units"]
      BY <3>1, <3>2
    <3> QED BY <3>3 DEF Embeds
  <2>13. Same(put.tables, k)
    BY <2>7, <2>10 DEF Twins, Same
  <2> QED BY <1>1, <2>4, <2>5, <2>11, <2>12, <2>13 DEF Twins, Alike
<1> QED BY <1>2, <1>3

\* Nothing is put, or the row is by the put of each store.
Pairs(m, s, t, row, error, a, b) ==
    \/ a = Result(m, error) /\ b = Result(s, error)
    \/ /\ a = IF MemDiffers(m, t, row) THEN Result(m, error) ELSE MemUpsert(m, t, row)
       /\ b = SeekFixed(s, t, row, error)
    \/ a = MemUpsert(m, t, row) /\ b = SeekPut(s, t, row)

LEMMA PairsTwins ==
    ASSUME NEW m, NEW s, IsMemory(m), IsSeek(s), Same(s, m), Embeds(m), NEW call,
           NEW t, t \in TableNames, t # "units",
           NEW error, NEW row, NEW a, NEW b, Pairs(m, s, t, row, error, a, b)
    PROVE  Twins(call, a, b)
<1>1. CASE a = Result(m, error) /\ b = Result(s, error)
  BY <1>1, RefusedTwins
<1>2. CASE /\ a = IF MemDiffers(m, t, row) THEN Result(m, error) ELSE MemUpsert(m, t, row)
           /\ b = SeekFixed(s, t, row, error)
  BY <1>2, FixedTwins
<1>3. CASE a = MemUpsert(m, t, row) /\ b = SeekPut(s, t, row)
  BY <1>3, UpsertTwins
<1> QED BY <1>1, <1>2, <1>3 DEF Pairs

LEMMA CallTwins ==
    ASSUME NEW m, NEW s, IsMemory(m), IsSeek(s), Same(s, m), Embeds(m), AreTables(m), Keyed(m), Queued(m),
           NEW call, IsCall(call), NEW a, a = MemCall(m, call), NEW b, b = SeekCall(s, call)
    PROVE  Twins(call, a, b)
<1>1. PICK t, row : t = call.table /\ row = call.row
  OBVIOUS
<1>2. t \in TableNames
  BY <1>1 DEF IsCall
<1>3. \A u \in TableNames : \A id : Stored(m, u, id) <=> Stored(s, u, id)
  BY DEF Stored, Same
<1>4. CASE t = "snapshots"
  <2>1. a = MemSnapshot(m, row) /\ b = SeekSnapshot(s, row)
    BY <1>1, <1>4, Zenon DEF SeekCall, MemCall
  <2> QED BY <2>1, SnapshotTwins
<1>5. CASE t = "documents"
  <2>1. a = MemDocument(m, row) /\ b = SeekDocument(s, row)
    BY <1>1, <1>5, Zenon DEF SeekCall, MemCall
  <2>2. Pairs(m, s, t, row, "unknown", a, b) \/ Pairs(m, s, t, row, "immutable", a, b)
    BY <1>3, <1>5, <2>1, TablesAre DEF SeekDocument, MemDocument, Pairs
  <2>3. t # "units"
    BY <1>5
  <2> QED BY <1>2, <2>2, <2>3, PairsTwins
<1>6. CASE t = "evidence"
  <2>1. a = MemEvidence(m, row) /\ b = SeekEvidence(s, row)
    BY <1>1, <1>6, Zenon DEF SeekCall, MemCall
  <2>2. Pairs(m, s, t, row, "unknown", a, b) \/ Pairs(m, s, t, row, "immutable", a, b)
    BY <1>3, <1>6, <2>1, TablesAre DEF SeekEvidence, MemEvidence, Pairs
  <2>3. t # "units"
    BY <1>6
  <2> QED BY <1>2, <2>2, <2>3, PairsTwins
<1>7. CASE t \in {"cards", "components", "pages"}
  <2>1. a = MemOfSnapshot(m, t, row) /\ b = SeekOfSnapshot(s, t, row)
    BY <1>1, <1>7, Zenon DEF SeekCall, MemCall
  <2>2. Pairs(m, s, t, row, "unknown", a, b)
    BY <1>3, <1>7, <2>1, TablesAre DEF SeekOfSnapshot, MemOfSnapshot, Pairs
  <2>3. t # "units"
    BY <1>7
  <2> QED BY <1>2, <2>2, <2>3, PairsTwins
<1>8. CASE t = "units"
  <2>1. a = MemUnit(m, call.row) /\ b = SeekUnit(s, call.row)
    BY <1>1, <1>8, Zenon DEF SeekCall, MemCall
  <2>2. To(call, "units") /\ IsUnit(call.row)
    BY <1>1, <1>8 DEF To, IsCall
  <2> QED BY <2>1, <2>2, UnitTwins
<1>9. CASE t = "claims"
  <2>1. a = MemClaim(m, row) /\ b = SeekClaim(s, row)
    BY <1>1, <1>9, Zenon DEF SeekCall, MemCall
  <2>2. MemCited(m, row) <=> SeekCited(s, row)
    BY <1>3, TablesAre DEF MemCited, SeekCited
  <2>3. Pairs(m, s, t, row, "unknown", a, b)
    BY <1>3, <1>9, <2>1, <2>2, TablesAre DEF SeekClaim, MemClaim, Pairs
  <2>4. t # "units"
    BY <1>9
  <2> QED BY <1>2, <2>3, <2>4, PairsTwins
<1>10. CASE t = "disagreements"
  <2>1. a = MemDisagreement(m, row) /\ b = SeekDisagreement(s, row)
    BY <1>1, <1>10, Zenon DEF SeekCall, MemCall
  <2>2. Pairs(m, s, t, row, "unknown", a, b)
    BY <1>3, <1>10, <2>1, TablesAre DEF SeekDisagreement, MemDisagreement, Pairs
  <2>3. t # "units"
    BY <1>10
  <2> QED BY <1>2, <2>2, <2>3, PairsTwins
<1>11. CASE t = "relations"
  <2>1. a = MemRelation(m, row) /\ b = SeekRelation(s, row)
    BY <1>1, <1>11, Zenon DEF SeekCall, MemCall
  <2>2. Pairs(m, s, t, row, "unknown", a, b)
    BY <1>3, <1>11, <2>1, TablesAre DEF SeekRelation, MemRelation, Pairs
  <2>3. t # "units"
    BY <1>11
  <2> QED BY <1>2, <2>2, <2>3, PairsTwins
<1>12. CASE t = "feedback"
  <2>1. a = MemFeedback(m, row) /\ b = SeekFeedback(s, row)
    BY <1>1, <1>12, Zenon DEF SeekCall, MemCall
  <2> QED BY <2>1, FeedbackTwins
<1>13. CASE t = "governance"
  <2>1. a = MemReview(m, row) /\ b = SeekReview(s, row)
    BY <1>1, <1>13, Zenon DEF SeekCall, MemCall
  <2> QED BY <2>1, ReviewTwins
<1>14. CASE t = "versions"
  <2>1. a = MemVersion(m, row) /\ b = SeekVersion(s, row)
    BY <1>1, <1>14, Zenon DEF SeekCall, MemCall
  <2>2. Pairs(m, s, t, row, "conflict", a, b)
    BY <1>14, <2>1 DEF SeekVersion, MemVersion, Pairs
  <2>3. t # "units"
    BY <1>14
  <2> QED BY <1>2, <2>2, <2>3, PairsTwins
<1>15. CASE t \in {"sources", "packs"}
  <2>1. a = MemUpsert(m, t, row) /\ b = SeekPut(s, t, row)
    BY <1>1, <1>15, Zenon DEF SeekCall, MemCall
  <2>2. Pairs(m, s, t, row, "conflict", a, b)
    BY <2>1 DEF Pairs
  <2>3. t # "units"
    BY <1>15
  <2> QED BY <1>2, <2>2, <2>3, PairsTwins
<1> QED BY <1>2, <1>4, <1>5, <1>6, <1>7, <1>8, <1>9, <1>10, <1>11, <1>12, <1>13, <1>14, <1>15 DEF TableNames

-----------------------------------------------------------------------------
(* What holds of the tables of a store, and that a call keeps it.           *)

\* The row of the table t refers to what there is.
Stands(s, t, row) ==
    /\ Needs(s, t, row)
    /\ t = "evidence" => s["documents"][row.document].snapshot = row.snapshot

UnitsKeyed(s) ==
    /\ IsFiniteSet(DOMAIN s["units"])
    /\ \A id \in DOMAIN s["units"] : IsUnit(s["units"][id]) /\ s["units"][id].id = id

\* A unit with the id of a cluster comes after its evidence, and is its unit when
\* that is its evidence.
ClusterStands(s, b, c) ==
    LET id == BridgeEvidence(b, c).id IN
    id \in DOMAIN s["units"] => /\ id \in DOMAIN s["evidence"]
                                /\ s["evidence"][id] = BridgeEvidence(b, c) =>
                                     s["units"][id] = ClusterUnit(b, c)
LegacyStands(s) ==
    \A b \in DOMAIN Bundles : \A i \in DOMAIN Bundles[b].clusters :
        ClusterStands(s, Bundles[b], Bundles[b].clusters[i])

RowsStand(s) == \A t \in TableNames : \A id \in DOMAIN s[t] : Stands(s, t, s[t][id])
AnswersQueued(s) == DOMAIN s["governance"] \subseteq DOMAIN s["feedback"]
\* A kill may take that from SeekDB, whose put of feedback is two writes.
QueuesAnswers(s) == DOMAIN s["feedback"] \subseteq DOMAIN s["governance"]

TablesOK(s) ==
    /\ AreTables(s) /\ Keyed(s) /\ Queued(s) /\ UnitsKeyed(s)
    /\ RowsStand(s) /\ AnswersQueued(s) /\ LegacyStands(s)

\* What a call may bring: evidence of the snapshot of its document, and with the
\* id of a cluster only its unit, after its evidence.
CallFits(s, call) ==
    LET row == call.row IN
    /\ IsCall(call)
    /\ To(call, "evidence") => /\ row.document \in DOMAIN s["documents"]
                               /\ s["documents"][row.document].snapshot = row.snapshot
    /\ To(call, "units") =>
         \/ row.id \notin LegacyUnitIds
         \/ \E b \in DOMAIN Bundles : \E i \in DOMAIN Bundles[b].clusters :
               /\ row = ClusterUnit(Bundles[b], Bundles[b].clusters[i])
               /\ HasRow(s, "evidence", BridgeEvidence(Bundles[b], Bundles[b].clusters[i]))

\* What is there stays, and what is fixed as it is.
Wider(s, z) ==
    /\ \A t \in TableNames : DOMAIN s[t] \subseteq DOMAIN z[t]
    /\ \A t \in FixedTables : \A id \in DOMAIN s[t] : z[t][id] = s[t][id]
NoOtherSnapshot(s, z, call) ==
    \A row \in TableRows(z, "snapshots") :
        row \in TableRows(s, "snapshots") \/ (To(call, "snapshots") /\ row = call.row)

LEMMA StandsLonger ==
    ASSUME NEW s, NEW z, Wider(s, z), NEW t, NEW row, Stands(s, t, row)
    PROVE  Stands(z, t, row)
<1>1. \A id : /\ Stored(s, "snapshots", id) => Stored(z, "snapshots", id)
              /\ Stored(s, "documents", id) => Stored(z, "documents", id)
              /\ Stored(s, "evidence", id) => Stored(z, "evidence", id)
              /\ Stored(s, "units", id) => Stored(z, "units", id)
              /\ Stored(s, "claims", id) => Stored(z, "claims", id)
  BY TablesAre DEF Wider, Stored
<1>2. \A id : Stored(s, "documents", id) => z["documents"][id] = s["documents"][id]
  BY DEF Wider, Stored, FixedTables
<1>3. Needs(z, t, row)
  BY <1>1 DEF Stands, Needs, SeekCited
<1>4. t = "evidence" => z["documents"][row.document].snapshot = row.snapshot
  BY <1>2 DEF Stands, Needs
<1> QED BY <1>3, <1>4 DEF Stands

LEMMA ReferencesFrom ==
    ASSUME NEW s, RowsStand(s), AnswersQueued(s)
    PROVE  ReferencesStand(s)
<1>1. \A t \in TableNames : \A row \in TableRows(s, t) : Stands(s, t, row)
  BY DEF RowsStand, TableRows
<1>2. \A t \in {"documents", "evidence", "cards", "components", "pages"} :
          \A row \in TableRows(s, t) : Stored(s, "snapshots", row.snapshot)
  BY <1>1, TablesAre DEF Stands, Needs
<1>3. \A e \in TableRows(s, "evidence") :
          Stored(s, "documents", e.document) /\ s.documents[e.document].snapshot = e.snapshot
  BY <1>1, TablesAre DEF Stands, Needs
<1>4. \A row \in TableRows(s, "units") \cup TableRows(s, "claims") :
          row.snapshots \subseteq DOMAIN s.snapshots /\ row.evidence \subseteq DOMAIN s.evidence
  <2>1. \A row \in TableRows(s, "units") : SeekCited(s, row)
    BY <1>1, TablesAre DEF Stands, Needs
  <2>2. \A row \in TableRows(s, "claims") : SeekCited(s, row)
    BY <1>1, TablesAre DEF Stands, Needs
  <2> QED BY <2>1, <2>2 DEF SeekCited, Stored
<1>5. \A c \in TableRows(s, "claims") : c.unit = << >> \/ Stored(s, "units", c.unit)
  BY <1>1, TablesAre DEF Stands, Needs
<1>6. \A d \in TableRows(s, "disagreements") : d.claims \subseteq DOMAIN s.claims
  BY <1>1, TablesAre DEF Stands, Needs, Stored
<1>7. \A r \in TableRows(s, "relations") : Stored(s, "evidence", r.evidence)
  BY <1>1, TablesAre DEF Stands, Needs
<1> QED BY <1>2, <1>3, <1>4, <1>5, <1>6, <1>7 DEF ReferencesStand, AnswersQueued

LEMMA UnitsNew ==
    ASSUME NEW row, IsUnit(row), NEW v, NEW new, new = [row EXCEPT !.vectors = v]
    PROVE  /\ IsUnit(new) /\ new.id = row.id /\ new.snapshots = row.snapshots /\ new.evidence = row.evidence
           /\ v = row.vectors => new = row
  BY DEF IsUnit

\* A cluster's row of a unit and its evidence.
LEMMA ClusterRows ==
    ASSUME NEW b, NEW c
    PROVE  /\ BridgeEvidence(b, c).id = <<c.safe, b.hash>> /\ ClusterUnit(b, c).id = <<c.safe, b.hash>>
           /\ BridgeEvidence(b, c).says = <<c.key, b.origin>>
  BY DEF BridgeEvidence, ClusterUnit, LegacyUnit

\* The evidence of a cluster is that of no other cluster with another unit.
LEMMA OneCluster ==
    ASSUME NEW b \in DOMAIN Bundles, NEW i \in DOMAIN Bundles[b].clusters,
           NEW c \in DOMAIN Bundles, NEW j \in DOMAIN Bundles[c].clusters,
           BridgeEvidence(Bundles[b], Bundles[b].clusters[i])
             = BridgeEvidence(Bundles[c], Bundles[c].clusters[j])
    PROVE  ClusterUnit(Bundles[b], Bundles[b].clusters[i]) = ClusterUnit(Bundles[c], Bundles[c].clusters[j])
<1>1. PICK bb, cc : bb = Bundles[b] /\ cc = Bundles[c]
  OBVIOUS
<1>2. /\ <<bb.clusters[i].safe, bb.hash>> = <<cc.clusters[j].safe, cc.hash>>
      /\ <<bb.clusters[i].key, bb.origin>> = <<cc.clusters[j].key, cc.origin>>
  BY <1>1, ClusterRows
<1>3. bb.hash = cc.hash /\ bb.clusters[i].key = cc.clusters[j].key
  BY <1>2
<1>4. Releases(bb, cc) /\ IsBundle(bb)
  BY <1>1, StoresAssumption
<1>5. bb.clusters = cc.clusters /\ bb.files = cc.files
  BY <1>3, <1>4 DEF Releases
<1>6. i \in DOMAIN bb.clusters /\ j \in DOMAIN bb.clusters /\ bb.clusters[i].key = bb.clusters[j].key
  BY <1>1, <1>3, <1>5
<1>7. i = j
  BY <1>4, <1>6 DEF IsBundle
<1>8. PICK cl : cl = bb.clusters[i]
  OBVIOUS
<1>9. cl = cc.clusters[j]
  BY <1>5, <1>7, <1>8
<1>10. ClusterUnit(bb, cl) = ClusterUnit(cc, cl)
  <2>1. \A k : Cites(bb, cl, k) = Cites(cc, cl, k) /\ Cited(bb, cl, k) = Cited(cc, cl, k)
    BY <1>5 DEF Cites, Cited
  <2>2. \A f : PatternEvidence(bb, f).id = PatternEvidence(cc, f).id
    BY DEF PatternEvidence
  <2>3. CitedEvidence(bb, cl) = CitedEvidence(cc, cl)
    BY <1>3, <2>1, <2>2, ClusterRows DEF CitedEvidence
  <2> QED BY <1>3, <2>3 DEF ClusterUnit, LegacyUnit
<1> QED BY <1>1, <1>8, <1>9, <1>10

LEMMA OneRowIs ==
    ASSUME NEW s, NEW z, NEW t, t \in TableNames, NEW id, NEW new, OneRow(s, z, t, id, new)
    PROVE  /\ \A u \in TableNames : u # t => z[u] = s[u]
           /\ DOMAIN z[t] = DOMAIN s[t] \cup {id} /\ z[t][id] = new
           /\ \A i \in DOMAIN s[t] : i # id => z[t][i] = s[t][i]
           /\ z[t] = [i \in DOMAIN z[t] |-> z[t][i]]
<1>1. z[t] = Taking(s[t], id, new)
  BY DEF OneRow
<1> QED BY <1>1 DEF OneRow, Taking

\* A row that stands is put into a table that holds no feedback.
LEMMA RowKeeps ==
    ASSUME NEW s, TablesOK(s), NEW z, NEW call, CallFits(s, call), NEW t, t \in TableNames, t = call.table,
           t \notin {"feedback", "governance"}, Needs(s, t, call.row),
           t \in FixedTables => call.row.id \notin DOMAIN s[t],
           NEW new, NewRow(s, t, call.row, new), OneRow(s, z, t, call.row.id, new)
    PROVE  TablesOK(z) /\ Wider(s, z) /\ NoOtherSnapshot(s, z, call)
<1>1. PICK row, id : row = call.row /\ id = row.id
  OBVIOUS
<1>2. /\ \A u \in TableNames : u # t => z[u] = s[u]
      /\ DOMAIN z[t] = DOMAIN s[t] \cup {id} /\ z[t][id] = new
      /\ \A i \in DOMAIN s[t] : i # id => z[t][i] = s[t][i]
      /\ z[t] = [i \in DOMAIN z[t] |-> z[t][i]]
  <2>1. OneRow(s, z, t, id, new)
    BY <1>1
  <2> QED BY <2>1, OneRowIs
<1>3. /\ t # "units" => new = row
      /\ t = "units" =>
           IsUnit(new) /\ new.id = id /\ new.snapshots = row.snapshots /\ new.evidence = row.evidence
  <2>1. CASE new = row
    BY <1>1, <2>1 DEF CallFits, IsCall
  <2>2. CASE t = "units" /\ row.id \in DOMAIN s["units"] /\
               new = [row EXCEPT !.vectors = s["units"][row.id].vectors]
    <3>1. IsUnit(row)
      BY <1>1, <2>2 DEF CallFits, IsCall
    <3> QED BY <1>1, <2>2, <3>1, UnitsNew
  <2> QED BY <1>1, <2>1, <2>2 DEF NewRow
<1>4. Wider(s, z)
  <2>1. \A u \in TableNames : DOMAIN s[u] \subseteq DOMAIN z[u]
    BY <1>2
  <2>2. \A u \in FixedTables : \A i \in DOMAIN s[u] : z[u][i] = s[u][i]
    BY <1>1, <1>2, TablesAre
  <2> QED BY <2>1, <2>2 DEF Wider
<1>5. AreTables(z)
  BY <1>2 DEF AreTables, TablesOK
<1>6. Keyed(z)
  <2>1. CASE t = "snapshots"
    BY <1>1, <1>2, <1>3, <2>1 DEF Keyed, TablesOK
  <2>2. CASE t # "snapshots"
    <3>1. z["snapshots"] = s["snapshots"]
      BY <1>2, <2>2, TablesAre
    <3> QED BY <3>1 DEF Keyed, TablesOK
  <2> QED BY <2>1, <2>2
<1>7. z["governance"] = s["governance"] /\ z["feedback"] = s["feedback"]
  BY <1>2, TablesAre
<1>8. Queued(z) /\ AnswersQueued(z)
  BY <1>7 DEF Queued, AnswersQueued, TablesOK
<1>9. UnitsKeyed(z)
  <2>1. CASE t = "units"
    <3>1. IsFiniteSet(DOMAIN z["units"])
      BY <1>2, <2>1, FS_AddElement DEF UnitsKeyed, TablesOK
    <3> QED BY <1>2, <1>3, <2>1, <3>1 DEF UnitsKeyed, TablesOK
  <2>2. CASE t # "units"
    <3>1. z["units"] = s["units"]
      BY <1>2, <2>2, TablesAre
    <3> QED BY <3>1 DEF UnitsKeyed, TablesOK
  <2> QED BY <2>1, <2>2
<1>10. Stands(s, t, new)
  <2>0. t = "evidence" => s["documents"][row.document].snapshot = row.snapshot
    BY <1>1 DEF CallFits, To
  <2>1. CASE t # "units"
    BY <1>1, <1>3, <2>0, <2>1 DEF Stands
  <2>2. CASE t = "units"
    <3>1. SeekCited(s, new)
      BY <1>1, <1>3, <2>2 DEF Needs, SeekCited
    <3> QED BY <2>2, <3>1 DEF Stands, Needs
  <2> QED BY <2>1, <2>2
<1>11. RowsStand(z)
  <2> SUFFICES ASSUME NEW u \in TableNames, NEW i \in DOMAIN z[u] PROVE Stands(z, u, z[u][i])
    BY DEF RowsStand
  <2>1. CASE u = t /\ i = id
    BY <1>2, <1>4, <1>10, <2>1, StandsLonger
  <2>2. CASE ~(u = t /\ i = id)
    <3>1. i \in DOMAIN s[u] /\ z[u][i] = s[u][i]
      BY <1>2, <2>2
    <3>2. Stands(s, u, s[u][i])
      BY <3>1 DEF RowsStand, TablesOK
    <3> QED BY <1>4, <3>1, <3>2, StandsLonger
  <2> QED BY <2>1, <2>2
<1>12. LegacyStands(z)
  <2> SUFFICES ASSUME NEW b \in DOMAIN Bundles, NEW k \in DOMAIN Bundles[b].clusters
               PROVE  ClusterStands(z, Bundles[b], Bundles[b].clusters[k])
    BY DEF LegacyStands
  <2>1. PICK ev, un : ev = BridgeEvidence(Bundles[b], Bundles[b].clusters[k]) /\
                        un = ClusterUnit(Bundles[b], Bundles[b].clusters[k])
    OBVIOUS
  <2>2. ev.id = un.id /\ ev.id \in LegacyUnitIds
    <3>1. ev.id = <<Bundles[b].clusters[k].safe, Bundles[b].hash>> /\ un.id = ev.id
      BY <2>1, ClusterRows
    <3>2. <<Bundles[b].clusters[k].safe, Bundles[b].hash>>
             \in {<<Bundles[b].clusters[i].safe, Bundles[b].hash>> : i \in DOMAIN Bundles[b].clusters}
      OBVIOUS
    <3> QED BY <3>1, <3>2 DEF LegacyUnitIds
  <2>3. ev.id \in DOMAIN s["units"] =>
          ev.id \in DOMAIN s["evidence"] /\ (s["evidence"][ev.id] = ev => s["units"][ev.id] = un)
    BY <2>1, Zenon DEF LegacyStands, ClusterStands, TablesOK
  <2>4. ev.id \in DOMAIN z["units"] =>
          ev.id \in DOMAIN z["evidence"] /\ (z["evidence"][ev.id] = ev => z["units"][ev.id] = un)
    <3>0. \A j \in DOMAIN s["evidence"] : j \in DOMAIN z["evidence"] /\ z["evidence"][j] = s["evidence"][j]
      BY <1>4, TablesAre DEF Wider, FixedTables
    <3>1. CASE t # "units" \/ id # ev.id
      <4>1. (ev.id \in DOMAIN z["units"] <=> ev.id \in DOMAIN s["units"])
        BY <1>2, <3>1, TablesAre
      <4>2. ev.id \in DOMAIN s["units"] => z["units"][ev.id] = s["units"][ev.id]
        BY <1>2, <3>1, TablesAre
      <4> QED BY <2>3, <3>0, <4>1, <4>2
    <3>2. CASE t = "units" /\ id = ev.id
      <4>1. row.id \in LegacyUnitIds /\ To(call, "units")
        BY <1>1, <2>2, <3>2 DEF To
      <4>2. PICK c \in DOMAIN Bundles : \E j \in DOMAIN Bundles[c].clusters :
                 /\ row = ClusterUnit(Bundles[c], Bundles[c].clusters[j])
                 /\ HasRow(s, "evidence", BridgeEvidence(Bundles[c], Bundles[c].clusters[j]))
        BY <1>1, <4>1 DEF CallFits
      <4>3. PICK j \in DOMAIN Bundles[c].clusters :
                 /\ row = ClusterUnit(Bundles[c], Bundles[c].clusters[j])
                 /\ HasRow(s, "evidence", BridgeEvidence(Bundles[c], Bundles[c].clusters[j]))
        BY <4>2
      <4>4. PICK ev2, un2 : ev2 = BridgeEvidence(Bundles[c], Bundles[c].clusters[j]) /\
                              un2 = ClusterUnit(Bundles[c], Bundles[c].clusters[j])
        OBVIOUS
      <4>5. row = un2 /\ ev2.id = id /\ id \in DOMAIN s["evidence"] /\ s["evidence"][id] = ev2
        BY <1>1, <4>3, <4>4, ClusterRows DEF HasRow
      <4>6. id \in DOMAIN z["evidence"] /\ z["evidence"][id] = ev2
        BY <3>0, <4>5
      <4>7. z["units"][id] = row
        <5>1. CASE new = row
          BY <1>2, <3>2, <5>1
        <5>2. CASE id \in DOMAIN s["units"] /\ new = [row EXCEPT !.vectors = s["units"][id].vectors]
          <6>1. ev2.id \in DOMAIN s["units"] => ev2.id \in DOMAIN s["evidence"] /\
                  (s["evidence"][ev2.id] = ev2 => s["units"][ev2.id] = un2)
            BY <4>4, Zenon DEF LegacyStands, ClusterStands, TablesOK
          <6>2. s["units"][id] = row
            BY <4>5, <5>2, <6>1
          <6>3. IsUnit(row)
            BY <1>1, <3>2 DEF CallFits, IsCall
          <6>4. new = row
            BY <5>2, <6>2, <6>3, UnitsNew
          <6> QED BY <1>2, <3>2, <6>4
        <5> QED BY <1>1, <3>2, <5>1, <5>2 DEF NewRow
      <4>8. ev2 = ev => row = un
        BY <2>1, <4>4, <4>5, OneCluster, ZenonT(40)
      <4> QED BY <3>2, <4>6, <4>7, <4>8
    <3> QED BY <3>1, <3>2
  <2> QED BY <2>1, <2>4, Zenon DEF ClusterStands
<1>13. NoOtherSnapshot(s, z, call)
  <2>1. CASE t = "snapshots"
    <3>1. \A i \in DOMAIN z["snapshots"] :
            i = id \/ (i \in DOMAIN s["snapshots"] /\ z["snapshots"][i] = s["snapshots"][i])
      BY <1>2, <2>1
    <3>2. z["snapshots"][id] = row /\ To(call, "snapshots")
      BY <1>2, <1>3, <2>1 DEF To
    <3> QED BY <1>1, <3>1, <3>2 DEF NoOtherSnapshot, TableRows
  <2>2. CASE t # "snapshots"
    <3>1. z["snapshots"] = s["snapshots"]
      BY <1>2, <2>2, TablesAre
    <3> QED BY <3>1 DEF NoOtherSnapshot, TableRows
  <2> QED BY <2>1, <2>2
<1> QED BY <1>4, <1>5, <1>6, <1>8, <1>9, <1>11, <1>12, <1>13 DEF TablesOK

\* Only feedback and the queue of the governance are changed.
LEMMA QueueKeeps ==
    ASSUME NEW s, TablesOK(s), NEW z, NEW call, \A u \in TableNames \ {"feedback", "governance"} : z[u] = s[u],
           \A u \in {"feedback", "governance"} : DOMAIN s[u] \subseteq DOMAIN z[u] /\
                                                   z[u] = [i \in DOMAIN z[u] |-> z[u][i]],
           Queued(z), AnswersQueued(z)
    PROVE  TablesOK(z) /\ Wider(s, z) /\ NoOtherSnapshot(s, z, call)
<1>1. /\ z["snapshots"] = s["snapshots"] /\ z["documents"] = s["documents"] /\ z["evidence"] = s["evidence"]
      /\ z["units"] = s["units"] /\ z["versions"] = s["versions"]
  BY TablesAre
<1>2. Wider(s, z)
  <2>1. \A u \in TableNames : DOMAIN s[u] \subseteq DOMAIN z[u]
    <3> TAKE u \in TableNames
    <3>1. CASE u \in {"feedback", "governance"}
      BY <3>1
    <3>2. CASE u \notin {"feedback", "governance"}
      BY <3>2
    <3> QED BY <3>1, <3>2
  <2> QED BY <1>1, <2>1 DEF Wider, FixedTables
<1>3. AreTables(z)
  <2>1. ASSUME NEW u \in TableNames PROVE z[u] = [i \in DOMAIN z[u] |-> z[u][i]]
    <3>1. CASE u \in {"feedback", "governance"}
      BY <3>1
    <3>2. CASE u \notin {"feedback", "governance"}
      <4>1. z[u] = s[u] /\ s[u] = [i \in DOMAIN s[u] |-> s[u][i]]
        BY <3>2 DEF TablesOK, AreTables
      <4> QED BY <4>1
    <3> QED BY <3>1, <3>2
  <2> QED BY <2>1 DEF AreTables
<1>4. Keyed(z) /\ UnitsKeyed(z) /\ NoOtherSnapshot(s, z, call)
  BY <1>1 DEF Keyed, UnitsKeyed, NoOtherSnapshot, TableRows, TablesOK
<1>5. LegacyStands(z)
  <2> SUFFICES ASSUME NEW b \in DOMAIN Bundles, NEW k \in DOMAIN Bundles[b].clusters
               PROVE  ClusterStands(z, Bundles[b], Bundles[b].clusters[k])
    BY DEF LegacyStands
  <2>1. ClusterStands(s, Bundles[b], Bundles[b].clusters[k])
    BY DEF LegacyStands, TablesOK
  <2> QED BY <1>1, <2>1 DEF ClusterStands
<1>6. RowsStand(z)
  <2> SUFFICES ASSUME NEW u \in TableNames, NEW i \in DOMAIN z[u] PROVE Stands(z, u, z[u][i])
    BY DEF RowsStand
  <2>1. CASE u \in {"feedback", "governance"}
    BY <2>1 DEF Stands, Needs
  <2>2. CASE u \notin {"feedback", "governance"}
    <3>1. z[u] = s[u]
      BY <2>2
    <3>2. Stands(s, u, z[u][i])
      BY <3>1 DEF RowsStand, TablesOK
    <3> QED BY <1>2, <3>2, StandsLonger
  <2> QED BY <2>1, <2>2
<1> QED BY <1>2, <1>3, <1>4, <1>5, <1>6 DEF TablesOK

LEMMA ReviewedIs ==
    ASSUME NEW old, IsPlace(old), NEW decision, NEW new, new = Reviewed(old, decision)
    PROVE  IsPlace(new) /\ new.id = old.id
  BY DEF Reviewed, IsPlace

LEMMA PlaceIs ==
    ASSUME NEW row, NEW new, new = GovernanceFor(row)
    PROVE  IsPlace(new) /\ new.id = row.id
  BY DEF GovernanceFor, IsPlace

LEMMA EffectKeeps ==
    ASSUME NEW s, TablesOK(s), NEW z, NEW call, CallFits(s, call), Effect(s, z, call)
    PROVE  TablesOK(z) /\ Wider(s, z) /\ NoOtherSnapshot(s, z, call)
<1>1. PICK t, row : t = call.table /\ row = call.row
  OBVIOUS
<1>2. t \in TableNames
  BY <1>1 DEF CallFits, IsCall
<1>3. PICK f, g : f = "feedback" /\ g = "governance"
  OBVIOUS
<1>4. f \in TableNames /\ g \in TableNames /\ f # g
  BY <1>3, TablesAre
<1>a. AreTables(s) /\ Queued(s) /\ AnswersQueued(s)
  BY DEF TablesOK
<1>5. CASE Same(s, z)
  <2>1. \A u \in TableNames : z[u] = s[u]
    BY <1>5 DEF Same
  <2>2. z[f] = s[f] /\ z[g] = s[g]
    BY <1>4, <2>1
  <2>3. Queued(z) /\ AnswersQueued(z)
    BY <1>3, <1>a, <2>2 DEF Queued, AnswersQueued
  <2>4. \A u \in {"feedback", "governance"} :
          DOMAIN s[u] \subseteq DOMAIN z[u] /\ z[u] = [i \in DOMAIN z[u] |-> z[u][i]]
    BY <1>3, <1>4, <1>a, <2>2 DEF AreTables
  <2> QED BY <2>1, <2>3, <2>4, QueueKeeps
<1>6. CASE /\ t \notin {"feedback", "governance"} /\ Needs(s, t, row)
           /\ t \in FixedTables => row.id \notin DOMAIN s[t]
           /\ \E new : NewRow(s, t, row, new) /\ OneRow(s, z, t, row.id, new)
  BY <1>1, <1>2, <1>6, RowKeeps
<1>7. CASE /\ t = "governance" /\ row.id \in DOMAIN s["governance"]
           /\ OneRow(s, z, t, row.id, Reviewed(s["governance"][row.id], row.decision))
  <2>1. PICK id, old, new : id = row.id /\ old = s[g][id] /\ new = Reviewed(old, row.decision)
    OBVIOUS
  <2>2. IsPlace(old) /\ old.id = id /\ id \in DOMAIN s[g]
    BY <1>3, <1>7, <1>a, <2>1 DEF Queued
  <2>3. IsPlace(new) /\ new.id = id
    BY <2>1, <2>2, ReviewedIs
  <2>4. OneRow(s, z, g, id, new)
    BY <1>3, <1>7, <2>1
  <2>5. /\ \A u \in TableNames : u # g => z[u] = s[u]
        /\ DOMAIN z[g] = DOMAIN s[g] \cup {id} /\ z[g][id] = new
        /\ \A i \in DOMAIN s[g] : i # id => z[g][i] = s[g][i]
        /\ z[g] = [i \in DOMAIN z[g] |-> z[g][i]]
    BY <1>4, <2>4, OneRowIs
  <2>6. Queued(z)
    BY <1>3, <1>a, <2>3, <2>5 DEF Queued
  <2>7. z[f] = s[f] /\ DOMAIN z[g] = DOMAIN s[g]
    BY <1>4, <2>2, <2>5
  <2>8. AnswersQueued(z)
    BY <1>3, <1>a, <2>7 DEF AnswersQueued
  <2>9. \A u \in {"feedback", "governance"} :
          DOMAIN s[u] \subseteq DOMAIN z[u] /\ z[u] = [i \in DOMAIN z[u] |-> z[u][i]]
    BY <1>3, <1>4, <1>a, <2>5, <2>7 DEF AreTables
  <2>10. \A u \in TableNames \ {"feedback", "governance"} : z[u] = s[u]
    BY <1>3, <2>5
  <2> QED BY <2>6, <2>8, <2>9, <2>10, QueueKeeps
<1>8. CASE t = "feedback" /\ FeedbackPut(s, z, row)
  <2>1. PICK id, new : id = row.id /\ new = GovernanceFor(row)
    OBVIOUS
  <2>2. IsPlace(new) /\ new.id = id
    BY <2>1, PlaceIs
  <2>3. /\ \A u \in TableNames \ {"feedback", "governance"} : z[u] = s[u]
        /\ (z[f] = s[f] /\ id \in DOMAIN s[f]) \/ z[f] = Taking(s[f], id, row)
        /\ (z[g] = s[g] /\ id \in DOMAIN s[g]) \/ z[g] = Taking(s[g], id, new)
    BY <1>3, <1>8, <2>1 DEF FeedbackPut
  <2>4. DOMAIN z[f] = DOMAIN s[f] \cup {id} /\ z[f] = [i \in DOMAIN z[f] |-> z[f][i]]
    BY <1>4, <1>a, <2>3 DEF Taking, AreTables
  <2>5. DOMAIN z[g] = DOMAIN s[g] \cup {id} /\ z[g] = [i \in DOMAIN z[g] |-> z[g][i]]
    BY <1>4, <1>a, <2>3 DEF Taking, AreTables
  <2>6. \A i \in DOMAIN z[g] : (z[g][i] = s[g][i] /\ i \in DOMAIN s[g]) \/ (z[g][i] = new /\ i = id)
    BY <2>3 DEF Taking
  <2>7. Queued(z)
    BY <1>3, <1>a, <2>2, <2>6 DEF Queued
  <2>8. AnswersQueued(z)
    BY <1>3, <1>a, <2>4, <2>5 DEF AnswersQueued
  <2>9. \A u \in {"feedback", "governance"} :
          DOMAIN s[u] \subseteq DOMAIN z[u] /\ z[u] = [i \in DOMAIN z[u] |-> z[u][i]]
    BY <1>3, <2>4, <2>5
  <2> QED BY <2>3, <2>7, <2>8, <2>9, QueueKeeps
<1> QED BY <1>1, <1>5, <1>6, <1>7, <1>8 DEF Effect

\* Feedback that is put has its place in the queue, when the call returns.
LEMMA EffectQueues ==
    ASSUME NEW s, QueuesAnswers(s), NEW z, NEW call, call.table \in TableNames, Effect(s, z, call)
    PROVE  QueuesAnswers(z)
<1>1. PICK t, row : t = call.table /\ row = call.row
  OBVIOUS
<1>2. PICK f, g : f = "feedback" /\ g = "governance"
  OBVIOUS
<1>3. f \in TableNames /\ g \in TableNames /\ f # g
  BY <1>2, TablesAre
<1>4. CASE Same(s, z)
  BY <1>2, <1>3, <1>4 DEF Same, QueuesAnswers
<1>5. CASE t \notin {"feedback", "governance"} /\ \E new : OneRow(s, z, t, row.id, new)
  BY <1>2, <1>3, <1>5 DEF OneRow, QueuesAnswers
<1>6. CASE t = "governance" /\ \E new : OneRow(s, z, t, row.id, new)
  <2>1. z[f] = s[f] /\ DOMAIN s[g] \subseteq DOMAIN z[g]
    BY <1>2, <1>3, <1>6 DEF OneRow, Taking
  <2> QED BY <1>2, <2>1 DEF QueuesAnswers
<1>7. CASE FeedbackPut(s, z, row)
  <2>1. DOMAIN z[f] \subseteq DOMAIN s[f] \cup {row.id}
    BY <1>2, <1>7 DEF FeedbackPut, Taking
  <2>2. DOMAIN s[g] \cup {row.id} \subseteq DOMAIN z[g]
    BY <1>2, <1>7 DEF FeedbackPut, Taking
  <2> QED BY <1>2, <2>1, <2>2 DEF QueuesAnswers
<1> QED BY <1>1, <1>4, <1>5, <1>6, <1>7 DEF Effect

\* What a call does to the tables of either store.
Step(s, z, answer, call) ==
    /\ TablesOK(z) /\ Wider(s, z) /\ NoOtherSnapshot(s, z, call)
    /\ QueuesAnswers(s) => QueuesAnswers(z)
    /\ Raises(answer) => Same(s, z)
    /\ ~Raises(answer) => Done(z, call)

LEMMA SameKeeps ==
    ASSUME NEW s, TablesOK(s), NEW z, Same(s, z)
    PROVE  TablesOK(z)
<1>1. PICK call : call = [table |-> "packs", row |-> 0]
  OBVIOUS
<1>2. CallFits(s, call)
  <2>1. call.table = "packs" /\ ~To(call, "evidence") /\ ~To(call, "units")
    BY <1>1 DEF To
  <2>2. call.table \in TableNames /\ call.table # "units"
    BY <2>1, TablesAre
  <2> QED BY <2>1, <2>2 DEF CallFits, IsCall
<1>3. Effect(s, z, call)
  BY DEF Effect
<1> QED BY <1>2, <1>3, EffectKeeps

LEMMA SameBack == ASSUME NEW s, NEW z, Same(s, z) PROVE Same(z, s)
  BY DEF Same

LEMMA StepSame ==
    ASSUME NEW s, NEW z, NEW m, NEW y, NEW answer, NEW call, call.table \in TableNames,
           Step(s, z, answer, call), Same(s, m), Same(z, y)
    PROVE  Step(m, y, answer, call)
<1>1. TablesOK(y)
  BY SameKeeps DEF Step
<1>2. Wider(m, y)
  BY TablesAre DEF Step, Wider, Same
<1>3. NoOtherSnapshot(m, y, call)
  <2>1. m["snapshots"] = s["snapshots"] /\ y["snapshots"] = z["snapshots"]
    BY TablesAre DEF Same
  <2> QED BY <2>1 DEF Step, NoOtherSnapshot, TableRows
<1>4. Raises(answer) => Same(m, y)
  BY DEF Step, Same
<1>5. ~Raises(answer) => Done(y, call)
  <2>1. PICK t : t = call.table
    OBVIOUS
  <2>2. y[t] = z[t]
    BY <2>1 DEF Same
  <2> QED BY <2>1, <2>2 DEF Step, Done
<1>6. QueuesAnswers(m) => QueuesAnswers(y)
  <2>1. /\ m["feedback"] = s["feedback"] /\ m["governance"] = s["governance"]
        /\ y["feedback"] = z["feedback"] /\ y["governance"] = z["governance"]
    BY TablesAre DEF Same
  <2> QED BY <2>1 DEF Step, QueuesAnswers
<1> QED BY <1>1, <1>2, <1>3, <1>4, <1>5, <1>6 DEF Step

LEMMA SeekSteps ==
    ASSUME NEW s, IsSeek(s), TablesOK(s), NEW call, CallFits(s, call), NEW r, r = SeekCall(s, call)
    PROVE  IsSeek(r.tables) /\ Step(s, r.tables, r.answer, call)
<1>1. Queued(s) /\ IsCall(call)
  BY DEF TablesOK, CallFits
<1>2. IsSeek(r.tables) /\ Shows(s, r, call)
  BY <1>1, SeekShows
<1>3. PICK z : z = r.tables
  OBVIOUS
<1>4. Effect(s, z, call)
  BY <1>2, <1>3 DEF Shows
<1>5. TablesOK(z) /\ Wider(s, z) /\ NoOtherSnapshot(s, z, call)
  BY <1>4, EffectKeeps
<1>6. QueuesAnswers(s) => QueuesAnswers(z)
  BY <1>1, <1>4, EffectQueues DEF IsCall
<1> QED BY <1>2, <1>3, <1>5, <1>6 DEF Shows, Step

\* A SeekDB with the tables of a memory store.
SeekOf(m) ==
    [t \in TableNames \cup {"vectors", "fulltext", "native"} |-> IF t \in TableNames THEN m[t] ELSE << >>]

LEMMA SeekOfIs == ASSUME NEW m PROVE IsSeek(SeekOf(m)) /\ Same(m, SeekOf(m)) /\ Same(SeekOf(m), m)
  BY DEF IsSeek, Same, SeekOf

LEMMA MemSteps ==
    ASSUME NEW m, IsMemory(m), Embeds(m), TablesOK(m), NEW call, CallFits(m, call), NEW a, a = MemCall(m, call)
    PROVE  IsMemory(a.tables) /\ Embeds(a.tables) /\ Step(m, a.tables, a.answer, call)
<1>1. PICK s, b : s = SeekOf(m) /\ b = SeekCall(s, call)
  OBVIOUS
<1>2. IsSeek(s) /\ Same(m, s) /\ Same(s, m)
  BY <1>1, SeekOfIs
<1>3. TablesOK(s)
  BY <1>2, SameKeeps
<1>4. CallFits(s, call)
  <2>1. s["documents"] = m["documents"] /\ s["evidence"] = m["evidence"]
    BY <1>2, TablesAre DEF Same
  <2> QED BY <2>1 DEF CallFits, HasRow
<1>5. IsSeek(b.tables) /\ Step(s, b.tables, b.answer, call)
  BY <1>1, <1>2, <1>3, <1>4, SeekSteps
<1>6. AreTables(m) /\ Keyed(m) /\ Queued(m) /\ IsCall(call)
  BY DEF TablesOK, CallFits
<1>7. Twins(call, a, b)
  BY <1>1, <1>2, <1>6, CallTwins
<1>8. PICK y, z, answer : y = a.tables /\ z = b.tables /\ answer = b.answer
  OBVIOUS
<1>9. Same(z, y) /\ IsMemory(y) /\ Embeds(y) /\ (Raises(a.answer) <=> Raises(answer))
  BY <1>7, <1>8 DEF Twins
<1>10. Step(s, z, answer, call) /\ call.table \in TableNames
  BY <1>5, <1>6, <1>8 DEF IsCall
<1>11. Step(m, y, answer, call)
  BY <1>2, <1>9, <1>10, StepSame
<1> QED BY <1>8, <1>9, <1>11 DEF Step

LEMMA WiderFurther ==
    ASSUME NEW s, NEW z, NEW y, Wider(s, z), Wider(z, y)
    PROVE  Wider(s, y)
  BY TablesAre DEF Wider

LEMMA DoneStays ==
    ASSUME NEW s, NEW z, Wider(s, z), NEW call, call.table \in TableNames, Done(s, call)
    PROVE  Done(z, call)
<1>1. PICK t, row : t = call.table /\ row = call.row
  OBVIOUS
<1>2. DOMAIN s[t] \subseteq DOMAIN z[t] /\ (t \in FixedTables => \A id \in DOMAIN s[t] : z[t][id] = s[t][id])
  BY <1>1 DEF Wider
<1> QED BY <1>1, <1>2 DEF Done

LEMMA WiderItself == ASSUME NEW s PROVE Wider(s, s)
  BY DEF Wider

LEMMA WiderSame == ASSUME NEW s, NEW z, Same(s, z) PROVE Wider(s, z)
  BY TablesAre DEF Wider, Same

\* With one row of a unit after its evidence, what is done of the calls of a
\* bridge is there, row by row.
LEMMA Landed ==
    ASSUME NEW s, TablesOK(s),
           NEW call, call.table \in FixedTables \cup {"units"}, Done(s, call), CallFits(s, call),
           To(call, "units") => call.row.id \in LegacyUnitIds
    PROVE  HasRow(s, call.table, call.row)
<1>1. PICK t, row : t = call.table /\ row = call.row
  OBVIOUS
<1>2. CASE t \in FixedTables
  BY <1>1, <1>2 DEF Done, HasRow
<1>3. CASE t = "units"
  <2>1. To(call, "units")
    BY <1>1, <1>3 DEF To
  <2>2. PICK c \in DOMAIN Bundles : \E j \in DOMAIN Bundles[c].clusters :
             /\ row = ClusterUnit(Bundles[c], Bundles[c].clusters[j])
             /\ HasRow(s, "evidence", BridgeEvidence(Bundles[c], Bundles[c].clusters[j]))
    BY <1>1, <2>1 DEF CallFits
  <2>3. PICK j \in DOMAIN Bundles[c].clusters :
             /\ row = ClusterUnit(Bundles[c], Bundles[c].clusters[j])
             /\ HasRow(s, "evidence", BridgeEvidence(Bundles[c], Bundles[c].clusters[j]))
    BY <2>2
  <2>4. PICK ev, un : ev = BridgeEvidence(Bundles[c], Bundles[c].clusters[j]) /\
                        un = ClusterUnit(Bundles[c], Bundles[c].clusters[j])
    OBVIOUS
  <2>5. ev.id \in DOMAIN s["units"] =>
          ev.id \in DOMAIN s["evidence"] /\ (s["evidence"][ev.id] = ev => s["units"][ev.id] = un)
    BY <2>4, Zenon DEF LegacyStands, ClusterStands, TablesOK
  <2>6. ev.id = un.id /\ row = un /\ s["evidence"][ev.id] = ev
    BY <2>3, <2>4, ClusterRows DEF HasRow
  <2>7. row.id \in DOMAIN s["units"]
    BY <1>1, <1>3 DEF Done
  <2> QED BY <1>1, <1>3, <2>5, <2>6, <2>7 DEF HasRow
<1> QED BY <1>1, <1>2, <1>3

-----------------------------------------------------------------------------
(* The calls of a transaction: what comes before what.                      *)

IsList(calls) == calls \in Seq(ToSet(calls))

\* After the calls B there is what the call refers to.
Grounded(B, call) ==
    LET row == call.row IN
    /\ IsCall(call)
    /\ To(call, "evidence") =>
         \E d \in B : To(d, "documents") /\ d.row.id = row.document /\ d.row.snapshot = row.snapshot
    /\ To(call, "units") =>
         \/ row.id \notin LegacyUnitIds
         \/ \E b \in DOMAIN Bundles : \E i \in DOMAIN Bundles[b].clusters :
               /\ row = ClusterUnit(Bundles[b], Bundles[b].clusters[i])
               /\ \E e \in B : To(e, "evidence") /\ e.row = BridgeEvidence(Bundles[b], Bundles[b].clusters[i])

Earlier(calls, i) == {calls[j] : j \in 1..(i - 1)}
Ordered(B, calls) == IsList(calls) /\ \A i \in DOMAIN calls : Grounded(B \cup Earlier(calls, i), calls[i])

LEMMA FitsAfter ==
    ASSUME NEW s, NEW B, \A d \in B : Done(s, d), NEW call, Grounded(B, call)
    PROVE  CallFits(s, call)
<1>1. PICK row : row = call.row
  OBVIOUS
<1>2. To(call, "evidence") => /\ row.document \in DOMAIN s["documents"]
                              /\ s["documents"][row.document].snapshot = row.snapshot
  <2> SUFFICES ASSUME To(call, "evidence")
               PROVE  /\ row.document \in DOMAIN s["documents"]
                      /\ s["documents"][row.document].snapshot = row.snapshot
    OBVIOUS
  <2>1. PICK d \in B : To(d, "documents") /\ d.row.id = row.document /\ d.row.snapshot = row.snapshot
    BY <1>1 DEF Grounded
  <2> QED BY <2>1 DEF Done, To, FixedTables
<1>3. ASSUME NEW e \in B, To(e, "evidence") PROVE HasRow(s, "evidence", e.row)
  BY <1>3 DEF Done, To, FixedTables, HasRow
<1> QED BY <1>1, <1>2, <1>3 DEF Grounded, CallFits

LEMMA GroundedMore ==
    ASSUME NEW B, NEW C, B \subseteq C, NEW call, Grounded(B, call)
    PROVE  Grounded(C, call)
  BY DEF Grounded

LEMMA OrderedMore ==
    ASSUME NEW B, NEW C, B \subseteq C, NEW calls, Ordered(B, calls)
    PROVE  Ordered(C, calls)
<1>1. ASSUME NEW i \in DOMAIN calls PROVE Grounded(C \cup Earlier(calls, i), calls[i])
  <2>1. B \cup Earlier(calls, i) \subseteq C \cup Earlier(calls, i) /\
          Grounded(B \cup Earlier(calls, i), calls[i])
    BY DEF Ordered
  <2> QED BY <2>1, GroundedMore
<1> QED BY <1>1 DEF Ordered

LEMMA WiderSeq ==
    ASSUME NEW A, NEW B, A \subseteq B, NEW x \in Seq(A)
    PROVE  x \in Seq(B)
<1>1. PICK n \in Nat : n = Len(x) /\ x \in [1..n -> A]
  OBVIOUS
<1>2. x \in [1..n -> B]
  BY <1>1
<1> QED BY <1>2

LEMMA JoinedList ==
    ASSUME NEW a, IsList(a), NEW b, IsList(b)
    PROVE  IsList(a \o b) /\ ToSet(a \o b) = ToSet(a) \cup ToSet(b)
<1>1. PICK T : T = ToSet(a) \cup ToSet(b)
  OBVIOUS
<1>2. ToSet(a) \subseteq T /\ ToSet(b) \subseteq T
  BY <1>1
<1>3. a \in Seq(T) /\ b \in Seq(T)
  BY <1>2, WiderSeq DEF IsList
<1>4. a \o b \in Seq(T) /\ ToSet(a \o b) = T
  BY <1>1, <1>3, JoinIs
<1> QED BY <1>1, <1>4 DEF IsList

LEMMA OrderedJoin ==
    ASSUME NEW B, NEW a, NEW b, Ordered(B, a), Ordered(B \cup ToSet(a), b)
    PROVE  Ordered(B, a \o b) /\ ToSet(a \o b) = ToSet(a) \cup ToSet(b)
<1>1. PICK c : c = a \o b
  OBVIOUS
<1>2. IsList(c) /\ ToSet(c) = ToSet(a) \cup ToSet(b)
  BY <1>1, JoinedList DEF Ordered
<1>3. PICK m \in Nat, n \in Nat : m = Len(a) /\ n = Len(b) /\ DOMAIN a = 1..m /\ DOMAIN b = 1..n
  BY DEF Ordered, IsList
<1>4. /\ DOMAIN c = 1..(m + n)
      /\ \A i \in 1..(m + n) : c[i] = IF i <= m THEN a[i] ELSE b[i - m]
  BY <1>1, <1>3
<1>5. ASSUME NEW i \in 1..(m + n) PROVE Grounded(B \cup Earlier(c, i), c[i])
  <2>1. CASE i <= m
    <3>1. i \in DOMAIN a /\ c[i] = a[i]
      BY <1>3, <1>4, <2>1
    <3>2. \A j \in 1..(i - 1) : c[j] = a[j]
      BY <1>4, <2>1
    <3>3. Earlier(a, i) = Earlier(c, i)
      BY <3>2 DEF Earlier
    <3>4. Grounded(B \cup Earlier(a, i), a[i])
      BY <3>1 DEF Ordered
    <3> QED BY <3>1, <3>3, <3>4
  <2>2. CASE ~(i <= m)
    <3>1. PICK k \in 1..n : k = i - m
      BY <2>2
    <3>2. c[i] = b[k] /\ k \in DOMAIN b
      BY <1>3, <1>4, <2>2, <3>1
    <3>3. Grounded((B \cup ToSet(a)) \cup Earlier(b, k), b[k])
      BY <3>2 DEF Ordered
    <3>4. ToSet(a) \subseteq Earlier(c, i)
      <4>1. \A j \in 1..m : j \in 1..(i - 1) /\ c[j] = a[j]
        BY <1>4, <2>2
      <4> QED BY <1>3, <4>1 DEF Earlier, ToSet
    <3>5. Earlier(b, k) \subseteq Earlier(c, i)
      <4>1. \A j \in 1..(k - 1) : j + m \in 1..(i - 1) /\ c[j + m] = b[j]
        <5> TAKE j \in 1..(k - 1)
        <5>1. j + m \in 1..(i - 1) /\ j + m \in 1..(m + n) /\ ~(j + m <= m) /\ (j + m) - m = j
          BY <3>1
        <5> QED BY <1>4, <5>1
      <4> QED BY <4>1 DEF Earlier
    <3>6. (B \cup ToSet(a)) \cup Earlier(b, k) \subseteq B \cup Earlier(c, i)
      BY <3>4, <3>5
    <3> QED BY <3>2, <3>3, <3>6, GroundedMore
  <2> QED BY <2>1, <2>2
<1> QED BY <1>1, <1>2, <1>4, <1>5 DEF Ordered

\* Parts that each follow, one after the other.
LEMMA OrderedFlat ==
    ASSUME NEW B, NEW ss, IsList(ss), \A i \in DOMAIN ss : Ordered(B, ss[i])
    PROVE  Ordered(B, FlattenSeq(ss)) /\ ToSet(FlattenSeq(ss)) = UNION {ToSet(ss[i]) : i \in DOMAIN ss}
<1>1. PICK n \in Nat : n = Len(ss) /\ DOMAIN ss = 1..n
  BY DEF IsList
<1>2. CASE n = 0
  <2>1. FlattenSeq(ss) = << >> /\ DOMAIN ss = {}
    BY <1>1, <1>2 DEF FlattenSeq, IsList
  <2> QED BY <2>1 DEF ToSet, Ordered, IsList
<1>3. CASE n # 0
  <2>1. PICK f : f = CHOOSE g : Flattening(g, ss, n)
    OBVIOUS
  <2>2. Flattening(f, ss, n)
    BY <2>1, FlatteningExists
  <2>3. FlattenSeq(ss) = f[n]
    BY <1>1, <1>3, <2>1 DEF FlattenSeq, Flattening
  <2> DEFINE Good == {k \in 0..n : k # 0 => /\ Ordered(B, f[k])
                                            /\ ToSet(f[k]) = UNION {ToSet(ss[i]) : i \in 1..k}}
  <2>4. 0 \in Good
    OBVIOUS
  <2>5. ASSUME NEW k \in 0..(n - 1), k \in Good PROVE k + 1 \in Good
    <3>1. k + 1 \in 1..n /\ Ordered(B, ss[k + 1])
      BY <1>1
    <3>2. CASE k = 0
      <4>1. f[k + 1] = ss[k + 1] /\ 1..(k + 1) = {1}
        BY <2>2, <3>1, <3>2 DEF Flattening
      <4> QED BY <3>1, <3>2, <4>1
    <3>3. CASE k # 0
      <4>1. f[k + 1] = f[k] \o ss[k + 1] /\ Ordered(B, f[k])
        <5>1. k + 1 # 1 /\ (k + 1) - 1 = k
          BY <3>3
        <5> QED BY <2>2, <2>5, <3>1, <3>3, <5>1 DEF Flattening
      <4>2. Ordered(B \cup ToSet(f[k]), ss[k + 1])
        BY <3>1, OrderedMore
      <4>3. Ordered(B, f[k + 1]) /\ ToSet(f[k + 1]) = ToSet(f[k]) \cup ToSet(ss[k + 1])
        <5>1. PICK x, y : x = f[k] /\ y = ss[k + 1]
          OBVIOUS
        <5>2. Ordered(B, x) /\ Ordered(B \cup ToSet(x), y)
          BY <4>1, <4>2, <5>1
        <5>3. Ordered(B, x \o y) /\ ToSet(x \o y) = ToSet(x) \cup ToSet(y)
          BY <5>2, OrderedJoin
        <5> QED BY <4>1, <5>1, <5>3
      <4>4. 1..(k + 1) = (1..k) \cup {k + 1}
        OBVIOUS
      <4>5. ToSet(f[k + 1]) = UNION {ToSet(ss[i]) : i \in 1..(k + 1)}
        <5>1. ToSet(f[k]) = UNION {ToSet(ss[i]) : i \in 1..k}
          BY <2>5, <3>3
        <5> QED BY <4>3, <4>4, <5>1
      <4> QED BY <4>3, <4>5
    <3> QED BY <3>2, <3>3
  <2>6. n \in Good
    <3>1. 0..n \subseteq Good
      <4> HIDE DEF Good
      <4> QED BY <2>4, <2>5, CountingUp
    <3> HIDE DEF Good
    <3> QED BY <3>1
  <2> QED BY <1>1, <1>3, <2>3, <2>6
<1> QED BY <1>2, <1>3

\* What an import puts after its source and its snapshot.
Lasting == {"documents", "evidence", "units", "versions"}
Brings(call) == call.table \in Lasting /\ (To(call, "units") => call.row.id \in LegacyUnitIds)
AllBring(calls) == \A call \in ToSet(calls) : Brings(call)

LEMMA CallToIs ==
    ASSUME NEW t, NEW row, NEW call, call = CallTo(t, row)
    PROVE  call.table = t /\ call.row = row /\ \A u : To(call, u) <=> t = u
  BY DEF CallTo, To

LEMMA OneOrdered ==
    ASSUME NEW B, NEW call, Grounded(B, call)
    PROVE  Ordered(B, <<call>>) /\ ToSet(<<call>>) = {call}
<1>1. PICK x : x = <<call>>
  OBVIOUS
<1>2. DOMAIN x = {1} /\ x[1] = call
  BY <1>1
<1>3. ToSet(x) = {call}
  BY <1>2 DEF ToSet
<1>4. IsList(x)
  BY <1>1, <1>3 DEF IsList
<1>5. B \subseteq B \cup Earlier(x, 1)
  OBVIOUS
<1>6. Grounded(B \cup Earlier(x, 1), call)
  BY <1>5, GroundedMore
<1> QED BY <1>1, <1>2, <1>3, <1>4, <1>6 DEF Ordered

LEMMA PairOrdered ==
    ASSUME NEW B, NEW d, Grounded(B, d), NEW e, Grounded(B \cup {d}, e)
    PROVE  Ordered(B, <<d, e>>) /\ ToSet(<<d, e>>) = {d, e}
<1>1. PICK x : x = <<d, e>>
  OBVIOUS
<1>2. DOMAIN x = {1, 2} /\ x[1] = d /\ x[2] = e
  BY <1>1
<1>3. ToSet(x) = {d, e}
  BY <1>2 DEF ToSet
<1>4. IsList(x)
  BY <1>1, <1>3 DEF IsList
<1>5. Earlier(x, 1) = {} /\ Earlier(x, 2) = {d}
  BY <1>2 DEF Earlier
<1>6. B \cup Earlier(x, 1) = B /\ B \cup Earlier(x, 2) = B \cup {d}
  BY <1>5
<1> QED BY <1>1, <1>2, <1>3, <1>4, <1>6 DEF Ordered

\* Calls with nothing to refer to.
LEMMA FreeCall ==
    ASSUME NEW B, NEW t, t \in TableNames \ {"evidence", "units"}, NEW row, NEW call, call = CallTo(t, row)
    PROVE  Grounded(B, call)
<1>1. call.table = t /\ ~To(call, "evidence") /\ ~To(call, "units")
  BY CallToIs
<1> QED BY <1>1 DEF Grounded, IsCall

LEMMA EvidenceCall ==
    ASSUME NEW B, NEW row, NEW call, call = CallTo("evidence", row), NEW doc, CallTo("documents", doc) \in B,
           doc.id = row.document, doc.snapshot = row.snapshot
    PROVE  Grounded(B, call)
<1>1. call.table = "evidence" /\ call.row = row /\ ~To(call, "units")
  BY CallToIs
<1>2. PICK d \in B : d = CallTo("documents", doc)
  OBVIOUS
<1>3. To(d, "documents") /\ d.row.id = row.document /\ d.row.snapshot = row.snapshot
  BY <1>2, CallToIs
<1>4. IsCall(call)
  BY <1>1, TablesAre DEF IsCall
<1> QED BY <1>1, <1>3, <1>4 DEF Grounded

LEMMA PatternOrdered ==
    ASSUME NEW B, NEW b, NEW cluster, NEW i, NEW x, x = PatternCalls(b, cluster, i)
    PROVE  Ordered(B, x) /\ AllBring(x)
<1>1. CASE ~Cites(b, cluster, i)
  <2>1. x = << >>
    BY <1>1 DEF PatternCalls
  <2> QED BY <2>1 DEF Ordered, IsList, AllBring, ToSet
<1>2. CASE Cites(b, cluster, i)
  <2>1. PICK doc, ev : /\ doc = PatternDocument(b, cluster.patterns[i], Cited(b, cluster, i))
                       /\ ev = PatternEvidence(b, Cited(b, cluster, i))
    OBVIOUS
  <2>2. PICK d, e : d = CallTo("documents", doc) /\ e = CallTo("evidence", ev)
    OBVIOUS
  <2>3. doc.id = ev.document /\ doc.snapshot = ev.snapshot
    BY <2>1 DEF PatternDocument, PatternEvidence
  <2>4. Grounded(B, d)
    BY <2>2, FreeCall, TablesAre
  <2>5. Grounded(B \cup {d}, e)
    <3>1. PICK C : C = B \cup {d}
      OBVIOUS
    <3>2. CallTo("documents", doc) \in C
      BY <2>2, <3>1
    <3>3. Grounded(C, e)
      BY <2>2, <2>3, <3>2, EvidenceCall
    <3> QED BY <3>1, <3>3
  <2>9. Ordered(B, <<d, e>>) /\ ToSet(<<d, e>>) = {d, e}
    BY <2>4, <2>5, PairOrdered
  <2>10. x = <<d, e>>
    BY <1>2, <2>1, <2>2 DEF PatternCalls
  <2>11. Brings(d) /\ Brings(e)
    BY <2>2, CallToIs DEF Brings, Lasting
  <2> QED BY <2>9, <2>10, <2>11 DEF AllBring
<1> QED BY <1>1, <1>2

LEMMA ClusterOrdered ==
    ASSUME NEW n \in DOMAIN Bundles, NEW b, b = Bundles[n], NEW i \in DOMAIN b.clusters,
           NEW c, c = b.clusters[i],
           NEW B, CallTo("documents", BridgeDocument(b)) \in B, NEW x, x = ClusterCalls(b, c)
    PROVE  Ordered(B, x) /\ AllBring(x)
<1>0. IsBundle(b)
  BY StoresAssumption
<1>1. PICK ev, un, e, u : /\ ev = BridgeEvidence(b, c) /\ un = ClusterUnit(b, c)
                          /\ e = CallTo("evidence", ev) /\ u = CallTo("units", un)
  OBVIOUS
<1>2. PICK ss, F : ss = [k \in DOMAIN c.patterns |-> PatternCalls(b, c, k)] /\ F = FlattenSeq(ss)
  OBVIOUS
<1>3. x = <<e>> \o F \o <<u>>
  BY <1>1, <1>2, Zenon DEF ClusterCalls
<1>4. Grounded(B, e)
  <2>1. PICK doc : doc = BridgeDocument(b)
    OBVIOUS
  <2>2. doc.id = ev.document /\ doc.snapshot = ev.snapshot /\ CallTo("documents", doc) \in B
    BY <1>1, <2>1 DEF BridgeDocument, BridgeEvidence
  <2> QED BY <1>1, <2>2, EvidenceCall
<1>5. Ordered(B, <<e>>) /\ ToSet(<<e>>) = {e}
  BY <1>4, OneOrdered
<1>6. IsList(ss) /\ DOMAIN ss = DOMAIN c.patterns
  <2>1. PICK m \in Nat : DOMAIN c.patterns = 1..m
    <3>1. c.patterns \in Seq(ToSet(c.patterns))
      BY <1>0 DEF IsBundle
    <3> QED BY <3>1
  <2>2. DOMAIN ss = 1..m /\ \A k \in 1..m : ss[k] \in ToSet(ss)
    BY <1>2, <2>1 DEF ToSet
  <2>3. ss = [k \in 1..m |-> ss[k]]
    BY <1>2, <2>1
  <2>4. ss \in [1..m -> ToSet(ss)]
    BY <2>2, <2>3
  <2> QED BY <2>1, <2>2, <2>4 DEF IsList
<1>7. ASSUME NEW C PROVE Ordered(C, F) /\ AllBring(F)
  <2>1. \A k \in DOMAIN ss : Ordered(C, ss[k]) /\ AllBring(ss[k])
    BY <1>2, PatternOrdered
  <2>2. Ordered(C, F) /\ ToSet(F) = UNION {ToSet(ss[k]) : k \in DOMAIN ss}
    BY <1>2, <1>6, <2>1, OrderedFlat
  <2> QED BY <2>1, <2>2 DEF AllBring
<1>8. un.id \in LegacyUnitIds /\ IsUnit(un)
  <2>1. un.id = <<c.safe, b.hash>> /\ c.safe \in Int /\ b.hash \in Int
    BY <1>0, <1>1, ClusterRows DEF IsBundle
  <2>2. <<b.clusters[i].safe, b.hash>> \in {<<b.clusters[k].safe, b.hash>> : k \in DOMAIN b.clusters}
    OBVIOUS
  <2>3. un.id \in LegacyUnitIds
    BY <2>1, <2>2 DEF LegacyUnitIds
  <2>4. un.id \in Int \X Int
    BY <2>1
  <2> QED BY <1>1, <2>3, <2>4 DEF ClusterUnit, LegacyUnit, IsUnit
<1>9. ASSUME NEW C, e \in C PROVE Grounded(C, u)
  <2>1. u.table = "units" /\ u.row = un /\ ~To(u, "evidence")
    BY <1>1, CallToIs
  <2>2. To(e, "evidence") /\ e.row = ev
    BY <1>1, CallToIs
  <2>3. IsCall(u)
    BY <1>8, <2>1, TablesAre DEF IsCall
  <2> QED BY <1>1, <1>9, <2>1, <2>2, <2>3 DEF Grounded
<1>10. PICK y, z : y = <<e>> \o F /\ z = <<u>>
  OBVIOUS
<1>11. Ordered(B, y) /\ ToSet(y) = {e} \cup ToSet(F)
  <2>1. PICK o : o = <<e>>
    OBVIOUS
  <2>2. Ordered(B, o) /\ ToSet(o) = {e} /\ Ordered(B \cup ToSet(o), F)
    BY <1>5, <1>7, <2>1
  <2>3. Ordered(B, o \o F) /\ ToSet(o \o F) = ToSet(o) \cup ToSet(F)
    BY <2>2, OrderedJoin
  <2> QED BY <1>10, <2>1, <2>2, <2>3
<1>12. Ordered(B, y \o z) /\ ToSet(y \o z) = {e} \cup ToSet(F) \cup {u}
  <2>1. PICK C : C = B \cup ToSet(y)
    OBVIOUS
  <2>2. Grounded(C, u)
    <3>1. e \in C
      BY <1>11, <2>1
    <3> QED BY <1>9, <3>1
  <2>3. Ordered(C, z) /\ ToSet(z) = {u}
    BY <1>10, <2>2, OneOrdered
  <2>4. Ordered(B, y \o z) /\ ToSet(y \o z) = ToSet(y) \cup ToSet(z)
    BY <1>11, <2>1, <2>3, OrderedJoin
  <2> QED BY <1>11, <2>3, <2>4
<1>13. x = y \o z
  BY <1>3, <1>10
<1>14. Brings(e) /\ Brings(u)
  BY <1>1, <1>8, CallToIs DEF Brings, Lasting
<1> QED BY <1>7, <1>12, <1>13, <1>14 DEF AllBring

\* The calls of an import: what it puts of its release, and then all the rest,
\* with what each refers to before it.
PlanOK(b, calls) ==
    /\ Ordered({}, calls) /\ Len(calls) >= 3
    /\ calls[1] = CallTo("sources", LegacySource(b)) /\ calls[2] = CallTo("snapshots", LegacySnapshot(b))
    /\ \A i \in 3..Len(calls) : Brings(calls[i])

LEMMA PlanIs ==
    ASSUME NEW n \in DOMAIN Bundles, NEW b, b = Bundles[n], NEW x, x = ImportCalls(b)
    PROVE  PlanOK(b, x)
<1>0. IsBundle(b)
  BY StoresAssumption
<1>1. PICK c1, c2, c3, v : /\ c1 = CallTo("sources", LegacySource(b)) /\
                                c2 = CallTo("snapshots", LegacySnapshot(b))
                           /\ c3 = CallTo("documents", BridgeDocument(b)) /\
                                v = CallTo("versions", LegacyVersion(b))
  OBVIOUS
<1>2. PICK ss, F : /\ ss = [i \in DOMAIN b.clusters |->
                              IF b.clusters[i].named THEN ClusterCalls(b, b.clusters[i]) ELSE << >>]
                   /\ F = FlattenSeq(ss)
  OBVIOUS
<1>3. x = <<c1, c2, c3>> \o F \o <<v>>
  BY <1>1, <1>2, Zenon DEF ImportCalls
<1>4. \A C : Grounded(C, c1) /\ Grounded(C, c2) /\ Grounded(C, c3) /\ Grounded(C, v)
  BY <1>1, FreeCall, TablesAre
<1>5. PICK h, g, z : h = <<c1, c2>> /\ g = <<c3>> /\ z = <<v>>
  OBVIOUS
<1>6. Ordered({}, h) /\ ToSet(h) = {c1, c2}
  BY <1>4, <1>5, PairOrdered
<1>7. \A C : Ordered(C, g) /\ ToSet(g) = {c3}
  BY <1>4, <1>5, OneOrdered
<1>8. \A C : Ordered(C, z) /\ ToSet(z) = {v}
  BY <1>4, <1>5, OneOrdered
<1>9. Ordered({}, h \o g) /\ ToSet(h \o g) = {c1, c2, c3}
  <2>1. Ordered({} \cup ToSet(h), g)
    BY <1>7
  <2>2. Ordered({}, h \o g) /\ ToSet(h \o g) = ToSet(h) \cup ToSet(g)
    BY <1>6, <2>1, OrderedJoin
  <2> QED BY <1>6, <1>7, <2>2
<1>10. IsList(ss) /\ DOMAIN ss = DOMAIN b.clusters
  <2>1. PICK m \in Nat : DOMAIN b.clusters = 1..m
    <3>1. b.clusters \in Seq(ToSet(b.clusters))
      BY <1>0 DEF IsBundle
    <3> QED BY <3>1
  <2>2. DOMAIN ss = 1..m /\ \A k \in 1..m : ss[k] \in ToSet(ss)
    BY <1>2, <2>1 DEF ToSet
  <2>3. ss = [k \in 1..m |-> ss[k]]
    BY <1>2, <2>1
  <2>4. ss \in [1..m -> ToSet(ss)]
    BY <2>2, <2>3
  <2> QED BY <2>1, <2>2, <2>4 DEF IsList
<1>11. ASSUME NEW C, c3 \in C PROVE Ordered(C, F) /\ AllBring(F)
  <2>1. \A k \in DOMAIN ss : Ordered(C, ss[k]) /\ AllBring(ss[k])
    <3> TAKE k \in DOMAIN ss
    <3>1. CASE b.clusters[k].named
      <4>1. PICK c : c = b.clusters[k]
        OBVIOUS
      <4>2. PICK p : p = ClusterCalls(b, c)
        OBVIOUS
      <4>3. CallTo("documents", BridgeDocument(b)) \in C /\ k \in DOMAIN b.clusters
        BY <1>1, <1>10, <1>11
      <4>4. Ordered(C, p) /\ AllBring(p)
        BY <4>1, <4>2, <4>3, ClusterOrdered
      <4>5. ss[k] = p
        BY <1>2, <1>10, <3>1, <4>1, <4>2
      <4> QED BY <4>4, <4>5
    <3>2. CASE ~b.clusters[k].named
      <4>1. ss[k] = << >>
        BY <1>2, <1>10, <3>2
      <4> QED BY <4>1 DEF Ordered, IsList, AllBring, ToSet
    <3> QED BY <3>1, <3>2
  <2>2. PICK G : G = FlattenSeq(ss)
    OBVIOUS
  <2>3. Ordered(C, G) /\ ToSet(G) = UNION {ToSet(ss[k]) : k \in DOMAIN ss}
    BY <1>10, <2>1, <2>2, OrderedFlat
  <2>4. F = G
    BY <1>2, <2>2
  <2> QED BY <2>1, <2>3, <2>4 DEF AllBring
<1>12. PICK y : y = h \o g
  OBVIOUS
<1>13. Ordered({}, y \o F) /\ ToSet(y \o F) = {c1, c2, c3} \cup ToSet(F)
  <2>1. PICK C : C = {} \cup ToSet(y)
    OBVIOUS
  <2>2. c3 \in C
    BY <1>9, <1>12, <2>1
  <2>3. Ordered(C, F)
    BY <1>11, <2>2
  <2>4. Ordered({}, y) /\ Ordered({} \cup ToSet(y), F)
    BY <1>9, <1>12, <2>1, <2>3
  <2>5. Ordered({}, y \o F) /\ ToSet(y \o F) = ToSet(y) \cup ToSet(F)
    BY <2>4, OrderedJoin
  <2> QED BY <1>9, <1>12, <2>5
<1>14. PICK w : w = y \o F
  OBVIOUS
<1>15. Ordered({}, w \o z)
  BY <1>8, <1>13, <1>14, OrderedJoin
<1>16. x = w \o z
  <2>1. <<c1, c2, c3>> = y
    BY <1>5, <1>12
  <2> QED BY <1>3, <1>5, <1>14, <2>1
<1>17. AllBring(F) /\ Brings(c3) /\ Brings(v)
  <2>1. AllBring(F)
    <3>1. PICK C : C = {c3}
      OBVIOUS
    <3>2. c3 \in C
      BY <3>1
    <3> QED BY <1>11, <3>2
  <2> QED BY <1>1, <2>1, CallToIs DEF Brings, Lasting
<1>18. PICK m \in Nat : m = Len(F) /\ DOMAIN F = 1..m
  <2>1. PICK C : C = {c3}
    OBVIOUS
  <2>2. c3 \in C
    BY <2>1
  <2>3. IsList(F)
    BY <1>11, <2>2 DEF Ordered
  <2> QED BY <2>3 DEF IsList
<1>19. F \in Seq(ToSet(F))
  <2>1. PICK C : C = {c3}
    OBVIOUS
  <2>2. c3 \in C
    BY <2>1
  <2> QED BY <1>11, <2>2 DEF Ordered, IsList
<1>20. /\ Len(x) = m + 4 /\ x[1] = c1 /\ x[2] = c2 /\ x[3] = c3
       /\ \A i \in 4..(m + 3) : x[i] = F[i - 3]
       /\ x[m + 4] = v
  BY <1>3, <1>18, <1>19
<1>21. \A i \in 3..Len(x) : Brings(x[i])
  <2> TAKE i \in 3..Len(x)
  <2>1. i = 3 \/ i \in 4..(m + 3) \/ i = m + 4
    BY <1>20
  <2>2. CASE i \in 4..(m + 3)
    <3>1. i - 3 \in 1..m /\ x[i] = F[i - 3]
      BY <1>20, <2>2
    <3>2. F[i - 3] \in ToSet(F)
      BY <1>18, <3>1 DEF ToSet
    <3> QED BY <1>17, <3>1, <3>2 DEF AllBring
  <2> QED BY <1>17, <1>20, <2>1, <2>2
<1>22. Ordered({}, x) /\ Len(x) >= 3
  BY <1>15, <1>16, <1>18, <1>20
<1>23. x[1] = CallTo("sources", LegacySource(b)) /\ x[2] = CallTo("snapshots", LegacySnapshot(b))
  BY <1>1, <1>20
<1> QED BY <1>21, <1>22, <1>23 DEF PlanOK

\* Bridges of one release have the same calls.
LEMMA SamePlan ==
    ASSUME NEW n \in DOMAIN Bundles, NEW k \in DOMAIN Bundles, NEW b, b = Bundles[n], NEW c, c = Bundles[k],
           LegacySnapshot(b) = LegacySnapshot(c)
    PROVE  ImportCalls(b) = ImportCalls(c)
<1>1. b.hash = c.hash /\ b.origin = c.origin
  BY DEF LegacySnapshot
<1>2. b.clusters = c.clusters /\ b.files = c.files
  <2>1. Releases(b, c)
    BY StoresAssumption
  <2> QED BY <1>1, <2>1 DEF Releases
<1>3. /\ LegacySource(b) = LegacySource(c) /\ BridgeDocument(b) = BridgeDocument(c)
      /\ LegacyVersion(b) = LegacyVersion(c)
  BY <1>1 DEF LegacySource, BridgeDocument, LegacyVersion
<1>4. \A cl : ClusterCalls(b, cl) = ClusterCalls(c, cl)
  <2> TAKE cl
  <2>1. BridgeEvidence(b, cl) = BridgeEvidence(c, cl)
    BY <1>1 DEF BridgeEvidence
  <2>2. \A i : Cites(b, cl, i) = Cites(c, cl, i) /\ Cited(b, cl, i) = Cited(c, cl, i)
    BY <1>2 DEF Cites, Cited
  <2>3. \A f : PatternEvidence(b, f) = PatternEvidence(c, f)
    BY <1>1 DEF PatternEvidence
  <2>4. \A f, name : PatternDocument(b, name, f) = PatternDocument(c, name, f)
    BY <1>1 DEF PatternDocument
  <2>5. \A i : PatternCalls(b, cl, i) = PatternCalls(c, cl, i)
    BY <2>2, <2>3, <2>4, Zenon DEF PatternCalls
  <2>6. CitedEvidence(b, cl) = CitedEvidence(c, cl)
    BY <2>1, <2>2, <2>3 DEF CitedEvidence
  <2>7. ClusterUnit(b, cl) = ClusterUnit(c, cl)
    BY <1>1, <2>6 DEF ClusterUnit, LegacyUnit
  <2>8. [i \in DOMAIN cl.patterns |-> PatternCalls(b, cl, i)]
          = [i \in DOMAIN cl.patterns |-> PatternCalls(c, cl, i)]
    BY <2>5, Zenon
  <2> QED BY <2>1, <2>7, <2>8, Zenon DEF ClusterCalls
<1>5. [i \in DOMAIN b.clusters |-> IF b.clusters[i].named THEN ClusterCalls(b, b.clusters[i]) ELSE << >>]
      = [i \in DOMAIN c.clusters |-> IF c.clusters[i].named THEN ClusterCalls(c, c.clusters[i]) ELSE << >>]
  BY <1>2, <1>4
<1> QED BY <1>3, <1>5, Zenon DEF ImportCalls

-----------------------------------------------------------------------------
(* One call after another.                                                  *)

\* g is the run of the calls at each set of places of D, from the first on.
Folds(g, store, s, calls, D) ==
    g = [S \in SUBSET D |-> IF S = {} THEN RunsFrom(s) ELSE RunOn(store, g[S \ {Max(S)}], calls[Max(S)])]

\* There is such a fold: the recursion ends.
LEMMA FoldsExist ==
    ASSUME NEW n \in Nat, NEW store, NEW s, NEW calls
    PROVE  \E g : Folds(g, store, s, calls, 1..n)
<1>0. PICK D, base : D = 1..n /\ base = RunsFrom(s)
  OBVIOUS
<1> DEFINE Upto(m) == {S \in SUBSET D : Cardinality(S) <= m}
           Part(g, m) == g = [S \in Upto(m) |-> IF S = {} THEN base
                                              ELSE RunOn(store, g[S \ {Max(S)}], calls[Max(S)])]
           Bad == {m \in Nat : ~\E g : Part(g, m)}
<1>a. IsFiniteSet(D) /\ \A S \in SUBSET D : S # {} => Max(S) \in S
  <2>1. IsFiniteSet(D)
    BY <1>0, FS_Interval
  <2>2. ASSUME NEW S \in SUBSET D, S # {} PROVE Max(S) \in S
    <3>1. S \in SUBSET Nat /\ \A i \in S : i <= n
      BY <1>0
    <3> QED BY <2>2, <3>1, MaxIsIn
  <2> QED BY <2>1, <2>2
<1>1. \A S \in SUBSET D : Cardinality(S) \in Nat /\ Cardinality(S) <= Cardinality(D)
  BY <1>a, FS_Subset, FS_CardinalityType
<1>2. Bad = {}
  <2> SUFFICES ASSUME Bad # {} PROVE FALSE
    OBVIOUS
  <2>1. PICK m \in Bad : \A l \in Bad : ~(l < m)
    <3>1. Bad \in SUBSET Nat
      OBVIOUS
    <3> HIDE DEF Bad
    <3> QED BY <3>1, LeastNat
  <2>2. m # 0
    <3>1. \A S \in Upto(0) : S = {}
      BY <1>a, <1>1, FS_Subset, FS_EmptySet
    <3>2. Part([S \in Upto(0) |-> base], 0)
      BY <3>1
    <3> QED BY <3>2
  <2>3. PICK g : Part(g, m - 1)
    <3>1. m - 1 \in Nat /\ m - 1 < m
      BY <2>2
    <3>2. m - 1 \notin Bad
      BY <2>1, <3>1
    <3> QED BY <3>1, <3>2
  <2> DEFINE h == [S \in Upto(m) |-> IF S = {} THEN base ELSE RunOn(store, g[S \ {Max(S)}], calls[Max(S)])]
  <2>4. ASSUME NEW S \in Upto(m), S # {} PROVE h[S \ {Max(S)}] = g[S \ {Max(S)}]
    <3>1. Cardinality(S \ {Max(S)}) = Cardinality(S) - 1 /\ S \ {Max(S)} \in SUBSET D
      BY <1>a, <2>4, FS_Subset, FS_RemoveElement
    <3>2. S \ {Max(S)} \in Upto(m - 1) /\ S \ {Max(S)} \in Upto(m)
      BY <1>1, <3>1
    <3> QED BY <2>3, <3>2
  <2>5. Part(h, m)
    BY <2>4
  <2> QED BY <2>1, <2>5
<1>3. PICK g : Part(g, Cardinality(D))
  BY <1>2, <1>a, FS_CardinalityType
<1>4. Upto(Cardinality(D)) = SUBSET D
  BY <1>1
<1> HIDE DEF Upto
<1>5. Folds(g, store, s, calls, D)
  BY <1>0, <1>3, <1>4 DEF Folds
<1> QED BY <1>0, <1>5

\* The fold call by call.
LEMMA FoldsNext ==
    ASSUME NEW n \in Nat, NEW store, NEW s, NEW calls, NEW g, Folds(g, store, s, calls, 1..n)
    PROVE  /\ g[1..0] = RunsFrom(s)
           /\ \A k \in 0..(n - 1) : g[1..(k + 1)] = RunOn(store, g[1..k], calls[k + 1])
<1>1. 1..0 = {} /\ g[{}] = RunsFrom(s)
  BY DEF Folds
<1>2. ASSUME NEW k \in 0..(n - 1) PROVE g[1..(k + 1)] = RunOn(store, g[1..k], calls[k + 1])
  <2>1. k \in 0..n /\ k + 1 \in 0..n /\ k + 1 \in 1..n
    OBVIOUS
  <2>2. PICK part, S : part = 1..k /\ S = 1..(k + 1)
    OBVIOUS
  <2>3. Max(S) = k + 1
    <3>1. S \in SUBSET Nat /\ k + 1 \in S /\ \A i \in S : i <= k + 1
      BY <2>1, <2>2
    <3>2. Max(S) \in S /\ \A i \in S : i <= Max(S)
      BY <2>1, <3>1, MaxIsIn
    <3>3. Max(S) <= k + 1 /\ k + 1 <= Max(S) /\ Max(S) \in Nat
      BY <3>1, <3>2
    <3> QED BY <2>1, <3>3
  <2>4. S \ {k + 1} = part /\ S # {} /\ S \in SUBSET (1..n)
    <3>1. \A i : i \in S \ {k + 1} <=> i \in part
      BY <2>1, <2>2
    <3>2. \A i \in S : i \in 1..n
      BY <2>1, <2>2
    <3>3. k + 1 \in S
      BY <2>1, <2>2
    <3> QED BY <3>1, <3>2, <3>3
  <2>5. g[S] = RunOn(store, g[part], calls[k + 1])
    BY <2>3, <2>4 DEF Folds
  <2> QED BY <2>2, <2>5
<1> QED BY <1>1, <1>2

LEMMA RunAllIs ==
    ASSUME NEW n \in Nat, NEW store, NEW s, NEW calls, DOMAIN calls = 1..n
    PROVE  \E g : Folds(g, store, s, calls, 1..n) /\ RunAll(store, s, calls) = g[1..n]
<1>1. PICK g : g = CHOOSE h : Folds(h, store, s, calls, 1..n)
  OBVIOUS
<1>2. Folds(g, store, s, calls, 1..n)
  BY <1>1, FoldsExist
<1>3. RunAll(store, s, calls) = g[1..n]
  BY <1>1 DEF RunAll, FoldLeft, MapThenFoldSet, Folds
<1> QED BY <1>2, <1>3

\* The run of the first n calls.
RunTo(store, s, calls, n) == RunAll(store, s, SubSeq(calls, 1, n))

LEMMA SubSeqIs ==
    ASSUME NEW calls, IsList(calls), NEW n \in 0..Len(calls)
    PROVE  DOMAIN SubSeq(calls, 1, n) = 1..n /\ \A i \in 1..n : SubSeq(calls, 1, n)[i] = calls[i]
<1>1. PICK T : T = ToSet(calls)
  OBVIOUS
<1>2. calls \in Seq(T)
  BY <1>1 DEF IsList
<1> QED BY <1>2

LEMMA RunToNext ==
    ASSUME NEW store, NEW s, NEW calls, IsList(calls)
    PROVE  /\ RunTo(store, s, calls, 0) = RunsFrom(s)
           /\ \A n \in 0..(Len(calls) - 1) :
                RunTo(store, s, calls, n + 1) = RunOn(store, RunTo(store, s, calls, n), calls[n + 1])
           /\ RunTo(store, s, calls, Len(calls)) = RunAll(store, s, calls)
<1>1. PICK m \in Nat : m = Len(calls) /\ DOMAIN calls = 1..m
  BY DEF IsList
<1>2. ASSUME NEW n \in 0..m
      PROVE  \E g : /\ g[1..0] = RunsFrom(s) /\ RunTo(store, s, calls, n) = g[1..n]
                    /\ \A k \in 0..(n - 1) : g[1..(k + 1)] = RunOn(store, g[1..k], calls[k + 1])
  <2>1. PICK part : part = SubSeq(calls, 1, n)
    OBVIOUS
  <2>2. DOMAIN part = 1..n /\ (\A i \in 1..n : part[i] = calls[i]) /\ n \in Nat
    BY <1>1, <2>1, SubSeqIs
  <2>3. PICK g : Folds(g, store, s, part, 1..n) /\ RunAll(store, s, part) = g[1..n]
    BY <2>2, RunAllIs
  <2>4. /\ g[1..0] = RunsFrom(s)
        /\ \A k \in 0..(n - 1) : g[1..(k + 1)] = RunOn(store, g[1..k], part[k + 1])
    BY <2>2, <2>3, FoldsNext
  <2>5. \A k \in 0..(n - 1) : part[k + 1] = calls[k + 1]
    BY <2>2
  <2> QED BY <2>1, <2>3, <2>4, <2>5 DEF RunTo
<1>3. ASSUME NEW n \in Nat, NEW g, NEW h, g[1..0] = h[1..0],
             \A k \in 0..(n - 1) : g[1..(k + 1)] = RunOn(store, g[1..k], calls[k + 1]),
             \A k \in 0..(n - 1) : h[1..(k + 1)] = RunOn(store, h[1..k], calls[k + 1])
      PROVE  g[1..n] = h[1..n]
  <2> DEFINE Good == {k \in 0..n : g[1..k] = h[1..k]}
  <2>1. 0 \in Good
    BY <1>3
  <2>2. \A k \in 0..(n - 1) : k \in Good => k + 1 \in Good
    BY <1>3
  <2>3. 0..n \subseteq Good
    <3> HIDE DEF Good
    <3> QED BY <2>1, <2>2, CountingUp
  <2> QED BY <2>3
<1>4. RunTo(store, s, calls, 0) = RunsFrom(s)
  <2>1. 0 \in 0..m
    OBVIOUS
  <2> QED BY <1>2, <2>1
<1>5. ASSUME NEW n \in 0..(m - 1)
      PROVE  RunTo(store, s, calls, n + 1) = RunOn(store, RunTo(store, s, calls, n), calls[n + 1])
  <2>1. n \in 0..m /\ n + 1 \in 0..m /\ n \in Nat
    OBVIOUS
  <2>2. PICK g : /\ g[1..0] = RunsFrom(s) /\ RunTo(store, s, calls, n) = g[1..n]
                 /\ \A k \in 0..(n - 1) : g[1..(k + 1)] = RunOn(store, g[1..k], calls[k + 1])
    BY <1>2, <2>1
  <2>3. PICK h : /\ h[1..0] = RunsFrom(s) /\ RunTo(store, s, calls, n + 1) = h[1..(n + 1)]
                 /\ \A k \in 0..((n + 1) - 1) : h[1..(k + 1)] = RunOn(store, h[1..k], calls[k + 1])
    BY <1>2, <2>1
  <2>4. \A k \in 0..(n - 1) : h[1..(k + 1)] = RunOn(store, h[1..k], calls[k + 1])
    BY <2>3
  <2>5. g[1..n] = h[1..n]
    BY <1>3, <2>1, <2>2, <2>3, <2>4
  <2>6. h[1..(n + 1)] = RunOn(store, h[1..n], calls[n + 1])
    BY <2>1, <2>3
  <2> QED BY <2>2, <2>3, <2>5, <2>6
<1>6. SubSeq(calls, 1, Len(calls)) = calls
  <2>1. PICK T : T = ToSet(calls)
    OBVIOUS
  <2>2. calls \in Seq(T)
    BY <2>1 DEF IsList
  <2> QED BY <2>2
<1> QED BY <1>1, <1>4, <1>5, <1>6 DEF RunTo

\* A transaction is of a client, or the import of a bundle.
Transaction(bundle, calls) ==
    \/ bundle = 0 /\ \E w \in DOMAIN ClientWrites : calls = ClientWrites[w]
    \/ bundle \in DOMAIN Bundles /\ calls = ImportPlans[bundle]

\* The snapshot of a release comes with all its import.
SnapshotsOwn(calls) ==
    \A i \in DOMAIN calls : \A b \in DOMAIN Bundles :
        To(calls[i], "snapshots") /\ calls[i].row = LegacySnapshot(Bundles[b]) => calls = ImportPlans[b]

LEMMA ClientsOrdered ==
    ASSUME NEW calls, Clients(calls)
    PROVE  Ordered({}, calls) /\ SnapshotsOwn(calls) /\ calls # << >>
<1>1. IsList(calls) /\ calls # << >>
  BY DEF Clients, IsList
<1>2. ASSUME NEW i \in DOMAIN calls PROVE Grounded({} \cup Earlier(calls, i), calls[i])
  <2>1. PICK call, B : call = calls[i] /\ B = {} \cup Earlier(calls, i)
    OBVIOUS
  <2>2. PICK t, row : t = call.table /\ row = call.row
    OBVIOUS
  <2>3. t \in TableNames /\ (t = "units" => IsUnit(row) /\ row.id \notin LegacyUnitIds)
    BY <2>1, <2>2 DEF Clients
  <2>4. t = "evidence" =>
          \E j \in 1..(i - 1) : /\ calls[j].table = "documents" /\ calls[j].row.id = row.document
                                                /\ calls[j].row.snapshot = row.snapshot
    BY <2>1, <2>2 DEF Clients
  <2>5. t = "evidence" =>
          \E d \in B : To(d, "documents") /\ d.row.id = row.document /\ d.row.snapshot = row.snapshot
    BY <2>1, <2>4 DEF Earlier, To
  <2>6. IsCall(call)
    BY <2>2, <2>3 DEF IsCall
  <2> QED BY <2>1, <2>2, <2>3, <2>5, <2>6 DEF Grounded, To
<1>3. ASSUME NEW i \in DOMAIN calls, NEW b \in DOMAIN Bundles, To(calls[i], "snapshots"),
             calls[i].row = LegacySnapshot(Bundles[b])
      PROVE  FALSE
  BY <1>3 DEF Clients, To
<1> QED BY <1>1, <1>2, <1>3 DEF Ordered, SnapshotsOwn

LEMMA ImportsOrdered ==
    ASSUME NEW n \in DOMAIN Bundles, NEW calls, calls = ImportPlans[n]
    PROVE  /\ Ordered({}, calls) /\ SnapshotsOwn(calls) /\ calls # << >>
           /\ PlanOK(Bundles[n], calls) /\ calls[2] = CallTo("snapshots", LegacySnapshot(Bundles[n]))
<1>1. PICK b : b = Bundles[n]
  OBVIOUS
<1>2. calls = ImportCalls(b)
  BY <1>1 DEF ImportPlans
<1>3. PlanOK(b, calls)
  BY <1>1, <1>2, PlanIs
<1>4. Ordered({}, calls) /\ Len(calls) >= 3 /\ IsList(calls) /\
        calls[2] = CallTo("snapshots", LegacySnapshot(b))
  BY <1>3 DEF PlanOK, Ordered
<1>5. PICK m \in Nat : m = Len(calls) /\ DOMAIN calls = 1..m
  BY <1>4 DEF IsList
<1>6. calls # << >>
  BY <1>4, <1>5
<1>7. ASSUME NEW i \in DOMAIN calls, NEW k \in DOMAIN Bundles, To(calls[i], "snapshots"),
             calls[i].row = LegacySnapshot(Bundles[k])
      PROVE  calls = ImportPlans[k]
  <2>1. i = 2
    <3>1. i # 1
      <4>1. calls[1] = CallTo("sources", LegacySource(b))
        BY <1>3 DEF PlanOK
      <4>2. ~To(calls[1], "snapshots")
        BY <4>1, CallToIs
      <4> QED BY <1>7, <4>2
    <3>2. \A j \in 3..m : ~To(calls[j], "snapshots")
      BY <1>3, <1>5 DEF PlanOK, Brings, Lasting, To
    <3> QED BY <1>5, <1>7, <3>1, <3>2
  <2>2. LegacySnapshot(b) = LegacySnapshot(Bundles[k])
    BY <1>4, <1>7, <2>1, CallToIs
  <2>3. ImportCalls(b) = ImportCalls(Bundles[k])
    BY <1>1, <2>2, SamePlan
  <2> QED BY <1>2, <2>3 DEF ImportPlans
<1> QED BY <1>1, <1>3, <1>4, <1>6, <1>7 DEF SnapshotsOwn

LEMMA TransactionIs ==
    ASSUME NEW bundle, NEW calls, Transaction(bundle, calls)
    PROVE  Ordered({}, calls) /\ SnapshotsOwn(calls) /\ calls # << >>
<1>1. CASE bundle = 0 /\ \E w \in DOMAIN ClientWrites : calls = ClientWrites[w]
  <2>1. Clients(calls)
    BY <1>1, StoresAssumption
  <2> QED BY <2>1, ClientsOrdered
<1>2. CASE bundle \in DOMAIN Bundles /\ calls = ImportPlans[bundle]
  BY <1>2, ImportsOrdered
<1> QED BY <1>1, <1>2 DEF Transaction

MemoryOK(m) == IsMemory(m) /\ Embeds(m) /\ TablesOK(m) /\ QueuesAnswers(m)

\* What a run of the first n calls on the memory store has made of m.
RanOK(m, calls, n, run) ==
    /\ MemoryOK(run.tables) /\ Wider(m, run.tables)
    /\ ~run.raised => \A j \in 1..n : Done(run.tables, calls[j])
    /\ \A row \in TableRows(run.tables, "snapshots") :
          row \in TableRows(m, "snapshots") \/ \E j \in 1..n : To(calls[j], "snapshots") /\ calls[j].row = row

\* The next call of a list finds what it refers to.
LEMMA NextFits ==
    ASSUME NEW s, NEW calls, Ordered({}, calls),
           NEW n \in 0..(Len(calls) - 1), \A j \in 1..n : Done(s, calls[j]),
           NEW call, call = calls[n + 1]
    PROVE  CallFits(s, call) /\ IsCall(call) /\ call.table \in TableNames
<1>1. PICK m \in Nat : m = Len(calls) /\ DOMAIN calls = 1..m
  BY DEF Ordered, IsList
<1>2. n + 1 \in DOMAIN calls /\ (n + 1) - 1 = n
  BY <1>1
<1>3. PICK B : B = {} \cup Earlier(calls, n + 1)
  OBVIOUS
<1>4. Grounded(B, call)
  BY <1>2, <1>3 DEF Ordered
<1>5. \A d \in B : Done(s, d)
  BY <1>2, <1>3 DEF Earlier
<1>6. CallFits(s, call)
  BY <1>4, <1>5, FitsAfter
<1> QED BY <1>6 DEF CallFits, IsCall

LEMMA RanNext ==
    ASSUME NEW m, NEW calls, Ordered({}, calls), NEW n \in 0..(Len(calls) - 1),
           NEW run, RanOK(m, calls, n, run),
           NEW next, next = RunOn("memory", run, calls[n + 1])
    PROVE  RanOK(m, calls, n + 1, next)
<1>0. PICK l \in Nat : l = Len(calls) /\ DOMAIN calls = 1..l
  BY DEF Ordered, IsList
<1>a. \A j \in 1..(n + 1) : j \in 1..n \/ j = n + 1
  BY <1>0
<1>b. \A j \in 1..n : j \in 1..(n + 1)
  BY <1>0
<1>1. CASE run.raised
  <2>1. next = run
    BY <1>1 DEF RunOn
  <2> QED BY <1>1, <1>b, <2>1 DEF RanOK
<1>2. CASE ~run.raised
  <2>1. PICK call, s, r : call = calls[n + 1] /\ s = run.tables /\ r = MemCall(s, call)
    OBVIOUS
  <2>2. next.tables = r.tables /\ next.raised = Raises(r.answer)
    BY <1>2, <2>1 DEF RunOn, Called
  <2>3. \A j \in 1..n : Done(s, calls[j])
    BY <1>2, <2>1 DEF RanOK
  <2>4. CallFits(s, call) /\ call.table \in TableNames
    BY <2>1, <2>3, NextFits
  <2>5. IsMemory(s) /\ Embeds(s) /\ TablesOK(s) /\ QueuesAnswers(s) /\ Wider(m, s)
    BY <2>1 DEF RanOK, MemoryOK
  <2>6. IsMemory(r.tables) /\ Embeds(r.tables) /\ Step(s, r.tables, r.answer, call)
    BY <2>1, <2>4, <2>5, MemSteps
  <2>7. PICK z : z = r.tables
    OBVIOUS
  <2>8. /\ TablesOK(z) /\ Wider(s, z) /\ NoOtherSnapshot(s, z, call) /\ QueuesAnswers(z)
        /\ ~Raises(r.answer) => Done(z, call)
    BY <2>5, <2>6, <2>7 DEF Step
  <2>9. MemoryOK(z) /\ Wider(m, z)
    BY <2>5, <2>6, <2>7, <2>8, WiderFurther DEF MemoryOK
  <2>10. ASSUME NEW j \in 1..n PROVE Done(z, calls[j])
    <3>1. PICK d : d = calls[j]
      OBVIOUS
    <3>2. Done(s, d)
      BY <2>3, <3>1
    <3>3. d.table \in TableNames
      <4>1. j \in DOMAIN calls
        BY <1>0
      <4> QED BY <3>1, <4>1 DEF Ordered, Grounded, IsCall
    <3>4. Done(z, d)
      BY <2>8, <3>2, <3>3, DoneStays
    <3> QED BY <3>1, <3>4
  <2>11. ~Raises(r.answer) => \A j \in 1..(n + 1) : Done(z, calls[j])
    BY <1>a, <2>1, <2>8, <2>10
  <2>12. ASSUME NEW row \in TableRows(z, "snapshots")
         PROVE  row \in TableRows(m, "snapshots") \/
                  \E j \in 1..(n + 1) : To(calls[j], "snapshots") /\ calls[j].row = row
    <3>1. CASE row \in TableRows(s, "snapshots")
      BY <1>b, <2>1, <3>1 DEF RanOK
    <3>2. CASE To(call, "snapshots") /\ row = call.row
      <4>1. n + 1 \in 1..(n + 1)
        BY <1>0
      <4> QED BY <2>1, <3>2, <4>1
    <3> QED BY <2>8, <3>1, <3>2 DEF NoOtherSnapshot
  <2> QED BY <2>2, <2>7, <2>9, <2>11, <2>12 DEF RanOK
<1> QED BY <1>1, <1>2

LEMMA RunsOK ==
    ASSUME NEW m, MemoryOK(m), NEW calls, Ordered({}, calls)
    PROVE  \A n \in 0..Len(calls) : RanOK(m, calls, n, RunTo("memory", m, calls, n))
<1>0. PICK l \in Nat : l = Len(calls) /\ DOMAIN calls = 1..l
  BY DEF Ordered, IsList
<1>1. IsList(calls)
  BY DEF Ordered
<1> DEFINE Good == {n \in 0..l : RanOK(m, calls, n, RunTo("memory", m, calls, n))}
<1>2. 0 \in Good
  <2>1. PICK run : run = RunTo("memory", m, calls, 0)
    OBVIOUS
  <2>2. run.tables = m /\ run = RunsFrom(m)
    BY <1>1, <2>1, RunToNext DEF RunsFrom
  <2>3. Wider(m, run.tables)
    BY <2>2, WiderItself
  <2>4. RanOK(m, calls, 0, run)
    BY <2>2, <2>3 DEF RanOK
  <2> QED BY <2>1, <2>4
<1>3. ASSUME NEW n \in 0..(l - 1), n \in Good PROVE n + 1 \in Good
  <2>1. PICK run, next : run = RunTo("memory", m, calls, n) /\ next = RunTo("memory", m, calls, n + 1)
    OBVIOUS
  <2>2. next = RunOn("memory", run, calls[n + 1])
    BY <1>0, <1>1, <2>1, RunToNext, ZenonT(40)
  <2>3. RanOK(m, calls, n, run)
    BY <1>3, <2>1
  <2>4. RanOK(m, calls, n + 1, next)
    BY <1>0, <2>2, <2>3, RanNext
  <2> QED BY <2>1, <2>4
<1>4. 0..l \subseteq Good
  <2> HIDE DEF Good
  <2> QED BY <1>2, <1>3, CountingUp
<1> QED BY <1>0, <1>4

LEMMA NextRun ==
    ASSUME NEW store, NEW s, NEW calls, IsList(calls), NEW n \in 0..(Len(calls) - 1),
           NEW run, run = RunTo(store, s, calls, n), NEW next, next = RunTo(store, s, calls, n + 1)
    PROVE  next = RunOn(store, run, calls[n + 1])
  BY RunToNext, ZenonT(40)

\* After an exception no more calls are made.
LEMMA RaisedStays ==
    ASSUME NEW store, NEW s, NEW calls, IsList(calls), NEW n \in 0..Len(calls), RunTo(store, s, calls, n).raised
    PROVE  RunAll(store, s, calls) = RunTo(store, s, calls, n)
<1>0. PICK l \in Nat : l = Len(calls)
  BY DEF IsList
<1> DEFINE Good == {k \in 0..l : k >= n => RunTo(store, s, calls, k) = RunTo(store, s, calls, n)}
<1>1. 0 \in Good
  BY <1>0
<1>2. ASSUME NEW k \in 0..(l - 1), k \in Good PROVE k + 1 \in Good
  <2>1. RunTo(store, s, calls, k + 1) = RunOn(store, RunTo(store, s, calls, k), calls[k + 1])
    BY <1>0, RunToNext, ZenonT(40)
  <2>2. CASE k >= n
    <3>1. RunTo(store, s, calls, k + 1) = RunTo(store, s, calls, k)
      BY <1>2, <2>1, <2>2 DEF RunOn
    <3> QED BY <1>2, <2>2, <3>1
  <2>3. CASE ~(k >= n)
    <3>1. k + 1 >= n => k + 1 = n
      BY <1>0, <2>3
    <3> QED BY <3>1
  <2> QED BY <2>2, <2>3
<1>3. 0..l \subseteq Good
  <2> HIDE DEF Good
  <2> QED BY <1>1, <1>2, CountingUp
<1>4. RunTo(store, s, calls, l) = RunTo(store, s, calls, n)
  BY <1>0, <1>3
<1> QED BY <1>0, <1>4, RunToNext

-----------------------------------------------------------------------------
(* How the stores start.                                                    *)

LEMMA EmptyIs ==
    /\ \A t \in TableNames : EmptyMemory[t] = << >> /\ EmptySeek[t] = << >>
    /\ EmptyMemory["embedded"] = << >> /\ IsMemory(EmptyMemory) /\ IsSeek(EmptySeek)
  BY TablesAre DEF EmptyMemory, EmptySeek, IsMemory, IsSeek

LEMMA NoRows ==
    ASSUME NEW s, \A t \in TableNames : s[t] = << >>
    PROVE  TablesOK(s)
<1>1. \A t \in TableNames : DOMAIN s[t] = {} /\ s[t] = [i \in DOMAIN s[t] |-> s[t][i]]
  <2>1. DOMAIN << >> = {} /\ << >> = [i \in DOMAIN << >> |-> << >>[i]]
    OBVIOUS
  <2> QED BY <2>1
<1>2. AreTables(s) /\ RowsStand(s)
  BY <1>1 DEF AreTables, RowsStand
<1>3. /\ DOMAIN s["snapshots"] = {} /\ DOMAIN s["governance"] = {} /\ DOMAIN s["feedback"] = {}
      /\ DOMAIN s["units"] = {}
  BY <1>1, TablesAre
<1>4. Keyed(s) /\ Queued(s) /\ AnswersQueued(s)
  BY <1>3 DEF Keyed, Queued, AnswersQueued
<1>5. UnitsKeyed(s)
  BY <1>3, FS_EmptySet DEF UnitsKeyed
<1>6. LegacyStands(s)
  BY <1>3 DEF LegacyStands, ClusterStands
<1> QED BY <1>2, <1>4, <1>5, <1>6 DEF TablesOK

LEMMA EmptyOK == MemoryOK(EmptyMemory) /\ TablesOK(EmptySeek) /\ IsSeek(EmptySeek) /\
  Same(EmptySeek, EmptyMemory)
<1>1. TablesOK(EmptyMemory) /\ TablesOK(EmptySeek)
  BY EmptyIs, NoRows
<1>2. Embeds(EmptyMemory)
  <2>1. EmptyMemory["units"] = << >> /\ EmptyMemory["embedded"] = << >> /\ DOMAIN << >> = {}
    BY EmptyIs, TablesAre
  <2> QED BY <2>1 DEF Embeds
<1>3. Same(EmptySeek, EmptyMemory)
  BY EmptyIs DEF Same
<1>4. QueuesAnswers(EmptyMemory)
  <2>1. EmptyMemory["feedback"] = << >> /\ EmptyMemory["governance"] = << >>
    BY EmptyIs, TablesAre
  <2> QED BY <2>1 DEF QueuesAnswers
<1> QED BY <1>1, <1>2, <1>3, <1>4, EmptyIs DEF MemoryOK

\* The two stores after the same calls.
Alongside(run, other) ==
    /\ IsSeek(other.tables) /\ TablesOK(other.tables) /\ Same(other.tables, run.tables)
    /\ run.raised <=> other.raised

LEMMA BothStart ==
    ASSUME NEW calls, Ordered({}, calls)
    PROVE  /\ MemoryOK(RunAll("memory", EmptyMemory, calls).tables)
           /\ Alongside(RunAll("memory", EmptyMemory, calls), RunAll("seekdb", EmptySeek, calls))
<1>0. PICK l \in Nat : l = Len(calls) /\ DOMAIN calls = 1..l
  BY DEF Ordered, IsList
<1>1. IsList(calls)
  BY DEF Ordered
<1>2. \A n \in 0..l : RanOK(EmptyMemory, calls, n, RunTo("memory", EmptyMemory, calls, n))
  BY <1>0, EmptyOK, RunsOK
<1> DEFINE Good == {n \in 0..l : Alongside(RunTo("memory", EmptyMemory, calls, n),
                                           RunTo("seekdb", EmptySeek, calls, n))}
<1>3. 0 \in Good
  <2>1. PICK run, other : run = RunTo("memory", EmptyMemory, calls, 0) /\
                            other = RunTo("seekdb", EmptySeek, calls, 0)
    OBVIOUS
  <2>2. run = RunsFrom(EmptyMemory) /\ other = RunsFrom(EmptySeek)
    BY <1>1, <2>1, RunToNext
  <2>3. run.tables = EmptyMemory /\ other.tables = EmptySeek /\ run.raised = FALSE /\ other.raised = FALSE
    BY <2>2 DEF RunsFrom
  <2>4. Alongside(run, other)
    BY <2>3, EmptyOK DEF Alongside
  <2> QED BY <2>1, <2>4
<1>4. ASSUME NEW n \in 0..(l - 1), n \in Good PROVE n + 1 \in Good
  <2>0. n \in 0..l
    BY <1>0
  <2>1. PICK run, other, run1, other1, call :
          /\ run = RunTo("memory", EmptyMemory, calls, n) /\ other = RunTo("seekdb", EmptySeek, calls, n)
          /\ run1 = RunTo("memory", EmptyMemory, calls, n + 1) /\
               other1 = RunTo("seekdb", EmptySeek, calls, n + 1)
          /\ call = calls[n + 1]
    OBVIOUS
  <2>2. run1 = RunOn("memory", run, call) /\ other1 = RunOn("seekdb", other, call)
    BY <1>0, <1>1, <2>1, NextRun
  <2>3. Alongside(run, other) /\ RanOK(EmptyMemory, calls, n, run)
    BY <1>2, <1>4, <2>0, <2>1
  <2>4. Alongside(run1, other1)
    <3>1. CASE run.raised
      <4>1. run1 = run /\ other1 = other
        BY <2>2, <2>3, <3>1 DEF RunOn, Alongside
      <4> QED BY <2>3, <4>1
    <3>2. CASE ~run.raised
      <4>1. PICK m, s, a, b : m = run.tables /\ s = other.tables /\ a = MemCall(m, call) /\
                                b = SeekCall(s, call)
        OBVIOUS
      <4>2. /\ run1.tables = a.tables /\ run1.raised = Raises(a.answer)
            /\ other1.tables = b.tables /\ other1.raised = Raises(b.answer)
        BY <2>2, <2>3, <3>2, <4>1 DEF RunOn, Called, Alongside
      <4>3. IsMemory(m) /\ Embeds(m) /\ TablesOK(m) /\ IsSeek(s) /\ TablesOK(s) /\ Same(s, m)
        BY <2>3, <4>1 DEF RanOK, MemoryOK, Alongside
      <4>4. \A j \in 1..n : Done(m, calls[j])
        BY <2>3, <3>2, <4>1 DEF RanOK
      <4>5. CallFits(m, call) /\ IsCall(call)
        BY <1>0, <2>1, <4>4, NextFits
      <4>6. Same(m, s)
        BY <4>3, SameBack
      <4>7. CallFits(s, call)
        <5>1. s["documents"] = m["documents"] /\ s["evidence"] = m["evidence"]
          BY <4>3, TablesAre DEF Same
        <5> QED BY <4>5, <5>1 DEF CallFits, HasRow
      <4>8. AreTables(m) /\ Keyed(m) /\ Queued(m)
        BY <4>3 DEF TablesOK
      <4>9. Twins(call, a, b)
        BY <4>1, <4>3, <4>5, <4>8, CallTwins
      <4>10. IsSeek(b.tables) /\ Step(s, b.tables, b.answer, call)
        BY <4>1, <4>3, <4>7, SeekSteps
      <4> QED BY <4>2, <4>9, <4>10 DEF Alongside, Twins, Step
    <3> QED BY <3>1, <3>2
  <2> QED BY <2>1, <2>4
<1>5. 0..l \subseteq Good
  <2> HIDE DEF Good
  <2> QED BY <1>3, <1>4, CountingUp
<1>6. l \in Good /\ RanOK(EmptyMemory, calls, l, RunTo("memory", EmptyMemory, calls, l))
  BY <1>2, <1>5
<1>7. /\ RunTo("memory", EmptyMemory, calls, l) = RunAll("memory", EmptyMemory, calls)
      /\ RunTo("seekdb", EmptySeek, calls, l) = RunAll("seekdb", EmptySeek, calls)
  BY <1>0, <1>1, RunToNext
<1> QED BY <1>6, <1>7 DEF RanOK

-----------------------------------------------------------------------------
(* The invariant.                                                           *)

AllDone(s, calls) == \A i \in DOMAIN calls : Done(s, calls[i])

\* A transaction of SeekDB has done the calls before the next one.
WriterOK ==
    writing # NotWriting =>
        /\ writing = [bundle |-> writing.bundle, calls |-> writing.calls, at |-> writing.at,
           got |-> writing.got]
        /\ Transaction(writing.bundle, writing.calls)
        /\ writing.at \in 1..Len(writing.calls)
        /\ \A j \in 1..(writing.at - 1) : Done(seek, writing.calls[j])

\* The import of a snapshot of the memory store is whole.
WholeIn(m) ==
    \A b \in DOMAIN Bundles :
        LegacySnapshot(Bundles[b]) \in TableRows(m, "snapshots") => AllDone(m, ImportPlans[b])

ImportedOK ==
    \A b \in imported : /\ b \in DOMAIN Bundles
                        /\ AllDone(memory, ImportPlans[b]) /\ AllDone(seek, ImportPlans[b])

\* The answers m and s to the same calls are alike.
AlikeAll(calls, m, s) ==
    /\ IsList(m) /\ IsList(s) /\ Len(m) = Len(s)
    /\ \A i \in DOMAIN m : Alike(calls[i], m[i], s[i])

\* Of the transaction under way SeekDB has what the memory store would have of
\* the same calls.
Along(n, run, s, calls, got) ==
    ~run.raised /\ Same(s, run.tables) /\ AlikeAll(calls, run.got, got) /\ Len(got) = n
TogetherOK ==
    ~torn => /\ AlikeAll(answers.calls, answers.memory, answers.seek)
             /\ writing = NotWriting => Same(seek, memory)
             /\ writing # NotWriting =>
                  Along(writing.at - 1, RunTo("memory", memory, writing.calls, writing.at - 1),
                        seek, writing.calls, writing.got)

StoresInv ==
    /\ MemoryOK(memory) /\ IsSeek(seek) /\ TablesOK(seek)
    /\ WriterOK /\ WholeIn(memory) /\ ImportedOK /\ TogetherOK

-----------------------------------------------------------------------------
\* The list c is a and x after it.
Longer(a, x, c) ==
    /\ IsList(c) /\ Len(c) = Len(a) + 1
    /\ \A i \in DOMAIN c : (i \in DOMAIN a /\ c[i] = a[i]) \/ (i = Len(a) + 1 /\ c[i] = x)

LEMMA AppendList ==
    ASSUME NEW a, IsList(a), NEW x, NEW c, c = Append(a, x)
    PROVE  Longer(a, x, c)
<1>1. PICK T : T = ToSet(a) \cup {x}
  OBVIOUS
<1>2. a \in Seq(T)
  BY <1>1, WiderSeq DEF IsList
<1>3. c \in Seq(T)
  BY <1>1, <1>2
<1>4. /\ Len(a) \in Nat /\ DOMAIN a = 1..Len(a) /\ Len(c) = Len(a) + 1 /\ DOMAIN c = 1..(Len(a) + 1)
      /\ c[Len(a) + 1] = x /\ \A i \in 1..Len(a) : c[i] = a[i]
  BY <1>2
<1>5. c \in Seq(ToSet(c))
  <2>1. PICK y \in Seq(T) : y = c
    BY <1>3
  <2>2. y = [i \in 1..Len(y) |-> y[i]] /\ Len(y) \in Nat /\ DOMAIN y = 1..Len(y)
    OBVIOUS
  <2>3. \A i \in 1..Len(y) : y[i] \in ToSet(y)
    BY <2>2 DEF ToSet
  <2>4. y \in Seq(ToSet(y))
    BY <2>2, <2>3
  <2> QED BY <2>1, <2>4
<1> QED BY <1>4, <1>5 DEF IsList, Longer

LEMMA AlikeMore ==
    ASSUME NEW calls, NEW m, NEW s, AlikeAll(calls, m, s), NEW a, NEW b, Alike(calls[Len(m) + 1], a, b),
           NEW m1, m1 = Append(m, a), NEW s1, s1 = Append(s, b)
    PROVE  AlikeAll(calls, m1, s1)
<1>1. IsList(m) /\ IsList(s) /\ Len(m) = Len(s)
  BY DEF AlikeAll
<1>2. Longer(m, a, m1)
  BY <1>1, AppendList
<1>3. Longer(s, b, s1)
  BY <1>1, AppendList
<1>4. DOMAIN m1 = DOMAIN s1 /\ DOMAIN m = DOMAIN s /\ \A i \in DOMAIN m : i # Len(m) + 1
  BY <1>1, <1>2, <1>3 DEF IsList, Longer
<1>5. \A i \in DOMAIN m1 : Alike(calls[i], m1[i], s1[i])
  BY <1>1, <1>2, <1>3, <1>4 DEF AlikeAll, Longer
<1> QED BY <1>1, <1>2, <1>3, <1>5 DEF AlikeAll, Longer

\* One call more on both.
Further(n, run, r, calls, got) ==
    /\ run.raised <=> Raises(r.answer)
    /\ Same(r.tables, run.tables) /\ AlikeAll(calls, run.got, got) /\ Len(got) = n

LEMMA AlongNext ==
    ASSUME NEW m, MemoryOK(m), NEW s, IsSeek(s), NEW calls, Ordered({}, calls), NEW n \in 0..(Len(calls) - 1),
           NEW run, run = RunTo("memory", m, calls, n), NEW got, Along(n, run, s, calls, got),
           NEW call, call = calls[n + 1], NEW r, r = SeekCall(s, call),
           NEW run1, run1 = RunTo("memory", m, calls, n + 1), NEW got1, got1 = Append(got, r.answer)
    PROVE  Further(n + 1, run1, r, calls, got1)
<1>1. IsList(calls) /\ n \in 0..Len(calls)
  BY DEF Ordered, IsList
<1>2. RanOK(m, calls, n, run)
  BY <1>1, RunsOK
<1>3. run1 = RunOn("memory", run, call)
  BY <1>1, NextRun
<1>4. ~run.raised /\ Same(s, run.tables) /\ AlikeAll(calls, run.got, got) /\ Len(got) = n
  BY DEF Along
<1>5. PICK y, a : y = run.tables /\ a = MemCall(y, call)
  OBVIOUS
<1>6. run1.tables = a.tables /\ run1.got = Append(run.got, a.answer) /\ run1.raised = Raises(a.answer)
  BY <1>3, <1>4, <1>5 DEF RunOn, Called
<1>7. IsMemory(y) /\ Embeds(y) /\ AreTables(y) /\ Keyed(y) /\ Queued(y) /\ \A j \in 1..n : Done(y, calls[j])
  BY <1>2, <1>4, <1>5 DEF RanOK, MemoryOK, TablesOK
<1>8. IsCall(call)
  BY <1>7, NextFits
<1>9. Same(s, y)
  BY <1>4, <1>5
<1>10. Twins(call, a, r)
  BY <1>5, <1>7, <1>8, <1>9, CallTwins
<1>11. Len(run.got) = n /\ IsList(got)
  BY <1>4 DEF AlikeAll
<1>12. Alike(calls[Len(run.got) + 1], a.answer, r.answer)
  BY <1>10, <1>11 DEF Twins
<1>13. AlikeAll(calls, run1.got, got1)
  BY <1>4, <1>6, <1>12, AlikeMore
<1>14. Longer(got, r.answer, got1)
  BY <1>11, AppendList
<1> QED BY <1>4, <1>6, <1>10, <1>13, <1>14 DEF Further, Twins, Longer

-----------------------------------------------------------------------------
(* Every step keeps it.                                                     *)

LEMMA AllDoneStays ==
    ASSUME NEW s, NEW z, Wider(s, z), NEW b \in DOMAIN Bundles, AllDone(s, ImportPlans[b])
    PROVE  AllDone(z, ImportPlans[b])
<1>1. PICK calls : calls = ImportPlans[b]
  OBVIOUS
<1>2. Ordered({}, calls)
  BY <1>1, ImportsOrdered
<1>3. ASSUME NEW i \in DOMAIN calls PROVE Done(z, calls[i])
  <2>1. PICK call : call = calls[i]
    OBVIOUS
  <2>2. call.table \in TableNames /\ Done(s, call)
    BY <1>1, <1>2, <2>1 DEF Ordered, Grounded, IsCall, AllDone
  <2>3. Done(z, call)
    BY <2>2, DoneStays
  <2> QED BY <2>1, <2>3
<1> QED BY <1>1, <1>3 DEF AllDone

\* What the memory store makes of a transaction.
LEMMA TransactionDone ==
    ASSUME NEW m, MemoryOK(m), WholeIn(m), NEW bundle, NEW calls, Transaction(bundle, calls),
           NEW end, end = RunAll("memory", m, calls), NEW z, z = IF end.raised THEN m ELSE end.tables
    PROVE  /\ MemoryOK(z) /\ Wider(m, z) /\ WholeIn(z) /\ (~end.raised => AllDone(z, calls))
<1>1. Ordered({}, calls) /\ SnapshotsOwn(calls)
  BY TransactionIs
<1>2. PICK l \in Nat : l = Len(calls) /\ DOMAIN calls = 1..l
  BY <1>1 DEF Ordered, IsList
<1>3. end = RunTo("memory", m, calls, l)
  BY <1>1, <1>2, RunToNext DEF Ordered
<1>4. RanOK(m, calls, l, end)
  BY <1>1, <1>2, <1>3, RunsOK
<1>5. CASE end.raised
  BY <1>5, WiderItself
<1>6. CASE ~end.raised
  <2>1. MemoryOK(z) /\ Wider(m, z) /\ AllDone(z, calls)
    BY <1>2, <1>4, <1>6 DEF RanOK, AllDone
  <2>2. ASSUME NEW b \in DOMAIN Bundles, LegacySnapshot(Bundles[b]) \in TableRows(z, "snapshots")
        PROVE  AllDone(z, ImportPlans[b])
    <3>1. CASE LegacySnapshot(Bundles[b]) \in TableRows(m, "snapshots")
      BY <2>1, <3>1, AllDoneStays DEF WholeIn
    <3>2. CASE \E j \in 1..l : To(calls[j], "snapshots") /\ calls[j].row = LegacySnapshot(Bundles[b])
      <4>1. calls = ImportPlans[b]
        BY <1>1, <1>2, <3>2 DEF SnapshotsOwn
      <4> QED BY <2>1, <4>1
    <3> QED BY <1>4, <1>6, <2>2, <3>1, <3>2 DEF RanOK
  <2> QED BY <1>6, <2>1, <2>2 DEF WholeIn
<1> QED BY <1>5, <1>6

LEMMA InvInit == StoresInit => StoresInv
<1> SUFFICES ASSUME StoresInit PROVE StoresInv
  OBVIOUS
<1>1. PICK p \in DOMAIN StartingStores :
        /\ memory = RunAll("memory", EmptyMemory, StartingStores[p]).tables
        /\ seek = RunAll("seekdb", EmptySeek, StartingStores[p]).tables
  BY DEF StoresInit
<1>2. PICK calls : calls = StartingStores[p]
  OBVIOUS
<1>3. calls = << >> \/ Clients(calls)
  BY <1>2, StoresAssumption
<1>4. Ordered({}, calls)
  <2>1. CASE calls = << >>
    <3>1. DOMAIN << >> = {} /\ << >> \in Seq(ToSet(<< >>))
      OBVIOUS
    <3> QED BY <2>1, <3>1 DEF Ordered, IsList
  <2> QED BY <1>3, <2>1, ClientsOrdered
<1>5. PICK run, other : run = RunAll("memory", EmptyMemory, calls) /\ other = RunAll("seekdb", EmptySeek, calls)
  OBVIOUS
<1>6. MemoryOK(run.tables) /\ Alongside(run, other)
  BY <1>4, <1>5, BothStart
<1>7. MemoryOK(memory) /\ IsSeek(seek) /\ TablesOK(seek) /\ Same(seek, memory)
  BY <1>1, <1>2, <1>5, <1>6 DEF Alongside
<1>8. WholeIn(memory)
  <2> SUFFICES ASSUME NEW b \in DOMAIN Bundles, LegacySnapshot(Bundles[b]) \in TableRows(memory, "snapshots")
               PROVE  FALSE
    BY DEF WholeIn
  <2>1. PICK l \in Nat : l = Len(calls) /\ DOMAIN calls = 1..l
    BY <1>4 DEF Ordered, IsList
  <2>2. run = RunTo("memory", EmptyMemory, calls, l)
    BY <1>4, <1>5, <2>1, RunToNext DEF Ordered
  <2>3. RanOK(EmptyMemory, calls, l, run)
    BY <1>4, <2>1, <2>2, EmptyOK, RunsOK
  <2>4. TableRows(EmptyMemory, "snapshots") = {}
    <3>1. EmptyMemory["snapshots"] = << >> /\ DOMAIN << >> = {}
      BY EmptyIs, TablesAre
    <3> QED BY <3>1 DEF TableRows
  <2>5. PICK j \in 1..l : To(calls[j], "snapshots") /\ calls[j].row = LegacySnapshot(Bundles[b])
    BY <1>1, <1>2, <1>5, <2>3, <2>4 DEF RanOK
  <2>6. calls # << >>
    BY <2>1
  <2>7. Clients(calls)
    BY <1>3, <2>6
  <2> QED BY <2>1, <2>5, <2>7 DEF Clients, To
<1>9. writing = NotWriting /\ answers = [memory |-> << >>, seek |-> << >>, calls |-> << >>] /\ imported = {}
  BY DEF StoresInit
<1>10. WriterOK /\ ImportedOK
  BY <1>9 DEF WriterOK, ImportedOK
<1>11. TogetherOK
  <2>1. AlikeAll(<< >>, << >>, << >>)
    <3>1. DOMAIN << >> = {} /\ << >> \in Seq(ToSet(<< >>))
      OBVIOUS
    <3> QED BY <3>1 DEF AlikeAll, IsList
  <2> QED BY <1>7, <1>9, <2>1 DEF TogetherOK
<1> QED BY <1>7, <1>8, <1>10, <1>11 DEF StoresInv

LEMMA InvStarts ==
    ASSUME StoresInv, NEW bundle, NEW calls, Transaction(bundle, calls), Starts(bundle, calls)
    PROVE  StoresInv'
<1>1. /\ writing' = [bundle |-> bundle, calls |-> calls, at |-> 1, got |-> << >>]
      /\ memory' = memory /\ seek' = seek /\ answers' = answers /\ imported' = imported /\ torn' = torn
      /\ writing = NotWriting
  BY DEF Starts
<1>2. IsList(calls) /\ Len(calls) \in Nat /\ Len(calls) >= 1
  <2>1. Ordered({}, calls) /\ calls # << >>
    BY TransactionIs
  <2> QED BY <2>1 DEF Ordered, IsList
<1>3. /\ writing'.bundle = bundle /\ writing'.calls = calls /\ writing'.at = 1 /\ writing'.got = << >>
      /\ writing'.at - 1 = 0
  BY <1>1
<1>4. WriterOK'
  <2>1. 1 \in 1..Len(calls) /\ \A j \in 1..(1 - 1) : FALSE
    BY <1>2
  <2> QED BY <1>1, <1>3, <2>1 DEF WriterOK
<1>5. TogetherOK'
  <2>1. PICK run : run = RunTo("memory", memory, calls, 0)
    OBVIOUS
  <2>2. run = RunsFrom(memory)
    BY <1>2, <2>1, RunToNext
  <2>3. ASSUME ~torn PROVE Along(0, run, seek, calls, << >>)
    <3>1. Same(seek, memory)
      BY <1>1, <2>3 DEF StoresInv, TogetherOK
    <3>2. AlikeAll(calls, << >>, << >>) /\ Len(<< >>) = 0
      <4>1. DOMAIN << >> = {} /\ << >> \in Seq(ToSet(<< >>))
        OBVIOUS
      <4> QED BY <4>1 DEF AlikeAll, IsList
    <3> QED BY <2>2, <3>1, <3>2 DEF Along, RunsFrom
  <2>4. writing' # NotWriting
    <3>1. NotWriting.at = 0
      BY DEF NotWriting
    <3> QED BY <1>3, <3>1
  <2>5. ~torn => AlikeAll(answers.calls, answers.memory, answers.seek)
    BY DEF StoresInv, TogetherOK
  <2>6. ~torn => Along(0, RunTo("memory", memory, calls, 0), seek, calls, << >>)
    BY <2>1, <2>3
  <2> QED BY <1>1, <1>3, <2>4, <2>5, <2>6 DEF TogetherOK
<1>6. /\ MemoryOK(memory') /\ IsSeek(seek') /\ TablesOK(seek') /\ WholeIn(memory')
      /\ ImportedOK'
  BY <1>1 DEF StoresInv, ImportedOK
<1> QED BY <1>4, <1>5, <1>6 DEF StoresInv

\* The next call of SeekDB.
Advanced(s, r, calls, n) ==
    /\ IsSeek(r.tables) /\ TablesOK(r.tables) /\ Wider(s, r.tables)
    /\ Raises(r.answer) => Same(s, r.tables)
    /\ ~Raises(r.answer) => \A j \in 1..n : Done(r.tables, calls[j])

LEMMA SeekAdvances ==
    ASSUME NEW s, IsSeek(s), TablesOK(s), NEW calls, Ordered({}, calls), NEW n \in 0..(Len(calls) - 1),
           \A j \in 1..n : Done(s, calls[j]), NEW call, call = calls[n + 1], NEW r, r = SeekCall(s, call)
    PROVE  Advanced(s, r, calls, n + 1)
<1>0. PICK l \in Nat : l = Len(calls) /\ DOMAIN calls = 1..l
  BY DEF Ordered, IsList
<1>1. CallFits(s, call)
  BY NextFits
<1>2. IsSeek(r.tables) /\ Step(s, r.tables, r.answer, call)
  BY <1>1, SeekSteps
<1>3. PICK z : z = r.tables
  OBVIOUS
<1>4. TablesOK(z) /\ Wider(s, z) /\ (Raises(r.answer) => Same(s, z)) /\ (~Raises(r.answer) => Done(z, call))
  BY <1>2, <1>3 DEF Step
<1>5. ASSUME NEW j \in 1..n PROVE Done(z, calls[j])
  <2>1. PICK d : d = calls[j]
    OBVIOUS
  <2>2. Done(s, d) /\ j \in DOMAIN calls
    BY <1>0, <2>1
  <2>3. d.table \in TableNames
    BY <2>1, <2>2 DEF Ordered, Grounded, IsCall
  <2>4. Done(z, d)
    BY <1>4, <2>2, <2>3, DoneStays
  <2> QED BY <2>1, <2>4
<1>6. \A j \in 1..(n + 1) : j \in 1..n \/ j = n + 1
  BY <1>0
<1> QED BY <1>2, <1>3, <1>4, <1>5, <1>6 DEF Advanced

LEMMA RunAllShape ==
    ASSUME NEW store, NEW s, NEW calls, IsList(calls), NEW run, run = RunAll(store, s, calls)
    PROVE  DOMAIN run = {"tables", "got", "raised"}
<1>0. PICK l \in Nat : l = Len(calls)
  BY DEF IsList
<1> DEFINE Good == {k \in 0..l : DOMAIN RunTo(store, s, calls, k) = {"tables", "got", "raised"}}
<1>1. 0 \in Good
  <2>1. RunTo(store, s, calls, 0) = RunsFrom(s)
    BY RunToNext
  <2> QED BY <2>1 DEF RunsFrom
<1>2. ASSUME NEW k \in 0..(l - 1), k \in Good PROVE k + 1 \in Good
  <2>1. PICK y, z : y = RunTo(store, s, calls, k) /\ z = RunTo(store, s, calls, k + 1)
    OBVIOUS
  <2>2. z = RunOn(store, y, calls[k + 1])
    BY <1>0, <2>1, NextRun
  <2>3. DOMAIN z = {"tables", "got", "raised"}
    BY <1>2, <2>1, <2>2 DEF RunOn
  <2> QED BY <2>1, <2>3
<1>3. 0..l \subseteq Good
  <2> HIDE DEF Good
  <2> QED BY <1>1, <1>2, CountingUp
<1>4. RunTo(store, s, calls, l) = run
  BY <1>0, RunToNext
<1> QED BY <1>3, <1>4

LEMMA WrittenIs ==
    ASSUME NEW b, NEW calls, NEW a, NEW g, NEW old, old = [bundle |-> b, calls |-> calls, at |-> a, got |-> g],
           NEW k, NEW got, NEW new, new = [old EXCEPT !.at = k, !.got = got]
    PROVE  new = [bundle |-> b, calls |-> calls, at |-> k, got |-> got]
  OBVIOUS

\* The transaction goes on.
LEMMA InvGoesOn ==
    ASSUME StoresInv, writing # NotWriting, NEW n, n = writing.at - 1, NEW calls, calls = writing.calls,
           NEW r, r = SeekCall(seek, calls[n + 1]), NEW got, got = Append(writing.got, r.answer),
           seek' = r.tables, ~Raises(r.answer), n + 1 # Len(calls),
           writing' = [writing EXCEPT !.at = @ + 1, !.got = got], UNCHANGED <<memory, answers, imported, torn>>
    PROVE  StoresInv'
<1>1. /\ writing = [bundle |-> writing.bundle, calls |-> calls, at |-> writing.at, got |-> writing.got]
      /\ Transaction(writing.bundle, calls) /\ writing.at \in 1..Len(calls)
      /\ \A j \in 1..n : Done(seek, calls[j])
  BY DEF StoresInv, WriterOK
<1>2. Ordered({}, calls)
  BY <1>1, TransactionIs
<1>3. Len(calls) \in Nat /\ n \in 0..(Len(calls) - 1) /\ n + 1 = writing.at /\ n + 2 \in 1..Len(calls)
  BY <1>1, <1>2 DEF Ordered, IsList
<1>4. MemoryOK(memory) /\ IsSeek(seek) /\ TablesOK(seek) /\ WholeIn(memory) /\ ImportedOK
  BY DEF StoresInv
<1>5. Advanced(seek, r, calls, n + 1)
  BY <1>1, <1>2, <1>3, <1>4, SeekAdvances
<1>6. writing' = [bundle |-> writing.bundle, calls |-> calls, at |-> n + 2, got |-> got]
  <2>1. PICK b, a, g : b = writing.bundle /\ a = writing.at /\ g = writing.got
    OBVIOUS
  <2>2. writing = [bundle |-> b, calls |-> calls, at |-> a, got |-> g] /\ a + 1 = n + 2
    BY <1>1, <1>3, <2>1
  <2>3. writing' = [writing EXCEPT !.at = a + 1, !.got = got]
    BY <2>1
  <2> QED BY <2>1, <2>2, <2>3, WrittenIs
<1>7. /\ writing'.bundle = writing.bundle /\ writing'.calls = calls /\ writing'.at = n + 2 /\ writing'.got = got
      /\ writing'.at - 1 = n + 1
  BY <1>3, <1>6
<1>8. IsSeek(seek') /\ TablesOK(seek') /\ Wider(seek, seek') /\ \A j \in 1..(n + 1) : Done(seek', calls[j])
  BY <1>5 DEF Advanced
<1>9. WriterOK'
  BY <1>1, <1>3, <1>6, <1>7, <1>8 DEF WriterOK
<1>10. ImportedOK'
  <2>1. ASSUME NEW b \in imported PROVE b \in DOMAIN Bundles /\ AllDone(memory, ImportPlans[b]) /\
                 AllDone(seek', ImportPlans[b])
    <3>1. b \in DOMAIN Bundles /\ AllDone(memory, ImportPlans[b]) /\ AllDone(seek, ImportPlans[b])
      BY <1>4, <2>1 DEF ImportedOK
    <3>2. AllDone(seek', ImportPlans[b])
      BY <1>8, <3>1, AllDoneStays
    <3> QED BY <3>1, <3>2
  <2> QED BY <2>1 DEF ImportedOK
<1>11. TogetherOK'
  <2>1. ASSUME ~torn
        PROVE  Along(n + 1, RunTo("memory", memory, calls, n + 1), seek', calls, got)
    <3>1. PICK run, run1 : run = RunTo("memory", memory, calls, n) /\
                             run1 = RunTo("memory", memory, calls, n + 1)
      OBVIOUS
    <3>2. Along(n, run, seek, calls, writing.got)
      BY <2>1, <3>1 DEF StoresInv, TogetherOK
    <3>3. Further(n + 1, run1, r, calls, got)
      BY <1>2, <1>3, <1>4, <3>1, <3>2, AlongNext
    <3> QED BY <3>1, <3>3 DEF Further, Along
  <2>2. writing' # NotWriting
    <3>1. NotWriting.at = 0
      BY DEF NotWriting
    <3>2. n + 2 # 0
      BY <1>3
    <3> QED BY <1>7, <3>1, <3>2
  <2>3. ~torn => AlikeAll(answers.calls, answers.memory, answers.seek)
    BY DEF StoresInv, TogetherOK
  <2> QED BY <1>7, <2>1, <2>2, <2>3 DEF TogetherOK
<1> QED BY <1>4, <1>8, <1>9, <1>10, <1>11 DEF StoresInv

\* The transaction ends, whole or at an exception.
LEMMA InvEnds ==
    ASSUME StoresInv, writing # NotWriting, NEW n, n = writing.at - 1, NEW calls, calls = writing.calls,
           NEW r, r = SeekCall(seek, calls[n + 1]), NEW got, got = Append(writing.got, r.answer),
           seek' = r.tables,
           NEW raised, raised = Raises(r.answer), raised \/ n + 1 = Len(calls), Ended(got, raised)
    PROVE  StoresInv'
<1>1. /\ Transaction(writing.bundle, calls) /\ writing.at \in 1..Len(calls)
      /\ \A j \in 1..n : Done(seek, calls[j])
  BY DEF StoresInv, WriterOK
<1>2. Ordered({}, calls)
  BY <1>1, TransactionIs
<1>3. Len(calls) \in Nat /\ n \in 0..(Len(calls) - 1) /\ n + 1 = writing.at /\ DOMAIN calls = 1..Len(calls)
  BY <1>1, <1>2 DEF Ordered, IsList
<1>4. MemoryOK(memory) /\ IsSeek(seek) /\ TablesOK(seek) /\ WholeIn(memory) /\ ImportedOK
  BY DEF StoresInv
<1>5. Advanced(seek, r, calls, n + 1)
  BY <1>1, <1>2, <1>3, <1>4, SeekAdvances
<1>6. PICK end, whole : end = RunAll("memory", memory, calls) /\ whole = MemTransaction(memory, calls)
  OBVIOUS
<1>7. PICK z : z = IF end.raised THEN memory ELSE end.tables
  OBVIOUS
<1>8. MemoryOK(z) /\ Wider(memory, z) /\ WholeIn(z) /\ (~end.raised => AllDone(z, calls))
  BY <1>1, <1>4, <1>6, <1>7, TransactionDone
<1>9. \A k \in 0..Len(calls) : RanOK(memory, calls, k, RunTo("memory", memory, calls, k))
  BY <1>2, <1>4, RunsOK
<1>10. whole.tables = z /\ whole.got = end.got /\ whole.raised = end.raised
  <2>1. whole = [end EXCEPT !.tables = IF end.raised THEN memory ELSE @]
    BY <1>6 DEF MemTransaction
  <2>2. DOMAIN end = {"tables", "got", "raised"}
    BY <1>2, <1>6, RunAllShape DEF Ordered
  <2> QED BY <1>7, <2>1, <2>2
<1>11. /\ memory' = z /\ answers' = [memory |-> end.got, seek |-> got, calls |-> calls]
       /\ imported' = IF raised \/ end.raised \/ writing.bundle = 0 THEN imported
                         ELSE imported \cup {writing.bundle}
       /\ torn' = (torn \/ (raised /\ n + 1 > 1)) /\ writing' = NotWriting
  BY <1>3, <1>6, <1>10 DEF Ended
<1>12. IsSeek(seek') /\ TablesOK(seek') /\ Wider(seek, seek') /\ (~raised => AllDone(seek', calls))
  BY <1>3, <1>5 DEF Advanced, AllDone
<1>13. WriterOK'
  BY <1>11 DEF WriterOK
<1>14. ImportedOK'
  <2>1. ASSUME NEW b \in imported PROVE b \in DOMAIN Bundles /\ AllDone(z, ImportPlans[b]) /\
                 AllDone(seek', ImportPlans[b])
    <3>1. b \in DOMAIN Bundles /\ AllDone(memory, ImportPlans[b]) /\ AllDone(seek, ImportPlans[b])
      BY <1>4, <2>1 DEF ImportedOK
    <3>2. AllDone(seek', ImportPlans[b]) /\ AllDone(z, ImportPlans[b])
      BY <1>8, <1>12, <3>1, AllDoneStays
    <3> QED BY <3>1, <3>2
  <2>2. ASSUME ~raised, ~end.raised, writing.bundle # 0
        PROVE  /\ writing.bundle \in DOMAIN Bundles
               /\ AllDone(z, ImportPlans[writing.bundle]) /\ AllDone(seek', ImportPlans[writing.bundle])
    BY <1>1, <1>8, <1>12, <2>2 DEF Transaction
  <2> QED BY <1>11, <2>1, <2>2 DEF ImportedOK
<1>15. TogetherOK'
  <2> SUFFICES ASSUME ~torn' PROVE AlikeAll(calls, end.got, got) /\ Same(seek', z)
    BY <1>11 DEF TogetherOK
  <2>1. ~torn /\ (raised => n = 0)
    <3>1. torn' = (torn \/ (raised /\ n + 1 > 1))
      BY <1>11
    <3>2. ~torn /\ ~(raised /\ n + 1 > 1)
      BY <3>1, Zenon
    <3> QED BY <1>3, <3>2
  <2>2. PICK run, run1 : run = RunTo("memory", memory, calls, n) /\ run1 = RunTo("memory", memory, calls, n + 1)
    OBVIOUS
  <2>3. Along(n, run, seek, calls, writing.got)
    BY <2>1, <2>2 DEF StoresInv, TogetherOK
  <2>4. Further(n + 1, run1, r, calls, got)
    BY <1>2, <1>3, <1>4, <2>2, <2>3, AlongNext
  <2>5. (run1.raised <=> raised) /\ Same(r.tables, run1.tables) /\ AlikeAll(calls, run1.got, got)
    BY <2>4 DEF Further
  <2>6. end = run1
    <3>1. n + 1 \in 0..Len(calls) /\ IsList(calls)
      BY <1>2, <1>3 DEF Ordered
    <3>2. CASE raised
      BY <1>6, <2>2, <2>5, <3>1, <3>2, RaisedStays
    <3>3. CASE ~raised
      BY <1>6, <2>2, <3>1, <3>3, RunToNext
    <3> QED BY <3>2, <3>3
  <2>7. Same(seek', z)
    <3>1. CASE ~raised
      BY <1>7, <2>5, <2>6, <3>1
    <3>2. CASE raised
      <4>1. run = RunsFrom(memory)
        BY <1>2, <2>1, <2>2, <3>2, RunToNext DEF Ordered
      <4>2. Same(seek, memory)
        BY <2>3, <4>1 DEF Along, RunsFrom
      <4>3. Same(seek, r.tables)
        BY <1>5, <3>2 DEF Advanced
      <4>4. Same(r.tables, memory)
        BY <4>2, <4>3 DEF Same
      <4> QED BY <1>7, <2>5, <2>6, <3>2, <4>4
    <3> QED BY <3>1, <3>2
  <2> QED BY <2>5, <2>6, <2>7
<1> QED BY <1>8, <1>11, <1>12, <1>13, <1>14, <1>15 DEF StoresInv

LEMMA InvKilled ==
    ASSUME StoresInv, WriterKilled
    PROVE  StoresInv'
<1>1. /\ writing # NotWriting /\ torn' = (torn \/ writing.at > 1) /\ writing' = NotWriting
      /\ memory' = memory /\ seek' = seek /\ answers' = answers /\ imported' = imported
  BY DEF WriterKilled
<1>2. PICK calls : calls = writing.calls
  OBVIOUS
<1>3. Transaction(writing.bundle, calls) /\ writing.at \in 1..Len(calls)
  BY <1>1, <1>2 DEF StoresInv, WriterOK
<1>4. IsList(calls) /\ Len(calls) \in Nat
  <2>1. Ordered({}, calls)
    BY <1>3, TransactionIs
  <2> QED BY <2>1 DEF Ordered, IsList
<1>5. TogetherOK'
  <2> SUFFICES ASSUME ~torn' PROVE AlikeAll(answers.calls, answers.memory, answers.seek) /\ Same(seek, memory)
    BY <1>1 DEF TogetherOK
  <2>1. ~torn /\ writing.at - 1 = 0
    <3>1. torn' = (torn \/ writing.at > 1)
      BY <1>1
    <3>2. ~torn /\ ~(writing.at > 1)
      BY <3>1, Zenon
    <3> QED BY <1>3, <1>4, <3>2
  <2>2. PICK run : run = RunTo("memory", memory, calls, 0)
    OBVIOUS
  <2>3. run = RunsFrom(memory)
    BY <1>4, <2>2, RunToNext
  <2>4. Along(0, run, seek, calls, writing.got) /\ AlikeAll(answers.calls, answers.memory, answers.seek)
    BY <1>1, <1>2, <2>1, <2>2 DEF StoresInv, TogetherOK
  <2> QED BY <2>3, <2>4 DEF Along, RunsFrom
<1> QED BY <1>1, <1>5 DEF StoresInv, WriterOK, ImportedOK

\* Killed with the feedback stored and no place for it in the queue.
LEMMA InvCut ==
    ASSUME StoresInv, FeedbackCut
    PROVE  StoresInv'
<1>1. PICK row, put : /\ put = FeedbackStored(seek, row) /\ put.answer = "written"
                      /\ seek' = put.tables
  BY DEF FeedbackCut
<1>2. torn' = TRUE /\ writing' = NotWriting /\ UNCHANGED <<memory, answers, imported>>
  BY DEF FeedbackCut
<1>3. MemoryOK(memory) /\ IsSeek(seek) /\ TablesOK(seek) /\ WholeIn(memory) /\ ImportedOK
  BY DEF StoresInv
<1>4. PICK f, g, s, z : f = "feedback" /\ g = "governance" /\ s = seek /\ z = put.tables
  OBVIOUS
<1>5. f \in TableNames /\ g \in TableNames /\ f # g
  BY <1>4, TablesAre
<1>6. put = SeekFixed(s, f, row, "conflict") /\ "written" \notin {"conflict", "same"}
  BY <1>1, <1>4 DEF FeedbackStored
<1>7. IsSeek(z) /\ OneRow(s, z, f, row.id, row)
  BY <1>1, <1>3, <1>4, <1>5, <1>6, SeekFixedIs
<1>8. /\ \A u \in TableNames : u # f => z[u] = s[u]
      /\ DOMAIN z[f] = DOMAIN s[f] \cup {row.id} /\ z[f] = [i \in DOMAIN z[f] |-> z[f][i]]
  BY <1>5, <1>7, OneRowIs
<1>9. AreTables(s) /\ Queued(s) /\ AnswersQueued(s) /\ TablesOK(s)
  BY <1>3, <1>4 DEF TablesOK
<1>10. z[g] = s[g]
  BY <1>5, <1>8
<1>11. Queued(z) /\ AnswersQueued(z)
  BY <1>4, <1>8, <1>9, <1>10 DEF Queued, AnswersQueued
<1>12. \A u \in {"feedback", "governance"} :
          DOMAIN s[u] \subseteq DOMAIN z[u] /\ z[u] = [i \in DOMAIN z[u] |-> z[u][i]]
  BY <1>4, <1>5, <1>8, <1>9, <1>10 DEF AreTables
<1>13. \A u \in TableNames \ {"feedback", "governance"} : z[u] = s[u]
  BY <1>4, <1>8
<1>14. TablesOK(z) /\ Wider(s, z)
  BY <1>9, <1>11, <1>12, <1>13, QueueKeeps
<1>15. IsSeek(seek') /\ TablesOK(seek') /\ Wider(seek, seek')
  BY <1>1, <1>4, <1>7, <1>14
<1>16. ImportedOK'
  <2>1. ASSUME NEW b \in imported PROVE b \in DOMAIN Bundles /\ AllDone(memory, ImportPlans[b]) /\
                 AllDone(seek', ImportPlans[b])
    <3>1. b \in DOMAIN Bundles /\ AllDone(memory, ImportPlans[b]) /\ AllDone(seek, ImportPlans[b])
      BY <1>3, <2>1 DEF ImportedOK
    <3>2. AllDone(seek', ImportPlans[b])
      BY <1>15, <3>1, AllDoneStays
    <3> QED BY <3>1, <3>2
  <2> QED BY <1>2, <2>1 DEF ImportedOK
<1>17. WriterOK' /\ TogetherOK'
  BY <1>2 DEF WriterOK, TogetherOK
<1> QED BY <1>2, <1>3, <1>15, <1>16, <1>17 DEF StoresInv

LEMMA InvStep == StoresInv /\ [StoresNext]_stores_vars => StoresInv'
<1> SUFFICES ASSUME StoresInv, [StoresNext]_stores_vars PROVE StoresInv'
  OBVIOUS
<1>1. ASSUME NEW i \in DOMAIN Bundles, StartImport(i) PROVE StoresInv'
  <2>1. Transaction(i, ImportPlans[i]) /\ Starts(i, ImportPlans[i])
    BY <1>1 DEF StartImport, Transaction
  <2> QED BY <2>1, InvStarts
<1>2. ASSUME NEW w \in DOMAIN ClientWrites, StartWrites(w) PROVE StoresInv'
  <2>1. Transaction(0, ClientWrites[w]) /\ Starts(0, ClientWrites[w])
    BY <1>2 DEF StartWrites, Transaction
  <2> QED BY <2>1, InvStarts
<1>3. ASSUME WriteNext PROVE StoresInv'
  <2>1. PICK n, calls : n = writing.at - 1 /\ calls = writing.calls
    OBVIOUS
  <2>2. writing # NotWriting
    BY <1>3 DEF WriteNext
  <2>3. writing.at = n + 1 /\ n + 1 \in Int
    <3>1. PICK l : l = Len(calls) /\ writing.at \in 1..l /\ l \in Nat
      <4>1. writing.at \in 1..Len(calls) /\ Transaction(writing.bundle, calls)
        BY <2>1, <2>2 DEF StoresInv, WriterOK
      <4>2. Ordered({}, calls)
        BY <4>1, TransactionIs
      <4> QED BY <4>1, <4>2 DEF Ordered, IsList
    <3> QED BY <2>1, <3>1
  <2>4. PICK r, got, raised : r = SeekCall(seek, calls[n + 1]) /\ got = Append(writing.got, r.answer) /\
                                raised = Raises(r.answer)
    OBVIOUS
  <2>5. /\ seek' = r.tables
        /\ IF raised \/ n + 1 = Len(calls) THEN Ended(got, raised)
           ELSE /\ writing' = [writing EXCEPT !.at = @ + 1, !.got = got]
                /\ UNCHANGED <<memory, answers, imported, torn>>
    BY <1>3, <2>1, <2>3, <2>4 DEF WriteNext
  <2>6. CASE raised \/ n + 1 = Len(calls)
    <3>1. Ended(got, raised)
      BY <2>5, <2>6
    <3> QED BY <2>1, <2>2, <2>4, <2>5, <2>6, <3>1, InvEnds
  <2>7. CASE ~(raised \/ n + 1 = Len(calls))
    <3>1. /\ writing' = [writing EXCEPT !.at = @ + 1, !.got = got]
          /\ UNCHANGED <<memory, answers, imported, torn>>
      BY <2>5, <2>7
    <3> QED BY <2>1, <2>2, <2>4, <2>5, <2>7, <3>1, InvGoesOn
  <2> QED BY <2>6, <2>7
<1>4. CASE WriterKilled \/ FeedbackCut
  BY <1>4, InvKilled, InvCut
<1>5. CASE UNCHANGED stores_vars
  BY <1>5 DEF stores_vars, StoresInv, WriterOK, ImportedOK, TogetherOK
<1> QED BY <1>1, <1>2, <1>3, <1>4, <1>5 DEF StoresNext

\* Whatever is imported and written, refused, rolled back or killed: the tables of
\* both stores hold together, and are those of the same calls unless torn.
THEOREM StoresStand == StoresSpec => []StoresInv
  BY InvInit, InvStep, PTL DEF StoresSpec

-----------------------------------------------------------------------------
(* A search: the shares that the rankings give, and what they sum to.       *)

\* No more than the first of a ranking gets.
MostShare == 16393

PartOf(d) == 1000000 \div d

LEMMA ShareAtMost ==
    ASSUME NEW d \in Nat, d >= 61
    PROVE  PartOf(d) \in 0..MostShare
<1>1. PICK k : k = PartOf(d)
  OBVIOUS
<1>2. k \in Int /\ k >= 0 /\ d * k <= 1000000
  BY SMT, <1>1 DEF PartOf
<1>3. k <= 16393
  <2>1. PICK p \in Int : p = d * k /\ p <= 1000000
    BY SMT, <1>2
  <2>2. PICK c \in Nat : d = 61 + c
    <3>1. d - 61 \in Nat
      BY SMT
    <3>2. PICK c : c = d - 61
      OBVIOUS
    <3> QED BY SMT, <3>1, <3>2
  <2>3. p = 61 * k + c * k /\ c * k >= 0
    BY SMT, <1>2, <2>1, <2>2
  <2>4. p >= 61 * k
    BY SMT, <1>2, <2>1, <2>3
  <2> QED BY SMT, <1>2, <2>1, <2>4
<1>4. k \in 0..MostShare
  BY <1>2, <1>3, SMTT(40) DEF MostShare
<1> QED BY <1>1, <1>4

LEMMA ShareIs ==
    ASSUME NEW scores, IsFiniteSet(DOMAIN scores), NEW id
    PROVE  Share(scores, id) \in 0..MostShare
<1>1. PICK S : S = {other \in DOMAIN scores : Ahead(scores, other, id)}
  OBVIOUS
<1>2. Cardinality(S) \in Nat /\ PlaceIn(scores, id) = Cardinality(S) + 1
  BY <1>1, FS_Subset, FS_CardinalityType DEF PlaceIn
<1>3. PICK d \in Nat : d = 60 + PlaceIn(scores, id) /\ d >= 61
  BY <1>2
<1>4. PartOf(d) \in 0..MostShare
  BY <1>3, ShareAtMost
<1>5. Share(scores, id) = PartOf(d) \/ Share(scores, id) = 0
  BY SMT, <1>3 DEF Share, RankConstant, PartOf
<1>6. 0 \in 0..MostShare
  BY SMT DEF MostShare
<1> QED BY <1>4, <1>5, <1>6, Zenon

\* A sum of at most so much each.
LEMMA SumAtMost ==
    ASSUME NEW D, IsFiniteSet(D), NEW f \in [D -> 0..MostShare]
    PROVE  FoldSum(f) \in Nat /\ FoldSum(f) <= MostShare * Cardinality(D)
<1>1. PICK G : G = TheSums(f)
  OBVIOUS
<1>2. SumsOf(G, f, D) /\ FoldSum(f) = G[D] /\ DOMAIN f = D
  BY <1>1, SumUnfolded
<1> DEFINE Good == {s \in SUBSET D : G[s] \in Nat /\ G[s] <= MostShare * Cardinality(s)}
<1>3. {} \in Good
  <2>1. MostShare * 0 = 0
    BY SMT DEF MostShare
  <2> QED BY <1>2, <2>1, FS_EmptySet DEF SumsOf
<1>4. ASSUME NEW s \in SUBSET D, s # {}, s \ {First(s)} \in Good PROVE s \in Good
  <2>1. PICK x : x = First(s) /\ x \in s
    BY <1>4, FirstIn
  <2>2. G[s] = G[s \ {x}] + f[x] /\ f[x] \in 0..MostShare
    BY <1>2, <1>4, <2>1 DEF SumsOf
  <2>3. IsFiniteSet(s) /\ Cardinality(s) \in Nat
    BY FS_Subset, FS_CardinalityType
  <2>4. Cardinality(s \ {x}) = Cardinality(s) - 1
    BY <2>1, <2>3, FS_RemoveElement
  <2>5. PICK c, g \in Nat : c = Cardinality(s) /\ g = G[s \ {x}] /\ g <= MostShare * (c - 1) /\ c \in Nat
    BY <1>4, <2>1, <2>3, <2>4
  <2>a. PICK y : y \in 0..MostShare /\ y = f[x] /\ G[s] = g + y
    BY <2>2, <2>5
  <2>b. g + y \in Nat /\ g + y <= MostShare * c
    <3>a. y \in 0..16393
      <4>1. y \in 0..MostShare
        BY <2>a
      <4> QED BY <4>1, SMTT(40) DEF MostShare
    <3>b. g <= 16393 * (c - 1)
      BY SMT, <2>5 DEF MostShare
    <3>1. y \in Nat /\ y <= 16393 /\ g <= 16393 * (c - 1)
      BY SMT, <3>a, <3>b
    <3>2. g + y <= 16393 * c
      BY SMT, <2>5, <3>1
    <3>3. MostShare * c = 16393 * c
      BY SMT DEF MostShare
    <3> QED BY SMT, <2>5, <3>1, <3>2, <3>3
  <2>6. G[s] \in Nat /\ G[s] <= MostShare * c
    BY <2>a, <2>b
  <2> QED BY <2>5, <2>6
<1>5. SUBSET D \subseteq Good
  <2> HIDE DEF Good
  <2> QED BY <1>3, <1>4, SubsetInduction
<1>6. D \in Good
  BY <1>5
<1> QED BY <1>2, <1>6

\* What the rankings give to an id.
Shares(rankings, id) == [r \in DOMAIN rankings |-> Share(rankings[r], id)]
AreRankings(rankings) ==
    /\ IsFiniteSet(DOMAIN rankings) /\ Cardinality(DOMAIN rankings) <= 8
    /\ \A r \in DOMAIN rankings : IsFiniteSet(DOMAIN rankings[r])

LEMMA FusedIs ==
    ASSUME NEW rankings, AreRankings(rankings), NEW id
    PROVE  Fused(rankings, id) \in 0..(8 * MostShare)
<1>1. PICK S : S = DOMAIN rankings
  OBVIOUS
<1>2. PICK f : f = Shares(rankings, id)
  OBVIOUS
<1>3. IsFiniteSet(S) /\ f \in [S -> 0..MostShare] /\ \A r \in S : f[r] = Share(rankings[r], id) /\ f[r] \in Int
  <2>1. IsFiniteSet(S) /\ \A r \in S : Share(rankings[r], id) \in 0..MostShare
    BY <1>1, ShareIs DEF AreRankings
  <2> QED BY <1>1, <1>2, <2>1 DEF Shares
<1>4. DOMAIN f = S
  BY <1>3
<1>5. PICK G : G = TheSums(f)
  OBVIOUS
<1>6. SumsOf(G, f, S) /\ FoldSum(f) = G[S]
  BY <1>3, <1>4, <1>5, SumUnfolded
<1> DEFINE Counts(h) == h = [s \in SUBSET S |-> IF s = {} THEN 0
                                                ELSE Share(rankings[First(s)], id) + h[s \ {First(s)}]]
           h == CHOOSE g : Counts(g)
<1>7. Fused(rankings, id) = h[S]
  BY <1>1 DEF Fused, MapThenSumSet, MapThenFoldSet, First
<1>8. Counts(G)
  <2>1. Commutes(G, f, S)
    BY <1>3, <1>6, SumsCommute
  <2>2. ASSUME NEW s \in SUBSET S, s # {} PROVE G[s] = Share(rankings[First(s)], id) + G[s \ {First(s)}]
    <3>1. First(s) \in s /\ First(s) \in S /\ s \ {First(s)} \in SUBSET S
      BY <2>2, FirstIn
    <3>2. G[s] = G[s \ {First(s)}] + f[First(s)] /\ G[s \ {First(s)}] \in Int /\ f[First(s)] \in Int
      BY <1>3, <2>1, <3>1 DEF Commutes
    <3> QED BY <1>3, <3>1, <3>2
  <2>3. G[{}] = 0 /\ G = [s \in SUBSET S |-> G[s]]
    BY <1>6 DEF SumsOf
  <2> QED BY <2>2, <2>3
<1>9. Counts(h)
  <2> HIDE DEF Counts
  <2> QED BY <1>8
<1>10. Follows(h, f, S)
  <2>1. ASSUME NEW s \in SUBSET S, s # {} PROVE h[s] = f[First(s)] + h[s \ {First(s)}]
    <3>1. First(s) \in S
      BY <2>1, FirstIn
    <3> QED BY <1>3, <1>9, <2>1, <3>1
  <2>2. h[{}] = 0
    BY <1>9
  <2> HIDE DEF h
  <2> QED BY <2>1, <2>2 DEF Follows
<1>11. FoldSum(f) = h[S]
  <2> HIDE DEF h
  <2> QED BY <1>3, <1>4, <1>10, SumKnown
<1>12. FoldSum(f) \in Nat /\ FoldSum(f) <= MostShare * Cardinality(S)
  BY <1>3, SumAtMost
<1>13. Cardinality(S) \in Nat /\ Cardinality(S) <= 8
  BY <1>1, <1>3, FS_CardinalityType DEF AreRankings
<1>14. PICK k \in Nat, c \in Nat : k = FoldSum(f) /\ c = Cardinality(S) /\ c <= 8 /\ k <= MostShare * c
  BY <1>12, <1>13
<1>15. k \in 0..(8 * MostShare)
  <2>1. MostShare * c <= 8 * MostShare /\ MostShare * c \in Int /\ 8 * MostShare \in Int
    BY SMT, <1>14 DEF MostShare
  <2>2. PICK u, v \in Int : u = MostShare * c /\ v = 8 * MostShare
    BY <2>1
  <2> QED BY <1>14, <2>1, <2>2
<1> HIDE DEF h
<1> QED BY <1>7, <1>11, <1>14, <1>15

-----------------------------------------------------------------------------
(* How far the exact scores of a query are apart.                           *)

PartsOf(k, c) == (60 * k) \div c

LEMMA PartsApart ==
    ASSUME NEW c \in 1..15, NEW j \in 0..c, NEW k \in 0..c
    PROVE  /\ PartsOf(j, c) \in 0..60 /\ PartsOf(c, c) = 60
           /\ j < k => PartsOf(j, c) + 4 <= PartsOf(k, c)
<1>1. ASSUME NEW i \in 0..c PROVE PartsOf(i, c) \in 0..60
  <2>1. PICK x : x = PartsOf(i, c)
    OBVIOUS
  <2>2. x \in Int /\ c * x <= 60 * i /\ 60 * i < c * (x + 1) /\ c \in Nat /\ c >= 1
    BY SMT, <2>1 DEF PartsOf
  <2>3. x >= 0
    <3> SUFFICES ASSUME x <= -1 PROVE FALSE
      BY SMT, <2>2
    <3>1. c * (x + 1) <= 0
      BY SMT, <2>2
    <3> QED BY SMT, <2>2, <3>1
  <2>4. x <= 60
    <3> SUFFICES ASSUME x >= 61 PROVE FALSE
      BY SMT, <2>2
    <3>1. c * x >= c * 61
      BY SMT, <2>2
    <3>2. c * 61 = 61 * c
      BY SMT
    <3> QED BY SMT, <2>2, <3>1, <3>2
  <2> QED BY <2>1, <2>2, <2>3, <2>4
<1>2. PartsOf(c, c) = 60
  BY SMT DEF PartsOf
<1>3. ASSUME j < k PROVE PartsOf(j, c) + 4 <= PartsOf(k, c)
  <2>1. PICK x, y : x = PartsOf(j, c) /\ y = PartsOf(k, c)
    OBVIOUS
  <2>2. x \in Int /\ y \in Int /\ c * x <= 60 * j /\ 60 * k < c * (y + 1) /\ c \in Nat /\ c >= 1
    BY SMT, <2>1 DEF PartsOf
  <2>3. c * (x + 4) < c * (y + 1)
    <3>1. c * (x + 4) = c * x + 4 * c
      BY SMT, <2>2
    <3> QED BY SMT, <1>3, <2>2, <3>1
  <2>4. x + 4 < y + 1
    <3> SUFFICES ASSUME y + 1 <= x + 4 PROVE FALSE
      BY SMT, <2>2
    <3>1. c * (y + 1) <= c * (x + 4)
      BY SMT, <2>2
    <3> QED BY SMT, <2>2, <2>3, <3>1
  <2> QED BY SMT, <2>1, <2>2, <2>4
<1> QED BY <1>1, <1>2, <1>3

\* What the exact score of a query may be.
MayScore(query, x) ==
    \/ query = << >> /\ x = 0
    \/ query # << >> /\ \E k \in 0..Cardinality(ToSet(query)) : x = PartsOf(k, Cardinality(ToSet(query)))
Asks(query) == query \in Seq(ToSet(query)) /\ Cardinality(ToSet(query)) <= MaxAsked

LEMMA WordsAsked ==
    ASSUME NEW query, Asks(query), query # << >>
    PROVE  IsFiniteSet(ToSet(query)) /\ Cardinality(ToSet(query)) \in 1..15
<1>1. PICK T : T = ToSet(query)
  OBVIOUS
<1>2. PICK n \in Nat : n = Len(query) /\ query \in [1..n -> T] /\ n # 0
  <2>1. query \in Seq(T)
    BY <1>1 DEF Asks
  <2> QED BY <2>1
<1>3. query \in Surjection(1..n, T)
  BY <1>1, <1>2 DEF Surjection, ToSet
<1>4. IsFiniteSet(T)
  BY <1>2, <1>3, FS_Interval, FS_Surjection
<1>5. T # {}
  BY <1>1, <1>2 DEF ToSet
<1>6. Cardinality(T) \in Nat /\ Cardinality(T) # 0
  BY <1>4, <1>5, FS_CardinalityType, FS_EmptySet
<1>7. Cardinality(T) <= 15
  BY <1>1 DEF Asks, MaxAsked
<1> QED BY <1>1, <1>4, <1>6, <1>7

LEMMA ExactMayBe ==
    ASSUME NEW query, Asks(query), NEW text
    PROVE  MayScore(query, ExactScore(query, text))
<1>1. CASE query = << >>
  BY <1>1 DEF MayScore, ExactScore
<1>2. CASE query # << >>
  <2>1. PICK T, c : T = ToSet(query) /\ c = Cardinality(T)
    OBVIOUS
  <2>2. IsFiniteSet(T) /\ c \in 1..15
    BY <1>2, <2>1, WordsAsked
  <2>3. PICK k : k = Cardinality(T \cap ToSet(text))
    OBVIOUS
  <2>4. k \in 0..c
    <3>1. IsFiniteSet(T \cap ToSet(text)) /\ Cardinality(T \cap ToSet(text)) <= Cardinality(T)
      BY <2>2, FS_Subset
    <3>2. Cardinality(T \cap ToSet(text)) \in Nat
      BY <3>1, FS_CardinalityType
    <3> QED BY <2>1, <2>2, <2>3, <3>1, <3>2
  <2>5. ExactScore(query, text) = 60 \/ ExactScore(query, text) = PartsOf(k, c)
    <3>1. ExactScore(query, text) = IF HasPhrase(text, query) THEN 60 ELSE PartsOf(k, c)
      BY <1>2, <2>1, <2>3, Zenon DEF ExactScore, PartsOf
    <3> QED BY <3>1, Zenon
  <2>6. c \in 0..c /\ PartsOf(c, c) = 60
    BY <2>2, <2>4, PartsApart, SMTT(40)
  <2> QED BY <1>2, <2>1, <2>4, <2>5, <2>6 DEF MayScore
<1> QED BY <1>1, <1>2

LEMMA ScoresApart ==
    ASSUME NEW query, Asks(query), NEW x, MayScore(query, x), NEW y, MayScore(query, y)
    PROVE  /\ x \in 0..60 /\ y \in 0..60
           /\ x < y => x + 4 <= y
<1>1. CASE query = << >>
  BY <1>1 DEF MayScore
<1>2. CASE query # << >>
  <2>1. PICK c \in 1..15 : c = Cardinality(ToSet(query))
    BY <1>2, WordsAsked
  <2>2. PICK j \in 0..c, k \in 0..c : x = PartsOf(j, c) /\ y = PartsOf(k, c)
    BY <1>2, <2>1 DEF MayScore
  <2>3. x \in 0..60 /\ y \in 0..60 /\ (j < k => x + 4 <= y) /\ (k < j => y + 4 <= x)
    BY <2>2, PartsApart
  <2>4. j = k => x = y
    BY <2>2
  <2>5. j < k \/ k < j \/ j = k
    OBVIOUS
  <2> QED BY <2>3, <2>4, <2>5
<1> QED BY <1>1, <1>2

LEMMA MostShares == 8 * MostShare = 131144
  BY SMT DEF MostShare

\* The ranks do not outweigh a word.
LEMMA BlendKeeps ==
    ASSUME NEW query, Asks(query), NEW x, MayScore(query, x), NEW y, MayScore(query, y),
           NEW f \in 0..(8 * MostShare), NEW g \in 0..(8 * MostShare)
    PROVE  /\ Blend(x, f) \in Int /\ Blend(y, g) \in Int
           /\ Blend(x, f) >= Blend(y, g) => x >= y
<1>1. x \in 0..60 /\ y \in 0..60 /\ (x < y => x + 4 <= y)
  BY ScoresApart
<1>2. f \in Nat /\ g \in Nat /\ f <= 131144 /\ g <= 131144
  <2>1. PICK m \in Int : m = 8 * MostShare /\ m = 131144
    BY SMT, MostShares
  <2>2. f \in 0..m /\ g \in 0..m
    BY <2>1
  <2> QED BY SMT, <2>1, <2>2
<1>3. \A u \in 0..60 : Blend(u, f) = 116662 * u + 3 * f /\ Blend(u, g) = 116662 * u + 3 * g
  BY SMT DEF Blend
<1>4. Blend(x, f) = 116662 * x + 3 * f /\ Blend(y, g) = 116662 * y + 3 * g
  BY SMT, <1>1, <1>3
<1>5. ASSUME x < y PROVE ~(116662 * x + 3 * f >= 116662 * y + 3 * g)
  BY SMT, <1>1, <1>2, <1>5
<1> QED BY SMT, <1>1, <1>2, <1>4, <1>5

-----------------------------------------------------------------------------
(* A ranking.                                                               *)

LEMMA IdLessIs ==
    ASSUME NEW a \in Int \X Int, NEW b \in Int \X Int
    PROVE  IdLess(a, b) <=> a[1] < b[1] \/ (a[1] = b[1] /\ a[2] < b[2])
<1>1. DOMAIN a = {1, 2} /\ a[1] \in Int /\ a[2] \in Int /\ b[1] \in Int /\ b[2] \in Int
  OBVIOUS
<1>2. 1..(1 - 1) = {} /\ 1..(2 - 1) = {1}
  OBVIOUS
<1> QED BY <1>1, <1>2 DEF IdLess

AreScores(scores) ==
    /\ IsFiniteSet(DOMAIN scores) /\ DOMAIN scores \subseteq Int \X Int
    /\ \A id \in DOMAIN scores : scores[id] \in Int

Aheads(scores) == {p \in (DOMAIN scores) \X (DOMAIN scores) : Ahead(scores, p[1], p[2])}

\* The better score and then the lesser id is an order.
LEMMA AheadIsOrder ==
    ASSUME NEW scores, AreScores(scores)
    PROVE  LinearOn(Aheads(scores), DOMAIN scores)
<1>1. PICK S, R : S = DOMAIN scores /\ R = Aheads(scores)
  OBVIOUS
<1>2. \A x \in S : x \in Int \X Int /\ scores[x] \in Int /\ x[1] \in Int /\ x[2] \in Int /\ x = <<x[1], x[2]>>
  BY <1>1 DEF AreScores
<1>3. ASSUME NEW x \in S, NEW y \in S
      PROVE  <<x, y>> \in R <=> scores[x] > scores[y] \/
               (scores[x] = scores[y] /\ (x[1] < y[1] \/ (x[1] = y[1] /\ x[2] < y[2])))
  <2>1. <<x, y>> \in R <=> Ahead(scores, x, y)
    BY <1>1 DEF Aheads
  <2>2. IdLess(x, y) <=> x[1] < y[1] \/ (x[1] = y[1] /\ x[2] < y[2])
    BY <1>2, IdLessIs
  <2> QED BY <2>1, <2>2 DEF Ahead
<1>4. \A x \in S : <<x, x>> \notin R
  BY <1>2, <1>3
<1>5. \A x, y, z \in S : <<x, y>> \in R /\ <<y, z>> \in R => <<x, z>> \in R
  <2> SUFFICES ASSUME NEW x \in S, NEW y \in S, NEW z \in S, <<x, y>> \in R, <<y, z>> \in R PROVE <<x, z>> \in R
    OBVIOUS
  <2>1. PICK a, b, c \in Int : a = scores[x] /\ b = scores[y] /\ c = scores[z]
    BY <1>2
  <2>2. PICK x1, x2, y1, y2, z1, z2 \in Int : x1 = x[1] /\ x2 = x[2] /\ y1 = y[1] /\ y2 = y[2] /\
                                                z1 = z[1] /\ z2 = z[2]
    BY <1>2
  <2>3. a > b \/ (a = b /\ (x1 < y1 \/ (x1 = y1 /\ x2 < y2)))
    BY <1>3, <2>1, <2>2
  <2>4. b > c \/ (b = c /\ (y1 < z1 \/ (y1 = z1 /\ y2 < z2)))
    BY <1>3, <2>1, <2>2
  <2>5. a > c \/ (a = c /\ (x1 < z1 \/ (x1 = z1 /\ x2 < z2)))
    BY <2>3, <2>4
  <2> QED BY <1>3, <2>1, <2>2, <2>5
<1>6. \A x, y \in S : x # y => <<x, y>> \in R \/ <<y, x>> \in R
  <2> SUFFICES ASSUME NEW x \in S, NEW y \in S, x # y PROVE <<x, y>> \in R \/ <<y, x>> \in R
    OBVIOUS
  <2>1. x[1] # y[1] \/ x[2] # y[2]
    BY <1>2
  <2> QED BY <1>2, <1>3, <2>1
<1> QED BY <1>1, <1>4, <1>5, <1>6 DEF LinearOn

\* seq is the ids in the order of their scores.
BestFirst(seq, n, scores) ==
    /\ n \in Nat /\ n = Cardinality(DOMAIN scores) /\ DOMAIN seq = 1..n /\ seq \in Seq(DOMAIN scores) /\
         Len(seq) = n
    /\ \A i, j \in 1..n : i < j => scores[seq[i]] >= scores[seq[j]]
    /\ \A id \in DOMAIN scores : \E i \in 1..n : seq[i] = id

LEMMA RankedIs ==
    ASSUME NEW scores, AreScores(scores), NEW seq, seq = Ranked(scores)
    PROVE  BestFirst(seq, Cardinality(DOMAIN scores), scores)
<1>1. PICK S, R, n : n \in Nat /\ S = DOMAIN scores /\ R = Aheads(scores) /\ n = Cardinality(S)
  BY FS_CardinalityType DEF AreScores
<1>2. IsFiniteSet(S) /\ LinearOn(R, S) /\ \A id \in S : scores[id] \in Int
  BY <1>1, AheadIsOrder DEF AreScores
<1>3. ASSUME NEW id \in S PROVE PlaceIn(scores, id) = Cardinality(Preceding(R, S, id)) + 1
  <2>1. {other \in DOMAIN scores : Ahead(scores, other, id)} = Preceding(R, S, id)
    BY <1>1 DEF Preceding, Aheads
  <2> QED BY <2>1 DEF PlaceIn
<1>4. ASSUME NEW k \in 1..n PROVE seq[k] \in S /\ PlaceIn(scores, seq[k]) = k
  <2>1. PICK x \in S : Cardinality(Preceding(R, S, x)) = k - 1
    BY <1>1, <1>2, PlacesTaken
  <2>2. PlaceIn(scores, x) = k
    BY <1>3, <2>1
  <2>3. seq[k] = CHOOSE id \in S : PlaceIn(scores, id) = k
    BY <1>1 DEF Ranked
  <2> QED BY <2>2, <2>3
<1>5. DOMAIN seq = 1..n /\ seq = [k \in 1..n |-> seq[k]]
  BY <1>1 DEF Ranked
<1>6. seq \in Seq(S) /\ Len(seq) = n
  BY <1>1, <1>4, <1>5
<1>7. ASSUME NEW i \in 1..n, NEW j \in 1..n, i < j PROVE scores[seq[i]] >= scores[seq[j]]
  <2>1. PICK x \in S, y \in S : x = seq[i] /\ y = seq[j]
    BY <1>4
  <2>2. Cardinality(Preceding(R, S, x)) = i - 1 /\ Cardinality(Preceding(R, S, y)) = j - 1
    <3>1. /\ Cardinality(Preceding(R, S, x)) + 1 = i /\ Cardinality(Preceding(R, S, y)) + 1 = j
          /\ Cardinality(Preceding(R, S, x)) \in 0..(Cardinality(S) - 1)
          /\ Cardinality(Preceding(R, S, y)) \in 0..(Cardinality(S) - 1)
      BY <1>2, <1>3, <1>4, <2>1, PlacesDiffer
    <3> QED BY <1>1, <3>1
  <2>3. <<y, x>> \notin R
    <3>1. <<y, x>> \in R => Cardinality(Preceding(R, S, y)) < Cardinality(Preceding(R, S, x))
      BY <1>2, PlacesDiffer
    <3> QED BY <1>7, <2>2, <3>1
  <2>4. x # y
    BY <1>7, <2>2
  <2>5. <<x, y>> \in R
    BY <1>2, <2>3, <2>4 DEF LinearOn
  <2>6. scores[x] >= scores[y]
    BY <1>1, <1>2, <2>5 DEF Aheads, Ahead
  <2> QED BY <2>1, <2>6
<1>8. ASSUME NEW id \in S PROVE \E i \in 1..n : seq[i] = id
  <2>1. PICK p : p = Cardinality(Preceding(R, S, id)) /\ p \in 0..(n - 1)
    BY <1>1, <1>2, PlacesDiffer
  <2>2. p + 1 \in 1..n
    BY <1>1, <2>1
  <2>3. PICK x \in S : x = seq[p + 1] /\ PlaceIn(scores, x) = p + 1
    BY <1>4, <2>2
  <2>4. Cardinality(Preceding(R, S, x)) + 1 = p + 1 /\ Cardinality(Preceding(R, S, x)) \in 0..(n - 1)
    BY <1>1, <1>2, <1>3, <2>3, PlacesDiffer
  <2>5. Cardinality(Preceding(R, S, x)) = Cardinality(Preceding(R, S, id))
    BY <1>1, <2>1, <2>4
  <2>6. x = id
    BY <1>2, <2>5, PlacesDiffer
  <2> QED BY <2>2, <2>3, <2>6
<1> QED BY <1>1, <1>5, <1>6, <1>7, <1>8 DEF BestFirst

\* part is the first m of seq.
Cut(part, seq, m) ==
    /\ DOMAIN part = 1..m /\ \A i \in 1..m : part[i] = seq[i]

LEMMA CutIs ==
    ASSUME NEW T, NEW seq \in Seq(T), NEW m \in 0..Len(seq)
    PROVE  Cut(SubSeq(seq, 1, m), seq, m)
  BY DEF Cut

\* How much of n is shown.
Slice(n, limit) == IF limit < 0 THEN Max({0, n + limit}) ELSE Min({limit, n})

LEMMA SliceIs ==
    ASSUME NEW n \in Nat, NEW limit \in Int, NEW m, m = Slice(n, limit)
    PROVE  /\ m \in 0..n
           /\ limit >= n => m = n
           /\ limit > 0 /\ n > 0 => m > 0
<1>1. CASE limit < 0
  <2>1. PICK k \in Int : k = n + limit /\ k < n
    BY <1>1
  <2>2. PICK top : top = IF k > 0 THEN k ELSE 0
    OBVIOUS
  <2>3. Max({0, k}) = top
    <3>1. top \in {0, k} /\ \A y \in {0, k} : top >= y
      BY <2>1, <2>2
    <3>2. \A x \in {0, k} : (\A y \in {0, k} : x >= y) => x = top
      BY <2>1, <2>2
    <3> QED BY <3>1, <3>2 DEF Max
  <2> QED BY <1>1, <2>1, <2>2, <2>3 DEF Slice
<1>2. CASE limit >= 0
  <2>1. PICK low : low = IF limit < n THEN limit ELSE n
    OBVIOUS
  <2>2. Min({limit, n}) = low
    <3>1. low \in {limit, n} /\ \A y \in {limit, n} : low <= y
      BY <2>1
    <3>2. \A x \in {limit, n} : (\A y \in {limit, n} : x <= y) => x = low
      BY <2>1
    <3> QED BY <3>1, <3>2 DEF Min
  <2> QED BY <1>2, <2>1, <2>2 DEF Slice
<1> QED BY <1>1, <1>2

LEMMA SlicedIs ==
    ASSUME NEW T, NEW seq \in Seq(T), NEW n, n = Len(seq), NEW limit \in Int, NEW m, m = Slice(n, limit)
    PROVE  Cut(Sliced(seq, limit), seq, m)
<1>1. m \in 0..Len(seq)
  BY SliceIs
<1>2. Sliced(seq, limit) = SubSeq(seq, 1, m)
  BY DEF Sliced, Slice
<1> QED BY <1>1, <1>2, CutIs

LEMMA FirstUpToIs ==
    ASSUME NEW T, NEW seq \in Seq(T), NEW n, n = Len(seq), NEW limit \in Int,
           NEW m, m = IF limit <= 0 THEN 0 ELSE Slice(n, limit)
    PROVE  Cut(FirstUpTo(seq, limit), seq, m)
<1>1. CASE limit <= 0
  <2>1. FirstUpTo(seq, limit) = << >> /\ m = 0
    BY <1>1 DEF FirstUpTo
  <2>2. DOMAIN << >> = 1..0 /\ \A i \in 1..0 : FALSE
    OBVIOUS
  <2> QED BY <2>1, <2>2 DEF Cut
<1>2. CASE ~(limit <= 0)
  <2>1. FirstUpTo(seq, limit) = Sliced(seq, limit) /\ m = Slice(n, limit)
    BY <1>2 DEF FirstUpTo
  <2> QED BY <2>1, SlicedIs
<1> QED BY <1>1, <1>2

-----------------------------------------------------------------------------
(* What a search of a store finds.                                          *)

LEMMA MatchingIs ==
    ASSUME NEW s, UnitsKeyed(s), NEW filters, NEW ids, ids = Passing(s, filters)
    PROVE  /\ ids \subseteq DOMAIN s["units"] /\ ids \subseteq Int \X Int /\ IsFiniteSet(ids)
           /\ Cardinality(ids) \in Nat /\ Cardinality(ids) <= Cardinality(DOMAIN s["units"])
           /\ \A id \in ids : MatchesFilters(s["units"][id], filters)
<1>1. PICK units, U : units = s["units"] /\ U = DOMAIN units
  OBVIOUS
<1>2. IsFiniteSet(U) /\ \A id \in U : IsUnit(units[id]) /\ units[id].id = id
  BY <1>1 DEF UnitsKeyed
<1>3. \A id \in U : id \in Int \X Int
  BY <1>2 DEF IsUnit
<1>4. ASSUME NEW id \in ids PROVE id \in U /\ MatchesFilters(units[id], filters)
  <2>1. PICK u \in TableRows(s, "units") : MatchesFilters(u, filters) /\ u.id = id
    BY DEF Passing
  <2>2. PICK k \in U : u = units[k]
    BY <1>1 DEF TableRows
  <2>3. k = id
    BY <1>2, <2>1, <2>2
  <2> QED BY <2>1, <2>2, <2>3
<1>5. IsFiniteSet(ids) /\ Cardinality(ids) <= Cardinality(U) /\ Cardinality(ids) \in Nat
  <2>1. ids \subseteq U
    BY <1>4
  <2> QED BY <1>2, <2>1, FS_Subset, FS_CardinalityType
<1> QED BY <1>1, <1>3, <1>4, <1>5

\* The exact scores of the ids for a query.
AreExact(query, ids, exact) ==
    /\ DOMAIN exact = ids /\ IsFiniteSet(ids) /\ ids \subseteq Int \X Int
    /\ \A id \in ids : MayScore(query, exact[id])

LEMMA ExactScoresAre ==
    ASSUME NEW s, NEW query, Asks(query), NEW ids, IsFiniteSet(ids), ids \subseteq Int \X Int,
           NEW exact, exact = ExactScores(s, query, ids)
    PROVE  AreExact(query, ids, exact)
<1>1. DOMAIN exact = ids
  BY DEF ExactScores
<1>2. ASSUME NEW id \in ids PROVE MayScore(query, exact[id])
  <2>1. exact[id] = ExactScore(query, Words[s.units[id].text])
    BY DEF ExactScores
  <2> QED BY <2>1, ExactMayBe
<1> QED BY <1>1, <1>2 DEF AreExact

\* The scores that the rankings make of the exact ones rank as they do.
LEMMA BlendedIs ==
    ASSUME NEW query, Asks(query), NEW ids, NEW exact, AreExact(query, ids, exact),
           NEW rankings, AreRankings(rankings), NEW scores, scores = Blended(exact, rankings)
    PROVE  /\ AreScores(scores) /\ DOMAIN scores = ids
           /\ \A a, b \in ids : scores[a] >= scores[b] => exact[a] >= exact[b]
<1>1. DOMAIN scores = ids /\ \A id \in ids : scores[id] = Blend(exact[id], Fused(rankings, id))
  BY DEF AreExact, Blended
<1>2. \A id \in ids : Fused(rankings, id) \in 0..(8 * MostShare)
  BY FusedIs
<1>3. ASSUME NEW a \in ids, NEW b \in ids
      PROVE  /\ scores[a] \in Int /\ scores[b] \in Int
             /\ scores[a] >= scores[b] => exact[a] >= exact[b]
  <2>1. PICK x, y, f, g : /\ x = exact[a] /\ y = exact[b]
                          /\ f = Fused(rankings, a) /\ g = Fused(rankings, b)
    OBVIOUS
  <2>2. MayScore(query, x) /\ MayScore(query, y) /\ f \in 0..(8 * MostShare) /\ g \in 0..(8 * MostShare)
    BY <1>2, <2>1 DEF AreExact
  <2>3. /\ Blend(x, f) \in Int /\ Blend(y, g) \in Int
        /\ Blend(x, f) >= Blend(y, g) => x >= y
    BY <2>2, BlendKeeps
  <2> QED BY <1>1, <2>1, <2>3
<1> QED BY <1>1, <1>3 DEF AreScores, AreExact

\* The hits are the first m of the ids, the best first.
FoundBest(hits, ids, exact, m) ==
    /\ m \in 0..Cardinality(ids) /\ Cardinality(ids) \in Nat
    /\ DOMAIN hits = 1..m /\ hits = [i \in 1..m |-> hits[i]]
    /\ \A i \in 1..m : hits[i].id \in ids /\ hits[i].exact = exact[hits[i].id]
    /\ \A i, j \in 1..m : i < j => hits[i].score >= hits[j].score /\ hits[i].exact >= hits[j].exact
    /\ m = Cardinality(ids) => \A id \in ids : \E i \in 1..m : hits[i].id = id
    /\ m > 0 => \A id \in ids : exact[hits[1].id] >= exact[id]

LEMMA HitsAre ==
    ASSUME NEW query, Asks(query), NEW ids, NEW exact, AreExact(query, ids, exact),
           NEW rankings, AreRankings(rankings), NEW scores, scores = Blended(exact, rankings),
           NEW seq, seq = Ranked(scores), NEW m, m \in 0..Cardinality(ids), NEW part, Cut(part, seq, m),
           NEW near,
           NEW hits, hits = Hits(part, exact, scores, near)
    PROVE  /\ FoundBest(hits, ids, exact, m)
           /\ \A i \in 1..m : hits[i].by = {f \in DOMAIN near : hits[i].id \in DOMAIN near[f]}
<1>1. AreScores(scores) /\ DOMAIN scores = ids
      /\ \A a, b \in ids : scores[a] >= scores[b] => exact[a] >= exact[b]
  BY BlendedIs
<1>2. PICK n : n = Cardinality(ids) /\ BestFirst(seq, n, scores)
  BY <1>1, RankedIs
<1>3. /\ n \in Nat /\ DOMAIN seq = 1..n /\ m \in 0..n /\ \A i \in 1..n : seq[i] \in ids
      /\ \A i, j \in 1..n : i < j => scores[seq[i]] >= scores[seq[j]]
      /\ \A id \in ids : \E i \in 1..n : seq[i] = id
  BY <1>1, <1>2 DEF BestFirst
<1>4. \A i \in 1..m : i \in 1..n
  BY <1>3
<1>5. DOMAIN part = 1..m /\ \A i \in 1..m : part[i] = seq[i] /\ part[i] \in ids
  BY <1>3, <1>4 DEF Cut
<1>6. /\ DOMAIN hits = 1..m /\ hits = [i \in 1..m |-> hits[i]]
      /\ \A i \in 1..m : /\ hits[i].id = seq[i] /\ hits[i].exact = exact[seq[i]] /\
                           hits[i].score = scores[seq[i]]
                         /\ hits[i].by = {f \in DOMAIN near : seq[i] \in DOMAIN near[f]}
  BY <1>5 DEF Hits
<1>7. ASSUME NEW i \in 1..m, NEW j \in 1..m, i < j
      PROVE  hits[i].score >= hits[j].score /\ hits[i].exact >= hits[j].exact
  <2>1. scores[seq[i]] >= scores[seq[j]] /\ seq[i] \in ids /\ seq[j] \in ids
    BY <1>3, <1>4, <1>7
  <2>2. exact[seq[i]] >= exact[seq[j]]
    BY <1>1, <2>1
  <2> QED BY <1>6, <2>1, <2>2
<1>8. ASSUME m > 0, NEW id \in ids PROVE exact[hits[1].id] >= exact[id]
  <2>1. PICK i \in 1..n : seq[i] = id
    BY <1>3
  <2>2. 1 \in 1..m /\ 1 \in 1..n /\ seq[1] \in ids /\ hits[1].id = seq[1]
    BY <1>3, <1>6, <1>8
  <2>3. scores[seq[1]] >= scores[seq[i]]
    <3>1. CASE i = 1
      <4>1. scores[seq[1]] \in Int
        BY <1>1, <2>2 DEF AreScores
      <4> QED BY <3>1, <4>1
    <3>2. CASE i # 1
      BY <1>3, <2>2, <3>2
    <3> QED BY <3>1, <3>2
  <2>4. exact[seq[1]] >= exact[seq[i]]
    BY <1>1, <2>1, <2>2, <2>3
  <2> QED BY <2>1, <2>2, <2>4
<1>9. m = n => \A id \in ids : \E i \in 1..m : hits[i].id = id
  BY <1>3, <1>6
<1>10. \A i \in 1..m : hits[i].id \in ids /\ hits[i].exact = exact[hits[i].id]
  BY <1>3, <1>4, <1>6
<1>11. FoundBest(hits, ids, exact, m)
  BY <1>2, <1>3, <1>6, <1>7, <1>8, <1>9, <1>10 DEF FoundBest
<1> QED BY <1>6, <1>11

\* The names of the rankings are at most eight.
RankingNames == {"exact", "ngram", "beng", "ik", "problem", "mechanism", "content", "code"}

LEMMA FewRankings ==
    ASSUME NEW D, D \subseteq RankingNames
    PROVE  IsFiniteSet(D) /\ Cardinality(D) <= 8
<1>1. PICK f : f = [i \in 1..8 |-> IF i = 1 THEN "exact" ELSE IF i = 2 THEN "ngram" ELSE IF i = 3 THEN "beng"
                                  ELSE IF i = 4 THEN "ik" ELSE IF i = 5 THEN "problem" ELSE IF i = 6 THEN "mechanism"
                                  ELSE IF i = 7 THEN "content" ELSE "code"]
  OBVIOUS
<1>2. f \in [1..8 -> RankingNames]
  BY <1>1 DEF RankingNames
<1>3. \A name \in RankingNames : \E i \in 1..8 : f[i] = name
  <2>1. /\ f[1] = "exact" /\ f[2] = "ngram" /\ f[3] = "beng" /\ f[4] = "ik"
        /\ f[5] = "problem" /\ f[6] = "mechanism" /\ f[7] = "content" /\ f[8] = "code"
    BY <1>1
  <2> QED BY <2>1 DEF RankingNames
<1>4. f \in Surjection(1..8, RankingNames)
  BY <1>2, <1>3 DEF Surjection
<1>5. IsFiniteSet(1..8) /\ Cardinality(1..8) = 8
  <2>1. PICK a \in Int, b \in Int : a = 1 /\ b = 8
    OBVIOUS
  <2>2. IsFiniteSet(a..b) /\ Cardinality(a..b) = IF a > b THEN 0 ELSE b - a + 1
    BY FS_Interval
  <2> QED BY <2>1, <2>2
<1>6. IsFiniteSet(RankingNames) /\ Cardinality(RankingNames) <= 8
  BY <1>4, <1>5, FS_Surjection
<1> QED BY <1>6, FS_Subset, FS_CardinalityType

\* A part of the ids per field.
FieldsOf(near, ids, vectors) ==
    /\ DOMAIN near = AskedFields(vectors)
    /\ \A f \in DOMAIN near : DOMAIN near[f] \subseteq ids

LEMMA RankingsAre ==
    ASSUME NEW ids, IsFiniteSet(ids), NEW exact, DOMAIN exact = ids, NEW vectors,
           NEW near, FieldsOf(near, ids, vectors),
           NEW texts, DOMAIN texts \subseteq ids, NEW rankings,
           DOMAIN rankings \subseteq {"exact"} \cup Analyzers \cup DOMAIN near,
           \A r \in DOMAIN rankings : rankings[r] = exact \/ rankings[r] = texts \/
                                        (r \in DOMAIN near /\ rankings[r] = near[r])
    PROVE  AreRankings(rankings)
<1>1. DOMAIN rankings \subseteq RankingNames
  BY DEF FieldsOf, AskedFields, VectorFields, Analyzers, RankingNames
<1>2. \A r \in DOMAIN rankings : DOMAIN rankings[r] \subseteq ids
  BY DEF FieldsOf
<1>3. \A r \in DOMAIN rankings : IsFiniteSet(DOMAIN rankings[r])
  BY <1>2, FS_Subset
<1> QED BY <1>1, <1>3, FewRankings DEF AreRankings

\* What is shown of n ids.
MemShown(n, limit) == IF limit <= 0 THEN 0 ELSE Slice(n, limit)

LEMMA MemSearchIs ==
    ASSUME NEW s, UnitsKeyed(s), NEW q, IsSearch(q), NEW ids, ids = Passing(s, q.filters),
           NEW exact, exact = ExactScores(s, q.query, ids),
           NEW hits, hits = MemSearch(s, q.query, q.vectors, q.filters, q.limit),
           NEW m, m = MemShown(Cardinality(ids), q.limit)
    PROVE  /\ FoundBest(hits, ids, exact, m)
           /\ \A i \in DOMAIN hits : \A f \in hits[i].by : s["units"][hits[i].id].vectors[f] # NoVector
<1>1. IsFiniteSet(ids) /\ ids \subseteq Int \X Int /\ Cardinality(ids) \in Nat /\ Asks(q.query) /\
        q.limit \in Int
  BY MatchingIs DEF IsSearch, Asks
<1>2. AreExact(q.query, ids, exact)
  BY <1>1, ExactScoresAre
<1>3. PICK near : near = FieldScores(s, q.vectors, ids)
  OBVIOUS
<1>4. /\ FieldsOf(near, ids, q.vectors)
      /\ \A f \in DOMAIN near : \A id \in DOMAIN near[f] : s["units"][id].vectors[f] # NoVector
  BY <1>3 DEF FieldsOf, FieldScores
<1>5. PICK rankings : rankings = [r \in {"exact"} \cup DOMAIN near |-> IF r = "exact" THEN exact ELSE near[r]]
  OBVIOUS
<1>6. AreRankings(rankings)
  <2>1. DOMAIN exact = ids
    BY <1>2 DEF AreExact
  <2>2. /\ DOMAIN rankings \subseteq {"exact"} \cup Analyzers \cup DOMAIN near
        /\ \A r \in DOMAIN rankings : rankings[r] = exact \/ rankings[r] = exact \/
                                        (r \in DOMAIN near /\ rankings[r] = near[r])
    BY <1>5
  <2> QED BY <1>1, <1>4, <2>1, <2>2, RankingsAre
<1>7. PICK scores, seq, part : /\ scores = Blended(exact, rankings) /\ seq = Ranked(scores)
                               /\ part = FirstUpTo(seq, q.limit)
  OBVIOUS
<1>8. hits = Hits(part, exact, scores, near)
  BY <1>3, <1>5, <1>7 DEF MemSearch
<1>9. AreScores(scores) /\ DOMAIN scores = ids
  BY <1>1, <1>2, <1>6, <1>7, BlendedIs
<1>10. BestFirst(seq, Cardinality(ids), scores)
  BY <1>7, <1>9, RankedIs
<1>11. seq \in Seq(ids) /\ Len(seq) = Cardinality(ids)
  BY <1>9, <1>10 DEF BestFirst
<1>12. Cut(part, seq, m)
  BY <1>1, <1>7, <1>11, FirstUpToIs DEF MemShown
<1>13. m \in 0..Cardinality(ids)
  <2>1. Slice(Cardinality(ids), q.limit) \in 0..Cardinality(ids) /\ 0 \in 0..Cardinality(ids)
    BY <1>1, SliceIs
  <2> QED BY <2>1 DEF MemShown
<1>14. FoundBest(hits, ids, exact, m) /\
         \A i \in 1..m : hits[i].by = {f \in DOMAIN near : hits[i].id \in DOMAIN near[f]}
  BY <1>1, <1>2, <1>6, <1>7, <1>8, <1>12, <1>13, HitsAre
<1>15. DOMAIN hits = 1..m
  BY <1>14 DEF FoundBest
<1> QED BY <1>4, <1>14, <1>15

LEMMA SeekFallbackIs ==
    ASSUME NEW s, UnitsKeyed(s), NEW q, IsSearch(q), NEW ids, ids = Passing(s, q.filters),
           NEW exact, exact = ExactScores(s, q.query, ids),
           NEW hits, hits = SeekFallback(s, q.query, q.vectors, q.filters, q.limit),
           NEW m, m = Slice(Cardinality(ids), q.limit)
    PROVE  FoundBest(hits, ids, exact, m)
<1>1. IsFiniteSet(ids) /\ ids \subseteq Int \X Int /\ Cardinality(ids) \in Nat /\ Asks(q.query) /\
        q.limit \in Int
  BY MatchingIs DEF IsSearch, Asks
<1>2. AreExact(q.query, ids, exact)
  BY <1>1, ExactScoresAre
<1>3. PICK near, texts :
        /\ near = [f \in AskedFields(q.vectors) |-> Shown(NearestRows(s, f, q.vectors[f]), q.limit, ids)]
        /\ texts = Shown(FulltextRows(s, q.query), q.limit, ids)
  OBVIOUS
<1>4. FieldsOf(near, ids, q.vectors) /\ DOMAIN texts \subseteq ids
  BY <1>3 DEF FieldsOf, Shown
<1>5. PICK rankings :
        rankings = [r \in {"exact"} \cup Analyzers \cup DOMAIN near |->
                        IF r = "exact" THEN exact ELSE IF r \in Analyzers THEN texts ELSE near[r]]
  OBVIOUS
<1>6. AreRankings(rankings)
  <2>1. DOMAIN exact = ids
    BY <1>2 DEF AreExact
  <2>2. /\ DOMAIN rankings \subseteq {"exact"} \cup Analyzers \cup DOMAIN near
        /\ \A r \in DOMAIN rankings : rankings[r] = exact \/ rankings[r] = texts \/
                                        (r \in DOMAIN near /\ rankings[r] = near[r])
    BY <1>5
  <2> QED BY <1>1, <1>4, <2>1, <2>2, RankingsAre
<1>7. PICK scores, seq, part : /\ scores = Blended(exact, rankings) /\ seq = Ranked(scores)
                               /\ part = Sliced(seq, q.limit)
  OBVIOUS
<1>8. hits = Hits(part, exact, scores, near)
  BY <1>3, <1>5, <1>7 DEF SeekFallback
<1>9. AreScores(scores) /\ DOMAIN scores = ids
  BY <1>1, <1>2, <1>6, <1>7, BlendedIs
<1>10. BestFirst(seq, Cardinality(ids), scores)
  BY <1>7, <1>9, RankedIs
<1>11. seq \in Seq(ids) /\ Len(seq) = Cardinality(ids)
  BY <1>9, <1>10 DEF BestFirst
<1>12. Cut(part, seq, m)
  BY <1>1, <1>7, <1>11, SlicedIs
<1>13. m \in 0..Cardinality(ids)
  BY <1>1, SliceIs
<1> QED BY <1>1, <1>2, <1>6, <1>7, <1>8, <1>12, <1>13, HitsAre

LEMMA FoundSound ==
    ASSUME NEW s, UnitsKeyed(s), NEW q, NEW ids, ids = Passing(s, q.filters), NEW exact, NEW m, NEW hits,
           FoundBest(hits, ids, exact, m)
    PROVE  SoundHits(s, q, hits)
<1>1. /\ DOMAIN hits = 1..m /\ \A i \in 1..m : hits[i].id \in ids
      /\ \A i, j \in 1..m : i < j => hits[i].score >= hits[j].score /\ hits[i].exact >= hits[j].exact
  BY DEF FoundBest
<1>2. \A id \in ids : MatchesFilters(s["units"][id], q.filters)
  BY MatchingIs
<1> QED BY <1>1, <1>2 DEF SoundHits

\* What the server answers is of no use but for its order.
LEMMA NativeSound ==
    ASSUME NEW s, UnitsKeyed(s), NEW q, IsSearch(q), NEW results \in NativeAnswers(s, q.filters, q.limit)
    PROVE  SoundHits(s, q, SeekSearch(s, q.query, q.vectors, q.filters, q.limit, TRUE, results))
<1>1. PICK ids : ids = Passing(s, q.filters)
  OBVIOUS
<1>2. PICK n, T : n \in Nat /\ results \in [1..n -> T]
  <2>1. PICK rows, k : /\ k = (IF q.limit < 2 THEN q.limit ELSE 2)
                       /\ results \in UNION {[1..n -> rows] : n \in 0..k}
    BY DEF NativeAnswers
  <2> QED BY <2>1
<1>3. PICK ss : ss = [i \in DOMAIN results |-> IF results[i] \in ids THEN <<results[i]>> ELSE << >>]
  OBVIOUS
<1>4. ss \in Seq(Seq(ids))
  <2>1. \A i \in 1..n : ss[i] \in Seq(ids)
    BY <1>2, <1>3
  <2>2. ss = [i \in 1..n |-> ss[i]]
    BY <1>2, <1>3
  <2> QED BY <1>2, <2>1, <2>2
<1>5. PICK hits : hits = Among(results, ids)
  OBVIOUS
<1>6. hits \in Seq(ids)
  BY <1>3, <1>4, <1>5, FlattenIs DEF Among
<1>7. PICK found, other : /\ found = SeekSearch(s, q.query, q.vectors, q.filters, q.limit, TRUE, results)
                          /\ other = SeekFallback(s, q.query, q.vectors, q.filters, q.limit)
  OBVIOUS
<1>8. found = [i \in DOMAIN hits |-> [id |-> hits[i], exact |-> 0, score |-> 0, by |-> {}]] \/ found = other
  BY <1>1, <1>5, <1>7 DEF SeekSearch
<1>9. CASE found = [i \in DOMAIN hits |-> [id |-> hits[i], exact |-> 0, score |-> 0, by |-> {}]]
  <2>1. \A i \in DOMAIN hits : hits[i] \in ids
    BY <1>6
  <2>2. DOMAIN found = DOMAIN hits /\ \A i \in DOMAIN hits : found[i].id = hits[i] /\
          found[i].exact = 0 /\ found[i].score = 0
    BY <1>9
  <2>3. \A id \in ids : MatchesFilters(s["units"][id], q.filters)
    BY <1>1, MatchingIs
  <2>4. SoundHits(s, q, found)
    BY <2>1, <2>2, <2>3 DEF SoundHits
  <2> QED BY <1>7, <2>4
<1>10. CASE found = other
  <2>1. PICK exact, m : exact = ExactScores(s, q.query, ids) /\ m = Slice(Cardinality(ids), q.limit)
    OBVIOUS
  <2>2. FoundBest(other, ids, exact, m)
    BY <1>1, <1>7, <2>1, SeekFallbackIs
  <2>3. SoundHits(s, q, other)
    BY <1>1, <2>2, FoundSound
  <2> QED BY <1>7, <1>10, <2>3
<1> QED BY <1>8, <1>9, <1>10

\* Two searches of the same units.
HitsAlike(n, q, mem, sdb) ==
    /\ q.limit >= n => {mem[i].id : i \in DOMAIN mem} = {sdb[i].id : i \in DOMAIN sdb}
    /\ mem # << >> => mem[1].exact = sdb[1].exact

LEMMA FoundAlike ==
    ASSUME NEW q, IsSearch(q), NEW ids, NEW exact, AreExact(q.query, ids, exact), NEW n, n = Cardinality(ids),
           NEW mem, FoundBest(mem, ids, exact, MemShown(n, q.limit)),
           NEW sdb, FoundBest(sdb, ids, exact, Slice(n, q.limit))
    PROVE  HitsAlike(n, q, mem, sdb)
<1>1. n \in Nat /\ q.limit \in Int
  BY DEF FoundBest, IsSearch
<1>2. PICK m, k : m = MemShown(n, q.limit) /\ k = Slice(n, q.limit)
  OBVIOUS
<1>3. /\ k \in 0..n /\ (q.limit >= n => k = n) /\ (q.limit > 0 /\ n > 0 => k > 0)
  BY <1>1, <1>2, SliceIs
<1>4. m = IF q.limit <= 0 THEN 0 ELSE k
  BY <1>2 DEF MemShown
<1>5. FoundBest(mem, ids, exact, m) /\ FoundBest(sdb, ids, exact, k)
  BY <1>2
<1>6. /\ DOMAIN mem = 1..m /\ DOMAIN sdb = 1..k /\ mem = [i \in 1..m |-> mem[i]]
      /\ \A i \in 1..m : mem[i].id \in ids /\ mem[i].exact = exact[mem[i].id]
      /\ \A i \in 1..k : sdb[i].id \in ids /\ sdb[i].exact = exact[sdb[i].id]
  BY <1>5 DEF FoundBest
<1>7. ASSUME q.limit >= n
      PROVE  {mem[i].id : i \in DOMAIN mem} = {sdb[i].id : i \in DOMAIN sdb}
  <2>1. m = n /\ k = n
    BY <1>1, <1>3, <1>4, <1>7
  <2>2. (\A id \in ids : \E i \in 1..m : mem[i].id = id) /\ \A id \in ids : \E i \in 1..k : sdb[i].id = id
    BY <1>5, <2>1 DEF FoundBest
  <2> QED BY <1>6, <2>2
<1>8. ASSUME mem # << >> PROVE mem[1].exact = sdb[1].exact
  <2>1. m > 0
    <3>1. m = 0 => mem = << >>
      BY <1>6
    <3> QED BY <1>3, <1>4, <1>8, <3>1
  <2>2. k > 0
    BY <1>1, <1>3, <1>4, <2>1
  <2>3. PICK a, b : a = mem[1].id /\ b = sdb[1].id
    OBVIOUS
  <2>4. a \in ids /\ b \in ids /\ mem[1].exact = exact[a] /\ sdb[1].exact = exact[b]
    BY <1>3, <1>4, <1>6, <2>1, <2>2, <2>3
  <2>5. exact[a] >= exact[b] /\ exact[b] >= exact[a]
    BY <1>5, <2>1, <2>2, <2>3, <2>4 DEF FoundBest
  <2>6. exact[a] \in Int /\ exact[b] \in Int
    <3>1. MayScore(q.query, exact[a]) /\ MayScore(q.query, exact[b]) /\ Asks(q.query)
      BY <2>4 DEF AreExact, IsSearch, Asks
    <3>2. exact[a] \in 0..60 /\ exact[b] \in 0..60
      BY <3>1, ScoresApart
    <3> QED BY <3>2
  <2> QED BY <2>4, <2>5, <2>6
<1> QED BY <1>7, <1>8 DEF HitsAlike

LEMMA SearchAgrees ==
    ASSUME UnitsKeyed(memory), UnitsKeyed(seek), ~torn => Same(seek, memory), NEW q, IsSearch(q)
    PROVE  SearchesAgree(q)
<1>1. PICK mem, sdb : /\ mem = MemSearch(memory, q.query, q.vectors, q.filters, q.limit)
                      /\ sdb = SeekFallback(seek, q.query, q.vectors, q.filters, q.limit)
  OBVIOUS
<1>2. PICK ids, exact, m, n : /\ ids = Passing(memory, q.filters) /\ exact = ExactScores(memory, q.query, ids)
                              /\ n = Cardinality(ids) /\ m = MemShown(n, q.limit)
  OBVIOUS
<1>3. PICK ids2, exact2, k : /\ ids2 = Passing(seek, q.filters) /\ exact2 = ExactScores(seek, q.query, ids2)
                             /\ k = Slice(Cardinality(ids2), q.limit)
  OBVIOUS
<1>4. /\ FoundBest(mem, ids, exact, m)
      /\ \A i \in DOMAIN mem : \A f \in mem[i].by : memory["units"][mem[i].id].vectors[f] # NoVector
  BY <1>1, <1>2, MemSearchIs
<1>5. FoundBest(sdb, ids2, exact2, k)
  BY <1>1, <1>3, SeekFallbackIs
<1>6. SoundHits(memory, q, mem) /\ SoundHits(seek, q, sdb)
  BY <1>2, <1>3, <1>4, <1>5, FoundSound
<1>7. \A results \in NativeAnswers(seek, q.filters, q.limit) :
          SoundHits(seek, q, SeekSearch(seek, q.query, q.vectors, q.filters, q.limit, TRUE, results))
  BY NativeSound
<1>8. ASSUME ~torn
      PROVE  /\ q.limit >= Cardinality(DOMAIN memory["units"]) =>
                  {mem[i].id : i \in DOMAIN mem} = {sdb[i].id : i \in DOMAIN sdb}
             /\ mem # << >> => mem[1].exact = sdb[1].exact
  <2>1. memory["units"] = seek["units"]
    BY <1>8, TablesAre DEF Same
  <2>2. ids = ids2
    BY <1>2, <1>3, <2>1 DEF Passing, TableRows
  <2>3. exact = exact2
    BY <1>2, <1>3, <2>1, <2>2 DEF ExactScores
  <2>4. IsFiniteSet(ids) /\ ids \subseteq Int \X Int /\ n \in Nat /\ n <= Cardinality(DOMAIN memory["units"])
    BY <1>2, MatchingIs
  <2>5. AreExact(q.query, ids, exact)
    <3>1. Asks(q.query)
      BY DEF IsSearch, Asks
    <3> QED BY <1>2, <2>4, <3>1, ExactScoresAre
  <2>6. FoundBest(mem, ids, exact, MemShown(n, q.limit)) /\ FoundBest(sdb, ids, exact, Slice(n, q.limit))
    BY <1>2, <1>3, <1>4, <1>5, <2>2, <2>3
  <2>7. HitsAlike(n, q, mem, sdb)
    <3>1. n = Cardinality(ids) /\ IsSearch(q) /\ AreExact(q.query, ids, exact)
      BY <1>2, <2>5
    <3> QED BY <2>6, <3>1, FoundAlike
  <2>8. q.limit >= Cardinality(DOMAIN memory["units"]) => q.limit >= n
    <3>1. Cardinality(DOMAIN memory["units"]) \in Nat /\ q.limit \in Int
      BY FS_CardinalityType DEF UnitsKeyed, IsSearch
    <3> QED BY <2>4, <3>1
  <2> QED BY <2>7, <2>8 DEF HitsAlike
<1> QED BY <1>1, <1>4, <1>6, <1>7, <1>8, ZenonT(40) DEF SearchesAgree

-----------------------------------------------------------------------------
\* Of an import that is done all the rows are there, after the source.
LEMMA PlanLanded ==
    ASSUME NEW s, TablesOK(s), NEW b \in DOMAIN Bundles, NEW calls, calls = ImportPlans[b], AllDone(s, calls)
    PROVE  \A i \in 2..Len(calls) : HasRow(s, calls[i].table, calls[i].row)
<1>1. PlanOK(Bundles[b], calls) /\ Ordered({}, calls) /\
        calls[2] = CallTo("snapshots", LegacySnapshot(Bundles[b]))
  BY ImportsOrdered
<1>2. PICK l \in Nat : l = Len(calls) /\ DOMAIN calls = 1..l /\ l >= 3
  BY <1>1 DEF Ordered, IsList, PlanOK
<1> SUFFICES ASSUME NEW i \in 2..l PROVE HasRow(s, calls[i].table, calls[i].row)
  BY <1>2
<1>3. PICK call : call = calls[i]
  OBVIOUS
<1>4. i \in DOMAIN calls /\ Done(s, call)
  BY <1>2, <1>3 DEF AllDone
<1>5. PICK B : B = {} \cup Earlier(calls, i)
  OBVIOUS
<1>6. Grounded(B, call) /\ \A d \in B : Done(s, d)
  <2>1. \A j \in 1..(i - 1) : j \in DOMAIN calls
    BY <1>2
  <2> QED BY <1>1, <1>3, <1>4, <1>5, <2>1 DEF Ordered, Earlier, AllDone
<1>7. CallFits(s, call)
  BY <1>6, FitsAfter
<1>8. call.table \in FixedTables \cup {"units"} /\ (To(call, "units") => call.row.id \in LegacyUnitIds)
  <2>1. CASE i = 2
    <3>1. call.table = "snapshots" /\ ~To(call, "units")
      BY <1>1, <1>3, <2>1, CallToIs
    <3> QED BY <3>1 DEF FixedTables
  <2>2. CASE i # 2
    <3>1. Brings(call)
      BY <1>1, <1>2, <1>3, <2>2 DEF PlanOK
    <3> QED BY <3>1 DEF Brings, Lasting, FixedTables
  <2> QED BY <2>1, <2>2
<1>9. HasRow(s, call.table, call.row)
  BY <1>4, <1>7, <1>8, Landed
<1> QED BY <1>3, <1>9

LEMMA InvAgrees == StoresInv => StoresAgree
<1> SUFFICES ASSUME StoresInv PROVE StoresAgree
  OBVIOUS
<1>1. /\ MemoryOK(memory) /\ TablesOK(memory) /\ TablesOK(seek) /\ WholeIn(memory) /\ ImportedOK /\ TogetherOK
  BY DEF StoresInv, MemoryOK
<1>2. ReferencesStand(memory) /\ ReferencesStand(seek)
  BY <1>1, ReferencesFrom DEF TablesOK
<1>a. DOMAIN memory.feedback \subseteq DOMAIN memory.governance
  BY <1>1 DEF MemoryOK, QueuesAnswers
<1>3. WholeImports
  <2>1. ASSUME NEW b \in DOMAIN Bundles, LegacySnapshot(Bundles[b]) \in TableRows(memory, "snapshots"),
               NEW calls, calls = ImportPlans[b], NEW i \in 2..Len(calls)
        PROVE  calls[i].row \in TableRows(memory, calls[i].table)
    <3>1. AllDone(memory, calls)
      BY <1>1, <2>1 DEF WholeIn
    <3>2. HasRow(memory, calls[i].table, calls[i].row)
      BY <1>1, <2>1, <3>1, PlanLanded
    <3> QED BY <3>2 DEF HasRow, TableRows
  <2> QED BY <2>1 DEF WholeImports
<1>4. ASSUME writing = NotWriting, ~torn
      PROVE  /\ \A t \in TableNames : memory[t] = seek[t]
             /\ Len(answers.memory) = Len(answers.seek)
             /\ \A i \in DOMAIN answers.memory : Alike(answers.calls[i], answers.memory[i], answers.seek[i])
             /\ Reads(Tables(memory)) = Reads(Tables(seek))
  <2>1. Same(seek, memory) /\ AlikeAll(answers.calls, answers.memory, answers.seek)
    BY <1>1, <1>4 DEF TogetherOK
  <2>2. \A t \in TableNames : memory[t] = seek[t]
    BY <2>1 DEF Same
  <2>3. Tables(memory) = Tables(seek)
    BY <2>2 DEF Tables
  <2> QED BY <2>1, <2>2, <2>3 DEF AlikeAll
<1>5. ASSUME NEW b \in imported, NEW calls, calls = ImportPlans[b], NEW i \in 2..Len(calls)
      PROVE  LET t == calls[i].table id == calls[i].row.id IN
             Stored(memory, t, id) /\ Stored(seek, t, id) /\ memory[t][id] = seek[t][id]
  <2>1. b \in DOMAIN Bundles /\ AllDone(memory, calls) /\ AllDone(seek, calls)
    BY <1>1, <1>5 DEF ImportedOK
  <2>2. HasRow(memory, calls[i].table, calls[i].row) /\ HasRow(seek, calls[i].table, calls[i].row)
    BY <1>1, <1>5, <2>1, PlanLanded
  <2> QED BY <2>2 DEF HasRow, Stored
<1>6. ASSUME writing = NotWriting, NEW q \in Searches PROVE SearchesAgree(q)
  <2>1. UnitsKeyed(memory) /\ UnitsKeyed(seek) /\ (~torn => Same(seek, memory))
    BY <1>1, <1>6 DEF TablesOK, TogetherOK
  <2>2. IsSearch(q)
    BY <1>6, StoresAssumption
  <2> QED BY <2>1, <2>2, SearchAgrees
<1> QED BY <1>2, <1>a, <1>3, <1>4, <1>5, <1>6 DEF StoresAgree

\* Whatever is imported and written, refused, rolled back or killed, and whatever
\* is searched: the stores agree as StoresAgree says.
THEOREM StoresStandTogether == StoresSpec => []StoresAgree
  BY InvInit, InvStep, InvAgrees, PTL DEF StoresSpec
=============================================================================
