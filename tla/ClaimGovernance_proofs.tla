------------------------ MODULE ClaimGovernance_proofs ------------------------
(***************************************************************************)
(* The invariants of ClaimGovernance, and that a settled dispute stays     *)
(* settled, hold for any claims, sources, writers and bounds: proofs.      *)
(***************************************************************************)
EXTENDS ClaimGovernance, TLAPS

-----------------------------------------------------------------------------
(* The inductive invariant.                                                 *)

\* What a stored record always looks like, whoever wrote it and from however
\* old a copy.
Sound(c, r) ==
    /\ r.status # "absent" => r.object \in Objects
    /\ r.status = "active" => r.by = {}
    /\ \A x \in r.by : Src[x] = Src[c]
    /\ \A x \in r.contradicts : Src[x] # Src[c]

RecordsOK == \A c \in Claims : Sound(c, claims[c])

\* The locals of put_claim_with_governance fit each other.
Orderly(q) ==
    /\ q.linked \subseteq q.settled /\ q.settled \subseteq q.rivals
    /\ q.draft.id \notin q.rivals
    /\ IF q.stored THEN q.linked = q.rivals ELSE q.filed = {}
    /\ q.filed \subseteq Against(q)
    /\ \A p \in q.rivals : /\ q.listed[p].status = "active"
                           /\ q.listed[p].object # q.draft.object
                           /\ Sound(p, q.listed[p])

LocalsOK == \A w \in Writers : putting[w].busy => Orderly(putting[w])

\* What writer w has yet to put, or is putting.
Has(w, d) == \/ \E i \in DOMAIN batch[w] : batch[w][i] = d
             \/ putting[w].busy /\ putting[w].draft = d

\* No draft is made twice: an id belongs to one compilation, an object of it to
\* one draft.
DraftsOK ==
    /\ \A w \in Writers, d \in Draft : Has(w, d) => d.id \in compiled
    /\ \A v, w \in Writers, d, e \in Draft :
          Has(v, d) /\ Has(w, e) /\ d.id = e.id => v = w
    /\ \A w \in Writers : \A i, j \in DOMAIN batch[w] :
          i < j => batch[w][i].object # batch[w][j].object
    /\ \A w \in Writers : putting[w].busy =>
          \A i \in DOMAIN batch[w] : batch[w][i].object # putting[w].draft.object

\* Dispute x is about no draft that is not put yet.
FromThePast(x) ==
    /\ x.new \in compiled
    /\ \A w \in Writers : \A i \in DOMAIN batch[w] :
          ~(x.new = batch[w][i].id /\ x.newObject = batch[w][i].object)
    /\ \A w \in Writers :
          /\ putting[w].busy
          /\ x.new = putting[w].draft.id /\ x.newObject = putting[w].draft.object
          => x.old \in putting[w].filed

\* One dispute per difference, and none about a draft that is not put yet.
DisputesOK ==
    /\ \A x, y \in disputes : SameDispute(x, y) => x = y
    /\ \A x \in disputes : FromThePast(x)

\* The list a writer works from is still true of the store.
Current(q) ==
    /\ \A p \in q.rivals \ q.settled : claims[p] = q.listed[p]
    /\ \A p \in q.settled :
          IF SameSource(p, q.draft) THEN p \notin Active
          ELSE ~claims[p].resolved /\ q.draft.id \in claims[p].contradicts
    /\ ~q.stored => \A p \in Active :
          p # q.draft.id /\ claims[p].object # q.draft.object => p \in q.rivals

\* Without a race one writer at most is at work, with the time of the clock.
AloneOK == ~raced =>
    /\ \A v, w \in Writers : Rest(v) \/ Rest(w) \/ v = w
    /\ \A w \in Writers : Rest(w) \/ now[w] = clock
    /\ \A w \in Writers : putting[w].busy => Current(putting[w])

DatesOK == ~raced => \A c \in Stored : claims[c].created <= clock /\ Readable(claims[c])

OneVoiceOK == ~raced =>
    \A a, b \in Active : Src[a] = Src[b] => claims[a].object = claims[b].object

\* The difference of a and b is still to be put up for review.
Due(a, b) == \E w \in Writers :
    /\ putting[w].busy /\ putting[w].stored
    /\ \E p \in Against(putting[w]) \ putting[w].filed : {p, putting[w].draft.id} = {a, b}

Queued(a, b) == (\E d \in disputes : {d.old, d.new} = {a, b}) \/ Due(a, b)

Noted(a, b) ==
    b \in claims[a].contradicts /\ ~claims[a].resolved /\ Queued(a, b)

ConflictsOK == ~raced /\ crashes = 0 =>
    \A a, b \in Active : claims[a].object # claims[b].object => Noted(a, b)

\* The claim that is being put: its rivals are settled before it is stored.
Coming == {c \in Claims : \E w \in Writers :
             putting[w].busy /\ ~putting[w].stored /\ putting[w].draft.id = c}

\* Claim c is superseded by r but has no relation yet.
Unlinked(r, c) == \E w \in Writers :
    /\ putting[w].busy /\ putting[w].draft.id = r
    /\ c \in putting[w].settled \ putting[w].linked
    /\ SameSource(c, putting[w].draft)

Linked(r, c) ==
    [from |-> r, type |-> "SUPERSEDES", to |-> c] \in relations \/ Unlinked(r, c)

SupersessionOK == ~raced /\ crashes = 0 =>
    /\ \A S \in SUBSET ((Stored \ Active) \ Coming) : S # {} =>
          \E c \in S : claims[c].by \cap ((Stored \cup Coming) \ S) # {}
    /\ \A c \in Stored \ Active : \A r \in claims[c].by :
          r \in Stored \cup Coming /\ Linked(r, c)

IInv ==
    /\ TypeOK /\ RecordsOK /\ LocalsOK /\ DraftsOK /\ DisputesOK /\ AloneOK
    /\ DatesOK /\ OneVoiceOK /\ ServedClaimsAgree /\ ConflictsOK /\ SupersessionOK

-----------------------------------------------------------------------------
(* Type correctness.                                                        *)

LEMMA BusyProgress ==
    ASSUME TypeOK, NEW w \in Writers, putting[w].busy
    PROVE  putting[w] \in Progress
  BY DEF TypeOK, NoPut

LEMMA RecTypes ==
    ASSUME ClaimAssumption, NEW q \in Progress, NEW p \in Claims, NEW t \in 0..MaxClock
    PROVE  /\ Settlement(p, q, t) \in Rec
           /\ Against(q) \subseteq Claims
           /\ Fresh(q.draft, Against(q), t) \in Rec
           /\ RelationTo(p, q) \in Relation
           /\ q.listed[p].object \in Objects => Disagreement(p, q) \in Dispute
<1>1. q.draft \in Draft /\ q.listed[p] \in Rec /\ q.rivals \subseteq Claims
  BY DEF Progress
<1>2. Settlement(p, q, t) \in Rec
  BY <1>1 DEF Settlement, Superseded, Contradicted, Rec, Status, Draft
<1>3. Against(q) \subseteq Claims
  BY <1>1 DEF Against
<1>4. Fresh(q.draft, Against(q), t) \in Rec
  BY <1>1, <1>3 DEF Fresh, Rec, Status, Draft
<1>5. RelationTo(p, q) \in Relation
  BY <1>1 DEF RelationTo, Relation, Draft
<1>6. q.listed[p].object \in Objects => Disagreement(p, q) \in Dispute
  BY <1>1 DEF Disagreement, Dispute, Draft
<1> QED BY <1>2, <1>3, <1>4, <1>5, <1>6

LEMMA OnwardsType ==
    ASSUME NEW q \in Progress PROVE Onwards(q) \in Progress \cup {NoPut}
  BY DEF Onwards

LEMMA DraftsType ==
    ASSUME ClaimAssumption, TypeOK, clock < MaxClock, NEW s, NEW b \in Drafts(s)
    PROVE  /\ b \in Seq(Draft)
           /\ \A i \in DOMAIN b : b[i] \in Draft /\ b[i].id \notin compiled
           /\ \A i, j \in DOMAIN b : i < j => b[i].object # b[j].object
<1>1. clock + 1 \in 1..MaxClock
  BY DEF ClaimAssumption, TypeOK
<1>2. MaxBatch[clock + 1] \in Nat
  BY <1>1 DEF ClaimAssumption
<1>3. PICK n \in 1..MaxBatch[clock + 1] : b \in [1..n -> Draft]
  BY DEF Drafts
<1>4. b \in Seq(Draft) /\ \A i \in DOMAIN b : b[i] \in Draft
  BY <1>2, <1>3
<1>5. \A i \in DOMAIN b : b[i].object \in Int
  <2>1. \A i \in DOMAIN b : b[i].object \in Objects
    BY <1>4 DEF Draft
  <2>2. Objects \subseteq Int
    BY DEF ClaimAssumption
  <2> QED BY <2>1, <2>2
<1>6. \A i, j \in DOMAIN b : i < j => b[i].object > b[j].object
  BY DEF Drafts
<1>7. \A i \in DOMAIN b : b[i].id \notin compiled
  BY DEF Drafts
<1>8. \A i, j \in DOMAIN b : i < j => b[i].object # b[j].object
  BY <1>5, <1>6
<1> QED BY <1>4, <1>7, <1>8

LEMMA TypeInit == ClaimAssumption /\ Init => TypeOK
<1> SUFFICES ASSUME ClaimAssumption, Init PROVE TypeOK
  OBVIOUS
<1>1. claims \in [Claims -> Rec]
  BY DEF Init, Rec, Absent, Status, ClaimAssumption
<1>2. putting \in [Writers -> Progress \cup {NoPut}]
  BY DEF Init
<1>3. batch \in [Writers -> Seq(Draft)] /\ now \in [Writers -> 0..MaxClock]
  BY DEF Init, ClaimAssumption
<1>4. relations \subseteq Relation /\ disputes \subseteq Dispute /\ compiled \subseteq Claims
  BY DEF Init
<1>5. clock \in 0..MaxClock /\ crashes \in 0..MaxCrashes
  BY DEF Init, ClaimAssumption
<1>6. raced \in BOOLEAN
  BY DEF Init
<1> QED BY <1>1, <1>2, <1>3, <1>4, <1>5, <1>6 DEF TypeOK

LEMMA TypeStep ==
    ClaimAssumption /\ TypeOK /\ LocalsOK /\ [Next]_vars => TypeOK'
<1> SUFFICES ASSUME ClaimAssumption, TypeOK, LocalsOK, [Next]_vars PROVE TypeOK'
  OBVIOUS
<1>1. ASSUME NEW w \in Writers, Compile(w) PROVE TypeOK'
  <2>0. PICK s \in Sources : \E b \in Drafts(s) :
          /\ batch' = [batch EXCEPT ![w] = b]
          /\ compiled' = compiled \cup {b[i].id : i \in DOMAIN b}
    BY <1>1 DEF Compile
  <2>1. PICK b \in Drafts(s) :
          /\ batch' = [batch EXCEPT ![w] = b]
          /\ compiled' = compiled \cup {b[i].id : i \in DOMAIN b}
    BY <2>0
  <2>2. b \in Seq(Draft) /\ \A i \in DOMAIN b : b[i] \in Draft
    BY <1>1, DraftsType DEF Compile
  <2>3. batch' \in [Writers -> Seq(Draft)]
    BY <2>1, <2>2 DEF TypeOK
  <2>4. compiled' \subseteq Claims
    BY <2>1, <2>2 DEF TypeOK, Draft
  <2>5. clock' \in 0..MaxClock
    BY <1>1 DEF Compile, TypeOK, ClaimAssumption
  <2>6. now' \in [Writers -> 0..MaxClock]
    BY <1>1, <2>5 DEF Compile, TypeOK
  <2>7. raced' \in BOOLEAN
    <3> DEFINE idle == Idle
    <3>1. raced' = (raced \/ ~idle)
      BY <1>1 DEF Compile
    <3>2. raced \in BOOLEAN
      BY DEF TypeOK
    <3> HIDE DEF idle
    <3> QED BY <3>1, <3>2
  <2> QED BY <1>1, <2>3, <2>4, <2>5, <2>6, <2>7 DEF Compile, TypeOK
<1>2. ASSUME NEW w \in Writers, List(w) PROVE TypeOK'
  <2> DEFINE d == Head(batch[w])
  <2>1. d \in Draft /\ Tail(batch[w]) \in Seq(Draft)
    BY <1>2 DEF List, TypeOK
  <2>2. Rivals(d) \subseteq Claims
    BY DEF Rivals, Active
  <2> DEFINE l == [c \in Claims |-> IF c \in Rivals(d) THEN claims[c] ELSE Absent]
             q == [busy |-> TRUE, draft |-> d, listed |-> l, rivals |-> Rivals(d),
                   settled |-> {}, linked |-> {}, stored |-> FALSE, filed |-> {}]
  <2>3. l \in [Claims -> Rec]
    <3>1. Absent \in Rec
      BY DEF Absent, Rec, Status, ClaimAssumption
    <3> QED BY <3>1 DEF TypeOK
  <2>4. putting' = [putting EXCEPT ![w] = q]
    BY <1>2 DEF List
  <2>5. q \in Progress
    <3> HIDE DEF l, d
    <3> QED BY <2>1, <2>2, <2>3 DEF Progress
  <2>6. putting' \in [Writers -> Progress \cup {NoPut}]
    <3> HIDE DEF q
    <3> QED BY <2>4, <2>5 DEF TypeOK
  <2>7. batch' \in [Writers -> Seq(Draft)]
    BY <1>2, <2>1 DEF List, TypeOK
  <2> QED BY <1>2, <2>6, <2>7 DEF List, TypeOK
<1>3. ASSUME NEW w \in Writers, ListRaised(w) PROVE TypeOK'
  BY <1>3 DEF ListRaised, TypeOK
<1>4. ASSUME NEW w \in Writers, PutClaim(w) PROVE TypeOK'
  <2> DEFINE q == putting[w]
  <2>1. q \in Progress
    BY <1>4, BusyProgress DEF PutClaim
  <2>2. q.draft.id \in Claims /\ now[w] \in 0..MaxClock
    BY <2>1 DEF Progress, Draft, TypeOK
  <2>3. claims' \in [Claims -> Rec]
    <3>1. Fresh(q.draft, Against(q), now[w]) \in Rec
      BY <2>1, <2>2, RecTypes
    <3>2. claims' = [claims EXCEPT ![q.draft.id] = Fresh(q.draft, Against(q), now[w])]
      BY <1>4 DEF PutClaim
    <3> QED BY <3>1, <3>2 DEF TypeOK
  <2>4. [q EXCEPT !.stored = TRUE] \in Progress
    BY <2>1 DEF Progress
  <2>5. putting' \in [Writers -> Progress \cup {NoPut}]
    BY <1>4, <2>4, OnwardsType DEF PutClaim, TypeOK
  <2> QED BY <1>4, <2>3, <2>5 DEF PutClaim, TypeOK
<1>5. ASSUME NEW w \in Writers, Crash(w) PROVE TypeOK'
  BY <1>5 DEF Crash, TypeOK, ClaimAssumption
<1>6. ASSUME NEW w \in Writers, NEW p \in Claims, PutRival(w, p) PROVE TypeOK'
  <2> DEFINE q == putting[w]
  <2>1. q \in Progress
    BY <1>6, BusyProgress DEF PutRival
  <2>2. Settlement(p, q, now[w]) \in Rec
    BY <2>1, RecTypes DEF TypeOK
  <2>3. claims' \in [Claims -> Rec]
    BY <1>6, <2>2 DEF PutRival, TypeOK
  <2>4. [q EXCEPT !.settled = @ \cup {p}] \in Progress
    BY <2>1 DEF Progress
  <2>5. putting' \in [Writers -> Progress \cup {NoPut}]
    BY <1>6, <2>4 DEF PutRival, TypeOK
  <2> QED BY <1>6, <2>3, <2>5 DEF PutRival, TypeOK
<1>7. ASSUME NEW w \in Writers, NEW p \in Claims, PutRelation(w, p) PROVE TypeOK'
  <2> DEFINE q == putting[w]
  <2>1. q \in Progress
    BY <1>7, BusyProgress DEF PutRelation
  <2>2. RelationTo(p, q) \in Relation
    <3>1. 0 \in 0..MaxClock
      BY DEF ClaimAssumption
    <3> QED BY <2>1, <3>1, RecTypes
  <2>3. [q EXCEPT !.linked = @ \cup {p}] \in Progress
    BY <2>1 DEF Progress
  <2>4. putting' \in [Writers -> Progress \cup {NoPut}]
    BY <1>7, <2>3 DEF PutRelation, TypeOK
  <2> QED BY <1>7, <2>2, <2>4 DEF PutRelation, TypeOK
<1>8. ASSUME NEW w \in Writers, NEW p \in Claims, PutDisagreement(w, p) PROVE TypeOK'
  <2> DEFINE q == putting[w]
  <2>1. q \in Progress /\ Orderly(q)
    BY <1>8, BusyProgress DEF PutDisagreement, LocalsOK
  <2>2. p \in q.rivals
    BY <1>8 DEF PutDisagreement, Against
  <2>3. q.listed[p].object \in Objects
    BY <2>1, <2>2 DEF Orderly, Sound
  <2>4. Disagreement(p, q) \in Dispute
    <3>1. 0 \in 0..MaxClock
      BY DEF ClaimAssumption
    <3> QED BY <2>1, <2>3, <3>1, RecTypes
  <2>5. disputes' \subseteq Dispute
    BY <1>8, <2>4 DEF PutDisagreement, TypeOK
  <2>6. [q EXCEPT !.filed = @ \cup {p}] \in Progress
    BY <2>1 DEF Progress
  <2>7. putting' \in [Writers -> Progress \cup {NoPut}]
    BY <1>8, <2>6, OnwardsType DEF PutDisagreement, TypeOK
  <2> QED BY <1>8, <2>5, <2>7 DEF PutDisagreement, TypeOK
<1>9. ASSUME NEW d \in disputes, NEW decision \in {"apply", "reject"}, Review(d, decision)
      PROVE  TypeOK'
  <2>1. [d EXCEPT !.status = IF decision = "apply" THEN "reviewed" ELSE "dismissed"]
          \in Dispute
    BY DEF TypeOK, Dispute
  <2>2. disputes' \subseteq Dispute
    BY <1>9, <2>1 DEF Review, TypeOK
  <2> QED BY <1>9, <2>2 DEF Review, TypeOK
<1>10. CASE UNCHANGED vars
  BY <1>10 DEF vars, TypeOK
<1> QED BY <1>1, <1>2, <1>3, <1>4, <1>5, <1>6, <1>7, <1>8, <1>9, <1>10 DEF Next

-----------------------------------------------------------------------------
(* Records and locals.                                                      *)

\* A step of put_claim_with_governance keeps what its writer listed.
LEMMA PutKeeps ==
    ASSUME TypeOK, NEW w \in Writers, NEW p \in Claims,
           PutClaim(w) \/ PutRival(w, p) \/ PutRelation(w, p) \/ PutDisagreement(w, p)
    PROVE  /\ putting[w].busy /\ putting[w] \in Progress
           /\ batch' = batch /\ compiled' = compiled /\ raced' = raced
           /\ now' = now /\ clock' = clock /\ crashes' = crashes
           /\ \A v \in Writers \ {w} : putting'[v] = putting[v]
           /\ \A v \in Writers : putting'[v].busy =>
                 /\ putting[v].busy
                 /\ putting'[v].draft = putting[v].draft
                 /\ putting'[v].rivals = putting[v].rivals
                 /\ putting'[v].listed = putting[v].listed
                 /\ putting[v].filed \subseteq putting'[v].filed
<1> DEFINE q == putting[w]
<1>1. q.busy /\ q \in Progress
  BY BusyProgress DEF PutClaim, PutRival, PutRelation, PutDisagreement
<1>2. /\ batch' = batch /\ compiled' = compiled /\ raced' = raced
      /\ now' = now /\ clock' = clock /\ crashes' = crashes
  BY DEF PutClaim, PutRival, PutRelation, PutDisagreement
<1>3. PICK f : putting' = [putting EXCEPT ![w] = f] /\
          (f.busy => /\ f.draft = q.draft /\ f.rivals = q.rivals
                     /\ f.listed = q.listed /\ q.filed \subseteq f.filed)
  <2>1. CASE PutClaim(w)
    <3> DEFINE f == [q EXCEPT !.stored = TRUE]
    <3>1. /\ f.draft = q.draft /\ f.rivals = q.rivals /\ f.listed = q.listed
            /\ q.filed \subseteq f.filed
      BY <1>1 DEF Progress
    <3> DEFINE g == Onwards(f)
    <3>2. putting' = [putting EXCEPT ![w] = g]
      BY <2>1 DEF PutClaim
    <3>3. g.busy => /\ g.draft = q.draft /\ g.rivals = q.rivals
                    /\ g.listed = q.listed /\ q.filed \subseteq g.filed
      <4> HIDE DEF f
      <4> QED BY <3>1 DEF Onwards, NoPut
    <3> HIDE DEF f, g
    <3> QED BY <3>2, <3>3
  <2>2. CASE PutRival(w, p)
    <3> DEFINE f == [q EXCEPT !.settled = @ \cup {p}]
    <3>1. /\ f.draft = q.draft /\ f.rivals = q.rivals /\ f.listed = q.listed
            /\ q.filed \subseteq f.filed
      BY <1>1 DEF Progress
    <3>2. putting' = [putting EXCEPT ![w] = f]
      BY <2>2 DEF PutRival, TypeOK
    <3> HIDE DEF f
    <3> QED BY <3>1, <3>2
  <2>3. CASE PutRelation(w, p)
    <3> DEFINE f == [q EXCEPT !.linked = @ \cup {p}]
    <3>1. /\ f.draft = q.draft /\ f.rivals = q.rivals /\ f.listed = q.listed
            /\ q.filed \subseteq f.filed
      BY <1>1 DEF Progress
    <3>2. putting' = [putting EXCEPT ![w] = f]
      BY <2>3 DEF PutRelation, TypeOK
    <3> HIDE DEF f
    <3> QED BY <3>1, <3>2
  <2>4. CASE PutDisagreement(w, p)
    <3> DEFINE f == [q EXCEPT !.filed = @ \cup {p}]
    <3>1. /\ f.draft = q.draft /\ f.rivals = q.rivals /\ f.listed = q.listed
            /\ q.filed \subseteq f.filed
      BY <1>1 DEF Progress
    <3> DEFINE g == Onwards(f)
    <3>2. putting' = [putting EXCEPT ![w] = g]
      BY <2>4 DEF PutDisagreement
    <3>3. g.busy => /\ g.draft = q.draft /\ g.rivals = q.rivals
                    /\ g.listed = q.listed /\ q.filed \subseteq g.filed
      <4> HIDE DEF f
      <4> QED BY <3>1 DEF Onwards, NoPut
    <3> HIDE DEF f, g
    <3> QED BY <3>2, <3>3
  <2> QED BY <2>1, <2>2, <2>3, <2>4
<1>4. \A v \in Writers \ {w} : putting'[v] = putting[v]
  BY <1>3 DEF TypeOK
<1>5. putting'[w] = f
  BY <1>3 DEF TypeOK
<1> QED BY <1>1, <1>2, <1>3, <1>4, <1>5

LEMMA OrderlySteps ==
    ASSUME NEW q \in Progress, Orderly(q), NEW p
    PROVE  /\ p \in q.rivals \ q.settled => Orderly([q EXCEPT !.settled = @ \cup {p}])
           /\ p \in q.settled \ q.linked => Orderly([q EXCEPT !.linked = @ \cup {p}])
           /\ q.linked = q.rivals => Orderly([q EXCEPT !.stored = TRUE])
           /\ q.stored /\ p \in Against(q) => Orderly([q EXCEPT !.filed = @ \cup {p}])
  BY DEF Orderly, Progress, Against

LEMMA SoundRecords ==
    ASSUME ClaimAssumption, NEW q \in Progress, Orderly(q), NEW p \in q.rivals, NEW t
    PROVE  /\ Sound(p, Settlement(p, q, t))
           /\ Sound(q.draft.id, Fresh(q.draft, Against(q), t))
<1>1. /\ q.listed[p] \in Rec /\ q.listed[p].status = "active" /\ p \in Claims
      /\ Sound(p, q.listed[p])
  BY DEF Orderly, Progress
<1>2. Sound(p, Settlement(p, q, t))
  BY <1>1 DEF Settlement, Superseded, Contradicted, SameSource, Sound, Rec
<1>3. Sound(q.draft.id, Fresh(q.draft, Against(q), t))
  BY DEF Fresh, Sound, Against, SameSource, Progress, Draft
<1> QED BY <1>2, <1>3

LEMMA RecordsStep ==
    ClaimAssumption /\ TypeOK /\ RecordsOK /\ LocalsOK /\ [Next]_vars => RecordsOK'
<1> SUFFICES ASSUME ClaimAssumption, TypeOK, RecordsOK, LocalsOK, [Next]_vars
             PROVE  RecordsOK'
  OBVIOUS
<1>1. CASE claims' = claims
  BY <1>1 DEF RecordsOK
<1>2. ASSUME NEW w \in Writers, PutClaim(w) PROVE RecordsOK'
  <2> DEFINE q == putting[w]
             r == Fresh(q.draft, Against(q), now[w])
  <2>1. q \in Progress /\ Orderly(q)
    BY <1>2, BusyProgress DEF PutClaim, LocalsOK
  <2>2. claims' = [claims EXCEPT ![q.draft.id] = r]
    BY <1>2 DEF PutClaim
  <2>3. Sound(q.draft.id, r)
    BY <2>1 DEF Fresh, Sound, Against, SameSource, Progress, Draft
  <2> HIDE DEF r
  <2> QED BY <2>2, <2>3 DEF RecordsOK, TypeOK
<1>3. ASSUME NEW w \in Writers, NEW p \in Claims, PutRival(w, p) PROVE RecordsOK'
  <2> DEFINE q == putting[w]
             r == Settlement(p, q, now[w])
  <2>1. q \in Progress /\ Orderly(q) /\ p \in q.rivals
    BY <1>3, BusyProgress DEF PutRival, LocalsOK
  <2>2. claims' = [claims EXCEPT ![p] = r]
    BY <1>3 DEF PutRival
  <2>3. Sound(p, r)
    BY <2>1, SoundRecords
  <2> HIDE DEF r
  <2> QED BY <2>2, <2>3 DEF RecordsOK, TypeOK
<1> QED BY <1>1, <1>2, <1>3 DEF Next, Compile, List, ListRaised, Crash, PutRelation,
            PutDisagreement, Review, vars

LEMMA LocalsStep ==
    ClaimAssumption /\ TypeOK /\ RecordsOK /\ LocalsOK /\ [Next]_vars => LocalsOK'
<1> SUFFICES ASSUME ClaimAssumption, TypeOK, RecordsOK, LocalsOK, [Next]_vars
             PROVE  LocalsOK'
  OBVIOUS
<1>1. CASE putting' = putting
  BY <1>1 DEF LocalsOK
<1>2. ASSUME NEW w \in Writers, NEW f, putting' = [putting EXCEPT ![w] = f],
             f.busy => Orderly(f)
      PROVE  LocalsOK'
  BY <1>2 DEF LocalsOK, TypeOK
<1>3. ASSUME NEW f \in Progress, Orderly(f) PROVE Onwards(f).busy => Orderly(Onwards(f))
  BY <1>3 DEF Onwards, NoPut
<1>4. ASSUME NEW w \in Writers, List(w) PROVE LocalsOK'
  <2> DEFINE d == Head(batch[w])
             l == [c \in Claims |-> IF c \in Rivals(d) THEN claims[c] ELSE Absent]
             q == [busy |-> TRUE, draft |-> d, listed |-> l, rivals |-> Rivals(d),
                   settled |-> {}, linked |-> {}, stored |-> FALSE, filed |-> {}]
  <2>1. putting' = [putting EXCEPT ![w] = q]
    BY <1>4 DEF List
  <2>2. ASSUME NEW c \in Rivals(d)
        PROVE  /\ c \in Claims /\ l[c] = claims[c] /\ c # d.id
               /\ claims[c].status = "active" /\ claims[c].object # d.object
               /\ Sound(c, claims[c])
    BY <2>2 DEF Rivals, Active, RecordsOK
  <2>3. Orderly(q)
    <3> HIDE DEF l, d
    <3> QED BY <2>2 DEF Orderly
  <2> HIDE DEF q
  <2> QED BY <2>1, <2>3, <1>2
<1>5. ASSUME NEW w \in Writers, Crash(w) PROVE LocalsOK'
  BY <1>5, <1>2 DEF Crash, NoPut
<1>6. ASSUME NEW w \in Writers, PutClaim(w) PROVE LocalsOK'
  <2> DEFINE q == putting[w]
             f == [q EXCEPT !.stored = TRUE]
  <2>1. q \in Progress /\ Orderly(q)
    BY <1>6, BusyProgress DEF PutClaim, LocalsOK
  <2>2. f \in Progress /\ Orderly(f)
    BY <1>6, <2>1, OrderlySteps DEF PutClaim, Progress
  <2>3. putting' = [putting EXCEPT ![w] = Onwards(f)]
    BY <1>6 DEF PutClaim
  <2> HIDE DEF f
  <2> QED BY <2>2, <2>3, <1>2, <1>3
<1>7. ASSUME NEW w \in Writers, NEW p \in Claims, PutRival(w, p) PROVE LocalsOK'
  <2> DEFINE q == putting[w]
             f == [q EXCEPT !.settled = @ \cup {p}]
  <2>1. q \in Progress /\ Orderly(q)
    BY <1>7, BusyProgress DEF PutRival, LocalsOK
  <2>2. Orderly(f)
    BY <1>7, <2>1, OrderlySteps DEF PutRival
  <2>3. putting' = [putting EXCEPT ![w] = f]
    BY <1>7 DEF PutRival, TypeOK
  <2> HIDE DEF f
  <2> QED BY <2>2, <2>3, <1>2
<1>8. ASSUME NEW w \in Writers, NEW p \in Claims, PutRelation(w, p) PROVE LocalsOK'
  <2> DEFINE q == putting[w]
             f == [q EXCEPT !.linked = @ \cup {p}]
  <2>1. q \in Progress /\ Orderly(q)
    BY <1>8, BusyProgress DEF PutRelation, LocalsOK
  <2>2. Orderly(f)
    BY <1>8, <2>1, OrderlySteps DEF PutRelation
  <2>3. putting' = [putting EXCEPT ![w] = f]
    BY <1>8 DEF PutRelation, TypeOK
  <2> HIDE DEF f
  <2> QED BY <2>2, <2>3, <1>2
<1>9. ASSUME NEW w \in Writers, NEW p \in Claims, PutDisagreement(w, p) PROVE LocalsOK'
  <2> DEFINE q == putting[w]
             f == [q EXCEPT !.filed = @ \cup {p}]
  <2>1. q \in Progress /\ Orderly(q)
    BY <1>9, BusyProgress DEF PutDisagreement, LocalsOK
  <2>2. p \in Claims /\ Orderly(f)
    BY <1>9, <2>1, OrderlySteps DEF PutDisagreement
  <2>3. f \in Progress
    BY <2>1, <2>2 DEF Progress
  <2>4. putting' = [putting EXCEPT ![w] = Onwards(f)]
    BY <1>9 DEF PutDisagreement
  <2> HIDE DEF f
  <2> QED BY <2>2, <2>3, <2>4, <1>2, <1>3
<1> QED BY <1>1, <1>4, <1>5, <1>6, <1>7, <1>8, <1>9 DEF Next, Compile, ListRaised,
            Review, vars

-----------------------------------------------------------------------------
(* Drafts and disputes.                                                     *)

LEMMA HeadAndTail ==
    ASSUME NEW s \in Seq(Draft), s # <<>>
    PROVE  /\ Head(s) = s[1] /\ 1 \in DOMAIN s /\ Tail(s) \in Seq(Draft)
           /\ \A i \in DOMAIN Tail(s) : i + 1 \in DOMAIN s /\ Tail(s)[i] = s[i + 1]
           /\ \A i \in DOMAIN Tail(s) : i \in Nat /\ 1 < i + 1
  OBVIOUS

\* A step that gives no writer another draft to put, and forgets nothing filed.
DraftsKept ==
    /\ compiled' = compiled
    /\ \A v \in Writers : \A i \in DOMAIN batch'[v] :
          \/ i \in DOMAIN batch[v] /\ batch'[v][i] = batch[v][i]
          \/ /\ i \in Nat /\ i + 1 \in DOMAIN batch[v] /\ List(v)
             /\ batch'[v] = Tail(batch[v]) /\ batch'[v][i] = batch[v][i + 1]
    /\ \A v \in Writers : putting'[v].busy =>
          \/ /\ putting[v].busy /\ putting'[v].draft = putting[v].draft
             /\ batch'[v] = batch[v] /\ putting[v].filed \subseteq putting'[v].filed
          \/ /\ ~putting[v].busy /\ List(v)
             /\ 1 \in DOMAIN batch[v] /\ putting'[v].draft = batch[v][1]

LEMMA DraftsLeft ==
    TypeOK /\ [Next]_vars => DraftsKept \/ \E w \in Writers : Compile(w)
<1> SUFFICES ASSUME TypeOK, [Next]_vars PROVE DraftsKept \/ \E w \in Writers : Compile(w)
  OBVIOUS
<1>1. CASE UNCHANGED <<compiled, batch, putting>>
  BY <1>1 DEF DraftsKept
<1>2. ASSUME NEW w \in Writers, ListRaised(w) \/ Crash(w) PROVE DraftsKept
  <2>1. /\ batch' = [batch EXCEPT ![w] = <<>>] /\ compiled' = compiled
        /\ ~putting'[w].busy /\ \A v \in Writers \ {w} : putting'[v] = putting[v]
    BY <1>2 DEF ListRaised, Crash, TypeOK, NoPut
  <2> QED BY <2>1 DEF DraftsKept, TypeOK
<1>3. ASSUME NEW w \in Writers, List(w) PROVE DraftsKept
  <2>1. /\ batch[w] \in Seq(Draft) /\ batch[w] # <<>> /\ ~putting[w].busy
        /\ batch'[w] = Tail(batch[w]) /\ putting'[w].draft = Head(batch[w])
        /\ compiled' = compiled
    BY <1>3 DEF List, TypeOK
  <2>2. \A v \in Writers \ {w} : batch'[v] = batch[v] /\ putting'[v] = putting[v]
    BY <1>3 DEF List, TypeOK
  <2>3. /\ Head(batch[w]) = batch[w][1] /\ 1 \in DOMAIN batch[w]
        /\ \A i \in DOMAIN Tail(batch[w]) :
              /\ i \in Nat /\ i + 1 \in DOMAIN batch[w]
              /\ Tail(batch[w])[i] = batch[w][i + 1]
    BY <2>1, HeadAndTail
  <2>4. ASSUME NEW v \in Writers, NEW i \in DOMAIN batch'[v]
        PROVE  \/ i \in DOMAIN batch[v] /\ batch'[v][i] = batch[v][i]
               \/ /\ i \in Nat /\ i + 1 \in DOMAIN batch[v] /\ List(v)
                  /\ batch'[v] = Tail(batch[v]) /\ batch'[v][i] = batch[v][i + 1]
    BY <2>1, <2>2, <2>3, <1>3
  <2>5. ASSUME NEW v \in Writers, putting'[v].busy
        PROVE  \/ /\ putting[v].busy /\ putting'[v].draft = putting[v].draft
                  /\ batch'[v] = batch[v] /\ putting[v].filed \subseteq putting'[v].filed
               \/ /\ ~putting[v].busy /\ List(v)
                  /\ 1 \in DOMAIN batch[v] /\ putting'[v].draft = batch[v][1]
    BY <2>1, <2>2, <2>3, <2>5, <1>3
  <2> QED BY <2>1, <2>4, <2>5 DEF DraftsKept
<1>4. ASSUME NEW w \in Writers, NEW p \in Claims,
             PutClaim(w) \/ PutRival(w, p) \/ PutRelation(w, p) \/ PutDisagreement(w, p)
      PROVE  DraftsKept
  <2>1. /\ batch' = batch /\ compiled' = compiled
        /\ \A v \in Writers : putting'[v].busy =>
              /\ putting[v].busy /\ putting'[v].draft = putting[v].draft
              /\ putting[v].filed \subseteq putting'[v].filed
    BY <1>4, PutKeeps
  <2> QED BY <2>1 DEF DraftsKept
<1>5. ASSUME NEW w \in Writers, PutClaim(w) PROVE DraftsKept
  <2>1. putting[w].draft.id \in Claims
    BY <1>5, BusyProgress DEF PutClaim, Progress, Draft
  <2> QED BY <1>4, <1>5, <2>1
<1> QED BY <1>1, <1>2, <1>3, <1>4, <1>5 DEF Next, Review, vars

LEMMA DraftsStep ==
    ClaimAssumption /\ TypeOK /\ DraftsOK /\ [Next]_vars => DraftsOK'
<1> SUFFICES ASSUME ClaimAssumption, TypeOK, DraftsOK, [Next]_vars PROVE DraftsOK'
  OBVIOUS
<1>1. CASE DraftsKept
  <2>1. ASSUME NEW v \in Writers, NEW d, Has(v, d)' PROVE Has(v, d)
    <3>1. CASE \E i \in DOMAIN batch'[v] : batch'[v][i] = d
      BY <1>1, <3>1 DEF DraftsKept, Has
    <3>2. CASE putting'[v].busy /\ putting'[v].draft = d
      BY <1>1, <3>2 DEF DraftsKept, Has
    <3> QED BY <2>1, <3>1, <3>2 DEF Has
  <2>2. \A w \in Writers, d \in Draft : Has(w, d)' => d.id \in compiled'
    BY <2>1, <1>1 DEF DraftsOK, DraftsKept
  <2>3. \A v, w \in Writers, d, e \in Draft :
          Has(v, d)' /\ Has(w, e)' /\ d.id = e.id => v = w
    BY <2>1 DEF DraftsOK
  <2>4. ASSUME NEW w \in Writers, NEW i \in DOMAIN batch'[w], NEW j \in DOMAIN batch'[w],
               i < j
        PROVE  batch'[w][i].object # batch'[w][j].object
    <3>1. CASE batch'[w] = Tail(batch[w]) /\ List(w)
      <4>1. batch[w] \in Seq(Draft) /\ batch[w] # <<>>
        BY <3>1 DEF List, TypeOK
      <4>2. /\ i + 1 \in DOMAIN batch[w] /\ batch'[w][i] = batch[w][i + 1]
            /\ j + 1 \in DOMAIN batch[w] /\ batch'[w][j] = batch[w][j + 1]
            /\ i \in Nat /\ j \in Nat
        BY <3>1, <4>1, HeadAndTail
      <4>3. i + 1 < j + 1
        BY <4>2, <2>4
      <4> QED BY <4>2, <4>3 DEF DraftsOK
    <3>2. CASE ~List(w)
      BY <1>1, <3>2, <2>4 DEF DraftsKept, DraftsOK
    <3>3. CASE List(w) /\ batch'[w] # Tail(batch[w])
      BY <3>3 DEF List, TypeOK
    <3> QED BY <3>1, <3>2, <3>3
  <2>5. ASSUME NEW w \in Writers, putting'[w].busy, NEW i \in DOMAIN batch'[w]
        PROVE  batch'[w][i].object # putting'[w].draft.object
    <3>1. CASE List(w)
      <4>1. /\ batch[w] \in Seq(Draft) /\ batch[w] # <<>>
            /\ batch'[w] = Tail(batch[w]) /\ putting'[w].draft = Head(batch[w])
        BY <3>1 DEF List, TypeOK
      <4>2. /\ i + 1 \in DOMAIN batch[w] /\ batch'[w][i] = batch[w][i + 1]
            /\ 1 < i + 1 /\ 1 \in DOMAIN batch[w] /\ putting'[w].draft = batch[w][1]
        BY <4>1, HeadAndTail
      <4> QED BY <4>2 DEF DraftsOK
    <3>2. CASE ~List(w)
      BY <1>1, <3>2, <2>5 DEF DraftsKept, DraftsOK
    <3> QED BY <3>1, <3>2
  <2> QED BY <2>2, <2>3, <2>4, <2>5 DEF DraftsOK
<1>2. ASSUME NEW w \in Writers, Compile(w) PROVE DraftsOK'
  <2>0. PICK s \in Sources : \E b \in Drafts(s) :
          /\ batch' = [batch EXCEPT ![w] = b]
          /\ compiled' = compiled \cup {b[i].id : i \in DOMAIN b}
    BY <1>2 DEF Compile
  <2>1. PICK b \in Drafts(s) :
          /\ batch' = [batch EXCEPT ![w] = b]
          /\ compiled' = compiled \cup {b[i].id : i \in DOMAIN b}
    BY <2>0
  <2>2. /\ \A i \in DOMAIN b : b[i] \in Draft /\ b[i].id \notin compiled
        /\ \A i, j \in DOMAIN b : i < j => b[i].object # b[j].object
    BY <1>2, DraftsType DEF Compile
  <2>3. /\ putting' = putting /\ ~putting[w].busy /\ batch'[w] = b
        /\ \A v \in Writers \ {w} : batch'[v] = batch[v]
    BY <1>2, <2>1 DEF Compile, Rest, TypeOK
  <2>4. ASSUME NEW v \in Writers, NEW d, Has(v, d)'
        PROVE  \/ v # w /\ Has(v, d)
               \/ v = w /\ d.id \notin compiled /\ d.id \in compiled'
    BY <2>1, <2>2, <2>3, <2>4 DEF Has
  <2>5. \A v \in Writers, d \in Draft : Has(v, d)' => d.id \in compiled'
    BY <2>1, <2>4 DEF DraftsOK
  <2>6. \A u, v \in Writers, d, e \in Draft :
          Has(u, d)' /\ Has(v, e)' /\ d.id = e.id => u = v
    BY <2>4 DEF DraftsOK
  <2> QED BY <2>2, <2>3, <2>5, <2>6 DEF DraftsOK
<1> QED BY <1>1, <1>2, DraftsLeft

LEMMA SameDisputeIsEquivalence ==
    /\ \A x : SameDispute(x, x)
    /\ \A x, y : SameDispute(x, y) => SameDispute(y, x)
    /\ \A x, y, z : SameDispute(x, y) /\ SameDispute(y, z) => SameDispute(x, z)
  BY DEF SameDispute

\* What PutDisagreement files is new: nobody can have settled it.
LEMMA FiledOnce ==
    ASSUME TypeOK, LocalsOK, DisputesOK, NEW w \in Writers, NEW p \in Claims,
           PutDisagreement(w, p), NEW x \in disputes
    PROVE  ~SameDispute(x, Disagreement(p, putting[w]))
<1>1. putting[w].busy /\ p \notin putting[w].filed
  BY DEF PutDisagreement
<1>2. ~(/\ x.new = putting[w].draft.id /\ x.newObject = putting[w].draft.object
        /\ x.old = p)
  BY <1>1 DEF DisputesOK, FromThePast
<1> QED BY <1>2 DEF SameDispute, Disagreement

\* What a step does to the disputes.
LEMMA DisputesAfter ==
    ASSUME TypeOK, [Next]_vars
    PROVE  \/ disputes' = disputes
           \/ \E w \in Writers, p \in Claims :
                 /\ PutDisagreement(w, p)
                 /\ disputes' =
                      {d \in disputes : ~SameDispute(d, Disagreement(p, putting[w]))}
                        \cup {Disagreement(p, putting[w])}
           \/ \E d \in disputes, s \in {"reviewed", "dismissed"} :
                 /\ disputes' = (disputes \ {d}) \cup {[d EXCEPT !.status = s]}
                 /\ UNCHANGED <<compiled, batch, putting>>
<1>1. ASSUME NEW d \in disputes, NEW decision \in {"apply", "reject"}, Review(d, decision)
      PROVE  \E s \in {"reviewed", "dismissed"} :
                 /\ disputes' = (disputes \ {d}) \cup {[d EXCEPT !.status = s]}
                 /\ UNCHANGED <<compiled, batch, putting>>
  BY <1>1 DEF Review
<1> QED BY <1>1 DEF Next, vars, Compile, List, ListRaised, PutClaim, PutRival,
            PutRelation, PutDisagreement, Crash

\* A reviewed dispute is the same dispute.
LEMMA ReviewKeeps ==
    ASSUME TypeOK, NEW d \in disputes, NEW s \in {"reviewed", "dismissed"}
    PROVE  /\ SameDispute([d EXCEPT !.status = s], d)
           /\ [d EXCEPT !.status = s].status = s
  BY DEF TypeOK, Dispute, SameDispute

LEMMA DisputesStep ==
    ClaimAssumption /\ TypeOK /\ LocalsOK /\ DraftsOK /\ DisputesOK /\ [Next]_vars
      => DisputesOK'
<1> SUFFICES ASSUME ClaimAssumption, TypeOK, LocalsOK, DraftsOK, DisputesOK, [Next]_vars
             PROVE  DisputesOK'
  OBVIOUS
<1>1. ASSUME NEW x, NEW y \in disputes, SameDispute(x, y) PROVE FromThePast(x)'
  <2>1. x.new = y.new /\ x.newObject = y.newObject /\ x.old = y.old
    BY <1>1 DEF SameDispute
  <2>2. FromThePast(y)
    BY DEF DisputesOK
  <2>3. CASE DraftsKept
    <3>1. y.new \in compiled'
      BY <2>2, <2>3 DEF DraftsKept, FromThePast
    <3>2. \A w \in Writers : \A i \in DOMAIN batch'[w] :
             ~(y.new = batch'[w][i].id /\ y.newObject = batch'[w][i].object)
      BY <2>2, <2>3 DEF DraftsKept, FromThePast
    <3>3. ASSUME NEW w \in Writers, putting'[w].busy,
                 y.new = putting'[w].draft.id, y.newObject = putting'[w].draft.object
          PROVE  y.old \in putting'[w].filed
      BY <2>2, <2>3, <3>3 DEF DraftsKept, FromThePast
    <3> QED BY <2>1, <3>1, <3>2, <3>3 DEF FromThePast
  <2>4. ASSUME NEW v \in Writers, Compile(v) PROVE FromThePast(x)'
    <3>1. PICK s \in Sources : \E b \in Drafts(s) :
            /\ batch' = [batch EXCEPT ![v] = b]
            /\ compiled' = compiled \cup {b[i].id : i \in DOMAIN b}
      BY <2>4 DEF Compile
    <3>2. PICK b \in Drafts(s) :
            /\ batch' = [batch EXCEPT ![v] = b]
            /\ compiled' = compiled \cup {b[i].id : i \in DOMAIN b}
      BY <3>1
    <3>3. \A i \in DOMAIN b : b[i].id # y.new
      BY <2>4, <2>2, DraftsType DEF Compile, FromThePast
    <3>4. /\ putting' = putting /\ batch'[v] = b
          /\ \A w \in Writers \ {v} : batch'[w] = batch[w]
      BY <2>4, <3>2 DEF Compile, TypeOK
    <3> QED BY <2>1, <2>2, <3>2, <3>3, <3>4 DEF FromThePast
  <2> QED BY <2>3, <2>4, DraftsLeft
<1>2. CASE disputes' = disputes
  BY <1>1, <1>2, SameDisputeIsEquivalence DEF DisputesOK
<1>3. ASSUME NEW d \in disputes, NEW s \in {"reviewed", "dismissed"},
             disputes' = (disputes \ {d}) \cup {[d EXCEPT !.status = s]}
      PROVE  DisputesOK'
  <2>1. PICK e : e = [d EXCEPT !.status = s]
    OBVIOUS
  <2>2. SameDispute(e, d) /\ disputes' = (disputes \ {d}) \cup {e}
    BY <1>3, <2>1, ReviewKeeps
  <2>3. ASSUME NEW x \in disputes' PROVE FromThePast(x)'
    <3>1. CASE x = e
      BY <1>1, <2>2, <3>1
    <3>2. CASE x \in disputes
      BY <1>1, <3>2, SameDisputeIsEquivalence
    <3> QED BY <2>2, <3>1, <3>2
  <2>4. ASSUME NEW x \in disputes', NEW y \in disputes', SameDispute(x, y) PROVE x = y
    <3>1. CASE x \in disputes \ {d} /\ y \in disputes \ {d}
      BY <2>4, <3>1 DEF DisputesOK
    <3>2. ASSUME NEW z \in disputes \ {d} PROVE ~SameDispute(z, e) /\ ~SameDispute(e, z)
      BY <2>2, SameDisputeIsEquivalence DEF DisputesOK
    <3> QED BY <2>2, <2>4, <3>1, <3>2
  <2> QED BY <2>3, <2>4 DEF DisputesOK
<1>4. ASSUME NEW w \in Writers, NEW p \in Claims, PutDisagreement(w, p) PROVE DisputesOK'
  <2> DEFINE q == putting[w]
  <2>0. PICK e : e = Disagreement(p, q)
    OBVIOUS
  <2>1. disputes' = {d \in disputes : ~SameDispute(d, e)} \cup {e}
    BY <1>4, <2>0 DEF PutDisagreement
  <2>2. ASSUME NEW x \in disputes', NEW y \in disputes', SameDispute(x, y) PROVE x = y
    <3>1. CASE x \in disputes /\ y \in disputes
      BY <2>2, <3>1 DEF DisputesOK
    <3>2. ASSUME NEW z \in disputes, ~SameDispute(z, e) PROVE ~SameDispute(e, z)
      BY <3>2, SameDisputeIsEquivalence
    <3> QED BY <2>1, <2>2, <3>1, <3>2
  <2>3. e.new = q.draft.id /\ e.newObject = q.draft.object /\ e.old = p
    BY <2>0 DEF Disagreement
  <2>4. /\ q.busy /\ q \in Progress
        /\ \A v \in Writers : putting'[v].busy => putting[v].busy
                                       /\ putting'[v].draft = putting[v].draft
        /\ batch' = batch /\ compiled' = compiled
    BY <1>4, PutKeeps
  <2>5. q.draft \in Draft /\ Has(w, q.draft)
    BY <2>4 DEF Progress, Has
  <2>6. ASSUME NEW v \in Writers, NEW i \in DOMAIN batch'[v]
        PROVE  ~(e.new = batch'[v][i].id /\ e.newObject = batch'[v][i].object)
    <3>1. batch'[v][i] \in Draft /\ Has(v, batch'[v][i]) /\ i \in DOMAIN batch[v]
      BY <2>4, <2>6 DEF TypeOK, Has
    <3>2. v # w => batch'[v][i].id # q.draft.id
      BY <2>5, <3>1 DEF DraftsOK
    <3>3. v = w => batch'[v][i].object # q.draft.object
      BY <2>4, <3>1 DEF DraftsOK
    <3> QED BY <2>3, <3>2, <3>3
  <2>7. ASSUME NEW v \in Writers, putting'[v].busy, e.new = putting'[v].draft.id
        PROVE  e.old \in putting'[v].filed
    <3>1. putting[v].draft \in Draft /\ Has(v, putting[v].draft)
      BY <2>4, <2>7, BusyProgress DEF Progress, Has
    <3>2. v = w
      BY <2>3, <2>4, <2>5, <2>7, <3>1 DEF DraftsOK
    <3> DEFINE g == [q EXCEPT !.filed = @ \cup {p}]
    <3>3. putting'[w] = Onwards(g)
      BY <1>4 DEF PutDisagreement, TypeOK
    <3>4. p \in g.filed
      BY <2>4 DEF Progress
    <3>5. putting'[w] = g
      <4> HIDE DEF g
      <4> QED BY <2>7, <3>2, <3>3 DEF Onwards, NoPut
    <3> QED BY <2>3, <3>2, <3>4, <3>5
  <2>8. e.new \in compiled'
    BY <2>3, <2>4, <2>5 DEF DraftsOK
  <2>9. FromThePast(e)'
    BY <2>6, <2>7, <2>8 DEF FromThePast
  <2>10. ASSUME NEW x \in disputes' PROVE FromThePast(x)'
    <3>1. CASE x = e
      BY <2>9, <3>1
    <3>2. CASE x \in disputes
      BY <1>1, <3>2, SameDisputeIsEquivalence
    <3> QED BY <2>1, <3>1, <3>2
  <2> QED BY <2>2, <2>10 DEF DisputesOK
<1> QED BY <1>2, <1>3, <1>4, DisputesAfter

LEMMA SettledStep ==
    ASSUME TypeOK, LocalsOK, DisputesOK, [Next]_vars, NEW d \in disputes
    PROVE  /\ \E e \in disputes' : SameDispute(d, e)
           /\ d.status # "pending_review" =>
                \A e \in disputes' : SameDispute(d, e) => e.status # "pending_review"
<1>1. CASE disputes' = disputes
  BY <1>1, SameDisputeIsEquivalence DEF DisputesOK
<1>2. ASSUME NEW x \in disputes, NEW s \in {"reviewed", "dismissed"},
             disputes' = (disputes \ {x}) \cup {[x EXCEPT !.status = s]}
      PROVE  /\ \E e \in disputes' : SameDispute(d, e)
             /\ d.status # "pending_review" =>
                  \A e \in disputes' : SameDispute(d, e) => e.status # "pending_review"
  <2>1. PICK f : f = [x EXCEPT !.status = s]
    OBVIOUS
  <2>2. SameDispute(f, x) /\ f.status = s /\ disputes' = (disputes \ {x}) \cup {f}
    BY <1>2, <2>1, ReviewKeeps
  <2>3. SameDispute(d, d) /\ SameDispute(x, f)
    BY <2>2, SameDisputeIsEquivalence
  <2>4. \E e \in disputes' : SameDispute(d, e)
    BY <2>2, <2>3
  <2>5. ASSUME NEW e \in disputes', SameDispute(d, e), d.status # "pending_review"
        PROVE  e.status # "pending_review"
    BY <2>2, <2>5 DEF DisputesOK
  <2> QED BY <2>4, <2>5
<1>3. ASSUME NEW w \in Writers, NEW p \in Claims, PutDisagreement(w, p)
      PROVE  /\ \E e \in disputes' : SameDispute(d, e)
             /\ d.status # "pending_review" =>
                  \A e \in disputes' : SameDispute(d, e) => e.status # "pending_review"
  <2>1. PICK f : f = Disagreement(p, putting[w])
    OBVIOUS
  <2>2. disputes' = {e \in disputes : ~SameDispute(e, f)} \cup {f}
    BY <1>3, <2>1 DEF PutDisagreement
  <2>3. ~SameDispute(d, f)
    BY <1>3, <2>1, FiledOnce
  <2>4. SameDispute(d, d)
    BY SameDisputeIsEquivalence
  <2>5. ASSUME NEW e \in disputes', SameDispute(d, e) PROVE e = d
    BY <2>2, <2>3, <2>5 DEF DisputesOK
  <2> QED BY <2>2, <2>3, <2>4, <2>5
<1> QED BY <1>1, <1>2, <1>3, DisputesAfter

-----------------------------------------------------------------------------
(* A writer alone.                                                          *)

\* The writer at work is the only one, and its time is the clock's.
LEMMA OthersRest ==
    ASSUME AloneOK, ~raced, NEW w \in Writers, ~Rest(w)
    PROVE  /\ \A v \in Writers \ {w} : Rest(v) /\ ~putting[v].busy
           /\ now[w] = clock
           /\ putting[w].busy => Current(putting[w])
  BY DEF AloneOK, Rest

\* A lone writer rewrites a rival from a copy that is still the record itself.
LEMMA RivalEffect ==
    ASSUME ClaimAssumption, TypeOK, LocalsOK, AloneOK, ~raced,
           NEW w \in Writers, NEW p \in Claims, PutRival(w, p),
           NEW q, q = putting[w]
    PROVE  /\ q \in Progress /\ q.busy /\ Orderly(q) /\ Current(q)
           /\ p \in q.rivals \ q.settled /\ q.linked = q.settled /\ ~q.stored
           /\ putting' = [putting EXCEPT ![w] = [q EXCEPT !.settled = @ \cup {p}]]
           /\ now[w] = clock /\ q.draft.id \in Claims \ {p}
           /\ claims[p] = q.listed[p] /\ p \in Active /\ Sound(p, claims[p])
           /\ \A c \in Claims \ {p} : claims'[c] = claims[c]
           /\ claims'[p].object = claims[p].object
           /\ claims'[p].created = claims[p].created
           /\ claims'[p].updated = clock
           /\ SameSource(p, q.draft) =>
                 /\ claims'[p].status = "superseded"
                 /\ claims'[p].by = {q.draft.id}
           /\ ~SameSource(p, q.draft) =>
                 /\ claims'[p].status = "active"
                 /\ claims'[p].contradicts = claims[p].contradicts \cup {q.draft.id}
                 /\ ~claims'[p].resolved
<1>1. /\ q.busy /\ q.linked = q.settled /\ p \in q.rivals \ q.settled
      /\ claims' = [claims EXCEPT ![p] = Settlement(p, q, now[w])]
      /\ putting' = [putting EXCEPT ![w].settled = @ \cup {p}]
  BY DEF PutRival
<1>2. q \in Progress /\ Orderly(q)
  BY <1>1, BusyProgress DEF LocalsOK
<1>3. Current(q) /\ now[w] = clock
  BY <1>1, OthersRest DEF Rest
<1>4. /\ q.draft.id \in Claims \ {p} /\ ~q.stored
      /\ q.listed[p].status = "active" /\ Sound(p, q.listed[p])
  BY <1>1, <1>2 DEF Orderly, Progress, Draft
<1>5. claims[p] = q.listed[p] /\ claims[p] \in Rec
  BY <1>1, <1>3 DEF Current, TypeOK
<1>6. claims'[p] = Settlement(p, q, clock) /\ \A c \in Claims \ {p} : claims'[c] = claims[c]
  BY <1>1, <1>3 DEF TypeOK
<1>7. claims[p].by = {}
  BY <1>4, <1>5 DEF Sound
<1>8. putting' = [putting EXCEPT ![w] = [q EXCEPT !.settled = @ \cup {p}]]
  BY <1>1 DEF TypeOK
<1>9. p \in Active
  BY <1>4, <1>5 DEF Active
<1>10. SameSource(p, q.draft) =>
          /\ claims'[p].object = claims[p].object
          /\ claims'[p].created = claims[p].created /\ claims'[p].updated = clock
          /\ claims'[p].status = "superseded" /\ claims'[p].by = {q.draft.id}
  <2> SUFFICES ASSUME SameSource(p, q.draft)
               PROVE  /\ claims'[p].object = claims[p].object
                      /\ claims'[p].created = claims[p].created
                      /\ claims'[p].updated = clock
                      /\ claims'[p].status = "superseded"
                      /\ claims'[p].by = {q.draft.id}
    OBVIOUS
  <2>1. claims'[p] = [claims[p] EXCEPT !.status = "superseded",
                         !.by = @ \cup {q.draft.id}, !.updated = clock]
    BY <1>5, <1>6 DEF Settlement, Superseded
  <2> QED BY <1>5, <1>7, <2>1 DEF Rec
<1>11. ~SameSource(p, q.draft) =>
          /\ claims'[p].object = claims[p].object
          /\ claims'[p].created = claims[p].created /\ claims'[p].updated = clock
          /\ claims'[p].status = "active" /\ ~claims'[p].resolved
          /\ claims'[p].contradicts = claims[p].contradicts \cup {q.draft.id}
  <2> SUFFICES ASSUME ~SameSource(p, q.draft)
               PROVE  /\ claims'[p].object = claims[p].object
                      /\ claims'[p].created = claims[p].created
                      /\ claims'[p].updated = clock
                      /\ claims'[p].status = "active" /\ ~claims'[p].resolved
                      /\ claims'[p].contradicts = claims[p].contradicts \cup {q.draft.id}
    OBVIOUS
  <2>1. claims'[p] = [claims[p] EXCEPT !.contradicts = @ \cup {q.draft.id},
                         !.resolved = FALSE, !.updated = clock]
    BY <1>5, <1>6 DEF Settlement, Contradicted
  <2> QED BY <1>4, <1>5, <2>1 DEF Rec
<1> QED BY <1>1, <1>2, <1>3, <1>4, <1>5, <1>6, <1>8, <1>9, <1>10, <1>11

\* When a lone writer stores its claim, every active claim that differs is of
\* another source and names the newcomer as its contradiction.
LEMMA ClaimEffect ==
    ASSUME ClaimAssumption, TypeOK, LocalsOK, AloneOK, ~raced,
           NEW w \in Writers, PutClaim(w), NEW q, q = putting[w]
    PROVE  /\ q \in Progress /\ q.busy /\ Orderly(q) /\ Current(q) /\ ~q.stored
           /\ q.linked = q.rivals /\ q.settled = q.rivals
           /\ now[w] = clock /\ q.draft.id \in Claims
           /\ putting' = [putting EXCEPT ![w] = Onwards([q EXCEPT !.stored = TRUE])]
           /\ \A c \in Claims \ {q.draft.id} : claims'[c] = claims[c]
           /\ claims'[q.draft.id] = Fresh(q.draft, Against(q), clock)
           /\ \A p \in Active \ {q.draft.id} : claims[p].object # q.draft.object =>
                 /\ p \in Against(q) /\ Src[p] # Src[q.draft.id]
                 /\ ~claims[p].resolved /\ q.draft.id \in claims[p].contradicts
<1>1. /\ q.busy /\ ~q.stored /\ q.linked = q.rivals
      /\ claims' = [claims EXCEPT ![q.draft.id] = Fresh(q.draft, Against(q), now[w])]
      /\ putting' = [putting EXCEPT ![w] = Onwards([q EXCEPT !.stored = TRUE])]
  BY DEF PutClaim
<1>2. q \in Progress /\ Orderly(q)
  BY <1>1, BusyProgress DEF LocalsOK
<1>3. Current(q) /\ now[w] = clock
  BY <1>1, OthersRest DEF Rest
<1>4. q.draft.id \in Claims /\ q.settled = q.rivals
  BY <1>1, <1>2 DEF Orderly, Progress, Draft
<1>5. /\ claims'[q.draft.id] = Fresh(q.draft, Against(q), clock)
      /\ \A c \in Claims \ {q.draft.id} : claims'[c] = claims[c]
  BY <1>1, <1>3, <1>4 DEF TypeOK
<1>6. \A p \in Active \ {q.draft.id} : claims[p].object # q.draft.object =>
          /\ p \in Against(q) /\ Src[p] # Src[q.draft.id]
          /\ ~claims[p].resolved /\ q.draft.id \in claims[p].contradicts
  BY <1>1, <1>3, <1>4 DEF Current, Against, SameSource
<1> QED BY <1>1, <1>2, <1>3, <1>4, <1>5, <1>6

\* What Current says does not depend on the locals a step changes afterwards.
LEMMA CurrentKept ==
    ASSUME claims' = claims, NEW q, NEW f, Current(q),
           f.rivals = q.rivals, f.settled = q.settled, f.listed = q.listed,
           f.draft = q.draft, q.stored => f.stored
    PROVE  Current(f)'
  BY DEF Current, Active

LEMMA AloneStep ==
    ASSUME ClaimAssumption, TypeOK, LocalsOK, AloneOK, [Next]_vars
    PROVE  AloneOK'
<1> SUFFICES ASSUME ~raced' PROVE AloneOK'
  BY DEF AloneOK
\* All that is left to show when writer w takes a step and the others rest.
<1>1. ASSUME ~raced, NEW w \in Writers, ~Rest(w), clock' = clock, now' = now,
             \A v \in Writers \ {w} : batch'[v] = batch[v] /\ putting'[v] = putting[v],
             NEW f, putting'[w] = f, f.busy => Current(f)'
      PROVE  AloneOK'
  <2>1. \A v \in Writers \ {w} : Rest(v)' /\ ~putting'[v].busy
    BY <1>1, OthersRest DEF Rest
  <2>2. now'[w] = clock'
    BY <1>1, OthersRest
  <2>3. putting'[w].busy => Current(putting[w])'
    BY <1>1
  <2> QED BY <2>1, <2>2, <2>3 DEF AloneOK
<1>2. ASSUME NEW w \in Writers, Compile(w) PROVE AloneOK'
  <2>1. ~raced /\ Idle /\ now'[w] = clock'
    BY <1>2 DEF Compile, TypeOK
  <2>2. \A v \in Writers : ~putting'[v].busy
    BY <1>2, <2>1 DEF Compile, Idle, Rest
  <2>3. \A v \in Writers \ {w} : batch'[v] = <<>>
    BY <1>2, <2>1 DEF Compile, Idle, Rest, TypeOK
  <2> QED BY <2>1, <2>2, <2>3 DEF AloneOK, Rest
<1>3. ASSUME NEW w \in Writers, List(w) PROVE AloneOK'
  <2> DEFINE d == Head(batch[w])
             l == [c \in Claims |-> IF c \in Rivals(d) THEN claims[c] ELSE Absent]
  <2>1. PICK f : f = [busy |-> TRUE, draft |-> d, listed |-> l, rivals |-> Rivals(d),
                      settled |-> {}, linked |-> {}, stored |-> FALSE, filed |-> {}]
    OBVIOUS
  <2>2. putting' = [putting EXCEPT ![w] = f]
    BY <1>3, <2>1 DEF List
  <2>3. \A c \in Rivals(d) : c \in Claims /\ l[c] = claims[c]
    BY DEF Rivals, Active
  <2>4. \A c \in Active : c # d.id /\ claims[c].object # d.object => c \in Rivals(d)
    BY DEF Rivals
  <2>5. Current(f)
    <3> HIDE DEF l, d
    <3> QED BY <2>1, <2>3, <2>4 DEF Current
  <2>6. Current(f)'
    BY <1>3, <2>5, CurrentKept DEF List
  <2>7. putting'[w] = f /\ \A v \in Writers \ {w} : putting'[v] = putting[v]
    BY <2>2 DEF TypeOK
  <2>8. /\ \A v \in Writers \ {w} : batch'[v] = batch[v]
        /\ ~raced /\ clock' = clock /\ now' = now /\ ~Rest(w)
    BY <1>3 DEF List, TypeOK, Rest
  <2> QED BY <1>1, <2>6, <2>7, <2>8
<1>4. ASSUME NEW w \in Writers, ListRaised(w) \/ Crash(w) PROVE AloneOK'
  <2>1. /\ \A v \in Writers \ {w} : batch'[v] = batch[v] /\ putting'[v] = putting[v]
        /\ ~raced /\ clock' = clock /\ now' = now /\ ~Rest(w)
        /\ ~putting'[w].busy
    BY <1>4 DEF ListRaised, Crash, TypeOK, Rest, NoPut
  <2> QED BY <1>1, <2>1
<1>5. ASSUME NEW w \in Writers, PutClaim(w) PROVE AloneOK'
  <2>0. ~raced
    BY <1>5 DEF PutClaim
  <2>1. PICK q : q = putting[w]
    OBVIOUS
  <2>2. PICK f : f = [q EXCEPT !.stored = TRUE]
    OBVIOUS
  <2>3. /\ q \in Progress /\ q.busy /\ Orderly(q) /\ Current(q)
        /\ putting' = [putting EXCEPT ![w] = Onwards(f)]
        /\ \A c \in Claims \ {q.draft.id} : claims'[c] = claims[c]
    BY <2>0, <1>5, <2>1, <2>2, ClaimEffect
  <2>4. /\ f.rivals = q.rivals /\ f.settled = q.settled /\ f.draft = q.draft
        /\ f.listed = q.listed /\ f.stored
    BY <2>2, <2>3 DEF Progress
  <2>5. \A c \in q.rivals : c \in Claims \ {q.draft.id}
    BY <2>3 DEF Progress, Orderly
  <2>6. q.settled \subseteq q.rivals
    BY <2>3 DEF Orderly
  <2>7. Current(f)'
    <3>1. \A c \in f.rivals \ f.settled : claims'[c] = f.listed[c]
      BY <2>3, <2>4, <2>5 DEF Current
    <3>2. \A c \in f.settled :
             IF SameSource(c, f.draft) THEN c \notin Active'
             ELSE ~claims'[c].resolved /\ f.draft.id \in claims'[c].contradicts
      BY <2>3, <2>4, <2>5, <2>6 DEF Current, Active
    <3> QED BY <3>1, <3>2, <2>4 DEF Current
  <2>8. /\ \A v \in Writers \ {w} : batch'[v] = batch[v] /\ putting'[v] = putting[v]
        /\ clock' = clock /\ now' = now
        /\ putting'[w] = Onwards(f)
    BY <1>5, <2>3 DEF PutClaim, TypeOK
  <2>9. ~Rest(w)
    BY <2>1, <2>3 DEF Rest
  <2>10. putting'[w].busy => putting'[w] = f
    BY <2>8 DEF Onwards, NoPut
  <2>11. CASE putting'[w].busy
    BY <1>1, <2>0, <2>7, <2>8, <2>9, <2>10, <2>11
  <2>12. CASE ~putting'[w].busy
    BY <1>1, <2>0, <2>8, <2>9, <2>12
  <2> QED BY <2>11, <2>12
<1>6. ASSUME NEW w \in Writers, NEW p \in Claims, PutRival(w, p) PROVE AloneOK'
  <2>0. ~raced
    BY <1>6 DEF PutRival
  <2>1. PICK q : q = putting[w]
    OBVIOUS
  <2>2. PICK f : f = [q EXCEPT !.settled = @ \cup {p}]
    OBVIOUS
  <2>3. /\ q \in Progress /\ q.busy /\ Orderly(q) /\ Current(q) /\ p \in Active
        /\ putting' = [putting EXCEPT ![w] = f]
        /\ \A c \in Claims \ {p} : claims'[c] = claims[c]
        /\ claims'[p].object = claims[p].object
        /\ p \in q.rivals \ q.settled
        /\ SameSource(p, q.draft) => claims'[p].status = "superseded"
        /\ ~SameSource(p, q.draft) => /\ ~claims'[p].resolved
                                      /\ q.draft.id \in claims'[p].contradicts
    BY <2>0, <1>6, <2>1, <2>2, RivalEffect
  <2>4. /\ f.rivals = q.rivals /\ f.settled = q.settled \cup {p} /\ f.draft = q.draft
        /\ f.listed = q.listed /\ f.stored = q.stored
        /\ q.rivals \subseteq Claims
    BY <2>2, <2>3 DEF Progress
  <2>5. Current(f)'
    <3>1. \A c \in f.rivals \ f.settled : claims'[c] = f.listed[c]
      BY <2>3, <2>4 DEF Current
    <3>2. q.settled \subseteq Claims \ {p}
      BY <2>3, <2>4 DEF Orderly
    <3>3. ASSUME NEW c \in f.settled
          PROVE  IF SameSource(c, f.draft) THEN c \notin Active'
                 ELSE ~claims'[c].resolved /\ f.draft.id \in claims'[c].contradicts
      <4>1. CASE c = p
        BY <4>1, <2>3, <2>4 DEF Active
      <4>2. CASE c \in q.settled
        BY <4>2, <3>2, <2>3, <2>4 DEF Current, Active
      <4> QED BY <4>1, <4>2, <2>4
    <3>4. ~f.stored => \A c \in Active' :
             c # f.draft.id /\ claims'[c].object # f.draft.object => c \in f.rivals
      BY <2>3, <2>4 DEF Current, Active
    <3> QED BY <3>1, <3>3, <3>4 DEF Current
  <2>6. /\ \A v \in Writers \ {w} : batch'[v] = batch[v] /\ putting'[v] = putting[v]
        /\ clock' = clock /\ now' = now /\ putting'[w] = f
    BY <1>6, <2>3 DEF PutRival, TypeOK
  <2>7. ~Rest(w)
    BY <2>1, <2>3 DEF Rest
  <2> QED BY <1>1, <2>0, <2>5, <2>6, <2>7
<1>7. ASSUME NEW w \in Writers, NEW p \in Claims, PutRelation(w, p) PROVE AloneOK'
  <2>1. PICK q : q = putting[w]
    OBVIOUS
  <2>2. PICK f : f = [q EXCEPT !.linked = @ \cup {p}]
    OBVIOUS
  <2>3. q \in Progress /\ q.busy
    BY <1>7, <2>1, BusyProgress DEF PutRelation
  <2>4. /\ f.rivals = q.rivals /\ f.settled = q.settled /\ f.draft = q.draft
        /\ f.listed = q.listed /\ f.stored = q.stored
    BY <2>2, <2>3 DEF Progress
  <2>5. /\ \A v \in Writers \ {w} : batch'[v] = batch[v] /\ putting'[v] = putting[v]
        /\ clock' = clock /\ now' = now /\ putting'[w] = f /\ claims' = claims
        /\ ~raced /\ ~Rest(w)
    BY <1>7, <2>1, <2>2, <2>3 DEF PutRelation, TypeOK, Rest
  <2>6. Current(q)
    BY <2>1, <2>3, <2>5, OthersRest
  <2>7. Current(f)'
    BY <2>4, <2>5, <2>6, CurrentKept
  <2> QED BY <1>1, <2>5, <2>7
<1>8. ASSUME NEW w \in Writers, NEW p \in Claims, PutDisagreement(w, p) PROVE AloneOK'
  <2>1. PICK q : q = putting[w]
    OBVIOUS
  <2>2. PICK f : f = [q EXCEPT !.filed = @ \cup {p}]
    OBVIOUS
  <2>3. q \in Progress /\ q.busy
    BY <1>8, <2>1, BusyProgress DEF PutDisagreement
  <2>4. /\ f.rivals = q.rivals /\ f.settled = q.settled /\ f.draft = q.draft
        /\ f.listed = q.listed /\ f.stored = q.stored
    BY <2>2, <2>3 DEF Progress
  <2>5. /\ \A v \in Writers \ {w} : batch'[v] = batch[v] /\ putting'[v] = putting[v]
        /\ clock' = clock /\ now' = now /\ putting'[w] = Onwards(f) /\ claims' = claims
        /\ ~raced /\ ~Rest(w)
    BY <1>8, <2>1, <2>2, <2>3 DEF PutDisagreement, TypeOK, Rest
  <2>6. Current(q)
    BY <2>1, <2>3, <2>5, OthersRest
  <2>7. Current(f)'
    BY <2>4, <2>5, <2>6, CurrentKept
  <2>8. putting'[w].busy => putting'[w] = f
    BY <2>5 DEF Onwards, NoPut
  <2>9. CASE putting'[w].busy
    BY <1>1, <2>5, <2>7, <2>8, <2>9
  <2>10. CASE ~putting'[w].busy
    BY <1>1, <2>5, <2>10
  <2> QED BY <2>9, <2>10
<1>9. CASE UNCHANGED <<claims, batch, putting, now, clock, raced>>
  <2>1. \A w \in Writers : putting'[w].busy => Current(putting[w])'
    BY <1>9 DEF AloneOK, Current, Active
  <2> QED BY <1>9, <2>1 DEF AloneOK, Rest
<1> QED BY <1>2, <1>3, <1>4, <1>5, <1>6, <1>7, <1>8, <1>9 DEF Next, Review, vars

-----------------------------------------------------------------------------
(* The records.                                                             *)

LEMMA ClaimsAfter ==
    ASSUME TypeOK, [Next]_vars
    PROVE  /\ \/ claims' = claims
              \/ \E w \in Writers : PutClaim(w)
              \/ \E w \in Writers, p \in Claims : PutRival(w, p)
           /\ raced => raced'
           /\ clock \in Nat /\ clock' \in Nat /\ clock <= clock'
<1>1. clock \in Nat
  BY DEF TypeOK
<1>2. \/ claims' = claims
      \/ \E w \in Writers : PutClaim(w)
      \/ \E w \in Writers, p \in Claims : PutRival(w, p)
  BY DEF Next, vars, Compile, List, ListRaised, PutRelation, PutDisagreement, Crash, Review
<1>3. raced => raced'
  BY DEF Next, vars, Compile, List, ListRaised, PutRelation, PutDisagreement, Crash, Review,
         PutRival, PutClaim
<1>4. clock' = clock \/ clock' = clock + 1
  BY DEF Next, vars, Compile, List, ListRaised, PutRelation, PutDisagreement, Crash, Review,
         PutRival, PutClaim
<1> QED BY <1>1, <1>2, <1>3, <1>4

LEMMA DatesStep ==
    ASSUME ClaimAssumption, TypeOK, LocalsOK, AloneOK, DatesOK, [Next]_vars
    PROVE  DatesOK'
<1> SUFFICES ASSUME ~raced, ~raced', NEW c \in Claims, claims'[c].status # "absent"
             PROVE  claims'[c].created <= clock' /\ Readable(claims'[c])
  BY ClaimsAfter DEF DatesOK, Stored
<1>0. /\ claims[c].created \in Nat /\ claims[c].updated \in Nat
      /\ clock \in Nat /\ clock' \in Nat /\ clock <= clock'
  BY ClaimsAfter DEF TypeOK, Rec
<1>1. claims[c].status # "absent" => claims[c].created <= clock /\ Readable(claims[c])
  BY DEF DatesOK, Stored
<1>2. CASE claims'[c] = claims[c]
  BY <1>0, <1>1, <1>2
<1>3. ASSUME NEW w \in Writers, PutClaim(w) PROVE claims'[c].created <= clock' /\ Readable(claims'[c])
  <2>1. PICK q : q = putting[w]
    OBVIOUS
  <2>2. /\ \A x \in Claims \ {q.draft.id} : claims'[x] = claims[x]
        /\ claims'[q.draft.id] = Fresh(q.draft, Against(q), clock)
    BY <1>3, <2>1, ClaimEffect
  <2>3. /\ Fresh(q.draft, Against(q), clock).created = clock
        /\ Fresh(q.draft, Against(q), clock).updated = clock
        /\ Fresh(q.draft, Against(q), clock).status = "active"
    BY DEF Fresh
  <2>4. CASE c = q.draft.id
    BY <1>0, <2>2, <2>3, <2>4 DEF Readable
  <2>5. CASE c # q.draft.id
    BY <1>2, <2>2, <2>5
  <2> QED BY <2>4, <2>5
<1>4. ASSUME NEW w \in Writers, NEW p \in Claims, PutRival(w, p)
      PROVE  claims'[c].created <= clock' /\ Readable(claims'[c])
  <2>1. PICK q : q = putting[w]
    OBVIOUS
  <2>2. /\ p \in Active
        /\ \A x \in Claims \ {p} : claims'[x] = claims[x]
        /\ claims'[p].created = claims[p].created /\ claims'[p].updated = clock
        /\ SameSource(p, q.draft) => claims'[p].by = {q.draft.id}
        /\ ~SameSource(p, q.draft) => claims'[p].status = "active"
    BY <1>4, <2>1, RivalEffect
  <2>3. CASE c = p
    <3>1. claims[p].created <= clock
      BY <1>1, <2>2, <2>3 DEF Active
    <3>2. claims'[c].updated >= claims'[c].created
      BY <1>0, <2>2, <2>3, <3>1
    <3>3. claims'[c].status = "superseded" => claims'[c].by # {}
      BY <2>2, <2>3
    <3>4. claims'[c].created <= clock'
      BY <1>0, <2>2, <2>3, <3>1
    <3> QED BY <3>2, <3>3, <3>4 DEF Readable
  <2>4. CASE c # p
    BY <1>2, <2>2, <2>4
  <2> QED BY <2>3, <2>4
<1> QED BY <1>2, <1>3, <1>4, ClaimsAfter

\* Two active claims agree if their sources, or the guard of the packs, say so.
LEMMA VoicesStep ==
    ASSUME ClaimAssumption, TypeOK, LocalsOK, AloneOK, OneVoiceOK, ServedClaimsAgree,
           [Next]_vars
    PROVE  OneVoiceOK' /\ ServedClaimsAgree'
<1> SUFFICES ASSUME ~raced, ~raced', NEW a \in Active', NEW b \in Active',
                    claims'[a].object # claims'[b].object
             PROVE  /\ Src[a] # Src[b]
                    /\ ~claims'[a].resolved \/ ~claims'[b].resolved
  BY ClaimsAfter DEF OneVoiceOK, ServedClaimsAgree, Served
<1>0. a \in Claims /\ b \in Claims
  BY DEF Active
<1>1. ASSUME a \in Active, b \in Active, claims[a].object # claims[b].object
      PROVE  Src[a] # Src[b] /\ (~claims[a].resolved \/ ~claims[b].resolved)
  BY <1>1 DEF OneVoiceOK, ServedClaimsAgree, Served
<1>2. CASE claims' = claims
  BY <1>1, <1>2 DEF Active
<1>3. ASSUME NEW w \in Writers, PutClaim(w)
      PROVE  Src[a] # Src[b] /\ (~claims'[a].resolved \/ ~claims'[b].resolved)
  <2>1. PICK q : q = putting[w]
    OBVIOUS
  <2>2. /\ \A x \in Claims \ {q.draft.id} : claims'[x] = claims[x]
        /\ claims'[q.draft.id] = Fresh(q.draft, Against(q), clock)
    BY <1>3, <2>1, ClaimEffect
  <2>9. claims'[q.draft.id].object = q.draft.object
    BY <2>2 DEF Fresh
  <2>3. \A x \in Active \ {q.draft.id} : claims[x].object # q.draft.object =>
           Src[x] # Src[q.draft.id] /\ ~claims[x].resolved
    BY <1>3, <2>1, ClaimEffect
  <2>4. \A x \in Active' \ {q.draft.id} : x \in Active /\ claims'[x] = claims[x]
    BY <2>2 DEF Active
  <2>5. CASE a = q.draft.id
    BY <2>3, <2>4, <2>5, <2>9
  <2>6. CASE b = q.draft.id
    BY <2>3, <2>4, <2>6, <2>9
  <2>7. CASE a # q.draft.id /\ b # q.draft.id
    BY <2>4, <2>7, <1>1
  <2> QED BY <2>5, <2>6, <2>7
<1>4. ASSUME NEW w \in Writers, NEW p \in Claims, PutRival(w, p)
      PROVE  Src[a] # Src[b] /\ (~claims'[a].resolved \/ ~claims'[b].resolved)
  <2>1. PICK q : q = putting[w]
    OBVIOUS
  <2>2. /\ p \in Active /\ \A x \in Claims \ {p} : claims'[x] = claims[x]
        /\ claims'[p].object = claims[p].object
        /\ SameSource(p, q.draft) => claims'[p].status = "superseded"
        /\ ~SameSource(p, q.draft) => ~claims'[p].resolved
    BY <1>4, <2>1, RivalEffect
  <2>3. \A x \in Active' : /\ x \in Active /\ claims'[x].object = claims[x].object
                           /\ ~claims'[x].resolved \/ claims'[x] = claims[x]
    BY <2>2 DEF Active
  <2> QED BY <1>1, <2>3
<1> QED BY <1>2, <1>3, <1>4, ClaimsAfter

-----------------------------------------------------------------------------
(* Conflicts and supersession.                                              *)

\* What becomes of the locals of a busy writer that is not cut short.
LEMMA LocalsAfter ==
    ASSUME TypeOK, [Next]_vars, crashes' = crashes,
           NEW w \in Writers, putting[w].busy, NEW q, q = putting[w]
    PROVE  \/ putting'[w] = q
           \/ \E p \in Claims : /\ PutRival(w, p)
                                /\ putting'[w] = [q EXCEPT !.settled = @ \cup {p}]
           \/ \E p \in Claims : /\ PutRelation(w, p)
                                /\ putting'[w] = [q EXCEPT !.linked = @ \cup {p}]
           \/ PutClaim(w) /\ putting'[w] = Onwards([q EXCEPT !.stored = TRUE])
           \/ \E p \in Claims : /\ PutDisagreement(w, p)
                                /\ putting'[w] = Onwards([q EXCEPT !.filed = @ \cup {p}])
<1>1. ASSUME NEW v \in Writers, NEW p \in Claims,
             PutClaim(v) \/ PutRival(v, p) \/ PutRelation(v, p) \/ PutDisagreement(v, p),
             v # w
      PROVE  putting'[w] = q
  BY <1>1, PutKeeps
<1>2. ASSUME NEW v \in Writers, PutClaim(v), v # w PROVE putting'[w] = q
  BY <1>2 DEF PutClaim, TypeOK
<1>3. ASSUME NEW p \in Claims, PutRival(w, p)
      PROVE  putting'[w] = [q EXCEPT !.settled = @ \cup {p}]
  BY <1>3 DEF PutRival, TypeOK
<1>4. ASSUME NEW p \in Claims, PutRelation(w, p)
      PROVE  putting'[w] = [q EXCEPT !.linked = @ \cup {p}]
  BY <1>4 DEF PutRelation, TypeOK
<1>5. PutClaim(w) => putting'[w] = Onwards([q EXCEPT !.stored = TRUE])
  BY DEF PutClaim, TypeOK
<1>6. ASSUME NEW p \in Claims, PutDisagreement(w, p)
      PROVE  putting'[w] = Onwards([q EXCEPT !.filed = @ \cup {p}])
  BY <1>6 DEF PutDisagreement, TypeOK
<1>7. ASSUME NEW v \in Writers, List(v) PROVE putting'[w] = q
  BY <1>7 DEF List, TypeOK
<1>8. ASSUME NEW v \in Writers, Crash(v) PROVE FALSE
  BY <1>8 DEF Crash, TypeOK
<1>9. ASSUME NEW v \in Writers, Compile(v) \/ ListRaised(v) PROVE putting'[w] = q
  BY <1>9 DEF Compile, ListRaised
<1>10. ASSUME NEW d \in disputes, NEW decision \in {"apply", "reject"}, Review(d, decision)
       PROVE  putting'[w] = q
  BY <1>10 DEF Review
<1>11. CASE UNCHANGED vars
  BY <1>11 DEF vars
<1>12. \/ putting'[w] = q \/ PutClaim(w)
       \/ \E p \in Claims : PutRival(w, p) \/ PutRelation(w, p) \/ PutDisagreement(w, p)
  BY <1>1, <1>2, <1>7, <1>8, <1>9, <1>10, <1>11 DEF Next
<1> QED BY <1>3, <1>4, <1>5, <1>6, <1>12

\* A difference that is put up for review, or about to be, stays so.
LEMMA QueuedStep ==
    ASSUME TypeOK, LocalsOK, DisputesOK, [Next]_vars, crashes' = crashes,
           NEW a, NEW b, Queued(a, b)
    PROVE  Queued(a, b)'
<1>1. ASSUME NEW d \in disputes, {d.old, d.new} = {a, b}
      PROVE  \E e \in disputes' : {e.old, e.new} = {a, b}
  <2>1. PICK e \in disputes' : SameDispute(d, e)
    BY SettledStep
  <2> QED BY <1>1, <2>1 DEF SameDispute
<1>2. ASSUME NEW w \in Writers, putting[w].busy, putting[w].stored,
             NEW p \in Against(putting[w]) \ putting[w].filed,
             {p, putting[w].draft.id} = {a, b}
      PROVE  Queued(a, b)'
  <2>1. PICK q : q = putting[w]
    OBVIOUS
  <2>2. q \in Progress /\ Orderly(q) /\ q.busy /\ q.stored
    BY <1>2, <2>1, BusyProgress DEF LocalsOK
  <2>3. ASSUME NEW f, putting'[w] = f, f.busy, f.stored, f.draft = q.draft,
               f.rivals = q.rivals, p \notin f.filed
        PROVE  Due(a, b)'
    <3>1. p \in Against(f) \ f.filed /\ {p, f.draft.id} = {a, b}
      BY <1>2, <2>1, <2>3 DEF Against
    <3> QED BY <2>3, <3>1 DEF Due
  <2>4. CASE putting'[w] = q
    BY <1>2, <2>1, <2>2, <2>3, <2>4 DEF Queued
  <2>5. ASSUME NEW x \in Claims, putting'[w] = [q EXCEPT !.settled = @ \cup {x}]
        PROVE  Due(a, b)'
    <3>1. PICK f : f = [q EXCEPT !.settled = @ \cup {x}]
      OBVIOUS
    <3>2. /\ f.busy /\ f.stored /\ f.draft = q.draft /\ f.rivals = q.rivals
          /\ f.filed = q.filed
      BY <2>2, <3>1 DEF Progress
    <3> QED BY <1>2, <2>1, <2>3, <2>5, <3>1, <3>2
  <2>6. ASSUME NEW x \in Claims, putting'[w] = [q EXCEPT !.linked = @ \cup {x}]
        PROVE  Due(a, b)'
    <3>1. PICK f : f = [q EXCEPT !.linked = @ \cup {x}]
      OBVIOUS
    <3>2. /\ f.busy /\ f.stored /\ f.draft = q.draft /\ f.rivals = q.rivals
          /\ f.filed = q.filed
      BY <2>2, <3>1 DEF Progress
    <3> QED BY <1>2, <2>1, <2>3, <2>6, <3>1, <3>2
  <2>7. ~PutClaim(w)
    BY <2>1, <2>2 DEF PutClaim
  <2>8. ASSUME NEW x \in Claims, PutDisagreement(w, x),
               putting'[w] = Onwards([q EXCEPT !.filed = @ \cup {x}])
        PROVE  Queued(a, b)'
    <3>1. CASE x = p
      <4>1. Disagreement(p, q) \in disputes'
        BY <2>1, <2>8, <3>1 DEF PutDisagreement
      <4>2. {Disagreement(p, q).old, Disagreement(p, q).new} = {a, b}
        BY <1>2, <2>1 DEF Disagreement
      <4>3. \E d \in disputes' : {d.old, d.new} = {a, b}
        BY <4>1, <4>2
      <4> QED BY <4>3 DEF Queued
    <3>2. CASE x # p
      <4>1. PICK f : f = [q EXCEPT !.filed = @ \cup {x}]
        OBVIOUS
      <4>2. /\ f.busy /\ f.stored /\ f.draft = q.draft /\ f.rivals = q.rivals
            /\ f.filed = q.filed \cup {x}
        BY <2>2, <4>1 DEF Progress
      <4>3. p \notin f.filed /\ p \in Against(f)
        BY <1>2, <2>1, <3>2, <4>2 DEF Against
      <4>4. Onwards(f) = f
        BY <4>3 DEF Onwards
      <4>5. putting'[w] = f
        BY <2>8, <4>1, <4>4
      <4> QED BY <2>3, <4>2, <4>3, <4>5 DEF Queued
    <3> QED BY <3>1, <3>2
  <2> QED BY <1>2, <2>1, <2>4, <2>5, <2>6, <2>7, <2>8, LocalsAfter DEF Queued
<1> QED BY <1>1, <1>2 DEF Queued, Due

LEMMA NoCrash ==
    ASSUME TypeOK, [Next]_vars, crashes' = 0 PROVE crashes' = crashes /\ crashes = 0
<1>1. crashes \in Nat
  BY DEF TypeOK
<1>2. crashes' = crashes \/ crashes' = crashes + 1
  BY DEF Next, vars, Compile, List, ListRaised, PutRelation, PutDisagreement, Crash, Review,
         PutRival, PutClaim
<1> QED BY <1>1, <1>2

LEMMA ConflictsStep ==
    ASSUME ClaimAssumption, TypeOK, LocalsOK, DisputesOK, AloneOK, ConflictsOK, [Next]_vars
    PROVE  ConflictsOK'
<1> SUFFICES ASSUME ~raced, ~raced', crashes = 0, crashes' = 0, crashes' = crashes,
                    NEW a \in Active', NEW b \in Active',
                    claims'[a].object # claims'[b].object
             PROVE  Noted(a, b)'
  BY ClaimsAfter, NoCrash DEF ConflictsOK
<1>0. a \in Claims /\ b \in Claims
  BY DEF Active
<1>1. ASSUME a \in Active, b \in Active, claims[a].object # claims[b].object
      PROVE  /\ b \in claims[a].contradicts /\ ~claims[a].resolved
             /\ Queued(a, b)'
  BY <1>1, QueuedStep DEF ConflictsOK, Noted
<1>2. CASE claims' = claims
  BY <1>1, <1>2 DEF Active, Noted
<1>3. ASSUME NEW w \in Writers, PutClaim(w) PROVE Noted(a, b)'
  <2>1. PICK q : q = putting[w]
    OBVIOUS
  <2>2. PICK f : f = [q EXCEPT !.stored = TRUE]
    OBVIOUS
  <2>3. /\ \A x \in Claims \ {q.draft.id} : claims'[x] = claims[x]
        /\ claims'[q.draft.id] = Fresh(q.draft, Against(q), clock)
        /\ q \in Progress /\ q.busy /\ ~q.stored /\ Orderly(q)
        /\ putting' = [putting EXCEPT ![w] = Onwards(f)]
    BY <1>3, <2>1, <2>2, ClaimEffect
  <2>4. /\ claims'[q.draft.id].object = q.draft.object
        /\ claims'[q.draft.id].contradicts = Against(q)
        /\ claims'[q.draft.id].resolved = (Against(q) = {})
    BY <2>3 DEF Fresh
  <2>5. \A x \in Active \ {q.draft.id} : claims[x].object # q.draft.object =>
           /\ x \in Against(q) /\ ~claims[x].resolved
           /\ q.draft.id \in claims[x].contradicts
    BY <1>3, <2>1, ClaimEffect
  <2>6. \A x \in Active' \ {q.draft.id} : x \in Active /\ claims'[x] = claims[x]
    BY <2>3 DEF Active
  <2>7. /\ f.busy /\ f.stored /\ f.draft = q.draft /\ f.rivals = q.rivals
        /\ f.filed = {}
    BY <2>2, <2>3 DEF Progress, Orderly
  <2>8. ASSUME NEW x \in Against(q) PROVE Queued(x, q.draft.id)' /\ Queued(q.draft.id, x)'
    <3>1. x \in Against(f) \ f.filed
      BY <2>7, <2>8 DEF Against
    <3>2. Onwards(f) = f
      BY <3>1 DEF Onwards
    <3>3. putting'[w] = f
      BY <2>3, <3>2 DEF TypeOK
    <3>4. {x, f.draft.id} = {x, q.draft.id} /\ {x, f.draft.id} = {q.draft.id, x}
      BY <2>7
    <3>5. Due(x, q.draft.id)' /\ Due(q.draft.id, x)'
      BY <2>7, <3>1, <3>3, <3>4 DEF Due
    <3> QED BY <3>5 DEF Queued
  <2>9. CASE a = q.draft.id
    <3>1. b \in Against(q)
      BY <2>4, <2>5, <2>6, <2>9
    <3> QED BY <2>4, <2>8, <2>9, <3>1 DEF Noted
  <2>10. CASE b = q.draft.id
    <3>1. a \in Against(q) /\ ~claims'[a].resolved /\ b \in claims'[a].contradicts
      BY <2>4, <2>5, <2>6, <2>10
    <3> QED BY <2>8, <2>10, <3>1 DEF Noted
  <2>11. CASE a # q.draft.id /\ b # q.draft.id
    BY <1>1, <2>6, <2>11 DEF Noted
  <2> QED BY <2>9, <2>10, <2>11
<1>4. ASSUME NEW w \in Writers, NEW p \in Claims, PutRival(w, p) PROVE Noted(a, b)'
  <2>1. PICK q : q = putting[w]
    OBVIOUS
  <2>2. /\ p \in Active /\ \A x \in Claims \ {p} : claims'[x] = claims[x]
        /\ claims'[p].object = claims[p].object
        /\ SameSource(p, q.draft) => claims'[p].status = "superseded"
        /\ ~SameSource(p, q.draft) =>
              /\ ~claims'[p].resolved
              /\ claims'[p].contradicts = claims[p].contradicts \cup {q.draft.id}
    BY <1>4, <2>1, RivalEffect
  <2>3. \A x \in Active' : /\ x \in Active /\ claims'[x].object = claims[x].object
                           /\ claims[x].contradicts \subseteq claims'[x].contradicts
                           /\ ~claims[x].resolved => ~claims'[x].resolved
    BY <2>2 DEF Active
  <2> QED BY <1>1, <2>3 DEF Noted
<1> QED BY <1>2, <1>3, <1>4, ClaimsAfter

\* A claim that is coming comes until it is stored.
LEMMA ComingStep ==
    ASSUME TypeOK, [Next]_vars, crashes' = crashes, NEW c \in Coming
    PROVE  c \in Coming' \/ \E w \in Writers : PutClaim(w) /\ c = putting[w].draft.id
<1>1. PICK w \in Writers : /\ putting[w].busy /\ ~putting[w].stored
                           /\ putting[w].draft.id = c
  BY DEF Coming
<1>2. PICK q : q = putting[w]
  OBVIOUS
<1>3. q \in Progress /\ q.busy /\ ~q.stored /\ q.draft.id = c /\ c \in Claims
  BY <1>1, <1>2, BusyProgress DEF Coming
<1>4. ASSUME NEW f, putting'[w] = f, f.busy, ~f.stored, f.draft = q.draft
      PROVE  c \in Coming'
  BY <1>3, <1>4 DEF Coming
<1>5. ASSUME NEW p \in Claims, putting'[w] = [q EXCEPT !.settled = @ \cup {p}]
      PROVE  c \in Coming'
  <2>1. PICK f : f = [q EXCEPT !.settled = @ \cup {p}]
    OBVIOUS
  <2>2. f.busy /\ ~f.stored /\ f.draft = q.draft
    BY <1>3, <2>1 DEF Progress
  <2> QED BY <1>4, <1>5, <2>1, <2>2
<1>6. ASSUME NEW p \in Claims, putting'[w] = [q EXCEPT !.linked = @ \cup {p}]
      PROVE  c \in Coming'
  <2>1. PICK f : f = [q EXCEPT !.linked = @ \cup {p}]
    OBVIOUS
  <2>2. f.busy /\ ~f.stored /\ f.draft = q.draft
    BY <1>3, <2>1 DEF Progress
  <2> QED BY <1>4, <1>6, <2>1, <2>2
<1>7. \A p \in Claims : ~PutDisagreement(w, p)
  BY <1>1 DEF PutDisagreement
<1>8. CASE putting'[w] = q
  BY <1>3, <1>4, <1>8
<1>9. PutClaim(w) => \E v \in Writers : PutClaim(v) /\ c = putting[v].draft.id
  BY <1>1
<1>10. \/ putting'[w] = q \/ PutClaim(w)
       \/ \E p \in Claims : putting'[w] = [q EXCEPT !.settled = @ \cup {p}]
       \/ \E p \in Claims : putting'[w] = [q EXCEPT !.linked = @ \cup {p}]
  <2>1. putting[w].busy
    BY <1>1
  <2> QED BY <1>2, <1>7, <2>1, LocalsAfter
<1> QED BY <1>5, <1>6, <1>8, <1>9, <1>10

\* An edge of superseded_by that has its relation, or is about to, stays so.
LEMMA LinkedStep ==
    ASSUME TypeOK, LocalsOK, [Next]_vars, crashes' = crashes, NEW r, NEW c, Linked(r, c)
    PROVE  Linked(r, c)'
<1>1. relations \subseteq relations'
  BY DEF Next, vars, Compile, List, ListRaised, PutRelation, PutDisagreement, Crash, Review,
         PutRival, PutClaim
<1>2. CASE [from |-> r, type |-> "SUPERSEDES", to |-> c] \in relations
  BY <1>1, <1>2 DEF Linked
<1>3. CASE Unlinked(r, c)
  <2>0. PICK w \in Writers : /\ putting[w].busy /\ putting[w].draft.id = r
                             /\ c \in putting[w].settled \ putting[w].linked
                             /\ SameSource(c, putting[w].draft)
    BY <1>3 DEF Unlinked
  <2>1. PICK q : q = putting[w]
    OBVIOUS
  <2>2. /\ q \in Progress /\ q.busy /\ Orderly(q) /\ q.draft.id = r
        /\ c \in q.settled \ q.linked /\ SameSource(c, q.draft)
    BY <2>0, <2>1, BusyProgress DEF LocalsOK
  <2>3. q.linked # q.rivals /\ ~q.stored
    BY <2>2 DEF Orderly
  <2>4. ASSUME NEW f, putting'[w] = f, f.busy, f.draft = q.draft,
               c \in f.settled \ f.linked
        PROVE  Unlinked(r, c)'
    BY <2>2, <2>4 DEF Unlinked
  <2>5. ASSUME NEW p \in Claims, putting'[w] = [q EXCEPT !.settled = @ \cup {p}]
        PROVE  Unlinked(r, c)'
    <3>1. PICK f : f = [q EXCEPT !.settled = @ \cup {p}]
      OBVIOUS
    <3>2. f.busy /\ f.draft = q.draft /\ c \in f.settled \ f.linked
      BY <2>2, <3>1 DEF Progress
    <3> QED BY <2>4, <2>5, <3>1, <3>2
  <2>6. ASSUME NEW p \in Claims, PutRelation(w, p),
               putting'[w] = [q EXCEPT !.linked = @ \cup {p}]
        PROVE  Linked(r, c)'
    <3>1. CASE p = c
      <4>1. RelationTo(c, q) = [from |-> r, type |-> "SUPERSEDES", to |-> c]
        BY <2>2 DEF RelationTo
      <4>2. RelationTo(c, q) \in relations'
        BY <2>1, <2>6, <3>1 DEF PutRelation
      <4> QED BY <4>1, <4>2 DEF Linked
    <3>2. CASE p # c
      <4>1. PICK f : f = [q EXCEPT !.linked = @ \cup {p}]
        OBVIOUS
      <4>2. f.busy /\ f.draft = q.draft /\ c \in f.settled \ f.linked
        BY <2>2, <3>2, <4>1 DEF Progress
      <4>3. Unlinked(r, c)'
        BY <2>4, <2>6, <4>1, <4>2
      <4> QED BY <4>3 DEF Linked
    <3> QED BY <3>1, <3>2
  <2>7. ~PutClaim(w) /\ \A p \in Claims : ~PutDisagreement(w, p)
    BY <2>1, <2>3 DEF PutClaim, PutDisagreement
  <2>8. CASE putting'[w] = q
    BY <2>2, <2>4, <2>8 DEF Linked
  <2> QED BY <2>0, <2>1, <2>5, <2>6, <2>7, <2>8, LocalsAfter DEF Linked
<1> QED BY <1>2, <1>3 DEF Linked

LEMMA SupersessionStep ==
    ASSUME ClaimAssumption, TypeOK, RecordsOK, LocalsOK, AloneOK, SupersessionOK, [Next]_vars
    PROVE  SupersessionOK'
<1> DEFINE Reaches(S) == \E c \in S : claims[c].by \cap ((Stored \cup Coming) \ S) # {}
<1> SUFFICES ASSUME ~raced, ~raced', crashes = 0, crashes' = 0, crashes' = crashes
             PROVE  /\ \A S \in SUBSET ((Stored' \ Active') \ Coming') :
                          S # {} => Reaches(S)'
                    /\ \A c \in Stored' \ Active' : \A r \in claims'[c].by :
                          r \in Stored' \cup Coming' /\ Linked(r, c)'
  BY ClaimsAfter, NoCrash DEF SupersessionOK
<1>1. \A S \in SUBSET ((Stored \ Active) \ Coming) : S # {} => Reaches(S)
  BY DEF SupersessionOK
<1>2. \A c \in Stored \ Active : \A r \in claims[c].by :
         r \in Stored \cup Coming /\ Linked(r, c)
  BY DEF SupersessionOK
<1>3. Stored \cup Coming \subseteq Stored' \cup Coming' /\ Active \subseteq Stored
  <2>1. Stored \subseteq Stored'
    <3>1. ASSUME NEW w \in Writers, PutClaim(w) PROVE Stored \subseteq Stored'
      <4>1. PICK q : q = putting[w]
        OBVIOUS
      <4>2. /\ \A x \in Claims \ {q.draft.id} : claims'[x] = claims[x]
            /\ claims'[q.draft.id] = Fresh(q.draft, Against(q), clock)
        BY <3>1, <4>1, ClaimEffect
      <4>3. claims'[q.draft.id].status = "active"
        BY <4>2 DEF Fresh
      <4> QED BY <4>2, <4>3 DEF Stored
    <3>2. ASSUME NEW w \in Writers, NEW p \in Claims, PutRival(w, p)
          PROVE  Stored \subseteq Stored'
      <4>1. PICK q : q = putting[w]
        OBVIOUS
      <4>2. /\ \A x \in Claims \ {p} : claims'[x] = claims[x]
            /\ claims'[p].status = "superseded" \/ claims'[p].status = "active"
        BY <3>2, <4>1, RivalEffect
      <4> QED BY <4>2 DEF Stored
    <3> QED BY <3>1, <3>2, ClaimsAfter DEF Stored
  <2>2. ASSUME NEW w \in Writers, PutClaim(w) PROVE putting[w].draft.id \in Stored'
    <3>1. PICK q : q = putting[w]
      OBVIOUS
    <3>2. q.draft.id \in Claims /\ claims'[q.draft.id] = Fresh(q.draft, Against(q), clock)
      BY <2>2, <3>1, ClaimEffect
    <3>3. claims'[q.draft.id].status = "active"
      BY <3>2 DEF Fresh
    <3> QED BY <3>1, <3>2, <3>3 DEF Stored
  <2>3. Active \subseteq Stored
    BY DEF Active, Stored
  <2> QED BY <2>1, <2>2, <2>3, ComingStep
<1>4. CASE claims' = claims
  <2>1. Stored' = Stored /\ Active' = Active
    BY <1>4 DEF Stored, Active
  <2>2. ASSUME NEW w \in Writers, PutClaim(w), putting[w].draft.id \notin Coming'
        PROVE  putting[w].draft.id \in Active'
    <3>1. PICK q : q = putting[w]
      OBVIOUS
    <3>2. q.draft.id \in Claims /\ claims'[q.draft.id] = Fresh(q.draft, Against(q), clock)
      BY <2>2, <3>1, ClaimEffect
    <3>3. claims'[q.draft.id].status = "active"
      BY <3>2 DEF Fresh
    <3> QED BY <3>1, <3>2, <3>3 DEF Active
  <2>3. ASSUME NEW S \in SUBSET ((Stored' \ Active') \ Coming'), S # {} PROVE Reaches(S)'
    <3>1. S \in SUBSET ((Stored \ Active) \ Coming)
      BY <2>1, <2>2, ComingStep
    <3>2. Reaches(S)
      BY <1>1, <2>3, <3>1
    <3> QED BY <1>3, <1>4, <3>2
  <2>4. \A c \in Stored' \ Active' : \A r \in claims'[c].by :
          r \in Stored' \cup Coming' /\ Linked(r, c)'
    BY <1>2, <1>3, <1>4, <2>1, LinkedStep
  <2> QED BY <2>3, <2>4
<1>5. ASSUME NEW w \in Writers, PutClaim(w)
      PROVE  /\ \A S \in SUBSET ((Stored' \ Active') \ Coming') : S # {} => Reaches(S)'
             /\ \A c \in Stored' \ Active' : \A r \in claims'[c].by :
                   r \in Stored' \cup Coming' /\ Linked(r, c)'
  <2>1. PICK q : q = putting[w]
    OBVIOUS
  <2>2. /\ \A x \in Claims \ {q.draft.id} : claims'[x] = claims[x]
        /\ claims'[q.draft.id] = Fresh(q.draft, Against(q), clock)
        /\ q.draft.id \in Claims
    BY <1>5, <2>1, ClaimEffect
  <2>3. claims'[q.draft.id].status = "active"
    BY <2>2 DEF Fresh
  <2>4. q.draft.id \in Active'
    BY <2>2, <2>3 DEF Active
  <2>5. \A x \in Stored' \ Active' : /\ x \in Stored \ Active
                                     /\ claims'[x] = claims[x]
    BY <2>2, <2>4 DEF Stored, Active
  <2>6. \A x \in Coming : x \in Coming' \/ x = q.draft.id
          \/ \E v \in Writers : v # w /\ PutClaim(v)
    BY <2>1, ComingStep
  <2>7. \A v \in Writers : PutClaim(v) => v = w
    BY <1>5, OthersRest DEF PutClaim, Rest
  <2>8. ASSUME NEW S \in SUBSET ((Stored' \ Active') \ Coming'), S # {} PROVE Reaches(S)'
    <3>1. S \in SUBSET ((Stored \ Active) \ Coming)
      BY <2>4, <2>5, <2>6, <2>7
    <3>2. PICK c \in S : claims[c].by \cap ((Stored \cup Coming) \ S) # {}
      BY <1>1, <2>8, <3>1
    <3>3. claims'[c] = claims[c]
      BY <2>5
    <3> QED BY <1>3, <3>2, <3>3
  <2>9. \A c \in Stored' \ Active' : \A r \in claims'[c].by :
          r \in Stored' \cup Coming' /\ Linked(r, c)'
    BY <1>2, <1>3, <2>5, LinkedStep
  <2> QED BY <2>8, <2>9
<1>6. ASSUME NEW w \in Writers, NEW p \in Claims, PutRival(w, p)
      PROVE  /\ \A S \in SUBSET ((Stored' \ Active') \ Coming') : S # {} => Reaches(S)'
             /\ \A c \in Stored' \ Active' : \A r \in claims'[c].by :
                   r \in Stored' \cup Coming' /\ Linked(r, c)'
  <2>1. PICK q : q = putting[w]
    OBVIOUS
  <2>2. PICK f : f = [q EXCEPT !.settled = @ \cup {p}]
    OBVIOUS
  <2>3. /\ q \in Progress /\ q.busy /\ ~q.stored /\ q.draft.id \in Claims
        /\ p \in q.rivals \ q.settled /\ q.linked = q.settled /\ p \in Active
        /\ putting' = [putting EXCEPT ![w] = f]
        /\ \A x \in Claims \ {p} : claims'[x] = claims[x]
        /\ SameSource(p, q.draft) =>
              claims'[p].status = "superseded" /\ claims'[p].by = {q.draft.id}
        /\ ~SameSource(p, q.draft) => claims'[p].status = "active"
    BY <1>6, <2>1, <2>2, RivalEffect
  <2>4. /\ f.busy /\ ~f.stored /\ f.draft = q.draft
        /\ f.settled = q.settled \cup {p} /\ f.linked = q.linked
    BY <2>2, <2>3 DEF Progress
  <2>5. putting'[w] = f
    BY <2>3 DEF TypeOK
  <2>6. q.draft.id \in Coming'
    BY <2>3, <2>4, <2>5 DEF Coming
  <2>7. \A v \in Writers : ~PutClaim(v)
    BY <1>6, <2>3, <2>1, OthersRest DEF PutClaim, Rest
  <2>8. Coming \subseteq Coming'
    BY <2>7, ComingStep
  <2>9. \A x \in Stored' \ Active' :
           \/ x \in Stored \ Active /\ claims'[x] = claims[x]
           \/ x = p /\ SameSource(p, q.draft) /\ claims'[x].by = {q.draft.id}
    BY <2>3 DEF Stored, Active
  <2>10. ASSUME NEW S \in SUBSET ((Stored' \ Active') \ Coming'), S # {} PROVE Reaches(S)'
    <3>1. CASE \E x \in S : claims'[x].by = {q.draft.id}
      BY <2>6, <2>10, <3>1
    <3>2. CASE \A x \in S : x \in Stored \ Active /\ claims'[x] = claims[x]
      <4>1. S \in SUBSET ((Stored \ Active) \ Coming)
        BY <2>8, <3>2
      <4>2. PICK c \in S : claims[c].by \cap ((Stored \cup Coming) \ S) # {}
        BY <1>1, <2>10, <4>1
      <4> QED BY <1>3, <3>2, <4>2
    <3> QED BY <2>9, <3>1, <3>2
  <2>11. ASSUME NEW c \in Stored' \ Active', NEW r \in claims'[c].by
         PROVE  r \in Stored' \cup Coming' /\ Linked(r, c)'
    <3>1. CASE c \in Stored \ Active /\ claims'[c] = claims[c]
      BY <1>2, <1>3, <3>1, LinkedStep
    <3>2. CASE c = p /\ SameSource(p, q.draft) /\ claims'[c].by = {q.draft.id}
      <4>1. c \in f.settled \ f.linked /\ SameSource(c, f.draft) /\ f.draft.id = r
        BY <2>3, <2>4, <3>2
      <4>2. Unlinked(r, c)'
        BY <2>4, <2>5, <4>1 DEF Unlinked
      <4> QED BY <2>6, <3>2, <4>2 DEF Linked
    <3> QED BY <2>9, <3>1, <3>2
  <2> QED BY <2>10, <2>11
<1> QED BY <1>4, <1>5, <1>6, ClaimsAfter

-----------------------------------------------------------------------------
(* The theorems.                                                            *)

LEMMA InitInv == ClaimAssumption /\ Init => IInv
<1> SUFFICES ASSUME ClaimAssumption, Init PROVE IInv
  OBVIOUS
<1>1. TypeOK
  BY TypeInit
<1>2. \A c \in Claims : /\ claims[c].status = "absent" /\ claims[c].by = {}
                        /\ claims[c].contradicts = {}
  BY DEF Init, Absent
<1>3. Active = {} /\ Stored = {}
  BY <1>2 DEF Active, Stored
<1>4. \A w \in Writers : ~putting[w].busy /\ batch[w] = <<>> /\ Rest(w)
  BY DEF Init, NoPut, Rest
<1>5. RecordsOK
  BY <1>2 DEF RecordsOK, Sound
<1>6. LocalsOK /\ DisputesOK
  BY <1>4 DEF Init, LocalsOK, DisputesOK
<1>7. DraftsOK
  BY <1>4 DEF DraftsOK, Has
<1>8. AloneOK
  BY <1>4 DEF AloneOK
<1>9. DatesOK /\ OneVoiceOK /\ ServedClaimsAgree /\ ConflictsOK
  BY <1>3 DEF DatesOK, OneVoiceOK, ServedClaimsAgree, Served, ConflictsOK
<1>10. SupersessionOK
  BY <1>3 DEF SupersessionOK
<1> QED BY <1>1, <1>5, <1>6, <1>7, <1>8, <1>9, <1>10 DEF IInv

LEMMA StepInv == ClaimAssumption /\ IInv /\ [Next]_vars => IInv'
<1> SUFFICES ASSUME ClaimAssumption, IInv, [Next]_vars PROVE IInv'
  OBVIOUS
<1> USE DEF IInv
<1>1. TypeOK'
  BY TypeStep
<1>2. RecordsOK' /\ LocalsOK'
  BY RecordsStep, LocalsStep
<1>3. DraftsOK' /\ DisputesOK'
  BY DraftsStep, DisputesStep
<1>4. AloneOK'
  BY AloneStep
<1>5. DatesOK'
  BY DatesStep
<1>6. OneVoiceOK' /\ ServedClaimsAgree'
  BY VoicesStep
<1>7. ConflictsOK'
  BY ConflictsStep
<1>8. SupersessionOK'
  BY SupersessionStep
<1> QED BY <1>1, <1>2, <1>3, <1>4, <1>5, <1>6, <1>7, <1>8

LEMMA Invariance == Spec => []IInv
<1>1. IInv /\ UNCHANGED vars => IInv'
  BY ClaimAssumption, StepInv
<1> QED BY InitInv, StepInv, ClaimAssumption, PTL DEF Spec

\* Every variable keeps its type: what put_claim_with_governance and its locals
\* hold, however many processes share the store.
THEOREM TypeCorrect == Spec => []TypeOK
<1>1. IInv => TypeOK
  BY DEF IInv
<1> QED BY <1>1, Invariance, PTL

\* Two claims a reference pack may use never differ, at any point of any put by
\* a lone writer, kills included.
THEOREM ServedAgree == Spec => []ServedClaimsAgree
<1>1. IInv => ServedClaimsAgree
  BY DEF IInv
<1> QED BY <1>1, Invariance, PTL

\* A source has one active value; and no race makes a claim superseded by
\* another source or contradicted by its own.
THEOREM OneVoice == Spec => []OneVoicePerSource
<1>1. IInv => OneVoicePerSource
  BY DEF IInv, OneVoiceOK, OneVoicePerSource, RecordsOK, Sound
<1> QED BY <1>1, Invariance, PTL

\* Every record a lone writer stores can be read back, so that list_claims never
\* raises.
THEOREM Readability == Spec => []ClaimsAreReadable
<1>1. IInv => ClaimsAreReadable
  BY DEF IInv, DatesOK, ClaimsAreReadable
<1> QED BY <1>1, Invariance, PTL

\* Between compilations no difference of two sources is left unmarked or unqueued.
THEOREM ConflictsQueued == Spec => []ConflictsAreQueued
<1>1. IInv => ConflictsAreQueued
  <2> SUFFICES ASSUME IInv, Idle, ~raced, crashes = 0, NEW a \in Active, NEW b \in Active,
                      claims[a].object # claims[b].object
               PROVE  /\ b \in claims[a].contradicts /\ ~claims[a].resolved
                      /\ \E d \in disputes : {d.old, d.new} = {a, b}
    BY DEF ConflictsAreQueued
  <2>1. Noted(a, b)
    BY DEF IInv, ConflictsOK
  <2>2. ~Due(a, b)
    BY DEF Due, Idle, Rest
  <2> QED BY <2>1, <2>2 DEF Noted, Queued
<1> QED BY <1>1, Invariance, PTL

\* Between compilations superseded_by leads to an active claim, along edges that
\* are all recorded as relations.
THEOREM SupersessionEnds == Spec => []SupersessionEndsActive
<1>1. IInv => SupersessionEndsActive
  <2> SUFFICES ASSUME IInv, Idle, ~raced, crashes = 0
               PROVE  /\ \A S \in (SUBSET (Stored \ Active)) \ {{}} :
                            \E c \in S : claims[c].by \cap (Stored \ S) # {}
                      /\ \A c \in Stored \ Active : \A r \in claims[c].by :
                            /\ r \in Stored
                            /\ [from |-> r, type |-> "SUPERSEDES", to |-> c] \in relations
    BY DEF SupersessionEndsActive
  <2>1. Coming = {} /\ \A r, c : ~Unlinked(r, c)
    BY DEF Coming, Unlinked, Idle, Rest
  <2> QED BY <2>1 DEF IInv, SupersessionOK, Linked
<1> QED BY <1>1, Invariance, PTL

\* A dispute is never lost, and a settled one is never put up again: whatever
\* compilations race and wherever they are cut short.
THEOREM StaysSettled == Spec => SettledStaysSettled
<1>1. IInv /\ [Next]_vars =>
        [\A d \in disputes :
            /\ \E e \in disputes' : SameDispute(d, e)
            /\ d.status # "pending_review" =>
                 \A e \in disputes' : SameDispute(d, e) => e.status # "pending_review"]_vars
  BY SettledStep DEF IInv
<1> QED BY <1>1, Invariance, PTL DEF Spec, SettledStaysSettled
=============================================================================
