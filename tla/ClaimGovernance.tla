--------------------------- MODULE ClaimGovernance ---------------------------
(***************************************************************************)
(* How compile_claims and put_claim_with_governance (claims.py) write the  *)
(* knowledge claims of a source into a SeekDB store: the newer claim of a  *)
(* source supersedes the older one, claims of different sources that       *)
(* differ contradict each other and are put up for review (cli.py).        *)
(*                                                                         *)
(* The loop skips claims about another subject or predicate, so the module *)
(* follows one subject and predicate.  An object is a number; for the      *)
(* claims made from release notes a larger one names a newer release.      *)
(* SeekDB's transaction() is a no-op: every write is seen at once by the   *)
(* other processes that share the store, and stays when the writer dies.   *)
(***************************************************************************)
EXTENDS Integers, Sequences

CONSTANTS
    Claims,       \* claim ids
    Sources,
    Src,          \* the source a claim's evidence comes from
    Objects,
    Writers,      \* processes that compile into the store: API server, CLI
    MaxBatch,     \* bound on the claims each compilation makes
    MaxClock,     \* bound on compilations
    MaxCrashes    \* bound on compilations cut short

ASSUME ClaimAssumption ==
    /\ Src \in [Claims -> Sources]
    /\ Objects \subseteq Nat
    /\ MaxClock \in Nat /\ MaxCrashes \in Nat
    /\ MaxBatch \in [1..MaxClock -> Nat]

VARIABLES
    claims,       \* the claim collection
    relations,    \* the relation collection
    disputes,     \* the source_disagreement collection
    compiled,     \* claim ids made so far: they embed the snapshot id, and a
                  \*   stored snapshot is refused when it is compiled again
    batch,        \* the claims each writer still has to put
    putting,      \* the locals of each writer's put_claim_with_governance
    now,          \* each writer's timestamp: compile_claims reads the clock once
    clock, crashes,
    raced         \* history: were two compilations under way at once?

vars == <<claims, relations, disputes, compiled, batch, putting, now,
          clock, crashes, raced>>

Status == {"absent", "active", "superseded"}
Rec == [object: Objects \cup {-1}, status: Status, by: SUBSET Claims,
        contradicts: SUBSET Claims, resolved: BOOLEAN,
        created: 0..MaxClock, updated: 0..MaxClock]
Absent == [object |-> -1, status |-> "absent", by |-> {}, contradicts |-> {},
           resolved |-> TRUE, created |-> 0, updated |-> 0]

Draft    == [id: Claims, object: Objects]
Relation == [from: Claims, type: {"SUPERSEDES", "CONTRADICTS"}, to: Claims]
Dispute  == [old: Claims, new: Claims, oldObject: Objects, newObject: Objects,
             status: {"pending_review", "reviewed", "dismissed"}]

\* What put_claim_with_governance has listed and how far it has come: the
\* rivals it settled, those whose relation is put, whether the claim itself is
\* stored, and the rivals whose disagreement is put.
NoPut == [busy |-> FALSE]
Progress == [busy: {TRUE}, draft: Draft, listed: [Claims -> Rec],
             rivals: SUBSET Claims, settled: SUBSET Claims, linked: SUBSET Claims,
             stored: BOOLEAN, filed: SUBSET Claims]

Active   == {c \in Claims : claims[c].status = "active"}
Stored   == {c \in Claims : claims[c].status # "absent"}
Rest(w)  == batch[w] = <<>> /\ ~putting[w].busy
Idle     == \A w \in Writers : Rest(w)

\* What KnowledgeClaimV1 checks of a record when a store reads it back.
Readable(r) == r.updated >= r.created /\ (r.status = "superseded" => r.by # {})

-----------------------------------------------------------------------------
(* put_claim_with_governance: what it writes.  The rivals are the active     *)
(* claims that differ; the list gives them by id, a hash, so in any order.   *)

\* Mutant of Rivals: only the first match of the list is handled.
RivalsFirstOnly(d) ==
    LET all == {p \in Active : p # d.id /\ claims[p].object # d.object}
    IN  IF all = {} THEN {} ELSE {CHOOSE p \in all : TRUE}

Rivals(d) == {p \in Active : p # d.id /\ claims[p].object # d.object}

\* Mutant of SameSource: every conflict is settled in favour of the newcomer.
NewerWins(p, d) == TRUE

SameSource(p, d) == Src[p] = Src[d.id]

\* Mutant of Superseded: the replacement is not named.
SupersededByNobody(r, d, t) == [r EXCEPT !.status = "superseded", !.updated = t]

Superseded(r, d, t) ==
    [r EXCEPT !.status = "superseded", !.by = @ \cup {d.id}, !.updated = t]

Contradicted(r, d, t) ==
    [r EXCEPT !.contradicts = @ \cup {d.id}, !.resolved = FALSE, !.updated = t]

\* Mutant of Fresh: a claim somebody contradicts is stored as such.
FreshContradicted(d, against, t) ==
    [object |-> d.object,
     status |-> IF against = {} THEN "active" ELSE "contradicted",
     by |-> {}, contradicts |-> against, resolved |-> against = {},
     created |-> t, updated |-> t]

\* The claim itself; what an earlier put of the same id left is overwritten.
Fresh(d, against, t) ==
    [object |-> d.object, status |-> "active", by |-> {},
     contradicts |-> against, resolved |-> against = {},
     created |-> t, updated |-> t]

Against(q) == {p \in q.rivals : ~SameSource(p, q.draft)}

\* The record a rival gets, made from the copy that was listed.
Settlement(p, q, t) ==
    IF SameSource(p, q.draft) THEN Superseded(q.listed[p], q.draft, t)
    ELSE Contradicted(q.listed[p], q.draft, t)

RelationTo(p, q) ==
    [from |-> q.draft.id, to |-> p,
     type |-> IF SameSource(p, q.draft) THEN "SUPERSEDES" ELSE "CONTRADICTS"]

Disagreement(p, q) ==
    [old |-> p, new |-> q.draft.id, oldObject |-> q.listed[p].object,
     newObject |-> q.draft.object, status |-> "pending_review"]

-----------------------------------------------------------------------------
(* compile_claims.                                                          *)

\* Mutant of Drafts: a snapshot that is already stored is compiled again.
DraftsAnySnapshot(s) ==
    {b \in UNION {[1..n -> Draft] : n \in 1..MaxBatch[clock + 1]} :
        /\ \A i \in DOMAIN b : Src[b[i].id] = s
        /\ \A i, j \in DOMAIN b : i < j => b[i].object > b[j].object}

\* The claims one compilation of source s makes, in the order of the release
\* list, newest first: two releases may carry the same line (hence the same
\* id), but every claim has its own object.
Drafts(s) ==
    {b \in UNION {[1..n -> Draft] : n \in 1..MaxBatch[clock + 1]} :
        /\ \A i \in DOMAIN b : Src[b[i].id] = s /\ b[i].id \notin compiled
        /\ \A i, j \in DOMAIN b : i < j => b[i].object > b[j].object}

Compile(w) ==
    /\ Rest(w)
    /\ clock < MaxClock
    /\ \E s \in Sources : \E b \in Drafts(s) :
          /\ batch' = [batch EXCEPT ![w] = b]
          /\ compiled' = compiled \cup {b[i].id : i \in DOMAIN b}
    /\ clock' = clock + 1
    /\ now' = [now EXCEPT ![w] = clock']
    /\ raced' = (raced \/ ~Idle)
    /\ UNCHANGED <<claims, relations, disputes, putting, crashes>>

\* The one list_claims call: everything written afterwards is computed from
\* what it returned.
List(w) ==
    /\ ~putting[w].busy /\ batch[w] # <<>>
    /\ \A c \in Stored : Readable(claims[c])
    /\ putting' = [putting EXCEPT ![w] =
         [busy |-> TRUE, draft |-> Head(batch[w]),
          listed |-> [c \in Claims |->
                        IF c \in Rivals(Head(batch[w])) THEN claims[c] ELSE Absent],
          rivals |-> Rivals(Head(batch[w])), settled |-> {}, linked |-> {},
          stored |-> FALSE, filed |-> {}]]
    /\ batch' = [batch EXCEPT ![w] = Tail(@)]
    /\ UNCHANGED <<claims, relations, disputes, compiled, now, clock, crashes,
                   raced>>

\* One record that fails its contract makes every list_claims raise.
ListRaised(w) ==
    /\ ~putting[w].busy /\ batch[w] # <<>>
    /\ \E c \in Stored : ~Readable(claims[c])
    /\ batch' = [batch EXCEPT ![w] = <<>>]
    /\ UNCHANGED <<claims, relations, disputes, compiled, putting, now,
                   clock, crashes, raced>>

\* put_claim_with_governance returns when the claim is stored and every
\* disagreement put.
Onwards(q) == IF q.stored /\ q.filed = Against(q) THEN NoPut ELSE q

\* One rival is rewritten, the one before it having its relation.
PutRival(w, p) ==
    LET q == putting[w] IN
    /\ q.busy /\ q.linked = q.settled
    /\ p \in q.rivals \ q.settled
    /\ claims' = [claims EXCEPT ![p] = Settlement(p, q, now[w])]
    /\ putting' = [putting EXCEPT ![w].settled = @ \cup {p}]
    /\ UNCHANGED <<relations, disputes, compiled, batch, now, clock, crashes, raced>>

PutRelation(w, p) ==
    LET q == putting[w] IN
    /\ q.busy /\ p \in q.settled \ q.linked
    /\ relations' = relations \cup {RelationTo(p, q)}
    /\ putting' = [putting EXCEPT ![w].linked = @ \cup {p}]
    /\ UNCHANGED <<claims, disputes, compiled, batch, now, clock, crashes, raced>>

\* Mutant of PutClaim: the claim does not wait for its rivals.
PutClaimFirst(w) ==
    LET q == putting[w] IN
    /\ q.busy /\ ~q.stored
    /\ claims' = [claims EXCEPT ![q.draft.id] = Fresh(q.draft, Against(q), now[w])]
    /\ putting' = [putting EXCEPT ![w] = Onwards([q EXCEPT !.stored = TRUE])]
    /\ UNCHANGED <<relations, disputes, compiled, batch, now, clock, crashes, raced>>

\* Mutant of PutClaim: a claim id that is already stored is not written again.
PutClaimOnce(w) ==
    LET q == putting[w] IN
    /\ q.busy /\ ~q.stored /\ q.linked = q.rivals
    /\ claims' = IF q.draft.id \in Stored THEN claims
                 ELSE [claims EXCEPT ![q.draft.id] = Fresh(q.draft, Against(q), now[w])]
    /\ putting' = [putting EXCEPT ![w] = Onwards([q EXCEPT !.stored = TRUE])]
    /\ UNCHANGED <<relations, disputes, compiled, batch, now, clock, crashes, raced>>

PutClaim(w) ==
    LET q == putting[w] IN
    /\ q.busy /\ ~q.stored /\ q.linked = q.rivals
    /\ claims' = [claims EXCEPT ![q.draft.id] = Fresh(q.draft, Against(q), now[w])]
    /\ putting' = [putting EXCEPT ![w] = Onwards([q EXCEPT !.stored = TRUE])]
    /\ UNCHANGED <<relations, disputes, compiled, batch, now, clock, crashes, raced>>

SameDispute(x, y) ==
    /\ x.old = y.old /\ x.new = y.new
    /\ x.oldObject = y.oldObject /\ x.newObject = y.newObject

\* Mutant of PutDisagreement: the difference is noted on the claims, never queued.
PutNoDisagreement(w, p) ==
    LET q == putting[w] IN
    /\ q.busy /\ q.stored /\ p \in Against(q) \ q.filed
    /\ putting' = [putting EXCEPT ![w] = Onwards([q EXCEPT !.filed = @ \cup {p}])]
    /\ UNCHANGED <<claims, relations, disputes, compiled, batch, now, clock, crashes, raced>>

PutDisagreement(w, p) ==
    LET q == putting[w] IN
    /\ q.busy /\ q.stored /\ p \in Against(q) \ q.filed
    /\ disputes' = {d \in disputes : ~SameDispute(d, Disagreement(p, q))}
                     \cup {Disagreement(p, q)}
    /\ putting' = [putting EXCEPT ![w] = Onwards([q EXCEPT !.filed = @ \cup {p}])]
    /\ UNCHANGED <<claims, relations, compiled, batch, now, clock, crashes, raced>>

\* The process dies, or a store call raises: what is left is never written.
\* A retry of the snapshot is refused, its documents being stored already.
Crash(w) ==
    /\ ~Rest(w)
    /\ crashes < MaxCrashes
    /\ crashes' = crashes + 1
    /\ batch' = [batch EXCEPT ![w] = <<>>]
    /\ putting' = [putting EXCEPT ![w] = NoPut]
    /\ UNCHANGED <<claims, relations, disputes, compiled, now, clock, raced>>

\* "rosclaw-know review apply|reject": the claims are left as they are.
Review(d, decision) ==
    /\ disputes' = (disputes \ {d})
                     \cup {[d EXCEPT !.status = IF decision = "apply"
                                                THEN "reviewed" ELSE "dismissed"]}
    /\ UNCHANGED <<claims, relations, compiled, batch, putting, now, clock, crashes,
                   raced>>

Init ==
    /\ claims = [c \in Claims |-> Absent]
    /\ relations = {} /\ disputes = {} /\ compiled = {}
    /\ batch = [w \in Writers |-> <<>>]
    /\ putting = [w \in Writers |-> NoPut]
    /\ now = [w \in Writers |-> 0]
    /\ clock = 0 /\ crashes = 0 /\ raced = FALSE

Next ==
    \/ \E w \in Writers :
          \/ Compile(w) \/ List(w) \/ ListRaised(w)
          \/ PutClaim(w) \/ Crash(w)
          \/ \E p \in Claims :
                PutRival(w, p) \/ PutRelation(w, p) \/ PutDisagreement(w, p)
    \/ \E d \in disputes, decision \in {"apply", "reject"} : Review(d, decision)

Spec == Init /\ [][Next]_vars

-----------------------------------------------------------------------------
(* Properties.                                                              *)

\* Every variable has its type (KnowledgeClaimV1, SourceDisagreementV1,
\* RelationRecord and the locals of put_claim_with_governance).
TypeOK ==
    /\ claims \in [Claims -> Rec]
    /\ relations \subseteq Relation
    /\ disputes \subseteq Dispute
    /\ compiled \subseteq Claims
    /\ batch \in [Writers -> Seq(Draft)]
    /\ putting \in [Writers -> Progress \cup {NoPut}]
    /\ now \in [Writers -> 0..MaxClock]
    /\ clock \in 0..MaxClock /\ crashes \in 0..MaxCrashes
    /\ raced \in BOOLEAN

\* What the contradiction guard of the reference packs lets through.
Served == {c \in Active : claims[c].resolved}

\* No two claims that a reference pack may use differ, seen at any point of
\* put_claim_with_governance by any process, kills included: the older claim is
\* marked before the newer one becomes visible.  Unless two compilations raced.
ServedClaimsAgree ==
    ~raced => \A a, b \in Served : claims[a].object = claims[b].object

\* A source never has two active claims that differ
\* (put_claim_with_governance: "superseding same-source history"), unless two
\* compilations raced; and whatever the processes do to each other, a claim is
\* superseded only by claims of its own source and contradicted only by claims of
\* others (test_cross_source_conflict_is_reviewed_instead_of_silently_superseded).
OneVoicePerSource ==
    /\ ~raced => \A a, b \in Active : Src[a] = Src[b] => claims[a].object = claims[b].object
    /\ \A c \in Claims : /\ \A r \in claims[c].by : Src[r] = Src[c]
                         /\ \A r \in claims[c].contradicts : Src[r] # Src[c]

\* Between compilations, two sources that differ contradict each other on both
\* sides and the difference was put up for review, unless a compilation was cut
\* short or two raced.
ConflictsAreQueued ==
    Idle /\ ~raced /\ crashes = 0 => \A a, b \in Active :
        claims[a].object # claims[b].object =>
            /\ b \in claims[a].contradicts /\ ~claims[a].resolved
            /\ \E d \in disputes : {d.old, d.new} = {a, b}

\* Between compilations, superseded_by leads from every superseded claim to
\* an active one of the store: it names stored claims and runs in no circle,
\* and each of its edges has its SUPERSEDES relation.  Unless a compilation was
\* cut short or two raced.
SupersessionEndsActive ==
    Idle /\ ~raced /\ crashes = 0 =>
        /\ \A S \in (SUBSET (Stored \ Active)) \ {{}} :
              \E c \in S : claims[c].by \cap (Stored \ S) # {}
        /\ \A c \in Stored \ Active : \A r \in claims[c].by :
              /\ r \in Stored
              /\ [from |-> r, type |-> "SUPERSEDES", to |-> c] \in relations

\* A dispute somebody has settled is never put up for review again, and none
\* disappears.
SettledStaysSettled ==
    [][\A d \in disputes :
          /\ \E e \in disputes' : SameDispute(d, e)
          /\ d.status # "pending_review" =>
                \A e \in disputes' : SameDispute(d, e) => e.status # "pending_review"]_vars

\* "Create deterministic and synthesis claims, then supersede older facts"
\* (claims.py:241): within one compilation, the claim of a release is not
\* superseded by that of an older release.
NewerReleaseWins ==
    \A c \in Stored \ Active : \A r \in claims[c].by \cap Stored :
        claims[r].created = claims[c].created =>
            claims[r].object > claims[c].object

\* "updated_at must be >= created_at" (claim_v1.py:111): every stored claim
\* can be read back, unless two compilations raced.
ClaimsAreReadable == ~raced => \A c \in Stored : Readable(claims[c])
=============================================================================
