-------------------------- MODULE FeedbackGovernance --------------------------
(***************************************************************************)
(* Usage feedback and its review queue: POST /know/v2/feedback (api.py)    *)
(* stores the feedback and the governance record that feedback_governance  *)
(* routes it to, as two writes of a SeekDB store; a reviewer settles the   *)
(* record over the API or, from a process of its own, over the CLI.        *)
(*                                                                         *)
(* A client that got no answer posts again, so a request can be served any *)
(* number of times and late; a faulty client reuses an id.                 *)
(***************************************************************************)
EXTENDS Naturals

CONSTANTS
    Ids,          \* feedback ids
    Unset,
    Verdicts,     \* the verdicts clients post
    MaxFeedbackCrashes    \* bound on crashes of the API process

Request == [id: Ids, verdict: Verdicts]
Open    == {"signal_recorded", "pending_review"}
Settled == {"reviewed", "dismissed"}
Record  == [verdict: Verdicts, status: Open \cup Settled]
Serving == [id: Ids, verdict: Verdicts, created: BOOLEAN]

ASSUME FeedbackAssumption ==
    /\ Verdicts \subseteq {"useful", "irrelevant", "stale", "incompatible",
                           "misleading", "unknown"}
    /\ Unset \notin Verdicts
    /\ MaxFeedbackCrashes \in Nat
    /\ Unset \notin Record \cup Serving

VARIABLES
    requests,     \* requests that were posted, any of them may arrive again
    feedback,     \* the feedback collection: id -> verdict
    governance,   \* the feedback_governance collection: id -> verdict, status
    serving,      \* the request between its two writes
    answered,     \* ids a client got 200 or 201 for (history)
    editing,      \* the record "rosclaw-know review" has read
    feedback_crashes

feedback_vars == <<requests, feedback, governance, serving, answered, editing, feedback_crashes>>

\* Mutant of Route: a signal is filed under a status of its own.
RouteSignal(v) ==
    [verdict |-> v,
     status |-> IF v \in {"useful", "irrelevant"} THEN "signal"
                ELSE "pending_review"]

\* governance_for_feedback: the queue follows from the verdict.
Route(v) ==
    [verdict |-> v,
     status |-> IF v \in {"useful", "irrelevant"} THEN "signal_recorded"
                ELSE "pending_review"]

Decide(r, decision) ==
    [r EXCEPT !.status = IF decision = "apply" THEN "reviewed" ELSE "dismissed"]

-----------------------------------------------------------------------------
Post(r) ==
    /\ requests' = requests \cup {r}
    /\ UNCHANGED <<feedback, governance, serving, answered, editing, feedback_crashes>>

\* store.put_feedback up to its first write: another payload under the same
\* id is refused.
PutFeedback(r) ==
    /\ r \in requests /\ serving = Unset
    /\ feedback[r.id] \in {Unset, r.verdict}
    /\ feedback' = [feedback EXCEPT ![r.id] = r.verdict]
    /\ serving' = [id |-> r.id, verdict |-> r.verdict,
                   created |-> feedback[r.id] = Unset]
    /\ UNCHANGED <<requests, governance, answered, editing, feedback_crashes>>

\* Mutant of PutGovernance: the record is written for new feedback only.
PutGovernanceIfCreated ==
    /\ serving # Unset
    /\ governance' = IF serving.created
                     THEN [governance EXCEPT ![serving.id] = Route(serving.verdict)]
                     ELSE governance
    /\ answered' = answered \cup {serving.id}
    /\ serving' = Unset
    /\ UNCHANGED <<requests, feedback, editing, feedback_crashes>>

\* The second write, whether or not the first one changed anything.
PutGovernance ==
    /\ serving # Unset
    /\ governance' = [governance EXCEPT ![serving.id] = Route(serving.verdict)]
    /\ answered' = answered \cup {serving.id}
    /\ serving' = Unset
    /\ UNCHANGED <<requests, feedback, editing, feedback_crashes>>

FeedbackCrash ==
    /\ serving # Unset
    /\ feedback_crashes < MaxFeedbackCrashes
    /\ feedback_crashes' = feedback_crashes + 1
    /\ serving' = Unset
    /\ UNCHANGED <<requests, feedback, governance, answered, editing>>

\* POST .../review runs on the API's loop.
ReviewOverApi(f, decision) ==
    /\ serving = Unset
    /\ governance[f] # Unset
    /\ governance' = [governance EXCEPT ![f] = Decide(@, decision)]
    /\ UNCHANGED <<requests, feedback, serving, answered, editing, feedback_crashes>>

\* The CLI reads the record and then writes it back.
ReviewRead(f) ==
    /\ editing = Unset
    /\ governance[f] # Unset
    /\ editing' = [id |-> f, record |-> governance[f]]
    /\ UNCHANGED <<requests, feedback, governance, serving, answered, feedback_crashes>>

ReviewWrite(decision) ==
    /\ editing # Unset
    /\ governance' = [governance EXCEPT ![editing.id] =
                        Decide(editing.record, decision)]
    /\ editing' = Unset
    /\ UNCHANGED <<requests, feedback, serving, answered, feedback_crashes>>

FeedbackInit ==
    /\ requests = {}
    /\ feedback = [f \in Ids |-> Unset]
    /\ governance = [f \in Ids |-> Unset]
    /\ serving = Unset /\ editing = Unset
    /\ answered = {}
    /\ feedback_crashes = 0

FeedbackNext ==
    \/ \E r \in Request : Post(r) \/ PutFeedback(r)
    \/ PutGovernance \/ FeedbackCrash
    \/ \E f \in Ids : ReviewRead(f)
    \/ \E decision \in {"apply", "reject"} :
          \/ ReviewWrite(decision)
          \/ \E f \in Ids : ReviewOverApi(f, decision)

FeedbackSpec == FeedbackInit /\ [][FeedbackNext]_feedback_vars

-----------------------------------------------------------------------------
(* Properties.                                                              *)

\* Every variable has its type (KnowledgeUsageFeedbackV1,
\* FeedbackGovernanceRecordV1).
FeedbackTypeOK ==
    /\ requests \subseteq Request
    /\ feedback \in [Ids -> Verdicts \cup {Unset}]
    /\ governance \in [Ids -> Record \cup {Unset}]
    /\ serving \in Serving \cup {Unset}
    /\ answered \subseteq Ids
    /\ editing \in [id: Ids, record: Record] \cup {Unset}
    /\ feedback_crashes \in 0..MaxFeedbackCrashes

\* "Every accepted feedback record deterministically creates one
\* FeedbackGovernanceRecordV1" (FEEDBACK_GOVERNANCE_V1.md): an answered POST
\* has its record, of the verdict that was stored first, in spite of crashes
\* between the writes, reuse of the id and late duplicates.
AnsweredIsGoverned ==
    /\ \A f \in answered : feedback[f] # Unset /\ governance[f] # Unset
    /\ \A f \in Ids : governance[f] # Unset => governance[f].verdict = feedback[f]
=============================================================================
