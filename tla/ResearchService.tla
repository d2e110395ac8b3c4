--------------------------- MODULE ResearchService ---------------------------
(***************************************************************************)
(* What the research service promises an agent, without its file, its      *)
(* queue or its await points: jobs are served one at a time in the order   *)
(* they were accepted, each publishes its clusters at most once, a result  *)
(* is final, and an outage abandons exactly the jobs that had no result.   *)
(***************************************************************************)
EXTENDS Sequences

CONSTANT Jobs

VARIABLES
    phase,      \* of every job: absent, queued, running, completed, failed
                \*   or abandoned
    line,       \* accepted jobs not yet begun, oldest first
    published   \* jobs whose clusters are in the knowledge base

svcVars == <<phase, line, published>>

Unfinished == {"queued", "running"}

SvcInit ==
    /\ phase = [j \in Jobs |-> "absent"]
    /\ line = <<>>
    /\ published = {}

Accept(j) ==
    /\ phase[j] = "absent"
    /\ phase' = [phase EXCEPT ![j] = "queued"]
    /\ line' = Append(line, j)
    /\ UNCHANGED published

Begin ==
    /\ line # <<>>
    /\ \A j \in Jobs : phase[j] # "running"
    /\ phase' = [phase EXCEPT ![Head(line)] = "running"]
    /\ line' = Tail(line)
    /\ UNCHANGED published

Publish(j) ==
    /\ phase[j] = "running"
    /\ j \notin published
    /\ published' = published \cup {j}
    /\ UNCHANGED <<phase, line>>

End(j) ==
    /\ phase[j] = "running"
    /\ phase' \in {[phase EXCEPT ![j] = p] : p \in {"completed", "failed"}}
    /\ UNCHANGED <<line, published>>

Outage ==
    /\ phase' = [j \in Jobs |->
                   IF phase[j] \in Unfinished THEN "abandoned" ELSE phase[j]]
    /\ line' = <<>>
    /\ UNCHANGED published

SvcNext ==
    \/ \E j \in Jobs : Accept(j) \/ Publish(j) \/ End(j)
    \/ Begin
    \/ Outage

SvcSpec == SvcInit /\ [][SvcNext]_svcVars
=============================================================================
