------------------------- MODULE ResearchJobs_proofs -------------------------
(*************************************************************************)
(* The safety invariants of ResearchJobs and the order of its statuses   *)
(* hold for any set of jobs and any bounds. With a disk that loses and   *)
(* tears nothing no answer is lost, and the service implements           *)
(* ResearchService: proofs.                                              *)
(*************************************************************************)
EXTENDS ResearchJobs, TLAPS, FiniteSetTheorems, WellFoundedInduction

-----------------------------------------------------------------------------
(* The inductive invariant.                                                 *)

\* What step t of _run_job may rely on about the record r of its job.
Stage(t, r) ==
    /\ t # "except" => r.status = "running"
    /\ t \in {"collect", "empty", "files"} => r.fetched = 0
    /\ t = "empty" => r.planned = 0
    /\ t \in {"ingest", "merged", "reload", "finish"} => r.fetched = r.planned

Honest(j, r) == r.status = "completed" =>
    /\ r.added = (j \in merged)
    /\ r.fetched = r.planned

Open(j) == InQueue(j) \/ (task \in Busy /\ cur = j)

\* The worker's hands are empty outside a job, and what it holds fits its step.
HandsOK ==
    /\ task \notin Busy => cur = None
    /\ task = "down" => queue = <<>>
    /\ task \in Busy => Stage(task, jobs[cur]) /\ cur \in accepted
                        /\ jobs[cur].status # "absent"
    /\ merged \subseteq accepted
    /\ \A j \in stranded : jobs[j].status # "absent"
    /\ \A j \in Jobs : InQueue(j) =>
          jobs[j] = NewJob /\ j \in accepted /\ j \notin merged

\* No line of an unfinished job of this process is a finished one.
LinesOK ==
    \A i \in DOMAIN log :
       /\ log[i].rec.status \in Status
       /\ Honest(log[i].job, log[i].rec)
       /\ Open(log[i].job) => log[i].rec.status \notin Terminal

AnswersOK == \A j \in Jobs : Honest(j, jobs[j])

IInv ==
    /\ TypeOK /\ ScheduledOnce /\ MergedAtMostOnce /\ FinishedLineIsLast
    /\ HandsOK /\ LinesOK /\ AnswersOK

-----------------------------------------------------------------------------
(* The file.                                                                *)

\* Whatever an append does, the new file holds old lines and at most the line
\* of record r of job j, at its end.
Wrote(j, r) ==
    /\ log' \in Seq(Line)
    /\ tail' \in {"clean", "whole", "cut"}
    /\ tail' = "whole" => log' # <<>>
    /\ unreadable' \in BOOLEAN
    /\ \A i \in DOMAIN log' :
          \/ i \in DOMAIN log /\ log'[i] = log[i]
          \/ i = Len(log) + 1 /\ log'[i] = [job |-> j, rec |-> r]

\* Bytes after an unterminated last line cost that line and no other.
LEMMA SpoiledLines ==
    ASSUME TypeOK
    PROVE  /\ Spoiled \in Seq(Line)
           /\ \A i \in DOMAIN Spoiled : i \in DOMAIN log /\ Spoiled[i] = log[i]
<1>1. CASE tail = "whole"
  <2>1. /\ log \in Seq(Line) /\ Len(log) \in Nat /\ Len(log) > 0
    BY <1>1 DEF TypeOK
  <2>2. Spoiled = SubSeq(log, 1, Len(log) - 1)
    BY <1>1 DEF Spoiled
  <2>. QED  BY <2>1, <2>2
<1>2. CASE tail # "whole"
  BY <1>2 DEF TypeOK, Spoiled
<1>. QED  BY <1>1, <1>2

LEMMA FragmentWrote ==
    ASSUME TypeOK, Fragment, NEW j, NEW r
    PROVE  Wrote(j, r)
BY SpoiledLines DEF Fragment, Wrote, TypeOK

\* A whole line at the end.
LEMMA AppendWrote ==
    ASSUME TypeOK, NEW j \in Jobs, NEW r \in Rec,
           log' = Append(log, [job |-> j, rec |-> r]),
           tail' \in {"clean", "whole"}, unreadable' = unreadable
    PROVE  Wrote(j, r)
<1>. DEFINE line == [job |-> j, rec |-> r]
<1>1. line \in Line /\ log \in Seq(Line)
  BY DEF Line, TypeOK
<1>2. /\ log' \in Seq(Line)
      /\ Len(log') = Len(log) + 1
      /\ \A i \in 1..Len(log) : log'[i] = log[i]
      /\ log'[Len(log) + 1] = line
  BY <1>1
<1>3. DOMAIN log' = 1..(Len(log) + 1) /\ DOMAIN log = 1..Len(log)
      /\ Len(log) \in Nat
  BY <1>1, <1>2
<1>4. log' # <<>>
  BY <1>2, <1>3
<1>. QED  BY <1>2, <1>3, <1>4 DEF Wrote, TypeOK

LEMMA SavedWrote ==
    ASSUME TypeOK, NEW j \in Jobs, NEW r \in Rec, Saved(j, r)
    PROVE  Wrote(j, r)
<1>1. CASE tail = "clean"
  BY <1>1, AppendWrote DEF Saved
<1>2. CASE tail # "clean"
  BY <1>2, SpoiledLines DEF Saved, Wrote, TypeOK
<1>. QED  BY <1>1, <1>2

LEMMA NotSavedWrote ==
    ASSUME TypeOK, NEW j, NEW r, NotSaved(j, r)
    PROVE  Wrote(j, r)
<1>1. CASE UNCHANGED <<log, tail, unreadable>>
  BY <1>1 DEF Wrote, TypeOK
<1>. QED  BY <1>1, FragmentWrote DEF NotSaved

\* A line appended for a job whose earlier lines are unfinished reopens
\* nothing, and an honest line keeps the file honest.
LEMMA LinesStep ==
    ASSUME TypeOK, FinishedLineIsLast, LinesOK, merged' = merged,
           NEW j \in Jobs, NEW r \in Rec, Wrote(j, r),
           r.status \in Status, Honest(j, r),
           \A i \in DOMAIN log : log[i].job = j => log[i].rec.status \notin Terminal
    PROVE  /\ FinishedLineIsLast'
           /\ \A i \in DOMAIN log' :
                 /\ log'[i].rec.status \in Status
                 /\ Honest(log[i].job, log[i].rec)'
<1>. DEFINE line == [job |-> j, rec |-> r]
<1>1. /\ \A i \in DOMAIN log' : \/ i \in DOMAIN log /\ log'[i] = log[i]
                                \/ i = Len(log) + 1 /\ log'[i] = line
      /\ \A i \in DOMAIN log : i \in Nat /\ i <= Len(log)
      /\ Len(log) \in Nat
      /\ line.job = j /\ line.rec = r
  BY DEF Wrote, TypeOK
<1>2. FinishedLineIsLast'
  <2>. SUFFICES ASSUME NEW i \in DOMAIN log', NEW k \in DOMAIN log',
                       log'[i].job = log'[k].job, log'[i].rec.status \in Terminal
                PROVE  k <= i
    BY DEF FinishedLineIsLast
  <2>1. CASE i \in DOMAIN log /\ log'[i] = log[i]
    <3>1. CASE k \in DOMAIN log /\ log'[k] = log[k]
      BY <2>1, <3>1 DEF FinishedLineIsLast
    <3>2. CASE k = Len(log) + 1 /\ log'[k] = line
      BY <2>1, <3>2, <1>1
    <3>. QED  BY <1>1, <3>1, <3>2
  <2>2. CASE i = Len(log) + 1
    BY <2>2, <1>1
  <2>. QED  BY <1>1, <2>1, <2>2
<1>3. ASSUME NEW i \in DOMAIN log'
      PROVE  log'[i].rec.status \in Status /\ Honest(log[i].job, log[i].rec)'
  <2>1. CASE i \in DOMAIN log /\ log'[i] = log[i]
    BY <2>1 DEF LinesOK, Honest
  <2>2. CASE log'[i] = line
    BY <2>2, <1>1 DEF Honest
  <2>. QED  BY <1>1, <2>1, <2>2
<1>. QED  BY <1>2, <1>3

-----------------------------------------------------------------------------
(* The steps.                                                               *)

LEMMA RecTypes ==
    /\ NoJob \in Rec /\ NewJob \in Rec
    /\ NoJob.status = "absent" /\ NewJob.status = "queued"
    /\ NewJob.planned = 0 /\ NewJob.fetched = 0
<1>1. 0 \in 0..MaxSources
  BY ResearchAssumption
<1>. QED  BY <1>1 DEF NoJob, NewJob, Rec, Status

LEMMA InitIInv == Init => IInv
<1>. SUFFICES ASSUME Init PROVE IInv
  OBVIOUS
<1>1. TypeOK
  <2>1. 0 \in 0..MaxCrashes /\ 0 \in 0..MaxFaults
    BY ResearchAssumption
  <2>2. <<>> \in Seq(Jobs) /\ <<>> \in Seq(Line)
    OBVIOUS
  <2>3. jobs \in [Jobs -> Rec]
    BY RecTypes DEF Init
  <2>. QED  BY <2>1, <2>2, <2>3 DEF Init, TypeOK
<1>2. /\ ScheduledOnce /\ MergedAtMostOnce /\ FinishedLineIsLast
  BY RecTypes DEF Init, ScheduledOnce, MergedAtMostOnce, FinishedLineIsLast,
                  InQueue, Busy
<1>3. HandsOK /\ LinesOK /\ AnswersOK
  BY RecTypes DEF Init, HandsOK, LinesOK, AnswersOK, InQueue, Busy, Honest
<1>. QED  BY <1>1, <1>2, <1>3 DEF IInv

\* A process that goes down leaves a file that may have gained one line.
LEMMA DownStep ==
    ASSUME IInv, Down, UNCHANGED accepted,
           TypeOK', FinishedLineIsLast',
           \A i \in DOMAIN log' : /\ log'[i].rec.status \in Status
                                  /\ Honest(log[i].job, log[i].rec)'
    PROVE  IInv'
<1>1. ScheduledOnce' /\ MergedAtMostOnce'
  BY RecTypes DEF Down, ScheduledOnce, MergedAtMostOnce, InQueue, Busy
<1>2. HandsOK'
  BY DEF IInv, HandsOK, Down, InQueue, Busy
<1>3. LinesOK'
  BY DEF LinesOK, Open, Down, InQueue, Busy
<1>4. AnswersOK'
  BY RecTypes DEF AnswersOK, Honest, Down
<1>. QED  BY <1>1, <1>2, <1>3, <1>4 DEF IInv

LEMMA DownTypes ==
    ASSUME TypeOK, Down, UNCHANGED accepted, log' \in Seq(Line),
           tail' \in {"clean", "whole", "cut"}, tail' = "whole" => log' # <<>>,
           unreadable' \in BOOLEAN
    PROVE  TypeOK'
BY RecTypes, ResearchAssumption DEF TypeOK, Down, Busy

LEMMA KilledWritingStep ==
    ASSUME IInv, NEW j \in Jobs, NEW r \in Rec, KilledWriting(j, r),
           r.status \in Status, Honest(j, r),
           \A i \in DOMAIN log : log[i].job = j => log[i].rec.status \notin Terminal
    PROVE  IInv'
<1>1. Wrote(j, r)
  <2>1. CASE Fragment
    BY <2>1, FragmentWrote DEF IInv
  <2>2. CASE ~Fragment
    BY <2>2, AppendWrote DEF IInv, KilledWriting
  <2>. QED  BY <2>1, <2>2
<1>2. Down /\ UNCHANGED accepted /\ merged' = merged
  BY DEF KilledWriting, Down
<1>3. TypeOK'
  BY <1>1, <1>2, DownTypes DEF IInv, Wrote
<1>4. /\ FinishedLineIsLast'
      /\ \A i \in DOMAIN log' : /\ log'[i].rec.status \in Status
                                /\ Honest(log[i].job, log[i].rec)'
  BY <1>1, <1>2, LinesStep DEF IInv
<1>. QED  BY <1>2, <1>3, <1>4, DownStep

LEMMA KilledStep ==
    ASSUME IInv, Killed
    PROVE  IInv'
<1>1. Down /\ UNCHANGED <<accepted, log, tail, unreadable, merged>>
  BY DEF Killed, Down
<1>2. TypeOK'
  BY <1>1, DownTypes DEF IInv, TypeOK
<1>3. FinishedLineIsLast'
  BY <1>1 DEF IInv, FinishedLineIsLast
<1>4. \A i \in DOMAIN log' : /\ log'[i].rec.status \in Status
                             /\ Honest(log[i].job, log[i].rec)'
  BY <1>1 DEF IInv, LinesOK, Honest
<1>. QED  BY <1>1, <1>2, <1>3, <1>4, DownStep

\* store.update for the job in the worker's hands: if the record fits the next
\* step, and is a finished one when there is no next step, all is well.
LEMMA UpdateStep ==
    ASSUME IInv, task \in Busy, NEW r \in Rec,
           NEW next \in (Busy \ {"except"}) \cup {"idle"},
           NEW onError \in {"except", "dead"},
           r.status \in {"running", "completed", "failed"}, Honest(cur, r),
           next \in Busy => Stage(next, r),
           next = "idle" => r.status \in Terminal,
           onError = "dead" => r.status \in Terminal,
           next \in {"collect", "empty", "files", "ingest"} => cur \notin merged,
           \A i \in DOMAIN log :
              log[i].job = cur => log[i].rec.status \notin Terminal,
           Update(r, next, onError)
    PROVE  IInv'
<1>. USE DEF IInv
<1>1. /\ cur \in Jobs /\ ~InQueue(cur) /\ cur \notin stranded /\ r.status \in Status
  BY DEF ScheduledOnce, Status
<1>2. CASE KilledWriting(cur, r)
  BY <1>1, <1>2, KilledWritingStep
<1>3. CASE /\ \/ Saved(cur, r) /\ task' = next
              \/ NotSaved(cur, r) /\ task' = onError
           /\ cur' = IF task' \in Busy THEN cur ELSE None
           /\ UNCHANGED <<queue, merged, accepted, stranded, crashes>>
  <2>1. /\ Wrote(cur, r)
        /\ jobs' = [jobs EXCEPT ![cur] = r]
        /\ faults' \in 0..MaxFaults
    BY <1>1, <1>3, SavedWrote, NotSavedWrote, ResearchAssumption
       DEF Saved, NotSaved, TypeOK
  <2>2. TypeOK'
    BY <1>1, <1>3, <2>1 DEF TypeOK, Wrote, Busy
  <2>3. /\ jobs'[cur] = r
        /\ \A j \in Jobs : j # cur => jobs'[j] = jobs[j]
        /\ \A j \in Jobs : InQueue(j)' <=> InQueue(j)
    BY <1>1, <1>3, <2>1 DEF TypeOK, InQueue
  <2>4. ScheduledOnce'
    <3>1. \A i, k \in DOMAIN queue' : queue'[i] = queue'[k] => i = k
      BY <1>3 DEF ScheduledOnce
    <3>2. ASSUME NEW j \in Jobs
          PROVE  /\ InQueue(j)' => jobs'[j].status = "queued" /\ j \notin stranded'
                 /\ jobs'[j].status = "queued" => InQueue(j)' \/ j \in stranded'
                 /\ jobs'[j].status = "running" => j = cur' \/ j \in stranded'
      <4>1. CASE j = cur
        BY <1>1, <1>3, <2>3, <4>1 DEF Terminal, Busy
      <4>2. CASE j # cur
        BY <1>3, <2>3, <4>2 DEF ScheduledOnce
      <4>. QED  BY <4>1, <4>2
    <3>3. task' \in Busy => cur' \in Jobs /\ ~InQueue(cur)' /\ cur' \notin stranded'
      BY <1>1, <1>3 DEF InQueue
    <3>. QED  BY <3>1, <3>2, <3>3 DEF ScheduledOnce
  <2>5. MergedAtMostOnce'
    BY <1>3 DEF MergedAtMostOnce, Busy
  <2>6. /\ FinishedLineIsLast'
        /\ \A i \in DOMAIN log' : /\ log'[i].rec.status \in Status
                                  /\ Honest(log[i].job, log[i].rec)'
    BY <1>1, <1>3, <2>1, LinesStep
  <2>7. HandsOK'
    <3>1. task' \notin Busy => cur' = None
      BY <1>3
    <3>2. task' # "down"
      BY <1>3 DEF Busy
    <3>3. task' \in Busy => Stage(task', jobs'[cur']) /\ cur' \in accepted'
                            /\ jobs'[cur'].status # "absent"
      BY <1>3, <2>3 DEF HandsOK, Stage, Busy
    <3>4. merged' \subseteq accepted'
      BY <1>3 DEF HandsOK
    <3>5. ASSUME NEW j \in Jobs, InQueue(j)'
          PROVE  jobs'[j] = NewJob /\ j \in accepted' /\ j \notin merged'
      BY <1>1, <1>3, <2>3, <3>5 DEF HandsOK
    <3>6. \A j \in stranded' : jobs'[j].status # "absent"
      BY <1>1, <1>3, <2>3 DEF HandsOK, TypeOK
    <3>. QED  BY <3>1, <3>2, <3>3, <3>4, <3>5, <3>6 DEF HandsOK, Stage
  <2>8. LinesOK'
    <3>. SUFFICES ASSUME NEW i \in DOMAIN log', Open(log[i].job)'
                  PROVE  log'[i].rec.status \notin Terminal
      BY <2>6 DEF LinesOK
    <3>1. i \in DOMAIN log => log'[i] = log[i]
      <4>1. i \in DOMAIN log => i <= Len(log) /\ Len(log) \in Nat
        BY DEF TypeOK
      <4>. QED  BY <2>1, <4>1 DEF Wrote
    <3>2. InQueue(log'[i].job) \/ (task' \in Busy /\ cur = log'[i].job)
      BY <1>3 DEF Open, InQueue
    <3>3. CASE i \in DOMAIN log
      BY <3>1, <3>2, <3>3 DEF LinesOK, Open
    <3>4. CASE i \notin DOMAIN log
      <4>1. i = Len(log) + 1 /\ log'[i] = [job |-> cur, rec |-> r]
        BY <2>1, <3>4 DEF Wrote
      <4>2. ~NotSaved(cur, r)
        BY <3>4, SpoiledLines DEF NotSaved, Fragment
      <4>3. task' = next
        BY <1>3, <4>2
      <4>4. task' \in Busy
        BY <1>1, <3>2, <4>1
      <4>5. next # "except"
        BY DEF Busy
      <4>6. r.status = "running"
        BY <4>3, <4>4, <4>5 DEF Stage
      <4>. QED  BY <4>1, <4>6 DEF Terminal
    <3>. QED  BY <3>3, <3>4
  <2>9. AnswersOK'
    BY <1>3, <2>3 DEF AnswersOK, Honest
  <2>. QED  BY <2>2, <2>4, <2>5, <2>6, <2>7, <2>8, <2>9
<1>. QED  BY <1>2, <1>3 DEF Update

-----------------------------------------------------------------------------
(* Restart replays the file.                                                 *)

\* A bounded set of numbers that is not empty has a greatest one.
LEMMA MaxIsIn ==
    ASSUME NEW S \in SUBSET Nat, NEW n \in Nat, S # {}, \A i \in S : i <= n
    PROVE  Max(S) \in S /\ \A i \in S : i <= Max(S)
<1>. DEFINE down == {n - i : i \in S}
<1>1. down \subseteq Nat /\ down # {}
  <2>1. \A i \in S : n - i \in Nat
    OBVIOUS
  <2>. QED  BY <2>1
<1>2. PICK m \in down : \A k \in down : <<k, m>> \notin OpToRel(<, Nat)
  BY <1>1, NatLessThanWellFounded, WFMin
<1>3. PICK x \in S : m = n - x
  OBVIOUS
<1>4. \A y \in S : x >= y
  <2>. SUFFICES ASSUME NEW y \in S PROVE x >= y
    OBVIOUS
  <2>1. n - y \in down /\ n - y \in Nat /\ m \in Nat
    BY <1>1
  <2>2. ~(n - y < m)
    BY <1>2, <2>1 DEF OpToRel
  <2>. QED  BY <1>3, <2>1, <2>2
<1>. QED  BY <1>4 DEF Max

\* A job with no line replays as unknown; any other as one of its own lines.
LEMMA ReplayLine ==
    ASSUME TypeOK, NEW j \in Jobs
    PROVE  \/ /\ Replay[j] = NoJob
              /\ \A i \in DOMAIN log : log[i].job # j
           \/ \E i \in DOMAIN log : log[i].job = j /\ Replay[j] = log[i].rec
<1>. DEFINE at == {i \in DOMAIN log : log[i].job = j}
<1>1. Replay[j] = IF at = {} THEN NoJob ELSE log[Max(at)].rec
  BY DEF Replay
<1>2. CASE at = {}
  BY <1>1, <1>2
<1>3. CASE at # {}
  <2>1. at \in SUBSET Nat /\ Len(log) \in Nat /\ \A i \in at : i <= Len(log)
    BY DEF TypeOK
  <2>2. Max(at) \in at
    BY <1>3, <2>1, MaxIsIn
  <2>. QED  BY <1>1, <1>3, <2>2
<1>. QED  BY <1>2, <1>3

LEMMA RestartStep ==
    ASSUME IInv, Restart
    PROVE  IInv'
<1>. USE DEF IInv
<1>1. \A j \in Jobs : Replay[j] \in Rec
  <2>. SUFFICES ASSUME NEW j \in Jobs PROVE Replay[j] \in Rec
    OBVIOUS
  <2>1. \A i \in DOMAIN log : log[i] \in Line
    BY DEF TypeOK
  <2>2. \A i \in DOMAIN log : log[i].rec \in Rec
    BY <2>1 DEF Line
  <2>. QED  BY <2>2, ReplayLine, RecTypes
<1>2. TypeOK'
  <2>1. jobs' \in [Jobs -> Rec]
    BY <1>1 DEF Restart, Replay
  <2>2. stranded' \subseteq Jobs
    BY DEF Restart
  <2>. QED  BY <2>1, <2>2 DEF Restart, TypeOK, Busy
<1>3. queue' = <<>> /\ cur' = None /\ task' = "idle" /\ jobs' = Replay
  BY DEF Restart, HandsOK, Busy
<1>4. ScheduledOnce'
  BY <1>3 DEF ScheduledOnce, InQueue, Busy, Restart
<1>5. MergedAtMostOnce' /\ FinishedLineIsLast'
  BY <1>3 DEF MergedAtMostOnce, FinishedLineIsLast, Restart
<1>6. HandsOK'
  BY <1>3 DEF HandsOK, InQueue, Busy, Restart
<1>7. LinesOK'
  BY <1>3 DEF LinesOK, Open, InQueue, Busy, Restart, Honest
<1>8. AnswersOK'
  <2>. SUFFICES ASSUME NEW j \in Jobs PROVE Honest(j, Replay[j])
    BY <1>3 DEF AnswersOK, Honest, Restart
  <2>1. CASE Replay[j] = NoJob
    BY <2>1, RecTypes DEF Honest
  <2>2. CASE \E i \in DOMAIN log : log[i].job = j /\ Replay[j] = log[i].rec
    BY <2>2 DEF LinesOK
  <2>. QED  BY <2>1, <2>2, ReplayLine
<1>. QED  BY <1>2, <1>4, <1>5, <1>6, <1>7, <1>8

-----------------------------------------------------------------------------
(* The API and the worker.                                                   *)

LEMMA StartResearchStep ==
    ASSUME IInv, NEW j \in Jobs, StartResearch(j)
    PROVE  IInv'
<1>. USE DEF IInv
<1>1. \A i \in DOMAIN log : log[i].job # j
  BY ReplayLine, RecTypes DEF StartResearch, LinesOK, Status
<1>2. /\ task \notin Busy \/ task \in {"collect", "ingest", "reload"}
      /\ task # "down" /\ jobs[j] = NoJob /\ j \notin accepted
      /\ j \notin merged /\ ~InQueue(j) /\ NewJob \in Rec
      /\ NewJob.status = "queued" /\ Honest(j, NewJob)
  BY RecTypes DEF StartResearch, Awaits, Busy, HandsOK, Honest
<1>3. task \in Busy => cur # j
  BY <1>2, RecTypes DEF HandsOK
<1>4. CASE KilledWriting(j, NewJob)
  BY <1>1, <1>2, <1>4, KilledWritingStep DEF Status
<1>5. CASE /\ UNCHANGED <<task, cur, merged, crashes>>
           /\ \/ /\ Saved(j, NewJob) /\ UNCHANGED stranded
                 /\ queue' = Append(queue, j) /\ accepted' = accepted \cup {j}
              \/ /\ NotSaved(j, NewJob) /\ UNCHANGED <<queue, accepted>>
                 /\ stranded' = stranded \cup {j}
  <2>1. /\ Wrote(j, NewJob)
        /\ jobs' = [jobs EXCEPT ![j] = NewJob]
        /\ faults' \in 0..MaxFaults
    BY <1>2, <1>5, SavedWrote, NotSavedWrote, ResearchAssumption
       DEF Saved, NotSaved, TypeOK
  <2>2. /\ queue \in Seq(Jobs) /\ queue' \in Seq(Jobs)
        /\ \A x \in Jobs : x # j => ((\E i \in DOMAIN queue' : queue'[i] = x) <=> InQueue(x))
        /\ (\E i \in DOMAIN queue' : queue'[i] = j) => queue' = Append(queue, j)
        /\ (\A i, k \in DOMAIN queue' : queue'[i] = queue'[k] => i = k)
    <3>1. CASE queue' = queue
      BY <1>2, <3>1 DEF TypeOK, ScheduledOnce, InQueue
    <3>2. CASE queue' = Append(queue, j)
      <4>1. /\ DOMAIN queue = 1..Len(queue) /\ Len(queue) \in Nat
            /\ queue \in Seq(Jobs)
        BY DEF TypeOK
      <4>2. /\ DOMAIN queue' = 1..(Len(queue) + 1)
            /\ queue'[Len(queue) + 1] = j
            /\ \A i \in 1..Len(queue) : queue'[i] = queue[i] /\ queue[i] # j
        BY <1>2, <3>2, <4>1 DEF InQueue
      <4>. QED  BY <3>2, <4>1, <4>2 DEF ScheduledOnce, InQueue
    <3>. QED  BY <1>5, <3>1, <3>2
  <2>3. TypeOK'
    BY <1>2, <1>5, <2>1, <2>2 DEF TypeOK, Wrote
  <2>4. /\ jobs'[j] = NewJob
        /\ \A x \in Jobs : x # j => jobs'[x] = jobs[x]
    BY <2>1 DEF TypeOK
  <2>5. ScheduledOnce'
    <3>1. ASSUME NEW x \in Jobs
          PROVE  /\ InQueue(x)' => jobs'[x].status = "queued" /\ x \notin stranded'
                 /\ jobs'[x].status = "queued" => InQueue(x)' \/ x \in stranded'
                 /\ jobs'[x].status = "running" => x = cur' \/ x \in stranded'
      <4>1. CASE x # j
        BY <1>5, <2>2, <2>4, <4>1 DEF ScheduledOnce, InQueue
      <4>2. CASE x = j
        <5>1. j \notin stranded \/ queue' = queue
          BY <1>2, <1>5, <2>4, RecTypes DEF HandsOK
        <5>. QED  BY <1>2, <1>5, <2>2, <2>4, <4>2, <5>1 DEF InQueue
      <4>. QED  BY <4>1, <4>2
    <3>2. task' \in Busy => cur' \in Jobs /\ ~InQueue(cur)' /\ cur' \notin stranded'
      BY <1>3, <1>5, <2>2 DEF ScheduledOnce, InQueue
    <3>. QED  BY <2>2, <3>1, <3>2 DEF ScheduledOnce
  <2>6. MergedAtMostOnce'
    BY <1>5 DEF MergedAtMostOnce
  <2>7. /\ FinishedLineIsLast'
        /\ \A i \in DOMAIN log' : /\ log'[i].rec.status \in Status
                                  /\ Honest(log[i].job, log[i].rec)'
    BY <1>1, <1>2, <1>5, <2>1, LinesStep DEF Status
  <2>8. HandsOK'
    <3>1. /\ task' \notin Busy => cur' = None
          /\ task' # "down"
          /\ merged' \subseteq accepted'
      BY <1>2, <1>5 DEF HandsOK
    <3>2. task' \in Busy => Stage(task, jobs[cur])' /\ cur' \in accepted'
                            /\ jobs'[cur'].status # "absent"
      BY <1>3, <1>5, <2>4 DEF HandsOK, ScheduledOnce, Stage
    <3>3. ASSUME NEW x \in Jobs, InQueue(x)'
          PROVE  jobs'[x] = NewJob /\ x \in accepted' /\ x \notin merged'
      <4>1. CASE x # j
        BY <1>5, <2>2, <2>4, <3>3, <4>1 DEF HandsOK, InQueue
      <4>2. CASE x = j
        BY <1>2, <1>5, <2>2, <2>4, <3>3, <4>2 DEF InQueue
      <4>. QED  BY <4>1, <4>2
    <3>4. \A x \in stranded' : jobs'[x].status # "absent"
      BY <1>2, <1>5, <2>4 DEF HandsOK, TypeOK
    <3>. QED  BY <3>1, <3>2, <3>3, <3>4 DEF HandsOK
  <2>9. LinesOK'
    <3>. SUFFICES ASSUME NEW i \in DOMAIN log', Open(log[i].job)'
                  PROVE  log'[i].rec.status \notin Terminal
      BY <2>7 DEF LinesOK
    <3>1. CASE log'[i] = [job |-> j, rec |-> NewJob]
      BY <1>2, <3>1 DEF Terminal
    <3>2. CASE i \in DOMAIN log /\ log'[i] = log[i]
      <4>1. log[i].job \in Jobs /\ log[i].job # j
        <5>1. log[i] \in Line
          BY <3>2 DEF TypeOK
        <5>. QED  BY <1>1, <3>2, <5>1 DEF Line
      <4>2. Open(log[i].job)
        BY <1>5, <2>2, <3>2, <4>1 DEF Open, InQueue
      <4>. QED  BY <3>2, <4>2 DEF LinesOK
    <3>. QED  BY <2>1, <3>1, <3>2 DEF Wrote
  <2>10. AnswersOK'
    BY <1>2, <1>5, <2>4 DEF AnswersOK, Honest
  <2>. QED  BY <2>3, <2>5, <2>6, <2>7, <2>8, <2>9, <2>10
<1>. QED  BY <1>4, <1>5 DEF StartResearch

\* Setting the status of a record, and what it leaves alone.
LEMMA SetStatus ==
    ASSUME NEW r \in Rec, NEW st \in Status
    PROVE  LET q == [r EXCEPT !.status = st]
           IN  /\ q \in Rec /\ q.status = st
               /\ q.planned = r.planned /\ q.fetched = r.fetched
               /\ q.added = r.added
BY DEF Rec

LEMMA DequeueStep ==
    ASSUME IInv, Dequeue
    PROVE  IInv'
<1>. USE DEF IInv
<1>. DEFINE j == Head(queue)
            r == [jobs[j] EXCEPT !.status = "running"]
<1>1. /\ task = "idle" /\ queue # <<>> /\ queue \in Seq(Jobs) /\ Len(queue) \in Nat
      /\ DOMAIN queue = 1..Len(queue) /\ Len(queue) > 0 /\ j = queue[1]
  BY DEF Dequeue, TypeOK
<1>2. j \in Jobs /\ InQueue(j)
  BY <1>1 DEF InQueue
<1>3. /\ jobs[j] = NewJob /\ j \in accepted /\ j \notin merged /\ j \notin stranded
  BY <1>2 DEF HandsOK, ScheduledOnce
<1>4. /\ r \in Rec /\ r.status = "running" /\ r.planned = 0 /\ r.fetched = 0
      /\ Honest(j, r) /\ r.status \in Status /\ Stage("collect", r)
  <2>1. jobs[j] \in Rec /\ "running" \in Status
    BY <1>3, RecTypes DEF Status
  <2>2. /\ r \in Rec /\ r.status = "running" /\ r.planned = jobs[j].planned
        /\ r.fetched = jobs[j].fetched
    BY <2>1, SetStatus
  <2>. QED  BY <1>3, <2>1, <2>2, RecTypes DEF Honest, Stage
<1>5. \A i \in DOMAIN log : log[i].job = j => log[i].rec.status \notin Terminal
  BY <1>2 DEF LinesOK, Open
<1>. HIDE DEF r
<1>6. CASE KilledWriting(j, r)
  BY <1>2, <1>4, <1>5, <1>6, KilledWritingStep
<1>7. CASE /\ \/ Saved(j, r) /\ task' = "collect"
              \/ NotSaved(j, r) /\ task' = "except"
           /\ cur' = j
           /\ queue' = Tail(queue)
           /\ UNCHANGED <<merged, accepted, stranded, crashes>>
  <2>1. /\ Wrote(j, r)
        /\ jobs' = [jobs EXCEPT ![j] = r]
        /\ faults' \in 0..MaxFaults
    BY <1>2, <1>4, <1>7, SavedWrote, NotSavedWrote, ResearchAssumption
       DEF Saved, NotSaved, TypeOK
  <2>2. /\ queue' \in Seq(Jobs)
        /\ \A x \in Jobs : x # j => (InQueue(x)' <=> InQueue(x))
        /\ ~ \E i \in DOMAIN queue' : queue'[i] = j
        /\ \A i, k \in DOMAIN queue' : queue'[i] = queue'[k] => i = k
    <3>1. /\ queue' \in Seq(Jobs)
          /\ DOMAIN queue' = 1..(Len(queue) - 1)
          /\ \A i \in 1..(Len(queue) - 1) : queue'[i] = queue[i + 1]
      BY <1>1, <1>7
    <3>2. \A i \in 1..(Len(queue) - 1) : i + 1 \in DOMAIN queue /\ i + 1 # 1
      BY <1>1
    <3>3. \A i \in 1..Len(queue) : i = 1 \/ i - 1 \in 1..(Len(queue) - 1)
      BY <1>1
    <3>4. \A x \in Jobs : x # j => (InQueue(x)' <=> InQueue(x))
      <4>. SUFFICES ASSUME NEW x \in Jobs, x # j
                    PROVE  InQueue(x)' <=> InQueue(x)
        OBVIOUS
      <4>1. InQueue(x)' => InQueue(x)
        BY <3>1, <3>2 DEF InQueue
      <4>2. ASSUME InQueue(x) PROVE InQueue(x)'
        <5>1. PICK i \in 1..Len(queue) : queue[i] = x
          BY <1>1, <4>2 DEF InQueue
        <5>2. i - 1 \in 1..(Len(queue) - 1) /\ (i - 1) + 1 = i
          BY <1>1, <3>3, <5>1
        <5>3. queue'[i - 1] = x
          BY <3>1, <5>1, <5>2
        <5>. QED  BY <3>1, <5>2, <5>3 DEF InQueue
      <4>. QED  BY <4>1, <4>2
    <3>5. \A i \in 1..(Len(queue) - 1) : queue[i + 1] # j
      BY <1>1, <3>2 DEF ScheduledOnce
    <3>6. \A i, k \in 1..(Len(queue) - 1) : queue[i + 1] = queue[k + 1] => i = k
      <4>. SUFFICES ASSUME NEW i \in 1..(Len(queue) - 1),
                           NEW k \in 1..(Len(queue) - 1),
                           queue[i + 1] = queue[k + 1]
                    PROVE  i = k
        OBVIOUS
      <4>1. i + 1 = k + 1
        BY <3>2 DEF ScheduledOnce
      <4>. QED  BY <1>1, <4>1
    <3>. QED  BY <3>1, <3>4, <3>5, <3>6
  <2>3. TypeOK'
    BY <1>2, <1>7, <2>1, <2>2, <1>4 DEF TypeOK, Wrote, Busy
  <2>4. /\ jobs'[j] = r
        /\ \A x \in Jobs : x # j => jobs'[x] = jobs[x]
    BY <1>2, <2>1 DEF TypeOK
  <2>5. task' \in Busy /\ cur = None
    BY <1>1, <1>7 DEF Busy, HandsOK
  <2>6. ScheduledOnce'
    <3>1. ASSUME NEW x \in Jobs
          PROVE  /\ InQueue(x)' => jobs'[x].status = "queued" /\ x \notin stranded'
                 /\ jobs'[x].status = "queued" => InQueue(x)' \/ x \in stranded'
                 /\ jobs'[x].status = "running" => x = cur' \/ x \in stranded'
      <4>1. CASE x # j
        <5>1. jobs[x].status = "running" => x \in stranded
          BY <2>5, ResearchAssumption DEF ScheduledOnce
        <5>. QED  BY <1>7, <2>2, <2>4, <4>1, <5>1 DEF ScheduledOnce
      <4>2. CASE x = j
        BY <1>4, <1>7, <2>2, <2>4, <4>2 DEF InQueue
      <4>. QED  BY <4>1, <4>2
    <3>2. cur' \in Jobs /\ ~InQueue(cur)' /\ cur' \notin stranded'
      BY <1>2, <1>3, <1>7, <2>2 DEF InQueue
    <3>. QED  BY <2>2, <3>1, <3>2 DEF ScheduledOnce
  <2>7. MergedAtMostOnce'
    BY <1>3, <1>7 DEF MergedAtMostOnce
  <2>8. /\ FinishedLineIsLast'
        /\ \A i \in DOMAIN log' : /\ log'[i].rec.status \in Status
                                  /\ Honest(log[i].job, log[i].rec)'
    BY <1>2, <1>4, <1>5, <1>7, <2>1, LinesStep
  <2>9. HandsOK'
    <3>1. Stage(task, jobs[cur])' /\ cur' \in accepted' /\ jobs'[cur'].status # "absent"
      BY <1>3, <1>4, <1>7, <2>4 DEF Stage
    <3>2. \A x \in stranded' : jobs'[x].status # "absent"
      BY <1>3, <1>7, <2>4 DEF HandsOK, TypeOK
    <3>3. ASSUME NEW x \in Jobs, InQueue(x)'
          PROVE  jobs'[x] = NewJob /\ x \in accepted' /\ x \notin merged'
      <4>1. x # j
        BY <2>2, <3>3 DEF InQueue
      <4>. QED  BY <1>7, <2>2, <2>4, <3>3, <4>1 DEF HandsOK
    <3>. QED  BY <1>7, <2>5, <3>1, <3>2, <3>3 DEF HandsOK, Busy
  <2>10. LinesOK'
    <3>. SUFFICES ASSUME NEW i \in DOMAIN log', Open(log[i].job)'
                  PROVE  log'[i].rec.status \notin Terminal
      BY <2>8 DEF LinesOK
    <3>1. CASE log'[i] = [job |-> j, rec |-> r]
      BY <1>4, <3>1 DEF Terminal
    <3>2. CASE i \in DOMAIN log /\ log'[i] = log[i]
      <4>1. CASE log[i].job = j
        BY <1>5, <3>2, <4>1
      <4>2. CASE log[i].job # j
        <5>1. log[i].job \in Jobs
          <6>1. log[i] \in Line
            BY <3>2 DEF TypeOK
          <6>. QED  BY <6>1 DEF Line
        <5>2. \E k \in DOMAIN queue' : queue'[k] = log[i].job
          BY <1>7, <3>2, <4>2 DEF Open, InQueue
        <5>3. Open(log[i].job)
          BY <2>2, <4>2, <5>1, <5>2 DEF Open, InQueue
        <5>. QED  BY <3>2, <5>3 DEF LinesOK
      <4>. QED  BY <4>1, <4>2
    <3>. QED  BY <2>1, <3>1, <3>2 DEF Wrote
  <2>11. AnswersOK'
    BY <1>4, <1>7, <2>4 DEF AnswersOK, Honest
  <2>. QED  BY <2>3, <2>6, <2>7, <2>8, <2>9, <2>10, <2>11
<1>. QED  BY <1>6, <1>7 DEF Dequeue, r

\* A step of the worker that leaves the store alone: it may merge clusters on
\* its way from "ingest" to "merged", and nothing else.
LEMMA WorkerMovesStep ==
    ASSUME IInv, task \in Busy, task' \in Busy,
           UNCHANGED <<cur, queue, jobs, log, tail, unreadable,
                       accepted, stranded, crashes>>,
           faults' \in 0..MaxFaults,
           Stage(task', jobs[cur]),
           \/ merged' = merged
           \/ task = "ingest" /\ merged' = merged \cup {cur},
           task' \in {"collect", "empty", "files", "ingest"} => cur \notin merged'
    PROVE  IInv'
<1>. USE DEF IInv
<1>1. cur \in Jobs /\ cur \in accepted /\ ~InQueue(cur)
  BY DEF ScheduledOnce, HandsOK
<1>2. TypeOK'
  BY <1>1 DEF TypeOK
<1>3. ScheduledOnce'
  BY DEF ScheduledOnce, InQueue
<1>4. MergedAtMostOnce' /\ FinishedLineIsLast'
  BY DEF MergedAtMostOnce, FinishedLineIsLast
<1>5. HandsOK'
  <2>1. \A j \in Jobs : InQueue(j)' => InQueue(j) /\ j # cur
    BY <1>1 DEF InQueue
  <2>2. Stage(task, jobs[cur])'
    BY DEF Stage
  <2>3. task' # "down" /\ merged' \subseteq accepted'
    BY <1>1 DEF HandsOK, Busy
  <2>. QED  BY <1>1, <2>1, <2>2, <2>3 DEF HandsOK
<1>6. \A j : jobs[j].status = "completed" /\ j \in Jobs => (j \in merged' <=> j \in merged)
  <2>1. task = "ingest" => jobs[cur].status = "running"
    BY DEF HandsOK, Stage
  <2>. QED  BY <2>1
<1>7. \A i \in DOMAIN log : log[i].rec.status = "completed" =>
         (log[i].job \in merged' <=> log[i].job \in merged)
  <2>1. \A i \in DOMAIN log : log[i].job = cur => log[i].rec.status # "completed"
    BY DEF LinesOK, Open, Terminal
  <2>. QED  BY <2>1
<1>8. LinesOK'
  <2>. SUFFICES ASSUME NEW i \in DOMAIN log
                PROVE  /\ log[i].rec.status \in Status
                       /\ Honest(log[i].job, log[i].rec)'
                       /\ Open(log[i].job)' => log[i].rec.status \notin Terminal
    BY DEF LinesOK
  <2>1. Honest(log[i].job, log[i].rec)
    BY DEF LinesOK
  <2>2. Honest(log[i].job, log[i].rec)'
    BY <1>7, <2>1 DEF Honest
  <2>3. Open(log[i].job)' => Open(log[i].job)
    BY DEF Open, InQueue
  <2>. QED  BY <2>2, <2>3 DEF LinesOK
<1>9. AnswersOK'
  BY <1>6 DEF AnswersOK, Honest
<1>. QED  BY <1>2, <1>3, <1>4, <1>5, <1>8, <1>9

LEMMA WorkerStep ==
    ASSUME IInv, Worker
    PROVE  IInv'
<1>. USE DEF IInv
<1>1. CASE Dequeue
  BY <1>1, DequeueStep
<1>2. ASSUME ~Dequeue PROVE IInv'
  <2>1. /\ task \in Busy /\ cur \in Jobs /\ jobs[cur] \in Rec
        /\ Stage(task, jobs[cur]) /\ Honest(cur, jobs[cur])
        /\ faults \in 0..MaxFaults /\ MaxFaults \in Nat /\ MaxSources \in Nat
        /\ \A i \in DOMAIN log :
              log[i].job = cur => log[i].rec.status \notin Terminal
    BY <1>2, ResearchAssumption
       DEF Worker, Collected, CollectTimedOut, CollectRaised, NothingFound,
           FilesWritten, FilesNotWritten, IngestRefused, IngestRaised,
           BridgeMerged, ManifestSaved, Reloaded, ReloadRaised, Finished,
           JobCrashed, Busy, ScheduledOnce, HandsOK, AnswersOK, TypeOK,
           LinesOK, Open
  <2>. DEFINE failed == [jobs[cur] EXCEPT !.status = "failed"]
  <2>2. failed \in Rec /\ failed.status = "failed" /\ Honest(cur, failed)
    <3>1. "failed" \in Status
      BY DEF Status
    <3>2. failed \in Rec /\ failed.status = "failed"
      BY <2>1, <3>1, SetStatus
    <3>. QED  BY <3>2 DEF Honest
  <2>3. ASSUME NEW onError \in {"except", "dead"}, Update(failed, "idle", onError)
        PROVE  IInv'
    <3>. HIDE DEF failed
    <3>. QED  BY <2>1, <2>2, <2>3, UpdateStep DEF Terminal, Busy
  <2>4. CASE Collected
    <3>1. PICK n \in 0..MaxSources :
             Update([jobs[cur] EXCEPT !.planned = n],
                    IF n = 0 THEN "empty" ELSE "files", "except")
      BY <2>4 DEF Collected
    <3>. DEFINE r == [jobs[cur] EXCEPT !.planned = n]
                next == IF n = 0 THEN "empty" ELSE "files"
    <3>2. /\ r \in Rec /\ r.status = "running" /\ r.fetched = 0 /\ r.planned = n
          /\ cur \notin merged
      BY <2>1, <2>4 DEF Collected, Stage, Rec, MergedAtMostOnce
    <3>3. next \in Busy \ {"except"} /\ next # "idle" /\ (next = "empty" => n = 0)
      BY DEF Busy
    <3>4. Stage(next, r) /\ Honest(cur, r)
      BY <3>2, <3>3 DEF Stage, Honest
    <3>. HIDE DEF r
    <3>. QED  BY <2>1, <3>1, <3>2, <3>3, <3>4, UpdateStep DEF r
  <2>5. CASE CollectTimedOut \/ IngestRefused
    BY <2>3, <2>5 DEF CollectTimedOut, IngestRefused
  <2>6. CASE JobCrashed
    BY <2>3, <2>6 DEF JobCrashed
  <2>7. CASE NothingFound
    <3>. DEFINE r == [jobs[cur] EXCEPT !.status = "completed", !.added = FALSE]
    <3>1. /\ r \in Rec /\ r.status = "completed" /\ r.added = FALSE
          /\ r.fetched = 0 /\ r.planned = 0 /\ cur \notin merged
      <4>1. "completed" \in Status
        BY DEF Status
      <4>2. r \in Rec /\ r.status = "completed" /\ r.added = FALSE
            /\ r.fetched = jobs[cur].fetched /\ r.planned = jobs[cur].planned
        BY <2>1, <4>1 DEF Rec
      <4>3. jobs[cur].fetched = 0 /\ jobs[cur].planned = 0 /\ cur \notin merged
        BY <2>1, <2>7 DEF NothingFound, Stage, MergedAtMostOnce
      <4>. HIDE DEF r
      <4>. QED  BY <4>2, <4>3
    <3>2. Update(r, "idle", "except")
      BY <2>7 DEF NothingFound
    <3>. HIDE DEF r
    <3>3. Honest(cur, r)
      <4>1. (cur \in merged) = FALSE
        BY <3>1
      <4>2. r.added = (cur \in merged) /\ r.fetched = r.planned
        BY <3>1, <4>1
      <4>. QED  BY <4>2 DEF Honest
    <3>. QED  BY <2>1, <3>1, <3>2, <3>3, UpdateStep DEF Terminal, Busy
  <2>8. CASE FilesWritten
    <3>. DEFINE r == [jobs[cur] EXCEPT !.fetched = jobs[cur].planned]
    <3>1. /\ r \in Rec /\ r.status = "running" /\ r.fetched = r.planned
          /\ cur \notin merged
      BY <2>1, <2>8 DEF FilesWritten, Stage, Rec, MergedAtMostOnce
    <3>2. Honest(cur, r) /\ Stage("ingest", r)
      BY <3>1 DEF Honest, Stage
    <3>3. Update(r, "ingest", "except")
      BY <2>8 DEF FilesWritten
    <3>. HIDE DEF r
    <3>. QED  BY <2>1, <3>1, <3>2, <3>3, UpdateStep DEF Busy
  <2>9. CASE Finished
    <3>. DEFINE r == [jobs[cur] EXCEPT !.status = "completed",
                                       !.added = cur \in merged]
    <3>1. /\ r \in Rec /\ r.status = "completed" /\ r.added = (cur \in merged)
          /\ r.fetched = r.planned
      <4>. DEFINE b == cur \in merged
      <4>1. "completed" \in Status /\ b \in BOOLEAN
        BY DEF Status
      <4>. HIDE DEF b
      <4>2. LET q == [jobs[cur] EXCEPT !.status = "completed", !.added = b]
            IN  /\ q \in Rec /\ q.status = "completed" /\ q.added = b
                /\ q.fetched = jobs[cur].fetched /\ q.planned = jobs[cur].planned
        BY <2>1, <4>1 DEF Rec
      <4>3. jobs[cur].fetched = jobs[cur].planned
        BY <2>1, <2>9 DEF Finished, Stage
      <4>. QED  BY <4>2, <4>3 DEF b
    <3>2. Honest(cur, r)
      BY <3>1 DEF Honest
    <3>3. Update(r, "idle", "except")
      BY <2>9 DEF Finished
    <3>. HIDE DEF r
    <3>. QED  BY <2>1, <3>1, <3>2, <3>3, UpdateStep DEF Terminal, Busy
  <2>10. CASE CollectRaised \/ IngestRaised \/ ReloadRaised \/ Reloaded
    <3>1. /\ task' \in {"except", "finish"}
          /\ task' = "finish" => task = "reload"
          /\ UNCHANGED <<cur, queue, store, merged, accepted, stranded, crashes>>
      BY <2>10 DEF CollectRaised, IngestRaised, ReloadRaised, Reloaded, Goto
    <3>2. Stage(task', jobs[cur])
      BY <2>1, <3>1 DEF Stage
    <3>. QED  BY <2>1, <3>1, <3>2, WorkerMovesStep DEF store, Busy
  <2>11. CASE FilesNotWritten
    <3>1. faults' \in 0..MaxFaults
      BY <2>1, <2>11 DEF FilesNotWritten
    <3>. QED  BY <2>1, <2>11, <3>1, WorkerMovesStep DEF FilesNotWritten, Stage, Busy
  <2>12. CASE BridgeMerged
    <3>1. Stage("merged", jobs[cur])
      BY <2>1, <2>12 DEF BridgeMerged, Stage
    <3>. QED  BY <2>1, <2>12, <3>1, WorkerMovesStep DEF BridgeMerged, Busy, store
  <2>13. CASE ManifestSaved
    <3>1. faults' \in 0..MaxFaults
      BY <2>1, <2>13 DEF ManifestSaved, Goto, store
    <3>2. Stage(task', jobs[cur]) /\ task' \in {"reload", "except"}
      BY <2>1, <2>13 DEF ManifestSaved, Goto, Stage
    <3>. QED  BY <2>1, <2>13, <3>1, <3>2, WorkerMovesStep
              DEF ManifestSaved, Goto, store, Busy
  <2>. QED  BY <1>2, <2>4, <2>5, <2>6, <2>7, <2>8, <2>9, <2>10, <2>11,
               <2>12, <2>13 DEF Worker
<1>. QED  BY <1>1, <1>2

-----------------------------------------------------------------------------
(* The theorems.                                                            *)

LEMMA NextIInv == IInv /\ [Next]_vars => IInv'
<1>1. ASSUME IInv, Next PROVE IInv'
  BY <1>1, StartResearchStep, WorkerStep, KilledStep, RestartStep DEF Next
<1>2. ASSUME IInv, UNCHANGED vars PROVE IInv'
  BY <1>2 DEF IInv, vars, TypeOK, ScheduledOnce, MergedAtMostOnce,
              FinishedLineIsLast, HandsOK, LinesOK, AnswersOK, InQueue, Open,
              Honest, Stage
<1>. QED  BY <1>1, <1>2

\* The inductive invariant holds in every reachable state of the service.
THEOREM Inductive == Spec => []IInv
BY InitIInv, NextIInv, PTL DEF Spec

\* Every variable of the service keeps its type.
THEOREM TypeCorrect == Spec => []TypeOK
<1>1. IInv => TypeOK
  BY DEF IInv
<1>. QED  BY <1>1, Inductive, PTL

\* No job is queued twice, lost from the queue, or run beside another.
THEOREM Scheduling == Spec => []ScheduledOnce
<1>1. IInv => ScheduledOnce
  BY DEF IInv
<1>. QED  BY <1>1, Inductive, PTL

\* No job merges its clusters twice, across any number of restarts.
THEOREM MergingOnce == Spec => []MergedAtMostOnce
<1>1. IInv => MergedAtMostOnce
  BY DEF IInv
<1>. QED  BY <1>1, Inductive, PTL

\* A completed job tells the truth, in RAM and on disk.
THEOREM Truthful == Spec => []CompletedIsTrue
<1>1. IInv => CompletedIsTrue
  BY DEF IInv, CompletedIsTrue, AnswersOK, LinesOK, Honest
<1>. QED  BY <1>1, Inductive, PTL

\* No replay of the file can reopen a finished job.
THEOREM FinishedIsFinal == Spec => []FinishedLineIsLast
<1>1. IInv => FinishedLineIsLast
  BY DEF IInv
<1>. QED  BY <1>1, Inductive, PTL

-----------------------------------------------------------------------------
(* What a status does: an action property.                                  *)

LEMMA RankValues ==
    /\ Rank["absent"] = 0 /\ Rank["queued"] = 1 /\ Rank["running"] = 2
    /\ Rank["completed"] = 3 /\ Rank["failed"] = 3
    /\ \A s \in Status \cup {"absent"} : Rank[s] \in 0..3
BY DEF Rank, Status

\* One record written by Saved or NotSaved; every other one stays.
LEMMA OneRecord ==
    ASSUME IInv, NEW j \in Jobs, NEW r,
           jobs' = [jobs EXCEPT ![j] = r],
           Rank[jobs[j].status] <= Rank[r.status],
           jobs[j].status \in Terminal => task = "except" /\ j = cur
    PROVE  \A k \in Jobs :
              /\ Rank[jobs[k].status] <= Rank[jobs'[k].status]
              /\ jobs[k].status \in Terminal /\ ~(task = "except" /\ k = cur)
                    => jobs'[k] = jobs[k]
<1>. SUFFICES ASSUME NEW k \in Jobs
              PROVE  /\ Rank[jobs[k].status] <= Rank[jobs'[k].status]
                     /\ jobs[k].status \in Terminal /\ ~(task = "except" /\ k = cur)
                           => jobs'[k] = jobs[k]
  OBVIOUS
<1>1. jobs \in [Jobs -> Rec]
  BY DEF IInv, TypeOK
<1>2. CASE k = j
  BY <1>1, <1>2
<1>3. CASE k # j
  <2>1. jobs'[k] = jobs[k] /\ jobs[k].status \in Status \cup {"absent"}
    BY <1>1, <1>3 DEF Rec
  <2>. QED  BY <2>1, RankValues
<1>. QED  BY <1>2, <1>3

\* The worker's updates: of the job in its hands, which is running unless the
\* append that finished it is the one that failed.
LEMMA UpdateAdvances ==
    ASSUME IInv, task \in Busy, NEW r, NEW next, NEW onError,
           Update(r, next, onError), task' # "down",
           r.status \in {"running", "completed", "failed"},
           task = "except" => r.status = "failed"
    PROVE  \A j \in Jobs :
              /\ Rank[jobs[j].status] <= Rank[jobs'[j].status]
              /\ jobs[j].status \in Terminal /\ ~(task = "except" /\ j = cur)
                    => jobs'[j] = jobs[j]
<1>1. cur \in Jobs /\ jobs' = [jobs EXCEPT ![cur] = r]
  BY DEF IInv, ScheduledOnce, Update, KilledWriting, Down, Saved, NotSaved
<1>2. jobs[cur].status \in Status \cup {"absent"}
  BY <1>1 DEF IInv, TypeOK, Rec
<1>3. task # "except" => jobs[cur].status = "running"
  BY DEF IInv, HandsOK, Stage
<1>4. Rank[jobs[cur].status] <= Rank[r.status]
  BY <1>2, <1>3, RankValues
<1>. QED  BY <1>1, <1>3, <1>4, OneRecord DEF Terminal

LEMMA AdvanceStep ==
    ASSUME IInv, Next, task # "down", task' # "down"
    PROVE  \A j \in Jobs :
              /\ Rank[jobs[j].status] <= Rank[jobs'[j].status]
              /\ jobs[j].status \in Terminal /\ ~(task = "except" /\ j = cur)
                    => jobs'[j] = jobs[j]
<1>1. ASSUME NEW j \in Jobs, StartResearch(j)
      PROVE  jobs' = [jobs EXCEPT ![j] = NewJob] /\ jobs[j] = NoJob
  BY <1>1 DEF StartResearch, Saved, NotSaved, KilledWriting, Down
<1>2. CASE \E j \in Jobs : StartResearch(j)
  <2>1. PICK j \in Jobs : StartResearch(j)
    BY <1>2
  <2>2. jobs' = [jobs EXCEPT ![j] = NewJob] /\ jobs[j] = NoJob
    BY <1>1, <2>1
  <2>3. /\ Rank[jobs[j].status] <= Rank[NewJob.status]
        /\ jobs[j].status \notin Terminal
    BY <2>2, RecTypes, RankValues DEF Terminal
  <2>. QED  BY <2>2, <2>3, OneRecord
<1>3. CASE Dequeue
  <2>. DEFINE j == Head(queue)
  <2>1. j \in Jobs /\ InQueue(j)
    BY <1>3 DEF Dequeue, IInv, TypeOK, InQueue
  <2>2. /\ jobs' = [jobs EXCEPT ![j] = [jobs[j] EXCEPT !.status = "running"]]
        /\ jobs[j] = NewJob
    BY <1>3, <2>1 DEF Dequeue, Saved, NotSaved, KilledWriting, Down, IInv, HandsOK
  <2>3. [jobs[j] EXCEPT !.status = "running"].status = "running"
    BY <2>2 DEF NewJob
  <2>4. /\ Rank[jobs[j].status] <= Rank[[jobs[j] EXCEPT !.status = "running"].status]
        /\ jobs[j].status \notin Terminal
    BY <2>2, <2>3, RecTypes, RankValues DEF Terminal
  <2>. HIDE DEF j
  <2>. QED  BY <2>1, <2>2, <2>4, OneRecord
<1>4. CASE Worker /\ ~Dequeue
  <2>1. /\ task \in Busy /\ cur \in Jobs /\ jobs[cur] \in Rec
        /\ task # "except" => jobs[cur].status = "running"
    BY <1>4 DEF Worker, Collected, CollectTimedOut, CollectRaised, NothingFound,
         FilesWritten, FilesNotWritten, IngestRefused, IngestRaised, BridgeMerged,
         ManifestSaved, Reloaded, ReloadRaised, Finished, JobCrashed, Busy, IInv,
         ScheduledOnce, TypeOK, HandsOK, Stage
  <2>2. CASE Collected
    <3>1. PICK n \in 0..MaxSources :
            Update([jobs[cur] EXCEPT !.planned = n],
                   IF n = 0 THEN "empty" ELSE "files", "except")
      BY <2>2 DEF Collected
    <3>2. [jobs[cur] EXCEPT !.planned = n].status = "running" /\ task = "collect"
      BY <2>1, <2>2 DEF Collected, Rec
    <3>. QED  BY <2>1, <3>1, <3>2, UpdateAdvances
  <2>3. CASE CollectTimedOut \/ IngestRefused \/ JobCrashed
    <3>1. [jobs[cur] EXCEPT !.status = "failed"].status = "failed"
      BY <2>1 DEF Rec
    <3>. QED  BY <2>1, <2>3, <3>1, UpdateAdvances
              DEF CollectTimedOut, IngestRefused, JobCrashed
  <2>4. CASE NothingFound
    <3>1. [jobs[cur] EXCEPT !.status = "completed", !.added = FALSE].status = "completed"
      BY <2>1 DEF Rec
    <3>. QED  BY <2>1, <2>4, <3>1, UpdateAdvances DEF NothingFound
  <2>5. CASE FilesWritten
    <3>1. [jobs[cur] EXCEPT !.fetched = jobs[cur].planned].status = "running"
      BY <2>1, <2>5 DEF FilesWritten, Rec
    <3>. QED  BY <2>1, <2>5, <3>1, UpdateAdvances DEF FilesWritten
  <2>6. CASE Finished
    <3>. DEFINE b == cur \in merged
    <3>. HIDE DEF b
    <3>1. [jobs[cur] EXCEPT !.status = "completed", !.added = b].status = "completed"
      BY <2>1 DEF Rec
    <3>. QED  BY <2>1, <2>6, <3>1, UpdateAdvances DEF Finished, b
  <2>7. CASE jobs' = jobs
    <3>1. \A j \in Jobs : jobs[j].status \in Status \cup {"absent"}
      BY DEF IInv, TypeOK, Rec
    <3>. QED  BY <2>7, <3>1, RankValues
  <2>. QED  BY <1>4, <2>2, <2>3, <2>4, <2>5, <2>6, <2>7
            DEF Worker, CollectRaised, FilesNotWritten, IngestRaised, BridgeMerged,
                ManifestSaved, Reloaded, ReloadRaised, Goto, store
<1>. QED  BY <1>2, <1>3, <1>4 DEF Next, Killed, Down, Restart

\* No status of a living process goes back, and a finished record stays as it
\* is, disk errors and exceptions of every stage included.
THEOREM StatusAdvances == Spec => StatusOnlyAdvances
<1>1. IInv /\ [Next]_vars =>
        [task # "down" /\ task' # "down" =>
           \A j \in Jobs :
              /\ Rank[jobs[j].status] <= Rank[jobs'[j].status]
              /\ jobs[j].status \in Terminal /\ ~(task = "except" /\ j = cur)
                    => jobs'[j] = jobs[j]]_vars
  BY AdvanceStep
<1>. QED  BY <1>1, Inductive, PTL DEF Spec, StatusOnlyAdvances

-----------------------------------------------------------------------------
(* While no append fails or is cut short: RAM and file agree.               *)

SoundDisk == MaxFaults = 0 /\ ~TornWrites

\* What a sound disk adds to the inductive invariant.
Synced ==
    /\ tail = "clean" /\ task # "dead"
    /\ task # "down" => jobs = Replay
    /\ task = "except" => jobs[cur].status = "running"

\* A line at the end of a file is what a replay takes for its job, and no
\* other job notices.
LEMMA ReplayAppend ==
    ASSUME TypeOK, NEW j \in Jobs, NEW r \in Rec,
           log' = Append(log, [job |-> j, rec |-> r])
    PROVE  Replay' = [Replay EXCEPT ![j] = r]
<1>. DEFINE at(k) == {i \in DOMAIN log : log[i].job = k}
            line == [job |-> j, rec |-> r]
            n == Len(log)
<1>1. /\ log \in Seq(Line) /\ n \in Nat /\ DOMAIN log = 1..n /\ line \in Line
      /\ log' \in Seq(Line) /\ Len(log') = n + 1
      /\ DOMAIN log' = 1..(n + 1)
  BY DEF TypeOK, Line
<1>2. /\ \A i \in 1..n : log'[i] = log[i]
      /\ log'[n + 1] = line
  BY <1>1
<1>3. line.job = j /\ line.rec = r
  OBVIOUS
<1>. HIDE DEF line
<1>. SUFFICES ASSUME NEW k \in Jobs PROVE Replay'[k] = [Replay EXCEPT ![j] = r][k]
  BY DEF Replay
<1>4. Replay[k] = IF at(k) = {} THEN NoJob ELSE log[Max(at(k))].rec
  BY DEF Replay
<1>5. Replay'[k] = IF at(k)' = {} THEN NoJob ELSE log'[Max(at(k)')].rec
  BY DEF Replay
<1>6. CASE k = j
  <2>1. n + 1 \in at(k)' /\ \A i \in at(k)' : i <= n + 1 /\ i \in Nat
    BY <1>1, <1>2, <1>3, <1>6
  <2>2. Max(at(k)') = n + 1
    <3>1. \A m \in at(k)' : m >= n + 1 => m = n + 1
      BY <2>1, <1>1
    <3>. QED  BY <2>1, <3>1, <1>1 DEF Max
  <2>3. Replay'[k] = r
    BY <1>2, <1>3, <1>5, <2>1, <2>2
  <2>. QED  BY <1>6, <2>3 DEF Replay
<1>7. CASE k # j
  <2>1. at(k)' = at(k)
    BY <1>1, <1>2, <1>3, <1>7
  <2>2. Replay'[k] = IF at(k) = {} THEN NoJob ELSE log'[Max(at(k))].rec
    BY <1>5, <2>1
  <2>3. ASSUME at(k) # {} PROVE Max(at(k)) \in at(k)
    <3>1. at(k) \in SUBSET Nat /\ \A i \in at(k) : i <= n
      BY <1>1
    <3>. QED  BY <1>1, <2>3, <3>1, MaxIsIn
  <2>4. Replay'[k] = Replay[k]
    BY <1>1, <1>2, <1>4, <2>2, <2>3
  <2>. QED  BY <1>7, <2>4 DEF Replay
<1>. QED  BY <1>6, <1>7

LEMMA SavedSyncs ==
    ASSUME IInv, Synced, task # "down", NEW j \in Jobs, NEW r \in Rec, Saved(j, r)
    PROVE  /\ tail' = "clean" /\ jobs' = Replay'
           /\ Replay' = [Replay EXCEPT ![j] = r]
BY ReplayAppend DEF Saved, Synced, IInv

\* The record an update writes, whatever the stage.
LEMMA UpdateSyncs ==
    ASSUME SoundDisk, IInv, Synced, task \in Busy, NEW r \in Rec,
           NEW next \in (Busy \ {"except"}) \cup {"idle"}, NEW onError,
           Update(r, next, onError)
    PROVE  /\ Synced' /\ cur \in Jobs /\ task # "down" /\ task' = next
           /\ Replay' = [Replay EXCEPT ![cur] = r]
           /\ cur' = IF next \in Busy THEN cur ELSE None
           /\ UNCHANGED <<queue, merged, stranded>>
<1>1. faults = 0 /\ MaxFaults = 0 /\ ~TornWrites /\ cur \in Jobs /\ task # "down"
  BY DEF SoundDisk, IInv, TypeOK, ScheduledOnce, Busy
<1>2. Saved(cur, r) /\ task' = next
  BY <1>1 DEF Update, NotSaved, KilledWriting
<1>3. task' # "dead" /\ task' # "down" /\ task' # "except"
  BY <1>2 DEF Busy
<1>4. /\ cur' = IF next \in Busy THEN cur ELSE None
      /\ UNCHANGED <<queue, merged, stranded>>
  BY <1>1, <1>2 DEF Update, KilledWriting
<1>. QED  BY <1>1, <1>2, <1>3, <1>4, SavedSyncs DEF Synced

\* The worker, once it holds a job: it records a running or a finished status,
\* or it moves on and at most publishes.
WorkerRecords ==
    \E r \in Rec :
       /\ r.status \in {"running", "completed", "failed"}
       /\ task' \in Busy <=> r.status = "running"
       /\ Replay' = [Replay EXCEPT ![cur] = r]
       /\ UNCHANGED <<queue, merged, stranded>>

WorkerMoves ==
    /\ task' \in Busy
    /\ UNCHANGED <<queue, log, jobs, stranded>>
    /\ merged' = merged \/ (task = "ingest" /\ merged' = merged \cup {cur})

LEMMA WorkerSyncs ==
    ASSUME SoundDisk, IInv, Synced, Worker, ~Dequeue
    PROVE  /\ Synced' /\ task \in Busy /\ task' # "down"
           /\ cur \in Jobs /\ jobs[cur].status = "running"
           /\ WorkerRecords \/ WorkerMoves
<1>1. /\ task \in Busy /\ cur \in Jobs /\ jobs[cur] \in Rec /\ task # "down"
      /\ jobs[cur].status = "running" /\ faults = 0 /\ MaxFaults = 0
  BY DEF Worker, Collected, CollectTimedOut, CollectRaised, NothingFound,
       FilesWritten, FilesNotWritten, IngestRefused, IngestRaised, BridgeMerged,
       ManifestSaved, Reloaded, ReloadRaised, Finished, JobCrashed, Busy, IInv,
       ScheduledOnce, TypeOK, HandsOK, Stage, Synced, SoundDisk
<1>2. ASSUME NEW r \in Rec, NEW next \in (Busy \ {"except"}) \cup {"idle"}, NEW onError,
             Update(r, next, onError), r.status \in {"running", "completed", "failed"},
             next \in Busy <=> r.status = "running"
      PROVE  Synced' /\ task' # "down" /\ WorkerRecords
  <2>1. /\ Synced' /\ task' = next /\ Replay' = [Replay EXCEPT ![cur] = r]
        /\ UNCHANGED <<queue, merged, stranded>>
    BY <1>1, <1>2, UpdateSyncs
  <2>. QED  BY <1>2, <2>1 DEF WorkerRecords, Busy
<1>3. CASE Collected
  <2>1. PICK n \in 0..MaxSources :
          Update([jobs[cur] EXCEPT !.planned = n],
                 IF n = 0 THEN "empty" ELSE "files", "except")
    BY <1>3 DEF Collected
  <2>. DEFINE r == [jobs[cur] EXCEPT !.planned = n]
              next == IF n = 0 THEN "empty" ELSE "files"
  <2>2. r \in Rec /\ r.status = "running"
    BY <1>1 DEF Rec
  <2>3. next \in Busy \ {"except"} /\ Update(r, next, "except")
    BY <2>1 DEF Busy
  <2>. HIDE DEF r, next
  <2>. QED  BY <1>1, <1>2, <2>2, <2>3
<1>4. CASE CollectTimedOut \/ IngestRefused \/ JobCrashed
  <2>. DEFINE r == [jobs[cur] EXCEPT !.status = "failed"]
  <2>1. r \in Rec /\ r.status = "failed"
    BY <1>1 DEF Rec, Status
  <2>2. \E onError : Update(r, "idle", onError)
    BY <1>4 DEF CollectTimedOut, IngestRefused, JobCrashed
  <2>. HIDE DEF r
  <2>. QED  BY <1>1, <1>2, <2>1, <2>2 DEF Busy
<1>5. CASE NothingFound
  <2>. DEFINE r == [jobs[cur] EXCEPT !.status = "completed", !.added = FALSE]
  <2>1. r \in Rec /\ r.status = "completed"
    BY <1>1 DEF Rec, Status
  <2>2. Update(r, "idle", "except")
    BY <1>5 DEF NothingFound
  <2>. HIDE DEF r
  <2>. QED  BY <1>1, <1>2, <2>1, <2>2 DEF Busy
<1>6. CASE FilesWritten
  <2>. DEFINE r == [jobs[cur] EXCEPT !.fetched = jobs[cur].planned]
  <2>1. r \in Rec /\ r.status = "running"
    BY <1>1 DEF Rec
  <2>2. Update(r, "ingest", "except") /\ "ingest" \in Busy \ {"except"}
    BY <1>6 DEF FilesWritten, Busy
  <2>. HIDE DEF r
  <2>. QED  BY <1>1, <1>2, <2>1, <2>2
<1>7. CASE Finished
  <2>. DEFINE b == cur \in merged
              r == [jobs[cur] EXCEPT !.status = "completed", !.added = b]
  <2>1. b \in BOOLEAN /\ Update(r, "idle", "except")
    BY <1>7 DEF Finished
  <2>. HIDE DEF b
  <2>2. r \in Rec /\ r.status = "completed"
    BY <1>1, <2>1 DEF Rec, Status
  <2>. HIDE DEF r
  <2>. QED  BY <1>1, <1>2, <2>1, <2>2 DEF Busy
<1>8. CASE CollectRaised \/ IngestRaised \/ ReloadRaised \/ Reloaded
           \/ BridgeMerged \/ ManifestSaved \/ FilesNotWritten
  <2>1. /\ task' \in Busy /\ UNCHANGED <<cur, queue, jobs, log, tail, stranded>>
        /\ merged' = merged \/ (task = "ingest" /\ merged' = merged \cup {cur})
    BY <1>1, <1>8 DEF CollectRaised, IngestRaised, ReloadRaised, Reloaded,
         BridgeMerged, ManifestSaved, FilesNotWritten, Goto, store, Busy
  <2>2. Replay' = Replay
    BY <2>1 DEF Replay
  <2>. QED  BY <1>1, <2>1, <2>2 DEF Synced, WorkerMoves, Busy
<1>. QED  BY <1>1, <1>3, <1>4, <1>5, <1>6, <1>7, <1>8 DEF Worker

-----------------------------------------------------------------------------
(* Every step of a service with a sound disk is one of the abstract service. *)

\* What phaseBar says of a job, from the file alone.
LEMMA PhaseIs ==
    ASSUME Synced, NEW j \in Jobs
    PROVE  phaseBar[j] =
             IF /\ Replay[j].status \in {"queued", "running"}
                /\ task = "down" \/ j \in stranded
             THEN "abandoned" ELSE Replay[j].status
BY DEF phaseBar, Phase, Synced

LEMMA PhaseWillBe ==
    ASSUME Synced', NEW j \in Jobs
    PROVE  phaseBar'[j] =
             IF /\ Replay'[j].status \in {"queued", "running"}
                /\ task' = "down" \/ j \in stranded'
             THEN "abandoned" ELSE Replay'[j].status
BY DEF phaseBar, Phase, Synced

LEMMA PhaseIsFcn == phaseBar = [j \in Jobs |-> phaseBar[j]]
BY DEF phaseBar

\* Nothing the abstract service knows of has changed.
LEMMA Stutters ==
    ASSUME Synced, Synced', UNCHANGED <<queue, merged>>,
           \A j \in Jobs : phaseBar'[j] = phaseBar[j]
    PROVE  UNCHANGED Service!svcVars
<1>1. phaseBar' = phaseBar
  BY PhaseIsFcn DEF phaseBar
<1>. QED  BY <1>1 DEF Service!svcVars

LEMMA InitSims == Init => Synced /\ Service!SvcInit
<1>. SUFFICES ASSUME Init PROVE Synced /\ Service!SvcInit
  OBVIOUS
<1>1. Replay = [j \in Jobs |-> NoJob]
  BY DEF Init, Replay
<1>2. Synced
  BY <1>1 DEF Init, Synced
<1>3. \A j \in Jobs : phaseBar[j] = "absent"
  BY <1>1, <1>2, PhaseIs, RecTypes
<1>4. phaseBar = [j \in Jobs |-> "absent"]
  BY <1>3, PhaseIsFcn
<1>. QED  BY <1>2, <1>4 DEF Init, Service!SvcInit

LEMMA StartSims ==
    ASSUME SoundDisk, IInv, Synced, NEW j \in Jobs, StartResearch(j)
    PROVE  Synced' /\ Service!Accept(j)
<1>1. /\ Saved(j, NewJob) /\ queue' = Append(queue, j)
      /\ UNCHANGED <<task, cur, merged, stranded>>
  BY DEF SoundDisk, IInv, TypeOK, StartResearch, NotSaved, KilledWriting
<1>2. /\ task # "down" /\ task # "except" /\ jobs[j] = NoJob /\ Replay[j] = NoJob
      /\ j \notin stranded
  BY RecTypes DEF StartResearch, Awaits, IInv, HandsOK
<1>3. /\ tail' = "clean" /\ jobs' = Replay' /\ Replay' = [Replay EXCEPT ![j] = NewJob]
  BY <1>1, <1>2, SavedSyncs, RecTypes
<1>4. Synced'
  BY <1>1, <1>2, <1>3 DEF Synced
<1>5. \A k \in Jobs : Replay'[k] = IF k = j THEN NewJob ELSE Replay[k]
  BY <1>3 DEF Replay
<1>6. phaseBar[j] = "absent" /\ phaseBar'[j] = "queued"
  BY <1>1, <1>2, <1>4, <1>5, PhaseIs, PhaseWillBe, RecTypes
<1>7. \A k \in Jobs \ {j} : phaseBar'[k] = phaseBar[k]
  BY <1>1, <1>4, <1>5, PhaseIs, PhaseWillBe
<1>8. phaseBar' = [phaseBar EXCEPT ![j] = "queued"]
  BY <1>6, <1>7, PhaseIsFcn DEF phaseBar
<1>. QED  BY <1>1, <1>4, <1>6, <1>8 DEF Service!Accept

LEMMA DequeueSims ==
    ASSUME SoundDisk, IInv, Synced, Dequeue
    PROVE  Synced' /\ Service!Begin
<1>. DEFINE j == Head(queue)
            r == [jobs[j] EXCEPT !.status = "running"]
<1>1. j \in Jobs /\ InQueue(j) /\ queue # <<>> /\ task = "idle"
  BY DEF Dequeue, IInv, TypeOK, InQueue
<1>2. /\ jobs[j] = NewJob /\ Replay[j] = NewJob /\ j \notin stranded
      /\ r \in Rec /\ r.status = "running"
  BY <1>1, RecTypes DEF IInv, HandsOK, ScheduledOnce, Synced, Rec, Status
<1>3. /\ Saved(j, r) /\ task' = "collect" /\ cur' = j /\ queue' = Tail(queue)
      /\ UNCHANGED <<merged, stranded>>
  BY DEF SoundDisk, IInv, TypeOK, Dequeue, NotSaved, KilledWriting
<1>4. /\ tail' = "clean" /\ jobs' = Replay' /\ Replay' = [Replay EXCEPT ![j] = r]
  BY <1>1, <1>2, <1>3, SavedSyncs
<1>5. Synced'
  BY <1>3, <1>4 DEF Synced
<1>6. \A k \in Jobs : Replay'[k] = IF k = j THEN r ELSE Replay[k]
  BY <1>4 DEF Replay
<1>7. phaseBar'[j] = "running"
  BY <1>1, <1>2, <1>3, <1>5, <1>6, PhaseIs, PhaseWillBe
<1>8. \A k \in Jobs \ {j} : phaseBar'[k] = phaseBar[k]
  BY <1>1, <1>3, <1>5, <1>6, PhaseIs, PhaseWillBe
<1>9. \A k \in Jobs : phaseBar[k] # "running"
  <2>. SUFFICES ASSUME NEW k \in Jobs, phaseBar[k] = "running" PROVE FALSE
    OBVIOUS
  <2>1. Replay[k].status = "running" /\ k \notin stranded /\ jobs = Replay
    BY <1>1, PhaseIs DEF Synced
  <2>2. cur = None /\ None \notin Jobs
    BY <1>1, ResearchAssumption DEF IInv, HandsOK, Busy
  <2>. QED  BY <2>1, <2>2 DEF IInv, ScheduledOnce
<1>10. phaseBar' = [phaseBar EXCEPT ![j] = "running"]
  BY <1>7, <1>8, PhaseIsFcn DEF phaseBar
<1>. QED  BY <1>1, <1>3, <1>5, <1>9, <1>10 DEF Service!Begin

LEMMA WorkerSims ==
    ASSUME SoundDisk, IInv, Synced, Worker, ~Dequeue
    PROVE  /\ Synced'
           /\ \/ Service!Publish(cur) \/ Service!End(cur)
              \/ UNCHANGED Service!svcVars
<1>1. /\ Synced' /\ task \in Busy /\ task' # "down" /\ task # "down"
      /\ cur \in Jobs /\ jobs[cur].status = "running" /\ jobs = Replay
      /\ cur \notin stranded
  BY WorkerSyncs DEF Synced, Busy, IInv, ScheduledOnce
<1>2. phaseBar[cur] = "running"
  BY <1>1, PhaseIs
<1>3. CASE WorkerRecords
  <2>1. PICK r \in Rec :
          /\ r.status \in {"running", "completed", "failed"}
          /\ Replay' = [Replay EXCEPT ![cur] = r]
          /\ UNCHANGED <<queue, merged, stranded>>
    BY <1>3 DEF WorkerRecords
  <2>2. \A k \in Jobs : Replay'[k] = IF k = cur THEN r ELSE Replay[k]
    BY <2>1 DEF Replay
  <2>3. phaseBar'[cur] = r.status
    BY <1>1, <2>1, <2>2, PhaseIs, PhaseWillBe
  <2>4. \A k \in Jobs \ {cur} : phaseBar'[k] = phaseBar[k]
    BY <1>1, <2>1, <2>2, PhaseIs, PhaseWillBe
  <2>5. phaseBar' = [phaseBar EXCEPT ![cur] = r.status]
    BY <2>3, <2>4, PhaseIsFcn DEF phaseBar
  <2>6. CASE r.status = "running"
    BY <1>1, <1>2, <2>1, <2>3, <2>4, <2>6, Stutters
  <2>7. CASE r.status # "running"
    <3>1. r.status \in {"completed", "failed"}
      BY <2>1, <2>7
    <3>2. phaseBar' \in {[phaseBar EXCEPT ![cur] = p] : p \in {"completed", "failed"}}
      BY <2>5, <3>1
    <3>. QED  BY <1>1, <1>2, <2>1, <3>2 DEF Service!End
  <2>. QED  BY <1>1, <2>6, <2>7
<1>4. CASE WorkerMoves
  <2>1. Replay' = Replay /\ UNCHANGED <<queue, stranded>>
    BY <1>4 DEF WorkerMoves, Replay
  <2>2. \A k \in Jobs : phaseBar'[k] = phaseBar[k]
    BY <1>1, <2>1, PhaseIs, PhaseWillBe
  <2>3. phaseBar' = phaseBar
    BY <2>2, PhaseIsFcn DEF phaseBar
  <2>4. CASE merged' = merged
    BY <1>1, <2>1, <2>2, <2>4, Stutters
  <2>5. CASE task = "ingest" /\ merged' = merged \cup {cur}
    <3>1. cur \notin merged
      BY <2>5 DEF IInv, MergedAtMostOnce
    <3>. QED  BY <1>1, <1>2, <2>1, <2>3, <2>5, <3>1 DEF Service!Publish
  <2>. QED  BY <1>4, <2>4, <2>5 DEF WorkerMoves
<1>. QED  BY <1>3, <1>4, WorkerSyncs

LEMMA KilledSims ==
    ASSUME IInv, Synced, Killed
    PROVE  Synced' /\ Service!Outage
<1>1. /\ task # "down" /\ task' = "down" /\ queue' = <<>> /\ jobs = Replay
      /\ UNCHANGED <<log, tail, merged>>
  BY DEF Killed, Down, Synced
<1>2. Synced' /\ Replay' = Replay
  BY <1>1 DEF Synced, Replay
<1>3. \A j \in Jobs : Replay[j].status \in Status \cup {"absent"}
  BY <1>1 DEF IInv, TypeOK, Rec
<1>4. \A j \in Jobs : phaseBar'[j] =
         IF phaseBar[j] \in {"queued", "running"} THEN "abandoned" ELSE phaseBar[j]
  BY <1>1, <1>2, <1>3, PhaseIs, PhaseWillBe DEF Status
<1>5. phaseBar' = [j \in Jobs |-> IF phaseBar[j] \in Service!Unfinished
                                  THEN "abandoned" ELSE phaseBar[j]]
  BY <1>4, PhaseIsFcn DEF phaseBar, Service!Unfinished
<1>. QED  BY <1>1, <1>2, <1>5 DEF Service!Outage

LEMMA RestartSims ==
    ASSUME IInv, Synced, Restart
    PROVE  Synced' /\ UNCHANGED Service!svcVars
<1>1. /\ task = "down" /\ task' = "idle" /\ jobs' = Replay
      /\ stranded' = {j \in Jobs : Replay[j].status \in {"queued", "running"}}
      /\ UNCHANGED <<queue, merged, log, tail>>
  BY DEF Restart
<1>2. Replay' = Replay
  BY <1>1 DEF Replay
<1>3. Synced'
  BY <1>1, <1>2 DEF Synced
<1>4. \A j \in Jobs : phaseBar'[j] = phaseBar[j]
  BY <1>1, <1>2, <1>3, PhaseIs, PhaseWillBe
<1>. QED  BY <1>1, <1>3, <1>4, Stutters

LEMMA NextSims ==
    ASSUME SoundDisk, IInv, Synced, [Next]_vars
    PROVE  Synced' /\ [Service!SvcNext]_(Service!svcVars)
<1>1. CASE UNCHANGED vars
  <2>1. Replay' = Replay /\ phaseBar' = phaseBar
    BY <1>1 DEF vars, Replay, phaseBar, Phase
  <2>. QED  BY <1>1, <2>1 DEF vars, Synced, Service!svcVars
<1>2. CASE \E j \in Jobs : StartResearch(j)
  BY <1>2, StartSims DEF Service!SvcNext
<1>3. CASE Worker
  <2>1. CASE Dequeue
    BY <2>1, DequeueSims DEF Service!SvcNext
  <2>2. CASE ~Dequeue
    BY <1>3, <2>2, WorkerSims, WorkerSyncs DEF Service!SvcNext
  <2>. QED  BY <2>1, <2>2
<1>4. CASE Killed
  BY <1>4, KilledSims DEF Service!SvcNext
<1>5. CASE Restart
  BY <1>5, RestartSims
<1>. QED  BY <1>1, <1>2, <1>3, <1>4, <1>5 DEF Next

LEMMA Sync == ASSUME SoundDisk PROVE Spec => [](IInv /\ Synced)
<1>1. Init => IInv /\ Synced
  BY InitIInv, InitSims
<1>2. IInv /\ Synced /\ [Next]_vars => (IInv /\ Synced)'
  BY NextIInv, NextSims
<1>. QED  BY <1>1, <1>2, PTL DEF Spec

\* On a sound disk, whatever a poll can be answered is in the file: a stop at
\* any await loses none of it.
THEOREM Durable == SoundDisk => (Spec => []AnswersAreDurable)
<1>. SUFFICES ASSUME SoundDisk PROVE Spec => []AnswersAreDurable
  OBVIOUS
<1>1. IInv /\ Synced => AnswersAreDurable
  BY DEF Synced, AnswersAreDurable, Awaits
<1>. QED  BY <1>1, Sync, PTL

\* On a sound disk, queue, file, worker and restarts implement the abstract
\* service: order of acceptance, one publication, final results, and an outage
\* that abandons exactly what is unfinished.
THEOREM ServiceImplemented == SoundDisk => (Spec => ImplementsService)
<1>. SUFFICES ASSUME SoundDisk PROVE Spec => ImplementsService
  OBVIOUS
<1>1. Init => Service!SvcInit
  BY InitSims
<1>2. IInv /\ Synced /\ [Next]_vars => [Service!SvcNext]_(Service!svcVars)
  BY NextSims
<1>. QED  BY <1>1, <1>2, Sync, PTL DEF Spec, ImplementsService, Service!SvcSpec
=============================================================================
