------------------------ MODULE PreparationJobsProofs ------------------------
(***************************************************************************)
(* What preparation leaves behind and what it says of it, for any number   *)
(* of jobs, Workspaces, requests, workers, deaths and restarts; and, where *)
(* every started process has its supervisor, who is at work.               *)
(***************************************************************************)
EXTENDS PreparationJobs, DataLemmas, NaturalsInduction, FiniteSetTheorems

---------------------------------------------------------------------------
(* Jobs are used once, and wait for their process before anything else.    *)
Used(j) == registry[j].status # "none"
Waiting == ToSet(pending) \cup stop.queued
Fresh(j) ==
  /\ child[j] = NoChild /\ events[j] = <<>> /\ verdict[j] = "none" /\ session[j] = "none"
  /\ j \notin workers /\ \A w \in Workspaces : chain[w].staging # j

Queued ==
  /\ OnceEach(pending) /\ ToSet(pending) \cap stop.queued = {}
  /\ stop.pc # "queue" => stop.queued = {}
  /\ \A j \in Waiting : Fresh(j) /\ registry[j].status = "QUEUED"
  /\ \A j \in Jobs : ~Used(j) => Fresh(j)
  /\ \A j \in workers : child[j].phase # "none"

(* Jobs are numbered as they are made, so that a Workspace has a last one. *)
Numbered ==
  /\ \E n \in 0 .. MaxJobs : \A j \in Jobs : Used(j) <=> j <= n
  /\ \A w \in Workspaces : JobsOf(w) # {} =>
       \E m \in JobsOf(w) : \A k \in JobsOf(w) : k <= m

(* Nobody has a mapping that is still to be made, and who restores has a   *)
(* result to restore.                                                      *)
Versioned ==
  /\ \A j \in Jobs : Used(j) => registry[j].mapping <= mapping[Home(j)]
  /\ \A r \in Requests :
       /\ request[r].pc # "off" => request[r].mapping <= mapping[request[r].workspace]
       /\ request[r].pc = "restore" => request[r].result \in Results

Filed == TypeOK /\ Queued /\ Numbered /\ Versioned

---------------------------------------------------------------------------
(* Evidence belongs to the current mapping.                                *)
Current ==
  \A w \in Workspaces : chain[w].staging # 0 =>
    Home(chain[w].staging) = w /\ registry[chain[w].staging].mapping = mapping[w]
Complete ==
  \A w \in Workspaces : chain[w].complete =>
    chain[w].staging # 0 /\ (w \in Duplicated => chain[w].review = "frozen")
Rooted == \A j \in Jobs : child[j].phase = "staged" => child[j].staging # 0

(* Whoever says or is about to say that a job succeeded has its evidence.  *)
Has(w, m) == m = mapping[w] => chain[w].complete
Succeeding(j) ==
  \/ registry[j].status = "SUCCEEDED" \/ verdict[j] = "SUCCEEDED"
  \/ child[j].phase \in {"normalized", "published"} \/ "succeeded" \in ToSet(events[j])
Saved ==
  /\ \A j \in Jobs : Succeeding(j) => Has(Home(j), registry[j].mapping)
  /\ \A r \in Requests : request[r].result = "SUCCEEDED" =>
       request[r].pc = "restore" /\ Has(request[r].workspace, request[r].mapping)

Evident == Current /\ Complete /\ Rooted /\ Saved

---------------------------------------------------------------------------
(* A job that a request found ended stays as it was found, or is of an     *)
(* older mapping.                                                          *)
SettledStatuses == {"SUCCEEDED", "REVIEW_REQUIRED", "EXITED", "gone"}
Settled(j) == registry[j].status \in SettledStatuses
Looked ==
  \A r \in Requests :
    LET q == request[r] IN
    q.pc \in {"read", "restore"} /\ q.expected # 0 =>
      /\ Used(q.expected) /\ Home(q.expected) = q.workspace
      /\ Settled(q.expected) \/ registry[q.expected].mapping # mapping[q.workspace]

---------------------------------------------------------------------------
(* What a child has done so far ...                                        *)
Early == {"starting", "computing"}
Staging(j) == \E w \in Workspaces : chain[w].staging = j
Stepwise(j) ==
  /\ child[j].phase \in Early \cup {"publishing"} => ~Staging(j)
  /\ child[j].phase \in Early => session[j] = "none"
  /\ Writing(j) => session[j] # "PUBLISHED"

(* ... and what says that it was cancelled.                                *)
Still == {"none", "reporting", "gone"}
Withdrawn(j) == registry[j].status = "CANCELLED" \/ "cancelled" \in ToSet(events[j])
Clean(j) == Withdrawn(j) => child[j].phase \in Still /\ session[j] = "none" /\ ~Staging(j)

Reported == \A j \in Jobs : Stepwise(j) /\ Clean(j)

---------------------------------------------------------------------------
(* Where no process is without its supervisor and saved results can be     *)
(* read: a failure is of a job that has not published.                     *)
Own(j) == session[j] = "PUBLISHED" /\ chain[Home(j)].staging = j
Failing(j) ==
  registry[j].status \in {"FAILED", "EXITED"} \/ verdict[j] = "EXITED" \/ "failed" \in ToSet(events[j])
Finding(j) ==
  /\ child[j].phase = "normalized" \/ session[j] = "PUBLISHED" =>
       (chain[Home(j)].staging = j => chain[Home(j)].complete)
  /\ Failing(j) => child[j].phase \in Still /\ ~Own(j)
Found == \A j \in Jobs : Finding(j)

---------------------------------------------------------------------------
(* Where no process is without its supervisor: who is at work.             *)
OneActive ==
  \A j, k \in Jobs : Active(j) /\ Active(k) /\ Home(j) = Home(k) => j = k
Attended(j) ==
  /\ Live(j) => j \in workers
  /\ j \in workers => Active(j) \/ (child[j].phase \in Still /\ events[j] = <<>>)
Pool == IsFiniteSet(workers) /\ Cardinality(workers) <= MaxWorkers

(* The last word of a child is its last event.                             *)
Told(j) ==
  /\ child[j].phase = "starting" => events[j] = <<>>
  /\ Live(j) /\ child[j].phase # "reporting" =>
       \A i \in 1 .. Len(events[j]) : events[j][i] = "started"
  /\ \A i \in 1 .. Len(events[j]) : i < Len(events[j]) => events[j][i] = "started"

Supervised == OneActive /\ Pool /\ \A j \in Jobs : Attended(j) /\ Told(j)

(* A shutdown that no request comes after.                                 *)
Closing ==
  /\ stop.pc # "off" => pending = <<>> /\ \A r \in Requests : request[r].pc = "off"
  /\ stop.pc \in {"queue", "workers"} => workers \subseteq stop.workers
  /\ stop.pc = "over" => \A j \in Jobs : ~Live(j)
---------------------------------------------------------------------------
(* The next job is one that nobody has used, after all that were.          *)
LEMMA NextIs ==
  ASSUME TypeOK, Numbered, Unused # {}
  PROVE  /\ NextJob \in Jobs /\ ~Used(NextJob)
         /\ \A j \in Jobs : Used(j) <=> j < NextJob
<1>1. PICK n \in 0 .. MaxJobs : \A j \in Jobs : Used(j) <=> j <= n
  BY DEF Numbered
<1>2. Unused = {j \in Jobs : ~(j <= n)}
  BY <1>1 DEF Unused, Used
<1>3. n + 1 \in Unused /\ \A k \in Unused : n + 1 <= k
  BY <1>2, JobsAssumption DEF Jobs
<1>4. NextJob \in Unused /\ \A k \in Unused : NextJob <= k
  BY <1>3 DEF NextJob
<1>5. NextJob = n + 1
  BY <1>2, <1>3, <1>4, JobsAssumption DEF Jobs
<1> QED BY <1>1, <1>2, <1>3, <1>5, JobsAssumption DEF Jobs

(* The latest job of a Workspace is one of its jobs.                       *)
LEMMA LatestIs ==
  ASSUME Numbered, NEW w \in Workspaces
  PROVE  /\ JobsOf(w) \subseteq Jobs
         /\ JobsOf(w) = {} => Latest(w) = 0
         /\ JobsOf(w) # {} =>
              Latest(w) \in JobsOf(w) /\ \A k \in JobsOf(w) : k <= Latest(w)
         /\ Latest(w) \in {0} \cup Jobs
<1>1. JobsOf(w) \subseteq Jobs
  BY DEF JobsOf
<1>2. CASE JobsOf(w) = {}
  BY <1>1, <1>2 DEF Latest
<1>3. CASE JobsOf(w) # {}
  <2>1. \E m \in JobsOf(w) : \A k \in JobsOf(w) : k <= m
    BY <1>3 DEF Numbered
  <2>2. Latest(w) = CHOOSE m \in JobsOf(w) : \A k \in JobsOf(w) : k <= m
    BY <1>3 DEF Latest
  <2>3. Latest(w) \in JobsOf(w) /\ \A k \in JobsOf(w) : k <= Latest(w)
    BY <2>1, <2>2
  <2> QED BY <1>1, <1>3, <2>3
<1> QED BY <1>2, <1>3

(* A job that gets a status stays of its type, Workspace and mapping.      *)
LEMMA MarkedIs ==
  ASSUME TypeOK, NEW j \in Jobs, NEW status \in Statuses, NEW saved \in BOOLEAN,
         NEW made, made = [registry EXCEPT ![j].status = status, ![j].saved = saved]
  PROVE  /\ made \in [Jobs -> Job]
         /\ made[j].status = status /\ made[j].saved = saved
         /\ \A k \in Jobs : /\ made[k].workspace = registry[k].workspace
                            /\ made[k].mapping = registry[k].mapping
                            /\ k # j => made[k] = registry[k]
BY DEF TypeOK, Job

(* So do the jobs that the queue, a supervisor or a shutdown marks.        *)
LEMMA MarkedAs ==
  ASSUME TypeOK, NEW j \in Jobs, NEW status \in Statuses,
         \/ registry' = Marked(j, status)
         \/ registry' = [registry EXCEPT ![j].status = status, ![j].saved = status \in Results]
  PROVE  /\ registry'[j].status = status
         /\ registry'[j].workspace = registry[j].workspace
         /\ registry'[j].mapping = registry[j].mapping
         /\ \A k \in Jobs \ {j} : registry'[k] = registry[k]
<1>1. CASE registry' = Marked(j, status)
  <2>1. registry' = [registry EXCEPT ![j].status = status, ![j].saved = (status = "SUCCEEDED")]
    BY <1>1 DEF Marked
  <2> QED BY <2>1 DEF TypeOK, Job
<1>2. CASE registry' = [registry EXCEPT ![j].status = status, ![j].saved = status \in Results]
  BY <1>2 DEF TypeOK, Job
<1> QED BY <1>1, <1>2

(* What a request makes of itself.                                         *)
LEMMA EndedIs ==
  ASSUME TypeOK, NEW r \in Requests, Ended(r)
  PROVE  /\ request' \in [Requests -> Request]
         /\ request'[r].pc = "off" /\ request'[r].result = "none"
         /\ \A q \in Requests \ {r} : request'[q] = request[q]
<1>1. NoRequest \in Request
  BY JobsAssumption DEF NoRequest, Request, Results
<1>2. NoRequest.pc = "off" /\ NoRequest.result = "none"
  BY DEF NoRequest
<1> QED BY <1>1, <1>2 DEF Ended, TypeOK

(* A queue of events with one more, one less, or cut short.                *)
LEMMA EventsAre ==
  ASSUME NEW q \in Seq(Kinds)
  PROVE  /\ \A k \in Kinds : /\ Append(q, k) \in Seq(Kinds)
                             /\ Len(Append(q, k)) = Len(q) + 1
                             /\ Append(q, k)[Len(q) + 1] = k
                             /\ \A i \in 1 .. Len(q) : Append(q, k)[i] = q[i]
                             /\ ToSet(Append(q, k)) = ToSet(q) \cup {k}
         /\ \A n \in 0 .. Len(q) : /\ SubSeq(q, 1, n) \in Seq(Kinds)
                                   /\ Len(SubSeq(q, 1, n)) = n
                                   /\ \A i \in 1 .. n : SubSeq(q, 1, n)[i] = q[i]
                                   /\ ToSet(SubSeq(q, 1, n)) \subseteq ToSet(q)
         /\ q # <<>> => /\ Head(q) \in Kinds /\ Head(q) \in ToSet(q) /\ Head(q) = q[1]
                        /\ Tail(q) \in Seq(Kinds) /\ Len(Tail(q)) = Len(q) - 1
                        /\ \A i \in 1 .. Len(q) - 1 : Tail(q)[i] = q[i + 1]
                        /\ ToSet(Tail(q)) \subseteq ToSet(q)
<1>1. Len(q) \in Nat /\ DOMAIN q = 1 .. Len(q)
  OBVIOUS
<1>2. ASSUME NEW k \in Kinds
      PROVE  /\ Append(q, k) \in Seq(Kinds) /\ Len(Append(q, k)) = Len(q) + 1
             /\ Append(q, k)[Len(q) + 1] = k
             /\ \A i \in 1 .. Len(q) : Append(q, k)[i] = q[i]
             /\ ToSet(Append(q, k)) = ToSet(q) \cup {k}
  <2>1. ToSet(Append(q, k)) = ToSet(q) \cup {k}
    BY AppendQueue
  <2> QED BY <2>1
<1>3. ASSUME NEW n \in 0 .. Len(q)
      PROVE  /\ SubSeq(q, 1, n) \in Seq(Kinds) /\ Len(SubSeq(q, 1, n)) = n
             /\ \A i \in 1 .. n : SubSeq(q, 1, n)[i] = q[i]
             /\ ToSet(SubSeq(q, 1, n)) \subseteq ToSet(q)
  <2>1. \A i \in 1 .. n : q[i] \in Kinds
    BY <1>1
  <2>2. /\ SubSeq(q, 1, n) \in Seq(Kinds)
        /\ Len(SubSeq(q, 1, n)) = IF 1 <= n THEN n - 1 + 1 ELSE 0
        /\ \A i \in 1 .. n - 1 + 1 : SubSeq(q, 1, n)[i] = q[1 + i - 1]
    BY <2>1, SubSeqProperties
  <2>3. Len(SubSeq(q, 1, n)) = n /\ \A i \in 1 .. n : SubSeq(q, 1, n)[i] = q[i]
    BY <1>1, <2>2
  <2>4. DOMAIN SubSeq(q, 1, n) = 1 .. n
    BY <2>2, <2>3
  <2>5. ToSet(SubSeq(q, 1, n)) \subseteq ToSet(q)
    BY <1>1, <2>3, <2>4 DEF ToSet
  <2> QED BY <2>2, <2>3, <2>5
<1>4. ASSUME q # <<>>
      PROVE  /\ Head(q) \in Kinds /\ Head(q) \in ToSet(q) /\ Head(q) = q[1]
             /\ Tail(q) \in Seq(Kinds) /\ Len(Tail(q)) = Len(q) - 1
             /\ \A i \in 1 .. Len(q) - 1 : Tail(q)[i] = q[i + 1]
             /\ ToSet(Tail(q)) \subseteq ToSet(q)
  <2>1. ToSet(Tail(q)) \subseteq ToSet(q) /\ Head(q) \in ToSet(q)
    BY <1>4, TailQueue
  <2> QED BY <1>4, <2>1
<1> QED BY <1>2, <1>3, <1>4
---------------------------------------------------------------------------
(* Types.                                                                  *)
LEMMA InitTypes == Init => TypeOK
<1> SUFFICES ASSUME Init PROVE TypeOK
  OBVIOUS
<1>1. NoJob \in Job /\ NoRequest \in Request
  BY JobsAssumption DEF NoJob, Job, Statuses, NoRequest, Request, Results
<1>2. NoChild \in Child /\ NoChain \in Chain /\ NoStop \in Stop
  BY DEF NoChild, Child, Phases, NoChain, Chain, NoStop, Stop
<1>3. <<>> \in Seq(Jobs) /\ <<>> \in Seq(Kinds)
  BY EmptyQueue
<1> QED BY <1>1, <1>2, <1>3, JobsAssumption DEF Init, TypeOK

LEMMA RequestTypes ==
  ASSUME TypeOK, Numbered, NEW r \in Requests,
         \/ \E w \in Workspaces, p \in BOOLEAN : Observe(r, w, p)
         \/ ReadSaved(r) \/ Restore(r) \/ Enqueue(r)
  PROVE  TypeOK'
<1> USE DEF durable
<1>1. CASE \E w \in Workspaces, p \in BOOLEAN : Observe(r, w, p)
  <2>1. PICK w \in Workspaces, p \in BOOLEAN : Observe(r, w, p)
    BY <1>1
  <2>2. Latest(w) \in {0} \cup Jobs
    BY LatestIs
  <2>3. mapping[w] \in Nat
    BY DEF TypeOK
  <2>4. \A pc \in {"read", "enqueue"} :
          [pc |-> pc, prepare |-> p, workspace |-> w, mapping |-> mapping[w],
           expected |-> Latest(w), result |-> "none"] \in Request
    BY <2>2, <2>3 DEF Request
  <2>5. request' \in [Requests -> Request]
    BY <2>1, <2>4 DEF Observe, TypeOK
  <2> QED BY <2>1, <2>5 DEF Observe, TypeOK
<1>2. CASE ReadSaved(r)
  <2>1. request[r] \in Request /\ \A w \in Workspaces : mapping[w] \in Nat
    BY DEF TypeOK
  <2>2. CurrentResult(request[r].workspace, request[r].mapping) \in {"none"} \cup Results
    BY DEF CurrentResult, Results
  <2>3. request' \in [Requests -> Request]
    <3> DEFINE q == request[r]
               found == CurrentResult(q.workspace, q.mapping)
    <3>1. CASE Ended(r)
      BY <3>1, EndedIs
    <3>2. CASE found # "none" /\ request' = [request EXCEPT ![r].pc = "restore", ![r].result = found]
      BY <2>1, <2>2, <3>2 DEF Request, TypeOK
    <3>3. CASE request' = [request EXCEPT ![r].pc = "enqueue", ![r].mapping = mapping[q.workspace]]
      BY <2>1, <3>3 DEF Request, TypeOK
    <3> QED BY <1>2, <3>1, <3>2, <3>3 DEF ReadSaved
  <2> QED BY <1>2, <2>3 DEF ReadSaved, TypeOK
<1>3. ASSUME NEW status \in Statuses PROVE NewJob(request[r], status) \in Job
  BY DEF NewJob, Job, TypeOK, Request
<1>4. CASE Restore(r)
  <2>1. request' \in [Requests -> Request]
    BY <1>4, EndedIs DEF Restore
  <2>2. registry' \in [Jobs -> Job]
    <3>1. CASE Restored(request[r])
      <4>1. NextJob \in Jobs
        BY <1>4, <3>1, NextIs DEF Restore
      <4>2. request[r].result \in Statuses
        BY DEF TypeOK, Request, Statuses, Results, Terminal
      <4> QED BY <1>3, <1>4, <3>1, <4>1, <4>2 DEF Restore, TypeOK
    <3>2. CASE ~Restored(request[r])
      BY <1>4, <3>2 DEF Restore, TypeOK
    <3> QED BY <3>1, <3>2
  <2>3. prepared' \in [Workspaces -> BOOLEAN]
    BY <1>4 DEF Restore, Notify, TypeOK
  <2> QED BY <1>4, <2>1, <2>2, <2>3 DEF Restore, TypeOK
<1>5. CASE Enqueue(r)
  <2>1. request' \in [Requests -> Request]
    BY <1>5, EndedIs DEF Enqueue
  <2>2. registry' \in [Jobs -> Job] /\ pending' \in Seq(Jobs)
    <3>1. CASE Unused # {}
      <4>1. NextJob \in Jobs
        BY <3>1, NextIs
      <4>2. Append(pending, NextJob) \in Seq(Jobs)
        BY <4>1, AppendQueue DEF TypeOK
      <4>3. NewJob(request[r], "QUEUED") \in Job
        BY <1>3 DEF Statuses
      <4> QED BY <1>5, <4>1, <4>2, <4>3 DEF Enqueue, TypeOK
    <3>2. CASE Unused = {}
      BY <1>5, <3>2 DEF Enqueue, TypeOK
    <3> QED BY <3>1, <3>2
  <2> QED BY <1>5, <2>1, <2>2 DEF Enqueue, TypeOK
<1> QED BY <1>1, <1>2, <1>4, <1>5

LEMMA QueueTypes ==
  ASSUME TypeOK,
         StartNext \/ \E j \in Jobs : CancelRequest(j) \/ CancelDeliver(j)
  PROVE  TypeOK'
<1> USE DEF durable
<1>1. CASE StartNext
  <2>1. Head(pending) \in Jobs /\ Tail(pending) \in Seq(Jobs)
    BY <1>1, TailQueue DEF StartNext, Scheduling, TypeOK
  <2>2. [child EXCEPT ![Head(pending)].phase = "starting"] \in [Jobs -> Child]
    BY <2>1 DEF TypeOK, Child, Phases
  <2>3. Marked(Head(pending), "FAILED") \in [Jobs -> Job]
    BY <2>1, MarkedIs DEF Marked, Statuses, Terminal
  <2>4. /\ registry' \in [Jobs -> Job] /\ child' \in [Jobs -> Child]
        /\ workers' \subseteq Jobs /\ pending' \in Seq(Jobs)
    BY <1>1, <2>1, <2>2, <2>3
    DEF StartNext, Launch, LaunchWithoutResources, LaunchWithoutProcess, LaunchWithoutSupervisor, TypeOK
  <2> QED BY <1>1, <2>4 DEF StartNext, TypeOK
<1>2. ASSUME NEW j \in Jobs, CancelRequest(j) PROVE TypeOK'
  BY <1>2 DEF CancelRequest, TypeOK
<1>3. ASSUME NEW j \in Jobs, CancelDeliver(j) PROVE TypeOK'
  <2>1. Marked(j, "CANCELLED") \in [Jobs -> Job]
    BY MarkedIs DEF Marked, Statuses, Terminal
  <2>2. \A i \in DOMAIN pending : RemoveAt(pending, i) \in Seq(Jobs)
    BY RemoveQueue DEF TypeOK
  <2>3. registry' \in [Jobs -> Job] /\ pending' \in Seq(Jobs)
    BY <1>3, <2>1, <2>2 DEF CancelDeliver, TypeOK
  <2>4. cancelSet' \subseteq Jobs /\ cancelling' \subseteq Jobs
    BY <1>3 DEF CancelDeliver, TypeOK
  <2> QED BY <1>3, <2>3, <2>4 DEF CancelDeliver, TypeOK
<1> QED BY <1>1, <1>2, <1>3

LEMMA WorkTypes ==
  ASSUME TypeOK, NEW j \in Jobs, Work(j)
  PROVE  TypeOK'
<1> USE DEF memoryAndBounds, memory, durable
<1>1. /\ \A phase \in Phases : [child EXCEPT ![j].phase = phase] \in [Jobs -> Child]
      /\ [child EXCEPT ![j] = Gone] \in [Jobs -> Child]
  BY DEF TypeOK, Child, Phases, Gone
<1>2. \A kind \in Kinds : [events EXCEPT ![j] = Append(@, kind)] \in [Jobs -> Seq(Kinds)]
  BY EventsAre DEF TypeOK
<1>3. Home(j) \in Workspaces
  BY DEF Home, TypeOK, Job
<1>4. chain[Home(j)] \in Chain
  BY <1>3 DEF TypeOK
<1>5. CASE Begin(j) \/ StopAtCheckpoint(j) \/ ReportSuccess(j) \/ Exit(j)
  BY <1>1, <1>2, <1>5
  DEF Begin, StopAtCheckpoint, ReportSuccess, Exit, Move, Tell, TypeOK, Phases, Kinds
<1>6. CASE PassLastCheckpoint(j) \/ MarkPublished(j)
  <2>1. session' \in [Jobs -> {"none", "READY", "FAILED", "PUBLISHED"}]
    BY <1>6 DEF PassLastCheckpoint, MarkPublished, TypeOK
  <2> QED BY <1>1, <1>6, <2>1 DEF PassLastCheckpoint, MarkPublished, Move, TypeOK, Phases
<1>7. CASE PublishStaging(j)
  <2>1. PICK used \in {0} \cup Jobs :
          /\ child' = [child EXCEPT ![j] = [phase |-> "staged", staging |-> used]]
          /\ chain' = [chain EXCEPT ![Home(j)].staging = used]
    BY <1>4, <1>7 DEF PublishStaging, Chain
  <2>2. child' \in [Jobs -> Child] /\ chain' \in [Workspaces -> Chain]
    BY <1>3, <1>4, <2>1 DEF TypeOK, Child, Phases, Chain
  <2> QED BY <1>7, <2>2 DEF PublishStaging, TypeOK
<1>8. FailSession(j) => session' \in [Jobs -> {"none", "READY", "FAILED", "PUBLISHED"}]
  BY DEF FailSession, TypeOK
<1>9. CASE AskForReview(j) \/ Normalize(j)
  <2>1. chain' \in [Workspaces -> Chain]
    <3>1. \/ chain' = [chain EXCEPT ![Home(j)].review = "waiting"]
          \/ chain' = [chain EXCEPT ![Home(j)].complete = TRUE]
      BY <1>9 DEF AskForReview, Normalize
    <3>2. /\ [chain EXCEPT ![Home(j)].review = "waiting"] \in [Workspaces -> Chain]
          /\ [chain EXCEPT ![Home(j)].complete = TRUE] \in [Workspaces -> Chain]
      BY DEF TypeOK, Chain
    <3> QED BY <3>1, <3>2
  <2> QED BY <1>1, <1>2, <1>8, <1>9, <2>1
          DEF AskForReview, Normalize, Move, Tell, TypeOK, Phases, Kinds
<1>10. CASE Fail(j)
  BY <1>1, <1>2, <1>8, <1>10 DEF Fail, Move, Tell, TypeOK, Phases, Kinds
<1> QED BY <1>5, <1>6, <1>7, <1>9, <1>10 DEF Work

LEMMA KilledTypes ==
  ASSUME TypeOK, NEW j \in Jobs, Killed(j)
  PROVE  child' \in [Jobs -> Child] /\ events' \in [Jobs -> Seq(Kinds)]
<1>1. child' \in [Jobs -> Child]
  BY DEF Killed, Gone, TypeOK, Child, Phases
<1>2. events[j] \in Seq(Kinds)
  BY DEF TypeOK
<1>3. events' \in [Jobs -> Seq(Kinds)]
  BY <1>2, EventsAre DEF Killed, TypeOK
<1> QED BY <1>1, <1>3

LEMMA SuperviseTypes ==
  ASSUME TypeOK, NEW j \in Jobs, Supervise(j)
  PROVE  TypeOK'
<1> USE DEF durable
<1>1. events[j] \in Seq(Kinds) /\ verdict[j] \in {"none", "EXITED"} \cup Results
  BY DEF TypeOK
<1>2. \A w, m, status : Notify(w, m, status) => prepared' \in [Workspaces -> BOOLEAN]
  BY DEF Notify, TypeOK
<1>3. CASE HandleEvent(j)
  <2>1. Head(events[j]) \in Kinds /\ Tail(events[j]) \in Seq(Kinds)
    BY <1>1, <1>3, EventsAre DEF HandleEvent
  <2>2. Outcome(Head(events[j])) \in Statuses
    BY <2>1 DEF Outcome, Kinds, Statuses, Terminal
  <2>3. registry' \in [Jobs -> Job]
    BY <1>3, <2>2, MarkedIs DEF HandleEvent, Marked
  <2>4. events' \in [Jobs -> Seq(Kinds)]
    BY <1>3, <2>1 DEF HandleEvent, TypeOK
  <2> QED BY <1>2, <1>3, <2>3, <2>4 DEF HandleEvent, TypeOK
<1>4. CASE ReadResult(j)
  <2>1. CurrentResult(Home(j), registry[j].mapping) \in {"none"} \cup Results
    BY DEF CurrentResult, Results
  <2> QED BY <1>4, <2>1 DEF ReadResult, TypeOK
<1>5. CASE Conclude(j)
  <2>1. registry' \in [Jobs -> Job]
    <3>1. verdict[j] \in Statuses /\ (verdict[j] \in Results) \in BOOLEAN
      BY <1>1, <1>5 DEF Conclude, Statuses, Terminal, Results
    <3> QED BY <1>5, <3>1, MarkedIs DEF Conclude
  <2>2. verdict' \in [Jobs -> {"none", "EXITED"} \cup Results]
    BY <1>5 DEF Conclude, TypeOK
  <2> QED BY <1>2, <1>5, <2>1, <2>2 DEF Conclude, TypeOK
<1>6. CASE Release(j)
  BY <1>6 DEF Release, TypeOK
<1> QED BY <1>3, <1>4, <1>5, <1>6 DEF Supervise

LEMMA OtherTypes ==
  ASSUME TypeOK,
         \/ \E j \in Jobs : Die(j)
         \/ \E w \in Workspaces : Remap(w) \/ Approve(w)
         \/ Stopping \/ Restart
  PROVE  TypeOK'
<1> USE DEF memoryAndBounds, memory, durable
<1>1. ASSUME NEW j \in Jobs, Die(j) PROVE TypeOK'
  BY <1>1, KilledTypes, JobsAssumption DEF Die, TypeOK
<1>2. ASSUME NEW w \in Workspaces, Remap(w) \/ Approve(w) PROVE TypeOK'
  <2>1. NoChain \in Chain
    BY DEF NoChain, Chain
  <2>2. [chain EXCEPT ![w].review = "frozen"] \in [Workspaces -> Chain]
    BY DEF TypeOK, Chain
  <2>3. [mapping EXCEPT ![w] = @ + 1] \in [Workspaces -> Nat]
    BY DEF TypeOK
  <2>4. CASE Remap(w)
    <3>1. prepared' \in [Workspaces -> BOOLEAN] /\ chain' \in [Workspaces -> Chain]
      BY <2>1, <2>4 DEF Remap, TypeOK
    <3> QED BY <2>3, <2>4, <3>1 DEF Remap, TypeOK
  <2>5. CASE Approve(w)
    BY <2>2, <2>5 DEF Approve, TypeOK
  <2> QED BY <1>2, <2>4, <2>5
<1>3. CASE BeginStop
  <2>1. ToSet(pending) \subseteq Jobs /\ <<>> \in Seq(Jobs)
    BY QueueElements, EmptyQueue DEF TypeOK
  <2> QED BY <1>3, <2>1 DEF BeginStop, TypeOK, Stop
<1>4. ASSUME NEW j \in Jobs, CancelQueued(j) PROVE TypeOK'
  <2>1. registry' \in [Jobs -> Job]
    BY <1>4, MarkedIs DEF CancelQueued, Marked, Statuses, Terminal
  <2> QED BY <1>4, <2>1 DEF CancelQueued, TypeOK, Stop
<1>5. CASE CancelWorkers \/ EndStop
  BY <1>5 DEF CancelWorkers, EndStop, TypeOK, Stop
<1>6. ASSUME NEW j \in Jobs, Terminate(j) PROVE TypeOK'
  BY <1>6, KilledTypes DEF Terminate, TypeOK
<1>7. CASE Restart
  <2>1. <<>> \in Seq(Jobs) /\ <<>> \in Seq(Kinds) /\ NoStop \in Stop
    BY EmptyQueue DEF NoStop, Stop
  <2>2. NoRequest \in Request
    BY JobsAssumption DEF NoRequest, Request, Results
  <2>3. registry' \in [Jobs -> Job]
    <3>1. \A j \in Jobs : [registry[j] EXCEPT !.status = "gone"] \in Job
      BY DEF TypeOK, Job, Statuses
    <3> QED BY <1>7, <3>1 DEF Restart, TypeOK
  <2>4. child' \in [Jobs -> Child]
    BY <1>7 DEF Restart, TypeOK, Child, Phases, Gone
  <2> QED BY <1>7, <2>1, <2>2, <2>3, <2>4, JobsAssumption DEF Restart, TypeOK
<1> QED BY <1>1, <1>2, <1>3, <1>4, <1>5, <1>6, <1>7 DEF Stopping

LEMMA NextTypes == TypeOK /\ Numbered /\ [Next]_vars => TypeOK'
<1> SUFFICES ASSUME TypeOK, Numbered, [Next]_vars PROVE TypeOK'
  OBVIOUS
<1>1. CASE UNCHANGED vars
  BY <1>1 DEF vars, memory, durable, TypeOK
<1> QED BY <1>1, RequestTypes, QueueTypes, WorkTypes, SuperviseTypes, OtherTypes DEF Next
---------------------------------------------------------------------------
(* Who waits, who is used and who is the latest.                           *)
Idle == {"none", "gone"}

LEMMA NumberedKept ==
  ASSUME Numbered,
         \A j \in Jobs : /\ registry'[j].workspace = registry[j].workspace
                         /\ registry'[j].status = "none" <=> registry[j].status = "none"
                         /\ registry'[j].status \in Idle <=> registry[j].status \in Idle
  PROVE  Numbered' /\ \A w \in Workspaces : JobsOf(w)' = JobsOf(w)
<1>1. \A w \in Workspaces : JobsOf(w)' = JobsOf(w)
  BY DEF JobsOf, Idle
<1>2. \A j \in Jobs : Used(j)' <=> Used(j)
  BY DEF Used
<1> QED BY <1>1, <1>2 DEF Numbered

(* A job that has begun is used and does not wait.                         *)
LEMMA BegunIs ==
  ASSUME Queued, NEW j \in Jobs,
         child[j].phase # "none" \/ j \in workers \/ events[j] # <<>> \/ verdict[j] # "none"
  PROVE  Used(j) /\ j \notin Waiting
BY DEF Queued, Fresh, NoChild

(* Only jobs wait.                                                         *)
LEMMA WaitingAre ==
  ASSUME TypeOK
  PROVE  Waiting \subseteq Jobs /\ ToSet(pending) \subseteq Jobs /\ stop.queued \subseteq Jobs
BY QueueElements DEF TypeOK, Stop, Waiting

(* What a job does once it has begun disturbs nobody who waits.            *)
LEMMA BegunFiled ==
  ASSUME TypeOK, Queued, Numbered, Versioned, NEW j \in Jobs, Used(j), j \notin Waiting,
         \A k \in Jobs \ {j} :
           /\ child'[k] = child[k] /\ events'[k] = events[k] /\ verdict'[k] = verdict[k]
           /\ session'[k] = session[k] /\ registry'[k] = registry[k],
         registry'[j].status # registry[j].status => {registry[j].status, registry'[j].status} \cap Idle = {},
         registry'[j].workspace = registry[j].workspace,
         registry'[j].mapping = registry[j].mapping,
         \A w \in Workspaces : chain'[w].staging \in {0, j, chain[w].staging},
         workers' \subseteq workers, 0 \notin Jobs,
         j \in workers' => child'[j].phase # "none",
         UNCHANGED <<pending, stop, mapping, request>>
  PROVE  Queued' /\ Numbered' /\ Versioned'
<1>1. \A k \in Jobs \ {j} : Fresh(k) => Fresh(k)'
  BY DEF Fresh
<1>2. Waiting' = Waiting /\ \A k \in Jobs : Used(k)' <=> Used(k)
  BY DEF Waiting, Used, Idle
<1>3. Numbered'
  BY NumberedKept DEF Used, Idle
<1>4. Queued'
  <2>1. \A k \in Waiting' : Fresh(k)' /\ registry'[k].status = "QUEUED"
    BY <1>1, <1>2, WaitingAre DEF Queued
  <2>2. \A k \in Jobs : ~Used(k)' => Fresh(k)'
    BY <1>1, <1>2 DEF Queued
  <2>3. \A k \in workers' : child'[k].phase # "none"
    BY DEF Queued, TypeOK
  <2> QED BY <2>1, <2>2, <2>3 DEF Queued
<1>5. Versioned'
  BY <1>2 DEF Versioned, Home
<1> QED BY <1>3, <1>4, <1>5

LEMMA InitFiled == Init => Filed
<1> SUFFICES ASSUME Init PROVE Filed
  OBVIOUS
<1>1. TypeOK
  BY InitTypes
<1>2. Queued
  BY EmptyQueue, JobsAssumption
  DEF Init, Queued, Waiting, Used, Fresh, NoStop, NoJob, NoChain, Jobs
<1>3. Numbered
  <2>1. \A j \in Jobs : ~Used(j) /\ ~(j <= 0)
    BY DEF Init, Used, NoJob, Jobs
  <2>2. \A w \in Workspaces : JobsOf(w) = {}
    BY DEF Init, JobsOf, NoJob
  <2> QED BY <2>1, <2>2, JobsAssumption DEF Numbered
<1>4. Versioned
  BY DEF Init, Versioned, Used, NoJob, NoRequest
<1> QED BY <1>1, <1>2, <1>3, <1>4 DEF Filed

(* A job that is made disturbs no other, and waits if it is put there.     *)
LEMMA MadeFiled ==
  ASSUME TypeOK, Queued, Numbered, Versioned, Unused # {}, NEW r \in Requests,
         request[r].pc # "off", Ended(r),
         NEW status \in Statuses \ Idle,
         registry' = [registry EXCEPT ![NextJob] = NewJob(request[r], status)],
         pending' = pending \/ (status = "QUEUED" /\ pending' = Append(pending, NextJob)),
         UNCHANGED <<workers, verdict, stop, child, events, mapping, chain, session>>
  PROVE  Queued' /\ Numbered' /\ Versioned'
<1> DEFINE n == NextJob
           q == request[r]
<1>1. n \in Jobs /\ ~Used(n) /\ \A j \in Jobs : Used(j) <=> j < n
  BY NextIs
<1>2. q \in Request
  BY DEF TypeOK
<1>3. /\ registry'[n].status = status /\ registry'[n].workspace = q.workspace
      /\ registry'[n].mapping = q.mapping
      /\ \A j \in Jobs \ {n} : registry'[j] = registry[j]
  BY <1>1 DEF NewJob, TypeOK
<1> HIDE DEF n
<1>4. \A j \in Jobs : Used(j)' <=> j = n \/ Used(j)
  BY <1>3 DEF Used, Idle
<1>5. \A j \in Jobs : Fresh(j)' = Fresh(j)
  BY DEF Fresh
<1>6. ToSet(pending)' \subseteq ToSet(pending) \cup {n} /\ OnceEach(pending)'
  <2>1. n \notin ToSet(pending)
    BY <1>1, WaitingAre DEF Queued, Waiting, Used
  <2>2. ToSet(Append(pending, n)) = ToSet(pending) \cup {n} /\ OnceEach(Append(pending, n))
    BY <1>1, <2>1, AppendQueue DEF TypeOK, Queued
  <2> QED BY <2>2 DEF Queued, n
<1>7. Queued'
  <2>1. n \notin stop.queued
    BY <1>1, WaitingAre DEF Queued, Waiting, Used
  <2>2. \A j \in Waiting' : j # n => j \in Waiting
    BY <1>6 DEF Waiting
  <2>3. n \in ToSet(pending)' => status = "QUEUED"
    <3>1. n \notin ToSet(pending)
      BY <1>1, WaitingAre DEF Queued, Waiting, Used
    <3> QED BY <3>1
  <2>4. \A j \in Waiting' : Fresh(j)' /\ registry'[j].status = "QUEUED"
    BY <1>1, <1>3, <1>5, <2>1, <2>2, <2>3, WaitingAre DEF Queued, Waiting
  <2>5. ToSet(pending)' \cap stop'.queued = {}
    BY <1>6, <2>1 DEF Queued
  <2> QED BY <1>4, <1>5, <1>6, <2>4, <2>5 DEF Queued
<1>8. Numbered'
  <2>1. \E m \in 0 .. MaxJobs : \A j \in Jobs : Used(j)' <=> j <= m
    BY <1>1, <1>4 DEF Jobs
  <2>2. PICK home \in Workspaces : home = q.workspace
    BY <1>2 DEF Request
  <2>3. JobsOf(home)' = JobsOf(home) \cup {n}
    BY <1>1, <1>3, <2>2 DEF JobsOf, Idle, Used
  <2>4. \A w \in Workspaces : w # home => JobsOf(w)' = JobsOf(w)
    BY <1>1, <1>3, <2>2 DEF JobsOf, Idle, Used
  <2>5. \A k \in JobsOf(home)' : k <= n
    BY <1>1, <2>3 DEF JobsOf, Used, Jobs
  <2>6. \A w \in Workspaces : JobsOf(w)' # {} =>
          \E m \in JobsOf(w)' : \A k \in JobsOf(w)' : k <= m
    BY <2>3, <2>4, <2>5 DEF Numbered
  <2> QED BY <2>1, <2>6 DEF Numbered
<1>9. Versioned'
  <2>1. \A j \in Jobs : Used(j)' => registry'[j].mapping <= mapping'[Home(j)']
    BY <1>1, <1>2, <1>3, <1>4 DEF Versioned, Home
  <2>2. \A p \in Requests : request'[p].pc # "off" => request'[p] = request[p]
    BY EndedIs
  <2> QED BY <2>1, <2>2 DEF Versioned
<1> QED BY <1>7, <1>8, <1>9

LEMMA RequestFiled ==
  ASSUME Filed, NEW r \in Requests,
         \/ \E w \in Workspaces, p \in BOOLEAN : Observe(r, w, p)
         \/ ReadSaved(r) \/ Restore(r) \/ Enqueue(r)
  PROVE  Queued' /\ Numbered' /\ Versioned'
<1> USE DEF durable, Filed
<1>1. ASSUME UNCHANGED <<registry, pending, workers, verdict, stop, child, events, mapping, chain, session>>,
             \A p \in Requests :
               \/ request'[p].pc = "off" \/ request'[p] = request[p]
               \/ /\ request'[p].mapping <= mapping[request'[p].workspace]
                  /\ request'[p].pc = "restore" => request'[p].result \in Results
      PROVE  Queued' /\ Numbered' /\ Versioned'
  <2>1. Queued'
    BY <1>1 DEF Queued, Waiting, Fresh, Used
  <2>2. Numbered'
    BY <1>1, NumberedKept
  <2>3. Versioned'
    BY <1>1 DEF Versioned, Used, Home
  <2> QED BY <2>1, <2>2, <2>3
<1>2. ASSUME Ended(r) PROVE \A p \in Requests : request'[p].pc = "off" \/ request'[p] = request[p]
  BY <1>2, EndedIs
<1>3. \A w \in Workspaces : mapping[w] \in Nat /\ mapping[w] <= mapping[w]
  BY DEF TypeOK
<1>4. CASE \E w \in Workspaces, p \in BOOLEAN : Observe(r, w, p)
  <2>1. PICK w \in Workspaces, p \in BOOLEAN : Observe(r, w, p)
    BY <1>4
  <2>2. request'[r].workspace = w /\ request'[r].mapping = mapping[w] /\ request'[r].pc # "restore"
    BY <2>1 DEF Observe, TypeOK
  <2>3. \A q \in Requests \ {r} : request'[q] = request[q]
    BY <2>1 DEF Observe, TypeOK
  <2> QED BY <1>1, <1>3, <2>1, <2>2, <2>3 DEF Observe
<1>5. CASE ReadSaved(r)
  <2> DEFINE q == request[r]
             found == CurrentResult(q.workspace, q.mapping)
  <2>1. q \in Request /\ q.pc = "read"
    BY <1>5 DEF ReadSaved, TypeOK
  <2>2. CASE found # "none" /\ request' = [request EXCEPT ![r].pc = "restore", ![r].result = found]
    <3> found \in Results
      BY <2>2 DEF CurrentResult, Results
    <3> HIDE DEF found
    <3>1. /\ request'[r].mapping = q.mapping /\ request'[r].workspace = q.workspace
          /\ request'[r].result \in Results
      BY <2>2 DEF TypeOK, Request
    <3>2. q.mapping <= mapping[q.workspace]
      BY <2>1 DEF Versioned
    <3>3. \A p \in Requests \ {r} : request'[p] = request[p]
      BY <2>2 DEF TypeOK
    <3> QED BY <1>1, <1>5, <3>1, <3>2, <3>3 DEF ReadSaved
  <2>3. CASE request' = [request EXCEPT ![r].pc = "enqueue", ![r].mapping = mapping[q.workspace]]
    <3>1. /\ request'[r].mapping = mapping[q.workspace] /\ request'[r].workspace = q.workspace
          /\ request'[r].pc # "restore"
      BY <2>3 DEF TypeOK, Request
    <3>2. \A p \in Requests \ {r} : request'[p] = request[p]
      BY <2>3 DEF TypeOK
    <3>3. q.workspace \in Workspaces
      BY <2>1 DEF Request
    <3> QED BY <1>1, <1>3, <1>5, <3>1, <3>2, <3>3 DEF ReadSaved
  <2>4. CASE Ended(r)
    BY <1>1, <1>2, <1>5, <2>4 DEF ReadSaved
  <2> QED BY <1>5, <2>2, <2>3, <2>4 DEF ReadSaved
<1>6. CASE Restore(r)
  <2>1. CASE Restored(request[r])
    <3>1. request[r].result \in Statuses \ Idle
      BY <1>6 DEF Restore, Versioned, Results, Statuses, Terminal, Idle
    <3> QED BY <1>6, <2>1, <3>1, MadeFiled DEF Restore
  <2>2. CASE ~Restored(request[r])
    BY <1>1, <1>2, <1>6, <2>2 DEF Restore
  <2> QED BY <2>1, <2>2
<1>7. CASE Enqueue(r)
  <2>1. CASE \E j \in JobsOf(request[r].workspace) : Active(j)
    BY <1>1, <1>2, <1>7, <2>1 DEF Enqueue
  <2>2. CASE ~ \E j \in JobsOf(request[r].workspace) : Active(j)
    <3>1. "QUEUED" \in Statuses \ Idle
      BY DEF Statuses, Idle
    <3> QED BY <1>7, <2>2, <3>1, MadeFiled DEF Enqueue
  <2> QED BY <2>1, <2>2
<1> QED BY <1>4, <1>5, <1>6, <1>7

(* A child at work changes what is its own, and makes rows current that    *)
(* are its own or were.                                                    *)
LEMMA WorkIs ==
  ASSUME TypeOK, NEW j \in Jobs, Work(j)
  PROVE  /\ Live(j) /\ child'[j].phase # "none"
         /\ \A k \in Jobs \ {j} :
              child'[k] = child[k] /\ events'[k] = events[k] /\ session'[k] = session[k]
         /\ \A w \in Workspaces : chain'[w].staging \in {j, chain[w].staging}
         /\ UNCHANGED <<registry, pending, workers, verdict, cancelSet, cancelling, request,
                        stop, mapping, prepared, deaths, restarts>>
<1> USE DEF memoryAndBounds, memory, durable
<1>1. UNCHANGED <<registry, pending, workers, verdict, cancelSet, cancelling, request,
                  stop, mapping, prepared, deaths, restarts>>
  BY DEF Work, Begin, StopAtCheckpoint, PassLastCheckpoint, PublishStaging, AskForReview,
         Normalize, MarkPublished, ReportSuccess, Fail, Exit
<1>2. Live(j)
  BY DEF Work, Begin, StopAtCheckpoint, PassLastCheckpoint, PublishStaging, AskForReview,
         Normalize, MarkPublished, ReportSuccess, Fail, Exit, At, Live, Writing
<1>3. \A k \in Jobs \ {j} : child'[k] = child[k] /\ events'[k] = events[k] /\ session'[k] = session[k]
  BY DEF Work, Begin, StopAtCheckpoint, PassLastCheckpoint, PublishStaging, AskForReview,
         Normalize, MarkPublished, ReportSuccess, Fail, FailSession, Exit, Move, Tell, TypeOK
<1>4. child'[j].phase # "none"
  BY DEF Work, Begin, StopAtCheckpoint, PassLastCheckpoint, PublishStaging, AskForReview,
         Normalize, MarkPublished, ReportSuccess, Fail, Exit, Move, TypeOK, Child, Gone
<1>5. \A w \in Workspaces : chain'[w].staging \in {j, chain[w].staging}
  <2>1. CASE PublishStaging(j)
    <3>1. PICK used \in {j, chain[Home(j)].staging} : chain' = [chain EXCEPT ![Home(j)].staging = used]
      BY <2>1 DEF PublishStaging
    <3> QED BY <3>1 DEF TypeOK, Chain
  <2>2. CASE AskForReview(j) \/ Normalize(j)
    <3>1. CASE chain' = [chain EXCEPT ![Home(j)].review = "waiting"]
      BY <3>1 DEF TypeOK, Chain
    <3>2. CASE chain' = [chain EXCEPT ![Home(j)].complete = TRUE]
      BY <3>2 DEF TypeOK, Chain
    <3> QED BY <2>2, <3>1, <3>2 DEF AskForReview, Normalize
  <2>3. CASE UNCHANGED chain
    BY <2>3
  <2> QED BY <2>1, <2>2, <2>3
          DEF Work, Begin, StopAtCheckpoint, PassLastCheckpoint, MarkPublished, ReportSuccess, Fail, Exit
<1> QED BY <1>1, <1>2, <1>3, <1>4, <1>5

(* A process that ends.                                                    *)
LEMMA KilledIs ==
  ASSUME TypeOK, NEW j \in Jobs, Killed(j)
  PROVE  /\ child'[j].phase = "gone" /\ child'[j].staging = 0
         /\ \A k \in Jobs \ {j} : child'[k] = child[k] /\ events'[k] = events[k]
         /\ \E n \in 0 .. Len(events[j]) : events'[j] = SubSeq(events[j], 1, n)
         /\ ToSet(events'[j]) \subseteq ToSet(events[j])
<1>1. events[j] \in Seq(Kinds)
  BY DEF TypeOK
<1>2. PICK n \in 0 .. Len(events[j]) : events' = [events EXCEPT ![j] = SubSeq(events[j], 1, n)]
  BY DEF Killed
<1>3. events'[j] = SubSeq(events[j], 1, n) /\ \A k \in Jobs \ {j} : events'[k] = events[k]
  BY <1>2 DEF TypeOK
<1>4. ToSet(events'[j]) \subseteq ToSet(events[j])
  BY <1>1, <1>3, EventsAre
<1>5. child'[j].phase = "gone" /\ child'[j].staging = 0 /\ \A k \in Jobs \ {j} : child'[k] = child[k]
  BY DEF Killed, Gone, TypeOK
<1> QED BY <1>3, <1>4, <1>5

LEMMA WorkFiled ==
  ASSUME Filed, NEW j \in Jobs,
         Work(j) \/ (Live(j) /\ Killed(j) /\ UNCHANGED <<memory, durable>>)
  PROVE  Queued' /\ Numbered' /\ Versioned'
<1> USE DEF Filed, memory, durable
<1>1. 0 \notin Jobs
  BY DEF Jobs
<1>2. Live(j) => Used(j) /\ j \notin Waiting
  BY BegunIs DEF Live
<1>3. CASE Work(j)
  BY <1>1, <1>2, <1>3, WorkIs, BegunFiled
<1>4. CASE Live(j) /\ Killed(j) /\ UNCHANGED <<memory, durable>>
  BY <1>1, <1>2, <1>4, KilledIs, BegunFiled
<1> QED BY <1>3, <1>4

(* A supervisor changes what is known of its job while it is active.       *)
LEMMA SuperviseIs ==
  ASSUME TypeOK, NEW j \in Jobs, Supervise(j)
  PROVE  /\ j \in workers /\ workers' \subseteq workers
         /\ \A k \in Jobs \ {j} :
              events'[k] = events[k] /\ verdict'[k] = verdict[k] /\ registry'[k] = registry[k]
         /\ registry'[j].workspace = registry[j].workspace /\ registry'[j].mapping = registry[j].mapping
         /\ \/ registry'[j].status = registry[j].status
            \/ Active(j) /\ registry'[j].status \in Terminal \cup {"RUNNING"}
         /\ ToSet(events'[j]) \subseteq ToSet(events[j])
         /\ UNCHANGED <<pending, cancelling, request, stop, child, mapping, chain, session, deaths, restarts>>
<1> USE DEF durable
<1>1. events[j] \in Seq(Kinds) /\ verdict[j] \in {"none", "EXITED"} \cup Results
  BY DEF TypeOK
<1>2. CASE HandleEvent(j)
  <2>1. /\ Head(events[j]) \in Kinds
        /\ events'[j] = Tail(events[j]) /\ ToSet(Tail(events[j])) \subseteq ToSet(events[j])
        /\ \A k \in Jobs \ {j} : events'[k] = events[k]
    BY <1>1, <1>2, EventsAre DEF HandleEvent, TypeOK
  <2>2. Outcome(Head(events[j])) \in Terminal \cup {"RUNNING"}
    BY <2>1 DEF Outcome, Kinds, Terminal
  <2>3. /\ registry'[j].status = Outcome(Head(events[j]))
        /\ registry'[j].workspace = registry[j].workspace
        /\ registry'[j].mapping = registry[j].mapping
        /\ \A k \in Jobs \ {j} : registry'[k] = registry[k]
    <3>1. Outcome(Head(events[j])) \in Statuses /\ registry' = Marked(j, Outcome(Head(events[j])))
      BY <1>2, <2>2 DEF HandleEvent, Statuses
    <3> QED BY <3>1, MarkedAs
  <2> QED BY <1>2, <2>1, <2>2, <2>3 DEF HandleEvent
<1>3. CASE ReadResult(j)
  BY <1>3 DEF ReadResult, Drained, TypeOK
<1>4. CASE Conclude(j)
  <2>1. verdict[j] \in Terminal /\ (verdict[j] \in Results) \in BOOLEAN
    BY <1>1, <1>4 DEF Conclude, Terminal, Results
  <2>2. /\ registry'[j].status = verdict[j]
        /\ registry'[j].workspace = registry[j].workspace
        /\ registry'[j].mapping = registry[j].mapping
        /\ \A k \in Jobs \ {j} : registry'[k] = registry[k]
    <3>1. /\ verdict[j] \in Statuses
          /\ registry' = [registry EXCEPT ![j].status = verdict[j], ![j].saved = verdict[j] \in Results]
      BY <1>4, <2>1 DEF Conclude, Statuses
    <3> QED BY <3>1, MarkedAs
  <2>3. \A k \in Jobs \ {j} : verdict'[k] = verdict[k]
    BY <1>4 DEF Conclude, TypeOK
  <2> QED BY <1>4, <2>1, <2>2, <2>3 DEF Conclude, Drained
<1>5. CASE Release(j)
  BY <1>5 DEF Release, Drained
<1> QED BY <1>2, <1>3, <1>4, <1>5 DEF Supervise

LEMMA SuperviseFiled ==
  ASSUME Filed, NEW j \in Jobs, Supervise(j)
  PROVE  Queued' /\ Numbered' /\ Versioned'
<1> USE DEF Filed
<1>1. 0 \notin Jobs
  BY DEF Jobs
<1>2. Used(j) /\ j \notin Waiting /\ child[j].phase # "none"
  BY SuperviseIs, BegunIs DEF Queued
<1>3. registry'[j].status # registry[j].status => {registry[j].status, registry'[j].status} \cap Idle = {}
  BY SuperviseIs DEF Active, Idle, Terminal
<1>4. \A k \in Jobs \ {j} : child'[k] = child[k] /\ session'[k] = session[k]
  BY SuperviseIs
<1>5. \A w \in Workspaces : chain'[w].staging \in {0, j, chain[w].staging}
  BY SuperviseIs
<1> QED BY <1>1, <1>2, <1>3, <1>4, <1>5, SuperviseIs, BegunFiled

(* What leaves the queue.                                                  *)
LEMMA QueueFiled ==
  ASSUME Filed,
         StartNext \/ \E j \in Jobs : CancelRequest(j) \/ CancelDeliver(j)
  PROVE  Queued' /\ Numbered' /\ Versioned'
<1> USE DEF Filed, durable
<1>1. ASSUME NEW j \in Jobs, j \in ToSet(pending),
             /\ ToSet(pending)' \subseteq ToSet(pending) \ {j} /\ OnceEach(pending)',
             registry' = registry \/ registry' = Marked(j, "FAILED") \/ registry' = Marked(j, "CANCELLED"),
             workers' \subseteq workers \cup {j},
             j \in workers' => child'[j].phase # "none",
             \A k \in Jobs \ {j} : child'[k] = child[k],
             UNCHANGED <<verdict, request, stop, events, mapping, chain, session>>
      PROVE  Queued' /\ Numbered' /\ Versioned'
  <2>1. /\ \A k \in Jobs \ {j} : registry'[k] = registry[k]
        /\ registry'[j].workspace = registry[j].workspace
        /\ registry'[j].mapping = registry[j].mapping
        /\ registry'[j].status \in {registry[j].status, "FAILED", "CANCELLED"}
    <3>1. CASE registry' = registry
      BY <3>1
    <3>2. CASE registry' = Marked(j, "FAILED")
      BY <3>2, MarkedAs DEF Statuses, Terminal
    <3>3. CASE registry' = Marked(j, "CANCELLED")
      BY <3>3, MarkedAs DEF Statuses, Terminal
    <3> QED BY <1>1, <3>1, <3>2, <3>3
  <2>2. registry[j].status = "QUEUED" /\ j \notin stop.queued
    BY <1>1 DEF Queued, Waiting
  <2>3. \A k \in Jobs : /\ registry'[k].workspace = registry[k].workspace
                        /\ registry'[k].mapping = registry[k].mapping
                        /\ registry'[k].status = "none" <=> registry[k].status = "none"
                        /\ registry'[k].status \in Idle <=> registry[k].status \in Idle
    BY <2>1, <2>2 DEF Idle
  <2>4. Numbered'
    BY <2>3, NumberedKept
  <2>5. Versioned'
    BY <1>1, <2>3 DEF Versioned, Used, Home
  <2>6. \A k \in Jobs \ {j} : Fresh(k) => Fresh(k)'
    BY <1>1 DEF Fresh
  <2>7. Waiting' \subseteq Waiting \ {j}
    BY <1>1, <2>2 DEF Waiting
  <2>8. \A k \in Waiting' : Fresh(k)' /\ registry'[k].status = "QUEUED"
    BY <2>1, <2>6, <2>7, WaitingAre DEF Queued
  <2>9. \A k \in Jobs : ~Used(k)' => Fresh(k)'
    BY <2>2, <2>3, <2>6 DEF Queued, Used
  <2>10. \A k \in workers' : child'[k].phase # "none"
    BY <1>1 DEF Queued, TypeOK
  <2>11. Queued'
    BY <1>1, <2>8, <2>9, <2>10 DEF Queued
  <2> QED BY <2>4, <2>5, <2>11
<1>2. CASE StartNext
  <2>1. pending # <<>> /\ pending \in Seq(Jobs)
    BY <1>2 DEF StartNext, Scheduling, TypeOK
  <2>2. PICK j \in Jobs : j = Head(pending)
    BY <2>1, TailQueue
  <2>3. /\ j \in ToSet(pending) /\ ToSet(Tail(pending)) \subseteq ToSet(pending) \ {j}
        /\ OnceEach(Tail(pending))
    BY <2>1, <2>2, TailQueue DEF Queued
  <2>4. child' = child \/ child' = [child EXCEPT ![j].phase = "starting"]
    BY <1>2, <2>2
    DEF StartNext, Launch, LaunchWithoutResources, LaunchWithoutProcess, LaunchWithoutSupervisor
  <2>5. \A k \in Jobs \ {j} : child'[k] = child[k]
    BY <2>4 DEF TypeOK
  <2>6. workers' = workers \/ (workers' = workers \cup {j} /\ child'[j].phase = "starting")
    BY <1>2, <2>2
    DEF StartNext, Launch, LaunchWithoutResources, LaunchWithoutProcess, LaunchWithoutSupervisor, TypeOK, Child
  <2>7. j \notin workers
    BY <2>3 DEF Queued, Waiting, Fresh
  <2>8. registry' = registry \/ registry' = Marked(j, "FAILED")
    BY <1>2, <2>2
    DEF StartNext, Launch, LaunchWithoutResources, LaunchWithoutProcess, LaunchWithoutSupervisor
  <2>9. pending' = Tail(pending) /\ UNCHANGED <<verdict, request, stop, events, mapping, chain, session>>
    BY <1>2 DEF StartNext
  <2> QED BY <1>1, <2>3, <2>5, <2>6, <2>7, <2>8, <2>9
<1>3. ASSUME UNCHANGED <<registry, pending, workers, verdict, request, stop, child, events,
                         mapping, chain, session>>
      PROVE  Queued' /\ Numbered' /\ Versioned'
  <2>1. Queued'
    BY <1>3 DEF Queued, Waiting, Fresh, Used
  <2>2. Numbered'
    BY <1>3, NumberedKept
  <2>3. Versioned'
    BY <1>3 DEF Versioned, Used, Home
  <2> QED BY <2>1, <2>2, <2>3
<1>4. ASSUME NEW j \in Jobs, CancelRequest(j) PROVE Queued' /\ Numbered' /\ Versioned'
  BY <1>3, <1>4 DEF CancelRequest
<1>5. ASSUME NEW j \in Jobs, CancelDeliver(j) PROVE Queued' /\ Numbered' /\ Versioned'
  <2>1. CASE UNCHANGED <<pending, registry>>
    BY <1>3, <1>5, <2>1 DEF CancelDeliver
  <2>2. CASE ~UNCHANGED <<pending, registry>>
    <3>1. PICK i \in DOMAIN pending : pending[i] = j /\ pending' = RemoveAt(pending, i)
      BY <1>5, <2>2 DEF CancelDeliver
    <3>2. /\ j \in ToSet(pending) /\ ToSet(RemoveAt(pending, i)) \subseteq ToSet(pending) \ {j}
          /\ OnceEach(RemoveAt(pending, i))
      <4>1. j \in ToSet(pending)
        BY <3>1 DEF ToSet
      <4> QED BY <3>1, <4>1, RemoveQueue DEF Queued, TypeOK
    <3>3. j \notin workers
      BY <3>2 DEF Queued, Waiting, Fresh
    <3> QED BY <1>1, <1>5, <2>2, <3>1, <3>2, <3>3 DEF CancelDeliver
  <2> QED BY <2>1, <2>2
<1> QED BY <1>2, <1>4, <1>5

(* A new mapping leaves older ones behind; evidence is dropped or kept.    *)
LEMMA DecisionIs ==
  ASSUME TypeOK, NEW w \in Workspaces, Remap(w) \/ Approve(w)
  PROVE  /\ \A v \in Workspaces : mapping[v] <= mapping'[v]
         /\ \A v \in Workspaces : chain'[v].staging \in {0, chain[v].staging}
         /\ UNCHANGED <<registry, pending, workers, verdict, cancelSet, cancelling, request, stop,
                        child, events, session>>
<1> USE DEF memory
<1>1. CASE Remap(w)
  <2>1. \A v \in Workspaces : mapping[v] <= mapping'[v]
    BY <1>1 DEF Remap, TypeOK
  <2>2. \A v \in Workspaces : chain'[v].staging \in {0, chain[v].staging}
    BY <1>1 DEF Remap, TypeOK, NoChain
  <2> QED BY <1>1, <2>1, <2>2 DEF Remap
<1>2. CASE Approve(w)
  <2>1. \A v \in Workspaces : mapping[v] <= mapping'[v]
    BY <1>2 DEF Approve, TypeOK
  <2>2. \A v \in Workspaces : chain'[v].staging \in {0, chain[v].staging}
    BY <1>2 DEF Approve, TypeOK, Chain
  <2> QED BY <1>2, <2>1, <2>2 DEF Approve
<1> QED BY <1>1, <1>2

LEMMA DecisionFiled ==
  ASSUME Filed, NEW w \in Workspaces, Remap(w) \/ Approve(w)
  PROVE  Queued' /\ Numbered' /\ Versioned'
<1> USE DEF Filed
<1>1. Numbered'
  BY DecisionIs, NumberedKept
<1>2. 0 \notin Jobs
  BY DEF Jobs
<1>3. \A j \in Jobs : Fresh(j) => Fresh(j)'
  BY <1>2, DecisionIs DEF Fresh
<1>4. Queued'
  <2>1. \A j \in Waiting' : Fresh(j)' /\ registry'[j].status = "QUEUED"
    BY <1>3, DecisionIs, WaitingAre DEF Queued, Waiting
  <2>2. \A j \in Jobs : ~Used(j)' => Fresh(j)'
    BY <1>3, DecisionIs DEF Queued, Used
  <2> QED BY <2>1, <2>2, DecisionIs DEF Queued
<1>5. Versioned'
  <2>1. ASSUME NEW j \in Jobs, Used(j)' PROVE registry'[j].mapping <= mapping'[Home(j)']
    <3>1. registry[j].mapping <= mapping[Home(j)] /\ Home(j) \in Workspaces /\ registry' = registry
      BY <2>1, DecisionIs DEF Versioned, Used, Home, TypeOK, Job
    <3>2. mapping[Home(j)] <= mapping'[Home(j)] /\ registry[j].mapping \in Nat
      BY <3>1, DecisionIs DEF TypeOK, Job
    <3>3. mapping[Home(j)] \in Nat /\ mapping'[Home(j)] \in Nat
      BY <3>1, OtherTypes DEF TypeOK
    <3> QED BY <3>1, <3>2, <3>3 DEF Home
  <2>2. ASSUME NEW r \in Requests, request'[r].pc # "off"
        PROVE  request'[r].mapping <= mapping'[request'[r].workspace]
    <3> DEFINE q == request[r]
    <3>1. q.mapping <= mapping[q.workspace] /\ q.workspace \in Workspaces /\ request' = request
      BY <2>2, DecisionIs DEF Versioned, TypeOK, Request
    <3>2. mapping[q.workspace] <= mapping'[q.workspace] /\ q.mapping \in Nat
      BY <3>1, DecisionIs DEF TypeOK, Request
    <3>3. mapping[q.workspace] \in Nat /\ mapping'[q.workspace] \in Nat
      BY <3>1, OtherTypes DEF TypeOK
    <3> QED BY <3>1, <3>2, <3>3
  <2> QED BY <2>1, <2>2, DecisionIs DEF Versioned
<1> QED BY <1>1, <1>4, <1>5

(* The end of the server, and the next one.                                *)
LEMMA StoppingFiled ==
  ASSUME Filed, BeginStop \/ (\E j \in Jobs : CancelQueued(j)) \/ CancelWorkers \/ EndStop
  PROVE  Queued' /\ Numbered' /\ Versioned'
<1> USE DEF Filed, durable
<1>1. UNCHANGED <<workers, verdict, request, child, events, mapping, chain, session>>
  BY DEF BeginStop, CancelQueued, CancelWorkers, EndStop
<1>2. \A j \in Jobs : Fresh(j)' = Fresh(j)
  BY <1>1 DEF Fresh
<1>3. \A j \in workers' : child'[j].phase # "none"
  BY <1>1 DEF Queued
<1>4. CASE BeginStop \/ CancelWorkers \/ EndStop
  <2>1. registry' = registry
    BY <1>4 DEF BeginStop, CancelWorkers, EndStop
  <2>2. Numbered'
    BY <2>1, NumberedKept
  <2>3. Versioned'
    BY <1>1, <2>1 DEF Versioned, Used, Home
  <2>4. /\ ToSet(pending)' \cup stop'.queued \subseteq Waiting
        /\ OnceEach(pending)' /\ ToSet(pending)' \cap stop'.queued = {}
        /\ stop'.pc # "queue" => stop'.queued = {}
    <3>1. CASE BeginStop
      BY <3>1, EmptyQueue DEF BeginStop, Waiting
    <3>2. CASE CancelWorkers \/ EndStop
      BY <3>2 DEF CancelWorkers, EndStop, Queued, Waiting, TypeOK, Stop
    <3> QED BY <1>4, <3>1, <3>2
  <2>5. \A j \in Waiting' : Fresh(j)' /\ registry'[j].status = "QUEUED"
    BY <1>2, <2>1, <2>4, WaitingAre DEF Queued, Waiting
  <2>6. \A j \in Jobs : ~Used(j)' => Fresh(j)'
    BY <1>2, <2>1 DEF Queued, Used
  <2> QED BY <1>3, <2>2, <2>3, <2>4, <2>5, <2>6 DEF Queued
<1>5. ASSUME NEW j \in Jobs, CancelQueued(j) PROVE Queued' /\ Numbered' /\ Versioned'
  <2>1. /\ registry'[j].status = "CANCELLED" /\ registry'[j].workspace = registry[j].workspace
        /\ registry'[j].mapping = registry[j].mapping
        /\ \A k \in Jobs \ {j} : registry'[k] = registry[k]
    BY <1>5, MarkedAs DEF CancelQueued, Statuses, Terminal
  <2>2. registry[j].status = "QUEUED" /\ j \notin ToSet(pending)
    BY <1>5 DEF CancelQueued, Queued, Waiting
  <2>3. \A k \in Jobs : /\ registry'[k].workspace = registry[k].workspace
                        /\ registry'[k].mapping = registry[k].mapping
                        /\ registry'[k].status = "none" <=> registry[k].status = "none"
                        /\ registry'[k].status \in Idle <=> registry[k].status \in Idle
    BY <2>1, <2>2 DEF Idle
  <2>4. Numbered'
    BY <2>3, NumberedKept
  <2>5. Versioned'
    BY <1>1, <2>3 DEF Versioned, Used, Home
  <2>6. pending' = pending /\ stop'.queued = stop.queued \ {j} /\ stop'.pc = "queue"
    BY <1>5 DEF CancelQueued, TypeOK, Stop
  <2>7. \A k \in Waiting' : k \in Waiting /\ k # j
    BY <2>2, <2>6 DEF Waiting
  <2>8. \A k \in Waiting' : Fresh(k)' /\ registry'[k].status = "QUEUED"
    BY <1>2, <2>1, <2>7, WaitingAre DEF Queued
  <2>9. \A k \in Jobs : ~Used(k)' => Fresh(k)'
    BY <1>2, <2>3 DEF Queued, Used
  <2> QED BY <1>3, <2>4, <2>5, <2>6, <2>8, <2>9 DEF Queued
<1> QED BY <1>4, <1>5

(* Nothing of the memory of a server is in the next one.                   *)
LEMMA RestartIs ==
  ASSUME TypeOK, Restart
  PROVE  /\ \A j \in Jobs : /\ registry'[j].status = IF Used(j) THEN "gone" ELSE "none"
                            /\ registry'[j].workspace = registry[j].workspace
                            /\ registry'[j].mapping = registry[j].mapping
                            /\ child'[j] = child[j] \/ child'[j].phase = "gone"
                            /\ ~Live(j)' /\ events'[j] = <<>> /\ verdict'[j] = "none"
         /\ pending' = <<>> /\ workers' = {} /\ stop' = NoStop
         /\ \A r \in Requests : request'[r].pc = "off" /\ request'[r].result = "none"
         /\ UNCHANGED <<mapping, chain, session>>
<1> USE DEF durable
<1>1. \A j \in Jobs : /\ registry'[j].status = IF Used(j) THEN "gone" ELSE "none"
                      /\ registry'[j].workspace = registry[j].workspace
                      /\ registry'[j].mapping = registry[j].mapping
  <2> SUFFICES ASSUME NEW j \in Jobs
               PROVE  /\ registry'[j].status = IF Used(j) THEN "gone" ELSE "none"
                      /\ registry'[j].workspace = registry[j].workspace
                      /\ registry'[j].mapping = registry[j].mapping
    OBVIOUS
  <2>1. CASE Used(j)
    <3>1. registry'[j] = [registry[j] EXCEPT !.status = "gone"]
      BY <2>1 DEF Restart, Unused, Used
    <3> QED BY <2>1, <3>1 DEF TypeOK, Job
  <2>2. CASE ~Used(j)
    BY <2>2 DEF Restart, Unused, Used
  <2> QED BY <2>1, <2>2
<1>2. \A j \in Jobs : (child'[j] = child[j] \/ child'[j].phase = "gone") /\ ~Live(j)'
  BY DEF Restart, Live, Gone
<1>3. NoRequest.pc = "off" /\ NoRequest.result = "none"
  BY DEF NoRequest
<1> QED BY <1>1, <1>2, <1>3 DEF Restart

LEMMA RestartFiled ==
  ASSUME Filed, Restart
  PROVE  Queued' /\ Numbered' /\ Versioned'
<1> USE DEF Filed
<1>1. \A j \in Jobs : Used(j)' <=> Used(j)
  BY RestartIs DEF Used
<1>2. Queued'
  <2>1. Waiting' = {} /\ OnceEach(pending)' /\ ToSet(pending)' \cap stop'.queued = {} /\ stop'.queued = {}
    BY RestartIs, EmptyQueue DEF Waiting, NoStop
  <2>2. ASSUME NEW j \in Jobs, ~Used(j)' PROVE Fresh(j)'
    <3>1. Fresh(j)
      BY <1>1, <2>2 DEF Queued
    <3>2. child'[j] = NoChild
      BY <3>1 DEF Restart, Fresh, Live, NoChild
    <3> QED BY <3>1, <3>2, RestartIs DEF Fresh
  <2> QED BY <2>1, <2>2, RestartIs DEF Queued
<1>3. Numbered'
  <2>1. \A w \in Workspaces : JobsOf(w)' = {}
    BY RestartIs DEF JobsOf
  <2> QED BY <1>1, <2>1 DEF Numbered
<1>4. Versioned'
  BY <1>1, RestartIs DEF Versioned, Home
<1> QED BY <1>2, <1>3, <1>4

LEMMA NextFiled == Filed /\ [Next]_vars => Filed'
<1> SUFFICES ASSUME Filed, [Next]_vars PROVE Filed'
  OBVIOUS
<1> USE DEF Filed
<1>1. TypeOK'
  BY NextTypes
<1>2. CASE UNCHANGED vars
  <2>1. UNCHANGED <<registry, pending, workers, verdict, request, stop, child, events,
                    mapping, chain, session>>
    BY <1>2 DEF vars, memory, durable
  <2>2. Queued'
    BY <2>1 DEF Queued, Waiting, Fresh, Used
  <2>3. Numbered'
    BY <2>1, NumberedKept
  <2>4. Versioned'
    BY <2>1 DEF Versioned, Used, Home
  <2> QED BY <1>1, <2>2, <2>3, <2>4
<1>3. ASSUME NEW r \in Requests,
             \/ \E w \in Workspaces, p \in BOOLEAN : Observe(r, w, p)
             \/ ReadSaved(r) \/ Restore(r) \/ Enqueue(r)
      PROVE  Filed'
  BY <1>1, <1>3, RequestFiled
<1>4. CASE StartNext \/ \E j \in Jobs : CancelRequest(j) \/ CancelDeliver(j)
  BY <1>1, <1>4, QueueFiled
<1>5. ASSUME NEW j \in Jobs, Work(j) \/ Die(j) \/ Terminate(j) PROVE Filed'
  <2>1. Work(j) \/ (Live(j) /\ Killed(j) /\ UNCHANGED <<memory, durable>>)
    BY <1>5 DEF Die, Terminate, memoryAndBounds, memory, durable
  <2> QED BY <1>1, <2>1, WorkFiled
<1>6. ASSUME NEW j \in Jobs, Supervise(j) PROVE Filed'
  BY <1>1, <1>6, SuperviseFiled
<1>7. ASSUME NEW w \in Workspaces, Remap(w) \/ Approve(w) PROVE Filed'
  BY <1>1, <1>7, DecisionFiled
<1>8. CASE BeginStop \/ (\E j \in Jobs : CancelQueued(j)) \/ CancelWorkers \/ EndStop
  BY <1>1, <1>8, StoppingFiled
<1>9. CASE Restart
  BY <1>1, <1>9, RestartFiled
<1> QED BY <1>2, <1>3, <1>4, <1>5, <1>6, <1>7, <1>8, <1>9 DEF Next, Stopping

(* Jobs, queue, requests, processes and evidence are what they are         *)
(* declared to be.                                                         *)
THEOREM PreparationTypes == Spec => []TypeOK
<1>1. Filed => TypeOK
  BY DEF Filed
<1> QED BY InitFiled, NextFiled, <1>1, PTL DEF Spec

---------------------------------------------------------------------------
(* Evidence and what is said of it.                                        *)
LEMMA InitEvident == Init => Evident
<1> SUFFICES ASSUME Init PROVE Evident
  OBVIOUS
<1>1. \A w \in Workspaces : chain[w].staging = 0 /\ ~chain[w].complete
  BY DEF Init, NoChain
<1>2. \A j \in Jobs : child[j].phase = "none" /\ ~Succeeding(j)
  BY EmptyQueue DEF Init, NoChild, NoJob, Succeeding
<1>3. \A r \in Requests : request[r].result = "none"
  BY DEF Init, NoRequest
<1> QED BY <1>1, <1>2, <1>3 DEF Evident, Current, Complete, Rooted, Saved

LEMMA SucceedingIs ==
  ASSUME Filed, NEW j \in Jobs, Succeeding(j)
  PROVE  Used(j) /\ Home(j) \in Workspaces
BY EmptyQueue DEF Filed, Queued, Fresh, NoChild, Succeeding, Used, Home, TypeOK, Job

LEMMA StagedIs ==
  ASSUME Filed, NEW w \in Workspaces, chain[w].staging # 0
  PROVE  chain[w].staging \in Jobs /\ Used(chain[w].staging)
<1>1. chain[w].staging \in Jobs
  BY DEF Filed, TypeOK, Chain
<1> QED BY <1>1 DEF Filed, Queued, Fresh

(* Where evidence and mappings stay, only who comes to speak of a success  *)
(* has to have it.                                                         *)
LEMMA EvidentKept ==
  ASSUME Filed, Evident, UNCHANGED <<mapping, chain>>,
         \A j \in Jobs : Used(j) =>
           registry'[j].workspace = registry[j].workspace /\ registry'[j].mapping = registry[j].mapping,
         \A j \in Jobs : Succeeding(j)' => Succeeding(j) \/ Has(Home(j), registry[j].mapping)',
         \A j \in Jobs : child'[j].phase = "staged" => child'[j] = child[j],
         \A r \in Requests : request'[r].result = "SUCCEEDED" =>
           \/ request'[r] = request[r]
           \/ request'[r].pc = "restore" /\ Has(request'[r].workspace, request'[r].mapping)
  PROVE  Evident'
<1>1. \A w, m : Has(w, m)' = Has(w, m)
  BY DEF Has
<1>2. \A w \in Workspaces : chain[w].staging # 0 =>
        chain[w].staging \in Jobs /\ Used(chain[w].staging)
  BY StagedIs
<1>3. Current'
  BY <1>2 DEF Evident, Current, Home
<1>4. Complete' /\ Rooted'
  BY DEF Evident, Complete, Rooted
<1>5. ASSUME NEW j \in Jobs, Succeeding(j)' PROVE Has(Home(j), registry[j].mapping)'
  <2>1. CASE Succeeding(j)
    <3>1. Has(Home(j), registry[j].mapping) /\ Used(j)
      BY <2>1, SucceedingIs DEF Evident, Saved
    <3>2. registry'[j].workspace = registry[j].workspace /\ registry'[j].mapping = registry[j].mapping
      BY <3>1
    <3> QED BY <3>1, <3>2 DEF Has, Home
  <2> QED BY <1>5, <2>1
<1>6. ASSUME NEW r \in Requests, request'[r].result = "SUCCEEDED"
      PROVE  request'[r].pc = "restore" /\ Has(request[r].workspace, request[r].mapping)'
  BY <1>6 DEF Has, Evident, Saved
<1> QED BY <1>3, <1>4, <1>5, <1>6 DEF Evident, Saved

LEMMA RequestEvident ==
  ASSUME Filed, Evident, NEW r \in Requests,
         \/ \E w \in Workspaces, p \in BOOLEAN : Observe(r, w, p)
         \/ ReadSaved(r) \/ Restore(r) \/ Enqueue(r)
  PROVE  Evident'
<1> USE DEF durable
<1> DEFINE q == request[r]
<1>1. q \in Request /\ q.workspace \in Workspaces
  BY DEF Filed, TypeOK, Request
<1>2. ASSUME Ended(r)
      PROVE  \A p \in Requests : request'[p].result = "SUCCEEDED" => request'[p] = request[p]
  BY <1>2, EndedIs DEF Filed
<1>3. ASSUME UNCHANGED <<registry, verdict, child, events, mapping, chain>>,
             \A p \in Requests : request'[p].result = "SUCCEEDED" =>
               \/ request'[p] = request[p]
               \/ request'[p].pc = "restore" /\ Has(request'[p].workspace, request'[p].mapping)
      PROVE  Evident'
  <2>1. \A j \in Jobs : Succeeding(j)' => Succeeding(j)
    BY <1>3 DEF Succeeding
  <2> QED BY <1>3, <2>1, EvidentKept
<1>4. ASSUME Unused # {}, Ended(r), NEW status \in Statuses,
             registry' = [registry EXCEPT ![NextJob] = NewJob(q, status)],
             status = "SUCCEEDED" => Has(q.workspace, q.mapping),
             UNCHANGED <<verdict, child, events, mapping, chain>>
      PROVE  Evident'
  <2>1. NextJob \in Jobs /\ ~Used(NextJob)
    BY <1>4, NextIs DEF Filed
  <2>2. /\ registry'[NextJob].status = status /\ registry'[NextJob].workspace = q.workspace
        /\ registry'[NextJob].mapping = q.mapping
        /\ \A j \in Jobs \ {NextJob} : registry'[j] = registry[j]
    BY <1>4, <2>1 DEF NewJob, Filed, TypeOK
  <2>3. ~Succeeding(NextJob)
    BY <2>1, SucceedingIs
  <2>4. \A j \in Jobs : Succeeding(j)' => Succeeding(j) \/ Has(Home(j), registry[j].mapping)'
    BY <1>4, <2>2, <2>3 DEF Succeeding, Has, Home
  <2>5. \A j \in Jobs : Used(j) =>
          registry'[j].workspace = registry[j].workspace /\ registry'[j].mapping = registry[j].mapping
    BY <2>1, <2>2
  <2>6. \A p \in Requests : request'[p].result = "SUCCEEDED" => request'[p] = request[p]
    BY <1>2, <1>4
  <2> QED BY <1>4, <2>4, <2>5, <2>6, EvidentKept
<1>5. CASE \E w \in Workspaces, p \in BOOLEAN : Observe(r, w, p)
  <2>1. PICK w \in Workspaces, p \in BOOLEAN : Observe(r, w, p)
    BY <1>5
  <2>2. request'[r].result = "none" /\ \A s \in Requests \ {r} : request'[s] = request[s]
    BY <2>1 DEF Observe, Filed, TypeOK
  <2> QED BY <1>3, <2>1, <2>2 DEF Observe
<1>6. CASE ReadSaved(r)
  <2> DEFINE found == CurrentResult(q.workspace, q.mapping)
  <2>1. CASE found # "none" /\ request' = [request EXCEPT ![r].pc = "restore", ![r].result = found]
    <3>1. found = "SUCCEEDED" => Has(q.workspace, q.mapping)
      BY DEF CurrentResult, Has
    <3> HIDE DEF found
    <3>2. /\ request'[r].mapping = q.mapping /\ request'[r].workspace = q.workspace
          /\ request'[r].result = found /\ request'[r].pc = "restore"
          /\ \A p \in Requests \ {r} : request'[p] = request[p]
      BY <2>1 DEF Filed, TypeOK, Request
    <3> QED BY <1>3, <1>6, <3>1, <3>2 DEF ReadSaved
  <2>2. CASE request' = [request EXCEPT ![r].pc = "enqueue", ![r].mapping = mapping[q.workspace]]
    <3>1. request[r].result # "SUCCEEDED"
      BY <1>6 DEF ReadSaved, Evident, Saved
    <3>2. request'[r].result = q.result /\ \A p \in Requests \ {r} : request'[p] = request[p]
      BY <2>2 DEF Filed, TypeOK, Request
    <3> QED BY <1>3, <1>6, <3>1, <3>2 DEF ReadSaved
  <2>3. CASE Ended(r)
    BY <1>2, <1>3, <1>6, <2>3 DEF ReadSaved
  <2> QED BY <1>6, <2>1, <2>2, <2>3 DEF ReadSaved
<1>7. CASE Restore(r)
  <2>1. CASE Restored(q)
    <3>1. q.result \in Statuses
      BY <1>1 DEF Request, Statuses, Results, Terminal
    <3>2. q.result = "SUCCEEDED" => Has(q.workspace, q.mapping)
      BY DEF Evident, Saved
    <3> QED BY <1>4, <1>7, <2>1, <3>1, <3>2 DEF Restore
  <2>2. CASE ~Restored(q)
    BY <1>2, <1>3, <1>7, <2>2 DEF Restore
  <2> QED BY <2>1, <2>2
<1>8. CASE Enqueue(r)
  <2>1. CASE \E j \in JobsOf(q.workspace) : Active(j)
    BY <1>2, <1>3, <1>8, <2>1 DEF Enqueue
  <2>2. CASE ~ \E j \in JobsOf(q.workspace) : Active(j)
    <3>1. "QUEUED" \in Statuses
      BY DEF Statuses
    <3> QED BY <1>4, <1>8, <2>2, <3>1 DEF Enqueue
  <2> QED BY <2>1, <2>2
<1> QED BY <1>5, <1>6, <1>7, <1>8

(* A queue, a shutdown or a process that ends speaks of no success.        *)
LEMMA QueueEvident ==
  ASSUME Filed, Evident,
         \/ StartNext \/ \E j \in Jobs : CancelRequest(j) \/ CancelDeliver(j)
         \/ BeginStop \/ (\E j \in Jobs : CancelQueued(j)) \/ CancelWorkers \/ EndStop
  PROVE  Evident'
<1> USE DEF durable
<1>1. ASSUME NEW j \in Jobs,
             registry' = registry \/ registry' = Marked(j, "FAILED") \/ registry' = Marked(j, "CANCELLED"),
             child' = child \/ child' = [child EXCEPT ![j].phase = "starting"],
             UNCHANGED <<verdict, request, events, mapping, chain>>
      PROVE  Evident'
  <2>1. \A k \in Jobs : /\ registry'[k].workspace = registry[k].workspace
                        /\ registry'[k].mapping = registry[k].mapping
                        /\ registry'[k].status = "SUCCEEDED" => registry[k].status = "SUCCEEDED"
    <3>1. CASE registry' = registry
      BY <3>1
    <3>2. CASE registry' = Marked(j, "FAILED")
      BY <3>2, MarkedAs DEF Filed, Statuses, Terminal
    <3>3. CASE registry' = Marked(j, "CANCELLED")
      BY <3>3, MarkedAs DEF Filed, Statuses, Terminal
    <3> QED BY <1>1, <3>1, <3>2, <3>3
  <2>2. \A k \in Jobs : child'[k] = child[k] \/ child'[k].phase = "starting"
    BY <1>1 DEF Filed, TypeOK, Child
  <2>3. \A k \in Jobs : Succeeding(k)' => Succeeding(k)
    BY <1>1, <2>1, <2>2 DEF Succeeding
  <2>4. \A k \in Jobs : child'[k].phase = "staged" => child'[k] = child[k]
    BY <2>2
  <2> QED BY <1>1, <2>1, <2>3, <2>4, EvidentKept
<1>2. CASE StartNext
  <2>1. PICK j \in Jobs : j = Head(pending)
    BY <1>2, TailQueue DEF StartNext, Scheduling, Filed, TypeOK
  <2> QED BY <1>1, <1>2, <2>1
    DEF StartNext, Launch, LaunchWithoutResources, LaunchWithoutProcess, LaunchWithoutSupervisor
<1>3. ASSUME NEW j \in Jobs, CancelRequest(j) \/ CancelDeliver(j) \/ CancelQueued(j) PROVE Evident'
  BY <1>1, <1>3 DEF CancelRequest, CancelDeliver, CancelQueued
<1>4. CASE BeginStop \/ CancelWorkers \/ EndStop
  <2>1. UNCHANGED <<registry, child, verdict, request, events, mapping, chain>>
    BY <1>4 DEF BeginStop, CancelWorkers, EndStop
  <2>2. \A k \in Jobs : Succeeding(k)' => Succeeding(k)
    BY <2>1 DEF Succeeding
  <2> QED BY <2>1, <2>2, EvidentKept
<1> QED BY <1>2, <1>3, <1>4

LEMMA KilledEvident ==
  ASSUME Filed, Evident, NEW j \in Jobs, Killed(j), UNCHANGED <<memory, durable>>
  PROVE  Evident'
<1> USE DEF memory, durable
<1>1. \A k \in Jobs : ToSet(events'[k]) \subseteq ToSet(events[k])
  BY KilledIs DEF Filed
<1>2. \A k \in Jobs : child'[k] = child[k] \/ child'[k].phase = "gone"
  BY KilledIs DEF Filed
<1>3. \A k \in Jobs : Succeeding(k)' => Succeeding(k)
  BY <1>1, <1>2 DEF Succeeding
<1>4. \A k \in Jobs : child'[k].phase = "staged" => child'[k] = child[k]
  BY <1>2
<1> QED BY <1>3, <1>4, EvidentKept

LEMMA SuperviseEvident ==
  ASSUME Filed, Evident, NEW j \in Jobs, Supervise(j)
  PROVE  Evident'
<1>1. /\ \A k \in Jobs \ {j} :
           events'[k] = events[k] /\ verdict'[k] = verdict[k] /\ registry'[k] = registry[k]
      /\ registry'[j].workspace = registry[j].workspace /\ registry'[j].mapping = registry[j].mapping
      /\ ToSet(events'[j]) \subseteq ToSet(events[j])
      /\ UNCHANGED <<request, child, mapping, chain>>
  BY SuperviseIs DEF Filed
<1>2. \A k \in Jobs \ {j} : Succeeding(k)' => Succeeding(k)
  BY <1>1 DEF Succeeding
<1>3. \/ registry'[j].status # "SUCCEEDED" \/ Succeeding(j)
  <2>1. CASE HandleEvent(j)
    <3>1. Head(events[j]) \in Kinds /\ Head(events[j]) \in ToSet(events[j])
      BY <2>1, EventsAre DEF HandleEvent, Filed, TypeOK
    <3>2. Outcome(Head(events[j])) \in Statuses
      BY <3>1 DEF Outcome, Kinds, Statuses, Terminal
    <3>3. registry'[j].status = Outcome(Head(events[j]))
      BY <2>1, <3>2, MarkedAs DEF HandleEvent, Filed
    <3>4. Outcome(Head(events[j])) = "SUCCEEDED" => Head(events[j]) = "succeeded"
      BY <3>1 DEF Outcome, Kinds
    <3> QED BY <3>1, <3>3, <3>4 DEF Succeeding
  <2>2. CASE Conclude(j)
    <3>1. verdict[j] \in Statuses
      BY <2>2 DEF Conclude, Filed, TypeOK, Statuses, Terminal, Results
    <3>2. registry'[j].status = verdict[j]
      BY <2>2, <3>1, MarkedAs DEF Conclude, Filed
    <3> QED BY <3>2 DEF Succeeding
  <2>3. CASE ReadResult(j) \/ Release(j)
    BY <2>3 DEF ReadResult, Release, Succeeding
  <2> QED BY <2>1, <2>2, <2>3 DEF Supervise
<1>4. verdict'[j] = "SUCCEEDED" => Succeeding(j) \/ Has(Home(j), registry[j].mapping)
  <2>1. CASE ReadResult(j)
    <3>1. verdict'[j] \in {"EXITED", CurrentResult(Home(j), registry[j].mapping)}
      BY <2>1 DEF ReadResult, Filed, TypeOK
    <3> QED BY <3>1 DEF CurrentResult, Has
  <2>2. CASE Conclude(j)
    BY <2>2 DEF Conclude, Filed, TypeOK
  <2>3. CASE HandleEvent(j) \/ Release(j)
    BY <2>3 DEF HandleEvent, Release, Succeeding
  <2> QED BY <2>1, <2>2, <2>3 DEF Supervise
<1>5. Succeeding(j)' => Succeeding(j) \/ Has(Home(j), registry[j].mapping)'
  BY <1>1, <1>3, <1>4 DEF Succeeding, Has, Home
<1> QED BY <1>1, <1>2, <1>5, EvidentKept

(* Where nothing ceases to be complete, who spoke of a success still may.  *)
LEMMA SavedKept ==
  ASSUME Filed, Evident, UNCHANGED <<mapping, registry, request>>,
         \A v \in Workspaces : chain[v].complete => chain'[v].complete,
         \A k \in Jobs : Succeeding(k)' => Succeeding(k) \/ Has(Home(k), registry[k].mapping)'
  PROVE  Saved'
<1>1. \A v \in Workspaces : \A n : Has(v, n) => Has(v, n)'
  BY DEF Has
<1>2. ASSUME NEW k \in Jobs, Succeeding(k)' PROVE Has(Home(k), registry[k].mapping)'
  <2>1. CASE Succeeding(k)
    <3>1. Has(Home(k), registry[k].mapping) /\ Home(k) \in Workspaces
      BY <2>1, SucceedingIs DEF Evident, Saved
    <3> QED BY <1>1, <3>1 DEF Home
  <2> QED BY <1>2, <2>1
<1>3. ASSUME NEW r \in Requests, request'[r].result = "SUCCEEDED"
      PROVE  request'[r].pc = "restore" /\ Has(request[r].workspace, request[r].mapping)'
  <2>1. /\ request[r].pc = "restore" /\ Has(request[r].workspace, request[r].mapping)
        /\ request[r].workspace \in Workspaces
    BY <1>3 DEF Evident, Saved, Filed, TypeOK, Request
  <2> QED BY <1>1, <2>1
<1> QED BY <1>2, <1>3 DEF Saved

(* The steps of a child: only what is normalized is complete, and only     *)
(* what is complete is reported.                                           *)
LEMMA WorkEvident ==
  ASSUME Filed, Evident, NEW j \in Jobs, Work(j)
  PROVE  Evident'
<1> USE DEF memoryAndBounds, memory, durable
<1> DEFINE w == Home(j)
           m == registry[j].mapping
<1>1. /\ Used(j) /\ w \in Workspaces /\ child[j] \in Child /\ events[j] \in Seq(Kinds)
      /\ chain[w] \in Chain
  BY WorkIs, BegunIs DEF Live, Filed, TypeOK, Job, Home
<1>2. /\ \A k \in Jobs \ {j} : child'[k] = child[k] /\ events'[k] = events[k]
      /\ UNCHANGED <<registry, verdict, request, mapping>>
  BY WorkIs DEF Filed
<1>3. \A k \in Jobs \ {j} : Succeeding(k)' = Succeeding(k)
  BY <1>2 DEF Succeeding
<1>4. \A kind \in Kinds : Tell(j, kind) => ToSet(events'[j]) = ToSet(events[j]) \cup {kind}
  BY <1>1, EventsAre DEF Tell, Filed, TypeOK
<1>5. \A phase \in Phases : Move(j, phase) => child'[j].phase = phase /\ child'[j].staging = child[j].staging
  BY <1>1 DEF Move, Filed, TypeOK, Child
<1>6. ASSUME UNCHANGED chain, Succeeding(j)' => Succeeding(j), child'[j].phase # "staged"
      PROVE  Evident'
  BY <1>2, <1>3, <1>6, EvidentKept
<1>7. CASE Begin(j) \/ StopAtCheckpoint(j) \/ PassLastCheckpoint(j) \/ Fail(j)
  <2>1. child'[j].phase \in {"computing", "publishing", "reporting"}
    BY <1>5, <1>7 DEF Begin, StopAtCheckpoint, PassLastCheckpoint, Fail, Phases
  <2>2. "succeeded" \in ToSet(events'[j]) => "succeeded" \in ToSet(events[j])
    <3>1. \/ UNCHANGED events
          \/ \E kind \in Kinds \ {"succeeded"} : Tell(j, kind)
      BY <1>7 DEF Begin, StopAtCheckpoint, PassLastCheckpoint, Fail, Kinds
    <3> QED BY <1>4, <3>1
  <2>3. UNCHANGED chain
    BY <1>7 DEF Begin, StopAtCheckpoint, PassLastCheckpoint, Fail
  <2> QED BY <1>2, <1>6, <2>1, <2>2, <2>3 DEF Succeeding
<1>8. CASE MarkPublished(j) \/ ReportSuccess(j) \/ Exit(j)
  <2>1. /\ child'[j].phase \in {"published", "reporting", "gone"} /\ UNCHANGED chain
        /\ child'[j].phase = "published" => child[j].phase = "normalized"
    BY <1>1, <1>5, <1>8 DEF MarkPublished, ReportSuccess, Exit, Gone, Phases, At, Filed, TypeOK
  <2>2. "succeeded" \in ToSet(events'[j]) => "succeeded" \in ToSet(events[j]) \/ child[j].phase = "published"
    BY <1>4, <1>8 DEF MarkPublished, ReportSuccess, Exit, At, Kinds
  <2> QED BY <1>2, <1>6, <2>1, <2>2 DEF Succeeding
<1>9. CASE PublishStaging(j)
  <2>1. PICK used \in Jobs :
          /\ used = IF chain[w].staging = 0 THEN j ELSE chain[w].staging
          /\ child' = [child EXCEPT ![j] = [phase |-> "staged", staging |-> used]]
          /\ chain' = [chain EXCEPT ![w].staging = used]
    BY <1>1, <1>9 DEF PublishStaging, Chain
  <2>2. /\ chain'[w].staging = used /\ chain'[w].review = chain[w].review
        /\ chain'[w].complete = chain[w].complete
        /\ \A v \in Workspaces \ {w} : chain'[v] = chain[v]
    BY <1>1, <2>1 DEF Filed, TypeOK, Chain
  <2>3. child'[j].phase = "staged" /\ child'[j].staging = used
    BY <2>1 DEF Filed, TypeOK
  <2>4. mapping[w] = m /\ UNCHANGED events
    BY <1>9 DEF PublishStaging
  <2>5. Home(used) = w /\ registry[used].mapping = mapping[w]
    BY <1>1, <2>1, <2>4 DEF Evident, Current
  <2>6. used # 0
    BY DEF Jobs
  <2> HIDE DEF w, m
  <2>7. Current'
    BY <1>2, <2>2, <2>5 DEF Evident, Current, Home
  <2>8. Complete' /\ Rooted'
    BY <1>2, <2>2, <2>3, <2>6 DEF Evident, Complete, Rooted
  <2>9. \A k \in Jobs : Succeeding(k)' => Succeeding(k)
    BY <1>2, <1>3, <2>3, <2>4 DEF Succeeding
  <2>10. Saved'
    BY <1>2, <2>2, <2>9, SavedKept
  <2> QED BY <2>7, <2>8, <2>10 DEF Evident
<1>10. CASE AskForReview(j) \/ Normalize(j)
  <2>1. \/ /\ AskForReview(j) /\ chain' = [chain EXCEPT ![w].review = "waiting"]
           /\ w \in Duplicated /\ chain[w].review # "frozen"
        \/ /\ Normalize(j) /\ chain' = [chain EXCEPT ![w].complete = TRUE]
           /\ w \in Duplicated => chain[w].review = "frozen"
    BY <1>10 DEF AskForReview, Normalize
  <2>2. \A v \in Workspaces \ {w} : chain'[v] = chain[v]
    BY <2>1 DEF Filed, TypeOK
  <2>3. chain'[w].staging = chain[w].staging
    <3>1. CASE chain' = [chain EXCEPT ![w].review = "waiting"]
      BY <1>1, <3>1 DEF Filed, TypeOK, Chain
    <3>2. CASE chain' = [chain EXCEPT ![w].complete = TRUE]
      BY <1>1, <3>2 DEF Filed, TypeOK, Chain
    <3> QED BY <2>1, <3>1, <3>2
  <2>4. \/ /\ AskForReview(j) /\ chain'[w].complete = chain[w].complete
           /\ w \in Duplicated /\ chain[w].review # "frozen"
        \/ /\ Normalize(j) /\ chain'[w].complete = TRUE /\ chain'[w].review = chain[w].review
           /\ w \in Duplicated => chain[w].review = "frozen"
    <3>1. CASE chain' = [chain EXCEPT ![w].review = "waiting"]
      BY <1>1, <2>1, <3>1 DEF Filed, TypeOK, Chain
    <3>2. CASE chain' = [chain EXCEPT ![w].complete = TRUE]
      BY <1>1, <2>1, <3>2 DEF Filed, TypeOK, Chain
    <3> QED BY <2>1, <3>1, <3>2
  <2>5. /\ child'[j].phase \in {"reporting", "normalized"}
        /\ child'[j].phase = "normalized" => Normalize(j)
    BY <1>5, <1>10 DEF AskForReview, Normalize, Phases
  <2>6. "succeeded" \in ToSet(events'[j]) => "succeeded" \in ToSet(events[j])
    BY <1>4, <1>10 DEF AskForReview, Normalize, Kinds
  <2>7. chain[w].staging # 0
    BY <1>10 DEF AskForReview, Normalize, At, Evident, Rooted
  <2> HIDE DEF w, m
  <2>8. Current'
    BY <1>2, <2>2, <2>3 DEF Evident, Current, Home
  <2>9. Complete' /\ Rooted'
    BY <1>2, <2>2, <2>3, <2>4, <2>5, <2>7 DEF Evident, Complete, Rooted
  <2>10. child'[j].phase = "normalized" => Has(Home(j), registry[j].mapping)'
    <3>1. Normalize(j) => ~AskForReview(j)
      BY DEF Normalize, AskForReview
    <3> QED BY <1>2, <2>4, <2>5, <3>1 DEF Has, Home, w
  <2>11. \A k \in Jobs : Succeeding(k)' => Succeeding(k) \/ Has(Home(k), registry[k].mapping)'
    BY <1>2, <1>3, <2>5, <2>6, <2>10 DEF Succeeding
  <2>12. Saved'
    BY <1>2, <2>2, <2>4, <2>11, SavedKept
  <2> QED BY <2>8, <2>9, <2>12 DEF Evident
<1> QED BY <1>7, <1>8, <1>9, <1>10 DEF Work

(* A new mapping leaves nothing current, and nobody speaks of it yet.      *)
LEMMA DecisionEvident ==
  ASSUME Filed, Evident, NEW w \in Workspaces, Remap(w) \/ Approve(w)
  PROVE  Evident'
<1>1. UNCHANGED <<registry, verdict, request, child, events>>
  BY DecisionIs DEF Filed
<1>2. \A k \in Jobs : Succeeding(k)' = Succeeding(k)
  BY <1>1 DEF Succeeding
<1>3. Rooted'
  BY <1>1 DEF Evident, Rooted
<1>4. CASE Approve(w)
  <2>1. /\ \A v \in Workspaces : chain'[v].staging = chain[v].staging /\ chain'[v].complete = chain[v].complete
        /\ \A v \in Workspaces : chain[v].review = "frozen" => chain'[v].review = "frozen"
    BY <1>4 DEF Approve, Filed, TypeOK, Chain
  <2>2. UNCHANGED mapping
    BY <1>4 DEF Approve
  <2>3. Current' /\ Complete'
    BY <1>1, <2>1, <2>2 DEF Evident, Current, Complete, Home
  <2>4. Saved'
    BY <1>1, <1>2, <2>1, <2>2, SavedKept
  <2> QED BY <1>3, <2>3, <2>4 DEF Evident
<1>5. CASE Remap(w)
  <2>1. /\ \A v \in Workspaces \ {w} : chain'[v] = chain[v] /\ mapping'[v] = mapping[v]
        /\ chain'[w].staging = 0 /\ ~chain'[w].complete /\ mapping'[w] = mapping[w] + 1
    BY <1>5 DEF Remap, NoChain, Filed, TypeOK
  <2>2. Current' /\ Complete'
    BY <1>1, <2>1 DEF Evident, Current, Complete, Home
  <2>3. ASSUME NEW v \in Workspaces, NEW n \in Nat, n <= mapping[v], Has(v, n) PROVE Has(v, n)'
    BY <2>1, <2>3 DEF Has, Filed, TypeOK
  <2>4. ASSUME NEW k \in Jobs, Succeeding(k)' PROVE Has(Home(k), registry[k].mapping)'
    <3>1. /\ Has(Home(k), registry[k].mapping) /\ Home(k) \in Workspaces
          /\ registry[k].mapping \in Nat /\ registry[k].mapping <= mapping[Home(k)]
      BY <1>2, <2>4, SucceedingIs DEF Evident, Saved, Filed, Versioned, TypeOK, Job
    <3> QED BY <1>1, <2>3, <3>1 DEF Home
  <2>5. ASSUME NEW r \in Requests, request'[r].result = "SUCCEEDED"
        PROVE  request'[r].pc = "restore" /\ Has(request[r].workspace, request[r].mapping)'
    <3>1. /\ Has(request[r].workspace, request[r].mapping) /\ request[r].workspace \in Workspaces
          /\ request[r].pc = "restore" /\ request[r].mapping \in Nat
          /\ request[r].mapping <= mapping[request[r].workspace]
      BY <1>1, <2>5 DEF Evident, Saved, Filed, Versioned, TypeOK, Request
    <3> QED BY <1>1, <2>3, <3>1
  <2>6. Saved'
    BY <1>1, <2>4, <2>5 DEF Saved
  <2> QED BY <1>3, <2>2, <2>6 DEF Evident
<1> QED BY <1>4, <1>5

LEMMA RestartEvident ==
  ASSUME Filed, Evident, Restart
  PROVE  Evident'
<1>1. \A j \in Jobs : ~Succeeding(j)'
  BY EmptyQueue, RestartIs DEF Succeeding, Filed, Live
<1>2. \A j \in Jobs : child'[j].phase # "staged"
  BY RestartIs DEF Filed, Live
<1> QED BY <1>1, <1>2, RestartIs, EvidentKept DEF Filed

LEMMA NextEvident == Filed /\ Evident /\ [Next]_vars => Evident'
<1> SUFFICES ASSUME Filed, Evident, [Next]_vars PROVE Evident'
  OBVIOUS
<1>1. CASE UNCHANGED vars
  <2>1. UNCHANGED <<registry, verdict, request, child, events, mapping, chain>>
    BY <1>1 DEF vars, memory, durable
  <2>2. \A j \in Jobs : Succeeding(j)' => Succeeding(j)
    BY <2>1 DEF Succeeding
  <2> QED BY <2>1, <2>2, EvidentKept
<1>2. ASSUME NEW j \in Jobs, Die(j) \/ Terminate(j) PROVE Evident'
  BY <1>2, KilledEvident DEF Die, Terminate, memoryAndBounds, memory, durable
<1> QED BY <1>1, <1>2, RequestEvident, QueueEvident, WorkEvident, SuperviseEvident, DecisionEvident,
           RestartEvident DEF Next, Stopping

(* What a Workspace has complete is of its current mapping and of rows     *)
(* whose duplicates are settled, whichever attempts and decisions came     *)
(* between the steps of the one that completed it.                         *)
THEOREM CompleteStaysCurrent == Spec => []CompleteIsCurrent
<1>1. Init => Filed /\ Evident
  BY InitFiled, InitEvident
<1>2. Filed /\ Evident /\ [Next]_vars => Filed' /\ Evident'
  BY NextFiled, NextEvident
<1>3. Evident => CompleteIsCurrent
  BY DEF Evident, Current, Complete, CompleteIsCurrent
<1> QED BY <1>1, <1>2, <1>3, PTL DEF Spec

(* What succeeded, by report, recovery or restoration, has its evidence as *)
(* long as its mapping is the current one, whatever was read or not.       *)
THEOREM SuccessStaysSaved == Spec => []SuccessIsSaved
<1>1. Init => Filed /\ Evident
  BY InitFiled, InitEvident
<1>2. Filed /\ Evident /\ [Next]_vars => Filed' /\ Evident'
  BY NextFiled, NextEvident
<1>3. Evident => SuccessIsSaved
  BY DEF Evident, Saved, Succeeding, Has, SuccessIsSaved
<1> QED BY <1>1, <1>2, <1>3, PTL DEF Spec

---------------------------------------------------------------------------
(* A step makes one job of a request, moves a job that is active, or loses *)
(* them all.                                                               *)
Made(r, status) ==
  /\ Unused # {} /\ status \in Statuses \ Idle
  /\ registry' = [registry EXCEPT ![NextJob] = NewJob(request[r], status)]
Enqueued(r) == Enqueue(r) /\ \A j \in JobsOf(request[r].workspace) : ~Active(j)
Moved(j) ==
  /\ registry'[j].workspace = registry[j].workspace
  /\ registry'[j].mapping = registry[j].mapping
  /\ \/ registry'[j].status = registry[j].status
     \/ Active(j) /\ registry'[j].status \in Terminal \cup {"RUNNING"}

LEMMA JobsMove ==
  ASSUME Filed, [Next]_vars
  PROVE  \/ \A j \in Jobs : Moved(j)
         \/ Restart
         \/ \E r \in Requests :
              \/ Enqueued(r) /\ Made(r, "QUEUED")
              \/ Restore(r) /\ Restored(request[r]) /\ Made(r, request[r].result)
<1> USE DEF durable
<1>1. ASSUME UNCHANGED registry PROVE \A j \in Jobs : Moved(j)
  BY <1>1 DEF Moved
<1>2. ASSUME NEW j \in Jobs, NEW status \in {"FAILED", "CANCELLED"},
             registry' = Marked(j, status), registry[j].status = "QUEUED"
      PROVE  \A k \in Jobs : Moved(k)
  <2>1. status \in Statuses /\ status \in Terminal /\ Active(j)
    BY <1>2 DEF Statuses, Terminal, Active
  <2> QED BY <1>2, <2>1, MarkedAs DEF Moved, Filed
<1>3. CASE UNCHANGED vars
  BY <1>1, <1>3 DEF vars, memory
<1>4. ASSUME NEW r \in Requests, Restore(r) \/ Enqueue(r)
      PROVE  \/ UNCHANGED registry
             \/ Enqueued(r) /\ Made(r, "QUEUED")
             \/ Restore(r) /\ Restored(request[r]) /\ Made(r, request[r].result)
  <2>1. CASE Restore(r)
    <3>1. request[r].result \in Statuses \ Idle
      BY <2>1 DEF Restore, Filed, Versioned, Results, Statuses, Terminal, Idle
    <3> QED BY <2>1, <3>1 DEF Restore, Made
  <2>2. CASE Enqueue(r)
    BY <2>2 DEF Enqueue, Enqueued, Made, Statuses, Idle
  <2> QED BY <1>4, <2>1, <2>2
<1>5. CASE StartNext
  <2>1. PICK j \in Jobs : j = Head(pending) /\ registry[j].status = "QUEUED"
    <3>1. pending # <<>> /\ pending \in Seq(Jobs)
      BY <1>5 DEF StartNext, Scheduling, Filed, TypeOK
    <3>2. Head(pending) \in Jobs /\ Head(pending) \in Waiting
      BY <3>1, TailQueue DEF Waiting
    <3> QED BY <3>2 DEF Filed, Queued
  <2>2. UNCHANGED registry \/ registry' = Marked(j, "FAILED")
    BY <1>5, <2>1
    DEF StartNext, Launch, LaunchWithoutResources, LaunchWithoutProcess, LaunchWithoutSupervisor
  <2> QED BY <1>1, <1>2, <2>1, <2>2
<1>6. ASSUME NEW j \in Jobs, CancelRequest(j) \/ CancelDeliver(j) PROVE \A k \in Jobs : Moved(k)
  <2>1. CASE UNCHANGED registry
    BY <1>1, <2>1
  <2>2. CASE ~UNCHANGED registry
    <3>1. registry' = Marked(j, "CANCELLED") /\ \E i \in DOMAIN pending : pending[i] = j
      BY <1>6, <2>2 DEF CancelRequest, CancelDeliver
    <3>2. registry[j].status = "QUEUED"
      BY <3>1 DEF Filed, Queued, Waiting, ToSet
    <3> QED BY <1>2, <3>1, <3>2
  <2> QED BY <2>1, <2>2
<1>7. ASSUME NEW j \in Jobs, Work(j) \/ Die(j) PROVE UNCHANGED registry
  BY <1>7, WorkIs DEF Die, memory, Filed
<1>8. ASSUME NEW j \in Jobs, Supervise(j) PROVE \A k \in Jobs : Moved(k)
  BY <1>8, SuperviseIs DEF Moved, Filed
<1>9. CASE Stopping
  <2>1. ASSUME NEW j \in Jobs, CancelQueued(j) PROVE \A k \in Jobs : Moved(k)
    <3>1. registry[j].status = "QUEUED" /\ registry' = Marked(j, "CANCELLED")
      BY <2>1 DEF CancelQueued, Filed, Queued, Waiting
    <3> QED BY <1>2, <3>1
  <2>2. ASSUME NEW j \in Jobs, Terminate(j) PROVE UNCHANGED registry
    BY <2>2 DEF Terminate, memoryAndBounds, memory
  <2>3. CASE BeginStop \/ CancelWorkers \/ EndStop
    BY <1>1, <2>3 DEF BeginStop, CancelWorkers, EndStop
  <2> QED BY <1>1, <1>9, <2>1, <2>2, <2>3 DEF Stopping
<1>10. ASSUME NEW w \in Workspaces, Remap(w) \/ Approve(w) PROVE UNCHANGED registry
  BY <1>10, DecisionIs DEF Filed
<1>11. ASSUME NEW r \in Requests,
              (\E w \in Workspaces, p \in BOOLEAN : Observe(r, w, p)) \/ ReadSaved(r)
       PROVE  UNCHANGED registry
  BY <1>11 DEF Observe, ReadSaved
<1> QED BY <1>1, <1>3, <1>4, <1>5, <1>6, <1>7, <1>8, <1>9, <1>10, <1>11 DEF Next

(* Job by job: what is used stays used, as what it was made for.           *)
LEMMA JobsStay ==
  ASSUME Filed, [Next]_vars, NEW j \in Jobs, Used(j)
  PROVE  /\ Used(j)' /\ registry'[j].workspace = registry[j].workspace
         /\ registry'[j].mapping = registry[j].mapping
         /\ Active(j) \/ registry'[j].status \in {registry[j].status, "gone"}
<1>1. CASE \A k \in Jobs : Moved(k)
  BY <1>1 DEF Moved, Used, Terminal
<1>2. CASE Restart
  BY <1>2, RestartIs DEF Filed, Used
<1>3. ASSUME NEW r \in Requests, NEW status, Made(r, status) PROVE registry'[j] = registry[j]
  BY <1>3, NextIs DEF Made, Filed, TypeOK
<1> QED BY <1>1, <1>2, <1>3, JobsMove DEF Used

---------------------------------------------------------------------------
(* What a request goes on with is what it saw when it began.               *)
Looking == {"read", "restore"}

LEMMA RequestsMove ==
  ASSUME Filed, [Next]_vars, NEW r \in Requests, request'[r].pc \in Looking
  PROVE  \/ /\ request[r].pc \in Looking
            /\ request'[r].expected = request[r].expected
            /\ request'[r].workspace = request[r].workspace
         \/ \E w \in Workspaces :
              /\ request'[r].expected = Latest(w) /\ request'[r].workspace = w
              /\ Latest(w) # 0 => \/ registry[Latest(w)].mapping # mapping[w]
                                  \/ ~Active(Latest(w)) /\ registry[Latest(w)].status \notin {"FAILED", "CANCELLED"}
<1> USE DEF Looking
<1>1. CASE UNCHANGED request
  BY <1>1
<1>2. ASSUME NEW s \in Requests, Ended(s) PROVE request'[r] = request[r]
  BY <1>2, EndedIs DEF Filed
<1>3. ASSUME NEW s \in Requests, NEW w \in Workspaces, NEW p \in BOOLEAN, Observe(s, w, p)
      PROVE  \/ request'[r] = request[r]
             \/ /\ request'[r].expected = Latest(w) /\ request'[r].workspace = w
                /\ Latest(w) # 0 => \/ registry[Latest(w)].mapping # mapping[w]
                                    \/ ~Active(Latest(w)) /\ registry[Latest(w)].status \notin {"FAILED", "CANCELLED"}
  <2>1. CASE r # s
    BY <1>3, <2>1 DEF Observe, Filed, TypeOK
  <2>2. CASE r = s
    <3>1. request'[r].expected = Latest(w) /\ request'[r].workspace = w
      BY <1>3, <2>2 DEF Observe, Filed, TypeOK
    <3>2. Latest(w) # 0 /\ registry[Latest(w)].mapping = mapping[w]
            => ~Active(Latest(w)) /\ registry[Latest(w)].status \notin {"FAILED", "CANCELLED"}
      BY <1>3, <2>2 DEF Observe, Filed, TypeOK
    <3> QED BY <3>1, <3>2
  <2> QED BY <2>1, <2>2
<1>4. ASSUME NEW s \in Requests, ReadSaved(s)
      PROVE  \/ request'[r] = request[r]
             \/ /\ request[r].pc \in Looking
                /\ request'[r].expected = request[r].expected
                /\ request'[r].workspace = request[r].workspace
  <2> DEFINE q == request[s]
             found == CurrentResult(q.workspace, q.mapping)
  <2>1. request[r] \in Request /\ q.pc = "read"
    BY <1>4 DEF ReadSaved, Filed, TypeOK
  <2>2. CASE request' = [request EXCEPT ![s].pc = "restore", ![s].result = found]
    <3> HIDE DEF found
    <3> QED BY <2>1, <2>2 DEF Filed, TypeOK, Request
  <2>3. CASE request' = [request EXCEPT ![s].pc = "enqueue", ![s].mapping = mapping[q.workspace]]
    BY <2>1, <2>3 DEF Filed, TypeOK, Request
  <2>4. CASE Ended(s)
    BY <1>2, <2>4
  <2> QED BY <1>4, <2>2, <2>3, <2>4 DEF ReadSaved
<1>5. ASSUME NEW s \in Requests, Restore(s) \/ Enqueue(s) PROVE request'[r] = request[r]
  BY <1>2, <1>5 DEF Restore, Enqueue
<1>6. CASE Restart
  BY <1>6, RestartIs DEF Filed
<1>7. ASSUME NEW j \in Jobs, Work(j) \/ Die(j) \/ Supervise(j) \/ CancelRequest(j) \/ CancelDeliver(j)
      PROVE  UNCHANGED request
  BY <1>7, WorkIs, SuperviseIs DEF Filed, Die, memory, CancelRequest, CancelDeliver
<1>8. ASSUME NEW w \in Workspaces, Remap(w) \/ Approve(w) PROVE UNCHANGED request
  BY <1>8, DecisionIs DEF Filed
<1>9. CASE StartNext \/ Stopping
  BY <1>9 DEF StartNext, Stopping, BeginStop, CancelQueued, CancelWorkers, Terminate, EndStop,
              memoryAndBounds, memory
<1>10. CASE UNCHANGED vars
  BY <1>10 DEF vars, memory
<1> QED BY <1>1, <1>3, <1>4, <1>5, <1>6, <1>7, <1>8, <1>9, <1>10 DEF Next

(* No mapping becomes current again.                                       *)
LEMMA MappingsGrow ==
  ASSUME Filed, [Next]_vars, NEW w \in Workspaces
  PROVE  mapping[w] \in Nat /\ mapping'[w] \in Nat /\ mapping[w] <= mapping'[w]
<1>1. mapping[w] \in Nat /\ mapping'[w] \in Nat
  BY NextFiled DEF Filed, TypeOK
<1>2. mapping[w] <= mapping[w]
  BY <1>1
<1>3. UNCHANGED mapping \/ \E v \in Workspaces : Remap(v) \/ Approve(v)
  <2>1. ASSUME NEW j \in Jobs, Work(j) \/ Supervise(j) PROVE UNCHANGED mapping
    BY <2>1, WorkIs, SuperviseIs DEF Filed
  <2>2. CASE UNCHANGED vars
    BY <2>2 DEF vars, durable
  <2>3. ASSUME NEW r \in Requests,
               \/ \E v \in Workspaces, p \in BOOLEAN : Observe(r, v, p)
               \/ ReadSaved(r) \/ Restore(r) \/ Enqueue(r)
        PROVE  UNCHANGED mapping
    BY <2>3 DEF Observe, ReadSaved, Restore, Enqueue, durable
  <2>4. ASSUME NEW j \in Jobs, Die(j) \/ CancelRequest(j) \/ CancelDeliver(j) PROVE UNCHANGED mapping
    BY <2>4 DEF Die, CancelRequest, CancelDeliver, durable
  <2>5. CASE StartNext \/ Stopping \/ Restart
    BY <2>5 DEF StartNext, Stopping, BeginStop, CancelQueued, CancelWorkers, Terminate, EndStop, Restart, durable
  <2> QED BY <2>1, <2>2, <2>3, <2>4, <2>5 DEF Next
<1> QED BY <1>1, <1>2, <1>3, DecisionIs DEF Filed

LEMMA InitLooked == Init => Looked
BY DEF Init, Looked, NoRequest

LEMMA NextLooked == Filed /\ Looked /\ [Next]_vars => Looked'
<1> SUFFICES ASSUME Filed, Looked, [Next]_vars,
                    NEW r \in Requests, request'[r].pc \in Looking, request'[r].expected # 0
             PROVE  \E j \in Jobs, w \in Workspaces :
                      /\ request'[r].expected = j /\ request'[r].workspace = w
                      /\ registry'[j].status # "none" /\ registry'[j].workspace = w
                      /\ registry'[j].status \in SettledStatuses \/ registry'[j].mapping # mapping'[w]
  BY DEF Looked, Looking, Used, Home, Settled
<1>1. \E j \in Jobs, w \in Workspaces :
        /\ request'[r].expected = j /\ request'[r].workspace = w
        /\ Used(j) /\ Home(j) = w /\ (Settled(j) \/ registry[j].mapping # mapping[w])
  <2>1. CASE /\ request[r].pc \in Looking
             /\ request'[r].expected = request[r].expected
             /\ request'[r].workspace = request[r].workspace
    BY <2>1 DEF Looked, Looking, Filed, TypeOK, Request
  <2>2. ASSUME NEW w \in Workspaces, request'[r].expected = Latest(w), request'[r].workspace = w,
               \/ registry[Latest(w)].mapping # mapping[w]
               \/ ~Active(Latest(w)) /\ registry[Latest(w)].status \notin {"FAILED", "CANCELLED"}
        PROVE  \E j \in Jobs, v \in Workspaces :
                 /\ request'[r].expected = j /\ request'[r].workspace = v
                 /\ Used(j) /\ Home(j) = v /\ (Settled(j) \/ registry[j].mapping # mapping[v])
    <3>1. PICK j \in Jobs : j = Latest(w) /\ j \in JobsOf(w)
      BY <2>2, LatestIs DEF Filed
    <3>2. Used(j) /\ Home(j) = w /\ registry[j].status \in Statuses
      BY <3>1 DEF JobsOf, Used, Home, Filed, TypeOK, Job
    <3>3. Settled(j) \/ registry[j].mapping # mapping[w]
      BY <2>2, <3>1, <3>2 DEF Settled, SettledStatuses, Active, Used, Statuses, Terminal
    <3> QED BY <2>2, <3>1, <3>2, <3>3
  <2> QED BY <2>1, <2>2, RequestsMove
<1>2. PICK j \in Jobs, w \in Workspaces :
        /\ request'[r].expected = j /\ request'[r].workspace = w
        /\ Used(j) /\ Home(j) = w /\ (Settled(j) \/ registry[j].mapping # mapping[w])
  BY <1>1
<1>3. /\ registry'[j].status # "none" /\ registry'[j].workspace = w
      /\ registry'[j].mapping = registry[j].mapping
      /\ Settled(j) => registry'[j].status \in SettledStatuses
  BY <1>2, JobsStay DEF Used, Home, Active, Settled, SettledStatuses
<1>4. registry[j].mapping # mapping[w] => registry'[j].mapping # mapping'[w]
  <2>1. registry[j].mapping \in Nat /\ registry[j].mapping <= mapping[w]
    BY <1>2 DEF Filed, Versioned, TypeOK, Job, Home
  <2> QED BY <1>3, <2>1, MappingsGrow
<1> QED BY <1>2, <1>3, <1>4

(* A step that moves jobs leaves the latest of a Workspace; one that makes *)
(* a job of it makes the latest.                                           *)
LEMMA LatestStays ==
  ASSUME NEW w \in Workspaces, JobsOf(w)' = JobsOf(w)
  PROVE  Latest(w)' = Latest(w)
BY DEF Latest

LEMMA LatestIsMade ==
  ASSUME Filed, NEW w \in Workspaces, NEW r \in Requests, NEW status, Made(r, status)
  PROVE  /\ request[r].workspace # w => Latest(w)' = Latest(w)
         /\ request[r].workspace = w =>
              Latest(w)' \in Jobs /\ registry'[Latest(w)'].status = status
<1> DEFINE n == NextJob
<1>1. /\ n \in Jobs /\ ~Used(n) /\ \A j \in Jobs : Used(j) <=> j < n
      /\ registry'[n].status = status /\ registry'[n].workspace = request[r].workspace
      /\ \A j \in Jobs \ {n} : registry'[j] = registry[j]
  BY NextIs DEF Made, NewJob, Filed, TypeOK
<1>2. status \notin {"none", "gone"} /\ n \notin JobsOf(w)
  BY <1>1 DEF Made, Idle, JobsOf, Used
<1> HIDE DEF n
<1>3. CASE request[r].workspace # w
  <2>1. JobsOf(w)' = JobsOf(w)
    BY <1>1, <1>2, <1>3 DEF JobsOf
  <2> QED BY <1>3, <2>1, LatestStays
<1>4. CASE request[r].workspace = w
  <2>1. JobsOf(w)' = JobsOf(w) \cup {n}
    BY <1>1, <1>2, <1>4 DEF JobsOf
  <2>2. \A j \in JobsOf(w) : j \in Jobs /\ j < n
    BY <1>1 DEF JobsOf, Used
  <2>3. n \in JobsOf(w)' /\ \A k \in JobsOf(w)' : k <= n /\ (n <= k => k = n)
    BY <1>1, <2>1, <2>2 DEF Jobs
  <2>4. Latest(w)' = CHOOSE j \in JobsOf(w)' : \A k \in JobsOf(w)' : k <= j
    BY <2>3 DEF Latest
  <2>5. Latest(w)' \in JobsOf(w)' /\ \A k \in JobsOf(w)' : k <= Latest(w)'
    BY <2>3, <2>4
  <2>6. Latest(w)' = n
    BY <2>3, <2>5
  <2> QED BY <1>1, <1>4, <2>6
<1> QED BY <1>3, <1>4

(* An explicit failure or cancellation of the current mapping is covered   *)
(* by a new attempt only: whatever a request saw, and however long ago,    *)
(* what it restores is not put over a job that it has not seen succeed.    *)
THEOREM OutcomesAreRetained == Spec => OutcomeIsRetained
<1>1. Init => Filed /\ Looked
  BY InitFiled, InitLooked
<1>2. Filed /\ Looked /\ [Next]_vars => Filed' /\ Looked'
  BY NextFiled, NextLooked
<1>3. ASSUME Filed, Looked, [Next]_vars, NEW w \in Workspaces,
             Latest(w) # 0, registry[Latest(w)].status \in {"FAILED", "CANCELLED"},
             registry[Latest(w)].mapping = mapping[w]
      PROVE  Latest(w)' \in {0, Latest(w)} \/ registry'[Latest(w)'].status = "QUEUED"
  <2>1. CASE \A j \in Jobs : Moved(j)
    <3>1. JobsOf(w)' = JobsOf(w)
      BY <2>1 DEF Moved, JobsOf, Active, Terminal
    <3> QED BY <3>1, LatestStays
  <2>2. CASE Restart
    <3>1. \A j \in Jobs : registry'[j].status \in {"none", "gone"}
      BY <1>3, <2>2, RestartIs DEF Filed
    <3>2. JobsOf(w)' = {}
      BY <3>1 DEF JobsOf
    <3> QED BY <3>2 DEF Latest
  <2>3. ASSUME NEW r \in Requests, Made(r, "QUEUED")
        PROVE  Latest(w)' = Latest(w) \/ registry'[Latest(w)'].status = "QUEUED"
    BY <1>3, <2>3, LatestIsMade
  <2>4. ASSUME NEW r \in Requests, Restore(r), Restored(request[r]), Made(r, request[r].result)
        PROVE  Latest(w)' = Latest(w)
    <3>1. request[r].workspace # w
      <4> SUFFICES ASSUME request[r].workspace = w PROVE FALSE
        OBVIOUS
      <4>1. request[r].pc = "restore" /\ request[r].expected = Latest(w)
        BY <2>4 DEF Restore, Restored
      <4>2. Settled(Latest(w)) \/ registry[Latest(w)].mapping # mapping[w]
        BY <1>3, <4>1 DEF Looked
      <4> QED BY <1>3, <4>2 DEF Settled, SettledStatuses
    <3> QED BY <1>3, <2>4, <3>1, LatestIsMade
  <2> QED BY <1>3, <2>1, <2>2, <2>3, <2>4, JobsMove
<1>4. Filed /\ Looked /\ [Next]_vars =>
        [\A w \in Workspaces :
           LET j == Latest(w)
               k == Latest(w)' IN
           (/\ j # 0 /\ registry[j].status \in {"FAILED", "CANCELLED"}
            /\ registry[j].mapping = mapping[w])
           => k \in {0, j} \/ registry'[k].status = "QUEUED"]_vars
  BY <1>3
<1> QED BY <1>1, <1>2, <1>4, PTL DEF Spec, OutcomeIsRetained

---------------------------------------------------------------------------
(* What a child has done, and what is said of it.                          *)
LEMMA InitReported == Init => Reported
<1> SUFFICES ASSUME Init, NEW j \in Jobs PROVE Stepwise(j) /\ Clean(j)
  BY DEF Reported
<1>1. child[j].phase = "none" /\ session[j] = "none" /\ ~Withdrawn(j)
  BY EmptyQueue DEF Init, NoChild, NoJob, Withdrawn
<1> QED BY <1>1 DEF Stepwise, Clean, Early, Writing

(* A job whose process goes no further and which nobody comes to call      *)
(* cancelled, unless it waited.                                            *)
LEMMA ReportedKept ==
  ASSUME Reported, NEW j \in Jobs,
         child'[j].phase \in {child[j].phase, "gone"},
         session'[j] = session[j],
         Staging(j)' => Staging(j),
         Withdrawn(j)' => Withdrawn(j) \/ Fresh(j)
  PROVE  (Stepwise(j) /\ Clean(j))'
<1>1. Stepwise(j)'
  BY DEF Reported, Stepwise, Early, Writing
<1>2. Fresh(j) => child[j].phase \in Still /\ session[j] = "none" /\ ~Staging(j)
  BY DEF Fresh, NoChild, Still, Staging
<1>3. Clean(j)'
  BY <1>2 DEF Reported, Clean, Still
<1> QED BY <1>1, <1>3

LEMMA WaitingFresh ==
  ASSUME Filed, NEW j \in Jobs, j \in Waiting
  PROVE  Fresh(j) /\ registry[j].status = "QUEUED" /\ ~Withdrawn(j)
BY EmptyQueue DEF Filed, Queued, Fresh, Withdrawn

LEMMA RequestReported ==
  ASSUME Filed, Reported, NEW r \in Requests,
         \/ \E w \in Workspaces, p \in BOOLEAN : Observe(r, w, p)
         \/ ReadSaved(r) \/ Restore(r) \/ Enqueue(r)
  PROVE  Reported'
<1> USE DEF durable
<1>1. UNCHANGED <<child, session, chain, events>>
  BY DEF Observe, ReadSaved, Restore, Enqueue
<1>2. ASSUME NEW j \in Jobs, registry'[j].status = "CANCELLED" PROVE registry[j].status = "CANCELLED"
  <2>1. CASE UNCHANGED registry
    BY <1>2, <2>1
  <2>2. ASSUME NEW status \in {"QUEUED"} \cup Results, Unused # {},
               registry' = [registry EXCEPT ![NextJob] = NewJob(request[r], status)]
        PROVE  registry[j].status = "CANCELLED"
    BY <1>2, <2>2, NextIs DEF NewJob, Results, Filed, TypeOK
  <2>3. Restore(r) => request[r].result \in Results
    BY DEF Restore, Filed, Versioned
  <2> QED BY <2>1, <2>2, <2>3 DEF Observe, ReadSaved, Restore, Enqueue
<1>3. \A j \in Jobs : (Withdrawn(j)' => Withdrawn(j)) /\ (Staging(j)' => Staging(j))
  BY <1>1, <1>2 DEF Withdrawn, Staging
<1> QED BY <1>1, <1>3, ReportedKept DEF Reported

LEMMA QueueReported ==
  ASSUME Filed, Reported,
         \/ StartNext
         \/ \E j \in Jobs : CancelRequest(j) \/ CancelDeliver(j) \/ CancelQueued(j)
         \/ BeginStop \/ CancelWorkers \/ EndStop
  PROVE  Reported'
<1> USE DEF durable
<1>1. UNCHANGED <<session, chain, events>> /\ \A j \in Jobs : Staging(j)' => Staging(j)
  BY DEF StartNext, CancelRequest, CancelDeliver, CancelQueued, BeginStop, CancelWorkers, EndStop, Staging
<1>2. CASE UNCHANGED <<registry, child>>
  BY <1>1, <1>2, ReportedKept DEF Reported, Withdrawn
<1>3. ASSUME NEW j \in Jobs, j \in Waiting, UNCHANGED child,
             registry' = Marked(j, "CANCELLED") \/ registry' = Marked(j, "FAILED")
      PROVE  Reported'
  <2>1. \A k \in Jobs \ {j} : registry'[k] = registry[k]
    BY <1>3, MarkedAs DEF Filed, Statuses, Terminal
  <2>2. \A k \in Jobs : Withdrawn(k)' => Withdrawn(k) \/ Fresh(k)
    BY <1>1, <1>3, <2>1, WaitingFresh DEF Withdrawn
  <2> QED BY <1>1, <1>3, <2>2, ReportedKept DEF Reported
<1>4. ASSUME NEW j \in Jobs, j \in Waiting, child' = [child EXCEPT ![j].phase = "starting"],
             UNCHANGED registry \/ registry' = Marked(j, "FAILED")
      PROVE  Reported'
  <2>1. /\ \A k \in Jobs \ {j} : registry'[k] = registry[k] /\ child'[k] = child[k]
        /\ child'[j].phase = "starting"
        /\ registry'[j].status # "CANCELLED"
    <3>1. registry[j].status = "QUEUED"
      BY <1>4, WaitingFresh
    <3>2. (\A k \in Jobs \ {j} : registry'[k] = registry[k]) /\ registry'[j].status # "CANCELLED"
      <4>1. CASE UNCHANGED registry
        BY <3>1, <4>1
      <4>2. CASE registry' = Marked(j, "FAILED")
        <5>1. registry'[j].status = "FAILED" /\ \A k \in Jobs \ {j} : registry'[k] = registry[k]
          BY <4>2, MarkedAs DEF Filed, Statuses, Terminal
        <5> QED BY <5>1
      <4> QED BY <1>4, <4>1, <4>2
    <3>3. child'[j].phase = "starting" /\ \A k \in Jobs \ {j} : child'[k] = child[k]
      BY <1>4 DEF Filed, TypeOK, Child
    <3> QED BY <3>2, <3>3
  <2>2. Fresh(j) /\ ~Withdrawn(j)
    BY <1>4, WaitingFresh
  <2>3. (Stepwise(j) /\ Clean(j))'
    BY <1>1, <2>1, <2>2 DEF Fresh, Withdrawn, Stepwise, Clean, Early, Writing, Staging
  <2>4. \A k \in Jobs \ {j} : (Stepwise(k) /\ Clean(k))'
    BY <1>1, <2>1, ReportedKept DEF Withdrawn
  <2> QED BY <2>3, <2>4 DEF Reported
<1>5. CASE StartNext
  <2>1. PICK j \in Jobs : j = Head(pending) /\ j \in Waiting
    BY <1>5, TailQueue DEF StartNext, Scheduling, Waiting, Filed, TypeOK
  <2> QED BY <1>2, <1>3, <1>4, <1>5, <2>1
    DEF StartNext, Launch, LaunchWithoutResources, LaunchWithoutProcess, LaunchWithoutSupervisor
<1>6. ASSUME NEW j \in Jobs, CancelDeliver(j) PROVE Reported'
  <2>1. ~UNCHANGED registry => registry' = Marked(j, "CANCELLED") /\ j \in Waiting
    BY <1>6 DEF CancelDeliver, Waiting, ToSet
  <2> QED BY <1>2, <1>3, <1>6, <2>1 DEF CancelDeliver
<1>7. ASSUME NEW j \in Jobs, CancelQueued(j) PROVE Reported'
  BY <1>3, <1>7 DEF CancelQueued, Waiting
<1>8. ASSUME NEW j \in Jobs, CancelRequest(j) PROVE Reported'
  BY <1>2, <1>8 DEF CancelRequest
<1>9. CASE BeginStop \/ CancelWorkers \/ EndStop
  BY <1>2, <1>9 DEF BeginStop, CancelWorkers, EndStop
<1> QED BY <1>5, <1>6, <1>7, <1>8, <1>9

LEMMA KilledReported ==
  ASSUME Filed, Reported, NEW j \in Jobs, Killed(j), UNCHANGED <<memory, durable>>
  PROVE  Reported'
<1> USE DEF memory, durable
<1>1. \A k \in Jobs : /\ child'[k].phase \in {child[k].phase, "gone"}
                      /\ ToSet(events'[k]) \subseteq ToSet(events[k])
  BY KilledIs DEF Filed
<1>2. \A k \in Jobs : (Withdrawn(k)' => Withdrawn(k)) /\ (Staging(k)' => Staging(k))
  BY <1>1 DEF Withdrawn, Staging
<1> QED BY <1>1, <1>2, ReportedKept DEF Reported

(* What a supervisor makes of an event or of a verdict is what it says.    *)
LEMMA SuperviseSays ==
  ASSUME Filed, NEW j \in Jobs, Supervise(j)
  PROVE  \/ registry'[j].status = registry[j].status
         \/ /\ HandleEvent(j) /\ Head(events[j]) \in Kinds /\ Head(events[j]) \in ToSet(events[j])
            /\ registry'[j].status = Outcome(Head(events[j]))
         \/ Conclude(j) /\ verdict[j] \in {"EXITED"} \cup Results /\ registry'[j].status = verdict[j]
<1>1. CASE HandleEvent(j)
  <2>1. Head(events[j]) \in Kinds /\ Head(events[j]) \in ToSet(events[j])
    BY <1>1, EventsAre DEF HandleEvent, Filed, TypeOK
  <2>2. Outcome(Head(events[j])) \in Statuses
    BY <2>1 DEF Outcome, Kinds, Statuses, Terminal
  <2>3. registry'[j].status = Outcome(Head(events[j]))
    BY <1>1, <2>2, MarkedAs DEF HandleEvent, Filed
  <2> QED BY <1>1, <2>1, <2>3
<1>2. CASE Conclude(j)
  <2>1. verdict[j] \in {"EXITED"} \cup Results /\ verdict[j] \in Statuses
    BY <1>2 DEF Conclude, Filed, TypeOK, Statuses, Terminal, Results
  <2>2. registry'[j].status = verdict[j]
    BY <1>2, <2>1, MarkedAs DEF Conclude, Filed
  <2> QED BY <1>2, <2>1, <2>2
<1>3. CASE ReadResult(j) \/ Release(j)
  BY <1>3 DEF ReadResult, Release
<1> QED BY <1>1, <1>2, <1>3 DEF Supervise

LEMMA SuperviseReported ==
  ASSUME Filed, Reported, NEW j \in Jobs, Supervise(j)
  PROVE  Reported'
<1>1. /\ \A k \in Jobs \ {j} : events'[k] = events[k] /\ registry'[k] = registry[k]
      /\ ToSet(events'[j]) \subseteq ToSet(events[j])
      /\ UNCHANGED <<child, chain, session>>
  BY SuperviseIs DEF Filed
<1>2. registry'[j].status = "CANCELLED" => Withdrawn(j)
  BY SuperviseSays DEF Outcome, Kinds, Withdrawn, Results
<1>3. \A k \in Jobs : (Withdrawn(k)' => Withdrawn(k)) /\ (Staging(k)' => Staging(k))
  BY <1>1, <1>2 DEF Withdrawn, Staging
<1> QED BY <1>1, <1>3, ReportedKept DEF Reported

LEMMA WorkReported ==
  ASSUME Filed, Reported, NEW j \in Jobs, Work(j)
  PROVE  Reported'
<1> USE DEF memoryAndBounds, memory, durable
<1>1. /\ child[j] \in Child /\ events[j] \in Seq(Kinds) /\ Stepwise(j) /\ Clean(j)
      /\ \A k \in Jobs \ {j} : child'[k] = child[k] /\ events'[k] = events[k] /\ session'[k] = session[k]
      /\ \A w \in Workspaces : chain'[w].staging \in {j, chain[w].staging}
      /\ UNCHANGED registry
  BY WorkIs DEF Filed, TypeOK, Reported
<1>2. \A k \in Jobs \ {j} : (Stepwise(k) /\ Clean(k))'
  <2>1. \A k \in Jobs \ {j} : (Withdrawn(k)' => Withdrawn(k)) /\ (Staging(k)' => Staging(k))
    BY <1>1 DEF Withdrawn, Staging
  <2> QED BY <1>1, <2>1, ReportedKept
<1>3. \A kind \in Kinds : Tell(j, kind) => ToSet(events'[j]) = ToSet(events[j]) \cup {kind}
  BY <1>1, EventsAre DEF Tell, Filed, TypeOK
<1>4. \A phase \in Phases : Move(j, phase) => child'[j].phase = phase
  BY <1>1 DEF Move, Filed, TypeOK, Child
<1>5. (Stepwise(j) /\ Clean(j))'
  <2>1. UNCHANGED chain => Staging(j)' = Staging(j)
    BY DEF Staging
  <2>2. UNCHANGED events => Withdrawn(j)' = Withdrawn(j)
    BY <1>1 DEF Withdrawn
  <2>3. \A kind \in Kinds \ {"cancelled"} : Tell(j, kind) => Withdrawn(j)' = Withdrawn(j)
    BY <1>1, <1>3 DEF Withdrawn
  <2>4. child[j].phase \notin Still => ~Withdrawn(j)
    BY <1>1 DEF Clean
  <2>5. CASE Begin(j)
    <3>1. child[j].phase = "starting" /\ child'[j].phase = "computing" /\ UNCHANGED <<chain, session>>
      BY <1>4, <2>5 DEF Begin, At, Phases
    <3>2. ~Withdrawn(j)'
      BY <2>3, <2>4, <2>5, <3>1 DEF Begin, Kinds, Still
    <3> QED BY <1>1, <2>1, <3>1, <3>2 DEF Stepwise, Clean, Early, Writing
  <2>6. CASE StopAtCheckpoint(j)
    <3>1. child[j].phase = "computing" /\ child'[j].phase = "reporting" /\ UNCHANGED <<chain, session>>
      BY <1>4, <2>6 DEF StopAtCheckpoint, At, Phases
    <3> QED BY <1>1, <2>1, <3>1 DEF Stepwise, Clean, Early, Writing, Still
  <2>7. CASE PassLastCheckpoint(j)
    <3>1. child[j].phase = "computing" /\ child'[j].phase = "publishing" /\ UNCHANGED <<chain, events>>
      BY <1>4, <2>7 DEF PassLastCheckpoint, At, Phases
    <3>2. session'[j] \in {"READY", "none"}
      BY <2>7 DEF PassLastCheckpoint, Filed, TypeOK
    <3> QED BY <1>1, <2>1, <2>2, <2>4, <3>1, <3>2 DEF Stepwise, Clean, Early, Writing, Still
  <2>8. CASE PublishStaging(j)
    <3>1. child[j].phase = "publishing" /\ child'[j].phase = "staged" /\ UNCHANGED <<session, events>>
      BY <2>8 DEF PublishStaging, At, Filed, TypeOK
    <3> QED BY <1>1, <2>2, <2>4, <3>1 DEF Stepwise, Clean, Early, Writing, Still
  <2>9. FailSession(j) => session'[j] \in {session[j], "FAILED"}
    BY DEF FailSession, Filed, TypeOK
  <2>10. CASE AskForReview(j) \/ Fail(j)
    <3>1. /\ child[j].phase \notin Still /\ child'[j].phase = "reporting"
          /\ Tell(j, "review_required") \/ Tell(j, "failed")
      BY <1>4, <2>10 DEF AskForReview, Fail, At, Writing, Phases, Still
    <3>2. ~Withdrawn(j)'
      BY <2>3, <2>4, <3>1 DEF Kinds
    <3> QED BY <3>1, <3>2 DEF Stepwise, Clean, Early, Writing
  <2>11. CASE Normalize(j)
    <3>1. child[j].phase = "staged" /\ child'[j].phase = "normalized" /\ UNCHANGED <<session, events>>
      BY <1>4, <2>11 DEF Normalize, At, Phases
    <3> QED BY <1>1, <2>2, <2>4, <3>1 DEF Stepwise, Clean, Early, Writing, Still
  <2>12. CASE MarkPublished(j)
    <3>1. child[j].phase = "normalized" /\ child'[j].phase = "published" /\ UNCHANGED events
      BY <1>4, <2>12 DEF MarkPublished, At, Phases
    <3> QED BY <2>2, <2>4, <3>1 DEF Stepwise, Clean, Early, Writing, Still
  <2>13. CASE ReportSuccess(j)
    <3>1. child[j].phase = "published" /\ child'[j].phase = "reporting" /\ Tell(j, "succeeded")
      BY <1>4, <2>13 DEF ReportSuccess, At, Phases
    <3> QED BY <2>3, <2>4, <3>1 DEF Stepwise, Clean, Early, Writing, Still, Kinds
  <2>14. CASE Exit(j)
    <3>1. child[j].phase = "reporting" /\ child'[j].phase = "gone" /\ UNCHANGED <<chain, session, events>>
      BY <2>14 DEF Exit, At, Gone, Filed, TypeOK
    <3> QED BY <1>1, <2>1, <2>2, <3>1 DEF Stepwise, Clean, Early, Writing, Still
  <2> QED BY <2>5, <2>6, <2>7, <2>8, <2>10, <2>11, <2>12, <2>13, <2>14 DEF Work
<1> QED BY <1>2, <1>5 DEF Reported

LEMMA NextReported == Filed /\ Reported /\ [Next]_vars => Reported'
<1> SUFFICES ASSUME Filed, Reported, [Next]_vars PROVE Reported'
  OBVIOUS
<1>1. CASE UNCHANGED vars
  <2>1. UNCHANGED <<registry, child, events, chain, session>>
    BY <1>1 DEF vars, memory, durable
  <2>2. \A j \in Jobs : (Withdrawn(j)' => Withdrawn(j)) /\ (Staging(j)' => Staging(j))
    BY <2>1 DEF Withdrawn, Staging
  <2> QED BY <2>1, <2>2, ReportedKept DEF Reported
<1>2. ASSUME NEW j \in Jobs, Die(j) \/ Terminate(j) PROVE Reported'
  BY <1>2, KilledReported DEF Die, Terminate, memoryAndBounds, memory, durable
<1>3. ASSUME NEW w \in Workspaces, Remap(w) \/ Approve(w) PROVE Reported'
  <2>1. UNCHANGED <<registry, child, events, session>> /\ 0 \notin Jobs
    BY <1>3, DecisionIs DEF Filed, Jobs
  <2>2. \A j \in Jobs : (Withdrawn(j)' => Withdrawn(j)) /\ (Staging(j)' => Staging(j))
    BY <1>3, <2>1, DecisionIs DEF Withdrawn, Staging, Filed
  <2> QED BY <2>1, <2>2, ReportedKept DEF Reported
<1>4. CASE Restart
  <2>1. \A j \in Jobs : /\ child'[j].phase \in {child[j].phase, "gone"} /\ ~Withdrawn(j)'
                        /\ session'[j] = session[j] /\ (Staging(j)' => Staging(j))
    BY <1>4, RestartIs, EmptyQueue DEF Withdrawn, Staging, Filed
  <2> QED BY <2>1, ReportedKept DEF Reported
<1> QED BY <1>1, <1>2, <1>3, <1>4, RequestReported, QueueReported, WorkReported, SuperviseReported
        DEF Next, Stopping

---------------------------------------------------------------------------
(* What is said to have failed has not published.                          *)
LEMMA InitFound == Init => Found
<1> SUFFICES ASSUME Init, NEW j \in Jobs PROVE Finding(j)
  BY DEF Found
<1>1. child[j].phase = "none" /\ session[j] = "none" /\ ~Failing(j)
  BY EmptyQueue DEF Init, NoChild, NoJob, Failing
<1> QED BY <1>1 DEF Finding

LEMMA FoundKept ==
  ASSUME Filed, Found, NEW j \in Jobs,
         child'[j].phase \in {child[j].phase, "gone"},
         session'[j] = session[j],
         registry'[j].workspace = registry[j].workspace,
         \A w \in Workspaces : chain'[w].staging = j =>
           chain[w].staging = j /\ (chain[w].complete => chain'[w].complete),
         Failing(j)' => Failing(j) \/ Fresh(j) \/ (child[j].phase \in Still /\ ~Own(j))
  PROVE  Finding(j)'
<1>1. Finding(j) /\ Home(j) \in Workspaces /\ registry'[j].workspace = Home(j)
  BY DEF Found, Home, Filed, TypeOK, Job
<1>2. Fresh(j) => child[j].phase \in Still /\ ~Own(j)
  BY DEF Fresh, NoChild, Still, Own
<1>3. Failing(j)' => child[j].phase \in Still /\ ~Own(j)
  BY <1>1, <1>2 DEF Finding
<1>4. Own(j)' => Own(j)
  BY <1>1 DEF Own, Home
<1>5. Failing(j)' => child'[j].phase \in Still /\ ~Own(j)'
  BY <1>3, <1>4 DEF Still
<1>6. child'[j].phase = "normalized" \/ session'[j] = "PUBLISHED" =>
        (chain'[Home(j)].staging = j => chain'[Home(j)].complete)
  BY <1>1 DEF Finding
<1>7. Home(j)' = Home(j)
  BY <1>1 DEF Home
<1> QED BY <1>5, <1>6, <1>7 DEF Finding

LEMMA RequestFound ==
  ASSUME Filed, Found, NEW r \in Requests,
         \/ \E w \in Workspaces, p \in BOOLEAN : Observe(r, w, p)
         \/ ReadSaved(r) \/ Restore(r) \/ Enqueue(r)
  PROVE  Found'
<1> USE DEF durable
<1>1. UNCHANGED <<child, session, chain, events, verdict>>
  BY DEF Observe, ReadSaved, Restore, Enqueue
<1>2. ASSUME NEW j \in Jobs, registry'[j] = registry[j] PROVE Finding(j)'
  BY <1>1, <1>2, FoundKept DEF Failing
<1>3. CASE UNCHANGED registry
  BY <1>2, <1>3 DEF Found
<1>4. ASSUME NEW status \in {"QUEUED"} \cup Results, Unused # {},
             registry' = [registry EXCEPT ![NextJob] = NewJob(request[r], status)]
      PROVE  Found'
  <2>1. PICK n \in Jobs : n = NextJob /\ Fresh(n)
    BY <1>4, NextIs DEF Filed, Queued
  <2>2. registry'[n].status = status /\ \A j \in Jobs \ {n} : registry'[j] = registry[j]
    BY <1>4, <2>1 DEF NewJob, Filed, TypeOK
  <2>3. Finding(n)'
    BY <1>1, <2>1, <2>2, EmptyQueue DEF Finding, Failing, Fresh, NoChild, Results
  <2> QED BY <1>2, <2>2, <2>3 DEF Found
<1>5. Restore(r) => request[r].result \in Results
  BY DEF Restore, Filed, Versioned
<1> QED BY <1>3, <1>4, <1>5 DEF Observe, ReadSaved, Restore, Enqueue

LEMMA QueueFound ==
  ASSUME Filed, Found, "supervisor" \notin LaunchFailures,
         \/ StartNext
         \/ \E j \in Jobs : CancelRequest(j) \/ CancelDeliver(j) \/ CancelQueued(j)
         \/ BeginStop \/ CancelWorkers \/ EndStop
  PROVE  Found'
<1> USE DEF durable
<1>1. UNCHANGED <<session, chain, events, verdict>>
  BY DEF StartNext, CancelRequest, CancelDeliver, CancelQueued, BeginStop, CancelWorkers, EndStop
<1>2. ASSUME NEW j \in Jobs, child'[j] = child[j], registry'[j] = registry[j] PROVE Finding(j)'
  BY <1>1, <1>2, FoundKept DEF Failing
<1>3. CASE UNCHANGED <<registry, child>>
  BY <1>2, <1>3 DEF Found
<1>4. ASSUME NEW j \in Jobs, j \in Waiting, UNCHANGED child,
             registry' = Marked(j, "CANCELLED") \/ registry' = Marked(j, "FAILED")
      PROVE  Found'
  <2>1. registry'[j].workspace = registry[j].workspace /\ \A k \in Jobs \ {j} : registry'[k] = registry[k]
    BY <1>4, MarkedAs DEF Filed, Statuses, Terminal
  <2>2. Fresh(j)
    BY <1>4, WaitingFresh
  <2>3. Finding(j)'
    BY <1>1, <1>4, <2>1, <2>2, FoundKept
  <2> QED BY <1>2, <1>4, <2>1, <2>3 DEF Found
<1>5. ASSUME NEW j \in Jobs, j \in Waiting, child' = [child EXCEPT ![j].phase = "starting"],
             UNCHANGED registry
      PROVE  Found'
  <2>1. child'[j].phase = "starting" /\ \A k \in Jobs \ {j} : child'[k] = child[k]
    BY <1>5 DEF Filed, TypeOK, Child
  <2>2. Fresh(j) /\ registry[j].status = "QUEUED"
    BY <1>5, WaitingFresh
  <2>3. Finding(j)'
    BY <1>1, <1>5, <2>1, <2>2, EmptyQueue DEF Finding, Failing, Fresh
  <2> QED BY <1>2, <1>5, <2>1, <2>3 DEF Found
<1>6. CASE StartNext
  <2>1. PICK j \in Jobs : j = Head(pending) /\ j \in Waiting
    BY <1>6, TailQueue DEF StartNext, Scheduling, Waiting, Filed, TypeOK
  <2> QED BY <1>3, <1>4, <1>5, <1>6, <2>1
    DEF StartNext, Launch, LaunchWithoutResources, LaunchWithoutProcess, LaunchWithoutSupervisor
<1>7. ASSUME NEW j \in Jobs, CancelDeliver(j) PROVE Found'
  <2>1. ~UNCHANGED registry => registry' = Marked(j, "CANCELLED") /\ j \in Waiting
    BY <1>7 DEF CancelDeliver, Waiting, ToSet
  <2> QED BY <1>3, <1>4, <1>7, <2>1 DEF CancelDeliver
<1>8. ASSUME NEW j \in Jobs, CancelQueued(j) PROVE Found'
  BY <1>4, <1>8 DEF CancelQueued, Waiting
<1>9. ASSUME NEW j \in Jobs, CancelRequest(j) PROVE Found'
  BY <1>3, <1>9 DEF CancelRequest
<1>10. CASE BeginStop \/ CancelWorkers \/ EndStop
  BY <1>3, <1>10 DEF BeginStop, CancelWorkers, EndStop
<1> QED BY <1>6, <1>7, <1>8, <1>9, <1>10

LEMMA KilledFound ==
  ASSUME Filed, Found, NEW j \in Jobs, Killed(j), UNCHANGED <<memory, durable>>
  PROVE  Found'
<1> USE DEF memory, durable
<1>1. \A k \in Jobs : /\ child'[k].phase \in {child[k].phase, "gone"}
                      /\ ToSet(events'[k]) \subseteq ToSet(events[k])
  BY KilledIs DEF Filed
<1>2. \A k \in Jobs : Failing(k)' => Failing(k)
  BY <1>1 DEF Failing
<1> QED BY <1>1, <1>2, FoundKept DEF Found

(* Complete evidence of one's own is found by whoever can read it.         *)
LEMMA OwnIsFound ==
  ASSUME Filed, Evident, Found, NEW j \in Jobs, Own(j)
  PROVE  CurrentResult(Home(j), registry[j].mapping) # "none"
<1>1. Home(j) \in Workspaces /\ j # 0
  BY DEF Home, Jobs, Filed, TypeOK, Job
<1>2. chain[Home(j)].staging = j /\ session[j] = "PUBLISHED" /\ chain[Home(j)].complete
  BY <1>1 DEF Own, Found, Finding
<1>3. mapping[Home(j)] = registry[j].mapping
  BY <1>1, <1>2 DEF Evident, Current
<1> QED BY <1>1, <1>2, <1>3 DEF CurrentResult

LEMMA SuperviseFound ==
  ASSUME Filed, Evident, Found, ~UnreadResults, NEW j \in Jobs, Supervise(j)
  PROVE  Found'
<1>1. /\ \A k \in Jobs \ {j} : events'[k] = events[k] /\ registry'[k] = registry[k] /\ verdict'[k] = verdict[k]
      /\ ToSet(events'[j]) \subseteq ToSet(events[j])
      /\ registry'[j].workspace = registry[j].workspace
      /\ UNCHANGED <<child, chain, session>>
  BY SuperviseIs DEF Filed
<1>2. registry'[j].status \in {"FAILED", "EXITED"} => Failing(j)
  BY SuperviseSays DEF Outcome, Kinds, Failing, Results
<1>3. verdict'[j] = "EXITED" => Failing(j) \/ (child[j].phase \in Still /\ ~Own(j))
  <2>1. CASE ReadResult(j)
    <3>1. child[j].phase \in Still
      BY <2>1 DEF ReadResult, Drained, Live, Still
    <3>2. Own(j) => CurrentResult(Home(j), registry[j].mapping) # "none"
      BY OwnIsFound
    <3>3. CurrentResult(Home(j), registry[j].mapping) # "none" => verdict'[j] # "EXITED"
      BY <2>1 DEF ReadResult, CurrentResult, Filed, TypeOK
    <3> QED BY <3>1, <3>2, <3>3
  <2>2. CASE Conclude(j)
    BY <2>2 DEF Conclude, Filed, TypeOK
  <2>3. CASE HandleEvent(j) \/ Release(j)
    BY <2>3 DEF HandleEvent, Release, Failing
  <2> QED BY <2>1, <2>2, <2>3 DEF Supervise
<1>4. \A k \in Jobs : Failing(k)' => Failing(k) \/ (child[k].phase \in Still /\ ~Own(k))
  BY <1>1, <1>2, <1>3 DEF Failing
<1> QED BY <1>1, <1>4, FoundKept DEF Found

LEMMA WorkFound ==
  ASSUME Filed, Reported, Found, NEW j \in Jobs, Work(j)
  PROVE  Found'
<1> USE DEF memoryAndBounds, memory, durable
<1> DEFINE w == Home(j)
<1>1. /\ child[j] \in Child /\ events[j] \in Seq(Kinds) /\ Stepwise(j) /\ Finding(j)
      /\ w \in Workspaces /\ chain[w] \in Chain
      /\ \A k \in Jobs \ {j} : child'[k] = child[k] /\ events'[k] = events[k] /\ session'[k] = session[k]
      /\ \A v \in Workspaces : chain'[v].staging \in {j, chain[v].staging}
      /\ UNCHANGED <<registry, verdict>>
  BY WorkIs DEF Filed, TypeOK, Job, Home, Reported, Found
<1>2. \A v \in Workspaces : chain[v].complete => chain'[v].complete
  <2>1. CASE UNCHANGED chain
    BY <2>1
  <2>2. ASSUME NEW used, chain' = [chain EXCEPT ![w].staging = used]
        PROVE  \A v \in Workspaces : chain[v].complete => chain'[v].complete
    BY <1>1, <2>2 DEF Filed, TypeOK, Chain
  <2>3. CASE chain' = [chain EXCEPT ![w].review = "waiting"]
    BY <1>1, <2>3 DEF Filed, TypeOK, Chain
  <2>4. CASE chain' = [chain EXCEPT ![w].complete = TRUE]
    BY <1>1, <2>4 DEF Filed, TypeOK, Chain
  <2>5. PublishStaging(j) => \E used : chain' = [chain EXCEPT ![w].staging = used]
    BY DEF PublishStaging
  <2> QED BY <2>1, <2>2, <2>3, <2>4, <2>5
    DEF Work, Begin, StopAtCheckpoint, PassLastCheckpoint, AskForReview, Normalize,
        MarkPublished, ReportSuccess, Fail, Exit
<1>3. \A k \in Jobs \ {j} : Finding(k)'
  <2>1. \A k \in Jobs \ {j} : Failing(k)' => Failing(k)
    BY <1>1 DEF Failing
  <2> QED BY <1>1, <1>2, <2>1, FoundKept
<1>4. \A kind \in Kinds : Tell(j, kind) => ToSet(events'[j]) = ToSet(events[j]) \cup {kind}
  BY <1>1, EventsAre DEF Tell, Filed, TypeOK
<1>5. \A phase \in Phases : Move(j, phase) => child'[j].phase = phase
  BY <1>1 DEF Move, Filed, TypeOK, Child
<1>6. Home(j)' = w
  BY <1>1 DEF Home
<1>7. Finding(j)'
  <2>1. UNCHANGED chain => Staging(j)' = Staging(j)
    BY DEF Staging
  <2>2. child[j].phase \notin Still => ~Failing(j)
    BY <1>1 DEF Finding
  <2>3. UNCHANGED events => Failing(j)' = Failing(j)
    BY <1>1 DEF Failing
  <2>4. \A kind \in Kinds \ {"failed"} : Tell(j, kind) => Failing(j)' = Failing(j)
    BY <1>1, <1>4 DEF Failing
  <2>5. CASE Begin(j) \/ StopAtCheckpoint(j) \/ PassLastCheckpoint(j)
    <3>1. child[j].phase \in Early /\ UNCHANGED chain
      BY <2>5 DEF Begin, StopAtCheckpoint, PassLastCheckpoint, At, Early
    <3>2. ~Failing(j)'
      BY <2>2, <2>3, <2>4, <2>5, <3>1 DEF Begin, StopAtCheckpoint, PassLastCheckpoint, Early, Still, Kinds
    <3>3. chain'[w].staging # j
      BY <1>1, <3>1 DEF Stepwise, Staging
    <3> QED BY <1>6, <3>2, <3>3 DEF Finding
  <2>6. CASE PublishStaging(j)
    <3>1. child[j].phase = "publishing" /\ child'[j].phase = "staged" /\ UNCHANGED <<session, events>>
      BY <2>6 DEF PublishStaging, At, Filed, TypeOK
    <3>2. session'[j] # "PUBLISHED" /\ ~Failing(j)'
      BY <1>1, <2>2, <2>3, <3>1 DEF Stepwise, Writing, Still
    <3> QED BY <3>1, <3>2 DEF Finding
  <2>7. CASE AskForReview(j) \/ Fail(j)
    <3>1. Writing(j) /\ child'[j].phase = "reporting" /\ FailSession(j)
      BY <1>5, <2>7 DEF AskForReview, Fail, At, Writing, Phases
    <3>2. session'[j] # "PUBLISHED"
      BY <1>1, <3>1 DEF Stepwise, FailSession, Filed, TypeOK
    <3> QED BY <3>1, <3>2 DEF Finding, Own, Still
  <2>8. CASE Normalize(j)
    <3>1. child[j].phase = "staged" /\ child'[j].phase = "normalized" /\ UNCHANGED events
      BY <1>5, <2>8 DEF Normalize, At, Phases
    <3>2. chain'[w].complete
      BY <1>1, <2>8 DEF Normalize, Filed, TypeOK, Chain
    <3> QED BY <1>6, <2>2, <2>3, <3>1, <3>2 DEF Finding, Still
  <2>9. CASE MarkPublished(j)
    <3>1. child[j].phase = "normalized" /\ UNCHANGED <<chain, events>>
      BY <2>9 DEF MarkPublished, At
    <3> QED BY <1>1, <1>6, <2>2, <2>3, <3>1 DEF Finding, Still
  <2>10. CASE ReportSuccess(j)
    <3>1. /\ child[j].phase = "published" /\ child'[j].phase = "reporting" /\ Tell(j, "succeeded")
          /\ UNCHANGED <<chain, session>>
      BY <1>5, <2>10 DEF ReportSuccess, At, Phases
    <3> QED BY <1>1, <1>6, <2>2, <2>4, <3>1 DEF Finding, Still, Kinds
  <2>11. CASE Exit(j)
    <3>1. child'[j].phase = "gone" /\ UNCHANGED <<chain, session, events>>
      BY <2>11 DEF Exit, Gone, Filed, TypeOK
    <3> QED BY <1>1, <2>3, <3>1, FoundKept
  <2> QED BY <2>5, <2>6, <2>7, <2>8, <2>9, <2>10, <2>11 DEF Work
<1> QED BY <1>3, <1>7 DEF Found

LEMMA DecisionFound ==
  ASSUME Filed, Found, NEW w \in Workspaces, Remap(w) \/ Approve(w)
  PROVE  Found'
<1>1. UNCHANGED <<registry, verdict, child, events, session>> /\ 0 \notin Jobs
  BY DecisionIs DEF Filed, Jobs
<1>2. \A j \in Jobs, v \in Workspaces : chain'[v].staging = j =>
        chain[v].staging = j /\ (chain[v].complete => chain'[v].complete)
  <2>1. CASE Remap(w)
    BY <1>1, <2>1 DEF Remap, NoChain, Filed, TypeOK
  <2>2. CASE Approve(w)
    BY <2>2 DEF Approve, Filed, TypeOK, Chain
  <2> QED BY <2>1, <2>2
<1>3. \A j \in Jobs : Failing(j)' => Failing(j)
  BY <1>1 DEF Failing
<1> QED BY <1>1, <1>2, <1>3, FoundKept DEF Found

LEMMA NextFound ==
  ASSUME Filed, Evident, Reported, Found, "supervisor" \notin LaunchFailures, ~UnreadResults,
         [Next]_vars
  PROVE  Found'
<1>1. CASE UNCHANGED vars
  <2>1. UNCHANGED <<registry, verdict, child, events, chain, session>>
    BY <1>1 DEF vars, memory, durable
  <2>2. \A j \in Jobs : Failing(j)' => Failing(j)
    BY <2>1 DEF Failing
  <2> QED BY <2>1, <2>2, FoundKept DEF Found
<1>2. ASSUME NEW j \in Jobs, Die(j) \/ Terminate(j) PROVE Found'
  BY <1>2, KilledFound DEF Die, Terminate, memoryAndBounds, memory, durable
<1>3. CASE Restart
  <2>1. \A j \in Jobs : ~Failing(j)'
    BY <1>3, RestartIs, EmptyQueue DEF Failing, Filed
  <2>2. \A j \in Jobs : child'[j].phase \in {child[j].phase, "gone"} /\ session'[j] = session[j]
                        /\ registry'[j].workspace = registry[j].workspace /\ UNCHANGED chain
    BY <1>3, RestartIs DEF Filed
  <2> QED BY <2>1, <2>2, FoundKept DEF Found
<1> QED BY <1>1, <1>2, <1>3, RequestFound, QueueFound, WorkFound, SuperviseFound, DecisionFound
        DEF Next, Stopping

LEMMA CleanIs ==
  ASSUME Filed, Reported
  PROVE  CancelledIsClean
<1> SUFFICES ASSUME NEW j \in Jobs, registry[j].status = "CANCELLED"
             PROVE  ~Writing(j) /\ session[j] # "PUBLISHED" /\ chain[Home(j)].staging # j
  BY DEF CancelledIsClean
<1>1. child[j].phase \in Still /\ session[j] = "none" /\ ~Staging(j)
  BY DEF Reported, Clean, Withdrawn
<1> QED BY <1>1 DEF Still, Writing, Staging, Home, Filed, TypeOK, Job

(* Of a job that was cancelled nothing is at work and nothing was          *)
(* published, whenever it was cancelled and whatever could be started.     *)
THEOREM CancelledStaysClean == Spec => []CancelledIsClean
<1>1. Init => Filed /\ Reported
  BY InitFiled, InitReported
<1>2. Filed /\ Reported /\ [Next]_vars => Filed' /\ Reported'
  BY NextFiled, NextReported
<1> QED BY <1>1, <1>2, CleanIs, PTL DEF Spec

(* Where every process has its supervisor and saved results can be read,   *)
(* no attempt that published its own rows is called failed either,         *)
(* wherever its process was killed.                                        *)
THEOREM OutcomesAreTrue ==
  ASSUME "supervisor" \notin LaunchFailures, ~UnreadResults
  PROVE  Spec => []OutcomeIsTrue
<1> DEFINE I == Filed /\ Evident /\ Reported /\ Found
<1>1. Init => I
  BY InitFiled, InitEvident, InitReported, InitFound
<1>2. I /\ [Next]_vars => I'
  BY NextFiled, NextEvident, NextReported, NextFound
<1>3. I => OutcomeIsTrue
  <2> SUFFICES ASSUME I PROVE OwnWorkIsFound
    BY CleanIs DEF OutcomeIsTrue
  <2>1. \A j \in Jobs : registry[j].status = "CANCELLED" => session[j] # "PUBLISHED"
    BY CleanIs DEF CancelledIsClean
  <2> QED BY <2>1 DEF OwnWorkIsFound, Found, Finding, Failing, Own
<1> QED BY <1>1, <1>2, <1>3, PTL DEF Spec

---------------------------------------------------------------------------
(* Where every process has its supervisor: who is at work.                 *)
LEMMA InitSupervised == Init => Supervised
<1> SUFFICES ASSUME Init PROVE Supervised
  OBVIOUS
<1>1. OneActive
  BY DEF Init, OneActive, Active, NoJob
<1>2. Pool
  BY FS_EmptySet, JobsAssumption DEF Init, Pool
<1>3. ASSUME NEW j \in Jobs PROVE Attended(j) /\ Told(j)
  <2>1. child[j].phase = "none" /\ events[j] = <<>> /\ j \notin workers
    BY DEF Init, NoChild
  <2> QED BY <2>1 DEF Attended, Told, Live
<1> QED BY <1>1, <1>2, <1>3 DEF Supervised

(* A Workspace has one active job: a second is not queued.                 *)
LEMMA OneActiveKept ==
  ASSUME Filed, OneActive, [Next]_vars
  PROVE  OneActive'
<1>1. CASE \A j \in Jobs : Moved(j)
  BY <1>1 DEF Moved, OneActive, Active, Home
<1>2. CASE Restart
  <2>1. \A j \in Jobs : registry'[j].status \in {"none", "gone"}
    BY <1>2, RestartIs DEF Filed
  <2> QED BY <2>1 DEF OneActive, Active
<1>3. ASSUME NEW r \in Requests, NEW status, Made(r, status),
             status \in Results \/ \A j \in JobsOf(request[r].workspace) : ~Active(j)
      PROVE  OneActive'
  <2>1. PICK n \in Jobs : /\ n = NextJob /\ registry'[n].status = status
                          /\ registry'[n].workspace = request[r].workspace
                          /\ \A j \in Jobs \ {n} : registry'[j] = registry[j]
    BY <1>3, NextIs DEF Made, NewJob, Filed, TypeOK
  <2>2. ASSUME NEW j \in Jobs \ {n}, Active(n)', Active(j)', Home(j)' = Home(n)' PROVE FALSE
    <3>1. Active(j) /\ Home(j) = request[r].workspace /\ status \in {"QUEUED", "RUNNING"}
      BY <2>1, <2>2 DEF Active, Home
    <3>2. j \in JobsOf(request[r].workspace)
      BY <3>1 DEF JobsOf, Active, Home
    <3> QED BY <1>3, <3>1, <3>2 DEF Results
  <2>3. ASSUME NEW j \in Jobs \ {n}, NEW k \in Jobs \ {n}, Active(j)', Active(k)', Home(j)' = Home(k)'
        PROVE  j = k
    BY <2>1, <2>3 DEF OneActive, Active, Home
  <2> QED BY <2>2, <2>3 DEF OneActive
<1>4. ASSUME NEW r \in Requests, Enqueued(r), Made(r, "QUEUED") PROVE OneActive'
  BY <1>3, <1>4 DEF Enqueued
<1>5. ASSUME NEW r \in Requests, Restore(r), Made(r, request[r].result) PROVE OneActive'
  BY <1>3, <1>5 DEF Restore, Filed, Versioned
<1> QED BY <1>1, <1>2, <1>4, <1>5, JobsMove

(* A job of which nothing changes that its supervisor knows.               *)
LEMMA AttendedKept ==
  ASSUME NEW j \in Jobs, Attended(j), Told(j),
         child'[j].phase = child[j].phase, events'[j] = events[j],
         j \in workers' <=> j \in workers,
         j \in workers /\ Active(j) => Active(j)'
  PROVE  Attended(j)' /\ Told(j)'
BY DEF Attended, Told, Live

(* One whose process is not started yet.                                   *)
LEMMA FreshAttended ==
  ASSUME NEW j \in Jobs, child'[j].phase = "none", events'[j] = <<>>, j \notin workers'
  PROVE  Attended(j)' /\ Told(j)'
BY DEF Attended, Told, Live

LEMMA RequestSupervised ==
  ASSUME Filed, Supervised, NEW r \in Requests,
         \/ \E w \in Workspaces, p \in BOOLEAN : Observe(r, w, p)
         \/ ReadSaved(r) \/ Restore(r) \/ Enqueue(r)
  PROVE  Pool' /\ \A j \in Jobs : Attended(j)' /\ Told(j)'
<1> USE DEF durable
<1>1. UNCHANGED <<child, events, workers>>
  BY DEF Observe, ReadSaved, Restore, Enqueue
<1>2. \A j \in workers : registry'[j] = registry[j]
  <2>1. UNCHANGED registry \/ \E q : Unused # {} /\ registry' = [registry EXCEPT ![NextJob] = q]
    BY DEF Observe, ReadSaved, Restore, Enqueue
  <2>2. Unused # {} => NextJob \notin workers
    BY NextIs DEF Filed, Queued, Fresh
  <2> QED BY <2>1, <2>2 DEF Filed, TypeOK
<1> QED BY <1>1, <1>2, AttendedKept DEF Supervised, Pool, Active

LEMMA QueueSupervised ==
  ASSUME Filed, Supervised, "supervisor" \notin LaunchFailures,
         \/ StartNext
         \/ \E j \in Jobs : CancelRequest(j) \/ CancelDeliver(j) \/ CancelQueued(j)
         \/ BeginStop \/ CancelWorkers \/ EndStop
  PROVE  Pool' /\ \A j \in Jobs : Attended(j)' /\ Told(j)'
<1> USE DEF durable
<1>1. UNCHANGED events
  BY DEF StartNext, CancelRequest, CancelDeliver, CancelQueued, BeginStop, CancelWorkers, EndStop
<1>2. CASE UNCHANGED <<registry, child, workers>>
  BY <1>1, <1>2, AttendedKept DEF Supervised, Pool, Active
<1>3. ASSUME NEW j \in Jobs, j \in Waiting, UNCHANGED <<child, workers>>,
             registry' = Marked(j, "CANCELLED") \/ registry' = Marked(j, "FAILED")
      PROVE  Pool' /\ \A k \in Jobs : Attended(k)' /\ Told(k)'
  <2>1. \A k \in Jobs \ {j} : registry'[k] = registry[k]
    BY <1>3, MarkedAs DEF Filed, Statuses, Terminal
  <2>2. j \notin workers
    BY <1>3, WaitingFresh DEF Fresh
  <2>3. \A k \in Jobs : k \in workers /\ Active(k) => Active(k)'
    BY <2>1, <2>2 DEF Active
  <2> QED BY <1>1, <1>3, <2>3, AttendedKept DEF Supervised, Pool
<1>4. ASSUME NEW j \in Jobs, j \in Waiting, Launch(j), Cardinality(workers) < MaxWorkers
      PROVE  Pool' /\ \A k \in Jobs : Attended(k)' /\ Told(k)'
  <2>1. j \notin workers /\ events[j] = <<>> /\ Active(j)
    BY <1>4, WaitingFresh DEF Fresh, Active
  <2>2. Pool'
    <3>1. IsFiniteSet(workers) /\ workers' = workers \cup {j}
      BY <1>4 DEF Launch, Supervised, Pool
    <3>2. IsFiniteSet(workers') /\ Cardinality(workers') = Cardinality(workers) + 1
      BY <2>1, <3>1, FS_AddElement
    <3>3. Cardinality(workers) \in Nat
      BY <3>1, FS_CardinalityType
    <3> QED BY <1>4, <3>2, <3>3, JobsAssumption DEF Pool
  <2>3. /\ child'[j].phase = "starting" /\ j \in workers' /\ UNCHANGED registry
        /\ \A k \in Jobs \ {j} : child'[k] = child[k] /\ (k \in workers' <=> k \in workers)
    BY <1>4 DEF Launch, Filed, TypeOK, Child
  <2>4. Attended(j)' /\ Told(j)'
    BY <1>1, <2>1, <2>3 DEF Attended, Told, Active
  <2>5. \A k \in Jobs \ {j} : Attended(k)' /\ Told(k)'
    BY <1>1, <2>3, AttendedKept DEF Supervised, Active
  <2> QED BY <2>2, <2>4, <2>5
<1>5. CASE StartNext
  <2>1. PICK j \in Jobs : j = Head(pending) /\ j \in Waiting
    BY <1>5, TailQueue DEF StartNext, Scheduling, Waiting, Filed, TypeOK
  <2>2. Cardinality(workers) < MaxWorkers
    BY <1>5 DEF StartNext, Scheduling
  <2>3. Launch(j) \/ LaunchWithoutResources(j) \/ LaunchWithoutProcess(j)
    BY <1>5, <2>1 DEF StartNext, LaunchWithoutSupervisor
  <2>4. LaunchWithoutResources(j) => UNCHANGED <<registry, child, workers>>
    BY DEF LaunchWithoutResources
  <2>5. LaunchWithoutProcess(j) => UNCHANGED <<child, workers>> /\ registry' = Marked(j, "FAILED")
    BY DEF LaunchWithoutProcess
  <2> QED BY <1>2, <1>3, <1>4, <2>1, <2>2, <2>3, <2>4, <2>5
<1>6. ASSUME NEW j \in Jobs, CancelDeliver(j)
      PROVE  Pool' /\ \A k \in Jobs : Attended(k)' /\ Told(k)'
  <2>1. ~UNCHANGED registry => registry' = Marked(j, "CANCELLED") /\ j \in Waiting
    BY <1>6 DEF CancelDeliver, Waiting, ToSet
  <2> QED BY <1>2, <1>3, <1>6, <2>1 DEF CancelDeliver
<1>7. ASSUME NEW j \in Jobs, CancelQueued(j)
      PROVE  Pool' /\ \A k \in Jobs : Attended(k)' /\ Told(k)'
  BY <1>3, <1>7 DEF CancelQueued, Waiting
<1>8. ASSUME NEW j \in Jobs, CancelRequest(j)
      PROVE  Pool' /\ \A k \in Jobs : Attended(k)' /\ Told(k)'
  BY <1>2, <1>8 DEF CancelRequest
<1>9. CASE BeginStop \/ CancelWorkers \/ EndStop
  BY <1>2, <1>9 DEF BeginStop, CancelWorkers, EndStop
<1> QED BY <1>5, <1>6, <1>7, <1>8, <1>9

(* A process that is killed leaves what it had said, up to some event.     *)
LEMMA KilledSupervised ==
  ASSUME Filed, Supervised, NEW j \in Jobs, Killed(j), UNCHANGED <<memory, durable>>
  PROVE  Pool' /\ \A k \in Jobs : Attended(k)' /\ Told(k)'
<1> USE DEF memory, durable
<1>1. \A k \in Jobs \ {j} : Attended(k)' /\ Told(k)'
  <2>1. \A k \in Jobs \ {j} : child'[k] = child[k] /\ events'[k] = events[k]
    BY KilledIs DEF Filed
  <2> QED BY <2>1, AttendedKept DEF Supervised, Active
<1>2. Attended(j)' /\ Told(j)'
  <2>1. /\ child'[j].phase = "gone" /\ events[j] \in Seq(Kinds)
        /\ \E n \in 0 .. Len(events[j]) : events'[j] = SubSeq(events[j], 1, n)
    BY KilledIs DEF Filed, TypeOK
  <2>2. PICK n \in 0 .. Len(events[j]) : events'[j] = SubSeq(events[j], 1, n)
    BY <2>1
  <2>3. /\ Len(events'[j]) = n /\ \A i \in 1 .. n : events'[j][i] = events[j][i]
        /\ events'[j] \in Seq(Kinds)
    BY <2>1, <2>2, EventsAre
  <2>4. \A i \in 1 .. n : i < n => i \in 1 .. Len(events[j]) /\ i < Len(events[j])
    BY <2>1
  <2>5. Told(j)'
    BY <2>1, <2>3, <2>4 DEF Supervised, Told, Live
  <2>6. events[j] = <<>> => events'[j] = <<>>
    BY <2>1, <2>3
  <2>7. Attended(j)'
    BY <2>1, <2>6 DEF Supervised, Attended, Live, Active, Still
  <2> QED BY <2>5, <2>7
<1> QED BY <1>1, <1>2 DEF Supervised, Pool

(* A child goes from step to step of its work until it says how it ended.  *)
LEMMA WorkGoes ==
  ASSUME Filed, NEW j \in Jobs, Work(j)
  PROVE  \/ /\ child[j].phase = "starting" /\ child'[j].phase = "computing" /\ Tell(j, "started")
         \/ /\ child[j].phase \notin {"starting", "reporting"} /\ Live(j)
            /\ child'[j].phase \notin {"none", "gone", "starting", "reporting"} /\ UNCHANGED events
         \/ /\ child[j].phase # "reporting" /\ Live(j) /\ child'[j].phase = "reporting"
            /\ \E kind \in Kinds : Tell(j, kind)
         \/ child[j].phase = "reporting" /\ child'[j].phase = "gone" /\ UNCHANGED events
<1>1. child[j] \in Child
  BY DEF Filed, TypeOK
<1>2. \A phase \in Phases : Move(j, phase) => child'[j].phase = phase
  BY <1>1 DEF Move, Filed, TypeOK, Child
<1>3. CASE Begin(j)
  BY <1>2, <1>3 DEF Begin, At, Phases
<1>4. CASE PassLastCheckpoint(j)
  BY <1>2, <1>4 DEF PassLastCheckpoint, At, Phases, Live
<1>5. CASE PublishStaging(j)
  <2>1. child[j].phase = "publishing" /\ child'[j].phase = "staged" /\ UNCHANGED events
    BY <1>5 DEF PublishStaging, At, Filed, TypeOK
  <2> QED BY <2>1 DEF Live
<1>6. CASE Normalize(j)
  BY <1>2, <1>6 DEF Normalize, At, Phases, Live
<1>7. CASE MarkPublished(j)
  BY <1>2, <1>7 DEF MarkPublished, At, Phases, Live
<1>8. CASE StopAtCheckpoint(j) \/ AskForReview(j) \/ ReportSuccess(j)
  BY <1>2, <1>8 DEF StopAtCheckpoint, AskForReview, ReportSuccess, At, Phases, Live, Kinds
<1>9. CASE Fail(j)
  BY <1>2, <1>9 DEF Fail, Writing, Phases, Live, Kinds
<1>10. CASE Exit(j)
  BY <1>10 DEF Exit, At, Gone, Filed, TypeOK
<1> QED BY <1>3, <1>4, <1>5, <1>6, <1>7, <1>8, <1>9, <1>10 DEF Work

LEMMA WorkSupervised ==
  ASSUME Filed, Supervised, NEW j \in Jobs, Work(j)
  PROVE  Pool' /\ \A k \in Jobs : Attended(k)' /\ Told(k)'
<1>1. /\ Live(j) /\ UNCHANGED <<registry, workers>> /\ events[j] \in Seq(Kinds)
      /\ \A k \in Jobs \ {j} : child'[k] = child[k] /\ events'[k] = events[k]
  BY WorkIs DEF Filed, TypeOK
<1>2. \A k \in Jobs \ {j} : Attended(k)' /\ Told(k)'
  BY <1>1, AttendedKept DEF Supervised, Active
<1>3. Attended(j) /\ Told(j) /\ j \in workers
  BY <1>1 DEF Supervised, Attended
<1>4. \A kind \in Kinds : Tell(j, kind) =>
        /\ Len(events'[j]) = Len(events[j]) + 1
        /\ events'[j][Len(events[j]) + 1] = kind
        /\ \A i \in 1 .. Len(events[j]) : events'[j][i] = events[j][i]
  <2>1. ASSUME NEW kind \in Kinds, Tell(j, kind) PROVE events'[j] = Append(events[j], kind)
    BY <2>1 DEF Tell, Filed, TypeOK
  <2> QED BY <1>1, <2>1, EventsAre
<1>5. Len(events[j]) \in Nat
  BY <1>1
<1>6. Attended(j)'
  <2>1. child[j].phase = "reporting" => child'[j].phase = "gone" /\ UNCHANGED events
    BY WorkGoes
  <2>2. child[j].phase # "reporting" => Active(j)
    BY <1>1, <1>3 DEF Attended, Still, Live
  <2> QED BY <1>1, <1>3, <2>1, <2>2 DEF Attended, Active, Still
<1>7. Told(j)'
  <2>1. CASE child[j].phase = "starting" /\ child'[j].phase = "computing" /\ Tell(j, "started")
    <3>1. Len(events[j]) = 0 /\ "started" \in Kinds
      BY <1>3, <2>1 DEF Told, Kinds
    <3>2. Len(events'[j]) = 1 /\ events'[j][1] = "started"
      BY <1>4, <2>1, <3>1
    <3> QED BY <2>1, <3>2 DEF Told
  <2>2. CASE /\ child[j].phase \notin {"starting", "reporting"} /\ Live(j)
             /\ child'[j].phase \notin {"none", "gone", "starting", "reporting"} /\ UNCHANGED events
    BY <1>3, <2>2 DEF Told
  <2>3. CASE /\ child[j].phase # "reporting" /\ Live(j) /\ child'[j].phase = "reporting"
             /\ \E kind \in Kinds : Tell(j, kind)
    <3>1. Len(events'[j]) = Len(events[j]) + 1 /\ \A i \in 1 .. Len(events[j]) : events'[j][i] = events[j][i]
      BY <1>4, <2>3
    <3>2. \A i \in 1 .. Len(events[j]) : events[j][i] = "started"
      BY <1>3, <2>3 DEF Told
    <3>3. \A i \in 1 .. Len(events'[j]) : i < Len(events'[j]) => i \in 1 .. Len(events[j])
      BY <1>5, <3>1
    <3> QED BY <2>3, <3>1, <3>2, <3>3 DEF Told
  <2>4. CASE child[j].phase = "reporting" /\ child'[j].phase = "gone" /\ UNCHANGED events
    BY <1>3, <2>4 DEF Told, Live
  <2> QED BY <2>1, <2>2, <2>3, <2>4, WorkGoes
<1> QED BY <1>1, <1>2, <1>6, <1>7 DEF Supervised, Pool

(* An event that ends a job is the last one, of a child that has no more   *)
(* to do; a verdict is of one that is gone.                                *)
LEMMA SuperviseSupervised ==
  ASSUME Filed, Supervised, NEW j \in Jobs, Supervise(j)
  PROVE  Pool' /\ \A k \in Jobs : Attended(k)' /\ Told(k)'
<1>1. /\ j \in workers /\ UNCHANGED child /\ events[j] \in Seq(Kinds)
      /\ \A k \in Jobs \ {j} : registry'[k] = registry[k] /\ events'[k] = events[k]
  BY SuperviseIs DEF Filed, TypeOK
<1>2. Attended(j) /\ Told(j)
  BY DEF Supervised
<1>3. UNCHANGED workers \/ (Release(j) /\ workers' = workers \ {j})
  BY DEF Supervise, HandleEvent, ReadResult, Conclude, Release
<1>4. \A k \in Jobs \ {j} : Attended(k)' /\ Told(k)'
  BY <1>1, <1>3, AttendedKept DEF Supervised, Active
<1>5. Pool'
  <2>1. IsFiniteSet(workers) => /\ IsFiniteSet(workers \ {j}) /\ Cardinality(workers \ {j}) <= Cardinality(workers)
                                /\ Cardinality(workers \ {j}) \in Nat /\ Cardinality(workers) \in Nat
    BY FS_Subset, FS_CardinalityType
  <2> QED BY <1>3, <2>1, JobsAssumption DEF Supervised, Pool
<1>6. CASE HandleEvent(j)
  <2> DEFINE n == Len(events[j])
  <2>1. /\ events[j] # <<>> /\ events'[j] = Tail(events[j]) /\ UNCHANGED workers
    BY <1>6 DEF HandleEvent, Filed, TypeOK
  <2>2. /\ n \in Nat \ {0} /\ Len(events'[j]) = n - 1 /\ events'[j] \in Seq(Kinds)
        /\ \A i \in 1 .. n - 1 : events'[j][i] = events[j][i + 1]
        /\ Head(events[j]) = events[j][1]
    BY <1>1, <2>1, EventsAre
  <2>3. Told(j)'
    <3>1. \A i \in 1 .. n - 1 : i + 1 \in 1 .. n /\ (i < n - 1 => i + 1 < n)
      BY <2>2
    <3>2. child[j].phase # "starting"
      BY <1>2, <2>1 DEF Told
    <3> QED BY <1>1, <1>2, <2>2, <3>1, <3>2 DEF Told, Live
  <2>4. Attended(j)'
    <3>1. registry'[j].status = Outcome(Head(events[j])) /\ Head(events[j]) \in Kinds
      <4>1. Head(events[j]) \in Kinds
        BY <1>1, <2>1, EventsAre
      <4>2. Outcome(Head(events[j])) \in Statuses
        BY <4>1 DEF Outcome, Kinds, Statuses, Terminal
      <4> QED BY <1>6, <4>1, <4>2, MarkedAs DEF HandleEvent, Filed
    <3>2. CASE Head(events[j]) = "started"
      <4>1. Active(j)'
        BY <3>1, <3>2 DEF Outcome, Active
      <4> QED BY <1>1, <2>1, <4>1 DEF Attended
    <3>3. CASE Head(events[j]) # "started"
      <4>1. n = 1 /\ child[j].phase \in Still
        <5>1. 1 \in 1 .. n /\ events[j][1] # "started"
          BY <2>2, <3>3
        <5>2. ~(1 < n)
          BY <1>2, <5>1 DEF Told
        <5>3. child[j].phase \in Still
          BY <1>2, <5>1 DEF Told, Live, Still
        <5>4. n \in Nat /\ n # 0
          BY <2>2
        <5> HIDE DEF n
        <5> QED BY <5>2, <5>3, <5>4
      <4>2. events'[j] = <<>>
        BY <2>2, <4>1
      <4> QED BY <1>1, <2>1, <4>1, <4>2 DEF Attended
    <3> QED BY <3>2, <3>3
  <2> QED BY <1>4, <1>5, <2>3, <2>4
<1>7. CASE ReadResult(j)
  BY <1>4, <1>5, <1>7, <1>1, <1>2, AttendedKept DEF ReadResult, Active
<1>8. CASE Conclude(j) \/ Release(j)
  <2>1. child[j].phase \in Still /\ ~Live(j) /\ events[j] = <<>> /\ UNCHANGED events
    BY <1>8 DEF Conclude, Release, Drained, Live, Still
  <2>2. Attended(j)' /\ Told(j)'
    BY <1>1, <1>2, <2>1 DEF Attended, Told, Live
  <2> QED BY <1>4, <1>5, <2>2
<1> QED BY <1>6, <1>7, <1>8 DEF Supervise

LEMMA NextSupervised ==
  ASSUME Filed, Supervised, "supervisor" \notin LaunchFailures, [Next]_vars
  PROVE  Supervised'
<1>1. OneActive'
  BY OneActiveKept DEF Supervised
<1> SUFFICES Pool' /\ \A j \in Jobs : Attended(j)' /\ Told(j)'
  BY <1>1 DEF Supervised
<1>2. ASSUME UNCHANGED <<registry, workers, child, events>>
      PROVE  Pool' /\ \A j \in Jobs : Attended(j)' /\ Told(j)'
  BY <1>2, AttendedKept DEF Supervised, Pool, Active
<1>3. CASE UNCHANGED vars
  BY <1>2, <1>3 DEF vars, memory
<1>4. ASSUME NEW j \in Jobs, Die(j) \/ Terminate(j)
      PROVE  Pool' /\ \A k \in Jobs : Attended(k)' /\ Told(k)'
  BY <1>4, KilledSupervised DEF Die, Terminate, memoryAndBounds, memory, durable
<1>5. ASSUME NEW w \in Workspaces, Remap(w) \/ Approve(w)
      PROVE  Pool' /\ \A k \in Jobs : Attended(k)' /\ Told(k)'
  BY <1>2, <1>5, DecisionIs DEF Filed
<1>6. CASE Restart
  <2>1. workers' = {} /\ \A j \in Jobs : ~Live(j)' /\ events'[j] = <<>>
    BY <1>6, RestartIs DEF Filed
  <2>2. Pool'
    BY <2>1, FS_EmptySet, JobsAssumption DEF Pool
  <2>3. \A j \in Jobs : Attended(j)' /\ Told(j)'
    BY <2>1 DEF Attended, Told, Live
  <2> QED BY <2>2, <2>3
<1> QED BY <1>3, <1>4, <1>5, <1>6, RequestSupervised, QueueSupervised, WorkSupervised,
           SuperviseSupervised DEF Next, Stopping

---------------------------------------------------------------------------
(* Where, besides, no request comes after the shutdown began.              *)
LEMMA InitClosing == Init => Closing
BY DEF Init, Closing, NoStop

LEMMA ClosingKept ==
  ASSUME Closing, UNCHANGED stop,
         stop.pc # "off" => UNCHANGED <<pending, request>>,
         stop.pc # "off" => workers' \subseteq workers,
         stop.pc = "over" => \A j \in Jobs : Live(j)' => Live(j)
  PROVE  Closing'
BY DEF Closing

LEMMA StoppingClosing ==
  ASSUME Filed, Supervised, Closing, ~LateRequests,
         BeginStop \/ (\E j \in Jobs : CancelQueued(j)) \/ CancelWorkers \/ EndStop
  PROVE  Closing'
<1> USE DEF durable
<1>1. UNCHANGED <<workers, request, child>> /\ \A j \in Jobs : Live(j)' = Live(j)
  BY DEF BeginStop, CancelQueued, CancelWorkers, EndStop, Live
<1>2. stop \in Stop
  BY DEF Filed, TypeOK
<1>3. CASE BeginStop
  <2>1. stop'.pc = "queue" /\ stop'.workers = workers /\ pending' = <<>>
        /\ \A r \in Requests : request[r].pc = "off"
    BY <1>3 DEF BeginStop
  <2> QED BY <1>1, <2>1 DEF Closing
<1>4. ASSUME NEW j \in Jobs, CancelQueued(j) PROVE Closing'
  <2>1. stop.pc = "queue" /\ stop'.pc = "queue" /\ stop'.workers = stop.workers /\ UNCHANGED pending
    BY <1>2, <1>4 DEF CancelQueued, Stop
  <2> QED BY <1>1, <2>1 DEF Closing
<1>5. CASE CancelWorkers
  <2>1. stop.pc = "queue" /\ stop'.pc = "workers" /\ stop'.workers = stop.workers /\ UNCHANGED pending
    BY <1>2, <1>5 DEF CancelWorkers, Stop
  <2> QED BY <1>1, <2>1 DEF Closing
<1>6. CASE EndStop
  <2>1. stop.pc = "workers" /\ stop'.pc = "over" /\ UNCHANGED pending /\ \A j \in stop.workers : ~Live(j)
    BY <1>2, <1>6 DEF EndStop, Stop
  <2>2. \A j \in Jobs : ~Live(j)
    BY <2>1 DEF Closing, Supervised, Attended
  <2> QED BY <1>1, <2>1, <2>2 DEF Closing
<1> QED BY <1>3, <1>4, <1>5, <1>6

LEMMA NextClosing ==
  ASSUME Filed, Supervised, Closing, ~LateRequests, [Next]_vars
  PROVE  Closing'
<1> USE DEF durable
<1>1. CASE UNCHANGED vars
  BY <1>1, ClosingKept DEF vars, memory, Live
<1>2. ASSUME NEW r \in Requests,
             \/ \E w \in Workspaces, p \in BOOLEAN : Observe(r, w, p)
             \/ ReadSaved(r) \/ Restore(r) \/ Enqueue(r)
      PROVE  Closing'
  <2>1. stop.pc = "off" \/ request[r].pc # "off"
    BY <1>2 DEF Observe, ReadSaved, Restore, Enqueue
  <2>2. stop.pc = "off" /\ UNCHANGED stop
    BY <1>2, <2>1 DEF Closing, Observe, ReadSaved, Restore, Enqueue
  <2> QED BY <2>2, ClosingKept
<1>3. CASE StartNext
  <2>1. stop.pc = "off" /\ UNCHANGED stop
    BY <1>3 DEF StartNext, Scheduling, Closing
  <2> QED BY <2>1, ClosingKept
<1>4. ASSUME NEW j \in Jobs, CancelRequest(j) \/ CancelDeliver(j) PROVE Closing'
  <2>1. UNCHANGED <<stop, request, workers, child>>
    BY <1>4 DEF CancelRequest, CancelDeliver
  <2>2. stop.pc # "off" => UNCHANGED pending
    <3>1. pending = <<>> => DOMAIN pending = {}
      OBVIOUS
    <3> QED BY <1>4, <3>1 DEF CancelRequest, CancelDeliver, Closing
  <2> QED BY <2>1, <2>2, ClosingKept DEF Live
<1>5. ASSUME NEW j \in Jobs, Work(j) PROVE Closing'
  <2>1. /\ UNCHANGED <<stop, pending, request, workers>> /\ Live(j)
        /\ \A k \in Jobs \ {j} : child'[k] = child[k]
    BY <1>5, WorkIs DEF Filed
  <2> QED BY <2>1, ClosingKept DEF Live
<1>6. ASSUME NEW j \in Jobs, Die(j) \/ Terminate(j) PROVE Closing'
  <2>1. Killed(j) /\ UNCHANGED <<stop, pending, request, workers>>
    BY <1>6 DEF Die, Terminate, memoryAndBounds, memory
  <2>2. child'[j].phase = "gone" /\ \A k \in Jobs \ {j} : child'[k] = child[k]
    BY <2>1, KilledIs DEF Filed
  <2> QED BY <2>1, <2>2, ClosingKept DEF Live
<1>7. ASSUME NEW j \in Jobs, Supervise(j) PROVE Closing'
  <2>1. workers' \subseteq workers /\ UNCHANGED <<stop, pending, request, child>>
    BY <1>7, SuperviseIs DEF Filed
  <2> QED BY <2>1, ClosingKept DEF Live
<1>8. ASSUME NEW w \in Workspaces, Remap(w) \/ Approve(w) PROVE Closing'
  <2>1. UNCHANGED <<stop, pending, request, child, workers>>
    BY <1>8, DecisionIs DEF Filed
  <2> QED BY <2>1, ClosingKept DEF Live
<1>9. CASE Restart
  BY <1>9, RestartIs DEF Closing, NoStop, Filed
<1> QED BY <1>1, <1>2, <1>3, <1>4, <1>5, <1>6, <1>7, <1>8, <1>9, StoppingClosing DEF Next, Stopping

LEMMA SupervisedIs ==
  ASSUME Filed, Supervised
  PROVE  WithinGuardrail /\ OneWriter /\ EventsAreWelcome
<1>1. WithinGuardrail
  <2> DEFINE L == {j \in Jobs : Live(j)}
  <2>1. L \subseteq workers /\ IsFiniteSet(workers) /\ Cardinality(workers) <= MaxWorkers
    BY DEF Supervised, Attended, Pool
  <2>2. /\ IsFiniteSet(L) /\ Cardinality(L) <= Cardinality(workers)
        /\ Cardinality(L) \in Nat /\ Cardinality(workers) \in Nat
    BY <2>1, FS_Subset, FS_CardinalityType
  <2>3. Cardinality(L) <= MaxWorkers
    BY <2>1, <2>2, JobsAssumption
  <2> QED BY <2>3 DEF WithinGuardrail
<1>2. \A j \in Jobs : Writing(j) => Active(j)
  BY DEF Supervised, Attended, Writing, Live, Still
<1>3. OneWriter
  BY <1>2 DEF OneWriter, Supervised, OneActive
<1>4. EventsAreWelcome
  BY DEF EventsAreWelcome, Supervised, Attended, Filed, TypeOK
<1> QED BY <1>1, <1>3, <1>4

(* Where every process has its supervisor, there are no more children than *)
(* the guardrail allows, one of them writes to a Workspace's file, and     *)
(* none tells of a job that has ended; late requests change nothing of it. *)
THEOREM ChildrenStayCounted ==
  ASSUME "supervisor" \notin LaunchFailures
  PROVE  Spec => [](WithinGuardrail /\ OneWriter /\ EventsAreWelcome)
<1>1. Init => Filed /\ Supervised
  BY InitFiled, InitSupervised
<1>2. Filed /\ Supervised /\ [Next]_vars => Filed' /\ Supervised'
  BY NextFiled, NextSupervised
<1>3. Filed /\ Supervised => WithinGuardrail /\ OneWriter /\ EventsAreWelcome
  BY SupervisedIs
<1> QED BY <1>1, <1>2, <1>3, PTL DEF Spec

(* Where, besides, no request comes after the shutdown began, no child     *)
(* outlives the server either, whatever was queued, starting or at work    *)
(* when it began.                                                          *)
THEOREM ChildrenStaySupervised ==
  ASSUME "supervisor" \notin LaunchFailures, ~LateRequests
  PROVE  Spec => []ChildrenAreSupervised
<1> DEFINE I == Filed /\ Supervised /\ Closing
<1>1. Init => I
  BY InitFiled, InitSupervised, InitClosing
<1>2. I /\ [Next]_vars => I'
  BY NextFiled, NextSupervised, NextClosing
<1>3. I => ChildrenAreSupervised
  BY SupervisedIs DEF ChildrenAreSupervised, StoppedForGood, Closing, Filed
<1> QED BY <1>1, <1>2, <1>3, PTL DEF Spec
=============================================================================
