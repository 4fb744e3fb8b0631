--------------------------- MODULE PreparationJobs ---------------------------
(***************************************************************************)
(* Preparation of a Workspace's rows in the background: the job registry   *)
(* and the manager of the web process, one child process and one           *)
(* supervisor thread per started job, the requests of the browser and of   *)
(* the load supervisors, and the evidence the children commit to the       *)
(* Workspace's DuckDB file.                                                *)
(*                                                                         *)
(* Jobs are numbered in the order of their creation, which is the order of *)
(* latest_many.  Every Workspace belongs to a Recipe of a run: its jobs    *)
(* are bound to a mapping, and a mapping revision is a number, never used  *)
(* again.  The same rows under the same mapping have the same content.     *)
(***************************************************************************)
EXTENDS Integers, Sequences, SequencesExt, FiniteSets

CONSTANTS
  MaxJobs,          \* bound: jobs ever created
  Workspaces,
  Bounded,          \* the Workspaces prepared through a bounded session
  Duplicated,       \* the Workspaces whose rows have possible duplicates
  Requests,         \* requests that may be under way together
  MaxWorkers,
  LaunchFailures,   \* what may fail when a job is started
  LateRequests,     \* load supervisors make requests after the shutdown began
  UnreadResults,    \* reading a saved result may fail
  MaxDeaths, MaxRemaps, MaxRestarts   \* bounds

ASSUME JobsAssumption ==
  /\ MaxJobs \in Nat /\ MaxWorkers \in Nat \ {0}
  /\ MaxDeaths \in Nat /\ MaxRemaps \in Nat /\ MaxRestarts \in Nat
  /\ Workspaces # {} /\ Bounded \subseteq Workspaces /\ Duplicated \subseteq Workspaces
  /\ LaunchFailures \subseteq {"resources", "process", "supervisor"}
  /\ LateRequests \in BOOLEAN /\ UnreadResults \in BOOLEAN

Jobs == 1..MaxJobs

VARIABLES
  registry, pending, workers,   \* the web process: jobs, queue, supervised jobs
  verdict,                      \*   what a supervisor read after its child's end
  cancelSet, cancelling,        \*   cancel events, and requests to set one
  request,                      \*   requests to prepare, or to resume
  stop,                         \*   the shutdown
  child, events,                \* child processes and their event queues
  mapping, prepared,            \* per Workspace: revision, milestone in the run
  chain, session,               \* DuckDB: current evidence, preparation_session
  deaths, restarts

memory == <<registry, pending, workers, verdict, cancelSet, cancelling, request, stop>>
durable == <<mapping, prepared, chain, session>>
vars == <<memory, child, events, durable, deaths, restarts>>

---------------------------------------------------------------------------
\* "EXITED" is FAILED with the code WORKER_EXITED; a "gone" job was lost
\* with the web process that registered it.
Terminal == {"SUCCEEDED", "REVIEW_REQUIRED", "FAILED", "EXITED", "CANCELLED"}
Statuses == {"none", "QUEUED", "RUNNING", "gone"} \cup Terminal
\* saved: the job names the result that a recovery would find.
Job == [status : Statuses, workspace : Workspaces, mapping : Nat, saved : BOOLEAN]

Phases == {"none", "starting", "computing", "publishing", "staged",
           "normalized", "published", "reporting", "gone"}
Child == [phase : Phases, staging : {0} \cup Jobs]
NoChild == [phase |-> "none", staging |-> 0]
Kinds == {"started", "succeeded", "review_required", "cancelled", "failed"}

\* staging: the job whose session or run is the current canonical staging;
\* complete: its quality and normalization runs are current.
Chain == [staging : {0} \cup Jobs, review : {"none", "waiting", "frozen"}, complete : BOOLEAN]
NoChain == [staging |-> 0, review |-> "none", complete |-> FALSE]

Results == {"SUCCEEDED", "REVIEW_REQUIRED"}
Request == [pc : {"off", "read", "restore", "enqueue"}, prepare : BOOLEAN,
            workspace : Workspaces, mapping : Nat, expected : {0} \cup Jobs,
            result : {"none"} \cup Results]
NoRequest == [pc |-> "off", prepare |-> FALSE, workspace |-> CHOOSE w \in Workspaces : TRUE,
              mapping |-> 1, expected |-> 0, result |-> "none"]

Stop == [pc : {"off", "queue", "workers", "over"}, queued : SUBSET Jobs, workers : SUBSET Jobs]
NoStop == [pc |-> "off", queued |-> {}, workers |-> {}]

TypeOK ==
  /\ registry \in [Jobs -> Job] /\ pending \in Seq(Jobs) /\ workers \subseteq Jobs
  /\ verdict \in [Jobs -> {"none", "EXITED"} \cup Results]
  /\ cancelSet \subseteq Jobs /\ cancelling \subseteq Jobs
  /\ request \in [Requests -> Request] /\ stop \in Stop
  /\ child \in [Jobs -> Child] /\ events \in [Jobs -> Seq(Kinds)]
  /\ mapping \in [Workspaces -> Nat] /\ prepared \in [Workspaces -> BOOLEAN]
  /\ chain \in [Workspaces -> Chain]
  /\ session \in [Jobs -> {"none", "READY", "FAILED", "PUBLISHED"}]
  /\ deaths \in 0..MaxDeaths /\ restarts \in 0..MaxRestarts

NoJob == [status |-> "none", workspace |-> CHOOSE w \in Workspaces : TRUE,
          mapping |-> 1, saved |-> FALSE]

Init ==
  /\ registry = [j \in Jobs |-> NoJob] /\ pending = <<>> /\ workers = {}
  /\ verdict = [j \in Jobs |-> "none"] /\ cancelSet = {} /\ cancelling = {}
  /\ request = [r \in Requests |-> NoRequest] /\ stop = NoStop
  /\ child = [j \in Jobs |-> NoChild] /\ events = [j \in Jobs |-> <<>>]
  /\ mapping = [w \in Workspaces |-> 1] /\ prepared = [w \in Workspaces |-> FALSE]
  /\ chain = [w \in Workspaces |-> NoChain] /\ session = [j \in Jobs |-> "none"]
  /\ deaths = 0 /\ restarts = 0

---------------------------------------------------------------------------
\* The registry.
Active(j) == registry[j].status \in {"QUEUED", "RUNNING"}
JobsOf(w) == {j \in Jobs : registry[j].status \notin {"none", "gone"} /\ registry[j].workspace = w}
Latest(w) == IF JobsOf(w) = {} THEN 0
             ELSE CHOOSE j \in JobsOf(w) : \A k \in JobsOf(w) : k <= j
Unused == {j \in Jobs : registry[j].status = "none"}
NextJob == CHOOSE j \in Unused : \A k \in Unused : j <= k
Home(j) == registry[j].workspace

Marked(j, status) == [registry EXCEPT ![j].status = status,
                                      ![j].saved = status = "SUCCEEDED"]

\* publish_preparation_progress: a job of the current mapping that succeeded
\* moves the application on, unless the run registry cannot be written.
Notify(w, m, status) ==
  \/ UNCHANGED prepared
  \/ /\ status = "SUCCEEDED" /\ m = mapping[w]
     /\ prepared' = [prepared EXCEPT ![w] = TRUE]

\* Fault: canonical staging alone passes for a result.
ResultOfStaging(w, m) ==
  LET c == chain[w] IN
  IF c.staging = 0 \/ mapping[w] # m THEN "none"
  ELSE IF c.review = "waiting" THEN "REVIEW_REQUIRED"
  ELSE IF session[c.staging] \in {"none", "PUBLISHED"} THEN "SUCCEEDED"
  ELSE "none"

\* PreparationRecoveryService.current, for a mapping of the Workspace.
CurrentResult(w, m) ==
  LET c == chain[w] IN
  IF c.staging = 0 \/ mapping[w] # m THEN "none"
  ELSE IF c.review = "waiting" THEN "REVIEW_REQUIRED"
  ELSE IF c.complete /\ session[c.staging] \in {"none", "PUBLISHED"} THEN "SUCCEEDED"
  ELSE "none"

\* Fault: one child more than the guardrail allows.
SchedulingOneMore == pending # <<>> /\ Cardinality(workers) <= MaxWorkers

\* _schedule_locked has the manager's lock from the change that gave it
\* something to do until it has nothing to do.
Scheduling == pending # <<>> /\ Cardinality(workers) < MaxWorkers

Live(j) == child[j].phase \notin {"none", "gone"}
Writing(j) == child[j].phase \in {"computing", "publishing", "staged", "normalized"}

---------------------------------------------------------------------------
\* Requests: enter a run (resume saved work), or prepare (resume or enqueue).
Observe(r, w, prepare) ==
  LET j == Latest(w)
      known == j # 0 /\ registry[j].mapping = mapping[w]
      seen == [pc |-> "read", prepare |-> prepare, workspace |-> w,
               mapping |-> mapping[w], expected |-> j, result |-> "none"] IN
  /\ request[r].pc = "off" /\ (stop.pc = "off" \/ LateRequests)
  /\ ~prepared[w]
  /\ ~(known /\ Active(j))
  /\ IF known /\ registry[j].status \in {"FAILED", "CANCELLED"}
     THEN prepare /\ request' = [request EXCEPT ![r] = [seen EXCEPT !.pc = "enqueue"]]
     ELSE request' = [request EXCEPT ![r] = seen]
  /\ UNCHANGED <<registry, pending, workers, verdict, cancelSet, cancelling, stop,
                 child, events, durable, deaths, restarts>>

Ended(r) == request' = [request EXCEPT ![r] = NoRequest]

ReadSaved(r) ==
  LET q == request[r]
      found == CurrentResult(q.workspace, q.mapping) IN
  /\ q.pc = "read"
  /\ IF found # "none"
     THEN request' = [request EXCEPT ![r].pc = "restore", ![r].result = found]
     ELSE IF q.prepare /\ ~prepared[q.workspace]
     THEN request' = [request EXCEPT ![r].pc = "enqueue", ![r].mapping = mapping[q.workspace]]
     ELSE Ended(r)
  /\ UNCHANGED <<registry, pending, workers, verdict, cancelSet, cancelling, stop,
                 child, events, durable, deaths, restarts>>

\* A new job, first of its Workspace's jobs from now on.
NewJob(q, status) == [status |-> status, workspace |-> q.workspace,
                      mapping |-> q.mapping, saved |-> status \in Results]

\* Fault: the job that the request saw is not compared with the latest one.
RestoredUnseen(q) ==
  LET j == Latest(q.workspace) IN
  j # 0 => ~Active(j) /\ ~(/\ registry[j].status = q.result /\ registry[j].saved
                           /\ registry[j].mapping = q.mapping)

\* restore_result: nothing is restored over a job the request has not seen,
\* over work under way, or over the same result.
Restored(q) ==
  LET j == Latest(q.workspace) IN
  /\ j = q.expected
  /\ j # 0 => ~Active(j) /\ ~(/\ registry[j].status = q.result /\ registry[j].saved
                              /\ registry[j].mapping = q.mapping)

Restore(r) ==
  LET q == request[r]
      j == Latest(q.workspace) IN
  /\ q.pc = "restore" /\ ~Scheduling
  /\ IF Restored(q)
     THEN /\ Unused # {}
          /\ registry' = [registry EXCEPT ![NextJob] = NewJob(q, q.result)]
          /\ Notify(q.workspace, q.mapping, q.result)
     ELSE /\ UNCHANGED registry
          /\ Notify(q.workspace, registry[j].mapping, registry[j].status)
  /\ Ended(r)
  /\ UNCHANGED <<pending, workers, verdict, cancelSet, cancelling, stop,
                 child, events, mapping, chain, session, deaths, restarts>>

\* Fault: a second job for a Workspace whose job is active.
EnqueueAnyway(r) ==
  LET q == request[r] IN
  /\ q.pc = "enqueue" /\ ~Scheduling /\ Unused # {}
  /\ registry' = [registry EXCEPT ![NextJob] = NewJob(q, "QUEUED")]
  /\ pending' = Append(pending, NextJob)
  /\ Ended(r)
  /\ UNCHANGED <<workers, verdict, cancelSet, cancelling, stop,
                 child, events, durable, deaths, restarts>>

Enqueue(r) ==
  LET q == request[r] IN
  /\ q.pc = "enqueue" /\ ~Scheduling
  /\ IF \E j \in JobsOf(q.workspace) : Active(j)
     THEN UNCHANGED <<registry, pending>>
     ELSE /\ Unused # {}
          /\ registry' = [registry EXCEPT ![NextJob] = NewJob(q, "QUEUED")]
          /\ pending' = Append(pending, NextJob)
  /\ Ended(r)
  /\ UNCHANGED <<workers, verdict, cancelSet, cancelling, stop,
                 child, events, durable, deaths, restarts>>

CancelRequest(j) ==
  /\ Active(j) /\ stop.pc = "off" /\ j \notin cancelling \cup cancelSet
  /\ cancelling' = cancelling \cup {j}
  /\ UNCHANGED <<registry, pending, workers, verdict, cancelSet, request, stop,
                 child, events, durable, deaths, restarts>>

\* Fault: the queued job is dropped and keeps its status.
CancelDeliverForgets(j) ==
  /\ j \in cancelling /\ ~Scheduling
  /\ cancelling' = cancelling \ {j}
  /\ cancelSet' = IF j \in workers THEN cancelSet \cup {j} ELSE cancelSet
  /\ pending' = SelectSeq(pending, LAMBDA k : k # j)
  /\ UNCHANGED <<registry, workers, verdict, request, stop, child, events, durable, deaths, restarts>>

\* Fault: a running job is CANCELLED at once, before its child has stopped.
CancelDeliverAtOnce(j) ==
  /\ j \in cancelling /\ ~Scheduling
  /\ cancelling' = cancelling \ {j}
  /\ cancelSet' = IF j \in workers THEN cancelSet \cup {j} ELSE cancelSet
  /\ pending' = SelectSeq(pending, LAMBDA k : k # j)
  /\ registry' = IF Active(j) THEN Marked(j, "CANCELLED") ELSE registry
  /\ UNCHANGED <<workers, verdict, request, stop, child, events, durable, deaths, restarts>>

CancelDeliver(j) ==
  /\ j \in cancelling /\ ~Scheduling
  /\ cancelling' = cancelling \ {j}
  /\ cancelSet' = IF j \in workers THEN cancelSet \cup {j} ELSE cancelSet
  /\ \/ /\ j \in workers \/ j \notin ToSet(pending)
        /\ UNCHANGED <<pending, registry>>
     \/ /\ j \notin workers
        /\ \E i \in DOMAIN pending : pending[i] = j /\ pending' = RemoveAt(pending, i)
        /\ registry' = Marked(j, "CANCELLED")
  /\ UNCHANGED <<workers, verdict, request, stop, child, events, durable, deaths, restarts>>

---------------------------------------------------------------------------
\* _schedule_locked and _start, one job at a time.
Launch(j) ==
  /\ workers' = workers \cup {j}
  /\ child' = [child EXCEPT ![j].phase = "starting"]
  /\ UNCHANGED registry

\* The queue or the event is not created: raised before the job is a worker.
LaunchWithoutResources(j) ==
  /\ "resources" \in LaunchFailures
  /\ UNCHANGED <<registry, workers, child>>

LaunchWithoutProcess(j) ==
  /\ "process" \in LaunchFailures
  /\ registry' = Marked(j, "FAILED")
  /\ UNCHANGED <<workers, child>>

\* The process has started; its supervisor thread has not.
LaunchWithoutSupervisor(j) ==
  /\ "supervisor" \in LaunchFailures
  /\ registry' = Marked(j, "FAILED")
  /\ child' = [child EXCEPT ![j].phase = "starting"]
  /\ UNCHANGED workers

StartNext ==
  /\ Scheduling
  /\ pending' = Tail(pending)
  /\ LET j == Head(pending) IN
     \/ Launch(j)
     \/ LaunchWithoutResources(j)
     \/ LaunchWithoutProcess(j)
     \/ LaunchWithoutSupervisor(j)
  /\ UNCHANGED <<verdict, cancelSet, cancelling, request, stop,
                 events, durable, deaths, restarts>>

---------------------------------------------------------------------------
\* The child process: _run_preparation_worker and PreparationService.prepare.
At(j, phase) == child[j].phase = phase
Move(j, phase) == child' = [child EXCEPT ![j].phase = phase]
Tell(j, kind) == events' = [events EXCEPT ![j] = Append(@, kind)]
memoryAndBounds == <<memory, deaths, restarts>>

Begin(j) ==
  /\ At(j, "starting") /\ Move(j, "computing") /\ Tell(j, "started")
  /\ UNCHANGED <<memoryAndBounds, durable>>

\* A checkpoint finds the event set.  The session fails before its rows are
\* anybody's, and "none" stands for it.
StopAtCheckpoint(j) ==
  /\ At(j, "computing") /\ j \in cancelSet
  /\ Move(j, "reporting") /\ Tell(j, "cancelled")
  /\ UNCHANGED <<memoryAndBounds, durable>>

\* The rows are computed and the last checkpoint of the job is passed.
PassLastCheckpoint(j) ==
  /\ At(j, "computing") /\ j \notin cancelSet
  /\ Move(j, "publishing")
  /\ session' = [session EXCEPT ![j] = IF Home(j) \in Bounded THEN "READY" ELSE "none"]
  /\ UNCHANGED <<memoryAndBounds, events, mapping, prepared, chain>>

\* Fault: the mapping is not compared again in the transaction.
PublishStagingUnchecked(j) ==
  LET w == Home(j)
      used == IF chain[w].staging = 0 THEN j ELSE chain[w].staging IN
  /\ At(j, "publishing")
  /\ child' = [child EXCEPT ![j] = [phase |-> "staged", staging |-> used]]
  /\ chain' = [chain EXCEPT ![w].staging = used]
  /\ UNCHANGED <<memoryAndBounds, events, mapping, prepared, session>>

\* publish_canonical_staging: equal current rows are kept in place of new ones.
PublishStaging(j) ==
  LET w == Home(j)
      used == IF chain[w].staging = 0 THEN j ELSE chain[w].staging IN
  /\ At(j, "publishing") /\ mapping[w] = registry[j].mapping
  /\ child' = [child EXCEPT ![j] = [phase |-> "staged", staging |-> used]]
  /\ chain' = [chain EXCEPT ![w].staging = used]
  /\ UNCHANGED <<memoryAndBounds, events, mapping, prepared, session>>

\* An exception fails the session, or fails to.
FailSession(j) ==
  \/ UNCHANGED session
  \/ session[j] = "READY" /\ session' = [session EXCEPT ![j] = "FAILED"]

\* evaluate_for_preparation publishes the candidates and refuses to go on.
AskForReview(j) ==
  LET w == Home(j) IN
  /\ At(j, "staged") /\ chain[w].staging = child[j].staging
  /\ w \in Duplicated /\ chain[w].review # "frozen"
  /\ chain' = [chain EXCEPT ![w].review = "waiting"]
  /\ FailSession(j) /\ Move(j, "reporting") /\ Tell(j, "review_required")
  /\ UNCHANGED <<memoryAndBounds, mapping, prepared>>

\* Quality, then normalization: a result only when both are current.
Normalize(j) ==
  LET w == Home(j) IN
  /\ At(j, "staged") /\ chain[w].staging = child[j].staging
  /\ w \in Duplicated => chain[w].review = "frozen"
  /\ chain' = [chain EXCEPT ![w].complete = TRUE]
  /\ Move(j, "normalized")
  /\ UNCHANGED <<memoryAndBounds, events, mapping, prepared, session>>

MarkPublished(j) ==
  /\ At(j, "normalized") /\ Move(j, "published")
  /\ session' = [session EXCEPT ![j] = IF @ = "READY" THEN "PUBLISHED" ELSE @]
  /\ UNCHANGED <<memoryAndBounds, events, mapping, prepared, chain>>

ReportSuccess(j) ==
  /\ At(j, "published") /\ Move(j, "reporting") /\ Tell(j, "succeeded")
  /\ UNCHANGED <<memoryAndBounds, durable>>

\* Any step raises, the last one only if there is a session to publish; a
\* domain error while a review waits is reported as a review to do.
Fail(j) ==
  /\ Writing(j) /\ (At(j, "normalized") => session[j] = "READY")
  /\ FailSession(j) /\ Move(j, "reporting")
  /\ \/ Tell(j, "failed")
     \/ chain[Home(j)].review = "waiting" /\ Tell(j, "review_required")
  /\ UNCHANGED <<memoryAndBounds, mapping, prepared, chain>>

Gone == [phase |-> "gone", staging |-> 0]

Exit(j) ==
  /\ At(j, "reporting") /\ child' = [child EXCEPT ![j] = Gone]
  /\ UNCHANGED <<memoryAndBounds, events, durable>>

Work(j) ==
  \/ Begin(j) \/ StopAtCheckpoint(j) \/ PassLastCheckpoint(j) \/ PublishStaging(j)
  \/ AskForReview(j) \/ Normalize(j) \/ MarkPublished(j) \/ ReportSuccess(j)
  \/ Fail(j) \/ Exit(j)

\* The process ends; what its queue had not yet sent is lost.
Killed(j) ==
  /\ child' = [child EXCEPT ![j] = Gone]
  /\ \E n \in 0..Len(events[j]) : events' = [events EXCEPT ![j] = SubSeq(@, 1, n)]

Die(j) ==
  /\ Live(j) /\ deaths < MaxDeaths /\ deaths' = deaths + 1
  /\ Killed(j)
  /\ UNCHANGED <<memory, durable, restarts>>

---------------------------------------------------------------------------
\* The supervisor of a job: _supervise.

\* Fault: the name of the event becomes the status.
OutcomeByName(kind) == kind

Outcome(kind) == CASE kind = "started" -> "RUNNING" [] kind = "succeeded" -> "SUCCEEDED"
                   [] kind = "review_required" -> "REVIEW_REQUIRED"
                   [] kind = "cancelled" -> "CANCELLED" [] kind = "failed" -> "FAILED"

\* The registry refuses an event for a job that has ended; see EventsAreWelcome.
HandleEvent(j) ==
  LET status == Outcome(Head(events[j])) IN
  /\ j \in workers /\ events[j] # <<>> /\ Active(j)
  /\ events' = [events EXCEPT ![j] = Tail(@)]
  /\ registry' = Marked(j, status)
  /\ Notify(Home(j), registry[j].mapping, status)
  /\ UNCHANGED <<pending, workers, verdict, cancelSet, cancelling, request, stop,
                 child, mapping, chain, session, deaths, restarts>>

\* Fault: the queue is not read to its end.
DrainedEarly(j) == j \in workers /\ ~Live(j)

Drained(j) == j \in workers /\ ~Live(j) /\ events[j] = <<>>

\* Fault: nobody looks for a saved result.
ReadNothing(j) ==
  /\ Drained(j) /\ Active(j) /\ verdict[j] = "none"
  /\ verdict' = [verdict EXCEPT ![j] = "EXITED"]
  /\ UNCHANGED <<registry, pending, workers, cancelSet, cancelling, request, stop,
                 child, events, durable, deaths, restarts>>

\* Fault: nothing is concluded when nothing is found.
ReadFoundOnly(j) ==
  LET found == CurrentResult(Home(j), registry[j].mapping) IN
  /\ Drained(j) /\ Active(j) /\ verdict[j] = "none" /\ found # "none"
  /\ verdict' = [verdict EXCEPT ![j] = found]
  /\ UNCHANGED <<registry, pending, workers, cancelSet, cancelling, request, stop,
                 child, events, durable, deaths, restarts>>

ReadResult(j) ==
  LET found == CurrentResult(Home(j), registry[j].mapping) IN
  /\ Drained(j) /\ Active(j) /\ verdict[j] = "none"
  /\ \/ verdict' = [verdict EXCEPT ![j] = IF found = "none" THEN "EXITED" ELSE found]
     \/ UnreadResults /\ verdict' = [verdict EXCEPT ![j] = "EXITED"]
  /\ UNCHANGED <<registry, pending, workers, cancelSet, cancelling, request, stop,
                 child, events, durable, deaths, restarts>>

Conclude(j) ==
  /\ Drained(j) /\ Active(j) /\ verdict[j] # "none"
  /\ registry' = [registry EXCEPT ![j].status = verdict[j], ![j].saved = verdict[j] \in Results]
  /\ verdict' = [verdict EXCEPT ![j] = "none"]
  /\ Notify(Home(j), registry[j].mapping, verdict[j])
  /\ UNCHANGED <<pending, workers, cancelSet, cancelling, request, stop,
                 child, events, mapping, chain, session, deaths, restarts>>

Release(j) ==
  /\ Drained(j) /\ ~Active(j) /\ ~Scheduling
  /\ workers' = workers \ {j} /\ cancelSet' = cancelSet \ {j}
  /\ UNCHANGED <<registry, pending, verdict, cancelling, request, stop,
                 child, events, durable, deaths, restarts>>

Supervise(j) == HandleEvent(j) \/ ReadResult(j) \/ Conclude(j) \/ Release(j)

---------------------------------------------------------------------------
\* Decisions in the browser: a new mapping revision, and the approval of the
\* possible duplicates.
Remap(w) ==
  /\ mapping[w] <= MaxRemaps
  /\ mapping' = [mapping EXCEPT ![w] = @ + 1]
  /\ prepared' = [prepared EXCEPT ![w] = FALSE]
  /\ chain' = [chain EXCEPT ![w] = NoChain]
  /\ UNCHANGED <<memory, child, events, session, deaths, restarts>>

Approve(w) ==
  /\ chain[w].review = "waiting"
  /\ chain' = [chain EXCEPT ![w].review = "frozen"]
  /\ UNCHANGED <<memory, child, events, mapping, prepared, session, deaths, restarts>>

---------------------------------------------------------------------------
\* shutdown, after the server has answered its last request, and the process
\* that starts after it.

\* Fault: the queue is not emptied.
BeginStopKeepsQueue ==
  /\ stop.pc = "off" /\ ~Scheduling /\ cancelling = {}
  /\ LateRequests \/ \A r \in Requests : request[r].pc = "off"
  /\ stop' = [pc |-> "queue", queued |-> ToSet(pending), workers |-> workers]
  /\ UNCHANGED <<registry, pending, workers, verdict, cancelSet, cancelling, request,
                 child, events, durable, deaths, restarts>>

BeginStop ==
  /\ stop.pc = "off" /\ ~Scheduling /\ cancelling = {}
  /\ LateRequests \/ \A r \in Requests : request[r].pc = "off"
  /\ stop' = [pc |-> "queue", queued |-> ToSet(pending), workers |-> workers]
  /\ pending' = <<>>
  /\ UNCHANGED <<registry, workers, verdict, cancelSet, cancelling, request,
                 child, events, durable, deaths, restarts>>

CancelQueued(j) ==
  /\ stop.pc = "queue" /\ j \in stop.queued
  /\ stop' = [stop EXCEPT !.queued = @ \ {j}]
  /\ registry' = Marked(j, "CANCELLED")
  /\ UNCHANGED <<pending, workers, verdict, cancelSet, cancelling, request,
                 child, events, durable, deaths, restarts>>

CancelWorkers ==
  /\ stop.pc = "queue" /\ stop.queued = {}
  /\ stop' = [stop EXCEPT !.pc = "workers"]
  /\ cancelSet' = cancelSet \cup stop.workers
  /\ UNCHANGED <<registry, pending, workers, verdict, cancelling, request,
                 child, events, durable, deaths, restarts>>

\* The time to stop has passed.
Terminate(j) ==
  /\ stop.pc = "workers" /\ j \in stop.workers /\ Live(j) /\ Killed(j)
  /\ UNCHANGED <<memoryAndBounds, durable>>

EndStop ==
  /\ stop.pc = "workers" /\ \A j \in stop.workers : ~Live(j)
  /\ stop' = [stop EXCEPT !.pc = "over"]
  /\ UNCHANGED <<registry, pending, workers, verdict, cancelSet, cancelling, request,
                 child, events, durable, deaths, restarts>>

\* The web process exits, its daemon processes with it; another one starts.
Restart ==
  /\ stop.pc = "over" /\ restarts < MaxRestarts /\ restarts' = restarts + 1
  /\ registry' = [j \in Jobs |-> IF j \in Unused THEN registry[j]
                                 ELSE [registry[j] EXCEPT !.status = "gone"]]
  /\ pending' = <<>> /\ workers' = {} /\ verdict' = [j \in Jobs |-> "none"]
  /\ cancelSet' = {} /\ cancelling' = {} /\ stop' = NoStop
  /\ request' = [r \in Requests |-> NoRequest]
  /\ child' = [j \in Jobs |-> IF Live(j) THEN Gone ELSE child[j]]
  /\ events' = [j \in Jobs |-> <<>>]
  /\ UNCHANGED <<durable, deaths>>

Stopping ==
  BeginStop \/ (\E j \in Jobs : CancelQueued(j)) \/ CancelWorkers
  \/ (\E j \in Jobs : Terminate(j)) \/ EndStop

Next ==
  \/ \E r \in Requests, w \in Workspaces, p \in BOOLEAN : Observe(r, w, p)
  \/ \E r \in Requests : ReadSaved(r) \/ Restore(r) \/ Enqueue(r)
  \/ StartNext
  \/ \E j \in Jobs : CancelRequest(j) \/ CancelDeliver(j)
  \/ \E j \in Jobs : Work(j) \/ Die(j) \/ Supervise(j)
  \/ \E w \in Workspaces : Remap(w) \/ Approve(w)
  \/ Stopping
  \/ Restart

Spec == Init /\ [][Next]_vars

\* The operating system runs every process and thread; a child ends its work.
Fairness ==
  /\ WF_vars(StartNext)
  /\ \A j \in Jobs : WF_vars(Work(j)) /\ WF_vars(Supervise(j)) /\ WF_vars(CancelQueued(j))

FairSpec == Spec /\ Fairness

---------------------------------------------------------------------------
\* The local guardrail on memory: no more child processes than the manager
\* was configured for, in any order of starts, failures, ends and requests.
WithinGuardrail == Cardinality({j \in Jobs : Live(j)}) <= MaxWorkers

\* The DuckDB file of a Workspace has one child that writes to it at most,
\* also when a new attempt starts while the last one still exits.
OneWriter ==
  \A j, k \in Jobs : Writing(j) /\ Writing(k) /\ Home(j) = Home(k) => j = k

\* A supervisor never gets an event for a job that has ended: the registry
\* would raise, and the supervisor would leave its child alone.
EventsAreWelcome == \A j \in workers : events[j] # <<>> => Active(j)

\* After the shutdown no child process is left, whenever it began and whatever
\* was queued, starting or at work; for servers without late requests.
StoppedForGood == stop.pc = "over" => \A j \in Jobs : ~Live(j)

\* So the children are under control: their number, what they write to, whom
\* they report to, and that they end with the server.
ChildrenAreSupervised ==
  TypeOK /\ WithinGuardrail /\ OneWriter /\ EventsAreWelcome /\ StoppedForGood

\* A job that is CANCELLED is not at work any more and has published nothing,
\* whenever the cancellation was requested.
CancelledIsClean ==
  \A j \in Jobs : registry[j].status = "CANCELLED" =>
    /\ ~Writing(j)
    /\ session[j] # "PUBLISHED" /\ chain[Home(j)].staging # j

\* Complete evidence is of the current mapping revision and of rows whose
\* duplicates are settled, whatever happened while it was computed.
CompleteIsCurrent ==
  \A w \in Workspaces : chain[w].complete =>
    /\ chain[w].staging # 0 /\ Home(chain[w].staging) = w
    /\ registry[chain[w].staging].mapping = mapping[w]
    /\ w \in Duplicated => chain[w].review = "frozen"

\* A job that SUCCEEDED, by report, by recovery or by restoration, has
\* complete evidence as long as its mapping is the current one.
SuccessIsSaved ==
  \A j \in Jobs : registry[j].status = "SUCCEEDED" /\ registry[j].mapping = mapping[Home(j)] =>
    chain[Home(j)].complete

\* An attempt whose own rows became current and which published its session
\* is never reported as failed, also when its child is killed before it can
\* report (PreparationRecoveryService, asked by _supervise).
OwnWorkIsFound ==
  \A j \in Jobs :
    session[j] = "PUBLISHED" /\ chain[Home(j)].staging = j /\ chain[Home(j)].complete =>
      registry[j].status \notin {"FAILED", "EXITED", "CANCELLED"}

\* So the outcome shown of a job tells what it left behind.
OutcomeIsTrue == CancelledIsClean /\ OwnWorkIsFound

\* A recovery never covers an explicit failure or cancellation of the current
\* mapping: only a new attempt takes its place (or the loss of the registry).
OutcomeIsRetained ==
  [][\A w \in Workspaces :
       LET j == Latest(w)
           k == Latest(w)' IN
       (/\ j # 0 /\ registry[j].status \in {"FAILED", "CANCELLED"}
        /\ registry[j].mapping = mapping[w])
       => k \in {0, j} \/ registry'[k].status = "QUEUED"]_vars

\* Every job ends: nothing waits for ever in the queue, for a child that has
\* died or for a shutdown.
Ends == \A j \in Jobs : Active(j) ~> ~Active(j)
=============================================================================
