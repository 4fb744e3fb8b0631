--------------------------- MODULE ComparisonJobs ---------------------------
(***************************************************************************)
(* Comparisons of prepared data with Odoo ("Final review"), from the       *)
(* request that reserves one to its outcome.                               *)
(*                                                                         *)
(* Three things hold a comparison: an intent in the Project registry (its  *)
(* durable state), a job in the memory of the server (PreflightJobManager, *)
(* one lock, one worker thread), and what it publishes: report files and   *)
(* one transaction of the Workspace's database.  No transaction spans two  *)
(* of them.  Meanwhile other requests edit the data that is compared, and  *)
(* the server may stop anywhere; the next one settles what it finds        *)
(* pending.                                                                *)
(***************************************************************************)
EXTENDS Naturals, Sequences, FiniteSets, SequencesExt

CONSTANTS
  Operations,   \* operation identities, one per page shown
  Workspaces,
  WorkspaceOf,  \* the Workspace whose page carries the operation
  Requests,     \* concurrent requests to compare
  None,
  MaxSubmits,   \* bound: requests that are sent
  MaxEdits,     \* bound: edits of one Workspace
  MaxCrashes,   \* bound: ends of the server other than a shutdown
  MaxFaults     \* bound: failed writes of the registry

ASSUME PlacementAssumption == WorkspaceOf \in [Operations -> Workspaces]
ASSUME NoneAssumption == None \notin Operations

VARIABLES
  input,                            \* Workspace database: what is compared
  current, saved, artifacts,        \* Workspace database and report files
  intent,                           \* Project registry
  server, jobs, pending, scheduled, worker, request,   \* the process
  submits, crashes, faults

published == <<current, saved, artifacts>>
memory == <<jobs, pending, scheduled>>
process == <<server, memory, worker, request>>
budget == <<submits, crashes, faults>>
vars == <<input, published, intent, process, budget>>

(* The compared evidence (mapping, staging, quality, approval, target) and *)
(* the revision of the Workspace, which moves with every edit.             *)
Input == [evidence : Nat, revision : Nat]
NoInput == [evidence |-> 0, revision |-> 0]

NoIntent == [state |-> "none", stage |-> "none", hash |-> NoInput]
Active == {"QUEUED", "RUNNING"}
Idle == [pc |-> "idle", op |-> None, hash |-> NoInput]
NoWork == [pc |-> "none", op |-> None, frozen |-> NoInput]
Working == {"marked", "verify", "read", "save", "receipt", "finish", "fail"}

TypeOK ==
  /\ input \in [Workspaces -> Input]
  /\ current \in [Workspaces -> Operations \cup {None}]
  /\ saved \in [Operations -> Input]
  /\ artifacts \subseteq Operations
  /\ intent \in [Operations ->
       [state : {"none", "PENDING", "COMMITTED", "FAILED"},
        stage : {"none", "QUEUED", "RUNNING", "COMPLETE", "FAILED", "STALE", "INTERRUPTED"},
        hash : Input]]
  /\ server \in {"serving", "stopping", "down", "starting"}
  /\ jobs \in [Operations -> {"none", "QUEUED", "RUNNING", "SUCCEEDED", "FAILED"}]
  /\ pending \in Seq(Operations)
  /\ scheduled \subseteq Operations
  /\ worker \in [pc : {"none", "waiting", "ready", "gone"} \cup Working,
                 op : Operations \cup {None}, frozen : Input]
  /\ request \in [Requests -> [pc : {"idle", "reserve", "enqueue"},
                               op : Operations \cup {None}, hash : Input]]
  /\ submits \in Nat /\ crashes \in Nat /\ faults \in Nat

Init ==
  /\ input = [ws \in Workspaces |-> [evidence |-> 1, revision |-> 1]]
  /\ current = [ws \in Workspaces |-> None]
  /\ saved = [o \in Operations |-> NoInput]
  /\ artifacts = {}
  /\ intent = [o \in Operations |-> NoIntent]
  /\ server = "serving"
  /\ jobs = [o \in Operations |-> "none"]
  /\ pending = <<>>
  /\ scheduled = {}
  /\ worker = NoWork
  /\ request = [r \in Requests |-> Idle]
  /\ submits = 0 /\ crashes = 0 /\ faults = 0

Peers(o) == {p \in Operations : WorkspaceOf[p] = WorkspaceOf[o]}
InputOf(o) == input[WorkspaceOf[o]]
IsPending(o) == intent[o].state = "PENDING"

MayFault == faults < MaxFaults
Fault == MayFault /\ faults' = faults + 1
NoFault == UNCHANGED faults

---------------------------------------------------------------------------
(* Edits.  One that changes the evidence retires the current report in its *)
(* own transaction, any other moves the revision alone.                    *)
MayEdit(ws) == input[ws].revision < 1 + MaxEdits

Invalidate(ws) ==
  /\ MayEdit(ws)
  /\ input' = [input EXCEPT ![ws].evidence = @ + 1, ![ws].revision = @ + 1]
  /\ current' = [current EXCEPT ![ws] = None]
  /\ UNCHANGED <<saved, artifacts, intent, process, budget>>

Touch(ws) ==
  /\ MayEdit(ws)
  /\ input' = [input EXCEPT ![ws].revision = @ + 1]
  /\ UNCHANGED <<published, intent, process, budget>>

---------------------------------------------------------------------------
(* A request reads the hash of the inputs ...                              *)
Submit(r, o) ==
  /\ server \in {"serving", "stopping"}
  /\ request[r].pc = "idle"
  /\ submits < MaxSubmits
  /\ submits' = submits + 1
  /\ request' = [request EXCEPT ![r] = [pc |-> "reserve", op |-> o, hash |-> InputOf(o)]]
  /\ UNCHANGED <<input, published, intent, server, memory, worker, crashes, faults>>

(* _job_from_intent                                                        *)
JobFromIntent(i) ==
  CASE i.state = "COMMITTED" -> "SUCCEEDED"
    [] i.state = "FAILED" -> "FAILED"
    [] OTHER -> IF i.stage = "QUEUED" THEN "QUEUED" ELSE "RUNNING"

Give(r) == request' = [request EXCEPT ![r] = Idle]

(* Fault: the registry is not asked.                                       *)
ReservableInMemory(o, hash) ==
  /\ server = "serving"
  /\ \A p \in Peers(o) \ {o} : jobs[p] \notin Active
  /\ intent[o] = NoIntent \/ intent[o].hash = hash

Reservable(o, hash) ==
  /\ server = "serving"
  /\ \A p \in Peers(o) \ {o} : jobs[p] \notin Active
  /\ \A p \in Peers(o) \ {o} : ~IsPending(p)
  /\ intent[o] = NoIntent \/ intent[o].hash = hash

(* Fault: an identity that failed is tried again.                          *)
ReserveAfresh(r) ==
  LET o == request[r].op IN
  /\ request[r].pc = "reserve"
  /\ IF Reservable(o, request[r].hash)
     THEN LET i == IF intent[o].state \in {"none", "FAILED"}
                   THEN [state |-> "PENDING", stage |-> "QUEUED", hash |-> request[r].hash]
                   ELSE intent[o] IN
          /\ intent' = [intent EXCEPT ![o] = i]
          /\ jobs' = [jobs EXCEPT ![o] = JobFromIntent(i)]
          /\ request' = [request EXCEPT ![r].pc = "enqueue"]
     ELSE Give(r) /\ UNCHANGED <<intent, jobs>>
  /\ UNCHANGED <<input, published, server, pending, scheduled, worker, budget>>

(* ... reserves the operation, or replays it, under the manager's lock: no *)
(* other comparison of the Workspace is active in memory or pending in the *)
(* registry, and an identity keeps its meaning.  The job is what the       *)
(* intent says, whatever memory said ...                                   *)
Reserve(r) ==
  LET o == request[r].op IN
  /\ request[r].pc = "reserve"
  /\ IF Reservable(o, request[r].hash)
     THEN LET i == IF intent[o] = NoIntent
                   THEN [state |-> "PENDING", stage |-> "QUEUED", hash |-> request[r].hash]
                   ELSE intent[o] IN
          /\ intent' = [intent EXCEPT ![o] = i]
          /\ jobs' = [jobs EXCEPT ![o] = JobFromIntent(i)]
          /\ request' = [request EXCEPT ![r].pc = "enqueue"]
     ELSE Give(r) /\ UNCHANGED <<intent, jobs>>
  /\ UNCHANGED <<input, published, server, pending, scheduled, worker, budget>>

(* Fault: a worker that waits is not woken.                                *)
NotifiedOnce == IF worker.pc = "none" THEN [worker EXCEPT !.pc = "ready"] ELSE worker

(* A notified worker looks at the queue; the first job starts the thread.  *)
Notified == IF worker.pc \in {"none", "waiting"} THEN [worker EXCEPT !.pc = "ready"] ELSE worker

(* ... and queues it once.  A registry that cannot take the new stage      *)
(* leaves the job queued and the worker asleep.                            *)
Enqueue(r) ==
  LET o == request[r].op IN
  /\ request[r].pc = "enqueue"
  /\ Give(r)
  /\ \/ /\ \/ server # "serving"
           \/ \E p \in Peers(o) \ {o} : jobs[p] \in Active
           \/ jobs[o] \notin Active
           \/ o \in scheduled
        /\ UNCHANGED <<intent, pending, scheduled, worker, faults>>
     \/ /\ server = "serving"
        /\ \A p \in Peers(o) \ {o} : jobs[p] \notin Active
        /\ jobs[o] \in Active /\ o \notin scheduled
        /\ pending' = Append(pending, o)
        /\ scheduled' = scheduled \cup {o}
        /\ \/ /\ intent' = [intent EXCEPT ![o].stage = IF IsPending(o) THEN "QUEUED" ELSE @]
              /\ worker' = Notified
              /\ NoFault
           \/ Fault /\ UNCHANGED <<intent, worker>>
  /\ UNCHANGED <<input, published, server, jobs, submits, crashes>>

(* active() and get() take into memory what only the registry knows.       *)
Poll(o) ==
  /\ server \in {"serving", "stopping"}
  /\ \/ intent[o] # NoIntent /\ jobs[o] = "none"
     \/ IsPending(o) /\ \A p \in Peers(o) : jobs[p] \notin Active
  /\ jobs' = [jobs EXCEPT ![o] = JobFromIntent(intent[o])]
  /\ UNCHANGED <<input, published, intent, server, pending, scheduled, worker, request, budget>>

---------------------------------------------------------------------------
(* The worker thread.                                                      *)
Go(pc) == worker' = [worker EXCEPT !.pc = pc]
At(pc) == worker.pc = pc
Mine == worker.op

(* The job is taken under the lock; the lock-free half of _mark_running    *)
(* that follows commutes with everything else, the registry's half not.    *)
Take ==
  /\ At("ready")
  /\ server = "serving" /\ pending # <<>>
  /\ worker' = [pc |-> "marked", op |-> Head(pending), frozen |-> NoInput]
  /\ pending' = Tail(pending)
  /\ jobs' = [jobs EXCEPT ![Head(pending)] = "RUNNING"]
  /\ UNCHANGED <<input, published, intent, server, scheduled, request, budget>>

Wait ==
  /\ At("ready")
  /\ server = "serving" /\ pending = <<>>
  /\ Go("waiting")
  /\ UNCHANGED <<input, published, intent, server, memory, request, budget>>

Leave ==
  /\ worker.pc \in {"ready", "waiting"}
  /\ server = "stopping"
  /\ Go("gone")
  /\ UNCHANGED <<input, published, intent, server, memory, request, budget>>

PersistRunning ==
  /\ At("marked")
  /\ \/ /\ intent' = [intent EXCEPT ![Mine].stage = IF IsPending(Mine) THEN "RUNNING" ELSE @]
        /\ Go("verify") /\ NoFault
     \/ Fault /\ Go("fail") /\ UNCHANGED intent
  /\ UNCHANGED <<input, published, server, memory, request, submits, crashes>>

(* compare: the reserved inputs are required before the rows are frozen    *)
(* and again after (revisions only grow, so one look stands for both), ... *)
Verify ==
  /\ At("verify")
  /\ IF InputOf(Mine) = intent[Mine].hash
     THEN worker' = [worker EXCEPT !.pc = "read", !.frozen = InputOf(Mine)]
     ELSE Go("fail")
  /\ UNCHANGED <<input, published, intent, server, memory, request, budget>>

(* ... and again after the remote read, before the report files.           *)
WriteReports ==
  /\ At("read")
  /\ IF InputOf(Mine) = intent[Mine].hash
     THEN artifacts' = artifacts \cup {Mine} /\ Go("save")
     ELSE UNCHANGED artifacts /\ Go("fail")
  /\ UNCHANGED <<input, current, saved, intent, server, memory, request, budget>>

(* Fault: the inputs are not compared in the transaction.                  *)
SaveUnchecked ==
  /\ At("save")
  /\ saved' = [saved EXCEPT ![Mine] = worker.frozen]
  /\ current' = [current EXCEPT ![WorkspaceOf[Mine]] = Mine]
  /\ Go("receipt")
  /\ UNCHANGED <<input, artifacts, intent, server, memory, request, budget>>

(* The transaction that saves the report and makes it current compares     *)
(* them once more.  A registration file that fails to follow is no failure.*)
SaveReport ==
  /\ At("save")
  /\ InputOf(Mine) = worker.frozen
  /\ saved' = [saved EXCEPT ![Mine] = worker.frozen]
  /\ current' = [current EXCEPT ![WorkspaceOf[Mine]] = Mine]
  /\ Go("receipt")
  /\ UNCHANGED <<input, artifacts, intent, server, memory, request, budget>>

(* A failed publication removes the files it wrote.                        *)
PublicationFails ==
  /\ At("save")
  /\ artifacts' = artifacts \ {Mine}
  /\ Go("fail")
  /\ UNCHANGED <<input, current, saved, intent, server, memory, request, budget>>

(* The receipt is verified against the files; a run's summaries follow.    *)
Receipt ==
  /\ At("receipt")
  /\ Go(IF Mine \in artifacts THEN "finish" ELSE "fail")
  /\ UNCHANGED <<input, published, intent, server, memory, request, budget>>

WorkFails ==
  /\ worker.pc \in {"verify", "read", "receipt"}
  /\ Go("fail")
  /\ UNCHANGED <<input, published, intent, server, memory, request, budget>>

Done == worker' = [pc |-> "ready", op |-> None, frozen |-> NoInput]

Settled(i, state, stage) ==
  IF i.state = "PENDING" THEN [i EXCEPT !.state = state, !.stage = stage] ELSE i

(* _finish_succeeded: the intent first.  When that fails the job is        *)
(* failed, in memory only.                                                 *)
FinishSucceeded ==
  /\ At("finish")
  /\ \/ /\ IsPending(Mine)
        /\ intent' = [intent EXCEPT ![Mine] = Settled(@, "COMMITTED", "COMPLETE")]
        /\ jobs' = [jobs EXCEPT ![Mine] = "SUCCEEDED"]
        /\ NoFault
     \/ /\ Fault
        /\ jobs' = [jobs EXCEPT ![Mine] = "FAILED"]
        /\ UNCHANGED intent
  /\ Done
  /\ UNCHANGED <<input, published, server, pending, scheduled, request, submits, crashes>>

FinishFailed ==
  /\ At("fail")
  /\ \/ /\ intent' = [intent EXCEPT ![Mine] = Settled(@, "FAILED", "FAILED")]
        /\ NoFault
     \/ Fault /\ UNCHANGED intent
  /\ jobs' = [jobs EXCEPT ![Mine] = "FAILED"]
  /\ Done
  /\ UNCHANGED <<input, published, server, pending, scheduled, request, submits, crashes>>

---------------------------------------------------------------------------
(* Fault: the comparison that runs is failed with the queued ones.         *)
ShutdownFailsAll ==
  /\ server = "serving"
  /\ server' = "stopping"
  /\ pending' = <<>>
  /\ jobs' = [o \in Operations |-> IF jobs[o] \in Active THEN "FAILED" ELSE jobs[o]]
  /\ intent' = [o \in Operations |->
       IF jobs[o] \in Active THEN Settled(intent[o], "FAILED", "FAILED") ELSE intent[o]]
  /\ UNCHANGED <<input, published, scheduled, worker, request, budget>>

(* Shutdown fails what is queued and leaves the comparison that runs; an   *)
(* intent may fail to be written.                                          *)
Shutdown ==
  /\ server = "serving"
  /\ server' = "stopping"
  /\ pending' = <<>>
  /\ jobs' = [o \in Operations |-> IF o \in ToSet(pending) THEN "FAILED" ELSE jobs[o]]
  /\ \E lost \in SUBSET ToSet(pending) :
       /\ IF lost = {} THEN NoFault ELSE Cardinality(lost) = 1 /\ Fault
       /\ intent' = [o \in Operations |->
            IF o \in ToSet(pending) \ lost THEN Settled(intent[o], "FAILED", "FAILED") ELSE intent[o]]
  /\ UNCHANGED <<input, published, scheduled, worker, request, submits, crashes>>

Forget ==
  /\ server' = "down"
  /\ jobs' = [o \in Operations |-> "none"]
  /\ pending' = <<>>
  /\ scheduled' = {}
  /\ worker' = NoWork
  /\ request' = [r \in Requests |-> Idle]

Exit ==
  /\ server = "stopping"
  /\ Forget
  /\ UNCHANGED <<input, published, intent, budget>>

Crash ==
  /\ server \in {"serving", "starting"}
  /\ crashes < MaxCrashes
  /\ crashes' = crashes + 1
  /\ Forget
  /\ UNCHANGED <<input, published, intent, submits, faults>>

Start ==
  /\ server = "down"
  /\ server' = "starting"
  /\ UNCHANGED <<input, published, intent, memory, worker, request, budget>>

(* Fault: report files pass for a published report.                        *)
ReconcileFromFiles(o) ==
  /\ server = "starting" /\ IsPending(o)
  /\ intent' = [intent EXCEPT ![o] =
       IF o \in artifacts THEN Settled(@, "COMMITTED", "COMPLETE")
       ELSE Settled(@, "FAILED", "INTERRUPTED")]
  /\ UNCHANGED <<input, published, process, budget>>

(* Fault: only a published report settles the attempt.                     *)
ReconcileFound(o) ==
  /\ server = "starting" /\ IsPending(o)
  /\ current[WorkspaceOf[o]] = o
  /\ intent' = [intent EXCEPT ![o] = Settled(@, "COMMITTED", "COMPLETE")]
  /\ UNCHANGED <<input, published, process, budget>>

(* reconcile_pending, before the first request: the current report of the  *)
(* Workspace is the only evidence that a pending attempt succeeded.        *)
Reconcile(o) ==
  /\ server = "starting" /\ IsPending(o)
  /\ intent' = [intent EXCEPT ![o] =
       IF current[WorkspaceOf[o]] # o THEN Settled(@, "FAILED", "INTERRUPTED")
       ELSE IF saved[o].evidence # InputOf(o).evidence THEN Settled(@, "FAILED", "STALE")
       ELSE IF o \notin artifacts THEN Settled(@, "FAILED", "FAILED")
       ELSE Settled(@, "COMMITTED", "COMPLETE")]
  /\ UNCHANGED <<input, published, process, budget>>

Serve ==
  /\ server = "starting"
  /\ \A o \in Operations : ~IsPending(o)
  /\ server' = "serving"
  /\ UNCHANGED <<input, published, intent, memory, worker, request, budget>>

Work ==
  \/ Take \/ Wait \/ Leave \/ PersistRunning \/ Verify \/ WriteReports
  \/ SaveReport \/ PublicationFails \/ Receipt \/ WorkFails
  \/ FinishSucceeded \/ FinishFailed

Lifecycle == Start \/ Serve \/ Exit \/ \E o \in Operations : Reconcile(o)

Next ==
  \/ \E ws \in Workspaces : Invalidate(ws) \/ Touch(ws)
  \/ \E r \in Requests, o \in Operations : Submit(r, o)
  \/ \E r \in Requests : Reserve(r) \/ Enqueue(r)
  \/ \E o \in Operations : Poll(o)
  \/ Work \/ Shutdown \/ Crash \/ Lifecycle

Spec == Init /\ [][Next]_vars

(* A request and the worker go on, Odoo answers or fails, and a server     *)
(* that went down is started again.                                        *)
FairSpec ==
  /\ Spec
  /\ \A r \in Requests : WF_vars(Reserve(r) \/ Enqueue(r))
  /\ WF_vars(Work)
  /\ WF_vars(Lifecycle)

---------------------------------------------------------------------------
(* The report that pages and loads are served is of the data as it is now, *)
(* of the inputs its operation was reserved for, and complete: whatever    *)
(* edits fall between the reservation, the remote read and the             *)
(* publication.                                                            *)
CurrentReportIsFresh ==
  \A ws \in Workspaces : LET o == current[ws] IN o # None =>
    /\ saved[o].evidence = input[ws].evidence
    /\ saved[o] = intent[o].hash
    /\ o \in artifacts

(* One comparison of a Workspace at a time: in memory and in the registry, *)
(* which restarts, replays and polls fill from each other.                 *)
OneComparison ==
  \A o \in Operations : \A p \in Peers(o) \ {o} :
    /\ ~(IsPending(o) /\ IsPending(p))
    /\ ~(jobs[o] \in Active /\ jobs[p] \in Active)

(* What the worker does is never settled by somebody else, and is queued   *)
(* once: no second request, poll or shutdown starts or fails it again.     *)
WorkIsOwned ==
  /\ TypeOK /\ OneComparison
  /\ worker.pc \in Working => IsPending(Mine) /\ Mine \notin ToSet(pending)
  /\ \A i, j \in DOMAIN pending : pending[i] = pending[j] => i = j
  /\ \A o \in ToSet(pending) : IsPending(o) /\ saved[o] = NoInput

(* A comparison recorded as a success published its report; one recorded   *)
(* by recovery as interrupted left none that anybody is served.            *)
OutcomeIsTrue ==
  \A o \in Operations :
    /\ intent[o].state = "COMMITTED" => saved[o] = intent[o].hash /\ o \in artifacts
    /\ intent[o].stage = "INTERRUPTED" => current[WorkspaceOf[o]] # o

(* Seen from outside, a comparison is an operation that takes effect once, *)
(* when its report is saved, and whose recorded outcome is final and true. *)
Outcome == INSTANCE OperationOutcome WITH
  outcome <- [o \in Operations |->
    CASE intent[o].state = "none" -> "absent"
      [] intent[o].state = "PENDING" -> "pending"
      [] intent[o].state = "COMMITTED" -> "done"
      [] OTHER -> "failed"],
  effect <- {o \in Operations : saved[o] # NoInput}

ImplementsOutcome == Outcome!Spec

(* Every comparison that was reserved ends, crashes and shutdowns          *)
(* included, as long as the registry takes the writes.                     *)
Ends == \A o \in Operations : IsPending(o) ~> ~IsPending(o) \/ faults > 0
=============================================================================
