---------------------------- MODULE CaptureJobs ----------------------------
(***************************************************************************)
(* Captures of Odoo records as the source data of a Workspace: from the    *)
(* request to "freeze" them to the DataVersion that accepts them.          *)
(*                                                                         *)
(* One worker thread (OdooCaptureJobManager) takes the captures in turn.   *)
(* A capture reads Odoo under the saved plan and then writes, with no      *)
(* transaction over any two of them: value files, which are named by what  *)
(* they hold, so that a second attempt meets those of the first; the       *)
(* capture's own provenance files; one transaction of the Workspace's      *)
(* database, which makes the capture current; the source package of the    *)
(* DataVersion; the registry.  The plan may be saved again, the capture    *)
(* cancelled and the server stopped between any two steps.                 *)
(***************************************************************************)
EXTENDS Naturals, Sequences, FiniteSets, SequencesExt

CONSTANTS
  Workspaces,
  Requests,    \* concurrent requests to capture
  Models,      \* Odoo models of a plan, captured together
  Contents,    \* what a capture may read
  None,        \* no Workspace
  MaxJobs,     \* bound: captures that are started
  MaxPlans,    \* bound: times the plan of a Workspace is saved again
  MaxCrashes,  \* bound: ends of the server other than a shutdown
  MaxFaults    \* bound: steps of captures that fail

ASSUME NoneAssumption == None \notin Workspaces
ASSUME BoundsAssumption == MaxJobs \in Nat /\ MaxPlans \in Nat

VARIABLES
  plan, selected, current, history,        \* Workspace database
  values, candidates, provenance,          \* files
  store, package, registry, projection,    \* DataVersion, registry, projection
  server, jobs, pending, events, cancelled, worker, request,   \* the process
  crashes, faults

database == <<plan, selected, current, history>>
files == <<values, candidates, provenance>>
accepted == <<store, package, registry, projection>>
control == <<pending, events, cancelled>>
budget == <<crashes, faults>>
vars == <<database, files, accepted, server, jobs, control, worker, request, budget>>

JobIds == 1 .. MaxJobs
Unused == [ws |-> None, status |-> "none"]
(* What a capture makes of the source: a SourceSelection, its version and  *)
(* plan in its hash, with the snapshots of its content.                    *)
Selection == [plan : Nat, version : Nat \ {0}, content : Contents]
NoSelection == [plan |-> 0, version |-> 0, content |-> 0]
Active == {"QUEUED", "RUNNING"}
Terminal == {"SUCCEEDED", "FAILED", "CANCELLED"}
Idle == [pc |-> "idle", job |-> 0, plan |-> 0, captured |-> NoSelection, left |-> {}]
Publishing == {"recover", "read", "values", "check", "bind", "rename", "commit"}
Accepting == {"accept", "freeze", "register", "project"}

TypeOK ==
  /\ plan \in [Workspaces -> 1 .. 1 + MaxPlans]
  /\ selected \in [Workspaces -> 0 .. MaxJobs]
  /\ current \in [Workspaces -> JobIds \cup {0}]
  /\ history \in [JobIds -> Selection \cup {NoSelection}]
  /\ values \subseteq Workspaces \X Selection \X Models
  /\ candidates \subseteq JobIds \X Models
  /\ provenance \subseteq JobIds \X Models
  /\ store \in [Workspaces -> {"DRAFT", "FROZEN"}]
  /\ package \in [Workspaces -> Selection \cup {NoSelection}]
  /\ registry \in [Workspaces -> {"DRAFT", "FROZEN"}]
  /\ projection \in [Workspaces -> Selection \cup {NoSelection}]
  /\ server \in {"serving", "stopping", "down"}
  /\ jobs \in [JobIds -> [ws : Workspaces \cup {None},
                          status : {"none", "LOST"} \cup Active \cup Terminal]]
  /\ pending \in Seq(JobIds)
  /\ events \subseteq JobIds /\ cancelled \subseteq JobIds
  /\ worker \in [pc : {"idle", "gone", "finish", "pop"} \cup Publishing \cup Accepting,
                 job : JobIds \cup {0}, plan : Nat,
                 captured : Selection \cup {NoSelection}, left : SUBSET Models]
  /\ request \in [Requests -> Workspaces \cup {None}]
  /\ crashes \in Nat /\ faults \in Nat

Init ==
  /\ plan = [ws \in Workspaces |-> 1]
  /\ selected = [ws \in Workspaces |-> 0]
  /\ current = [ws \in Workspaces |-> 0]
  /\ history = [j \in JobIds |-> NoSelection]
  /\ values = {} /\ candidates = {} /\ provenance = {}
  /\ store = [ws \in Workspaces |-> "DRAFT"]
  /\ package = [ws \in Workspaces |-> NoSelection]
  /\ registry = [ws \in Workspaces |-> "DRAFT"]
  /\ projection = [ws \in Workspaces |-> NoSelection]
  /\ server = "serving"
  /\ jobs = [j \in JobIds |-> Unused]
  /\ pending = <<>> /\ events = {} /\ cancelled = {}
  /\ worker = Idle
  /\ request = [r \in Requests |-> None]
  /\ crashes = 0 /\ faults = 0

Job == worker.job
Ws == jobs[Job].ws
JobsOf(ws) == {j \in JobIds : jobs[j].ws = ws}
Published(j) == history[j] # NoSelection
Up == server # "down"

---------------------------------------------------------------------------
(* The capture plan.  Saving it retires the current source.                *)
SavePlan(ws) ==
  /\ Up
  /\ plan[ws] < 1 + MaxPlans
  /\ plan' = [plan EXCEPT ![ws] = @ + 1]
  /\ selected' = [selected EXCEPT ![ws] = 0]
  /\ current' = [current EXCEPT ![ws] = 0]
  /\ UNCHANGED <<history, files, accepted, server, jobs, control, worker, request, budget>>

---------------------------------------------------------------------------
(* A request checks that the DataVersion is still a draft ...              *)
Prepare(r, ws) ==
  /\ Up
  /\ request[r] = None
  /\ registry[ws] = "DRAFT"
  /\ request' = [request EXCEPT ![r] = ws]
  /\ UNCHANGED <<database, files, accepted, server, jobs, control, worker, budget>>

(* Operators placed before the one they imitate are deliberate faults,     *)
(* named for what they get wrong.  Here: a queued capture does not count.  *)
RunningOf(ws) == {j \in JobsOf(ws) : jobs[j].status = "RUNNING"}

ActiveOf(ws) == {j \in JobsOf(ws) : jobs[j].status \in Active}

(* ... and starts a capture, or joins the Workspace's active one.          *)
Enqueue(r) ==
  LET ws == request[r]
      j == 1 + Cardinality({i \in JobIds : jobs[i].status # "none"}) IN
  /\ ws # None
  /\ request' = [request EXCEPT ![r] = None]
  /\ IF server # "serving" \/ ActiveOf(ws) # {}
     THEN UNCHANGED <<jobs, control>>
     ELSE /\ j \in JobIds
          /\ jobs' = [jobs EXCEPT ![j] = [ws |-> ws, status |-> "QUEUED"]]
          /\ events' = events \cup {j}
          /\ pending' = Append(pending, j)
          /\ UNCHANGED cancelled
  /\ UNCHANGED <<database, files, accepted, server, worker, budget>>

(* cancel: a queued capture is over at once, a running one is asked.       *)
Cancel(j) ==
  /\ Up
  /\ jobs[j].status \in Active
  /\ j \notin cancelled
  /\ j \in events          \* KeyError otherwise
  /\ cancelled' = cancelled \cup {j}
  /\ \/ /\ j \notin ToSet(pending)
        /\ UNCHANGED <<pending, jobs>>
     \/ \E i \in DOMAIN pending :
          /\ pending[i] = j
          /\ pending' = RemoveAt(pending, i)
          /\ jobs' = [jobs EXCEPT ![j].status = "CANCELLED"]
  /\ UNCHANGED <<database, files, accepted, server, events, worker, request, budget>>

---------------------------------------------------------------------------
(* The worker.  At(pc): it is about to take that step.                     *)
At(pc) == Up /\ worker.pc = pc
Goto(pc) == worker' = [worker EXCEPT !.pc = pc]

(* One model after the other, then on to the next step.                    *)
Each(m, next) ==
  worker' = IF worker.left = {m} THEN [worker EXCEPT !.pc = next, !.left = Models]
                                 ELSE [worker EXCEPT !.left = @ \ {m}]

Take ==
  /\ At("idle") /\ server = "serving"
  /\ pending # <<>>
  /\ jobs' = [jobs EXCEPT ![Head(pending)].status = "RUNNING"]
  /\ pending' = Tail(pending)
  /\ worker' = [Idle EXCEPT !.pc = "recover", !.job = Head(pending), !.left = Models]
  /\ UNCHANGED <<database, files, accepted, server, events, cancelled, request, budget>>

Leave ==
  /\ At("idle") /\ server = "stopping"
  /\ Goto("gone")
  /\ UNCHANGED <<database, files, accepted, server, jobs, control, request, budget>>

(* Fault: only the candidate directory is cleaned.                         *)
RecoverCandidates(ws) ==
  /\ candidates' = {p \in candidates : jobs[p[1]].ws # ws}
  /\ UNCHANGED <<values, provenance>>

(* Fault: value files of every capture but the current one go.             *)
RecoverStale(ws) ==
  /\ candidates' = {p \in candidates : jobs[p[1]].ws # ws}
  /\ provenance' = {p \in provenance : jobs[p[1]].ws = ws => Published(p[1])}
  /\ values' = {v \in values : v[1] = ws =>
                  current[ws] # 0 /\ v[2] = history[current[ws]]}

(* recover_incomplete_publications: what no published capture names goes;  *)
(* value files only once the Workspace has published one.                  *)
RecoverIncomplete(ws) ==
  LET published == {j \in JobsOf(ws) : Published(j)} IN
  /\ candidates' = {p \in candidates : jobs[p[1]].ws # ws}
  /\ provenance' = {p \in provenance : jobs[p[1]].ws = ws => p[1] \in published}
  /\ values' = IF published = {} THEN values
               ELSE {v \in values : v[1] = ws =>
                       \E j \in published : history[j] = v[2]}

Recover ==
  /\ At("recover")
  /\ RecoverIncomplete(Ws)
  /\ worker' = [worker EXCEPT !.pc = "read", !.plan = plan[Ws]]
  /\ UNCHANGED <<database, accepted, server, jobs, control, request, budget>>

(* capture_all.  Cancellation is looked at after every page; the plan at   *)
(* the end; then the version of the source selection to succeed is read.   *)
Read(c) ==
  /\ At("read")
  /\ Job \notin cancelled
  /\ plan[Ws] = worker.plan
  /\ worker' = [worker EXCEPT !.pc = "values",
       !.captured = [plan |-> worker.plan, version |-> selected[Ws] + 1, content |-> c]]
  /\ UNCHANGED <<database, files, accepted, server, jobs, control, request, budget>>

PublishValues(m) ==
  /\ At("values")
  /\ m \in worker.left
  /\ values' = values \cup {<<Ws, worker.captured, m>>}
  /\ Each(m, "check")
  /\ UNCHANGED <<database, candidates, provenance, accepted, server, jobs, control,
                 request, budget>>

(* publish_complete_captures, from the last look at the cancellation ...   *)
WriteCandidates ==
  /\ At("check")
  /\ Job \notin cancelled
  /\ candidates' = candidates \cup ({Job} \X Models)
  /\ Goto("bind")
  /\ UNCHANGED <<database, values, provenance, accepted, server, jobs, control, request, budget>>

(* ... the checks against the plan and the selection, made before the      *)
(* transaction ...                                                         *)
Bound == plan[Ws] = worker.plan /\ worker.captured.version = selected[Ws] + 1

Bind ==
  /\ At("bind")
  /\ Bound
  /\ Goto("rename")
  /\ UNCHANGED <<database, files, accepted, server, jobs, control, request, budget>>

(* Fault: on to the transaction after the first file.                      *)
RenameFirst(m) ==
  /\ At("rename")
  /\ m \in worker.left
  /\ candidates' = candidates \ {<<Job, m>>}
  /\ provenance' = provenance \cup {<<Job, m>>}
  /\ Goto("commit")
  /\ UNCHANGED <<database, values, accepted, server, jobs, control, request, budget>>

Rename(m) ==
  /\ At("rename")
  /\ m \in worker.left
  /\ candidates' = candidates \ {<<Job, m>>}
  /\ provenance' = provenance \cup {<<Job, m>>}
  /\ Each(m, "commit")
  /\ UNCHANGED <<database, values, accepted, server, jobs, control, request, budget>>

(* ... to the transaction itself.                                          *)
Commit ==
  /\ At("commit")
  /\ history' = [history EXCEPT ![Job] = worker.captured]
  /\ current' = [current EXCEPT ![Ws] = Job]
  /\ selected' = [selected EXCEPT ![Ws] = worker.captured.version]
  /\ Goto("accept")
  /\ UNCHANGED <<plan, files, accepted, server, jobs, control, request, budget>>

(* Fault: a package is replaced whatever the DataVersion's state.          *)
AcceptAnew ==
  /\ At("accept")
  /\ package' = [package EXCEPT ![Ws] = worker.captured]
  /\ Goto("freeze")
  /\ UNCHANGED <<database, files, store, registry, projection, server, jobs, control,
                 request, budget>>

(* accept_odoo_capture: draft package, its freeze in the DataVersion's     *)
(* store and in the registry, and the Workspace's projection of it.        *)
AcceptDraft ==
  /\ At("accept")
  /\ IF store[Ws] = "DRAFT"
     THEN /\ registry[Ws] = "DRAFT"
          /\ package' = [package EXCEPT ![Ws] = worker.captured]
          /\ Goto("freeze")
     ELSE UNCHANGED package /\ Goto("project")
  /\ UNCHANGED <<database, files, store, registry, projection, server, jobs, control,
                 request, budget>>

FreezeStore ==
  /\ At("freeze")
  /\ store' = [store EXCEPT ![Ws] = "FROZEN"]
  /\ Goto("register")
  /\ UNCHANGED <<database, files, package, registry, projection, server, jobs, control,
                 request, budget>>

FreezeRegistry ==
  /\ At("register")
  /\ registry' = [registry EXCEPT ![Ws] = "FROZEN"]
  /\ Goto("project")
  /\ UNCHANGED <<database, files, store, package, projection, server, jobs, control,
                 request, budget>>

(* _materialize_projection compares the datasets and the selection's hash. *)
Matches ==
  /\ package[Ws].plan = worker.captured.plan
  /\ package[Ws].version = worker.captured.version
  /\ projection[Ws] \in {NoSelection, package[Ws]}

(* Fault: whatever package the DataVersion holds is projected.             *)
ProjectUnchecked ==
  /\ At("project")
  /\ projection' = [projection EXCEPT ![Ws] = package[Ws]]
  /\ Goto("finish")
  /\ UNCHANGED <<database, files, store, package, registry, server, jobs, control,
                 request, budget>>

Project ==
  /\ At("project")
  /\ Matches
  /\ projection' = [projection EXCEPT ![Ws] = package[Ws]]
  /\ Goto("finish")
  /\ UNCHANGED <<database, files, store, package, registry, server, jobs, control,
                 request, budget>>

Settle(status) == jobs' = [jobs EXCEPT ![Job].status = status]

Finish ==
  /\ At("finish")
  /\ Settle("SUCCEEDED")
  /\ Goto("pop")
  /\ UNCHANGED <<database, files, accepted, server, control, request, budget>>

(* A step that fails: before anything is current, the capture's files are  *)
(* removed; once it is current they are not.                               *)
Refused ==
  \/ At("read") /\ plan[Ws] # worker.plan
  \/ At("bind") /\ ~Bound
  \/ At("project") /\ ~Matches

Fails ==
  /\ Up /\ worker.pc \in Publishing \cup Accepting
  /\ \/ Refused /\ UNCHANGED faults
     \/ faults < MaxFaults /\ faults' = faults + 1
  /\ IF worker.pc \in Publishing \ {"recover"}
     THEN RecoverIncomplete(Ws)
     ELSE UNCHANGED files
  /\ Settle("FAILED")
  /\ Goto("pop")
  /\ UNCHANGED <<database, accepted, server, control, request, crashes>>

(* Fault: cancellation is looked at once more, after the transaction.      *)
StoppedLate ==
  /\ At("read") \/ At("check") \/ At("accept")
  /\ Job \in cancelled
  /\ RecoverIncomplete(Ws)
  /\ Settle("CANCELLED")
  /\ Goto("pop")
  /\ UNCHANGED <<database, accepted, server, control, request, budget>>

Stopped ==
  /\ At("read") \/ At("check")
  /\ Job \in cancelled
  /\ RecoverIncomplete(Ws)
  /\ Settle("CANCELLED")
  /\ Goto("pop")
  /\ UNCHANGED <<database, accepted, server, control, request, budget>>

(* The finally clause.                                                     *)
Pop ==
  /\ At("pop")
  /\ events' = events \ {Job}
  /\ cancelled' = cancelled \ {Job}
  /\ worker' = Idle
  /\ UNCHANGED <<database, files, accepted, server, jobs, pending, request, budget>>

---------------------------------------------------------------------------
(* The server.                                                             *)
(* Fault: what is queued is dropped and stays queued to whoever asks.      *)
ShutdownDrops ==
  /\ server = "serving"
  /\ server' = "stopping"
  /\ cancelled' = cancelled \cup events
  /\ pending' = <<>>
  /\ UNCHANGED <<database, files, accepted, jobs, events, worker, request, budget>>

Shutdown ==
  /\ server = "serving"
  /\ server' = "stopping"
  /\ cancelled' = cancelled \cup events
  /\ jobs' = [j \in JobIds |-> IF j \in ToSet(pending)
                               THEN [jobs[j] EXCEPT !.status = "CANCELLED"] ELSE jobs[j]]
  /\ pending' = <<>>
  /\ UNCHANGED <<database, files, accepted, events, worker, request, budget>>

(* Memory is gone with the process; "LOST" is what became of its captures. *)
Gone ==
  /\ server' = "down"
  /\ jobs' = [j \in JobIds |-> IF jobs[j].status \in Active
                               THEN [jobs[j] EXCEPT !.status = "LOST"] ELSE jobs[j]]
  /\ pending' = <<>> /\ events' = {} /\ cancelled' = {}
  /\ worker' = Idle
  /\ request' = [r \in Requests |-> None]
  /\ UNCHANGED <<database, files, accepted, faults>>

Exit == server = "stopping" /\ Gone /\ UNCHANGED crashes

Crash ==
  /\ Up
  /\ crashes < MaxCrashes
  /\ Gone
  /\ crashes' = crashes + 1

Start ==
  /\ server = "down"
  /\ server' = "serving"
  /\ UNCHANGED <<database, files, accepted, jobs, control, worker, request, budget>>

---------------------------------------------------------------------------
Work ==
  \/ Take \/ Leave \/ Recover \/ WriteCandidates \/ Bind \/ Commit
  \/ \E c \in Contents : Read(c)
  \/ \E m \in Models : PublishValues(m) \/ Rename(m)
  \/ AcceptDraft \/ FreezeStore \/ FreezeRegistry \/ Project
  \/ Finish \/ Fails \/ Stopped \/ Pop

Next ==
  \/ \E ws \in Workspaces : SavePlan(ws)
  \/ \E r \in Requests, ws \in Workspaces : Prepare(r, ws)
  \/ \E r \in Requests : Enqueue(r)
  \/ \E j \in JobIds : Cancel(j)
  \/ Work
  \/ Shutdown \/ Exit \/ Crash \/ Start

Spec == Init /\ [][Next]_vars

---------------------------------------------------------------------------
(* The source a Workspace works with can be read: every file of the        *)
(* current capture is there, whatever was aborted, cleaned up or cut short *)
(* by a crash since.                                                       *)
CurrentHasFiles ==
  \A ws \in Workspaces :
    LET j == current[ws] IN
    j # 0 => /\ {j} \X Models \subseteq provenance
             /\ {ws} \X {history[j]} \X Models \subseteq values

(* So can the one the DataVersion has accepted, for as long as it exists.  *)
FrozenHasFiles ==
  \A ws \in Workspaces :
    store[ws] = "FROZEN" => {ws} \X {package[ws]} \X Models \subseteq values

(* When a capture starts to read, what earlier ones left behind is gone.   *)
StartsClean ==
  worker.pc \in {"read", "values"} =>
    \A p \in provenance \cup candidates : jobs[p[1]].ws = Ws => Published(p[1])

(* So the files are those the databases name.                              *)
FilesMatch == CurrentHasFiles /\ FrozenHasFiles /\ StartsClean

(* A capture shown as stopped has published nothing.                       *)
CancelledIsClean == \A j \in JobIds : jobs[j].status = "CANCELLED" => ~Published(j)

(* A capture shown as complete is the one its DataVersion has accepted, in *)
(* its own store and in the registry, and the Workspace's projection.      *)
SuccessIsAccepted ==
  \A j \in JobIds : jobs[j].status = "SUCCEEDED" =>
    LET ws == jobs[j].ws IN
    /\ Published(j)
    /\ store[ws] = "FROZEN" /\ registry[ws] = "FROZEN"
    /\ package[ws] = history[j] /\ projection[ws] = history[j]

(* A Workspace has one capture at a time.                                  *)
OneCapture ==
  \A i, j \in JobIds :
    {jobs[i].status, jobs[j].status} \subseteq Active /\ jobs[i].ws = jobs[j].ws => i = j

(* An active capture can be cancelled: its event is there to be set, and   *)
(* it is the worker's or waits for it, once.                               *)
ActiveIsOwned ==
  /\ TypeOK /\ OneCapture
  /\ \A j \in JobIds : jobs[j].status \in Active =>
       /\ j \in events
       /\ IF jobs[j].status = "RUNNING" THEN worker.job = j
          ELSE Cardinality({i \in DOMAIN pending : pending[i] = j}) = 1
=============================================================================
