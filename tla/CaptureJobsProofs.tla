--------------------------- MODULE CaptureJobsProofs ---------------------------
(***************************************************************************)
(* What captures leave behind, for any Workspaces, models, contents,       *)
(* captures, plans, failures and ends of the server: files for what the    *)
(* databases name, one capture of a Workspace at a time, and a success or  *)
(* a cancellation that is what it says.                                    *)
(***************************************************************************)
EXTENDS CaptureJobs, DataLemmas, FiniteSetTheorems

Used(j) == jobs[j].status # "none"
PublishedOf(ws) == {j \in JobIds : jobs[j].ws = ws /\ Published(j)}

WorkerRecords ==
  [pc : {"idle", "gone", "finish", "pop"} \cup Publishing \cup Accepting,
   job : JobIds \cup {0}, plan : Nat, captured : Selection \cup {NoSelection},
   left : SUBSET Models]

(* Captures are numbered as they are started, and belong to a Workspace    *)
(* from then on.                                                           *)
Numbered ==
  /\ \E n \in 0 .. MaxJobs : \A j \in JobIds : Used(j) <=> j <= n
  /\ \A j \in JobIds : Used(j) => jobs[j].ws \in Workspaces
  /\ \A j \in JobIds : ~Used(j) => jobs[j].ws = None

(* Who has a capture.                                                      *)
Held ==
  /\ OneCapture /\ OnceEach(pending)
  /\ \A j \in JobIds :
       /\ jobs[j].status \in Active => j \in events
       /\ jobs[j].status = "RUNNING" => worker.job = j
       /\ jobs[j].status = "QUEUED" <=> j \in ToSet(pending)
  /\ worker.pc \in Publishing \cup Accepting \cup {"finish"} =>
       Job \in JobIds /\ jobs[Job].status = "RUNNING"
  /\ worker.pc = "pop" => Job \in JobIds /\ jobs[Job].status \in Terminal
  /\ worker.pc \in {"idle", "gone"} => Job = 0

(* What is published has its files, and is of a plan and version nothing   *)
(* else of its Workspace is of.                                            *)
Kept(j) ==
  /\ {j} \X Models \subseteq provenance
  /\ {jobs[j].ws} \X {history[j]} \X Models \subseteq values
Before(ws, p, v) ==
  \A j \in PublishedOf(ws) :
    history[j].plan <= p /\ (history[j].plan = p => history[j].version <= v)
PublishedOnce ==
  /\ \A j \in JobIds : Published(j) =>
       Kept(j) /\ jobs[j].status \notin {"none", "QUEUED", "CANCELLED"}
  /\ \A ws \in Workspaces : Before(ws, plan[ws], selected[ws])
  /\ \A ws \in Workspaces : \A i, j \in PublishedOf(ws) :
       history[i].plan = history[j].plan /\ history[i].version = history[j].version => i = j

(* What the databases name is published.                                   *)
Named ==
  /\ \A ws \in Workspaces : current[ws] # 0 => current[ws] \in PublishedOf(ws)
  /\ \A ws \in Workspaces : store[ws] = "FROZEN" =>
       \E j \in PublishedOf(ws) : package[ws] = history[j]
  /\ \A p \in provenance \cup candidates : Used(p[1])

(* How far the worker is: on its way to the transaction ...                *)
OnItsWay ==
  /\ worker.pc \in Publishing => ~Published(Job)
  /\ worker.pc \in {"recover", "read", "check", "bind"} => worker.left = Models
  /\ worker.pc \in Publishing \ {"recover"} => worker.plan <= plan[Ws]
  /\ worker.pc \in Publishing \ {"recover", "read"} =>
       worker.captured \in Selection /\ worker.captured.plan = worker.plan
  /\ worker.pc = "values" => {Ws} \X {worker.captured} \X (Models \ worker.left) \subseteq values
  /\ worker.pc \in {"check", "bind", "rename", "commit"} =>
       {Ws} \X {worker.captured} \X Models \subseteq values
  /\ worker.pc = "rename" => {Job} \X (Models \ worker.left) \subseteq provenance
  /\ worker.pc = "commit" => {Job} \X Models \subseteq provenance
  /\ worker.pc \in {"rename", "commit"} =>
       Before(Ws, worker.captured.plan, worker.captured.version - 1)

(* ... and from there to the DataVersion.                                  *)
Accepted(ws, s) ==
  store[ws] = "FROZEN" /\ registry[ws] = "FROZEN" /\ package[ws] = s
AnotherIsFrozen == \E j \in PublishedOf(Ws) : j # Job /\ package[Ws] = history[j]
Handed ==
  /\ worker.pc \in Accepting \cup {"finish"} => Published(Job) /\ history[Job] = worker.captured
  /\ worker.pc = "accept" /\ store[Ws] = "FROZEN" => AnotherIsFrozen
  /\ worker.pc \in {"freeze", "register"} => package[Ws] = worker.captured
  /\ worker.pc = "register" => store[Ws] = "FROZEN"
  /\ worker.pc = "project" => Accepted(Ws, worker.captured) \/ AnotherIsFrozen
  /\ worker.pc = "finish" =>
       Accepted(Ws, worker.captured) /\ projection[Ws] = worker.captured

(* A version is at most the number of captures there were before, and one. *)
Captures == {j \in JobIds : Published(j)}
Versioned == Publishing \ {"recover", "read"}
Counted ==
  /\ \A ws \in Workspaces : selected[ws] <= Cardinality(Captures)
  /\ worker.pc \in Versioned => worker.captured.version <= 1 + Cardinality(Captures)

IInv ==
  /\ TypeOK /\ Numbered /\ Held /\ PublishedOnce /\ Named /\ StartsClean
  /\ OnItsWay /\ Handed /\ SuccessIsAccepted /\ Counted

---------------------------------------------------------------------------
(* There are no more captures than jobs, so they can be counted.           *)
LEMMA CapturesCounted ==
  /\ IsFiniteSet(Captures) /\ Cardinality(Captures) \in Nat
  /\ \A j \in JobIds : j \notin Captures => Cardinality(Captures) < MaxJobs
<1>1. IsFiniteSet(JobIds) /\ Cardinality(JobIds) = MaxJobs
  BY BoundsAssumption, FS_Interval DEF JobIds
<1>2. IsFiniteSet(Captures)
  BY <1>1, FS_Subset DEF Captures
<1>3. Cardinality(Captures) \in Nat
  BY <1>2, FS_CardinalityType
<1>4. ASSUME NEW j \in JobIds, j \notin Captures PROVE Cardinality(Captures) < MaxJobs
  <2>1. Captures \cup {j} \in SUBSET JobIds
    BY DEF Captures
  <2>2. Cardinality(Captures \cup {j}) = Cardinality(Captures) + 1
    BY <1>2, <1>4, FS_AddElement
  <2>3. Cardinality(Captures \cup {j}) <= MaxJobs
    BY <1>1, <2>1, FS_Subset
  <2> QED
    BY <1>3, <2>2, <2>3, BoundsAssumption
<1> QED
  BY <1>2, <1>3, <1>4

(* Before the first capture.                                               *)
LEMMA InitIInv == Init => IInv
<1> SUFFICES ASSUME Init PROVE IInv
  OBVIOUS
<1> USE DEF Init, Unused, NoSelection, Idle, Job, Ws, Published, PublishedOf, Used
<1>1. TypeOK
  BY EmptyQueue, NoneAssumption, BoundsAssumption DEF TypeOK, JobIds, Active, Terminal
<1>2. Numbered
  <2>1. 0 \in 0 .. MaxJobs /\ \A j \in JobIds : ~(j <= 0)
    BY BoundsAssumption DEF JobIds
  <2>2. \A j \in JobIds : ~Used(j) /\ jobs[j].ws = None
    OBVIOUS
  <2> QED
    BY <2>1, <2>2 DEF Numbered
<1>3. Held
  BY EmptyQueue, NoneAssumption DEF Held, OneCapture, Active, Publishing, Accepting
<1>4. PublishedOnce
  BY DEF PublishedOnce, Before
<1>5. Named /\ StartsClean /\ SuccessIsAccepted
  BY DEF Named, StartsClean, SuccessIsAccepted
<1>6. OnItsWay /\ Handed
  BY DEF OnItsWay, Handed, Publishing, Accepting
<1>7. Counted
  <2>1. Cardinality(Captures) \in Nat
    BY CapturesCounted
  <2> QED
    BY <2>1 DEF Counted, Versioned
<1> QED
  BY <1>1, <1>2, <1>3, <1>4, <1>5, <1>6, <1>7 DEF IInv

(* The count only changes with a transaction.                              *)
LEMMA SameCount ==
  ASSUME IInv, UNCHANGED <<history, selected>>,
         \/ worker'.pc \notin Versioned
         \/ worker.pc \in Versioned /\ worker'.captured = worker.captured
  PROVE  Counted'
<1>1. Captures' = Captures
  BY DEF Captures, Published
<1> QED
  BY <1>1 DEF IInv, Counted

(* A capture that was started keeps its Workspace, so what is published of *)
(* a Workspace only changes with a transaction.                            *)
LEMMA SamePublished ==
  ASSUME PublishedOnce, UNCHANGED history,
         \A j \in JobIds : Used(j) => jobs'[j].ws = jobs[j].ws,
         \A j \in JobIds : Published(j) => jobs'[j].status # "none",
         \A j \in JobIds : ~Used(j) => jobs[j].ws = None,
         NEW ws \in Workspaces
  PROVE  \A j \in JobIds : j \in PublishedOf(ws)' <=> j \in PublishedOf(ws)
BY DEF PublishedOnce, PublishedOf, Published, Used

(* A step that leaves the databases alone, and the files of what is        *)
(* published, keeps what they say of each other.                           *)
LEMMA Keeps ==
  ASSUME IInv, UNCHANGED <<database, accepted>>, TypeOK', Numbered', Held',
         \A j \in JobIds : Used(j) => jobs'[j].ws = jobs[j].ws,
         \A j \in JobIds : Published(j) =>
           Kept(j)' /\ jobs'[j].status \notin {"none", "QUEUED", "CANCELLED"},
         \A j \in JobIds : jobs'[j].status = "SUCCEEDED" =>
           \/ jobs[j].status = "SUCCEEDED"
           \/ /\ Published(j) /\ Accepted(jobs[j].ws, history[j])
              /\ projection[jobs[j].ws] = history[j],
         \A p \in provenance' \cup candidates' : jobs'[p[1]].status # "none",
         StartsClean', OnItsWay', Handed', Counted'
  PROVE  IInv'
<1> USE DEF IInv, database, accepted
<1>1. \A ws \in Workspaces : \A j \in JobIds : j \in PublishedOf(ws)' <=> j \in PublishedOf(ws)
  <2>1. /\ PublishedOnce /\ UNCHANGED history
        /\ \A j \in JobIds : Published(j) => jobs'[j].status # "none"
        /\ \A j \in JobIds : ~Used(j) => jobs[j].ws = None
    BY DEF Numbered
  <2> QED
    BY <2>1, SamePublished
<1>2. PublishedOnce'
  <2>1. \A j \in JobIds : Published(j)' <=> Published(j)
    BY DEF Published
  <2>2. \A j \in JobIds : Published(j)' =>
          Kept(j)' /\ jobs'[j].status \notin {"none", "QUEUED", "CANCELLED"}
    BY <2>1
  <2>3. \A ws \in Workspaces : Before(ws, plan[ws], selected[ws])'
    BY <1>1 DEF PublishedOnce, Before, PublishedOf
  <2>4. \A ws \in Workspaces : \A i, j \in PublishedOf(ws)' :
          history'[i].plan = history'[j].plan /\ history'[i].version = history'[j].version => i = j
    BY <1>1 DEF PublishedOnce, PublishedOf
  <2> QED
    BY <2>2, <2>3, <2>4 DEF PublishedOnce
<1>3. Named'
  <2>1. \A ws \in Workspaces : current'[ws] # 0 => current'[ws] \in PublishedOf(ws)'
    BY <1>1 DEF Named, PublishedOf
  <2>2. \A ws \in Workspaces : store'[ws] = "FROZEN" =>
          \E j \in PublishedOf(ws)' : package'[ws] = history'[j]
    BY <1>1 DEF Named, PublishedOf
  <2> QED
    BY <2>1, <2>2 DEF Named, Used
<1>4. SuccessIsAccepted'
  <2> SUFFICES ASSUME NEW j \in JobIds, jobs'[j].status = "SUCCEEDED"
               PROVE  LET ws == jobs'[j].ws IN
                        /\ Published(j)'
                        /\ store'[ws] = "FROZEN" /\ registry'[ws] = "FROZEN"
                        /\ package'[ws] = history'[j] /\ projection'[ws] = history'[j]
    BY DEF SuccessIsAccepted
  <2>1. /\ Published(j) /\ Accepted(jobs[j].ws, history[j])
        /\ projection[jobs[j].ws] = history[j]
    BY DEF SuccessIsAccepted, Accepted
  <2>2. jobs'[j].ws = jobs[j].ws
    BY <2>1 DEF PublishedOnce, Used
  <2> QED
    BY <2>1, <2>2 DEF Accepted, Published
<1> QED
  BY <1>2, <1>3, <1>4

(* As long as the worker does nothing, it stays where it is.               *)
LEMMA WorkerKeeps ==
  ASSUME IInv, UNCHANGED <<database, files, accepted, worker>>, TypeOK', 
         \A j \in JobIds : Used(j) => jobs'[j].ws = jobs[j].ws /\ jobs'[j].status # "none"
  PROVE  StartsClean' /\ OnItsWay' /\ Handed'
<1> USE DEF IInv, database, accepted, files, Job
<1>1. CASE worker.pc \in {"idle", "gone", "pop"}
  BY <1>1 DEF StartsClean, OnItsWay, Handed, Publishing, Accepting
<1>2. CASE worker.pc \notin {"idle", "gone", "pop"}
  <2>1. worker.job \in JobIds /\ Used(worker.job)
    BY <1>2 DEF Held, Used, TypeOK
  <2>2. Ws' = Ws /\ Ws \in Workspaces
    BY <2>1 DEF Ws, Numbered
  <2>3. \A j \in JobIds : j \in PublishedOf(Ws)' <=> j \in PublishedOf(Ws)
    <3>1. /\ PublishedOnce /\ UNCHANGED history
          /\ \A j \in JobIds : Used(j) => jobs'[j].ws = jobs[j].ws
          /\ \A j \in JobIds : Published(j) => jobs'[j].status # "none"
          /\ \A j \in JobIds : ~Used(j) => jobs[j].ws = None
      BY DEF Numbered, PublishedOnce, Used
    <3>2. PICK w \in Workspaces : w = Ws
      BY <2>2
    <3>3. \A j \in JobIds : j \in PublishedOf(w)' <=> j \in PublishedOf(w)
      BY <3>1, SamePublished
    <3> QED
      BY <2>2, <3>2, <3>3 DEF PublishedOf
  <2>4. StartsClean'
    <3>1. \A p \in provenance \cup candidates : p[1] \in JobIds /\ Used(p[1])
      BY DEF TypeOK, Named
    <3> QED
      BY <2>2, <3>1 DEF StartsClean, Published
  <2>5. OnItsWay'
    BY <2>2, <2>3 DEF OnItsWay, Before, PublishedOf, Published
  <2>6. Handed'
    BY <2>2, <2>3 DEF Handed, Accepted, AnotherIsFrozen, PublishedOf, Published
  <2> QED
    BY <2>4, <2>5, <2>6
<1> QED
  BY <1>1, <1>2

---------------------------------------------------------------------------
(* Captures are queued, run and end.                                       *)
Statuses == {"none", "LOST"} \cup Active \cup Terminal
JobStep(j) ==
  \/ jobs'[j] = jobs[j]
  \/ ~Used(j) /\ jobs'[j].status = "QUEUED"
  \/ /\ Used(j) /\ jobs'[j].ws = jobs[j].ws
     /\ \/ jobs'[j].status \in {"RUNNING", "FAILED", "LOST"}
        \/ jobs'[j].status = "CANCELLED" /\ ~Published(j)
        \/ /\ jobs'[j].status = "SUCCEEDED" /\ Published(j)
           /\ Accepted(jobs[j].ws, history[j]) /\ projection[jobs[j].ws] = history[j]

(* What becomes of captures keeps what the databases and the files say.    *)
LEMMA ControlIInv ==
  ASSUME IInv, UNCHANGED <<database, files, accepted>>, TypeOK', Numbered', Held',
         \A j \in JobIds : JobStep(j),
         \/ worker' = worker \/ worker'.pc \in {"idle", "gone", "pop"}
         \/ worker'.pc = "recover" /\ ~Published(worker'.job) /\ worker'.left = Models
  PROVE  IInv'
<1> USE DEF IInv
<1>1. /\ \A j \in JobIds : Used(j) => jobs'[j].ws = jobs[j].ws /\ jobs'[j].status # "none"
      /\ \A j \in JobIds : Published(j) => Used(j)
  BY DEF JobStep, Used, PublishedOnce
<1>2. \A j \in JobIds : Published(j) =>
        Kept(j)' /\ jobs'[j].status \notin {"none", "QUEUED", "CANCELLED"}
  <2>1. \A j \in JobIds : Published(j) => Kept(j)'
    BY <1>1 DEF PublishedOnce, Kept, database, files
  <2>2. \A j \in JobIds : Published(j) => jobs'[j].status \notin {"none", "QUEUED", "CANCELLED"}
    BY <1>1 DEF PublishedOnce, JobStep
  <2> QED
    BY <2>1, <2>2
<1>3. \A j \in JobIds : jobs'[j].status = "SUCCEEDED" =>
        \/ jobs[j].status = "SUCCEEDED"
        \/ /\ Published(j) /\ Accepted(jobs[j].ws, history[j])
           /\ projection[jobs[j].ws] = history[j]
  BY DEF JobStep
<1>4. \A p \in provenance' \cup candidates' : jobs'[p[1]].status # "none"
  <2>1. \A p \in provenance \cup candidates : p[1] \in JobIds /\ Used(p[1])
    BY DEF TypeOK, Named
  <2> QED
    BY <1>1, <2>1 DEF files
<1>5. StartsClean' /\ OnItsWay' /\ Handed'
  <2>1. CASE worker' = worker
    BY <1>1, <2>1, WorkerKeeps
  <2>2. CASE worker'.pc \in {"idle", "gone", "pop"}
    BY <2>2 DEF StartsClean, OnItsWay, Handed, Publishing, Accepting
  <2>3. CASE worker'.pc = "recover" /\ ~Published(worker'.job) /\ worker'.left = Models
    <3>1. ~Published(Job)'
      BY <2>3 DEF Published, Job, database
    <3> QED
      BY <2>3, <3>1 DEF StartsClean, OnItsWay, Handed, Publishing, Accepting
  <2> QED
    BY <2>1, <2>2, <2>3
<1>6. UNCHANGED <<database, accepted>>
  OBVIOUS
<1>7. Counted'
  <2>1. UNCHANGED <<history, selected>>
    BY DEF database
  <2>2. \/ worker'.pc \notin Versioned
        \/ worker.pc \in Versioned /\ worker'.captured = worker.captured
    BY DEF Versioned, Publishing
  <2> QED
    BY <2>1, <2>2, SameCount
<1> QED
  BY <1>1, <1>2, <1>3, <1>4, <1>5, <1>6, <1>7, Keeps

(* One capture gets another status.                                        *)
LEMMA JobStatus ==
  ASSUME TypeOK, NEW j \in JobIds, NEW s \in Statuses,
         jobs' = [jobs EXCEPT ![j].status = s]
  PROVE  /\ jobs' \in [JobIds -> [ws : Workspaces \cup {None}, status : Statuses]]
         /\ jobs'[j].ws = jobs[j].ws /\ jobs'[j].status = s
         /\ \A i \in JobIds : i # j => jobs'[i] = jobs[i]
<1> DEFINE new == [jobs[j] EXCEPT !.status = s]
<1>1. /\ new \in [ws : Workspaces \cup {None}, status : Statuses]
      /\ new.ws = jobs[j].ws /\ new.status = s
  BY DEF TypeOK, Statuses
<1>2. jobs' = [jobs EXCEPT ![j] = new]
  BY DEF TypeOK
<1>3. jobs \in [JobIds -> [ws : Workspaces \cup {None}, status : Statuses]]
  BY DEF TypeOK, Statuses
<1> HIDE DEF new
<1> QED
  BY <1>1, <1>2, <1>3

(* No capture is started, none is forgotten.                               *)
LEMMA SameNumbers ==
  ASSUME Numbered,
         \A j \in JobIds : jobs'[j].ws = jobs[j].ws /\ (jobs'[j].status = "none" <=> jobs[j].status = "none")
  PROVE  Numbered'
<1>1. \A j \in JobIds : Used(j)' <=> Used(j)
  BY DEF Used
<1> QED
  BY <1>1 DEF Numbered

(* Saving the plan begins a new count of versions.                         *)
LEMMA SavePlanIInv ==
  ASSUME IInv, NEW ws \in Workspaces, SavePlan(ws) PROVE IInv'
<1> USE DEF IInv, Job
<1>1. /\ UNCHANGED <<history, values, candidates, provenance, store, package, registry, projection>>
      /\ UNCHANGED <<server, jobs, pending, events, cancelled, worker, request, crashes, faults>>
      /\ plan' = [plan EXCEPT ![ws] = plan[ws] + 1] /\ plan[ws] < 1 + MaxPlans
      /\ selected' = [selected EXCEPT ![ws] = 0] /\ current' = [current EXCEPT ![ws] = 0]
  BY DEF SavePlan, files, accepted, control, budget
<1>2. TypeOK'
  <2>1. plan' \in [Workspaces -> 1 .. 1 + MaxPlans]
    BY <1>1, BoundsAssumption DEF TypeOK
  <2>2. selected' \in [Workspaces -> 0 .. MaxJobs]
    BY <1>1, BoundsAssumption DEF TypeOK
  <2> QED
    BY <1>1, <2>1, <2>2 DEF TypeOK
<1>3. Numbered' /\ Held'
  BY <1>1 DEF Numbered, Used, Held, OneCapture, OnceEach, JobIds
<1>4. /\ \A w \in Workspaces : plan[w] \in Nat /\ plan'[w] \in Nat /\ plan[w] <= plan'[w]
      /\ plan'[ws] = plan[ws] + 1 /\ \A w \in Workspaces : w # ws => plan'[w] = plan[w]
  BY <1>1, BoundsAssumption DEF TypeOK
<1>5. \A j \in JobIds : Published(j) => history[j] \in Selection /\ history[j].plan \in Nat
  BY DEF Published, TypeOK, Selection
<1>6. PublishedOnce'
  <2>1. \A w \in Workspaces : Before(w, plan[w], selected[w])'
    <3> SUFFICES ASSUME NEW w \in Workspaces, NEW j \in PublishedOf(w)
                 PROVE  /\ history[j].plan <= plan'[w]
                        /\ history[j].plan = plan'[w] => history[j].version <= selected'[w]
      BY <1>1 DEF Before, PublishedOf, Published
    <3>1. /\ history[j].plan \in Nat /\ history[j].plan <= plan[w]
          /\ history[j].plan = plan[w] => history[j].version <= selected[w]
      BY <1>5 DEF PublishedOnce, Before, PublishedOf
    <3>2. CASE w = ws
      BY <1>4, <3>1, <3>2
    <3>3. CASE w # ws
      BY <1>1, <1>4, <3>1, <3>3 DEF TypeOK
    <3> QED
      BY <3>2, <3>3
  <2> QED
    BY <1>1, <2>1 DEF PublishedOnce, Published, PublishedOf, Kept
<1>7. Named'
  BY <1>1 DEF Named, PublishedOf, Published, Used, TypeOK
<1>8. StartsClean' /\ Handed' /\ SuccessIsAccepted'
  BY <1>1 DEF StartsClean, Handed, SuccessIsAccepted, Published, Ws, AnotherIsFrozen, Accepted, PublishedOf
<1>9. OnItsWay'
  <2>1. worker.pc \in Publishing => Ws \in Workspaces
    BY DEF Held, Numbered, Used, Ws
  <2>2. worker'.pc \in Publishing \ {"recover"} => worker'.plan <= plan'[Ws']
    BY <1>1, <1>4, <2>1 DEF OnItsWay, TypeOK, Ws
  <2> QED
    BY <1>1, <2>2 DEF OnItsWay, Published, Ws, Before, PublishedOf
<1>10. Counted'
  <2>1. Captures' = Captures
    BY <1>1 DEF Captures, Published
  <2>2. Cardinality(Captures) \in Nat
    BY CapturesCounted
  <2>3. \A w \in Workspaces : selected'[w] <= Cardinality(Captures)
    BY <1>1, <2>2 DEF TypeOK, Counted
  <2> QED
    BY <1>1, <2>1, <2>3 DEF Counted
<1> QED
  BY <1>2, <1>3, <1>6, <1>7, <1>8, <1>9, <1>10

(* A request reads, and remembers which Workspace it is for.               *)
LEMMA PrepareIInv ==
  ASSUME IInv, NEW r \in Requests, NEW ws \in Workspaces, Prepare(r, ws) PROVE IInv'
<1> USE DEF IInv, Job
<1>1. /\ UNCHANGED <<database, files, accepted, server, jobs, pending, events, cancelled, worker>>
      /\ UNCHANGED <<crashes, faults>> /\ request' = [request EXCEPT ![r] = ws]
  BY DEF Prepare, control, budget
<1>2. TypeOK'
  BY <1>1 DEF TypeOK, database, files, accepted
<1>3. Numbered' /\ Held'
  BY <1>1 DEF Numbered, Used, Held, OneCapture, OnceEach, JobIds
<1>4. \A j \in JobIds : JobStep(j)
  BY <1>1 DEF JobStep
<1> QED
  BY <1>1, <1>2, <1>3, <1>4, ControlIInv

(* The next number is free, and the Workspace of the request has no other  *)
(* capture.                                                                *)
LEMMA EnqueueIInv ==
  ASSUME IInv, NEW r \in Requests, Enqueue(r) PROVE IInv'
<1> USE DEF IInv, Job
<1> DEFINE ws == request[r]
           used == {i \in JobIds : jobs[i].status # "none"}
           j == 1 + Cardinality(used)
<1>1. /\ UNCHANGED <<database, files, accepted, server, worker, crashes, faults>>
      /\ ws \in Workspaces /\ request' = [request EXCEPT ![r] = None]
  BY DEF Enqueue, TypeOK, budget
<1>2. request' \in [Requests -> Workspaces \cup {None}]
  BY <1>1 DEF TypeOK
<1>3. CASE UNCHANGED <<jobs, control>>
  <2>1. TypeOK'
    BY <1>1, <1>2, <1>3 DEF TypeOK, database, files, accepted, control
  <2>2. Numbered' /\ Held'
    BY <1>1, <1>3 DEF Numbered, Used, Held, OneCapture, OnceEach, JobIds, control
  <2>3. \A i \in JobIds : JobStep(i)
    BY <1>3 DEF JobStep
  <2> QED
    BY <1>1, <2>1, <2>2, <2>3, ControlIInv
<1>4. CASE /\ ActiveOf(ws) = {} /\ j \in JobIds
           /\ jobs' = [jobs EXCEPT ![j] = [ws |-> ws, status |-> "QUEUED"]]
           /\ events' = events \cup {j} /\ pending' = Append(pending, j) /\ UNCHANGED cancelled
  <2>1. PICK n \in 0 .. MaxJobs : \A i \in JobIds : Used(i) <=> i <= n
    BY DEF Numbered
  <2>2. n \in Nat /\ used = 1 .. n
    BY <2>1, BoundsAssumption DEF Used, JobIds
  <2>3. Cardinality(used) = n
    <3>1. 1 \in Int /\ n \in Int /\ (IF 1 > n THEN 0 ELSE n - 1 + 1) = n
      BY <2>2
    <3>2. Cardinality(1 .. n) = IF 1 > n THEN 0 ELSE n - 1 + 1
      BY <3>1, FS_Interval
    <3> HIDE DEF used
    <3> QED
      BY <2>2, <3>1, <3>2
  <2>4. j = n + 1
    BY <2>2, <2>3
  <2> HIDE DEF j, used
  <2>5. j \in JobIds /\ j \in 0 .. MaxJobs /\ \A i \in JobIds : Used(i) \/ i = j <=> i <= j
    BY <1>4, <2>1, <2>2, <2>4, BoundsAssumption DEF JobIds
  <2>6. ~Used(j)
    BY <2>1, <2>2, <2>4, <2>5
  <2>7. /\ jobs'[j] = [ws |-> ws, status |-> "QUEUED"]
        /\ \A i \in JobIds : i # j => jobs'[i] = jobs[i]
        /\ jobs' \in [JobIds -> [ws : Workspaces \cup {None}, status : Statuses]]
    BY <1>1, <1>4, <2>5 DEF TypeOK, Statuses, Active
  <2>8. Numbered'
    <3>1. \A i \in JobIds : Used(i)' <=> i <= j
      BY <2>5, <2>7 DEF Used
    <3>2. \A i \in JobIds : (Used(i)' => jobs'[i].ws \in Workspaces) /\ (~Used(i)' => jobs'[i].ws = None)
      BY <1>1, <2>7 DEF Numbered, Used
    <3> QED
      BY <2>5, <3>1, <3>2 DEF Numbered
  <2>9. /\ pending \in Seq(JobIds) /\ OnceEach(pending) /\ j \notin ToSet(pending)
    BY <2>5, <2>6 DEF TypeOK, Held, Used
  <2>10. /\ pending' \in Seq(JobIds) /\ ToSet(pending') = ToSet(pending) \cup {j}
         /\ OnceEach(pending')
    BY <1>4, <2>5, <2>9, AppendQueue
  <2>11. TypeOK'
    <3>1. events' \subseteq JobIds /\ cancelled' \subseteq JobIds
      BY <1>4, <2>5 DEF TypeOK
    <3> QED
      BY <1>1, <1>2, <2>7, <2>10, <3>1 DEF TypeOK, Statuses, database, files, accepted
  <2>12. OneCapture'
    <3>1. \A i \in JobIds : jobs[i].status \in Active => jobs[i].ws # ws
      BY <1>4 DEF ActiveOf, JobsOf
    <3> QED
      BY <2>7, <3>1 DEF Held, OneCapture
  <2>13. Held'
    <3>1. \A i \in JobIds :
            /\ jobs'[i].status \in Active => i \in events'
            /\ jobs'[i].status = "RUNNING" => worker'.job = i
            /\ jobs'[i].status = "QUEUED" <=> i \in ToSet(pending')
      BY <1>1, <1>4, <2>7, <2>9, <2>10 DEF Held
    <3>2. /\ worker'.pc \in Publishing \cup Accepting \cup {"finish"} =>
               Job' \in JobIds /\ jobs'[Job'].status = "RUNNING"
          /\ worker'.pc = "pop" => Job' \in JobIds /\ jobs'[Job'].status \in Terminal
          /\ worker'.pc \in {"idle", "gone"} => Job' = 0
      BY <1>1, <2>6, <2>7 DEF Held, Used, Terminal
    <3> QED
      BY <2>10, <2>12, <3>1, <3>2 DEF Held
  <2>14. \A i \in JobIds : JobStep(i)
    BY <2>6, <2>7 DEF JobStep
  <2> QED
    BY <1>1, <2>8, <2>11, <2>13, <2>14, ControlIInv
<1> QED
  BY <1>1, <1>3, <1>4, NoneAssumption DEF Enqueue

(* A queued capture is taken out of the queue and is over.                 *)
LEMMA CancelIInv ==
  ASSUME IInv, NEW j \in JobIds, Cancel(j) PROVE IInv'
<1> USE DEF IInv, Job
<1>1. /\ UNCHANGED <<database, files, accepted, server, events, worker, request, crashes, faults>>
      /\ cancelled' = cancelled \cup {j}
  BY DEF Cancel, budget
<1>2. CASE UNCHANGED <<pending, jobs>>
  <2>1. TypeOK'
    BY <1>1, <1>2 DEF TypeOK, database, files, accepted
  <2>2. Numbered' /\ Held'
    BY <1>1, <1>2 DEF Numbered, Used, Held, OneCapture, OnceEach, JobIds
  <2>3. \A i \in JobIds : JobStep(i)
    BY <1>2 DEF JobStep
  <2> QED
    BY <1>1, <2>1, <2>2, <2>3, ControlIInv
<1>3. ASSUME NEW k \in DOMAIN pending, pending[k] = j, pending' = RemoveAt(pending, k),
             jobs' = [jobs EXCEPT ![j].status = "CANCELLED"]
      PROVE  IInv'
  <2>1. pending \in Seq(JobIds) /\ OnceEach(pending)
    BY DEF TypeOK, Held
  <2>2. j \in ToSet(pending) /\ jobs[j].status = "QUEUED" /\ ~Published(j)
    BY <1>3 DEF ToSet, Held, PublishedOnce
  <2>3. /\ pending' \in Seq(JobIds) /\ OnceEach(pending')
        /\ \A i \in JobIds : i \in ToSet(pending') <=> i \in ToSet(pending) /\ i # j
    BY <1>3, <2>1, RemoveQueue
  <2>4. /\ jobs' \in [JobIds -> [ws : Workspaces \cup {None}, status : Statuses]]
        /\ jobs'[j].ws = jobs[j].ws /\ jobs'[j].status = "CANCELLED"
        /\ \A i \in JobIds : i # j => jobs'[i] = jobs[i]
    BY <1>3, JobStatus DEF Statuses, Terminal
  <2>5. TypeOK'
    BY <1>1, <2>3, <2>4 DEF TypeOK, Statuses, database, files, accepted
  <2>6. Numbered'
    <3>1. \A i \in JobIds : jobs'[i].ws = jobs[i].ws /\ (jobs'[i].status = "none" <=> jobs[i].status = "none")
      BY <2>2, <2>4
    <3> QED
      BY <3>1, SameNumbers
  <2>7. Held'
    <3>1. OneCapture'
      BY <2>4 DEF Held, OneCapture, Active
    <3>2. \A i \in JobIds :
            /\ jobs'[i].status \in Active => i \in events'
            /\ jobs'[i].status = "RUNNING" => worker'.job = i
            /\ jobs'[i].status = "QUEUED" <=> i \in ToSet(pending')
      BY <1>1, <2>3, <2>4 DEF Held, Active
    <3>3. /\ worker'.pc \in Publishing \cup Accepting \cup {"finish"} =>
               Job' \in JobIds /\ jobs'[Job'].status = "RUNNING"
          /\ worker'.pc = "pop" => Job' \in JobIds /\ jobs'[Job'].status \in Terminal
          /\ worker'.pc \in {"idle", "gone"} => Job' = 0
      BY <1>1, <2>2, <2>4 DEF Held, Terminal
    <3> QED
      BY <2>3, <3>1, <3>2, <3>3 DEF Held
  <2>8. \A i \in JobIds : JobStep(i)
    BY <2>2, <2>4 DEF JobStep, Used
  <2> QED
    BY <1>1, <2>5, <2>6, <2>7, <2>8, ControlIInv
<1> QED
  BY <1>2, <1>3 DEF Cancel

(* The worker takes what waits longest.                                    *)
LEMMA TakeIInv ==
  ASSUME IInv, Take PROVE IInv'
<1> USE DEF IInv, Job, WorkerRecords
<1> DEFINE j == Head(pending)
<1>1. /\ UNCHANGED <<database, files, accepted, server, events, cancelled, request, crashes, faults>>
      /\ worker.pc = "idle" /\ pending # <<>> /\ pending' = Tail(pending)
      /\ jobs' = [jobs EXCEPT ![j].status = "RUNNING"]
      /\ worker' = [Idle EXCEPT !.pc = "recover", !.job = j, !.left = Models]
  BY DEF Take, At, budget
<1>2. pending \in Seq(JobIds) /\ OnceEach(pending)
  BY DEF TypeOK, Held
<1>3. /\ j \in JobIds /\ j \in ToSet(pending) /\ pending' \in Seq(JobIds)
      /\ OnceEach(pending') /\ j \notin ToSet(pending') /\ ToSet(pending') \subseteq ToSet(pending)
      /\ ToSet(pending) \subseteq ToSet(pending') \cup {j}
  BY <1>1, <1>2, TailQueue
<1> HIDE DEF j
<1>4. jobs[j].status = "QUEUED" /\ ~Published(j) /\ worker.job = 0
  BY <1>1, <1>3 DEF Held, PublishedOnce
<1>5. /\ jobs' \in [JobIds -> [ws : Workspaces \cup {None}, status : Statuses]]
      /\ jobs'[j].ws = jobs[j].ws /\ jobs'[j].status = "RUNNING"
      /\ \A i \in JobIds : i # j => jobs'[i] = jobs[i]
  BY <1>1, <1>3, JobStatus DEF Statuses, Active
<1>6. worker' = [pc |-> "recover", job |-> j, plan |-> 0, captured |-> NoSelection, left |-> Models]
  BY <1>1 DEF Idle
<1>7. TypeOK'
  <2>1. worker' \in WorkerRecords
    BY <1>3, <1>6 DEF Publishing
  <2> QED
    BY <1>1, <1>3, <1>5, <2>1 DEF TypeOK, Statuses, database, files, accepted
<1>8. Numbered'
  <2>1. \A i \in JobIds : jobs'[i].ws = jobs[i].ws /\ (jobs'[i].status = "none" <=> jobs[i].status = "none")
    BY <1>4, <1>5
  <2> QED
    BY <2>1, SameNumbers
<1>9. Held'
  <2>1. OneCapture'
    BY <1>4, <1>5 DEF Held, OneCapture, Active
  <2>2. \A i \in JobIds : jobs[i].status # "RUNNING"
    BY <1>4, BoundsAssumption DEF Held, JobIds
  <2>3. \A i \in JobIds :
          /\ jobs'[i].status \in Active => i \in events'
          /\ jobs'[i].status = "RUNNING" => worker'.job = i
          /\ jobs'[i].status = "QUEUED" <=> i \in ToSet(pending')
    BY <1>1, <1>3, <1>4, <1>5, <1>6, <2>2 DEF Held, Active
  <2> QED
    BY <1>3, <1>5, <1>6, <2>1, <2>3 DEF Held
<1>10. \A i \in JobIds : JobStep(i)
  BY <1>4, <1>5 DEF JobStep, Used
<1>11. worker'.pc = "recover" /\ ~Published(worker'.job) /\ worker'.left = Models
  BY <1>4, <1>6
<1> QED
  BY <1>1, <1>7, <1>8, <1>9, <1>10, <1>11, ControlIInv

(* The worker thread ends with the server.                                 *)
LEMMA LeaveIInv ==
  ASSUME IInv, Leave PROVE IInv'
<1> USE DEF IInv, Job, WorkerRecords
<1>1. /\ UNCHANGED <<database, files, accepted, server, jobs, pending, events, cancelled>>
      /\ UNCHANGED <<request, crashes, faults>>
      /\ worker.pc = "idle" /\ worker' = [worker EXCEPT !.pc = "gone"]
  BY DEF Leave, At, Goto, control, budget
<1>2. TypeOK' /\ worker'.pc = "gone" /\ worker'.job = worker.job
  <2>1. /\ worker' \in WorkerRecords
        /\ worker'.pc = "gone" /\ worker'.job = worker.job
    BY <1>1 DEF TypeOK
  <2> QED
    BY <1>1, <2>1 DEF TypeOK, database, files, accepted
<1>3. Numbered'
  BY <1>1 DEF Numbered, Used
<1>4. Held'
  BY <1>1, <1>2 DEF Held, OneCapture, OnceEach, Publishing, Accepting
<1>5. \A i \in JobIds : JobStep(i)
  BY <1>1 DEF JobStep
<1>6. worker'.pc \in {"idle", "gone", "pop"}
  BY <1>2
<1> QED
  BY <1>1, <1>2, <1>3, <1>4, <1>5, <1>6, ControlIInv

(* The finally clause: nobody can cancel what is over.                     *)
LEMMA PopIInv ==
  ASSUME IInv, Pop PROVE IInv'
<1> USE DEF IInv, Job, WorkerRecords
<1>1. /\ UNCHANGED <<database, files, accepted, server, jobs, pending, request, crashes, faults>>
      /\ worker.pc = "pop" /\ worker' = Idle
      /\ events' = events \ {worker.job} /\ cancelled' = cancelled \ {worker.job}
  BY DEF Pop, At, budget
<1>2. worker.job \in JobIds /\ jobs[worker.job].status \in Terminal
  BY <1>1 DEF Held
<1>3. TypeOK'
  <2>1. worker' \in WorkerRecords
    BY <1>1 DEF Idle
  <2> QED
    BY <1>1, <2>1 DEF TypeOK, database, files, accepted
<1>4. Numbered'
  BY <1>1 DEF Numbered, Used
<1>5. Held'
  <2>1. \A j \in JobIds : jobs[j].status \in Active => j # worker.job
    BY <1>2 DEF Active, Terminal
  <2>2. \A j \in JobIds : jobs[j].status # "RUNNING"
    BY <2>1 DEF Held, Active
  <2> QED
    BY <1>1, <2>1, <2>2 DEF Held, OneCapture, OnceEach, Publishing, Accepting, Idle
<1>6. (\A i \in JobIds : JobStep(i)) /\ worker'.pc \in {"idle", "gone", "pop"}
  BY <1>1 DEF JobStep, Idle
<1> QED
  BY <1>1, <1>3, <1>4, <1>5, <1>6, ControlIInv

(* A start changes nothing but the server.                                 *)
LEMMA StartIInv ==
  ASSUME IInv, Start PROVE IInv'
<1> USE DEF IInv, Job
<1>1. /\ UNCHANGED <<database, files, accepted, jobs, pending, events, cancelled, worker, request>>
      /\ UNCHANGED <<crashes, faults>> /\ server' = "serving"
  BY DEF Start, control, budget
<1>2. TypeOK'
  BY <1>1 DEF TypeOK, database, files, accepted
<1>3. Numbered' /\ Held'
  BY <1>1 DEF Numbered, Used, Held, OneCapture, OnceEach, JobIds
<1>4. \A j \in JobIds : JobStep(j)
  BY <1>1 DEF JobStep
<1> QED
  BY <1>1, <1>2, <1>3, <1>4, ControlIInv

(* What waits when the server is asked to stop is cancelled.               *)
LEMMA ShutdownIInv ==
  ASSUME IInv, Shutdown PROVE IInv'
<1> USE DEF IInv, Job
<1>1. /\ UNCHANGED <<database, files, accepted, events, worker, request, crashes, faults>>
      /\ server' = "stopping" /\ cancelled' = cancelled \cup events /\ pending' = <<>>
      /\ jobs' = [j \in JobIds |-> IF j \in ToSet(pending)
                                   THEN [jobs[j] EXCEPT !.status = "CANCELLED"] ELSE jobs[j]]
  BY DEF Shutdown, budget
<1>2. \A j \in JobIds : jobs[j] \in [ws : Workspaces \cup {None}, status : Statuses]
  BY DEF TypeOK, Statuses
<1>3. \A j \in JobIds :
        /\ jobs'[j] \in [ws : Workspaces \cup {None}, status : Statuses]
        /\ jobs'[j].ws = jobs[j].ws
        /\ j \in ToSet(pending) => jobs'[j].status = "CANCELLED"
        /\ j \notin ToSet(pending) => jobs'[j] = jobs[j]
  BY <1>1, <1>2 DEF Statuses, Terminal
<1>4. \A j \in JobIds : j \in ToSet(pending) <=> jobs[j].status = "QUEUED"
  BY DEF Held
<1>5. TypeOK'
  <2>1. jobs' \in [JobIds -> [ws : Workspaces \cup {None}, status : Statuses]]
    BY <1>1, <1>3
  <2>2. pending' \in Seq(JobIds)
    BY <1>1, EmptyQueue
  <2> QED
    BY <1>1, <2>1, <2>2 DEF TypeOK, Statuses, database, files, accepted
<1>6. Numbered'
  <2>1. \A j \in JobIds : jobs'[j].ws = jobs[j].ws /\ (jobs'[j].status = "none" <=> jobs[j].status = "none")
    BY <1>3, <1>4
  <2> QED
    BY <2>1, SameNumbers
<1>7. Held'
  <2>1. OneCapture'
    BY <1>3 DEF Held, OneCapture, Active
  <2>2. \A j \in JobIds :
          /\ jobs'[j].status \in Active => j \in events'
          /\ jobs'[j].status = "RUNNING" => worker'.job = j
          /\ jobs'[j].status # "QUEUED"
    BY <1>1, <1>3, <1>4 DEF Held, Active
  <2>3. /\ worker.pc \in Publishing \cup Accepting \cup {"finish"} =>
             worker.job \in JobIds /\ jobs'[worker.job].status = "RUNNING"
        /\ worker.pc = "pop" => worker.job \in JobIds /\ jobs'[worker.job].status \in Terminal
    BY <1>3, <1>4 DEF Held, Terminal
  <2> QED
    BY <1>1, <2>1, <2>2, <2>3, EmptyQueue DEF Held
<1>8. \A j \in JobIds : JobStep(j)
  BY <1>3, <1>4 DEF JobStep, Used, PublishedOnce
<1> QED
  BY <1>1, <1>5, <1>6, <1>7, <1>8, ControlIInv

(* Memory goes with the process; what was active is lost.                  *)
LEMMA GoneIInv ==
  ASSUME IInv, Gone, crashes' \in Nat PROVE IInv'
<1> USE DEF IInv, Job, WorkerRecords
<1>1. /\ UNCHANGED <<database, files, accepted, faults>> /\ server' = "down"
      /\ pending' = <<>> /\ events' = {} /\ cancelled' = {} /\ worker' = Idle
      /\ request' = [r \in Requests |-> None]
      /\ jobs' = [j \in JobIds |-> IF jobs[j].status \in Active
                                   THEN [jobs[j] EXCEPT !.status = "LOST"] ELSE jobs[j]]
  BY DEF Gone
<1>2. \A j \in JobIds : jobs[j] \in [ws : Workspaces \cup {None}, status : Statuses]
  BY DEF TypeOK, Statuses
<1>3. \A j \in JobIds :
        /\ jobs'[j] \in [ws : Workspaces \cup {None}, status : Statuses]
        /\ jobs'[j].ws = jobs[j].ws
        /\ jobs[j].status \in Active => jobs'[j].status = "LOST"
        /\ jobs[j].status \notin Active => jobs'[j] = jobs[j]
  BY <1>1, <1>2 DEF Statuses
<1>4. TypeOK'
  <2>1. jobs' \in [JobIds -> [ws : Workspaces \cup {None}, status : Statuses]]
    BY <1>1, <1>3
  <2>2. pending' \in Seq(JobIds)
    BY <1>1, EmptyQueue
  <2>3. worker' \in WorkerRecords
    BY <1>1 DEF Idle
  <2> QED
    BY <1>1, <2>1, <2>2, <2>3 DEF TypeOK, Statuses, database, files, accepted
<1>5. Numbered'
  <2>1. \A j \in JobIds : jobs'[j].ws = jobs[j].ws /\ (jobs'[j].status = "none" <=> jobs[j].status = "none")
    BY <1>3 DEF Active
  <2> QED
    BY <2>1, SameNumbers
<1>6. Held'
  <2>1. \A j \in JobIds : jobs'[j].status \notin Active
    BY <1>3 DEF Active
  <2> QED
    BY <1>1, <2>1, EmptyQueue DEF Held, OneCapture, Active, Idle, Publishing, Accepting
<1>7. (\A j \in JobIds : JobStep(j)) /\ worker'.pc \in {"idle", "gone", "pop"}
  BY <1>1, <1>3 DEF JobStep, Used, Active, Idle
<1> QED
  BY <1>1, <1>4, <1>5, <1>6, <1>7, ControlIInv

(* The worker's capture is over, as far as the process knows.              *)
LEMMA SettleHeld ==
  ASSUME IInv, NEW s \in Terminal, Settle(s), Goto("pop"), UNCHANGED <<pending, events>>,
         worker.pc \in Publishing \cup Accepting \cup {"finish"}
  PROVE  /\ Job \in JobIds /\ Used(Job) /\ jobs[Job].status = "RUNNING"
         /\ jobs' \in [JobIds -> [ws : Workspaces \cup {None}, status : Statuses]]
         /\ jobs'[Job].ws = jobs[Job].ws /\ jobs'[Job].status = s
         /\ \A i \in JobIds : i # Job => jobs'[i] = jobs[i]
         /\ worker' \in WorkerRecords
         /\ worker'.pc = "pop" /\ Job' = Job
         /\ Numbered' /\ Held'
<1> USE DEF IInv, Job, WorkerRecords
<1>1. worker.job \in JobIds /\ Used(worker.job) /\ jobs[worker.job].status = "RUNNING"
  BY DEF Held, Used
<1>2. PICK j \in JobIds : j = worker.job
  BY <1>1
<1>3. /\ jobs' \in [JobIds -> [ws : Workspaces \cup {None}, status : Statuses]]
      /\ jobs'[j].ws = jobs[j].ws /\ jobs'[j].status = s
      /\ \A i \in JobIds : i # j => jobs'[i] = jobs[i]
  <2>1. s \in Statuses /\ jobs' = [jobs EXCEPT ![j].status = s]
    BY <1>2 DEF Settle, Statuses
  <2> QED
    BY <2>1, JobStatus
<1>4. /\ worker' \in WorkerRecords
      /\ worker'.pc = "pop" /\ worker'.job = worker.job
  BY DEF Goto, TypeOK
<1>5. s \notin Active /\ s # "none"
  BY DEF Active, Terminal
<1>6. Numbered'
  <2>1. \A i \in JobIds : jobs'[i].ws = jobs[i].ws /\ (jobs'[i].status = "none" <=> jobs[i].status = "none")
    BY <1>1, <1>2, <1>3, <1>5
  <2> QED
    BY <2>1, SameNumbers
<1>7. Held'
  <2>1. OneCapture'
    BY <1>3, <1>5 DEF Held, OneCapture
  <2>2. \A i \in JobIds :
          /\ jobs'[i].status \in Active => i \in events'
          /\ jobs'[i].status = "RUNNING" => worker'.job = i
          /\ jobs'[i].status = "QUEUED" <=> i \in ToSet(pending')
    BY <1>1, <1>2, <1>3, <1>4, <1>5 DEF Held, Active
  <2> QED
    BY <1>2, <1>3, <1>4, <2>1, <2>2 DEF Held, OnceEach, Publishing, Accepting
<1> QED
  BY <1>1, <1>2, <1>3, <1>4, <1>6, <1>7

(* A capture is shown as complete when its DataVersion has accepted it.    *)
LEMMA FinishIInv ==
  ASSUME IInv, Finish PROVE IInv'
<1> USE DEF IInv, WorkerRecords
<1>1. /\ UNCHANGED <<database, files, accepted, server, pending, events, cancelled>>
      /\ UNCHANGED <<request, crashes, faults>>
      /\ worker.pc = "finish" /\ Settle("SUCCEEDED") /\ Goto("pop")
  BY DEF Finish, At, control, budget
<1>2. /\ Job \in JobIds /\ Used(Job)
      /\ jobs' \in [JobIds -> [ws : Workspaces \cup {None}, status : Statuses]]
      /\ jobs'[Job].ws = jobs[Job].ws /\ jobs'[Job].status = "SUCCEEDED"
      /\ \A i \in JobIds : i # Job => jobs'[i] = jobs[i]
      /\ worker' \in WorkerRecords
      /\ worker'.pc = "pop" /\ Numbered' /\ Held'
  <2>1. "SUCCEEDED" \in Terminal
    BY DEF Terminal
  <2> QED
    BY <1>1, <2>1, SettleHeld
<1>3. TypeOK'
  BY <1>1, <1>2 DEF TypeOK, Statuses, database, files, accepted
<1>4. \A j \in JobIds : JobStep(j)
  BY <1>1, <1>2 DEF JobStep, Handed, Ws
<1>5. worker'.pc \in {"idle", "gone", "pop"}
  BY <1>2
<1> QED
  BY <1>1, <1>2, <1>3, <1>4, <1>5, ControlIInv

---------------------------------------------------------------------------
(* A clean-up takes nothing that is published, and everything else of its  *)
(* Workspace that is of one capture.                                       *)
LEMMA RecoverKeeps ==
  ASSUME IInv, NEW ws \in Workspaces, RecoverIncomplete(ws)
  PROVE  /\ values' \subseteq values /\ provenance' \subseteq provenance
         /\ candidates' \subseteq candidates
         /\ \A j \in JobIds : Published(j) =>
              /\ {j} \X Models \subseteq provenance'
              /\ {jobs[j].ws} \X {history[j]} \X Models \subseteq values'
         /\ \A p \in provenance' \cup candidates' : jobs[p[1]].ws = ws => Published(p[1])
<1> USE DEF IInv
<1> DEFINE published == {j \in JobsOf(ws) : Published(j)}
<1>1. /\ candidates' = {p \in candidates : jobs[p[1]].ws # ws}
      /\ provenance' = {p \in provenance : jobs[p[1]].ws = ws => p[1] \in published}
      /\ values' = IF published = {} THEN values
                   ELSE {v \in values : v[1] = ws => \E j \in published : history[j] = v[2]}
  BY DEF RecoverIncomplete
<1>2. \A j \in JobIds : j \in published <=> jobs[j].ws = ws /\ Published(j)
  BY DEF JobsOf
<1>3. \A j \in published : Published(j)
  OBVIOUS
<1> HIDE DEF published
<1>4. values' \subseteq values /\ provenance' \subseteq provenance /\ candidates' \subseteq candidates
  BY <1>1
<1>5. ASSUME NEW j \in JobIds, Published(j), NEW m \in Models PROVE <<j, m>> \in provenance'
  <2>1. <<j, m>> \in provenance /\ <<j, m>>[1] = j
    BY <1>5 DEF PublishedOnce, Kept
  <2> QED
    BY <1>1, <1>2, <1>5, <2>1
<1>6. ASSUME NEW j \in JobIds, Published(j), NEW m \in Models
      PROVE  <<jobs[j].ws, history[j], m>> \in values'
  <2> DEFINE v == <<jobs[j].ws, history[j], m>>
  <2>1. v \in values /\ v[1] = jobs[j].ws /\ v[2] = history[j]
    BY <1>6 DEF PublishedOnce, Kept
  <2> HIDE DEF v
  <2>2. v[1] = ws => j \in published
    BY <1>2, <1>6, <2>1
  <2>3. v \in values'
    BY <1>1, <2>1, <2>2
  <2> QED
    BY <2>3 DEF v
<1>7. \A p \in provenance' \cup candidates' : jobs[p[1]].ws = ws => Published(p[1])
  BY <1>1, <1>3
<1> QED
  BY <1>4, <1>5, <1>6, <1>7

(* The worker's next step towards the transaction: captures are who they   *)
(* were, and what is published keeps its files.                            *)
LEMMA MoveIInv ==
  ASSUME IInv, UNCHANGED <<database, accepted, server, jobs, control, request, budget>>,
         worker.pc \in Publishing, worker'.pc \in Publishing, worker'.job = worker.job,
         worker' \in WorkerRecords,
         values' \subseteq Workspaces \X Selection \X Models,
         candidates' \subseteq JobIds \X Models, provenance' \subseteq JobIds \X Models,
         \A j \in JobIds : Published(j) =>
           /\ {j} \X Models \subseteq provenance'
           /\ {jobs[j].ws} \X {history[j]} \X Models \subseteq values',
         \A p \in provenance' \cup candidates' : Used(p[1]),
         StartsClean', OnItsWay', Counted'
  PROVE  IInv'
<1> USE DEF IInv, database, accepted, control, budget
<1>1. TypeOK'
  BY DEF TypeOK, WorkerRecords
<1>2. Numbered'
  BY DEF Numbered, Used
<1>3. Held'
  BY DEF Held, OneCapture, OnceEach, Publishing, Accepting, Job
<1>4. Handed'
  BY DEF Handed, Publishing, Accepting
<1>5. \A j \in JobIds : Published(j) =>
        Kept(j)' /\ jobs'[j].status \notin {"none", "QUEUED", "CANCELLED"}
  BY DEF Kept, PublishedOnce
<1>6. \A j \in JobIds : Used(j) => jobs'[j].ws = jobs[j].ws
  OBVIOUS
<1>7. \A p \in provenance' \cup candidates' : jobs'[p[1]].status # "none"
  BY DEF Used
<1>8. \A j \in JobIds : jobs'[j].status = "SUCCEEDED" =>
        \/ jobs[j].status = "SUCCEEDED"
        \/ /\ Published(j) /\ Accepted(jobs[j].ws, history[j])
           /\ projection[jobs[j].ws] = history[j]
  OBVIOUS
<1> QED
  BY <1>1, <1>2, <1>3, <1>4, <1>5, <1>6, <1>7, <1>8, Keeps

(* Where the worker is on its way to the transaction.                      *)
LEMMA OnTheWay ==
  ASSUME IInv, worker.pc \in Publishing
  PROVE  /\ worker \in WorkerRecords
         /\ Job \in JobIds /\ Used(Job) /\ Ws \in Workspaces /\ ~Published(Job)
         /\ plan[Ws] \in Nat /\ selected[Ws] \in Nat
         /\ values \subseteq Workspaces \X Selection \X Models
         /\ candidates \subseteq JobIds \X Models /\ provenance \subseteq JobIds \X Models
         /\ \A j \in JobIds : Published(j) =>
              /\ {j} \X Models \subseteq provenance
              /\ {jobs[j].ws} \X {history[j]} \X Models \subseteq values
         /\ \A p \in provenance \cup candidates : Used(p[1])
<1> USE DEF IInv
<1>1. worker.job \in JobIds /\ Used(worker.job)
  BY DEF Held, Used, Job
<1>2. Ws \in Workspaces
  BY <1>1 DEF Numbered, Ws, Job
<1>3. plan[Ws] \in Nat /\ selected[Ws] \in Nat
  BY <1>2, BoundsAssumption DEF TypeOK
<1>4. ~Published(worker.job)
  BY DEF OnItsWay, Job
<1> QED
  BY <1>1, <1>2, <1>3, <1>4 DEF TypeOK, WorkerRecords, PublishedOnce, Kept, Named, Job

(* What earlier captures left behind goes, then the plan is read.          *)
LEMMA RecoverIInv ==
  ASSUME IInv, Recover PROVE IInv'
<1>1. /\ UNCHANGED <<database, accepted, server, jobs, control, request, budget>>
      /\ RecoverIncomplete(Ws) /\ worker.pc = "recover"
      /\ worker' = [worker EXCEPT !.pc = "read", !.plan = plan[Ws]]
  BY DEF Recover, At
<1>2. worker.pc \in Publishing
  BY <1>1 DEF Publishing
<1>3. /\ worker \in WorkerRecords /\ Job \in JobIds /\ Used(Job) /\ Ws \in Workspaces
      /\ ~Published(Job) /\ plan[Ws] \in Nat
      /\ values \subseteq Workspaces \X Selection \X Models
      /\ candidates \subseteq JobIds \X Models /\ provenance \subseteq JobIds \X Models
      /\ \A p \in provenance \cup candidates : Used(p[1])
  BY <1>2, OnTheWay
<1>4. /\ values' \subseteq values /\ provenance' \subseteq provenance
      /\ candidates' \subseteq candidates
      /\ \A j \in JobIds : Published(j) =>
           /\ {j} \X Models \subseteq provenance'
           /\ {jobs[j].ws} \X {history[j]} \X Models \subseteq values'
      /\ \A p \in provenance' \cup candidates' : jobs[p[1]].ws = Ws => Published(p[1])
  BY <1>1, <1>3, RecoverKeeps
<1>5. /\ worker' \in WorkerRecords /\ worker'.pc = "read" /\ worker'.job = worker.job
      /\ worker'.plan = plan[Ws] /\ worker'.left = worker.left
  BY <1>1, <1>3 DEF WorkerRecords, Publishing
<1>6. StartsClean'
  BY <1>1, <1>4, <1>5 DEF StartsClean, Published, Ws, Job, database
<1>7. OnItsWay'
  <2>1. worker.left = Models
    BY <1>1 DEF IInv, OnItsWay
  <2>2. Ws' = Ws /\ Job' = Job
    BY <1>1, <1>5 DEF Ws, Job
  <2> QED
    BY <1>1, <1>3, <1>5, <2>1, <2>2 DEF OnItsWay, Publishing, Published, database
<1>8. /\ values' \subseteq Workspaces \X Selection \X Models
      /\ candidates' \subseteq JobIds \X Models /\ provenance' \subseteq JobIds \X Models
      /\ \A p \in provenance' \cup candidates' : Used(p[1])
      /\ worker'.pc \in Publishing
  BY <1>3, <1>4, <1>5 DEF Publishing
<1>9. Counted'
  BY <1>1, <1>5, SameCount DEF Versioned, Publishing, database
<1> QED
  BY <1>1, <1>2, <1>4, <1>5, <1>6, <1>7, <1>8, <1>9, MoveIInv

(* The records are read, if the plan is still what it was.                 *)
LEMMA ReadIInv ==
  ASSUME IInv, NEW c \in Contents, Read(c) PROVE IInv'
<1> DEFINE new == [plan |-> worker.plan, version |-> selected[Ws] + 1, content |-> c]
<1>1. /\ UNCHANGED <<database, accepted, server, jobs, control, request, budget>>
      /\ UNCHANGED <<values, candidates, provenance>> /\ worker.pc = "read"
      /\ worker' = [worker EXCEPT !.pc = "values", !.captured = new]
  BY DEF Read, At, files
<1>2. worker.pc \in Publishing
  BY <1>1 DEF Publishing
<1>3. /\ worker \in WorkerRecords /\ Job \in JobIds /\ Used(Job) /\ Ws \in Workspaces
      /\ ~Published(Job) /\ selected[Ws] \in Nat
      /\ values \subseteq Workspaces \X Selection \X Models
      /\ candidates \subseteq JobIds \X Models /\ provenance \subseteq JobIds \X Models
      /\ \A j \in JobIds : Published(j) =>
           /\ {j} \X Models \subseteq provenance
           /\ {jobs[j].ws} \X {history[j]} \X Models \subseteq values
      /\ \A p \in provenance \cup candidates : Used(p[1])
  BY <1>2, OnTheWay
<1>4. new \in Selection /\ new.plan = worker.plan
  BY <1>3 DEF Selection, WorkerRecords
<1> HIDE DEF new
<1>5. /\ worker' \in WorkerRecords /\ worker'.pc = "values" /\ worker'.job = worker.job
      /\ worker'.plan = worker.plan /\ worker'.left = worker.left /\ worker'.captured = new
  BY <1>1, <1>3, <1>4 DEF WorkerRecords, Publishing
<1>6. StartsClean'
  BY <1>1, <1>5 DEF IInv, StartsClean, Published, Ws, Job, database
<1>7. OnItsWay'
  <2>1. worker.left = Models /\ worker.plan <= plan[Ws]
    BY <1>1 DEF IInv, OnItsWay, Publishing
  <2>2. Ws' = Ws /\ Job' = Job
    BY <1>1, <1>5 DEF Ws, Job
  <2> QED
    BY <1>1, <1>3, <1>4, <1>5, <2>1, <2>2 DEF OnItsWay, Publishing, Published, database
<1>8. /\ values' \subseteq Workspaces \X Selection \X Models
      /\ candidates' \subseteq JobIds \X Models /\ provenance' \subseteq JobIds \X Models
      /\ \A j \in JobIds : Published(j) =>
           /\ {j} \X Models \subseteq provenance'
           /\ {jobs[j].ws} \X {history[j]} \X Models \subseteq values'
      /\ \A p \in provenance' \cup candidates' : Used(p[1])
      /\ worker'.pc \in Publishing
  BY <1>1, <1>3, <1>5 DEF Publishing
<1>9. Counted'
  <2>1. Captures' = Captures
    BY <1>1 DEF Captures, Published, database
  <2>2. Cardinality(Captures) \in Nat /\ selected[Ws] <= Cardinality(Captures)
    BY <1>3, CapturesCounted DEF IInv, Counted
  <2>3. worker'.captured.version <= 1 + Cardinality(Captures)
    BY <1>3, <1>5, <2>2 DEF new
  <2> QED
    BY <1>1, <2>1, <2>3 DEF IInv, Counted, database
<1> QED
  BY <1>1, <1>2, <1>5, <1>6, <1>7, <1>8, <1>9, MoveIInv

(* One model after the other: what is left is left, and when nothing is    *)
(* the next step begins with all the models again.                         *)
LEMMA EachModel ==
  ASSUME worker \in WorkerRecords, NEW m \in worker.left,
         NEW next \in Publishing, Each(m, next)
  PROVE  /\ worker' \in WorkerRecords /\ worker'.job = worker.job
         /\ worker'.plan = worker.plan /\ worker'.captured = worker.captured
         /\ \/ worker'.pc = worker.pc /\ worker'.left = worker.left \ {m}
            \/ worker'.pc = next /\ worker.left = {m} /\ worker'.left = Models
<1>1. CASE worker.left = {m}
  <2>1. worker' = [worker EXCEPT !.pc = next, !.left = Models]
    BY <1>1 DEF Each
  <2> QED
    BY <1>1, <2>1 DEF WorkerRecords
<1>2. CASE worker.left # {m}
  <2>1. worker' = [worker EXCEPT !.left = worker.left \ {m}]
    BY <1>2 DEF Each
  <2> QED
    BY <1>2, <2>1 DEF WorkerRecords
<1> QED
  BY <1>1, <1>2

(* A value file may be there already: it holds what its name says.         *)
LEMMA PublishValuesIInv ==
  ASSUME IInv, NEW m \in Models, PublishValues(m) PROVE IInv'
<1>1. /\ UNCHANGED <<database, accepted, server, jobs, control, request, budget>>
      /\ UNCHANGED <<candidates, provenance>> /\ worker.pc = "values"
      /\ m \in worker.left /\ Each(m, "check")
      /\ values' = values \cup {<<Ws, worker.captured, m>>}
  BY DEF PublishValues, At
<1>2. worker.pc \in Publishing /\ "check" \in Publishing
  BY <1>1 DEF Publishing
<1>3. /\ worker \in WorkerRecords /\ Job \in JobIds /\ Used(Job) /\ Ws \in Workspaces
      /\ ~Published(Job)
      /\ values \subseteq Workspaces \X Selection \X Models
      /\ candidates \subseteq JobIds \X Models /\ provenance \subseteq JobIds \X Models
      /\ \A j \in JobIds : Published(j) =>
           /\ {j} \X Models \subseteq provenance
           /\ {jobs[j].ws} \X {history[j]} \X Models \subseteq values
      /\ \A p \in provenance \cup candidates : Used(p[1])
  BY <1>2, OnTheWay
<1>4. /\ worker' \in WorkerRecords /\ worker'.job = worker.job
      /\ worker'.plan = worker.plan /\ worker'.captured = worker.captured
      /\ \/ worker'.pc = "values" /\ worker'.left = worker.left \ {m}
         \/ worker'.pc = "check" /\ worker.left = {m} /\ worker'.left = Models
  BY <1>1, <1>2, <1>3, EachModel
<1>5. /\ worker.plan <= plan[Ws]
      /\ worker.captured \in Selection /\ worker.captured.plan = worker.plan
      /\ {Ws} \X {worker.captured} \X (Models \ worker.left) \subseteq values
  BY <1>1 DEF IInv, OnItsWay, Publishing
<1>6. Ws' = Ws /\ Job' = Job
  BY <1>1, <1>4 DEF Ws, Job
<1>7. StartsClean'
  BY <1>1, <1>4, <1>6 DEF IInv, StartsClean, Published, Ws, Job, database
<1>8. OnItsWay'
  <2>1. ASSUME NEW n \in Models, n \notin worker.left \/ n = m
        PROVE  <<Ws, worker.captured, n>> \in values'
    BY <1>1, <1>5, <2>1
  <2>2. CASE worker'.pc = "values" /\ worker'.left = worker.left \ {m}
    <3>1. {Ws'} \X {worker'.captured} \X (Models \ worker'.left) \subseteq values'
      BY <1>4, <1>6, <2>1, <2>2
    <3> QED
      BY <1>1, <1>3, <1>4, <1>5, <1>6, <2>2, <3>1 DEF OnItsWay, Publishing, Published, database
  <2>3. CASE worker'.pc = "check" /\ worker.left = {m} /\ worker'.left = Models
    <3>1. {Ws'} \X {worker'.captured} \X Models \subseteq values'
      BY <1>4, <1>6, <2>1, <2>3
    <3> QED
      BY <1>1, <1>3, <1>4, <1>5, <1>6, <2>3, <3>1 DEF OnItsWay, Publishing, Published, database
  <2> QED
    BY <1>4, <2>2, <2>3
<1>9. /\ values' \subseteq Workspaces \X Selection \X Models
      /\ candidates' \subseteq JobIds \X Models /\ provenance' \subseteq JobIds \X Models
      /\ \A p \in provenance' \cup candidates' : Used(p[1])
      /\ worker'.pc \in Publishing
  BY <1>1, <1>3, <1>4, <1>5 DEF Publishing
<1>10. \A j \in JobIds : Published(j) =>
         /\ {j} \X Models \subseteq provenance'
         /\ {jobs[j].ws} \X {history[j]} \X Models \subseteq values'
  <2>1. values \subseteq values' /\ provenance' = provenance
    BY <1>1
  <2> QED
    BY <1>3, <2>1
<1>11. Counted'
  BY <1>1, <1>4, SameCount DEF Versioned, Publishing, database
<1> QED
  BY <1>1, <1>2, <1>4, <1>7, <1>8, <1>9, <1>10, <1>11, MoveIInv

(* The last look at the cancellation.                                      *)
LEMMA WriteCandidatesIInv ==
  ASSUME IInv, WriteCandidates PROVE IInv'
<1>1. /\ UNCHANGED <<database, accepted, server, jobs, control, request, budget>>
      /\ UNCHANGED <<values, provenance>> /\ worker.pc = "check"
      /\ candidates' = candidates \cup ({Job} \X Models)
      /\ worker' = [worker EXCEPT !.pc = "bind"]
  BY DEF WriteCandidates, At, Goto
<1>2. worker.pc \in Publishing
  BY <1>1 DEF Publishing
<1>3. /\ worker \in WorkerRecords /\ Job \in JobIds /\ Used(Job) /\ Ws \in Workspaces
      /\ ~Published(Job)
      /\ values \subseteq Workspaces \X Selection \X Models
      /\ candidates \subseteq JobIds \X Models /\ provenance \subseteq JobIds \X Models
      /\ \A j \in JobIds : Published(j) =>
           /\ {j} \X Models \subseteq provenance
           /\ {jobs[j].ws} \X {history[j]} \X Models \subseteq values
      /\ \A p \in provenance \cup candidates : Used(p[1])
  BY <1>2, OnTheWay
<1>4. /\ worker' \in WorkerRecords /\ worker'.pc = "bind" /\ worker'.job = worker.job
      /\ worker'.plan = worker.plan /\ worker'.left = worker.left
      /\ worker'.captured = worker.captured
  BY <1>1, <1>3 DEF WorkerRecords, Publishing
<1>5. StartsClean'
  BY <1>4 DEF StartsClean
<1>6. OnItsWay'
  <2>1. Ws' = Ws /\ Job' = Job
    BY <1>1, <1>4 DEF Ws, Job
  <2> QED
    BY <1>1, <1>3, <1>4, <2>1 DEF IInv, OnItsWay, Publishing, Published, database
<1>7. /\ values' \subseteq Workspaces \X Selection \X Models
      /\ candidates' \subseteq JobIds \X Models /\ provenance' \subseteq JobIds \X Models
      /\ \A j \in JobIds : Published(j) =>
           /\ {j} \X Models \subseteq provenance'
           /\ {jobs[j].ws} \X {history[j]} \X Models \subseteq values'
      /\ \A p \in provenance' \cup candidates' : Used(p[1])
      /\ worker'.pc \in Publishing
  BY <1>1, <1>3, <1>4 DEF Publishing
<1>8. Counted'
  BY <1>1, <1>4, SameCount DEF Versioned, Publishing, database
<1> QED
  BY <1>1, <1>2, <1>4, <1>5, <1>6, <1>7, <1>8, MoveIInv

(* The plan and the selection are those the capture was made from: what it *)
(* publishes will be of a new plan or a new version.                       *)
LEMMA BindIInv ==
  ASSUME IInv, Bind PROVE IInv'
<1>1. /\ UNCHANGED <<database, accepted, server, jobs, control, request, budget>>
      /\ UNCHANGED <<values, candidates, provenance>> /\ worker.pc = "bind" /\ Bound
      /\ worker' = [worker EXCEPT !.pc = "rename"]
  BY DEF Bind, At, Goto, files
<1>2. worker.pc \in Publishing
  BY <1>1 DEF Publishing
<1>3. /\ worker \in WorkerRecords /\ Job \in JobIds /\ Used(Job) /\ Ws \in Workspaces
      /\ ~Published(Job) /\ selected[Ws] \in Nat
      /\ values \subseteq Workspaces \X Selection \X Models
      /\ candidates \subseteq JobIds \X Models /\ provenance \subseteq JobIds \X Models
      /\ \A j \in JobIds : Published(j) =>
           /\ {j} \X Models \subseteq provenance
           /\ {jobs[j].ws} \X {history[j]} \X Models \subseteq values
      /\ \A p \in provenance \cup candidates : Used(p[1])
  BY <1>2, OnTheWay
<1>4. /\ worker' \in WorkerRecords /\ worker'.pc = "rename" /\ worker'.job = worker.job
      /\ worker'.plan = worker.plan /\ worker'.left = worker.left
      /\ worker'.captured = worker.captured
  BY <1>1, <1>3 DEF WorkerRecords, Publishing
<1>5. StartsClean'
  BY <1>4 DEF StartsClean
<1>6. OnItsWay'
  <2>1. Ws' = Ws /\ Job' = Job
    BY <1>1, <1>4 DEF Ws, Job
  <2>2. worker.captured.plan = worker.plan /\ worker.left = Models
    BY <1>1 DEF IInv, OnItsWay, Publishing
  <2>3. Before(Ws, worker.captured.plan, worker.captured.version - 1)
    <3>1. Before(Ws, plan[Ws], selected[Ws])
      BY <1>3 DEF IInv, PublishedOnce
    <3>2. worker.captured.plan = plan[Ws] /\ worker.captured.version - 1 = selected[Ws]
      BY <1>1, <1>3, <2>2 DEF Bound
    <3> QED
      BY <3>1, <3>2
  <2>4. Before(Ws, worker.captured.plan, worker.captured.version - 1)'
    BY <1>1, <1>4, <2>1, <2>3 DEF Before, PublishedOf, Published, database
  <2> QED
    BY <1>1, <1>3, <1>4, <2>1, <2>2, <2>4 DEF IInv, OnItsWay, Publishing, Published, database
<1>7. /\ values' \subseteq Workspaces \X Selection \X Models
      /\ candidates' \subseteq JobIds \X Models /\ provenance' \subseteq JobIds \X Models
      /\ \A j \in JobIds : Published(j) =>
           /\ {j} \X Models \subseteq provenance'
           /\ {jobs[j].ws} \X {history[j]} \X Models \subseteq values'
      /\ \A p \in provenance' \cup candidates' : Used(p[1])
      /\ worker'.pc \in Publishing
  BY <1>1, <1>3, <1>4 DEF Publishing
<1>8. Counted'
  BY <1>1, <1>4, SameCount DEF Versioned, Publishing, database
<1> QED
  BY <1>1, <1>2, <1>4, <1>5, <1>6, <1>7, <1>8, MoveIInv

(* The provenance files take their names, one by one.                      *)
LEMMA RenameIInv ==
  ASSUME IInv, NEW m \in Models, Rename(m) PROVE IInv'
<1>1. /\ UNCHANGED <<database, accepted, server, jobs, control, request, budget>>
      /\ UNCHANGED values /\ worker.pc = "rename"
      /\ m \in worker.left /\ Each(m, "commit")
      /\ candidates' = candidates \ {<<Job, m>>}
      /\ provenance' = provenance \cup {<<Job, m>>}
  BY DEF Rename, At
<1>2. worker.pc \in Publishing /\ "commit" \in Publishing
  BY <1>1 DEF Publishing
<1>3. /\ worker \in WorkerRecords /\ Job \in JobIds /\ Used(Job) /\ Ws \in Workspaces
      /\ ~Published(Job)
      /\ values \subseteq Workspaces \X Selection \X Models
      /\ candidates \subseteq JobIds \X Models /\ provenance \subseteq JobIds \X Models
      /\ \A j \in JobIds : Published(j) =>
           /\ {j} \X Models \subseteq provenance
           /\ {jobs[j].ws} \X {history[j]} \X Models \subseteq values
      /\ \A p \in provenance \cup candidates : Used(p[1])
  BY <1>2, OnTheWay
<1>4. /\ worker' \in WorkerRecords /\ worker'.job = worker.job
      /\ worker'.plan = worker.plan /\ worker'.captured = worker.captured
      /\ \/ worker'.pc = "rename" /\ worker'.left = worker.left \ {m}
         \/ worker'.pc = "commit" /\ worker.left = {m} /\ worker'.left = Models
  BY <1>1, <1>2, <1>3, EachModel
<1>5. /\ worker.plan <= plan[Ws]
      /\ worker.captured \in Selection /\ worker.captured.plan = worker.plan
      /\ {Ws} \X {worker.captured} \X Models \subseteq values
      /\ {Job} \X (Models \ worker.left) \subseteq provenance
      /\ Before(Ws, worker.captured.plan, worker.captured.version - 1)
  BY <1>1 DEF IInv, OnItsWay, Publishing
<1>6. Ws' = Ws /\ Job' = Job
  BY <1>1, <1>4 DEF Ws, Job
<1>7. StartsClean'
  BY <1>4 DEF StartsClean
<1>8. OnItsWay'
  <2>1. ASSUME NEW n \in Models, n \notin worker.left \/ n = m
        PROVE  <<Job, n>> \in provenance'
    BY <1>1, <1>5, <2>1
  <2>2. Before(Ws, worker.captured.plan, worker.captured.version - 1)'
    BY <1>1, <1>4, <1>5, <1>6 DEF Before, PublishedOf, Published, database
  <2>3. CASE worker'.pc = "rename" /\ worker'.left = worker.left \ {m}
    <3>1. {Job'} \X (Models \ worker'.left) \subseteq provenance'
      BY <1>6, <2>1, <2>3
    <3> QED
      BY <1>1, <1>3, <1>4, <1>5, <1>6, <2>2, <2>3, <3>1
      DEF OnItsWay, Publishing, Published, database
  <2>4. CASE worker'.pc = "commit" /\ worker.left = {m} /\ worker'.left = Models
    <3>1. {Job'} \X Models \subseteq provenance'
      BY <1>6, <2>1, <2>4
    <3> QED
      BY <1>1, <1>3, <1>4, <1>5, <1>6, <2>2, <2>4, <3>1
      DEF OnItsWay, Publishing, Published, database
  <2> QED
    BY <1>4, <2>3, <2>4
<1>9. /\ values' \subseteq Workspaces \X Selection \X Models
      /\ candidates' \subseteq JobIds \X Models /\ provenance' \subseteq JobIds \X Models
      /\ \A p \in provenance' \cup candidates' : Used(p[1])
      /\ worker'.pc \in Publishing
  BY <1>1, <1>3, <1>4 DEF Publishing
<1>10. \A j \in JobIds : Published(j) =>
         /\ {j} \X Models \subseteq provenance'
         /\ {jobs[j].ws} \X {history[j]} \X Models \subseteq values'
  <2>1. values' = values /\ provenance \subseteq provenance'
    BY <1>1
  <2> QED
    BY <1>3, <2>1
<1>11. Counted'
  BY <1>1, <1>4, SameCount DEF Versioned, Publishing, database
<1> QED
  BY <1>1, <1>2, <1>4, <1>7, <1>8, <1>9, <1>10, <1>11, MoveIInv

(* A capture is over without a success: what is published keeps its files. *)
LEMMA EndIInv ==
  ASSUME IInv, worker.pc \in Publishing \cup Accepting,
         NEW s \in {"FAILED", "CANCELLED"}, s = "CANCELLED" => ~Published(Job),
         Settle(s), Goto("pop"),
         RecoverIncomplete(Ws) \/ UNCHANGED files,
         UNCHANGED <<database, accepted, server, control, request, crashes>>, faults' \in Nat
  PROVE  IInv'
<1>1. /\ Job \in JobIds /\ Used(Job)
      /\ jobs' \in [JobIds -> [ws : Workspaces \cup {None}, status : Statuses]]
      /\ jobs'[Job].ws = jobs[Job].ws /\ jobs'[Job].status = s
      /\ \A i \in JobIds : i # Job => jobs'[i] = jobs[i]
      /\ worker' \in WorkerRecords /\ worker'.pc = "pop"
      /\ Numbered' /\ Held'
  <2>1. s \in Terminal /\ UNCHANGED <<pending, events>>
    BY DEF Terminal, control
  <2> QED
    BY <2>1, SettleHeld
<1>2. Ws \in Workspaces
  BY <1>1 DEF IInv, Numbered, Ws
<1>3. /\ values' \subseteq values /\ provenance' \subseteq provenance
      /\ candidates' \subseteq candidates
      /\ \A j \in JobIds : Published(j) =>
           /\ {j} \X Models \subseteq provenance'
           /\ {jobs[j].ws} \X {history[j]} \X Models \subseteq values'
  <2>1. CASE RecoverIncomplete(Ws)
    BY <1>2, <2>1, RecoverKeeps
  <2>2. CASE UNCHANGED files
    BY <2>2 DEF files, IInv, PublishedOnce, Kept
  <2> QED
    BY <2>1, <2>2
<1>4. TypeOK'
  <2>1. /\ values' \subseteq Workspaces \X Selection \X Models
        /\ candidates' \subseteq JobIds \X Models /\ provenance' \subseteq JobIds \X Models
    BY <1>3 DEF IInv, TypeOK
  <2> QED
    BY <1>1, <2>1 DEF IInv, TypeOK, WorkerRecords, Statuses, database, accepted, control
<1>5. \A j \in JobIds : jobs'[j].ws = jobs[j].ws
  BY <1>1
<1>6. \A j \in JobIds : Published(j) =>
        Kept(j)' /\ jobs'[j].status \notin {"none", "QUEUED", "CANCELLED"}
  <2>1. \A j \in JobIds : Published(j) => Kept(j)'
    BY <1>3, <1>5 DEF Kept, database
  <2>2. \A j \in JobIds : Published(j) => jobs'[j].status \notin {"none", "QUEUED", "CANCELLED"}
    BY <1>1 DEF IInv, PublishedOnce
  <2> QED
    BY <2>1, <2>2
<1>7. \A j \in JobIds : jobs'[j].status = "SUCCEEDED" => jobs[j].status = "SUCCEEDED"
  BY <1>1
<1>8. \A p \in provenance' \cup candidates' : jobs'[p[1]].status # "none"
  <2>1. \A p \in provenance' \cup candidates' : p[1] \in JobIds /\ Used(p[1])
    BY <1>3 DEF IInv, TypeOK, Named
  <2> QED
    BY <1>1, <2>1 DEF Used
<1>9. StartsClean' /\ OnItsWay' /\ Handed'
  BY <1>1 DEF StartsClean, OnItsWay, Handed, Publishing, Accepting
<1>10. Counted'
  BY <1>1, SameCount DEF Versioned, Publishing, database
<1> QED
  BY <1>1, <1>4, <1>5, <1>6, <1>7, <1>8, <1>9, <1>10, Keeps

(* A step fails ...                                                        *)
LEMMA FailsIInv ==
  ASSUME IInv, Fails PROVE IInv'
<1>1. /\ worker.pc \in Publishing \cup Accepting /\ Settle("FAILED") /\ Goto("pop")
      /\ RecoverIncomplete(Ws) \/ UNCHANGED files
      /\ UNCHANGED <<database, accepted, server, control, request, crashes>>
  BY DEF Fails
<1>2. faults' \in Nat
  BY DEF Fails, IInv, TypeOK
<1> QED
  BY <1>1, <1>2, EndIInv

(* ... or the capture sees that it is cancelled.                           *)
LEMMA StoppedIInv ==
  ASSUME IInv, Stopped PROVE IInv'
<1>1. /\ worker.pc \in {"read", "check"} /\ Settle("CANCELLED") /\ Goto("pop")
      /\ RecoverIncomplete(Ws)
      /\ UNCHANGED <<database, accepted, server, control, request, crashes, faults>>
  BY DEF Stopped, At, budget
<1>2. worker.pc \in Publishing \cup Accepting /\ ~Published(Job)
  BY <1>1 DEF IInv, OnItsWay, Publishing
<1>3. faults' \in Nat
  BY <1>1 DEF IInv, TypeOK
<1> QED
  BY <1>1, <1>2, <1>3, EndIInv

---------------------------------------------------------------------------
(* The transaction: what was written becomes what the Workspace works      *)
(* with.                                                                   *)
LEMMA CommitIInv ==
  ASSUME IInv, Commit PROVE IInv'
<1>1. /\ UNCHANGED <<plan, files, accepted, server, jobs, control, request, budget>>
      /\ worker.pc = "commit" /\ worker' = [worker EXCEPT !.pc = "accept"]
      /\ history' = [history EXCEPT ![Job] = worker.captured]
      /\ current' = [current EXCEPT ![Ws] = Job]
      /\ selected' = [selected EXCEPT ![Ws] = worker.captured.version]
  BY DEF Commit, At, Goto
<1>2. worker.pc \in Publishing
  BY <1>1 DEF Publishing
<1>3. PICK j \in JobIds : j = Job
  BY <1>2, OnTheWay
<1>4. PICK w \in Workspaces : w = Ws
  BY <1>2, OnTheWay
<1>5. /\ worker \in WorkerRecords /\ ~Published(j) /\ Used(j) /\ jobs[j].ws = w
      /\ plan[w] \in Nat
  BY <1>2, <1>3, <1>4, OnTheWay DEF Ws
<1>6. PICK s \in Selection : s = worker.captured
  BY <1>1 DEF IInv, OnItsWay, Publishing
<1>7. /\ s.plan <= plan[w] /\ s.plan \in Nat /\ s.version \in Nat \ {0}
      /\ {w} \X {s} \X Models \subseteq values
      /\ {j} \X Models \subseteq provenance
      /\ Before(w, s.plan, s.version - 1)
  BY <1>1, <1>3, <1>4, <1>6 DEF IInv, OnItsWay, Publishing, Selection
<1>8. s # NoSelection
  BY <1>7 DEF NoSelection
<1>9. /\ worker' \in WorkerRecords /\ worker'.pc = "accept" /\ worker'.job = j
      /\ worker'.captured = s
  BY <1>1, <1>3, <1>5, <1>6 DEF WorkerRecords, Accepting, Job
<1>10. /\ history' \in [JobIds -> Selection \cup {NoSelection}]
       /\ history'[j] = s /\ \A i \in JobIds : i # j => history'[i] = history[i]
  BY <1>1, <1>3, <1>6 DEF IInv, TypeOK
<1>11. \A i \in JobIds : Published(i)' <=> Published(i) \/ i = j
  BY <1>8, <1>10 DEF Published
<1>12. Cardinality(Captures) \in Nat /\ Cardinality(Captures) < MaxJobs
       /\ Captures' = Captures \cup {j} /\ Cardinality(Captures') = Cardinality(Captures) + 1
  <2>1. j \notin Captures /\ Captures' = Captures \cup {j}
    BY <1>5, <1>11 DEF Captures
  <2>2. Cardinality(Captures \cup {j}) = Cardinality(Captures) + 1
    BY <2>1, CapturesCounted, FS_AddElement
  <2> QED
    BY <2>1, <2>2, CapturesCounted
<1>13. s.version <= 1 + Cardinality(Captures)
  BY <1>1, <1>6 DEF IInv, Counted, Versioned, Publishing
<1>14. /\ selected' \in [Workspaces -> 0 .. MaxJobs] /\ selected'[w] = s.version
       /\ \A ws \in Workspaces : ws # w => selected'[ws] = selected[ws]
  <2>1. s.version \in 0 .. MaxJobs
    BY <1>7, <1>12, <1>13, BoundsAssumption
  <2> QED
    BY <1>1, <1>4, <1>6, <2>1 DEF IInv, TypeOK
<1>15. /\ current' \in [Workspaces -> JobIds \cup {0}] /\ current'[w] = j
       /\ \A ws \in Workspaces : ws # w => current'[ws] = current[ws]
  BY <1>1, <1>3, <1>4 DEF IInv, TypeOK
<1>16. TypeOK'
  BY <1>1, <1>9, <1>10, <1>14, <1>15
  DEF IInv, TypeOK, WorkerRecords, files, accepted, control, budget
<1>17. Numbered' /\ Held'
  <2>1. jobs[j].status = "RUNNING"
    BY <1>2, <1>3 DEF IInv, Held
  <2> QED
    BY <1>1, <1>3, <1>9, <2>1
    DEF IInv, Numbered, Used, Held, OneCapture, OnceEach, Accepting, Publishing, control, Job
<1>18. \A ws \in Workspaces : \A i \in JobIds :
         i \in PublishedOf(ws)' <=> i \in PublishedOf(ws) \/ (i = j /\ ws = w)
  BY <1>1, <1>5, <1>11 DEF PublishedOf
<1>19. \A ws \in Workspaces : \A i \in PublishedOf(ws) :
         i \in JobIds /\ i # j /\ history'[i] = history[i]
         /\ history[i] \in Selection /\ history[i].plan \in Nat /\ history[i].version \in Nat
  BY <1>5, <1>10 DEF PublishedOf, Published, IInv, TypeOK, Selection
<1>20. PublishedOnce'
  <2>1. ASSUME NEW i \in JobIds, Published(i)'
        PROVE  Kept(i)' /\ jobs'[i].status \notin {"none", "QUEUED", "CANCELLED"}
    <3>1. CASE i = j
      <4>1. jobs[j].status = "RUNNING"
        BY <1>2, <1>3 DEF IInv, Held
      <4> QED
        BY <1>1, <1>5, <1>7, <1>10, <3>1, <4>1 DEF Kept, files
    <3>2. CASE i # j
      BY <1>1, <1>10, <1>11, <2>1, <3>2 DEF IInv, PublishedOnce, Kept, files
    <3> QED
      BY <3>1, <3>2
  <2>2. ASSUME NEW ws \in Workspaces, NEW i \in PublishedOf(ws)'
        PROVE  /\ history'[i].plan <= plan[ws]
               /\ history'[i].plan = plan[ws] => history'[i].version <= selected'[ws]
    <3>1. i \in JobIds
      BY <2>2 DEF PublishedOf
    <3>2. CASE i = j /\ ws = w
      BY <1>7, <1>10, <1>14, <3>2
    <3>3. CASE i \in PublishedOf(ws) /\ ws # w
      BY <1>14, <1>19, <3>3 DEF IInv, PublishedOnce, Before
    <3>4. CASE i \in PublishedOf(ws) /\ ws = w
      <4>1. /\ history'[i] = history[i]
            /\ history[i].plan <= s.plan
            /\ history[i].plan = s.plan => history[i].version <= s.version - 1
        BY <1>7, <1>19, <3>4 DEF Before
      <4> QED
        BY <1>5, <1>7, <1>14, <1>19, <3>4, <4>1
    <3> QED
      BY <1>18, <2>2, <3>1, <3>2, <3>3, <3>4
  <2>3. ASSUME NEW i \in PublishedOf(w) PROVE ~(history[i].plan = s.plan /\ history[i].version = s.version)
    BY <1>7, <1>19 DEF Before
  <2>4. ASSUME NEW ws \in Workspaces, NEW i \in PublishedOf(ws)', NEW k \in PublishedOf(ws)',
               history'[i].plan = history'[k].plan, history'[i].version = history'[k].version
        PROVE  i = k
    <3>1. i \in JobIds /\ k \in JobIds
      BY DEF PublishedOf
    <3>2. /\ i \in PublishedOf(ws) \/ (i = j /\ ws = w)
          /\ k \in PublishedOf(ws) \/ (k = j /\ ws = w)
      BY <1>18, <3>1
    <3>3. CASE i \in PublishedOf(ws) /\ k \in PublishedOf(ws)
      BY <1>19, <2>4, <3>3 DEF IInv, PublishedOnce
    <3>4. CASE i \in PublishedOf(ws) /\ k = j /\ ws = w
      BY <1>10, <1>19, <2>3, <2>4, <3>4
    <3>5. CASE k \in PublishedOf(ws) /\ i = j /\ ws = w
      BY <1>10, <1>19, <2>3, <2>4, <3>5
    <3> QED
      BY <3>2, <3>3, <3>4, <3>5
  <2>5. \A ws \in Workspaces : Before(ws, plan[ws], selected[ws])'
    BY <1>1, <2>2 DEF Before
  <2> QED
    BY <2>1, <2>4, <2>5 DEF PublishedOnce
<1>21. Named'
  <2>1. ASSUME NEW ws \in Workspaces, current'[ws] # 0 PROVE current'[ws] \in PublishedOf(ws)'
    <3>1. CASE ws = w
      BY <1>15, <1>18, <3>1
    <3>2. CASE ws # w
      <4>1. current[ws] \in PublishedOf(ws) /\ current'[ws] = current[ws]
        BY <1>15, <2>1, <3>2 DEF IInv, Named
      <4> QED
        BY <1>18, <1>19, <4>1
    <3> QED
      BY <3>1, <3>2
  <2>2. ASSUME NEW ws \in Workspaces, store'[ws] = "FROZEN"
        PROVE  \E i \in PublishedOf(ws)' : package'[ws] = history'[i]
    <3>1. PICK i \in PublishedOf(ws) : package[ws] = history[i]
      BY <1>1, <2>2 DEF IInv, Named, accepted
    <3> QED
      BY <1>1, <1>18, <1>19, <3>1 DEF accepted
  <2>3. \A p \in provenance' \cup candidates' : Used(p[1])'
    BY <1>1 DEF IInv, Named, Used, files
  <2> QED
    BY <2>1, <2>2, <2>3 DEF Named
<1>22. StartsClean' /\ OnItsWay'
  BY <1>9 DEF StartsClean, OnItsWay, Publishing
<1>23. Handed'
  <2>1. Job' = j /\ Ws' = w
    BY <1>1, <1>5, <1>9 DEF Job, Ws
  <2>2. store'[w] = "FROZEN" => AnotherIsFrozen'
    <3> SUFFICES ASSUME store[w] = "FROZEN" PROVE AnotherIsFrozen'
      BY <1>1 DEF accepted
    <3>1. PICK i \in PublishedOf(w) : package[w] = history[i]
      BY DEF IInv, Named
    <3>2. i \in PublishedOf(w)' /\ i # j /\ package'[w] = history'[i]
      BY <1>1, <1>18, <1>19, <3>1 DEF accepted
    <3> QED
      BY <2>1, <3>2 DEF AnotherIsFrozen, PublishedOf
  <2>3. Published(Job)' /\ history'[Job'] = worker'.captured
    BY <1>9, <1>10, <1>11, <2>1 DEF Published
  <2> QED
    BY <1>9, <2>1, <2>2, <2>3 DEF Handed
<1>24. SuccessIsAccepted'
  <2>1. \A i \in JobIds : jobs[i].status = "SUCCEEDED" => i # j /\ history'[i] = history[i]
    BY <1>5, <1>10 DEF IInv, SuccessIsAccepted
  <2> QED
    BY <1>1, <2>1 DEF IInv, SuccessIsAccepted, Published, accepted
<1>25. Counted'
  <2>1. \A ws \in Workspaces : selected'[ws] <= Cardinality(Captures')
    <3>1. \A ws \in Workspaces : selected[ws] <= Cardinality(Captures) /\ selected[ws] \in Int
      BY BoundsAssumption DEF IInv, Counted, TypeOK
    <3> QED
      BY <1>7, <1>12, <1>13, <1>14, <3>1
  <2> QED
    BY <1>9, <2>1 DEF Counted, Versioned, Publishing
<1> QED
  BY <1>16, <1>17, <1>20, <1>21, <1>22, <1>23, <1>24, <1>25 DEF IInv

(* Where the worker is when it hands its capture to the DataVersion.       *)
LEMMA OnAcceptance ==
  ASSUME IInv, worker.pc \in Accepting
  PROVE  /\ worker \in WorkerRecords /\ Job \in PublishedOf(Ws) /\ Ws \in Workspaces
         /\ history[Job] = worker.captured /\ worker.captured \in Selection
<1>1. worker.job \in JobIds /\ Used(worker.job)
  BY DEF IInv, Held, Used, Job
<1>2. Ws \in Workspaces
  BY <1>1 DEF IInv, Numbered, Ws, Job
<1>3. Published(worker.job) /\ history[worker.job] = worker.captured
  BY DEF IInv, Handed, Job
<1>4. worker.captured \in Selection
  BY <1>1, <1>3 DEF Published, IInv, TypeOK
<1> QED
  BY <1>1, <1>2, <1>3, <1>4 DEF IInv, TypeOK, WorkerRecords, PublishedOf, Ws, Job

(* A step of the acceptance: the Workspace's database and its files are    *)
(* what they were.                                                         *)
LEMMA AcceptanceIInv ==
  ASSUME IInv, UNCHANGED <<database, files, server, jobs, control, request, budget>>,
         worker.pc \in Accepting, worker'.pc \in Accepting \cup {"finish"},
         worker'.pc # "accept", worker' \in WorkerRecords, worker'.job = worker.job,
         worker'.captured = worker.captured,
         store' \in [Workspaces -> {"DRAFT", "FROZEN"}],
         package' \in [Workspaces -> Selection \cup {NoSelection}],
         registry' \in [Workspaces -> {"DRAFT", "FROZEN"}],
         projection' \in [Workspaces -> Selection \cup {NoSelection}],
         \A ws \in Workspaces : store'[ws] = "FROZEN" =>
           \E j \in PublishedOf(ws) : package'[ws] = history[j],
         \A ws \in Workspaces : \A s \in Selection :
           Accepted(ws, s) /\ projection[ws] = s =>
             store'[ws] = "FROZEN" /\ registry'[ws] = "FROZEN"
             /\ package'[ws] = s /\ projection'[ws] = s,
         worker'.pc \in {"freeze", "register"} => package'[Ws] = worker.captured,
         worker'.pc = "register" => store'[Ws] = "FROZEN",
         worker'.pc = "project" =>
           \/ /\ store'[Ws] = "FROZEN" /\ registry'[Ws] = "FROZEN"
              /\ package'[Ws] = worker.captured
           \/ \E j \in PublishedOf(Ws) : j # Job /\ package'[Ws] = history[j],
         worker'.pc = "finish" =>
           /\ store'[Ws] = "FROZEN" /\ registry'[Ws] = "FROZEN"
           /\ package'[Ws] = worker.captured /\ projection'[Ws] = worker.captured
  PROVE  IInv'
<1> USE DEF database, files, control, budget
<1>1. TypeOK'
  BY DEF IInv, TypeOK, WorkerRecords
<1>2. Numbered' /\ Held'
  BY DEF IInv, Numbered, Used, Held, OneCapture, OnceEach, Accepting, Publishing, Job
<1>3. Ws' = Ws /\ Job' = Job /\ \A ws \in Workspaces : PublishedOf(ws)' = PublishedOf(ws)
  BY DEF Ws, Job, PublishedOf, Published
<1>4. PublishedOnce'
  BY DEF IInv, PublishedOnce, Published, Kept, Before, PublishedOf
<1>5. Named'
  <2>1. \A ws \in Workspaces : store'[ws] = "FROZEN" =>
          \E j \in PublishedOf(ws)' : package'[ws] = history'[j]
    BY <1>3
  <2> QED
    BY <1>3, <2>1 DEF IInv, Named, Used
<1>6. StartsClean' /\ OnItsWay'
  BY DEF StartsClean, OnItsWay, Accepting, Publishing
<1>7. Handed'
  <2>1. Published(Job)' /\ history'[Job'] = worker'.captured
    BY <1>3 DEF IInv, Handed, Published
  <2>2. Ws \in Workspaces
    BY OnAcceptance
  <2>3. worker'.pc = "project" => Accepted(Ws, worker.captured)' \/ AnotherIsFrozen'
    BY <1>3, <2>2 DEF Accepted, AnotherIsFrozen
  <2>4. worker'.pc = "finish" => Accepted(Ws, worker.captured)' /\ projection'[Ws'] = worker'.captured
    BY <1>3 DEF Accepted
  <2> QED
    BY <1>3, <2>1, <2>3, <2>4 DEF Handed
<1>8. SuccessIsAccepted'
  <2> SUFFICES ASSUME NEW j \in JobIds, jobs[j].status = "SUCCEEDED"
               PROVE  /\ Published(j)
                      /\ store'[jobs[j].ws] = "FROZEN" /\ registry'[jobs[j].ws] = "FROZEN"
                      /\ package'[jobs[j].ws] = history[j] /\ projection'[jobs[j].ws] = history[j]
    BY DEF SuccessIsAccepted, Published
  <2>1. /\ Published(j) /\ Accepted(jobs[j].ws, history[j])
        /\ projection[jobs[j].ws] = history[j]
    BY DEF IInv, SuccessIsAccepted, Accepted
  <2>2. history[j] \in Selection /\ jobs[j].ws \in Workspaces
    BY <2>1 DEF IInv, Numbered, Used, Published, TypeOK
  <2> QED
    BY <2>1, <2>2
<1>9. Counted'
  <2>1. worker'.pc \notin Versioned
    BY DEF Versioned, Publishing, Accepting
  <2> QED
    BY <2>1, SameCount
<1> QED
  BY <1>1, <1>2, <1>4, <1>5, <1>6, <1>7, <1>8, <1>9 DEF IInv

(* A draft takes the package; a DataVersion that is frozen keeps the one   *)
(* it has.                                                                 *)
LEMMA AcceptDraftIInv ==
  ASSUME IInv, AcceptDraft PROVE IInv'
<1>1. /\ UNCHANGED <<database, files, server, jobs, control, request, budget>>
      /\ UNCHANGED <<store, registry, projection>> /\ worker.pc = "accept"
      /\ \/ /\ store[Ws] = "DRAFT" /\ worker' = [worker EXCEPT !.pc = "freeze"]
            /\ package' = [package EXCEPT ![Ws] = worker.captured]
         \/ /\ store[Ws] # "DRAFT" /\ worker' = [worker EXCEPT !.pc = "project"]
            /\ UNCHANGED package
  BY DEF AcceptDraft, At, Goto
<1>2. worker.pc \in Accepting
  BY <1>1 DEF Accepting
<1>3. /\ worker \in WorkerRecords /\ Ws \in Workspaces /\ worker.captured \in Selection
      /\ worker.captured # NoSelection
  BY <1>2, OnAcceptance DEF Selection, NoSelection
<1>4. /\ worker' \in WorkerRecords /\ worker'.job = worker.job
      /\ worker'.captured = worker.captured /\ worker'.pc \in {"freeze", "project"}
      /\ worker'.pc = "freeze" <=> store[Ws] = "DRAFT"
  BY <1>1, <1>3 DEF WorkerRecords, Accepting
<1>5. /\ package' \in [Workspaces -> Selection \cup {NoSelection}]
      /\ store[Ws] = "DRAFT" => package'[Ws] = worker.captured
      /\ store[Ws] # "DRAFT" => package' = package
      /\ \A ws \in Workspaces : ws # Ws => package'[ws] = package[ws]
  BY <1>1, <1>3 DEF IInv, TypeOK
<1>6. /\ store' \in [Workspaces -> {"DRAFT", "FROZEN"}]
      /\ registry' \in [Workspaces -> {"DRAFT", "FROZEN"}]
      /\ projection' \in [Workspaces -> Selection \cup {NoSelection}]
  BY <1>1 DEF IInv, TypeOK
<1>7. \A ws \in Workspaces : store[ws] = "FROZEN" => package'[ws] = package[ws]
  BY <1>5
<1>8. \A ws \in Workspaces : store'[ws] = "FROZEN" =>
        \E j \in PublishedOf(ws) : package'[ws] = history[j]
  BY <1>1, <1>7 DEF IInv, Named
<1>9. \A ws \in Workspaces : \A s \in Selection :
        Accepted(ws, s) /\ projection[ws] = s =>
          store'[ws] = "FROZEN" /\ registry'[ws] = "FROZEN"
          /\ package'[ws] = s /\ projection'[ws] = s
  BY <1>1, <1>7 DEF Accepted
<1>10. worker'.pc = "project" => \E j \in PublishedOf(Ws) : j # Job /\ package'[Ws] = history[j]
  <2> SUFFICES ASSUME store[Ws] # "DRAFT"
               PROVE  \E j \in PublishedOf(Ws) : j # Job /\ package'[Ws] = history[j]
    BY <1>4
  <2>1. store[Ws] = "FROZEN"
    BY <1>3 DEF IInv, TypeOK
  <2> QED
    BY <1>1, <1>5, <2>1 DEF IInv, Handed, AnotherIsFrozen
<1>11. worker'.pc \in {"freeze", "register"} => package'[Ws] = worker.captured
  BY <1>4, <1>5
<1>12. /\ worker'.pc \in Accepting \cup {"finish"} /\ worker'.pc # "accept"
       /\ worker'.pc # "register" /\ worker'.pc # "finish"
  BY <1>4 DEF Accepting
<1> QED
  BY <1>1, <1>2, <1>4, <1>5, <1>6, <1>8, <1>9, <1>10, <1>11, <1>12, AcceptanceIInv

(* The DataVersion's own store is frozen first ...                         *)
LEMMA FreezeStoreIInv ==
  ASSUME IInv, FreezeStore PROVE IInv'
<1>1. /\ UNCHANGED <<database, files, server, jobs, control, request, budget>>
      /\ UNCHANGED <<package, registry, projection>> /\ worker.pc = "freeze"
      /\ worker' = [worker EXCEPT !.pc = "register"]
      /\ store' = [store EXCEPT ![Ws] = "FROZEN"]
  BY DEF FreezeStore, At, Goto
<1>2. worker.pc \in Accepting
  BY <1>1 DEF Accepting
<1>3. /\ worker \in WorkerRecords /\ Ws \in Workspaces /\ Job \in PublishedOf(Ws)
      /\ history[Job] = worker.captured
  BY <1>2, OnAcceptance
<1>4. /\ worker' \in WorkerRecords /\ worker'.job = worker.job
      /\ worker'.captured = worker.captured /\ worker'.pc = "register"
  BY <1>1, <1>3 DEF WorkerRecords, Accepting
<1>5. package[Ws] = worker.captured
  BY <1>1 DEF IInv, Handed
<1>6. /\ store' \in [Workspaces -> {"DRAFT", "FROZEN"}] /\ store'[Ws] = "FROZEN"
      /\ \A ws \in Workspaces : ws # Ws => store'[ws] = store[ws]
      /\ registry' \in [Workspaces -> {"DRAFT", "FROZEN"}]
      /\ package' \in [Workspaces -> Selection \cup {NoSelection}]
      /\ projection' \in [Workspaces -> Selection \cup {NoSelection}]
  BY <1>1, <1>3 DEF IInv, TypeOK
<1>7. \A ws \in Workspaces : store'[ws] = "FROZEN" =>
        \E j \in PublishedOf(ws) : package'[ws] = history[j]
  BY <1>1, <1>3, <1>5, <1>6 DEF IInv, Named
<1>8. \A ws \in Workspaces : \A s \in Selection :
        Accepted(ws, s) /\ projection[ws] = s =>
          store'[ws] = "FROZEN" /\ registry'[ws] = "FROZEN"
          /\ package'[ws] = s /\ projection'[ws] = s
  BY <1>1, <1>6 DEF Accepted
<1>9. /\ worker'.pc \in Accepting \cup {"finish"} /\ worker'.pc # "accept"
      /\ worker'.pc # "project" /\ worker'.pc # "finish"
  BY <1>4 DEF Accepting
<1>10. package'[Ws] = worker.captured
  BY <1>1, <1>5
<1> QED
  BY <1>1, <1>2, <1>4, <1>6, <1>7, <1>8, <1>9, <1>10, AcceptanceIInv

(* ... and then the registry says so.                                      *)
LEMMA FreezeRegistryIInv ==
  ASSUME IInv, FreezeRegistry PROVE IInv'
<1>1. /\ UNCHANGED <<database, files, server, jobs, control, request, budget>>
      /\ UNCHANGED <<store, package, projection>> /\ worker.pc = "register"
      /\ worker' = [worker EXCEPT !.pc = "project"]
      /\ registry' = [registry EXCEPT ![Ws] = "FROZEN"]
  BY DEF FreezeRegistry, At, Goto
<1>2. worker.pc \in Accepting
  BY <1>1 DEF Accepting
<1>3. worker \in WorkerRecords /\ Ws \in Workspaces
  BY <1>2, OnAcceptance
<1>4. /\ worker' \in WorkerRecords /\ worker'.job = worker.job
      /\ worker'.captured = worker.captured /\ worker'.pc = "project"
  BY <1>1, <1>3 DEF WorkerRecords, Accepting
<1>5. package[Ws] = worker.captured /\ store[Ws] = "FROZEN"
  BY <1>1 DEF IInv, Handed
<1>6. /\ registry' \in [Workspaces -> {"DRAFT", "FROZEN"}] /\ registry'[Ws] = "FROZEN"
      /\ \A ws \in Workspaces : ws # Ws => registry'[ws] = registry[ws]
      /\ store' \in [Workspaces -> {"DRAFT", "FROZEN"}]
      /\ package' \in [Workspaces -> Selection \cup {NoSelection}]
      /\ projection' \in [Workspaces -> Selection \cup {NoSelection}]
  BY <1>1, <1>3 DEF IInv, TypeOK
<1>7. \A ws \in Workspaces : store'[ws] = "FROZEN" =>
        \E j \in PublishedOf(ws) : package'[ws] = history[j]
  BY <1>1 DEF IInv, Named
<1>8. \A ws \in Workspaces : \A s \in Selection :
        Accepted(ws, s) /\ projection[ws] = s =>
          store'[ws] = "FROZEN" /\ registry'[ws] = "FROZEN"
          /\ package'[ws] = s /\ projection'[ws] = s
  BY <1>1, <1>6 DEF Accepted
<1>9. /\ worker'.pc \in Accepting \cup {"finish"} /\ worker'.pc # "accept"
      /\ worker'.pc \notin {"freeze", "register"} /\ worker'.pc # "finish"
  BY <1>4 DEF Accepting
<1>10. store'[Ws] = "FROZEN" /\ registry'[Ws] = "FROZEN" /\ package'[Ws] = worker.captured
  BY <1>1, <1>5, <1>6
<1> QED
  BY <1>1, <1>2, <1>4, <1>6, <1>7, <1>8, <1>9, <1>10, AcceptanceIInv

(* Two captures of a Workspace differ in plan or version, so a package     *)
(* that matches this capture's is this capture's.                          *)
LEMMA ProjectIInv ==
  ASSUME IInv, Project PROVE IInv'
<1>1. /\ UNCHANGED <<database, files, server, jobs, control, request, budget>>
      /\ UNCHANGED <<store, package, registry>> /\ worker.pc = "project" /\ Matches
      /\ worker' = [worker EXCEPT !.pc = "finish"]
      /\ projection' = [projection EXCEPT ![Ws] = package[Ws]]
  BY DEF Project, At, Goto
<1>2. worker.pc \in Accepting
  BY <1>1 DEF Accepting
<1>3. /\ worker \in WorkerRecords /\ Ws \in Workspaces /\ Job \in PublishedOf(Ws)
      /\ history[Job] = worker.captured
  BY <1>2, OnAcceptance
<1>4. /\ worker' \in WorkerRecords /\ worker'.job = worker.job
      /\ worker'.captured = worker.captured /\ worker'.pc = "finish"
  BY <1>1, <1>3 DEF WorkerRecords
<1>5. Accepted(Ws, worker.captured)
  <2>1. Accepted(Ws, worker.captured) \/ AnotherIsFrozen
    BY <1>1 DEF IInv, Handed
  <2>2. ~AnotherIsFrozen
    <3> SUFFICES ASSUME NEW j \in PublishedOf(Ws), j # Job, package[Ws] = history[j]
                 PROVE  FALSE
      BY DEF AnotherIsFrozen
    <3>1. history[j].plan = history[Job].plan /\ history[j].version = history[Job].version
      BY <1>1, <1>3 DEF Matches
    <3>2. PICK w \in Workspaces : w = Ws
      BY <1>3
    <3> QED
      BY <1>3, <3>1, <3>2 DEF IInv, PublishedOnce
  <2> QED
    BY <2>1, <2>2
<1>6. /\ projection' \in [Workspaces -> Selection \cup {NoSelection}]
      /\ projection'[Ws] = package[Ws]
      /\ \A ws \in Workspaces : ws # Ws => projection'[ws] = projection[ws]
      /\ store' \in [Workspaces -> {"DRAFT", "FROZEN"}]
      /\ registry' \in [Workspaces -> {"DRAFT", "FROZEN"}]
      /\ package' \in [Workspaces -> Selection \cup {NoSelection}]
  BY <1>1, <1>3 DEF IInv, TypeOK
<1>7. \A ws \in Workspaces : store'[ws] = "FROZEN" =>
        \E j \in PublishedOf(ws) : package'[ws] = history[j]
  BY <1>1 DEF IInv, Named
<1>8. \A ws \in Workspaces : \A s \in Selection :
        Accepted(ws, s) /\ projection[ws] = s =>
          store'[ws] = "FROZEN" /\ registry'[ws] = "FROZEN"
          /\ package'[ws] = s /\ projection'[ws] = s
  BY <1>1, <1>6 DEF Accepted
<1>9. /\ worker'.pc \in Accepting \cup {"finish"} /\ worker'.pc # "accept"
      /\ worker'.pc \notin {"freeze", "register"} /\ worker'.pc # "project"
  BY <1>4 DEF Accepting
<1>10. /\ store'[Ws] = "FROZEN" /\ registry'[Ws] = "FROZEN"
       /\ package'[Ws] = worker.captured /\ projection'[Ws] = worker.captured
  BY <1>1, <1>5, <1>6 DEF Accepted
<1> QED
  BY <1>1, <1>2, <1>4, <1>6, <1>7, <1>8, <1>9, <1>10, AcceptanceIInv

---------------------------------------------------------------------------
LEMMA NextIInv == IInv /\ [Next]_vars => IInv'
<1>1. ASSUME IInv, Next PROVE IInv'
  <2>1. CASE Work
    <3>1. CASE Take \/ Leave \/ Recover \/ WriteCandidates \/ Bind \/ Commit
      BY <1>1, <3>1, TakeIInv, LeaveIInv, RecoverIInv, WriteCandidatesIInv, BindIInv, CommitIInv
    <3>2. CASE (\E c \in Contents : Read(c)) \/ (\E m \in Models : PublishValues(m) \/ Rename(m))
      BY <1>1, <3>2, ReadIInv, PublishValuesIInv, RenameIInv
    <3>3. CASE AcceptDraft \/ FreezeStore \/ FreezeRegistry \/ Project
      BY <1>1, <3>3, AcceptDraftIInv, FreezeStoreIInv, FreezeRegistryIInv, ProjectIInv
    <3>4. CASE Finish \/ Fails \/ Stopped \/ Pop
      BY <1>1, <3>4, FinishIInv, FailsIInv, StoppedIInv, PopIInv
    <3> QED
      BY <2>1, <3>1, <3>2, <3>3, <3>4 DEF Work
  <2>2. CASE Exit \/ Crash
    <3>1. Gone /\ crashes' \in Nat
      BY <1>1, <2>2 DEF Exit, Crash, IInv, TypeOK
    <3> QED
      BY <1>1, <3>1, GoneIInv
  <2>3. CASE \/ \E ws \in Workspaces : SavePlan(ws)
             \/ \E r \in Requests, ws \in Workspaces : Prepare(r, ws)
             \/ \E r \in Requests : Enqueue(r)
             \/ \E j \in JobIds : Cancel(j)
    BY <1>1, <2>3, SavePlanIInv, PrepareIInv, EnqueueIInv, CancelIInv
  <2>4. CASE Shutdown \/ Start
    BY <1>1, <2>4, ShutdownIInv, StartIInv
  <2> QED
    BY <1>1, <2>1, <2>2, <2>3, <2>4 DEF Next
<1>2. ASSUME IInv, UNCHANGED vars PROVE IInv'
  <2>1. /\ UNCHANGED <<database, files, accepted, server, jobs, pending, events, cancelled>>
        /\ UNCHANGED <<worker, request, crashes, faults>>
    BY <1>2 DEF vars, control, budget
  <2>2. TypeOK'
    BY <1>2, <2>1 DEF IInv, TypeOK, database, files, accepted
  <2>3. Numbered' /\ Held'
    BY <1>2, <2>1 DEF IInv, Numbered, Used, Held, OneCapture, OnceEach, JobIds, Job
  <2>4. \A j \in JobIds : JobStep(j)
    BY <2>1 DEF JobStep
  <2> QED
    BY <1>2, <2>1, <2>2, <2>3, <2>4, ControlIInv
<1> QED
  BY <1>1, <1>2

(* The invariant holds of every state.                                     *)
LEMMA Invariance == Spec => []IInv
BY InitIInv, NextIInv, PTL DEF Spec

(* The files are those the databases name: a clean-up, a failure or a      *)
(* crash at any step takes none that is published and the next capture     *)
(* starts from nothing (publish_complete_captures, commit_publication,     *)
(* recover_incomplete_publications).                                       *)
THEOREM FilesStayMatched == Spec => []FilesMatch
<1>1. IInv => FilesMatch
  <2> SUFFICES ASSUME IInv PROVE FilesMatch
    OBVIOUS
  <2> USE DEF IInv
  <2>1. CurrentHasFiles
    <3> SUFFICES ASSUME NEW ws \in Workspaces, current[ws] # 0
                 PROVE  /\ {current[ws]} \X Models \subseteq provenance
                        /\ {ws} \X {history[current[ws]]} \X Models \subseteq values
      BY DEF CurrentHasFiles
    <3>1. current[ws] \in JobIds /\ Published(current[ws]) /\ jobs[current[ws]].ws = ws
      BY DEF Named, PublishedOf
    <3>2. Kept(current[ws])
      BY <3>1 DEF PublishedOnce
    <3> QED
      BY <3>1, <3>2 DEF Kept
  <2>2. FrozenHasFiles
    <3> SUFFICES ASSUME NEW ws \in Workspaces, store[ws] = "FROZEN"
                 PROVE  {ws} \X {package[ws]} \X Models \subseteq values
      BY DEF FrozenHasFiles
    <3>1. PICK j \in PublishedOf(ws) : package[ws] = history[j]
      BY DEF Named
    <3>2. Kept(j) /\ jobs[j].ws = ws
      BY DEF PublishedOnce, PublishedOf
    <3> QED
      BY <3>1, <3>2 DEF Kept
  <2> QED
    BY <2>1, <2>2 DEF FilesMatch
<1> QED
  BY <1>1, Invariance, PTL

(* A capture that is shown as cancelled published nothing: nobody looks at *)
(* the cancellation after the transaction has begun (_run, shutdown).      *)
THEOREM CancelledStaysClean == Spec => []CancelledIsClean
<1>1. IInv => CancelledIsClean
  BY DEF IInv, PublishedOnce, CancelledIsClean
<1> QED
  BY <1>1, Invariance, PTL

(* A capture that is shown as complete is the one the DataVersion accepted *)
(* in its store, in the registry and in the projection                     *)
(* (accept_odoo_capture, _materialize_projection, _run).                   *)
THEOREM SuccessStaysAccepted == Spec => []SuccessIsAccepted
<1>1. IInv => SuccessIsAccepted
  BY DEF IInv
<1> QED
  BY <1>1, Invariance, PTL

(* A capture that is active is the worker's or waits for it once, its      *)
(* Workspace has no other, and it can be cancelled (enqueue, cancel, _run, *)
(* shutdown).                                                              *)
THEOREM ActiveStaysOwned == Spec => []ActiveIsOwned
<1>1. IInv => ActiveIsOwned
  <2> SUFFICES ASSUME IInv PROVE ActiveIsOwned
    OBVIOUS
  <2> USE DEF IInv
  <2>1. ASSUME NEW j \in JobIds, jobs[j].status = "QUEUED"
        PROVE  Cardinality({i \in DOMAIN pending : pending[i] = j}) = 1
    <3>1. PICK i \in DOMAIN pending : pending[i] = j
      BY <2>1 DEF Held, ToSet
    <3>2. {k \in DOMAIN pending : pending[k] = j} = {i}
      BY <3>1 DEF Held, OnceEach
    <3> QED
      BY <3>2, FS_Singleton
  <2> QED
    BY <2>1 DEF ActiveIsOwned, Held, Active
<1> QED
  BY <1>1, Invariance, PTL
=============================================================================
