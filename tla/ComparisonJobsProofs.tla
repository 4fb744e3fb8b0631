------------------------- MODULE ComparisonJobsProofs -------------------------
(***************************************************************************)
(* What a comparison leaves in the registry, the Workspace's database and  *)
(* the report files, for any operations, requests, edits, crashes and      *)
(* failed writes of the registry; and that it is an operation with an      *)
(* outcome that is final and true.                                         *)
(***************************************************************************)
EXTENDS ComparisonJobs, DataLemmas

(* An identity keeps its meaning, and a job is active only for an intent   *)
(* that is pending.                                                        *)
Recorded(o) ==
  /\ intent[o].state = "none" <=> intent[o] = NoIntent
  /\ intent[o].state # "none" => intent[o].hash # NoInput
  /\ intent[o].stage = "INTERRUPTED" => intent[o].state = "FAILED"
  /\ saved[o] # NoInput => intent[o].state # "none" /\ saved[o] = intent[o].hash
  /\ jobs[o] \in Active => IsPending(o)

(* Nothing is in memory before the first request is served.                *)
NothingInMemory ==
  /\ jobs = [o \in Operations |-> "none"] /\ pending = <<>> /\ scheduled = {}
  /\ worker = NoWork /\ request = [r \in Requests |-> Idle]

(* A pending operation that has saved its report will not be queued again, *)
(* until a restart has settled it.                                         *)
QueuedOnce ==
  /\ ToSet(pending) \subseteq scheduled
  /\ worker.pc \in Working => Mine \in scheduled
  /\ server \in {"serving", "stopping"} =>
       \A o \in Operations : IsPending(o) /\ saved[o] # NoInput => o \in scheduled

(* How far the worker is.                                                  *)
Underway ==
  /\ worker.pc \in Working => Mine \in Operations
  /\ worker.pc \in {"marked", "verify", "read", "save"} => saved[Mine] = NoInput
  /\ worker.pc \in {"read", "save"} => worker.frozen = intent[Mine].hash
  /\ worker.pc \in {"save", "receipt", "finish"} => Mine \in artifacts
  /\ worker.pc \in {"receipt", "finish"} => saved[Mine] # NoInput

CurrentIsSaved ==
  \A ws \in Workspaces : LET o == current[ws] IN o # None =>
    WorkspaceOf[o] = ws /\ saved[o] # NoInput

Asked(r) ==
  /\ request[r].pc # "idle" => request[r].op \in Operations
  /\ request[r].pc = "reserve" => request[r].hash # NoInput

IInv ==
  /\ WorkIsOwned /\ CurrentReportIsFresh /\ OutcomeIsTrue
  /\ \A ws \in Workspaces : input[ws].revision > 0
  /\ \A o \in Operations : Recorded(o)
  /\ server \in {"down", "starting"} => NothingInMemory
  /\ QueuedOnce /\ Underway /\ CurrentIsSaved
  /\ \A r \in Requests : Asked(r)

---------------------------------------------------------------------------
(* The queue holds operations.                                             *)
LEMMA QueueType ==
  ASSUME TypeOK PROVE ToSet(pending) \subseteq Operations
BY QueueElements DEF TypeOK

(* What an edited Workspace holds is never the absence of an input.        *)
LEMMA SomeInput ==
  ASSUME NEW x \in Input, x.revision > 0 PROVE x # NoInput
BY DEF Input, NoInput

(* Another input, by an edit of the evidence.                              *)
LEMMA NewInput ==
  ASSUME NEW x \in Input
  PROVE  LET new == [x EXCEPT !.evidence = @ + 1, !.revision = @ + 1]
         IN  new \in Input /\ new.revision = x.revision + 1
<1>1. x.evidence + 1 \in Nat /\ x.revision + 1 \in Nat
  BY DEF Input
<1>2. ASSUME NEW y \in Input, NEW n \in Nat
      PROVE  /\ [y EXCEPT !.evidence = n] \in Input
             /\ [y EXCEPT !.revision = n] \in Input /\ [y EXCEPT !.revision = n].revision = n
  BY DEF Input
<1>3. [x EXCEPT !.evidence = @ + 1, !.revision = @ + 1]
        = [[x EXCEPT !.evidence = x.evidence + 1] EXCEPT !.revision = x.revision + 1]
  BY DEF Input
<1> QED
  BY <1>1, <1>2, <1>3

---------------------------------------------------------------------------
(* Before the first request.                                               *)
LEMMA InitIInv == Init => IInv
<1> SUFFICES ASSUME Init PROVE IInv
  OBVIOUS
<1> USE DEF Init, NoIntent, NoInput, Input, Idle, NoWork, Working, Active, IsPending, Peers
<1>1. TypeOK
  BY EmptyQueue DEF TypeOK
<1>2. WorkIsOwned
  BY <1>1, EmptyQueue DEF WorkIsOwned, OneComparison, OnceEach
<1>3. CurrentReportIsFresh /\ CurrentIsSaved
  BY DEF CurrentReportIsFresh, CurrentIsSaved
<1>4. OutcomeIsTrue
  BY NoneAssumption, PlacementAssumption DEF OutcomeIsTrue
<1>5. \A o \in Operations : Recorded(o)
  BY DEF Recorded
<1>6. QueuedOnce
  BY EmptyQueue DEF QueuedOnce
<1>7. Underway
  BY DEF Underway
<1> QED
  BY <1>2, <1>3, <1>4, <1>5, <1>6, <1>7 DEF IInv, NothingInMemory, Asked

(* An edit touches one Workspace's data, and its report.                   *)
LEMMA EditIInv ==
  ASSUME IInv, NEW ws \in Workspaces, Invalidate(ws) \/ Touch(ws) PROVE IInv'
<1> USE DEF IInv, WorkIsOwned, published, process, memory, budget, Mine
<1>1. /\ UNCHANGED <<saved, artifacts, intent, server, jobs, pending, scheduled, worker, request>>
      /\ UNCHANGED <<submits, crashes, faults>>
      /\ current' \in [Workspaces -> Operations \cup {None}]
      /\ \A x \in Workspaces \ {ws} : current'[x] = current[x]
  BY DEF Invalidate, Touch, TypeOK
<1>2. /\ input[ws].evidence \in Nat /\ input[ws].revision \in Nat
      /\ \A x \in Workspaces : input[x] \in Input /\ input[x].revision \in Nat
  BY DEF TypeOK, Input
<1>3. /\ input' \in [Workspaces -> Input]
      /\ input'[ws].revision = input[ws].revision + 1
      /\ \A x \in Workspaces \ {ws} : input'[x] = input[x]
      /\ \/ current'[ws] = None
         \/ current'[ws] = current[ws] /\ input'[ws].evidence = input[ws].evidence
  <2>1. CASE Invalidate(ws)
    <3> DEFINE new == [input[ws] EXCEPT !.evidence = @ + 1, !.revision = @ + 1]
    <3>1. new \in Input /\ new.revision = input[ws].revision + 1
      BY <1>2, NewInput
    <3>2. input' = [input EXCEPT ![ws] = new] /\ current'[ws] = None
      BY <2>1 DEF Invalidate, TypeOK
    <3> HIDE DEF new
    <3> QED
      BY <3>1, <3>2 DEF TypeOK
  <2>2. CASE Touch(ws)
    <3> DEFINE new == [input[ws] EXCEPT !.revision = @ + 1]
    <3>1. /\ new \in Input /\ new.revision = input[ws].revision + 1
          /\ new.evidence = input[ws].evidence
      BY <1>2 DEF Input
    <3>2. input' = [input EXCEPT ![ws] = new] /\ current' = current
      BY <2>2 DEF Touch, TypeOK, published
    <3> HIDE DEF new
    <3> QED
      BY <3>1, <3>2 DEF TypeOK
  <2> QED
    BY <2>1, <2>2
<1>4. \A x \in Workspaces : input'[x].revision > 0
  BY <1>2, <1>3
<1>5. TypeOK'
  BY <1>1, <1>3 DEF TypeOK
<1>6. WorkIsOwned'
  BY <1>1, <1>5 DEF OneComparison, IsPending
<1>7. CurrentReportIsFresh' /\ CurrentIsSaved'
  BY <1>1, <1>3 DEF CurrentReportIsFresh, CurrentIsSaved
<1>8. OutcomeIsTrue'
  BY <1>1, <1>3, NoneAssumption, PlacementAssumption DEF OutcomeIsTrue
<1>9. \A o \in Operations : Recorded(o)'
  BY <1>1 DEF Recorded, IsPending
<1>10. QueuedOnce' /\ Underway'
  BY <1>1 DEF QueuedOnce, Underway, IsPending
<1> QED
  BY <1>1, <1>4, <1>6, <1>7, <1>8, <1>9, <1>10 DEF NothingInMemory, Asked

(* Only a request changes.                                                 *)
LEMMA SubmitIInv ==
  ASSUME IInv, NEW r \in Requests, NEW o \in Operations, Submit(r, o) PROVE IInv'
<1> USE DEF IInv, WorkIsOwned, published, process, memory, budget, Mine
<1>1. /\ UNCHANGED <<input, current, saved, artifacts, intent, server, jobs, pending, scheduled, worker>>
      /\ UNCHANGED <<crashes, faults>> /\ submits' = submits + 1
      /\ server \in {"serving", "stopping"}
      /\ request' = [request EXCEPT ![r] = [pc |-> "reserve", op |-> o, hash |-> InputOf(o)]]
  BY DEF Submit
<1>2. InputOf(o) \in Input /\ InputOf(o) # NoInput
  BY PlacementAssumption, SomeInput DEF InputOf, TypeOK
<1>3. TypeOK'
  BY <1>1, <1>2 DEF TypeOK
<1>4. WorkIsOwned'
  BY <1>1, <1>3 DEF OneComparison, IsPending
<1>5. CurrentReportIsFresh' /\ CurrentIsSaved' /\ OutcomeIsTrue'
  BY <1>1 DEF CurrentReportIsFresh, CurrentIsSaved, OutcomeIsTrue
<1>6. \A p \in Operations : Recorded(p)'
  BY <1>1 DEF Recorded, IsPending
<1>7. QueuedOnce' /\ Underway'
  BY <1>1 DEF QueuedOnce, Underway, IsPending
<1>8. \A q \in Requests : Asked(q)'
  BY <1>1, <1>2 DEF Asked, TypeOK
<1> QED
  BY <1>1, <1>4, <1>5, <1>6, <1>7, <1>8

(* An end of the server leaves what is durable; the next one starts from   *)
(* that alone.                                                             *)
LEMMA ForgetIInv ==
  ASSUME IInv, Exit \/ Crash PROVE IInv'
<1> USE DEF IInv, WorkIsOwned, published, process, memory, budget, Mine
<1>1. /\ UNCHANGED <<input, current, saved, artifacts, intent, submits, faults>>
      /\ server' = "down" /\ crashes' \in Nat
      /\ jobs' = [o \in Operations |-> "none"] /\ pending' = <<>> /\ scheduled' = {}
      /\ worker' = NoWork /\ request' = [r \in Requests |-> Idle]
  BY DEF Exit, Crash, Forget, TypeOK
<1>2. TypeOK'
  BY <1>1, EmptyQueue DEF TypeOK, NoWork, Idle, Input, NoInput
<1>3. WorkIsOwned'
  <2>1. OneComparison'
    BY <1>1 DEF OneComparison, IsPending, Active
  <2>2. worker'.pc \notin Working /\ ToSet(pending') = {}
    BY <1>1, EmptyQueue DEF Working, NoWork
  <2>3. \A i, j \in DOMAIN pending' : pending'[i] = pending'[j] => i = j
    BY <1>1
  <2> QED
    BY <1>2, <2>1, <2>2, <2>3
<1>4. CurrentReportIsFresh' /\ CurrentIsSaved' /\ OutcomeIsTrue'
  BY <1>1 DEF CurrentReportIsFresh, CurrentIsSaved, OutcomeIsTrue
<1>5. \A p \in Operations : Recorded(p)'
  BY <1>1 DEF Recorded, IsPending, Active
<1>6. QueuedOnce' /\ Underway'
  BY <1>1, EmptyQueue DEF QueuedOnce, Underway, Working, NoWork
<1>7. \A q \in Requests : Asked(q)'
  BY <1>1 DEF Asked, Idle
<1> QED
  BY <1>1, <1>3, <1>4, <1>5, <1>6, <1>7 DEF NothingInMemory

(* The server starts, and serves when nothing is pending.                  *)
LEMMA StartIInv ==
  ASSUME IInv, Start \/ Serve PROVE IInv'
<1> USE DEF IInv, WorkIsOwned, published, process, memory, budget, Mine
<1>1. /\ UNCHANGED <<input, current, saved, artifacts, intent, jobs, pending, scheduled, worker, request>>
      /\ UNCHANGED <<submits, crashes, faults>>
      /\ \/ server = "down" /\ server' = "starting"
         \/ server' = "serving" /\ \A o \in Operations : ~IsPending(o)
  BY DEF Start, Serve
<1>2. TypeOK'
  BY <1>1 DEF TypeOK
<1>3. WorkIsOwned'
  BY <1>1, <1>2 DEF OneComparison, IsPending
<1>4. CurrentReportIsFresh' /\ CurrentIsSaved' /\ OutcomeIsTrue'
  BY <1>1 DEF CurrentReportIsFresh, CurrentIsSaved, OutcomeIsTrue
<1>5. \A p \in Operations : Recorded(p)'
  BY <1>1 DEF Recorded, IsPending
<1>6. QueuedOnce' /\ Underway'
  BY <1>1 DEF QueuedOnce, Underway, IsPending
<1>7. \A q \in Requests : Asked(q)'
  BY <1>1 DEF Asked
<1> QED
  BY <1>1, <1>3, <1>4, <1>5, <1>6, <1>7 DEF NothingInMemory

Intents == [state : {"none", "PENDING", "COMMITTED", "FAILED"},
            stage : {"none", "QUEUED", "RUNNING", "COMPLETE", "FAILED", "STALE", "INTERRUPTED"},
            hash : Input]

(* A reservation is of an operation nobody asked for, or changes nothing   *)
(* of the intent.                                                          *)
LEMMA ReserveIInv ==
  ASSUME IInv, NEW r \in Requests, Reserve(r) PROVE IInv'
<1> USE DEF IInv, WorkIsOwned, published, process, memory, budget, Mine
<1> DEFINE o == request[r].op
           hash == request[r].hash
           new == IF intent[o] = NoIntent
                  THEN [state |-> "PENDING", stage |-> "QUEUED", hash |-> hash]
                  ELSE intent[o]
<1>1. /\ UNCHANGED <<input, current, saved, artifacts, server, pending, scheduled, worker>>
      /\ UNCHANGED <<submits, crashes, faults>>
      /\ o \in Operations /\ hash \in Input /\ hash # NoInput
  BY DEF Reserve, Asked, TypeOK
<1>2. CASE ~Reservable(o, hash)
  <2>1. UNCHANGED <<intent, jobs>> /\ request' = [request EXCEPT ![r] = Idle]
    BY <1>2 DEF Reserve, Give
  <2>2. TypeOK'
    BY <1>1, <2>1 DEF TypeOK, Idle, Input, NoInput
  <2>3. WorkIsOwned'
    BY <1>1, <2>1, <2>2 DEF OneComparison, IsPending
  <2>4. CurrentReportIsFresh' /\ CurrentIsSaved' /\ OutcomeIsTrue'
    BY <1>1, <2>1 DEF CurrentReportIsFresh, CurrentIsSaved, OutcomeIsTrue
  <2>5. \A p \in Operations : Recorded(p)'
    BY <1>1, <2>1 DEF Recorded, IsPending
  <2>6. QueuedOnce' /\ Underway'
    BY <1>1, <2>1 DEF QueuedOnce, Underway, IsPending
  <2>7. \A q \in Requests : Asked(q)'
    BY <1>1, <2>1 DEF Asked, TypeOK, Idle
  <2>8. NothingInMemory => NothingInMemory'
    BY <1>1, <2>1 DEF NothingInMemory
  <2> QED
    BY <1>1, <2>3, <2>4, <2>5, <2>6, <2>7, <2>8
<1>3. CASE Reservable(o, hash)
  <2>1. /\ server = "serving"
        /\ \A p \in Peers(o) \ {o} : jobs[p] \notin Active /\ ~IsPending(p)
        /\ intent' = [intent EXCEPT ![o] = new]
        /\ jobs' = [jobs EXCEPT ![o] = JobFromIntent(new)]
        /\ request' = [request EXCEPT ![r].pc = "enqueue"]
    BY <1>3 DEF Reserve, Reservable
  <2>2. /\ new \in Intents
        /\ new.state # "none" /\ new # NoIntent /\ new.hash # NoInput
        /\ \/ new = intent[o]
           \/ intent[o].state = "none" /\ new.state = "PENDING" /\ new.stage = "QUEUED"
    <3>1. CASE intent[o] = NoIntent
      BY <1>1, <3>1 DEF NoIntent, Intents
    <3>2. CASE intent[o] # NoIntent
      BY <1>1, <3>2 DEF TypeOK, Recorded, Intents
    <3> QED
      BY <3>1, <3>2
  <2> HIDE DEF new
  <2>3. /\ JobFromIntent(new) \in {"QUEUED", "RUNNING", "SUCCEEDED", "FAILED"}
        /\ JobFromIntent(new) \in Active => new.state = "PENDING"
    BY <2>2 DEF JobFromIntent, Active, Intents
  <2>4. /\ intent'[o] = new /\ \A p \in Operations \ {o} : intent'[p] = intent[p]
        /\ jobs'[o] = JobFromIntent(new) /\ \A p \in Operations \ {o} : jobs'[p] = jobs[p]
        /\ request'[r].op = o /\ request'[r].pc = "enqueue"
        /\ \A q \in Requests \ {r} : request'[q] = request[q]
    BY <1>1, <2>1 DEF TypeOK
  <2>5. TypeOK'
    <3>1. jobs' \in [Operations -> {"none", "QUEUED", "RUNNING", "SUCCEEDED", "FAILED"}]
      BY <2>1, <2>3 DEF TypeOK
    <3>2. request' \in [Requests -> [pc : {"idle", "reserve", "enqueue"},
                                    op : Operations \cup {None}, hash : Input]]
      BY <2>1 DEF TypeOK
    <3> QED
      BY <1>1, <2>1, <2>2, <3>1, <3>2 DEF TypeOK, Intents
  <2>6. \A p \in Operations : IsPending(p) => IsPending(p)'
    BY <2>2, <2>4 DEF IsPending
  <2>7. OneComparison'
    BY <2>1, <2>3, <2>4 DEF OneComparison, IsPending, Peers
  <2>8. WorkIsOwned'
    BY <1>1, <2>5, <2>6, <2>7, QueueType DEF Underway
  <2>9. saved[o] # NoInput => new = intent[o]
    BY <1>1, <2>2 DEF Recorded
  <2>10. CurrentReportIsFresh' /\ CurrentIsSaved' /\ OutcomeIsTrue'
    <3>1. \A p \in Operations : saved[p] # NoInput => intent'[p] = intent[p]
      BY <2>4, <2>9
    <3>2. CurrentIsSaved'
      BY <1>1 DEF CurrentIsSaved
    <3>3. CurrentReportIsFresh'
      BY <1>1, <3>1 DEF CurrentReportIsFresh, CurrentIsSaved, TypeOK
    <3>4. OutcomeIsTrue'
      BY <1>1, <2>2, <2>4 DEF OutcomeIsTrue
    <3> QED
      BY <3>2, <3>3, <3>4
  <2>11. \A p \in Operations : Recorded(p)'
    BY <1>1, <2>2, <2>3, <2>4, <2>9 DEF Recorded, IsPending
  <2>12. QueuedOnce'
    BY <1>1, <2>1, <2>4, <2>9 DEF QueuedOnce, IsPending
  <2>13. Underway'
    BY <1>1, <2>2, <2>4 DEF Underway, IsPending, Working
  <2>14. \A q \in Requests : Asked(q)'
    BY <1>1, <2>4 DEF Asked
  <2> QED
    BY <1>1, <2>1, <2>8, <2>10, <2>11, <2>12, <2>13, <2>14
<1> QED
  BY <1>2, <1>3

(* A stage is written only over that of a pending intent.                  *)
LEMMA StageChange ==
  ASSUME TypeOK, NEW o \in Operations, IsPending(o), NEW s \in {"QUEUED", "RUNNING"},
         intent' = [intent EXCEPT ![o].stage = IF IsPending(o) THEN s ELSE @]
  PROVE  /\ intent' \in [Operations -> Intents]
         /\ intent'[o].state = intent[o].state /\ intent'[o].hash = intent[o].hash
         /\ \A p \in Operations : p # o => intent'[p] = intent[p]
         /\ intent'[o].stage = s
<1> DEFINE new == [intent[o] EXCEPT !.stage = s]
<1>1. /\ new \in Intents /\ new.stage = s
      /\ new.state = intent[o].state /\ new.hash = intent[o].hash
  BY DEF TypeOK, Intents
<1>2. intent' = [intent EXCEPT ![o] = new]
  BY DEF TypeOK
<1> HIDE DEF new
<1> QED
  BY <1>1, <1>2 DEF TypeOK, Intents

(* What is queued is pending, has published nothing and is not queued      *)
(* already.                                                                *)
LEMMA EnqueueIInv ==
  ASSUME IInv, NEW r \in Requests, Enqueue(r) PROVE IInv'
<1> USE DEF IInv, WorkIsOwned, published, process, memory, budget, Mine
<1> DEFINE o == request[r].op
<1>1. /\ UNCHANGED <<input, current, saved, artifacts, server, jobs, submits, crashes>>
      /\ request' = [request EXCEPT ![r] = Idle]
      /\ o \in Operations
  BY DEF Enqueue, Asked, Give
<1>2. \A q \in Requests : Asked(q)'
  BY <1>1 DEF Asked, TypeOK, Idle
<1>3. request' \in [Requests -> [pc : {"idle", "reserve", "enqueue"},
                                op : Operations \cup {None}, hash : Input]]
  BY <1>1 DEF TypeOK, Idle, Input, NoInput
<1>4. CASE UNCHANGED <<intent, pending, scheduled, worker, faults>>
  <2>1. TypeOK'
    BY <1>1, <1>3, <1>4 DEF TypeOK
  <2>2. WorkIsOwned'
    BY <1>1, <1>4, <2>1 DEF OneComparison, IsPending
  <2>3. CurrentReportIsFresh' /\ CurrentIsSaved' /\ OutcomeIsTrue'
    BY <1>1, <1>4 DEF CurrentReportIsFresh, CurrentIsSaved, OutcomeIsTrue
  <2>4. \A p \in Operations : Recorded(p)'
    BY <1>1, <1>4 DEF Recorded, IsPending
  <2>5. QueuedOnce' /\ Underway'
    BY <1>1, <1>4 DEF QueuedOnce, Underway, IsPending
  <2>6. NothingInMemory => NothingInMemory'
    BY <1>1, <1>4 DEF NothingInMemory
  <2> QED
    BY <1>1, <1>2, <2>2, <2>3, <2>4, <2>5, <2>6
<1>5. CASE /\ server = "serving" /\ jobs[o] \in Active /\ o \notin scheduled
           /\ pending' = Append(pending, o)
           /\ scheduled' = scheduled \cup {o}
           /\ \/ /\ intent' = [intent EXCEPT ![o].stage = IF IsPending(o) THEN "QUEUED" ELSE @]
                 /\ worker' = Notified
                 /\ NoFault
              \/ Fault /\ UNCHANGED <<intent, worker>>
  <2>1. IsPending(o) /\ saved[o] = NoInput /\ o \notin ToSet(pending)
    BY <1>1, <1>5 DEF Recorded, QueuedOnce
  <2>2. /\ pending' \in Seq(Operations) /\ ToSet(pending') = ToSet(pending) \cup {o}
        /\ OnceEach(pending')
    <3>1. pending \in Seq(Operations) /\ OnceEach(pending)
      BY DEF TypeOK, OnceEach
    <3> QED
      BY <1>1, <1>5, <2>1, <3>1, AppendQueue
  <2>3. /\ intent' \in [Operations -> Intents]
        /\ \A p \in Operations : intent'[p].state = intent[p].state /\ intent'[p].hash = intent[p].hash
        /\ \A p \in Operations : p # o => intent'[p] = intent[p]
        /\ intent'[o] = intent[o] \/ intent'[o].stage = "QUEUED"
    <3>1. CASE UNCHANGED intent
      BY <3>1 DEF TypeOK, Intents
    <3>2. CASE intent' = [intent EXCEPT ![o].stage = IF IsPending(o) THEN "QUEUED" ELSE @]
      BY <1>1, <2>1, <3>2, StageChange
    <3> QED
      BY <1>5, <3>1, <3>2
  <2>4. /\ worker' \in [pc : {"none", "waiting", "ready", "gone"} \cup Working,
                        op : Operations \cup {None}, frozen : Input]
        /\ worker' = worker \/ worker'.pc = "ready"
        /\ faults' \in Nat
    <3>1. worker' = worker \/ worker' = [worker EXCEPT !.pc = "ready"]
      BY <1>5 DEF Notified
    <3>2. faults' \in Nat
      BY <1>5 DEF TypeOK, Fault, NoFault
    <3> QED
      BY <3>1, <3>2 DEF TypeOK
  <2>5. TypeOK'
    BY <1>1, <1>3, <1>5, <2>2, <2>3, <2>4 DEF TypeOK, Intents
  <2>6. OneComparison'
    BY <1>1, <2>3 DEF OneComparison, IsPending, Peers
  <2>7. worker'.pc \in Working => worker' = worker
    BY <2>4 DEF Working
  <2>8. worker'.pc \in Working => worker.op \in scheduled /\ worker.op # o
    BY <1>5, <2>7 DEF QueuedOnce
  <2>9. WorkIsOwned'
    <3>1. \A p \in ToSet(pending') : IsPending(p)' /\ saved'[p] = NoInput
      BY <1>1, <2>1, <2>2, <2>3, QueueType DEF IsPending
    <3>2. worker'.pc \in Working => IsPending(Mine)' /\ Mine' \notin ToSet(pending')
      BY <2>2, <2>3, <2>7, <2>8 DEF IsPending, Underway
    <3> QED
      BY <2>2, <2>5, <2>6, <3>1, <3>2 DEF OnceEach
  <2>10. CurrentReportIsFresh' /\ CurrentIsSaved' /\ OutcomeIsTrue'
    <3>1. CurrentReportIsFresh' /\ CurrentIsSaved'
      BY <1>1, <2>3 DEF CurrentReportIsFresh, CurrentIsSaved, TypeOK
    <3>2. OutcomeIsTrue'
      BY <1>1, <2>3 DEF OutcomeIsTrue
    <3> QED
      BY <3>1, <3>2
  <2>11. \A p \in Operations : Recorded(p)'
    <3> SUFFICES ASSUME NEW p \in Operations PROVE Recorded(p)'
      OBVIOUS
    <3>1. CASE p # o
      BY <1>1, <2>3, <3>1 DEF Recorded, IsPending
    <3>2. CASE p = o
      <4>1. intent'[o].state = "PENDING" /\ intent'[o].hash # NoInput /\ saved'[o] = NoInput
        BY <1>1, <2>1, <2>3 DEF IsPending, Recorded
      <4>2. intent'[o].stage # "INTERRUPTED" /\ intent'[o] # NoIntent
        BY <1>1, <2>1, <2>3, <4>1 DEF IsPending, Recorded, NoIntent
      <4> QED
        BY <3>2, <4>1, <4>2 DEF Recorded, IsPending
    <3> QED
      BY <3>1, <3>2
  <2>12. QueuedOnce'
    BY <1>1, <1>5, <2>2, <2>3, <2>7 DEF QueuedOnce, IsPending
  <2>13. Underway'
    BY <1>1, <2>3, <2>4, <2>7 DEF Underway, Working
  <2> QED
    BY <1>1, <1>2, <1>5, <2>9, <2>10, <2>11, <2>12, <2>13
<1> QED
  BY <1>4, <1>5 DEF Enqueue

(* Memory takes over from the registry what is active in neither.          *)
LEMMA PollIInv ==
  ASSUME IInv, NEW o \in Operations, Poll(o) PROVE IInv'
<1> USE DEF IInv, WorkIsOwned, published, process, memory, budget, Mine
<1> DEFINE job == JobFromIntent(intent[o])
<1>1. /\ UNCHANGED <<input, current, saved, artifacts, intent, server, pending, scheduled, worker, request>>
      /\ UNCHANGED <<submits, crashes, faults>>
      /\ server \in {"serving", "stopping"}
      /\ jobs' = [jobs EXCEPT ![o] = job]
  BY DEF Poll
<1>2. job \in {"QUEUED", "RUNNING", "SUCCEEDED", "FAILED"}
  BY DEF JobFromIntent
<1>3. intent[o] # NoIntent
  BY DEF Poll, Recorded, IsPending
<1>4. job \in Active => IsPending(o)
  BY <1>3 DEF JobFromIntent, Active, TypeOK, IsPending, Recorded
<1> HIDE DEF job
<1>5. TypeOK'
  BY <1>1, <1>2 DEF TypeOK
<1>6. \A p \in Operations : jobs'[p] \in Active => IsPending(p)
  BY <1>1, <1>4 DEF TypeOK, Recorded
<1>7. OneComparison'
  BY <1>1, <1>6 DEF OneComparison, IsPending, Peers
<1>8. WorkIsOwned'
  BY <1>1, <1>5, <1>7 DEF IsPending
<1>9. CurrentReportIsFresh' /\ CurrentIsSaved' /\ OutcomeIsTrue'
  BY <1>1 DEF CurrentReportIsFresh, CurrentIsSaved, OutcomeIsTrue
<1>10. \A p \in Operations : Recorded(p)'
  BY <1>1, <1>6 DEF Recorded, IsPending
<1>11. QueuedOnce' /\ Underway'
  BY <1>1 DEF QueuedOnce, Underway, IsPending
<1>12. \A q \in Requests : Asked(q)'
  BY <1>1 DEF Asked
<1> QED
  BY <1>1, <1>8, <1>9, <1>10, <1>11, <1>12

---------------------------------------------------------------------------
(* The worker.                                                             *)
Workers == [pc : {"none", "waiting", "ready", "gone"} \cup Working,
            op : Operations \cup {None}, frozen : Input]

(* A worker exists only in a server that serves or stops.                  *)
LEMMA WorkerServes ==
  ASSUME IInv, worker.pc # "none" PROVE server \notin {"down", "starting"}
BY DEF IInv, NothingInMemory, NoWork

(* The worker moves on, and files of an operation that has not published   *)
(* come or go.                                                             *)
LEMMA MoveIInv ==
  ASSUME IInv, worker.pc # "none", worker' \in Workers, worker'.op = worker.op,
         worker'.pc \in Working => worker.pc \in Working, Underway',
         UNCHANGED <<input, current, saved, intent, server, jobs, pending, scheduled, request, budget>>,
         artifacts' \subseteq Operations,
         \/ artifacts' = artifacts
         \/ /\ worker.pc \in Working /\ saved[worker.op] = NoInput
            /\ \A p \in artifacts : p # worker.op => p \in artifacts'
  PROVE  IInv'
<1> USE DEF IInv, WorkIsOwned, budget, Mine
<1>1. TypeOK'
  BY DEF TypeOK, Workers
<1>2. WorkIsOwned'
  BY <1>1 DEF OneComparison, IsPending
<1>3. \A p \in Operations : saved[p] # NoInput \/ ~IsPending(p) => (p \in artifacts => p \in artifacts')
  BY DEF IsPending
<1>4. CurrentReportIsFresh' /\ CurrentIsSaved'
  BY <1>3 DEF CurrentReportIsFresh, CurrentIsSaved, TypeOK
<1>5. OutcomeIsTrue'
  BY <1>3 DEF OutcomeIsTrue, IsPending
<1>6. \A p \in Operations : Recorded(p)'
  BY DEF Recorded, IsPending
<1>7. QueuedOnce'
  BY DEF QueuedOnce, IsPending
<1>8. \A q \in Requests : Asked(q)'
  BY DEF Asked
<1> QED
  BY <1>2, <1>4, <1>5, <1>6, <1>7, <1>8, WorkerServes

(* The worker that waits, leaves or compares.                              *)
LEMMA CompareIInv ==
  ASSUME IInv,
         \/ Wait \/ Leave \/ Verify \/ WriteReports
         \/ PublicationFails \/ Receipt \/ WorkFails
  PROVE  IInv'
<1> USE DEF At, Go, Mine, published, memory
<1>1. /\ UNCHANGED <<input, current, saved, intent, server, jobs, pending, scheduled, request, budget>>
      /\ worker.pc # "none"
  BY DEF Wait, Leave, Verify, WriteReports, PublicationFails, Receipt, WorkFails
<1>2. /\ worker \in Workers /\ Underway /\ TypeOK
      /\ worker.op \in Operations => InputOf(worker.op) \in Input
  BY PlacementAssumption DEF IInv, WorkIsOwned, TypeOK, Workers, InputOf
<1>3. CASE Wait \/ Leave
  <2>1. PICK pc \in {"waiting", "gone"} : worker' = [worker EXCEPT !.pc = pc]
    BY <1>3 DEF Wait, Leave
  <2>2. worker' \in Workers /\ worker'.op = worker.op /\ worker'.pc \in {"waiting", "gone"}
    BY <1>2, <2>1 DEF Workers
  <2>3. UNCHANGED artifacts /\ artifacts \subseteq Operations
    BY <1>2, <1>3 DEF Wait, Leave, TypeOK
  <2>4. worker'.pc \notin Working /\ Underway'
    BY <2>2 DEF Working, Underway
  <2> QED
    BY <1>1, <2>2, <2>3, <2>4, MoveIInv
<1>4. CASE Verify
  <2>1. /\ worker.pc = "verify" /\ UNCHANGED artifacts /\ artifacts \subseteq Operations
        /\ \/ worker' = [worker EXCEPT !.pc = "fail"]
           \/ /\ InputOf(worker.op) = intent[worker.op].hash
              /\ worker' = [worker EXCEPT !.pc = "read", !.frozen = InputOf(worker.op)]
    BY <1>2, <1>4 DEF Verify, TypeOK
  <2>2. worker.op \in Operations /\ worker.pc \in Working /\ saved[worker.op] = NoInput
    BY <1>2, <2>1 DEF Underway, Working
  <2>3. CASE worker' = [worker EXCEPT !.pc = "fail"]
    <3>1. worker' \in Workers /\ worker'.op = worker.op /\ worker'.pc = "fail"
      BY <1>2, <2>3 DEF Workers, Working
    <3>2. Underway'
      BY <2>2, <3>1 DEF Underway
    <3> QED
      BY <1>1, <2>1, <2>2, <3>1, <3>2, MoveIInv
  <2>4. CASE /\ InputOf(worker.op) = intent[worker.op].hash
             /\ worker' = [worker EXCEPT !.pc = "read", !.frozen = InputOf(worker.op)]
    <3>1. ASSUME NEW w \in Workers, NEW f \in Input
          PROVE  /\ [w EXCEPT !.pc = "read"] \in Workers /\ [w EXCEPT !.frozen = f] \in Workers
                 /\ [w EXCEPT !.pc = "read"].op = w.op /\ [w EXCEPT !.frozen = f].op = w.op
                 /\ [w EXCEPT !.pc = "read"].pc = "read" /\ [w EXCEPT !.frozen = f].pc = w.pc
                 /\ [w EXCEPT !.frozen = f].frozen = f
      BY DEF Workers, Working
    <3>2. worker' = [[worker EXCEPT !.pc = "read"] EXCEPT !.frozen = InputOf(worker.op)]
      BY <1>2, <2>4 DEF Workers
    <3>3. /\ worker' \in Workers /\ worker'.op = worker.op /\ worker'.pc = "read"
          /\ worker'.frozen = InputOf(worker.op)
      BY <1>2, <2>2, <3>1, <3>2
    <3>4. Underway'
      BY <1>1, <2>2, <2>4, <3>3 DEF Underway
    <3> QED
      BY <1>1, <2>1, <2>2, <3>3, <3>4, MoveIInv
  <2> QED
    BY <2>1, <2>3, <2>4
<1>5. CASE WriteReports \/ PublicationFails \/ Receipt \/ WorkFails
  <2>1. /\ worker.pc \in {"read", "save", "verify", "receipt"}
        /\ \E pc \in {"save", "finish", "fail"} : worker' = [worker EXCEPT !.pc = pc]
    BY <1>5 DEF WriteReports, PublicationFails, Receipt, WorkFails
  <2>2. PICK pc \in {"save", "finish", "fail"} : worker' = [worker EXCEPT !.pc = pc]
    BY <2>1
  <2>3. /\ worker' \in Workers /\ worker'.op = worker.op /\ worker'.pc = pc
        /\ worker'.frozen = worker.frozen
    BY <1>2, <2>2 DEF Workers, Working
  <2>4. worker.pc \in Working /\ worker.op \in Operations
    BY <1>2, <2>1 DEF Working, Underway
  <2>5. /\ artifacts' \subseteq Operations
        /\ \/ artifacts' = artifacts
           \/ /\ saved[worker.op] = NoInput
              /\ \A p \in artifacts : p # worker.op => p \in artifacts'
    BY <1>2, <1>5, <2>4 DEF WriteReports, PublicationFails, Receipt, WorkFails, TypeOK, Underway
  <2>6. /\ pc = "save" => worker.pc = "read" /\ worker.op \in artifacts'
        /\ pc = "finish" => worker.pc = "receipt" /\ worker.op \in artifacts'
    BY <1>2, <1>5, <2>2, <2>3 DEF WriteReports, PublicationFails, Receipt, WorkFails, Workers
  <2>7. Underway'
    BY <1>1, <1>2, <2>3, <2>4, <2>6 DEF Underway
  <2> QED
    BY <1>1, <2>3, <2>4, <2>5, <2>7, MoveIInv
<1> QED
  BY <1>3, <1>4, <1>5

(* The job that is taken is pending, has published nothing and is in the   *)
(* queue no more.                                                          *)
LEMMA TakeIInv ==
  ASSUME IInv, Take PROVE IInv'
<1> USE DEF IInv, WorkIsOwned, published, budget, Mine
<1> DEFINE o == Head(pending)
<1>1. /\ UNCHANGED <<input, current, saved, artifacts, intent, server, scheduled, request>>
      /\ UNCHANGED <<submits, crashes, faults>>
      /\ server = "serving" /\ pending # <<>> /\ pending' = Tail(pending)
      /\ worker' = [pc |-> "marked", op |-> o, frozen |-> NoInput]
      /\ jobs' = [jobs EXCEPT ![o] = "RUNNING"]
  BY DEF Take
<1>2. pending \in Seq(Operations) /\ OnceEach(pending)
  BY DEF TypeOK, OnceEach
<1>3. /\ o \in Operations /\ o \in ToSet(pending) /\ pending' \in Seq(Operations)
      /\ ToSet(pending') \subseteq ToSet(pending) /\ OnceEach(pending') /\ o \notin ToSet(pending')
  BY <1>1, <1>2, TailQueue
<1> HIDE DEF o
<1>4. IsPending(o) /\ saved[o] = NoInput /\ o \in scheduled
  BY <1>3 DEF QueuedOnce
<1>5. TypeOK'
  <2>1. worker' \in Workers
    BY <1>1, <1>3 DEF Workers, Working, Input, NoInput
  <2> QED
    BY <1>1, <1>3, <2>1 DEF TypeOK, Workers
<1>6. \A p \in Operations : jobs'[p] \in Active => IsPending(p)
  BY <1>1, <1>3, <1>4 DEF TypeOK, Recorded
<1>7. OneComparison'
  BY <1>1, <1>6 DEF OneComparison, IsPending, Peers
<1>8. WorkIsOwned'
  BY <1>1, <1>3, <1>4, <1>5, <1>7 DEF IsPending, OnceEach
<1>9. CurrentReportIsFresh' /\ CurrentIsSaved' /\ OutcomeIsTrue'
  BY <1>1 DEF CurrentReportIsFresh, CurrentIsSaved, OutcomeIsTrue
<1>10. \A p \in Operations : Recorded(p)'
  BY <1>1, <1>6 DEF Recorded, IsPending
<1>11. QueuedOnce' /\ Underway'
  BY <1>1, <1>3, <1>4 DEF QueuedOnce, Underway, IsPending
<1>12. \A q \in Requests : Asked(q)'
  BY <1>1 DEF Asked
<1> QED
  BY <1>1, <1>8, <1>9, <1>10, <1>11, <1>12

(* The registry is told of the comparison that runs.                       *)
LEMMA PersistRunningIInv ==
  ASSUME IInv, PersistRunning PROVE IInv'
<1> USE DEF IInv, WorkIsOwned, published, memory, budget, Mine, At, Go
<1> DEFINE o == worker.op
<1>1. /\ UNCHANGED <<input, current, saved, artifacts, server, jobs, pending, scheduled, request>>
      /\ UNCHANGED <<submits, crashes>> /\ faults' \in Nat
      /\ worker.pc = "marked" /\ worker.pc \in Working
      /\ o \in Operations /\ IsPending(o) /\ o \notin ToSet(pending)
      /\ \E pc \in {"verify", "fail"} : worker' = [worker EXCEPT !.pc = pc]
  BY DEF PersistRunning, Working, Underway, Fault, NoFault, TypeOK
<1>2. /\ worker' \in Workers /\ worker'.op = o
      /\ worker'.pc \in {"verify", "fail"}
  BY <1>1 DEF TypeOK, Workers, Working
<1>3. /\ intent' \in [Operations -> Intents]
      /\ \A p \in Operations : intent'[p].state = intent[p].state /\ intent'[p].hash = intent[p].hash
      /\ \A p \in Operations : p # o => intent'[p] = intent[p]
      /\ intent'[o] = intent[o] \/ intent'[o].stage = "RUNNING"
  <2>1. CASE UNCHANGED intent
    BY <2>1 DEF TypeOK, Intents
  <2>2. CASE intent' = [intent EXCEPT ![o].stage = IF IsPending(o) THEN "RUNNING" ELSE @]
    BY <1>1, <2>2, StageChange
  <2> QED
    BY <2>1, <2>2 DEF PersistRunning
<1>4. TypeOK'
  BY <1>1, <1>2, <1>3 DEF TypeOK, Workers, Intents
<1>5. \A p \in Operations : IsPending(p)' <=> IsPending(p)
  BY <1>3 DEF IsPending
<1>6. OneComparison'
  BY <1>1, <1>5 DEF OneComparison, Peers
<1>7. WorkIsOwned'
  BY <1>1, <1>2, <1>4, <1>5, <1>6, QueueType DEF IsPending
<1>8. CurrentReportIsFresh' /\ CurrentIsSaved'
  BY <1>1, <1>3 DEF CurrentReportIsFresh, CurrentIsSaved, TypeOK
<1>9. OutcomeIsTrue'
  BY <1>1, <1>3 DEF OutcomeIsTrue
<1>10. \A p \in Operations : Recorded(p)'
  <2> SUFFICES ASSUME NEW p \in Operations PROVE Recorded(p)'
    OBVIOUS
  <2>1. CASE p # o
    BY <1>1, <1>3, <2>1 DEF Recorded, IsPending
  <2>2. CASE p = o
    <3>1. intent'[o].state = "PENDING" /\ intent'[o].hash # NoInput /\ saved'[o] = NoInput
      BY <1>1, <1>3 DEF IsPending, Recorded, Underway
    <3>2. intent'[o].stage # "INTERRUPTED" /\ intent'[o] # NoIntent
      BY <1>1, <1>3, <3>1 DEF IsPending, Recorded, NoIntent
    <3> QED
      BY <2>2, <3>1, <3>2 DEF Recorded, IsPending
  <2> QED
    BY <2>1, <2>2
<1>11. QueuedOnce'
  BY <1>1, <1>2, <1>5 DEF QueuedOnce
<1>12. Underway'
  BY <1>1, <1>2, <1>3 DEF Underway
<1>13. \A q \in Requests : Asked(q)'
  BY <1>1 DEF Asked
<1> QED
  BY <1>1, <1>7, <1>8, <1>9, <1>10, <1>11, <1>12, <1>13, WorkerServes

(* What is published is what was reserved, and the data has not moved.     *)
LEMMA SaveReportIInv ==
  ASSUME IInv, SaveReport PROVE IInv'
<1> USE DEF IInv, WorkIsOwned, memory, budget, Mine, At, Go
<1> DEFINE o == worker.op
           ws == WorkspaceOf[o]
<1>1. /\ UNCHANGED <<input, artifacts, intent, server, jobs, pending, scheduled, request>>
      /\ UNCHANGED <<submits, crashes, faults>>
      /\ worker.pc = "save" /\ worker.pc \in Working
      /\ o \in Operations /\ IsPending(o) /\ o \notin ToSet(pending) /\ o \in scheduled
      /\ saved[o] = NoInput /\ o \in artifacts
      /\ worker.frozen = intent[o].hash /\ input[ws] = intent[o].hash
      /\ saved' = [saved EXCEPT ![o] = intent[o].hash]
      /\ current' = [current EXCEPT ![ws] = o]
      /\ worker' = [worker EXCEPT !.pc = "receipt"]
  BY DEF SaveReport, Working, Underway, QueuedOnce, InputOf
<1>2. /\ ws \in Workspaces /\ intent[o].hash \in Input /\ intent[o].hash # NoInput
  BY <1>1, PlacementAssumption DEF TypeOK, Recorded, IsPending
<1>3. worker' \in Workers /\ worker'.op = o /\ worker'.pc = "receipt"
  BY <1>1 DEF TypeOK, Workers, Working
<1>4. /\ saved' \in [Operations -> Input] /\ saved'[o] = intent[o].hash
      /\ \A p \in Operations : p # o => saved'[p] = saved[p]
      /\ current' \in [Workspaces -> Operations \cup {None}] /\ current'[ws] = o
      /\ \A x \in Workspaces : x # ws => current'[x] = current[x]
  BY <1>1, <1>2 DEF TypeOK
<1>5. TypeOK'
  BY <1>1, <1>3, <1>4 DEF TypeOK, Workers
<1>6. WorkIsOwned'
  BY <1>1, <1>3, <1>4, <1>5, QueueType DEF OneComparison, IsPending
<1>7. CurrentIsSaved'
  BY <1>1, <1>2, <1>4, NoneAssumption DEF CurrentIsSaved, TypeOK
<1>8. CurrentReportIsFresh'
  <2> SUFFICES ASSUME NEW x \in Workspaces, current'[x] # None
               PROVE  LET p == current'[x] IN
                        /\ saved'[p].evidence = input'[x].evidence
                        /\ saved'[p] = intent'[p].hash /\ p \in artifacts'
    BY DEF CurrentReportIsFresh
  <2>1. CASE x = ws
    BY <1>1, <1>4, <2>1
  <2>2. CASE x # ws
    <3>1. current'[x] = current[x] /\ current[x] \in Operations /\ current[x] # o
      BY <1>1, <1>4, <2>2 DEF TypeOK, CurrentIsSaved
    <3> QED
      BY <1>1, <1>4, <3>1 DEF CurrentReportIsFresh
  <2> QED
    BY <2>1, <2>2
<1>9. OutcomeIsTrue'
  <2> SUFFICES ASSUME NEW p \in Operations
               PROVE  /\ intent'[p].state = "COMMITTED" => saved'[p] = intent'[p].hash /\ p \in artifacts'
                      /\ intent'[p].stage = "INTERRUPTED" => current'[WorkspaceOf[p]] # p
    BY DEF OutcomeIsTrue
  <2>1. CASE p = o
    BY <1>1, <2>1 DEF IsPending, Recorded
  <2>2. CASE p # o
    <3>1. WorkspaceOf[p] \in Workspaces
      BY PlacementAssumption
    <3> QED
      BY <1>1, <1>4, <2>2, <3>1 DEF OutcomeIsTrue
  <2> QED
    BY <2>1, <2>2
<1>10. \A p \in Operations : Recorded(p)'
  BY <1>1, <1>4 DEF Recorded, IsPending
<1>11. QueuedOnce'
  BY <1>1, <1>3, <1>4 DEF QueuedOnce, IsPending
<1>12. Underway'
  BY <1>1, <1>2, <1>3, <1>4 DEF Underway
<1>13. \A q \in Requests : Asked(q)'
  BY <1>1 DEF Asked
<1> QED
  BY <1>1, <1>6, <1>7, <1>8, <1>9, <1>10, <1>11, <1>12, <1>13, WorkerServes

---------------------------------------------------------------------------
(* Settling.  Whoever settles an operation settles one that is pending,    *)
(* that no worker has in hand afterwards and no queue holds, as committed  *)
(* only when its report is published.                                      *)
SettledTruly(o) ==
  /\ IsPending(o) /\ intent'[o].hash = intent[o].hash
  /\ intent'[o].state \in {"COMMITTED", "FAILED"}
  /\ intent'[o].state = "COMMITTED" => saved[o] # NoInput /\ o \in artifacts
  /\ intent'[o].stage = "INTERRUPTED" =>
       intent'[o].state = "FAILED" /\ current[WorkspaceOf[o]] # o

(* A settled operation keeps the invariant, whoever settles it.            *)
LEMMA SettleIInv ==
  ASSUME IInv, UNCHANGED <<input, published, scheduled, request>>,
         intent' \in [Operations -> Intents],
         jobs' \in [Operations -> {"none", "QUEUED", "RUNNING", "SUCCEEDED", "FAILED"}],
         worker' \in Workers, submits' \in Nat, crashes' \in Nat, faults' \in Nat,
         server' = server \/ (server = "serving" /\ server' = "stopping"),
         server \in {"down", "starting"} => UNCHANGED <<jobs, pending, worker>>,
         \A o \in Operations : intent'[o] = intent[o] \/ SettledTruly(o),
         \A o \in Operations :
           jobs'[o] \in Active => jobs[o] \in Active /\ intent'[o] = intent[o],
         pending' = pending \/ pending' = <<>>,
         \A o \in ToSet(pending') : intent'[o] = intent[o],
         worker'.pc \in Working => UNCHANGED worker /\ intent'[worker.op] = intent[worker.op]
  PROVE  IInv'
<1> USE DEF IInv, WorkIsOwned, published, Mine
<1>1. pending' \in Seq(Operations) /\ ToSet(pending') \subseteq ToSet(pending) /\ OnceEach(pending')
  <2>1. pending \in Seq(Operations) /\ OnceEach(pending)
    BY DEF TypeOK, OnceEach
  <2>2. <<>> \in Seq(Operations) /\ ToSet(<<>>) = {} /\ OnceEach(<<>>)
    BY EmptyQueue
  <2> QED
    BY <2>1, <2>2
<1>2. TypeOK'
  BY <1>1 DEF TypeOK, Workers, Intents
<1>3. \A o \in Operations : IsPending(o)' => IsPending(o)
  BY DEF IsPending, SettledTruly
<1>4. \A o \in Operations :
        /\ intent'[o].hash = intent[o].hash
        /\ intent[o].state = "none" => intent'[o] = intent[o]
  BY DEF SettledTruly, IsPending
<1>5. OneComparison'
  BY <1>3 DEF OneComparison, Peers
<1>6. WorkIsOwned'
  <2>1. worker'.pc \in Working => IsPending(Mine)' /\ Mine' \notin ToSet(pending')
    BY <1>1 DEF IsPending
  <2>2. \A o \in ToSet(pending') : IsPending(o)' /\ saved'[o] = NoInput
    BY <1>1 DEF IsPending
  <2> QED
    BY <1>1, <1>2, <1>5, <2>1, <2>2 DEF OnceEach
<1>7. CurrentReportIsFresh' /\ CurrentIsSaved'
  BY <1>4 DEF CurrentReportIsFresh, CurrentIsSaved, TypeOK
<1>8. OutcomeIsTrue'
  <2> SUFFICES ASSUME NEW p \in Operations
               PROVE  /\ intent'[p].state = "COMMITTED" => saved'[p] = intent'[p].hash /\ p \in artifacts'
                      /\ intent'[p].stage = "INTERRUPTED" => current'[WorkspaceOf[p]] # p
    BY DEF OutcomeIsTrue
  <2>1. CASE intent'[p] = intent[p]
    BY <2>1 DEF OutcomeIsTrue
  <2>2. CASE SettledTruly(p)
    BY <2>2 DEF SettledTruly, Recorded
  <2> QED
    BY <2>1, <2>2
<1>9. \A o \in Operations : Recorded(o)'
  <2> SUFFICES ASSUME NEW o \in Operations PROVE Recorded(o)'
    OBVIOUS
  <2>1. CASE intent'[o] = intent[o]
    BY <2>1 DEF Recorded, IsPending
  <2>2. CASE SettledTruly(o) /\ intent'[o] # intent[o]
    <3>1. jobs'[o] \notin Active /\ intent'[o].state \in {"COMMITTED", "FAILED"} /\ intent'[o] # NoIntent
      BY <2>2 DEF SettledTruly, NoIntent
    <3>2. saved[o] # NoInput => saved'[o] = intent'[o].hash
      BY <1>4 DEF Recorded
    <3>3. intent'[o].stage = "INTERRUPTED" => intent'[o].state = "FAILED"
      BY <2>2 DEF SettledTruly
    <3>4. intent'[o].hash # NoInput
      BY <2>2, <1>4 DEF Recorded, SettledTruly, IsPending
    <3> QED
      BY <3>1, <3>2, <3>3, <3>4 DEF Recorded
  <2> QED
    BY <2>1, <2>2
<1>10. QueuedOnce'
  BY <1>1, <1>3 DEF QueuedOnce
<1>11. Underway'
  <2>1. CASE worker'.pc \in Working
    BY <1>4, <2>1 DEF Underway
  <2>2. CASE worker'.pc \notin Working
    BY <2>2 DEF Underway, Working
  <2> QED
    BY <2>1, <2>2
<1>12. \A q \in Requests : Asked(q)'
  BY DEF Asked
<1>13. server' \in {"down", "starting"} => NothingInMemory'
  BY DEF NothingInMemory
<1> QED
  BY <1>6, <1>7, <1>8, <1>9, <1>10, <1>11, <1>12, <1>13

(* What Settled writes, where there is something to settle.                *)
LEMMA SettledIntent ==
  ASSUME NEW i \in Intents, NEW s \in {"COMMITTED", "FAILED"},
         NEW t \in {"COMPLETE", "FAILED", "STALE", "INTERRUPTED"}, i.state = "PENDING"
  PROVE  /\ Settled(i, s, t) \in Intents /\ Settled(i, s, t).hash = i.hash
         /\ Settled(i, s, t).state = s /\ Settled(i, s, t).stage = t
<1> DEFINE a == [i EXCEPT !.state = s]
           b == [a EXCEPT !.stage = t]
<1>1. a \in Intents /\ a.state = s /\ a.hash = i.hash
  BY DEF Intents
<1>2. Settled(i, s, t) = b
  BY DEF Settled, Intents
<1> HIDE DEF a
<1>3. b \in Intents /\ b.state = s /\ b.stage = t /\ b.hash = i.hash
  BY <1>1 DEF Intents
<1> QED
  BY <1>2, <1>3

(* The worker's own answer.                                                *)
LEMMA FinishSettles ==
  ASSUME IInv, FinishSucceeded \/ FinishFailed
  PROVE  /\ UNCHANGED published /\ worker.op \in Operations /\ worker.op \notin ToSet(pending)
         /\ intent' \in [Operations -> Intents]
         /\ \A p \in Operations : p # worker.op => intent'[p] = intent[p]
         /\ intent'[worker.op] = intent[worker.op] \/ SettledTruly(worker.op)
<1> USE DEF Mine, At
<1> DEFINE o == worker.op
<1>1. worker.pc \in {"finish", "fail"} /\ UNCHANGED published
  BY DEF FinishSucceeded, FinishFailed
<1>2. /\ o \in Operations /\ IsPending(o) /\ o \notin ToSet(pending)
      /\ worker.pc = "finish" => saved[o] # NoInput /\ o \in artifacts
  BY <1>1 DEF IInv, WorkIsOwned, Underway, Working
<1>3. intent \in [Operations -> Intents] /\ intent[o] \in Intents /\ intent[o].state = "PENDING"
  BY <1>2 DEF IInv, WorkIsOwned, TypeOK, Intents, IsPending
<1>4. CASE UNCHANGED intent
  BY <1>1, <1>2, <1>3, <1>4
<1>5. ASSUME NEW s \in {"COMMITTED", "FAILED"}, NEW t \in {"COMPLETE", "FAILED"},
             s = "COMMITTED" => worker.pc = "finish",
             intent' = [intent EXCEPT ![o] = Settled(@, s, t)]
      PROVE  /\ intent' \in [Operations -> Intents]
             /\ \A p \in Operations : p # o => intent'[p] = intent[p]
             /\ SettledTruly(o)
  <2> DEFINE new == Settled(intent[o], s, t)
  <2>1. new \in Intents /\ new.hash = intent[o].hash /\ new.state = s /\ new.stage = t
    BY <1>3, SettledIntent
  <2>2. intent' = [intent EXCEPT ![o] = new]
    BY <1>5
  <2> HIDE DEF new
  <2> QED
    BY <1>2, <1>3, <1>5, <2>1, <2>2 DEF SettledTruly
<1>6. \/ UNCHANGED intent
      \/ worker.pc = "finish" /\ intent' = [intent EXCEPT ![o] = Settled(@, "COMMITTED", "COMPLETE")]
      \/ intent' = [intent EXCEPT ![o] = Settled(@, "FAILED", "FAILED")]
  BY DEF FinishSucceeded, FinishFailed
<1> QED
  BY <1>1, <1>2, <1>4, <1>5, <1>6

(* The worker's answer keeps the invariant.                                *)
LEMMA FinishIInv ==
  ASSUME IInv, FinishSucceeded \/ FinishFailed PROVE IInv'
<1> USE DEF published, memory, Mine, At
<1> DEFINE o == worker.op
<1>1. /\ UNCHANGED <<input, current, saved, artifacts, server, pending, scheduled, request>>
      /\ UNCHANGED <<submits, crashes>> /\ worker.pc \in {"finish", "fail"}
      /\ worker' = [pc |-> "ready", op |-> None, frozen |-> NoInput]
  BY DEF FinishSucceeded, FinishFailed, Done
<1>2. TypeOK /\ submits' \in Nat /\ crashes' \in Nat /\ faults' \in Nat
  BY <1>1 DEF IInv, WorkIsOwned, TypeOK, FinishSucceeded, FinishFailed, Fault, NoFault
<1>3. worker' \in Workers /\ worker'.pc \notin Working
  BY <1>1 DEF Workers, Working, Input, NoInput
<1>4. \E job \in {"SUCCEEDED", "FAILED"} : jobs' = [jobs EXCEPT ![o] = job]
  BY DEF FinishSucceeded, FinishFailed
<1>5. /\ jobs' \in [Operations -> {"none", "QUEUED", "RUNNING", "SUCCEEDED", "FAILED"}]
      /\ jobs'[o] \notin Active /\ \A p \in Operations : p # o => jobs'[p] = jobs[p]
  BY <1>2, <1>4, FinishSettles DEF TypeOK, Active
<1>6. /\ \A p \in Operations : intent'[p] = intent[p] \/ SettledTruly(p)
      /\ \A p \in Operations : jobs'[p] \in Active => jobs[p] \in Active /\ intent'[p] = intent[p]
      /\ \A p \in ToSet(pending') : intent'[p] = intent[p]
      /\ intent' \in [Operations -> Intents]
  BY <1>1, <1>2, <1>5, FinishSettles, QueueType
<1>7. server \notin {"down", "starting"}
  BY <1>1, WorkerServes
<1>8. UNCHANGED <<input, published, scheduled, request>>
  BY <1>1
<1> QED
  BY <1>1, <1>2, <1>3, <1>5, <1>6, <1>7, <1>8, SettleIInv

(* What is queued is failed, and nothing else is settled.                  *)
LEMMA ShutdownSettles ==
  ASSUME IInv, Shutdown
  PROVE  /\ UNCHANGED published /\ intent' \in [Operations -> Intents]
         /\ \E S \in SUBSET ToSet(pending) :
              /\ \A o \in Operations \ S : intent'[o] = intent[o]
              /\ \A o \in S : SettledTruly(o) /\ intent'[o].state = "FAILED"
<1> DEFINE queue == ToSet(pending)
<1>1. PICK lost \in SUBSET queue :
        intent' = [o \in Operations |->
          IF o \in queue \ lost THEN Settled(intent[o], "FAILED", "FAILED") ELSE intent[o]]
  BY DEF Shutdown
<1>2. TypeOK /\ queue \subseteq Operations /\ \A o \in queue : IsPending(o)
  BY QueueType DEF IInv, WorkIsOwned
<1>3. \A o \in queue : /\ Settled(intent[o], "FAILED", "FAILED") \in Intents
                       /\ Settled(intent[o], "FAILED", "FAILED").hash = intent[o].hash
                       /\ Settled(intent[o], "FAILED", "FAILED").state = "FAILED"
                       /\ Settled(intent[o], "FAILED", "FAILED").stage = "FAILED"
  BY <1>2, SettledIntent DEF TypeOK, Intents, IsPending
<1>4. intent' \in [Operations -> Intents]
  BY <1>1, <1>2, <1>3 DEF TypeOK, Intents
<1>5. /\ \A o \in Operations \ (queue \ lost) : intent'[o] = intent[o]
      /\ \A o \in queue \ lost : SettledTruly(o) /\ intent'[o].state = "FAILED"
  BY <1>1, <1>2, <1>3 DEF SettledTruly
<1>6. UNCHANGED published /\ queue \ lost \subseteq queue
  BY DEF Shutdown
<1> QED
  BY <1>4, <1>5, <1>6

(* A shutdown keeps the invariant.                                         *)
LEMMA ShutdownIInv ==
  ASSUME IInv, Shutdown PROVE IInv'
<1> DEFINE queue == ToSet(pending)
<1>1. /\ UNCHANGED <<input, published, scheduled, worker, request, submits, crashes>>
      /\ server = "serving" /\ server' = "stopping" /\ pending' = <<>>
      /\ jobs' = [o \in Operations |-> IF o \in queue THEN "FAILED" ELSE jobs[o]]
  BY DEF Shutdown
<1>2. TypeOK
  BY DEF IInv, WorkIsOwned
<1>3. submits' \in Nat /\ crashes' \in Nat /\ faults' \in Nat /\ worker' \in Workers
  BY <1>1, <1>2 DEF Shutdown, TypeOK, Fault, NoFault, Workers
<1>4. jobs' \in [Operations -> {"none", "QUEUED", "RUNNING", "SUCCEEDED", "FAILED"}]
  BY <1>1, <1>2 DEF TypeOK
<1>5. intent' \in [Operations -> Intents] /\ UNCHANGED published
  BY ShutdownSettles
<1>6. PICK S \in SUBSET queue :
        /\ \A o \in Operations \ S : intent'[o] = intent[o]
        /\ \A o \in S : SettledTruly(o) /\ intent'[o].state = "FAILED"
  BY ShutdownSettles
<1>7. \A o \in Operations : jobs'[o] \in Active => jobs[o] \in Active /\ intent'[o] = intent[o]
  BY <1>1, <1>6 DEF Active
<1>8. \A o \in ToSet(pending') : intent'[o] = intent[o]
  BY <1>1, EmptyQueue
<1>9. worker'.pc \in Working => UNCHANGED worker /\ intent'[worker.op] = intent[worker.op]
  BY <1>1, <1>6 DEF IInv, WorkIsOwned, Underway, Mine
<1>10. \A o \in Operations : intent'[o] = intent[o] \/ SettledTruly(o)
  BY <1>6
<1> QED
  BY <1>1, <1>3, <1>4, <1>5, <1>7, <1>8, <1>9, <1>10, SettleIInv

(* What a restart finds pending is settled by what is published.           *)
LEMMA ReconcileSettles ==
  ASSUME IInv, NEW o \in Operations, Reconcile(o)
  PROVE  /\ UNCHANGED published /\ intent' \in [Operations -> Intents] /\ SettledTruly(o)
         /\ \A p \in Operations : p # o => intent'[p] = intent[p]
<1> USE DEF process, memory, budget
<1>1. /\ UNCHANGED <<input, published, server, jobs, pending, scheduled, worker, request>>
      /\ UNCHANGED <<submits, crashes, faults>> /\ server = "starting" /\ IsPending(o)
  BY DEF Reconcile
<1>2. NothingInMemory /\ TypeOK
  BY <1>1 DEF IInv, WorkIsOwned
<1>3. PICK s \in {"COMMITTED", "FAILED"}, t \in {"COMPLETE", "FAILED", "STALE", "INTERRUPTED"} :
        /\ intent' = [intent EXCEPT ![o] = Settled(@, s, t)]
        /\ s = "COMMITTED" => current[WorkspaceOf[o]] = o /\ o \in artifacts
        /\ t = "INTERRUPTED" => s = "FAILED" /\ current[WorkspaceOf[o]] # o
  <2>1. \/ /\ current[WorkspaceOf[o]] # o
           /\ intent' = [intent EXCEPT ![o] = Settled(@, "FAILED", "INTERRUPTED")]
        \/ intent' = [intent EXCEPT ![o] = Settled(@, "FAILED", "STALE")]
        \/ intent' = [intent EXCEPT ![o] = Settled(@, "FAILED", "FAILED")]
        \/ /\ current[WorkspaceOf[o]] = o /\ o \in artifacts
           /\ intent' = [intent EXCEPT ![o] = Settled(@, "COMMITTED", "COMPLETE")]
    BY DEF Reconcile
  <2> QED
    BY <2>1
<1>4. intent \in [Operations -> Intents] /\ intent[o] \in Intents /\ intent[o].state = "PENDING"
  BY <1>1, <1>2 DEF TypeOK, Intents, IsPending
<1> DEFINE new == Settled(intent[o], s, t)
<1>5. new \in Intents /\ new.hash = intent[o].hash /\ new.state = s /\ new.stage = t
  BY <1>4, SettledIntent
<1>6. intent' = [intent EXCEPT ![o] = new]
  BY <1>3
<1> HIDE DEF new
<1>7. intent' \in [Operations -> Intents] /\ \A p \in Operations : p # o => intent'[p] = intent[p]
  BY <1>4, <1>5, <1>6
<1>8. current[WorkspaceOf[o]] = o => saved[o] # NoInput
  BY PlacementAssumption, NoneAssumption DEF IInv, CurrentIsSaved
<1>9. SettledTruly(o)
  BY <1>1, <1>3, <1>4, <1>5, <1>6, <1>8 DEF SettledTruly
<1> QED
  BY <1>1, <1>7, <1>9

(* A restart's settlement keeps the invariant.                             *)
LEMMA ReconcileIInv ==
  ASSUME IInv, NEW o \in Operations, Reconcile(o) PROVE IInv'
<1>1. /\ UNCHANGED <<input, server, jobs, pending, scheduled, worker, request>>
      /\ UNCHANGED <<submits, crashes, faults>> /\ server = "starting"
  BY DEF Reconcile, process, memory, budget
<1>2. NothingInMemory /\ TypeOK
  BY <1>1 DEF IInv, WorkIsOwned
<1>3. /\ UNCHANGED published /\ intent' \in [Operations -> Intents] /\ SettledTruly(o)
      /\ \A p \in Operations : p # o => intent'[p] = intent[p]
  BY ReconcileSettles
<1>4. /\ jobs' \in [Operations -> {"none", "QUEUED", "RUNNING", "SUCCEEDED", "FAILED"}]
      /\ worker' \in Workers /\ submits' \in Nat /\ crashes' \in Nat /\ faults' \in Nat
  BY <1>1, <1>2 DEF TypeOK, Workers
<1>5. \A p \in Operations : jobs'[p] \notin Active
  BY <1>1, <1>2 DEF NothingInMemory, Active
<1>6. worker'.pc \notin Working /\ ToSet(pending') = {}
  BY <1>1, <1>2, EmptyQueue DEF NothingInMemory, NoWork, Working
<1>7. /\ UNCHANGED <<input, published, scheduled, request>>
      /\ \A p \in Operations : intent'[p] = intent[p] \/ SettledTruly(p)
      /\ \A p \in Operations : jobs'[p] \in Active => jobs[p] \in Active /\ intent'[p] = intent[p]
      /\ \A p \in ToSet(pending') : intent'[p] = intent[p]
  BY <1>1, <1>3, <1>5, <1>6
<1> QED
  BY <1>1, <1>3, <1>4, <1>6, <1>7, SettleIInv

---------------------------------------------------------------------------
(* Every step keeps the invariant.                                         *)
LEMMA NextIInv == IInv /\ [Next]_vars => IInv'
<1>1. ASSUME IInv, Next PROVE IInv'
  <2>1. CASE Work
    BY <1>1, <2>1, CompareIInv, TakeIInv, PersistRunningIInv, SaveReportIInv, FinishIInv DEF Work
  <2>2. CASE Lifecycle
    BY <1>1, <2>2, StartIInv, ForgetIInv, ReconcileIInv DEF Lifecycle
  <2> QED
    BY <1>1, <2>1, <2>2, EditIInv, SubmitIInv, ReserveIInv, EnqueueIInv, PollIInv, ShutdownIInv,
       ForgetIInv DEF Next
<1>2. ASSUME IInv, UNCHANGED vars PROVE IInv'
  <2> USE DEF IInv, WorkIsOwned, Mine
  <2>1. /\ UNCHANGED <<input, current, saved, artifacts, intent, server, jobs, pending, scheduled>>
        /\ UNCHANGED <<worker, request, submits, crashes, faults>>
    BY <1>2 DEF vars, published, process, memory, budget
  <2>2. WorkIsOwned'
    BY <1>2, <2>1 DEF TypeOK, OneComparison, IsPending
  <2>3. CurrentReportIsFresh' /\ CurrentIsSaved' /\ OutcomeIsTrue'
    BY <1>2, <2>1 DEF CurrentReportIsFresh, CurrentIsSaved, OutcomeIsTrue
  <2>4. \A p \in Operations : Recorded(p)'
    BY <1>2, <2>1 DEF Recorded, IsPending
  <2>5. QueuedOnce' /\ Underway'
    BY <1>2, <2>1 DEF QueuedOnce, Underway, IsPending
  <2>6. \A q \in Requests : Asked(q)'
    BY <1>2, <2>1 DEF Asked
  <2> QED
    BY <1>2, <2>1, <2>2, <2>3, <2>4, <2>5, <2>6 DEF NothingInMemory
<1> QED
  BY <1>1, <1>2

(* The invariant holds of every state.                                     *)
LEMMA Invariance == Spec => []IInv
BY InitIInv, NextIInv, PTL DEF Spec

(* The report that is served is of the data as it is, of the inputs it was *)
(* asked for, and complete (verify_inputs before, during and in the        *)
(* transaction of compare; the invalidation in the editors' transactions). *)
THEOREM ReportStaysFresh == Spec => []CurrentReportIsFresh
BY Invariance, PTL DEF IInv

(* One comparison of a Workspace at a time, and nobody settles or queues   *)
(* again what the worker has in hand (reserve, enqueue, active, shutdown). *)
THEOREM WorkStaysOwned == Spec => []WorkIsOwned
BY Invariance, PTL DEF IInv

(* A success published its report, an interruption left none that is       *)
(* served (_finish_succeeded, _finish_failed, shutdown, reconcile_pending).*)
THEOREM OutcomeStaysTrue == Spec => []OutcomeIsTrue
BY Invariance, PTL DEF IInv

---------------------------------------------------------------------------
(* The abstract operation (ImplementsOutcome).                             *)
Named(i) ==
  CASE i.state = "none" -> "absent"
    [] i.state = "PENDING" -> "pending"
    [] i.state = "COMMITTED" -> "done"
    [] OTHER -> "failed"
outcomes == [o \in Operations |-> Named(intent[o])]
effects == {o \in Operations : saved[o] # NoInput}
Abstract == Outcome!Next \/ UNCHANGED <<outcomes, effects>>

(* Settling is an answer; of several at once only when all are given up.   *)
LEMMA SettleAnswers ==
  ASSUME IInv, UNCHANGED saved, NEW S \in SUBSET Operations,
         \A o \in Operations \ S : intent'[o] = intent[o],
         \A o \in S : SettledTruly(o) /\ intent'[o].state = "FAILED"
  PROVE  Abstract
<1>1. outcomes' = [o \in Operations |-> IF o \in S THEN "failed" ELSE outcomes[o]]
  BY DEF outcomes, Named
<1>2. \A o \in S : outcomes[o] = "pending"
  BY DEF outcomes, Named, SettledTruly, IsPending
<1>3. Outcome!GiveUp(S)
  BY <1>1, <1>2 DEF Outcome!GiveUp, outcomes, effects, Named
<1> QED
  BY <1>3 DEF Outcome!Next, Abstract

(* A settled operation whose report is published has succeeded.            *)
LEMMA SettleSucceeds ==
  ASSUME IInv, UNCHANGED saved, NEW o \in Operations, SettledTruly(o),
         intent'[o].state = "COMMITTED",
         \A p \in Operations : p # o => intent'[p] = intent[p]
  PROVE  Abstract
<1>1. outcomes[o] = "pending" /\ outcomes' = [outcomes EXCEPT ![o] = "done"]
  BY DEF outcomes, Named, SettledTruly, IsPending
<1>2. o \in effects /\ UNCHANGED effects
  BY DEF effects, SettledTruly
<1>3. Outcome!Succeed(o)
  BY <1>1, <1>2 DEF Outcome!Succeed, outcomes, effects, Named
<1> QED
  BY <1>3 DEF Outcome!Next, Abstract

(* A comparison is an operation with an outcome that is final and true:    *)
(* asked for by the reservation, in effect with the transaction that saves *)
(* its report, answered by the worker, a shutdown or the next start.       *)
THEOREM ComparisonImplementsOutcome == Spec => ImplementsOutcome
<1>1. Init => Outcome!Init
  BY DEF Init, Outcome!Init, NoIntent
<1>2. ASSUME UNCHANGED <<intent, saved>> PROVE Abstract
  BY <1>2 DEF Abstract, outcomes, effects, Named
<1>3. ASSUME IInv, UNCHANGED saved, intent' \in [Operations -> Intents],
             \A o \in Operations : intent'[o].state = intent[o].state
      PROVE  Abstract
  BY <1>3 DEF Abstract, outcomes, effects, Named
<1>4. ASSUME IInv, NEW r \in Requests, Reserve(r) PROVE Abstract
  <2>1. PICK o \in Operations : request[r].op = o /\ UNCHANGED saved
    BY <1>4 DEF Reserve, IInv, Asked, published
  <2>2. CASE UNCHANGED intent
    BY <1>2, <2>1, <2>2
  <2>3. CASE intent' # intent
    <3>1. PICK h : /\ intent[o] = NoIntent
                   /\ intent' = [intent EXCEPT ![o] = [state |-> "PENDING", stage |-> "QUEUED", hash |-> h]]
      BY <1>4, <2>1, <2>3 DEF Reserve, IInv, WorkIsOwned, TypeOK
    <3>2. /\ Named(intent[o]) = "absent"
          /\ \A p \in Operations : Named(intent'[p]) = IF p = o THEN "pending" ELSE Named(intent[p])
      BY <1>4, <2>1, <3>1 DEF Named, NoIntent, IInv, WorkIsOwned, TypeOK
    <3>3. outcomes[o] = "absent" /\ outcomes' = [outcomes EXCEPT ![o] = "pending"]
      BY <3>2 DEF outcomes
    <3>4. Outcome!Ask(o)
      BY <2>1, <3>3 DEF Outcome!Ask, outcomes, effects, Named
    <3> QED
      BY <3>4 DEF Outcome!Next, Abstract
  <2> QED
    BY <2>2, <2>3
<1>5. ASSUME IInv, NEW r \in Requests, Enqueue(r) PROVE Abstract
  <2> DEFINE o == request[r].op
  <2>1. /\ o \in Operations /\ TypeOK /\ UNCHANGED saved
        /\ jobs[o] \in Active => IsPending(o)
    BY <1>5 DEF Enqueue, IInv, WorkIsOwned, Asked, Recorded, published
  <2>2. CASE UNCHANGED intent
    BY <1>2, <2>1, <2>2
  <2>3. CASE /\ IsPending(o)
             /\ intent' = [intent EXCEPT ![o].stage = IF IsPending(o) THEN "QUEUED" ELSE @]
    <3>1. /\ intent' \in [Operations -> Intents] /\ intent'[o].state = intent[o].state
          /\ \A p \in Operations : p # o => intent'[p] = intent[p]
      BY <2>1, <2>3, StageChange
    <3> QED
      BY <1>3, <1>5, <2>1, <3>1
  <2> QED
    BY <1>5, <2>1, <2>2, <2>3 DEF Enqueue
<1>6. ASSUME IInv, PersistRunning PROVE Abstract
  <2>1. worker.op \in Operations /\ IsPending(worker.op) /\ TypeOK /\ UNCHANGED saved
    BY <1>6 DEF PersistRunning, At, IInv, WorkIsOwned, Underway, Mine, Working, published
  <2>2. CASE UNCHANGED intent
    BY <1>2, <2>1, <2>2
  <2>3. CASE intent' = [intent EXCEPT ![worker.op].stage = IF IsPending(worker.op) THEN "RUNNING" ELSE @]
    <3>1. /\ intent' \in [Operations -> Intents] /\ intent'[worker.op].state = intent[worker.op].state
          /\ \A p \in Operations : p # worker.op => intent'[p] = intent[p]
      BY <2>1, <2>3, StageChange
    <3> QED
      BY <1>3, <1>6, <2>1, <3>1
  <2> QED
    BY <1>6, <2>2, <2>3 DEF PersistRunning, Mine
<1>7. ASSUME IInv, SaveReport PROVE Abstract
  <2>1. PICK o \in Operations :
        /\ IsPending(o) /\ saved[o] = NoInput /\ UNCHANGED intent
        /\ intent[o].hash # NoInput /\ saved' = [saved EXCEPT ![o] = intent[o].hash]
    BY <1>7 DEF SaveReport, At, IInv, WorkIsOwned, Underway, Mine, Working, Recorded, IsPending
  <2>2. effects' = effects \cup {o} /\ o \notin effects
    BY <1>7, <2>1 DEF effects, IInv, WorkIsOwned, TypeOK
  <2>3. outcomes[o] = "pending" /\ UNCHANGED outcomes
    BY <2>1 DEF outcomes, Named, IsPending
  <2>4. Outcome!TakeEffect(o)
    BY <2>2, <2>3 DEF Outcome!TakeEffect, outcomes, effects, Named
  <2> QED
    BY <2>4 DEF Outcome!Next, Abstract
<1>8. ASSUME IInv, UNCHANGED published, NEW o \in Operations,
             \A p \in Operations : p # o => intent'[p] = intent[p],
             intent'[o] = intent[o] \/ SettledTruly(o), intent' \in [Operations -> Intents]
      PROVE  Abstract
  <2>1. UNCHANGED saved
    BY <1>8 DEF published
  <2>2. CASE intent'[o] = intent[o]
    BY <1>3, <1>8, <2>1, <2>2
  <2>3. CASE SettledTruly(o) /\ intent'[o].state = "COMMITTED"
    BY <1>8, <2>1, <2>3, SettleSucceeds
  <2>4. CASE SettledTruly(o) /\ intent'[o].state = "FAILED"
    <3>1. /\ \A p \in Operations \ {o} : intent'[p] = intent[p]
          /\ \A p \in {o} : SettledTruly(p) /\ intent'[p].state = "FAILED"
          /\ {o} \in SUBSET Operations
      BY <1>8, <2>4
    <3> QED
      BY <1>8, <2>1, <3>1, SettleAnswers
  <2> QED
    BY <1>8, <2>2, <2>3, <2>4 DEF SettledTruly
<1>9. ASSUME IInv, Shutdown PROVE Abstract
  <2>1. PICK S \in SUBSET ToSet(pending) :
          /\ \A o \in Operations \ S : intent'[o] = intent[o]
          /\ \A o \in S : SettledTruly(o) /\ intent'[o].state = "FAILED"
    BY <1>9, ShutdownSettles
  <2>2. S \in SUBSET Operations /\ UNCHANGED saved
    BY <1>9, QueueType, ShutdownSettles DEF IInv, WorkIsOwned, published
  <2> QED
    BY <1>9, <2>1, <2>2, SettleAnswers
<1>10. ASSUME IInv, FinishSucceeded \/ FinishFailed PROVE Abstract
  BY <1>8, <1>10, FinishSettles
<1>11. ASSUME IInv, NEW o \in Operations, Reconcile(o) PROVE Abstract
  BY <1>8, <1>11, ReconcileSettles
<1>12. ASSUME NEW ws \in Workspaces, Invalidate(ws) \/ Touch(ws) PROVE UNCHANGED <<intent, saved>>
  BY <1>12 DEF Invalidate, Touch, published
<1>13. ASSUME NEW r \in Requests, NEW o \in Operations, Submit(r, o)
       PROVE  UNCHANGED <<intent, saved>>
  BY <1>13 DEF Submit, published
<1>14. ASSUME NEW o \in Operations, Poll(o) PROVE UNCHANGED <<intent, saved>>
  BY <1>14 DEF Poll, published
<1>15. ASSUME \/ Take \/ Wait \/ Leave \/ Verify \/ WriteReports
              \/ PublicationFails \/ Receipt \/ WorkFails \/ Exit \/ Crash \/ Start \/ Serve
       PROVE  UNCHANGED <<intent, saved>>
  BY <1>15 DEF Take, Wait, Leave, Verify, WriteReports, PublicationFails, Receipt, WorkFails,
               Exit, Crash, Start, Serve, published
<1>16. ASSUME IInv, Next PROVE Abstract
  <2>1. CASE Work
    BY <1>2, <1>6, <1>7, <1>10, <1>15, <1>16, <2>1 DEF Work
  <2>2. CASE Lifecycle
    BY <1>2, <1>11, <1>15, <1>16, <2>2 DEF Lifecycle
  <2> QED
    BY <1>2, <1>4, <1>5, <1>9, <1>12, <1>13, <1>14, <1>15, <1>16, <2>1, <2>2 DEF Next
<1>17. ASSUME UNCHANGED vars PROVE Abstract
  BY <1>2, <1>17 DEF vars, published
<1>18. IInv /\ [Next]_vars => [Outcome!Next]_<<outcomes, effects>>
  BY <1>16, <1>17 DEF Abstract
<1> QED
  BY Invariance, <1>1, <1>18, PTL DEF Spec, ImplementsOutcome, Outcome!Spec, outcomes, effects, Named
=============================================================================
