-------------------------- MODULE CrossStoreProofs --------------------------
(***************************************************************************)
(* What an operation leaves in the three stores, for any workers,          *)
(* operations, Workspaces and artifacts, and without any bound.            *)
(***************************************************************************)
EXTENDS CrossStore, TLAPS

USE OperationsAssumption, PlacementAssumption, LeaseDurationAssumption

(* What ties the stores to the workers' steps.  A worker past the commit   *)
(* carries the committed receipt; one that is about to commit has a token; *)
(* one that is about to project has seen the file.                         *)
OnItsWay(w) ==
  /\ task[w].pc # "idle" => task[w].op \in Operations
  /\ task[w].pc \in {"publish", "record", "verify", "project"} =>
       task[w].receipt # NoReceipt /\ task[w].receipt = receipt[task[w].op]
  /\ task[w].pc \in {"open", "commit"} => task[w].lease.token > 0
  /\ task[w].pc = "project" => ArtifactOf[task[w].op] \in published

(* An unknown operation has left no trace; evidence is a committed         *)
(* receipt, and the states that follow it have it.                         *)
InItsPlace(o) ==
  /\ state[o] = "absent" =>
       receipt[o] = NoReceipt /\ \A w \in Workers : task[w].op = o => task[w].pc = "idle"
  /\ evidence[o] # NoReceipt => evidence[o] = receipt[o]
  /\ state[o] \in {"DATA_COMMITTED", "PROJECTED"} => evidence[o] # NoReceipt
  /\ state[o] = "PROJECTED" => ArtifactOf[o] \in published

IInv ==
  /\ TypeOK
  /\ \A w \in Workers : OnItsWay(w)
  /\ \A o \in Operations : InItsPlace(o)
  /\ ExecutedOnce

---------------------------------------------------------------------------
(* How a worker moves: one task changes, in the fields the step names.     *)
Others(w) == \A v \in Workers \ {w} : task'[v] = task[v]

LEMMA MoveTask ==
  ASSUME task \in [Workers -> Task], NEW w \in Workers, NEW pc \in Steps, Move(w, pc)
  PROVE  /\ task' \in [Workers -> Task] /\ Others(w)
         /\ task'[w].pc = pc /\ task'[w].op = task[w].op /\ task'[w].since = 0
         /\ task'[w].receipt = task[w].receipt /\ task'[w].lease = task[w].lease
<1>1. task' = [task EXCEPT ![w] = [task[w] EXCEPT !.pc = pc, !.since = 0]]
  BY DEF Move
<1>2. [task[w] EXCEPT !.pc = pc, !.since = 0] \in Task
  BY DEF Task
<1> QED
  BY <1>1, <1>2 DEF Others, Task

LEMMA MoveToClockTask ==
  ASSUME task \in [Workers -> Task], now \in Nat,
         NEW w \in Workers, NEW pc \in Steps, MoveToClock(w, pc)
  PROVE  /\ task' \in [Workers -> Task] /\ Others(w)
         /\ task'[w].pc = pc /\ task'[w].op = task[w].op /\ task'[w].since = now
         /\ task'[w].receipt = task[w].receipt /\ task'[w].lease = task[w].lease
<1>1. task' = [task EXCEPT ![w] = [task[w] EXCEPT !.pc = pc, !.since = now]]
  BY DEF MoveToClock
<1>2. [task[w] EXCEPT !.pc = pc, !.since = now] \in Task
  BY DEF Task
<1> QED
  BY <1>1, <1>2 DEF Others, Task

LEMMA MoveWithTask ==
  ASSUME task \in [Workers -> Task], NEW w \in Workers, NEW pc \in Steps,
         NEW r \in Receipt, MoveWith(w, pc, r)
  PROVE  /\ task' \in [Workers -> Task] /\ Others(w)
         /\ task'[w].pc = pc /\ task'[w].op = task[w].op /\ task'[w].receipt = r
         /\ task'[w].lease = task[w].lease /\ task'[w].since = 0
<1>1. task' = [task EXCEPT ![w] = [task[w] EXCEPT !.pc = pc, !.since = 0, !.receipt = r]]
  BY DEF MoveWith
<1>2. [task[w] EXCEPT !.pc = pc, !.since = 0, !.receipt = r] \in Task
  BY DEF Task
<1> QED
  BY <1>1, <1>2 DEF Others, Task

LEMMA IdleTask ==
  Idle \in Task /\ Idle.pc = "idle" /\ Idle.lease.token = 0 /\ Idle.since = 0
BY DEF Idle, Task, Steps, NoRow, LeaseRow, NoReceipt, Receipt

LEMMA LeaveTask ==
  ASSUME task \in [Workers -> Task], NEW w \in Workers, Leave(w)
  PROVE  /\ task' \in [Workers -> Task] /\ Others(w) /\ task'[w].pc = "idle"
         /\ task'[w].lease.token = 0 /\ task'[w].since = 0
BY IdleTask DEF Leave, Others

LEMMA BeginTask ==
  ASSUME task \in [Workers -> Task], NEW w \in Workers, NEW o \in Operations,
         NEW pc \in Steps, NEW since \in Nat, Begin(w, o, pc, since)
  PROVE  /\ task' \in [Workers -> Task] /\ Others(w)
         /\ task'[w].pc = pc /\ task'[w].op = o
         /\ task'[w].lease.token = 0 /\ task'[w].since = since
         /\ task[w].pc = "idle"
<1> DEFINE new == [Idle EXCEPT !.pc = pc, !.op = o, !.since = since]
<1>1. /\ new \in Task /\ new.pc = pc /\ new.op = o /\ new.lease.token = 0
      /\ new.since = since
  BY IdleTask DEF Task
<1>2. task' = [task EXCEPT ![w] = new] /\ task[w].pc = "idle"
  BY DEF Begin, At
<1> HIDE DEF new
<1> QED
  BY <1>1, <1>2 DEF Others

---------------------------------------------------------------------------
LEMMA InitIInv == Init => IInv
<1> SUFFICES ASSUME Init PROVE IInv
  OBVIOUS
<1>1. TypeOK
  BY IdleTask DEF Init, TypeOK, NoRow, LeaseRow, NoReceipt, Receipt, States
<1>2. \A w \in Workers : OnItsWay(w)
  BY IdleTask DEF Init, OnItsWay
<1>3. \A o \in Operations : InItsPlace(o)
  BY IdleTask DEF Init, InItsPlace
<1>4. ExecutedOnce
  BY IdleTask DEF Init, ExecutedOnce, Executing
<1> QED
  BY <1>1, <1>2, <1>3, <1>4 DEF IInv

(* A step of one worker that leaves evidence and receipts alone: it is     *)
(* enough to look at where the worker goes and which operations settle.    *)
LEMMA QuietStep ==
  ASSUME IInv, TypeOK', NEW w \in Workers, Others(w),
         evidence' = evidence, receipt' = receipt, published \subseteq published',
         OnItsWay(w)',
         task[w].pc # "idle",
         task'[w].pc = "idle" \/ task'[w].op = task[w].op,
         Executing(w)' => Executing(w),
         \A o \in Operations :
           \/ state'[o] = state[o]
           \/ o = task[w].op /\ state'[o] \in {"INTERRUPTED", "MANUAL_REVIEW"}
           \/ /\ state'[o] = "PROJECTED" /\ o = task[w].op
              /\ state[o] \in {"DATA_COMMITTED", "PROJECTED"} /\ task[w].pc = "project"
  PROVE  IInv'
<1> USE DEF IInv
<1>1. \A v \in Workers : OnItsWay(v)'
  BY DEF OnItsWay, Others, TypeOK
<1>2. \A o \in Operations : InItsPlace(o)'
  BY DEF InItsPlace, OnItsWay, Others
<1>3. ExecutedOnce'
  BY DEF ExecutedOnce, Executing, OpOf, Others
<1> QED
  BY <1>1, <1>2, <1>3

LEMMA ReserveIInv ==
  ASSUME IInv, NEW w \in Workers, NEW o \in Operations, Reserve(w, o)
  PROVE  IInv'
<1> USE DEF IInv
<1>1. /\ task' \in [Workers -> Task] /\ Others(w)
      /\ task'[w].pc = "acquire" /\ task'[w].op = o
  BY BeginTask DEF Reserve, Steps, TypeOK
<1>2. /\ state[o] = "absent" /\ state' = [state EXCEPT ![o] = "RESERVED"]
      /\ UNCHANGED <<now, evidence, lease, current, receipt, fence, published, stops>>
  BY DEF Reserve, duckdb
<1>3. TypeOK'
  BY <1>1, <1>2 DEF TypeOK, States
<1>4. \A v \in Workers : OnItsWay(v)'
  BY <1>1, <1>2 DEF OnItsWay, Others
<1>5. \A p \in Operations : InItsPlace(p)'
  BY <1>1, <1>2 DEF InItsPlace, Others, TypeOK
<1>6. ExecutedOnce'
  BY <1>1, <1>2 DEF ExecutedOnce, Executing, OpOf, Others, InItsPlace
<1> QED
  BY <1>3, <1>4, <1>5, <1>6

LEMMA ReplayIInv ==
  ASSUME IInv, NEW w \in Workers, NEW o \in Operations,
         Replay(w, o) \/ RebuildMissingProjection(w, o)
  PROVE  IInv'
<1> USE DEF IInv
<1>1. /\ task' \in [Workers -> Task] /\ Others(w)
      /\ task'[w].pc = "get" /\ task'[w].op = o
  BY BeginTask DEF Replay, RebuildMissingProjection, Steps, TypeOK
<1>2. /\ state[o] # "absent"
      /\ UNCHANGED <<now, state, evidence, lease, current, receipt, fence, published, stops>>
  BY DEF Replay, RebuildMissingProjection, postgres, duckdb
<1>3. TypeOK'
  BY <1>1, <1>2 DEF TypeOK
<1>4. \A v \in Workers : OnItsWay(v)'
  BY <1>1, <1>2 DEF OnItsWay, Others
<1>5. \A p \in Operations : InItsPlace(p)'
  BY <1>1, <1>2 DEF InItsPlace, Others
<1>6. ExecutedOnce'
  BY <1>1, <1>2 DEF ExecutedOnce, Executing, OpOf, Others
<1> QED
  BY <1>3, <1>4, <1>5, <1>6

---------------------------------------------------------------------------
(* The steps of an execution.                                              *)
LEMMA AcquireIInv ==
  ASSUME IInv, NEW w \in Workers, Acquire(w)
  PROVE  IInv'
<1> USE DEF IInv
<1>1. task[w].pc = "acquire" /\ task[w] \in Task /\ task[w].op \in Operations
  BY DEF Acquire, At, TypeOK, OnItsWay
<1>2. UNCHANGED <<now, state, evidence, current, receipt, fence, published, stops>>
  BY DEF Acquire, duckdb
<1>3. CASE UNCHANGED lease /\ Leave(w)
  <2>1. task' \in [Workers -> Task] /\ Others(w) /\ task'[w].pc = "idle"
    BY <1>3, LeaveTask DEF TypeOK
  <2>2. TypeOK'
    BY <1>2, <1>3, <2>1 DEF TypeOK
  <2>3. OnItsWay(w)' /\ (Executing(w)' => Executing(w))
    BY <2>1 DEF OnItsWay, Executing
  <2> QED
    BY <1>1, <1>2, <2>1, <2>2, <2>3, QuietStep
<1>4. ASSUME NEW at \in Clock(w), NEW row,
             row = Acquired(lease[WsOf(w)], at, at + LeaseDuration),
             lease' = [lease EXCEPT ![WsOf(w)] = row],
             task' = [task EXCEPT ![w].pc = "open", ![w].since = 0, ![w].lease = row]
      PROVE  IInv'
  <2>1. WsOf(w) \in Workspaces /\ lease[WsOf(w)] \in LeaseRow /\ at \in Nat
    BY <1>1, <1>4 DEF WsOf, TypeOK, Clock, Task
  <2>2. row \in LeaseRow /\ row.token > 0
    BY <1>4, <2>1 DEF Acquired, LeaseRow
  <2>3. task' = [task EXCEPT ![w] =
                  [task[w] EXCEPT !.pc = "open", !.since = 0, !.lease = row]]
    BY <1>4
  <2>4. [task[w] EXCEPT !.pc = "open", !.since = 0, !.lease = row] \in Task
    BY <1>1, <2>2 DEF Task, Steps
  <2>5. /\ task' \in [Workers -> Task] /\ Others(w)
        /\ task'[w].pc = "open" /\ task'[w].op = task[w].op /\ task'[w].lease = row
    BY <1>1, <2>3, <2>4 DEF Others, Task, TypeOK
  <2>6. TypeOK'
    BY <1>2, <1>4, <2>1, <2>2, <2>5 DEF TypeOK
  <2>7. OnItsWay(w)' /\ Executing(w)
    BY <1>1, <2>2, <2>5 DEF OnItsWay, Executing
  <2> QED
    BY <1>1, <1>2, <2>5, <2>6, <2>7, QuietStep
<1> QED
  BY <1>3, <1>4 DEF Acquire

LEMMA OpenIInv ==
  ASSUME IInv, NEW w \in Workers, Open(w)
  PROVE  IInv'
<1> USE DEF IInv
<1>1. task[w].pc = "open" /\ MoveToClock(w, "commit") /\ "commit" \in Steps
      /\ UNCHANGED <<now, state, evidence, lease, current, receipt, fence, published, stops>>
  BY DEF Open, At, postgres, duckdb, Steps
<1>2. /\ task' \in [Workers -> Task] /\ Others(w)
      /\ task'[w].pc = "commit" /\ task'[w].op = task[w].op
      /\ task'[w].lease = task[w].lease
  BY <1>1, MoveToClockTask DEF TypeOK
<1>3. TypeOK'
  BY <1>1, <1>2 DEF TypeOK
<1>4. OnItsWay(w)' /\ Executing(w)
  BY <1>1, <1>2 DEF OnItsWay, Executing
<1> QED
  BY <1>1, <1>2, <1>3, <1>4, QuietStep

LEMMA CommitIInv ==
  ASSUME IInv, NEW w \in Workers, Commit(w)
  PROVE  IInv'
<1> USE DEF IInv
<1>1. task[w].pc = "commit" /\ task[w] \in Task /\ task[w].op \in Operations
      /\ task[w].lease.token > 0
  BY DEF Commit, At, TypeOK, OnItsWay
<1>2. UNCHANGED <<now, state, evidence, lease, current, published, stops>>
  BY DEF Commit, postgres
<1>3. CASE UNCHANGED duckdb /\ Leave(w)
  <2>1. task' \in [Workers -> Task] /\ Others(w) /\ task'[w].pc = "idle"
    BY <1>3, LeaveTask DEF TypeOK
  <2>2. TypeOK' /\ UNCHANGED receipt
    BY <1>2, <1>3, <2>1 DEF TypeOK, duckdb
  <2>3. OnItsWay(w)' /\ (Executing(w)' => Executing(w))
    BY <2>1 DEF OnItsWay, Executing
  <2> QED
    BY <1>1, <1>2, <2>1, <2>2, <2>3, QuietStep
<1>4. ASSUME NEW at \in Clock(w), NEW r,
             r = [token |-> task[w].lease.token, at |-> at],
             receipt' = [receipt EXCEPT ![OpOf(w)] = r],
             fence' = [fence EXCEPT ![WsOf(w)] = r.token],
             MoveWith(w, "publish", r)
      PROVE  IInv'
  <2>1. r \in Receipt /\ r # NoReceipt /\ r.token \in Nat
    <3>1. task[w].lease.token \in Nat /\ at \in Nat
      BY <1>1, <1>4 DEF Task, LeaseRow, Clock, TypeOK
    <3> QED
      BY <1>1, <1>4, <3>1 DEF Receipt, NoReceipt
  <2>2. /\ task' \in [Workers -> Task] /\ Others(w)
        /\ task'[w].pc = "publish" /\ task'[w].op = task[w].op /\ task'[w].receipt = r
    BY <1>4, <2>1, MoveWithTask DEF TypeOK, Steps
  <2>3. receipt' \in [Operations -> Receipt] /\ receipt'[task[w].op] = r
        /\ \A o \in Operations \ {task[w].op} : receipt'[o] = receipt[o]
    BY <1>1, <1>4, <2>1 DEF TypeOK, OpOf
  <2>4. fence' \in [Workspaces -> Nat]
    BY <1>4, <2>1 DEF TypeOK, WsOf
  <2>5. TypeOK'
    BY <1>2, <2>2, <2>3, <2>4 DEF TypeOK
  <2>6. receipt[task[w].op] = NoReceipt /\ state[task[w].op] # "absent"
    BY <1>1 DEF ExecutedOnce, Executing, OpOf, InItsPlace
  <2>7. \A v \in Workers : OnItsWay(v)'
    <3>1. OnItsWay(w)'
      BY <1>1, <2>1, <2>2, <2>3 DEF OnItsWay
    <3>2. ASSUME NEW v \in Workers \ {w} PROVE OnItsWay(v)'
      <4>1. task'[v] = task[v] /\ OnItsWay(v)
        BY <2>2 DEF Others
      <4> QED
        BY <1>2, <2>3, <2>6, <4>1 DEF OnItsWay
    <3> QED
      BY <3>1, <3>2
  <2>8. \A o \in Operations : InItsPlace(o)'
    BY <1>2, <2>2, <2>3, <2>6 DEF InItsPlace, Others
  <2>9. ExecutedOnce'
    <3>1. ASSUME NEW v \in Workers, Executing(v)'
          PROVE  v # w /\ task'[v] = task[v] /\ Executing(v)
      BY <2>2, <3>1 DEF Executing, Others
    <3>2. Executing(w)
      BY <1>1 DEF Executing
    <3>3. ASSUME NEW v \in Workers, Executing(v)'
          PROVE  task[v].op \in Operations \ {task[w].op}
      BY <3>1, <3>2, <3>3 DEF ExecutedOnce, Executing, OpOf, OnItsWay
    <3> QED
      BY <2>3, <3>1, <3>3 DEF ExecutedOnce, OpOf
  <2> QED
    BY <2>5, <2>7, <2>8, <2>9
<1> QED
  BY <1>3, <1>4 DEF Commit

LEMMA PublishIInv ==
  ASSUME IInv, NEW w \in Workers, Publish(w)
  PROVE  IInv'
<1> USE DEF IInv
<1>1. /\ task[w].pc = "publish" /\ Move(w, "record") /\ "record" \in Steps
      /\ task[w].op \in Operations
      /\ published' = published \cup {ArtifactOf[task[w].op]}
      /\ UNCHANGED <<now, state, evidence, lease, current, receipt, fence, stops>>
  BY DEF Publish, At, OpOf, postgres, duckdb, Steps, OnItsWay
<1>2. /\ task' \in [Workers -> Task] /\ Others(w)
      /\ task'[w].pc = "record" /\ task'[w].op = task[w].op
      /\ task'[w].receipt = task[w].receipt
  BY <1>1, MoveTask DEF TypeOK
<1>3. TypeOK'
  BY <1>1, <1>2 DEF TypeOK
<1>4. OnItsWay(w)' /\ ~Executing(w)'
  BY <1>1, <1>2 DEF OnItsWay, Executing
<1> QED
  BY <1>1, <1>2, <1>3, <1>4, QuietStep

LEMMA RecordIInv ==
  ASSUME IInv, NEW w \in Workers, Record(w)
  PROVE  IInv'
<1> USE DEF IInv
<1> PICK o \in Operations : o = task[w].op
  BY DEF Record, At, OnItsWay
<1>1. /\ task[w].pc = "record" /\ task[w].op = o
      /\ task[w].receipt = receipt[o] /\ receipt[o] # NoReceipt /\ task[w] \in Task
      /\ UNCHANGED <<now, lease, current, receipt, fence, published, stops>>
  BY DEF Record, At, OnItsWay, TypeOK, duckdb
<1>2. CASE Move(w, "verify") /\ UNCHANGED <<state, evidence>>
  <2>1. /\ task' \in [Workers -> Task] /\ Others(w)
        /\ task'[w].pc = "verify" /\ task'[w].op = o
        /\ task'[w].receipt = task[w].receipt
    BY <1>2, MoveTask DEF TypeOK, Steps
  <2>2. TypeOK'
    BY <1>1, <1>2, <2>1 DEF TypeOK
  <2>3. OnItsWay(w)' /\ ~Executing(w)'
    BY <1>1, <2>1 DEF OnItsWay, Executing
  <2> QED
    BY <1>1, <1>2, <2>1, <2>2, <2>3, QuietStep
<1>3. CASE Move(w, "review") /\ UNCHANGED <<state, evidence>>
  <2>1. /\ task' \in [Workers -> Task] /\ Others(w)
        /\ task'[w].pc = "review" /\ task'[w].op = o
    BY <1>3, MoveTask DEF TypeOK, Steps
  <2>2. TypeOK'
    BY <1>1, <1>3, <2>1 DEF TypeOK
  <2>3. OnItsWay(w)' /\ ~Executing(w)'
    BY <1>1, <2>1 DEF OnItsWay, Executing
  <2> QED
    BY <1>1, <1>3, <2>1, <2>2, <2>3, QuietStep
<1>4. CASE /\ evidence[o] = NoReceipt /\ state[o] = "RESERVED"
           /\ evidence' = [evidence EXCEPT ![o] = task[w].receipt]
           /\ state' = [state EXCEPT ![o] = "DATA_COMMITTED"]
           /\ Move(w, "verify")
  <2>1. /\ task' \in [Workers -> Task] /\ Others(w)
        /\ task'[w].pc = "verify" /\ task'[w].op = o
        /\ task'[w].receipt = task[w].receipt
    BY <1>4, MoveTask DEF TypeOK, Steps
  <2>2. task[w].receipt \in Receipt
    BY <1>1 DEF Task
  <2>3. TypeOK'
    BY <1>1, <1>4, <2>1, <2>2 DEF TypeOK, States
  <2>4. \A v \in Workers : OnItsWay(v)'
    BY <1>1, <2>1 DEF OnItsWay, Others
  <2>5. \A p \in Operations : InItsPlace(p)'
    <3>1. InItsPlace(o)'
      <4>1. state'[o] = "DATA_COMMITTED" /\ evidence'[o] = receipt[o]
        BY <1>1, <1>4 DEF TypeOK
      <4> QED
        BY <1>1, <4>1 DEF InItsPlace
    <3>2. ASSUME NEW p \in Operations \ {o} PROVE InItsPlace(p)'
      <4>1. state'[p] = state[p] /\ evidence'[p] = evidence[p]
        BY <1>4 DEF TypeOK
      <4>2. \A v \in Workers : task'[v].op = p => task'[v].pc = task[v].pc /\ task[v].op = p
        BY <2>1 DEF Others
      <4> QED
        BY <1>1, <4>1, <4>2 DEF InItsPlace
    <3> QED
      BY <3>1, <3>2
  <2>6. ExecutedOnce'
    BY <1>1, <2>1 DEF ExecutedOnce, Executing, OpOf, Others
  <2> QED
    BY <2>3, <2>4, <2>5, <2>6
<1> QED
  BY <1>2, <1>3, <1>4 DEF Record, OpOf

LEMMA VerifyIInv ==
  ASSUME IInv, NEW w \in Workers, Verify(w)
  PROVE  IInv'
<1> USE DEF IInv
<1> DEFINE next == IF ArtifactOf[task[w].op] \in published THEN "project" ELSE "review"
<1>1. /\ task[w].pc = "verify" /\ Move(w, next) /\ next \in Steps
      /\ UNCHANGED <<now, state, evidence, lease, current, receipt, fence, published, stops>>
  BY DEF Verify, At, OpOf, postgres, duckdb, Steps
<1>2. /\ task' \in [Workers -> Task] /\ Others(w)
      /\ task'[w].pc = next /\ task'[w].op = task[w].op
      /\ task'[w].receipt = task[w].receipt
  BY <1>1, MoveTask DEF TypeOK
<1>3. TypeOK'
  BY <1>1, <1>2 DEF TypeOK
<1>4. OnItsWay(w)' /\ ~Executing(w)'
  BY <1>1, <1>2 DEF OnItsWay, Executing
<1> QED
  BY <1>1, <1>2, <1>3, <1>4, QuietStep

(* The steps that end a task.                                              *)
LEMMA LeavingStep ==
  ASSUME IInv, NEW w \in Workers, task[w].pc # "idle", Leave(w),
         UNCHANGED <<now, evidence, current, receipt, fence, published>>,
         lease' \in [Workspaces -> LeaseRow], stops' \in Nat,
         \/ UNCHANGED state
         \/ /\ task[w].op \in Operations
            /\ \/ state' = [state EXCEPT ![task[w].op] = "INTERRUPTED"]
               \/ state' = [state EXCEPT ![task[w].op] = "MANUAL_REVIEW"]
  PROVE  IInv'
<1> USE DEF IInv
<1>1. task' \in [Workers -> Task] /\ Others(w) /\ task'[w].pc = "idle"
  BY LeaveTask DEF TypeOK
<1>2. TypeOK'
  BY <1>1 DEF TypeOK, States
<1>3. OnItsWay(w)' /\ ~Executing(w)'
  BY <1>1 DEF OnItsWay, Executing
<1>4. \A o \in Operations :
        \/ state'[o] = state[o]
        \/ o = task[w].op /\ state'[o] \in {"INTERRUPTED", "MANUAL_REVIEW"}
  BY DEF TypeOK
<1> QED
  BY <1>1, <1>2, <1>3, <1>4, QuietStep

LEMMA ReviewIInv ==
  ASSUME IInv, NEW w \in Workers, Review(w)
  PROVE  IInv'
<1>1. task[w].pc # "idle" /\ task[w].op \in Operations
  BY DEF Review, At, IInv, OnItsWay
<1> QED
  BY <1>1, LeavingStep DEF Review, OpOf, duckdb, IInv, TypeOK

LEMMA InterruptIInv ==
  ASSUME IInv, NEW w \in Workers, Interrupt(w)
  PROVE  IInv'
<1>1. task[w].pc # "idle" /\ task[w].op \in Operations
  BY DEF Interrupt, At, IInv, OnItsWay
<1> QED
  BY <1>1, LeavingStep DEF Interrupt, OpOf, duckdb, IInv, TypeOK

LEMMA StopIInv ==
  ASSUME IInv, NEW w \in Workers, Stop(w)
  PROVE  IInv'
<1>1. task[w].pc # "idle" /\ stops' \in Nat
  BY DEF Stop, At, IInv, TypeOK
<1> QED
  BY <1>1, LeavingStep DEF Stop, postgres, duckdb, IInv, TypeOK

LEMMA ReleaseIInv ==
  ASSUME IInv, NEW w \in Workers, Release(w)
  PROVE  IInv'
<1>1. task[w].pc # "idle" /\ task[w].op \in Operations
  BY DEF Release, At, IInv, OnItsWay
<1>2. WsOf(w) \in Workspaces /\ lease \in [Workspaces -> LeaseRow]
  BY <1>1 DEF WsOf, IInv, TypeOK
<1>3. Released(lease[WsOf(w)]) \in LeaseRow
  <2>1. lease[WsOf(w)].version + 1 \in Nat /\ lease[WsOf(w)] \in LeaseRow
    BY <1>2 DEF LeaseRow
  <2> QED
    BY <2>1 DEF Released, LeaseRow
<1>4. lease' = lease \/ lease' = [lease EXCEPT ![WsOf(w)] = Released(lease[WsOf(w)])]
  BY DEF Release
<1>5. lease' \in [Workspaces -> LeaseRow]
  BY <1>2, <1>3, <1>4
<1> QED
  BY <1>1, <1>5, LeavingStep DEF Release, duckdb, IInv, TypeOK

LEMMA ProjectIInv ==
  ASSUME IInv, NEW w \in Workers, Project(w)
  PROVE  IInv'
<1> USE DEF IInv
<1> PICK o \in Operations : o = task[w].op
  BY DEF Project, At, OnItsWay
<1>1. /\ task[w].pc = "project" /\ task[w].op = o
      /\ UNCHANGED <<now, evidence, lease, receipt, fence, published, stops>>
  BY DEF Project, At, duckdb
<1>2. CASE Move(w, "review") /\ UNCHANGED <<state, current>>
  <2>1. /\ task' \in [Workers -> Task] /\ Others(w)
        /\ task'[w].pc = "review" /\ task'[w].op = o
    BY <1>1, <1>2, MoveTask DEF TypeOK, Steps
  <2>2. TypeOK'
    BY <1>1, <1>2, <2>1 DEF TypeOK
  <2>3. OnItsWay(w)' /\ ~Executing(w)'
    BY <1>1, <2>1 DEF OnItsWay, Executing
  <2> QED
    BY <1>1, <1>2, <2>1, <2>2, <2>3, QuietStep
<1>3. CASE /\ state[o] \in {"DATA_COMMITTED", "PROJECTED"}
           /\ state' = [state EXCEPT ![o] = "PROJECTED"]
           /\ current' \in {o, current}
           /\ AfterProjection(w)
  <2>1. /\ task' \in [Workers -> Task] /\ Others(w)
        /\ \/ task'[w].pc = "idle"
           \/ task'[w].pc = "release" /\ task'[w].op = o
    BY <1>1, <1>3, LeaveTask, MoveToClockTask DEF AfterProjection, TypeOK, Steps
  <2>2. TypeOK'
    BY <1>1, <1>3, <2>1 DEF TypeOK, States
  <2>3. OnItsWay(w)' /\ ~Executing(w)'
    BY <1>1, <2>1 DEF OnItsWay, Executing
  <2>4. \A p \in Operations : state'[p] = state[p] \/ (p = o /\ state'[p] = "PROJECTED")
    BY <1>3 DEF TypeOK
  <2> QED
    BY <1>1, <1>3, <2>1, <2>2, <2>3, <2>4, QuietStep
<1> QED
  BY <1>2, <1>3 DEF Project, OpOf

(* The steps of a recovery.                                                *)
LEMMA GetIInv ==
  ASSUME IInv, NEW w \in Workers, Get(w)
  PROVE  IInv'
<1> USE DEF IInv
<1> PICK o \in Operations : o = task[w].op
  BY DEF Get, At, OnItsWay
<1>1. /\ task[w].pc = "get" /\ task[w].op = o
      /\ UNCHANGED <<now, state, evidence, lease, current, receipt, fence, published, stops>>
  BY DEF Get, At, postgres, duckdb
<1>2. CASE Leave(w)
  BY <1>1, <1>2, LeavingStep DEF TypeOK
<1>3. CASE state[o] = "DATA_COMMITTED" /\ MoveWith(w, "record", evidence[o])
  <2>1. evidence[o] \in Receipt
    BY DEF TypeOK
  <2>2. evidence[o] # NoReceipt /\ evidence[o] = receipt[o]
    BY <1>3 DEF InItsPlace
  <2>3. /\ task' \in [Workers -> Task] /\ Others(w)
        /\ task'[w].pc = "record" /\ task'[w].op = o /\ task'[w].receipt = evidence[o]
    BY <1>1, <1>3, <2>1, MoveWithTask DEF TypeOK, Steps
  <2>4. TypeOK'
    BY <1>1, <2>3 DEF TypeOK
  <2>5. OnItsWay(w)' /\ ~Executing(w)'
    BY <1>1, <2>2, <2>3 DEF OnItsWay, Executing
  <2> QED
    BY <1>1, <2>3, <2>4, <2>5, QuietStep
<1>4. CASE Move(w, "find")
  <2>1. /\ task' \in [Workers -> Task] /\ Others(w)
        /\ task'[w].pc = "find" /\ task'[w].op = o
    BY <1>1, <1>4, MoveTask DEF TypeOK, Steps
  <2>2. TypeOK'
    BY <1>1, <2>1 DEF TypeOK
  <2>3. OnItsWay(w)' /\ ~Executing(w)'
    BY <1>1, <2>1 DEF OnItsWay, Executing
  <2> QED
    BY <1>1, <2>1, <2>2, <2>3, QuietStep
<1> QED
  BY <1>2, <1>3, <1>4 DEF Get, OpOf

LEMMA FindIInv ==
  ASSUME IInv, NEW w \in Workers, Find(w)
  PROVE  IInv'
<1> USE DEF IInv
<1> PICK o \in Operations : o = task[w].op
  BY DEF Find, At, OnItsWay
<1>1. /\ task[w].pc = "find" /\ task[w].op = o
      /\ UNCHANGED <<now, state, evidence, lease, current, receipt, fence, published, stops>>
  BY DEF Find, At, postgres, duckdb
<1>2. CASE Leave(w)
  BY <1>1, <1>2, LeavingStep DEF TypeOK
<1>3. CASE Move(w, "interrupt")
  <2>1. /\ task' \in [Workers -> Task] /\ Others(w)
        /\ task'[w].pc = "interrupt" /\ task'[w].op = o
    BY <1>1, <1>3, MoveTask DEF TypeOK, Steps
  <2>2. TypeOK'
    BY <1>1, <2>1 DEF TypeOK
  <2>3. OnItsWay(w)' /\ ~Executing(w)'
    BY <1>1, <2>1 DEF OnItsWay, Executing
  <2> QED
    BY <1>1, <2>1, <2>2, <2>3, QuietStep
<1>4. CASE receipt[o] # NoReceipt /\ MoveWith(w, "record", receipt[o])
  <2>1. receipt[o] \in Receipt
    BY DEF TypeOK
  <2>2. /\ task' \in [Workers -> Task] /\ Others(w)
        /\ task'[w].pc = "record" /\ task'[w].op = o /\ task'[w].receipt = receipt[o]
    BY <1>1, <1>4, <2>1, MoveWithTask DEF TypeOK, Steps
  <2>3. TypeOK'
    BY <1>1, <2>2 DEF TypeOK
  <2>4. OnItsWay(w)' /\ ~Executing(w)'
    BY <1>1, <1>4, <2>2 DEF OnItsWay, Executing
  <2> QED
    BY <1>1, <2>2, <2>3, <2>4, QuietStep
<1> QED
  BY <1>2, <1>3, <1>4 DEF Find, OpOf

LEMMA UntouchedIInv ==
  ASSUME IInv, UNCHANGED <<postgres, duckdb, published, task, stops>>, now' \in Nat
  PROVE  IInv'
BY DEF IInv, TypeOK, OnItsWay, InItsPlace, ExecutedOnce, Executing, OpOf, postgres, duckdb

LEMMA NextIInv == IInv /\ [Next]_vars => IInv'
<1> SUFFICES ASSUME IInv, [Next]_vars PROVE IInv'
  OBVIOUS
<1>1. ASSUME NEW w \in Workers, NEW o \in Operations,
             Reserve(w, o) \/ Replay(w, o) \/ RebuildMissingProjection(w, o)
      PROVE  IInv'
  BY <1>1, ReserveIInv, ReplayIInv
<1>2. ASSUME NEW w \in Workers, Proceed(w) PROVE IInv'
  BY <1>2, AcquireIInv, OpenIInv, CommitIInv, PublishIInv, RecordIInv, VerifyIInv, ReviewIInv,
     ProjectIInv, ReleaseIInv, GetIInv, FindIInv, InterruptIInv DEF Proceed
<1>3. ASSUME NEW w \in Workers, Stop(w) PROVE IInv'
  BY <1>3, StopIInv
<1>4. CASE Tick \/ UNCHANGED vars
  <2>1. now' \in Nat
    BY <1>4 DEF Tick, vars, IInv, TypeOK
  <2> QED
    BY <1>4, <2>1, UntouchedIInv DEF Tick, vars
<1> QED
  BY <1>1, <1>2, <1>3, <1>4 DEF Next

LEMMA Invariance == Spec => []IInv
BY InitIInv, NextIInv, PTL DEF Spec

---------------------------------------------------------------------------
(* The variables keep their types: the rows of the journal, the leases,    *)
(* the receipts and the workers' tasks.                                    *)
THEOREM TypeCorrect == Spec => []TypeOK
<1>1. IInv => TypeOK
  BY DEF IInv
<1> QED
  BY Invariance, <1>1, PTL

(* The journal holds only evidence the data plane committed, whoever       *)
(* reports it: the executor, or any of those replaying its operation.      *)
THEOREM JournalTellsTheTruth == Spec => []EvidenceIsCommitted
<1>1. IInv => EvidenceIsCommitted
  BY DEF IInv, InItsPlace, EvidenceIsCommitted
<1> QED
  BY Invariance, <1>1, PTL

(* A PROJECTED operation is committed in the Workspace's file, journaled   *)
(* with that very receipt, and its artifact can be opened.                 *)
THEOREM ProjectedIsWhole == Spec => []SuccessIsWhole
<1>1. IInv => SuccessIsWhole
  BY DEF IInv, InItsPlace, SuccessIsWhole
<1> QED
  BY Invariance, <1>1, PTL

(* However often an idempotency key is used again, by whoever and after    *)
(* whatever crashes, its work is done at most once and by one worker.      *)
THEOREM ReplaysNeverRepeat == Spec => []ExecutedOnce
<1>1. IInv => ExecutedOnce
  BY DEF IInv
<1> QED
  BY Invariance, <1>1, PTL

(* What a step does to settled operations and committed receipts.          *)
KeepsSettled ==
  \A o \in Operations :
    /\ state[o] \in Terminal => state'[o] = state[o] /\ evidence'[o] = evidence[o]
    /\ Committed(o) => receipt'[o] = receipt[o]

LEMMA NextKeepsSettled == IInv /\ [Next]_vars => KeepsSettled
<1> USE DEF KeepsSettled
<1>1. ASSUME IInv, Next PROVE KeepsSettled
  <2> USE DEF Terminal, Committed
  <2>1. ASSUME NEW w \in Workers, Commit(w) PROVE KeepsSettled
    <3>1. task[w].pc = "commit" /\ receipt[task[w].op] = NoReceipt
      BY <2>1, <1>1 DEF Commit, At, IInv, ExecutedOnce, Executing, OpOf
    <3>2. UNCHANGED <<state, evidence>>
      BY <2>1 DEF Commit, postgres
    <3>3. \A o \in Operations : o # task[w].op => receipt'[o] = receipt[o]
      BY <2>1, <1>1 DEF Commit, OpOf, duckdb, IInv, TypeOK
    <3> QED
      BY <3>1, <3>2, <3>3
  <2>2. ASSUME NEW w \in Workers,
               Review(w) \/ Project(w) \/ Interrupt(w) \/ Record(w)
        PROVE  KeepsSettled
    <3>1. UNCHANGED receipt
      BY <2>2 DEF Review, Project, Interrupt, Record, duckdb
    <3>2. \A o \in Operations :
            \/ UNCHANGED <<state[o], evidence[o]>>
            \/ state[o] \notin Terminal
            \/ state[o] = "PROJECTED" /\ state'[o] = "PROJECTED" /\ evidence'[o] = evidence[o]
      <4>1. CASE Review(w)
        BY <4>1, <1>1 DEF Review, IInv, TypeOK
      <4>2. CASE Project(w)
        BY <4>2, <1>1 DEF Project, IInv, TypeOK
      <4>3. CASE Interrupt(w)
        BY <4>3, <1>1 DEF Interrupt, IInv, TypeOK
      <4>4. CASE Record(w)
        BY <4>4, <1>1 DEF Record, IInv, TypeOK
      <4> QED
        BY <2>2, <4>1, <4>2, <4>3, <4>4
    <3> QED
      BY <3>1, <3>2
  <2>3. ASSUME NEW w \in Workers, NEW o \in Operations,
               Reserve(w, o) \/ Replay(w, o) \/ RebuildMissingProjection(w, o)
        PROVE  KeepsSettled
    <3>1. UNCHANGED <<receipt, evidence>> /\ (UNCHANGED state \/ Reserve(w, o))
      BY <2>3 DEF Reserve, Replay, RebuildMissingProjection, postgres, duckdb
    <3>2. \A p \in Operations : state[p] # "absent" => state'[p] = state[p]
      BY <3>1, <1>1 DEF Reserve, IInv, TypeOK
    <3> QED
      BY <3>1, <3>2
  <2>4. ASSUME NEW w \in Workers,
               \/ Acquire(w) \/ Open(w) \/ Publish(w) \/ Verify(w)
               \/ Release(w) \/ Get(w) \/ Find(w) \/ Stop(w)
        PROVE  KeepsSettled
    BY <2>4 DEF Acquire, Open, Publish, Verify, Release, Get, Find, Stop, postgres, duckdb
  <2>5. CASE Tick
    BY <2>5 DEF Tick, postgres, duckdb
  <2> QED
    BY <1>1, <2>1, <2>2, <2>3, <2>4, <2>5 DEF Next, Proceed
<1>2. ASSUME UNCHANGED vars PROVE KeepsSettled
  BY <1>2 DEF vars, postgres, duckdb, Terminal, Committed
<1> QED
  BY <1>1, <1>2

(* A settled operation keeps its outcome and its evidence, and no receipt  *)
(* is rewritten once it is committed.                                      *)
THEOREM SettlementIsFinal == Spec => SettledForGood
<1>1. IInv /\ [Next]_vars =>
        [\A o \in Operations :
           /\ state[o] \in Terminal => state'[o] = state[o] /\ evidence'[o] = evidence[o]
           /\ Committed(o) => receipt'[o] = receipt[o]]_vars
  BY NextKeepsSettled DEF KeepsSettled
<1> QED
  BY Invariance, <1>1, PTL DEF Spec, SettledForGood

---------------------------------------------------------------------------
(* The outcome and the effect of OperationOutcome, and how a step of the   *)
(* protocol changes them: in the operation it is about, if at all.         *)
outcomes == [o \in Operations |-> OutcomeOf(state[o])]
effects == {o \in Operations : Committed(o)}

LEMMA SameOutcomes ==
  ASSUME IInv, UNCHANGED receipt,
         \A o \in Operations : OutcomeOf(state'[o]) = OutcomeOf(state[o])
  PROVE  UNCHANGED <<outcomes, effects>>
BY DEF outcomes, effects, Committed

LEMMA OneOutcome ==
  ASSUME IInv, UNCHANGED receipt, NEW p \in Operations, NEW s \in States,
         state' = [state EXCEPT ![p] = s]
  PROVE  /\ outcomes' = [outcomes EXCEPT ![p] = OutcomeOf(s)]
         /\ UNCHANGED effects
<1>1. state' \in [Operations -> States] /\ state'[p] = s
      /\ \A o \in Operations : o # p => state'[o] = state[o]
  BY DEF IInv, TypeOK
<1> QED
  BY <1>1 DEF outcomes, effects, Committed

(* A worker that is not idle works for an operation that was asked for.    *)
LEMMA Asked ==
  ASSUME IInv, NEW w \in Workers, task[w].pc # "idle"
  PROVE  task[w].op \in Operations /\ state[task[w].op] \in States \ {"absent"}
BY DEF IInv, TypeOK, OnItsWay, InItsPlace

(* The protocol implements OperationOutcome: with any workers, stops and   *)
(* replays, an operation is asked for once, takes effect once, when its    *)
(* receipt is committed, and is answered once, with success only for an    *)
(* effect that was taken (execute, recover and the journal's rules).       *)
THEOREM RefinesOutcome == Spec => ImplementsOutcome
<1> DEFINE Abstract == Outcome!Next \/ UNCHANGED <<outcomes, effects>>
<1>1. Init => Outcome!Init
  BY DEF Init, Outcome!Init, OutcomeOf, Committed
<1>2. ASSUME IInv, Next PROVE Abstract
  <2> USE DEF States
  <2>1. ASSUME NEW w \in Workers, NEW o \in Operations, Reserve(w, o) PROVE Abstract
    <3>1. state[o] = "absent" /\ state' = [state EXCEPT ![o] = "RESERVED"] /\ UNCHANGED receipt
      BY <2>1 DEF Reserve, duckdb
    <3>2. outcomes' = [outcomes EXCEPT ![o] = OutcomeOf("RESERVED")] /\ UNCHANGED effects
      BY <1>2, <3>1, OneOutcome
    <3>3. outcomes[o] = "absent" /\ OutcomeOf("RESERVED") = "pending"
      BY <3>1 DEF outcomes, OutcomeOf
    <3>4. Outcome!Ask(o)
      BY <3>2, <3>3 DEF Outcome!Ask, outcomes, effects
    <3> QED
      BY <3>4 DEF Outcome!Next
  <2>2. ASSUME NEW w \in Workers, Commit(w) PROVE Abstract
    <3> DEFINE o == task[w].op
    <3>1. /\ task[w].pc = "commit" /\ receipt[o] = NoReceipt /\ task[w].lease.token > 0
          /\ UNCHANGED state
      BY <2>2, <1>2 DEF Commit, At, IInv, ExecutedOnce, Executing, OnItsWay, OpOf, postgres
    <3>2. o \in Operations /\ state[o] \in States \ {"absent"} /\ state[o] # "PROJECTED"
      BY <3>1, <1>2, Asked DEF IInv, InItsPlace
    <3>3. UNCHANGED outcomes
      BY <3>1 DEF outcomes
    <3>4. CASE UNCHANGED duckdb
      BY <3>3, <3>4 DEF duckdb, effects, Committed
    <3>5. ASSUME NEW r, r.token > 0, receipt' = [receipt EXCEPT ![o] = r] PROVE Abstract
      <4>1. r # NoReceipt
        BY <3>5 DEF NoReceipt
      <4>2. effects' = effects \cup {o} /\ o \notin effects
        BY <4>1, <3>1, <3>2, <3>5, <1>2 DEF effects, Committed, IInv, TypeOK
      <4>3. outcomes[o] \in {"pending", "failed"}
        BY <3>2 DEF outcomes, OutcomeOf
      <4>4. Outcome!TakeEffect(o)
        BY <4>2, <4>3, <3>3 DEF Outcome!TakeEffect, outcomes, effects
      <4> QED
        BY <4>4, <3>2 DEF Outcome!Next
    <3>6. \/ UNCHANGED duckdb
          \/ \E at \in Clock(w) :
               receipt' = [receipt EXCEPT ![o] = [token |-> task[w].lease.token, at |-> at]]
      BY <2>2 DEF Commit, OpOf
    <3> QED
      BY <3>1, <3>4, <3>5, <3>6
  <2>3. ASSUME NEW w \in Workers, Record(w) PROVE Abstract
    <3>1. UNCHANGED receipt /\ task[w].pc = "record"
      BY <2>3 DEF Record, duckdb, At
    <3>2. \A o \in Operations : OutcomeOf(state'[o]) = OutcomeOf(state[o])
      BY <2>3, <1>2 DEF Record, IInv, TypeOK, OutcomeOf
    <3> QED
      BY <3>1, <3>2, <1>2, SameOutcomes
  <2>4. ASSUME NEW w \in Workers, Review(w) \/ Interrupt(w) PROVE Abstract
    <3> DEFINE o == task[w].op
    <3>1. UNCHANGED receipt /\ task[w].pc # "idle"
      BY <2>4 DEF Review, Interrupt, duckdb, At
    <3>2. o \in Operations /\ state[o] \in States \ {"absent"}
      BY <3>1, <1>2, Asked
    <3>3. \/ UNCHANGED state
          \/ /\ state[o] \in {"RESERVED", "DATA_COMMITTED"}
             /\ \E s \in {"MANUAL_REVIEW", "INTERRUPTED"} : state' = [state EXCEPT ![o] = s]
      BY <2>4, <3>2 DEF Review, Interrupt, OpOf, Terminal
    <3>4. CASE UNCHANGED state
      BY <3>1, <3>4, <1>2, SameOutcomes
    <3>5. ASSUME NEW s \in {"MANUAL_REVIEW", "INTERRUPTED"},
                 state[o] \in {"RESERVED", "DATA_COMMITTED"},
                 state' = [state EXCEPT ![o] = s]
          PROVE  Abstract
      <4>1. outcomes' = [outcomes EXCEPT ![o] = OutcomeOf(s)] /\ UNCHANGED effects
        BY <3>1, <3>2, <3>5, <1>2, OneOutcome
      <4>2. outcomes[o] = "pending" /\ OutcomeOf(s) = "failed"
        BY <3>2, <3>5 DEF outcomes, OutcomeOf
      <4>3. outcomes' = [p \in Operations |-> IF p \in {o} THEN "failed" ELSE outcomes[p]]
        BY <4>1, <4>2 DEF outcomes
      <4>4. Outcome!GiveUp({o})
        BY <4>1, <4>2, <4>3 DEF Outcome!GiveUp, outcomes, effects
      <4> QED
        BY <4>4, <3>2 DEF Outcome!Next
    <3> QED
      BY <3>3, <3>4, <3>5
  <2>5. ASSUME NEW w \in Workers, Project(w) PROVE Abstract
    <3> DEFINE o == task[w].op
    <3>1. UNCHANGED receipt /\ task[w].pc = "project"
      BY <2>5 DEF Project, duckdb, At
    <3>2. o \in Operations /\ state[o] \in States \ {"absent"}
      BY <3>1, <1>2, Asked
    <3>3. \/ UNCHANGED state
          \/ state[o] \in {"DATA_COMMITTED", "PROJECTED"} /\ state' = [state EXCEPT ![o] = "PROJECTED"]
      BY <2>5 DEF Project, OpOf
    <3>4. CASE UNCHANGED state
      BY <3>1, <3>4, <1>2, SameOutcomes
    <3>5. CASE state[o] = "PROJECTED" /\ state' = [state EXCEPT ![o] = "PROJECTED"]
      <4>1. UNCHANGED state
        BY <3>5, <3>2, <1>2 DEF IInv, TypeOK
      <4> QED
        BY <3>1, <4>1, <1>2, SameOutcomes
    <3>6. CASE state[o] = "DATA_COMMITTED" /\ state' = [state EXCEPT ![o] = "PROJECTED"]
      <4>1. outcomes' = [outcomes EXCEPT ![o] = OutcomeOf("PROJECTED")] /\ UNCHANGED effects
        BY <3>1, <3>2, <3>6, <1>2, OneOutcome
      <4>2. outcomes[o] = "pending" /\ OutcomeOf("PROJECTED") = "done"
        BY <3>2, <3>6 DEF outcomes, OutcomeOf
      <4>3. o \in effects
        BY <3>2, <3>6, <1>2 DEF effects, Committed, IInv, InItsPlace
      <4>4. Outcome!Succeed(o)
        BY <4>1, <4>2, <4>3 DEF Outcome!Succeed, outcomes, effects
      <4> QED
        BY <4>4, <3>2 DEF Outcome!Next
    <3> QED
      BY <3>3, <3>4, <3>5, <3>6
  <2>6. ASSUME UNCHANGED <<state, receipt>> PROVE Abstract
    BY <2>6 DEF outcomes, effects, Committed
  <2>7. ASSUME NEW w \in Workers, NEW o \in Operations,
               Replay(w, o) \/ RebuildMissingProjection(w, o)
        PROVE  UNCHANGED <<state, receipt>>
    BY <2>7 DEF Replay, RebuildMissingProjection, postgres, duckdb
  <2>8. ASSUME NEW w \in Workers,
               \/ Acquire(w) \/ Open(w) \/ Publish(w) \/ Verify(w)
               \/ Release(w) \/ Get(w) \/ Find(w) \/ Stop(w)
        PROVE  UNCHANGED <<state, receipt>>
    BY <2>8 DEF Acquire, Open, Publish, Verify, Release, Get, Find, Stop, postgres, duckdb
  <2>9. CASE Tick
    BY <2>6, <2>9 DEF Tick, postgres, duckdb
  <2> QED
    BY <1>2, <2>1, <2>2, <2>3, <2>4, <2>5, <2>6, <2>7, <2>8, <2>9 DEF Next, Proceed
<1>3. ASSUME UNCHANGED vars PROVE Abstract
  BY <1>3 DEF vars, postgres, duckdb, outcomes, effects, Committed
<1>4. IInv /\ [Next]_vars => [Outcome!Next]_<<outcomes, effects>>
  BY <1>2, <1>3
<1>5. <<outcomes, effects>> = <<[o \in Operations |-> OutcomeOf(state[o])],
                               {o \in Operations : Committed(o)}>>
  BY DEF outcomes, effects
<1> QED
  BY Invariance, <1>1, <1>4, PTL DEF Spec, ImplementsOutcome, Outcome!Spec, outcomes, effects

---------------------------------------------------------------------------
(* A loss is final: an operation that anyone reports on, or that is in     *)
(* manual review, is committed and nobody is about to publish its file; so *)
(* a worker that publishes is the only one to do it.                       *)
Publishing(o) == \E w \in Workers : At(w, "publish") /\ OpOf(w) = o
Reports(w) == task[w].pc \in {"record", "verify", "project", "review"}
Reported(o) ==
  \/ evidence[o] # NoReceipt
  \/ state[o] = "MANUAL_REVIEW"
  \/ \E w \in Workers : Reports(w) /\ OpOf(w) = o

LossIsFinal ==
  /\ \A o \in Operations : Reported(o) => Committed(o) /\ ~Publishing(o)
  /\ \A v, w \in Workers : At(v, "publish") /\ At(w, "publish") /\ OpOf(v) = OpOf(w) => v = w

(* A step of one worker towards a report.                                  *)
LEMMA ReportStep ==
  ASSUME LossIsFinal, UNCHANGED receipt, NEW w \in Workers, Others(w),
         \A o \in Operations :
           evidence'[o] # NoReceipt \/ state'[o] = "MANUAL_REVIEW" => Reported(o),
         ~At(w, "publish")',
         Reports(w)' =>
           /\ Committed(task'[w].op)
           /\ \A v \in Workers \ {w} : ~(At(v, "publish") /\ OpOf(v) = task'[w].op)
  PROVE  LossIsFinal'
<1>1. \A v \in Workers : At(v, "publish")' => v # w /\ At(v, "publish") /\ task'[v] = task[v]
  BY DEF Others, At
<1>2. ASSUME NEW o \in Operations, Reported(o)' PROVE Committed(o)' /\ ~Publishing(o)'
  <2>1. Committed(o)' <=> Committed(o)
    BY DEF Committed
  <2>2. CASE Reported(o)
    BY <1>1, <2>1, <2>2 DEF LossIsFinal, Publishing, OpOf
  <2>3. CASE Reports(w)' /\ task'[w].op = o
    BY <1>1, <2>1, <2>3 DEF Publishing, OpOf
  <2>4. Reported(o) \/ (Reports(w)' /\ task'[w].op = o)
    BY <1>2 DEF Reported, Reports, OpOf, Others
  <2> QED
    BY <2>2, <2>3, <2>4
<1>3. \A u, v \in Workers : (At(u, "publish") /\ At(v, "publish") /\ OpOf(u) = OpOf(v))' => u = v
  BY <1>1 DEF LossIsFinal, OpOf
<1> QED
  BY <1>2, <1>3 DEF LossIsFinal

(* A worker that already reports may go on to.                             *)
LEMMA ReportsOn ==
  ASSUME IInv, LossIsFinal, NEW w \in Workers, Reports(w), task[w].op \in Operations
  PROVE  /\ Reported(task[w].op) /\ Committed(task[w].op)
         /\ \A v \in Workers \ {w} : ~(At(v, "publish") /\ OpOf(v) = task[w].op)
BY DEF Reported, Reports, LossIsFinal, Publishing, OpOf

LEMMA NextLoss == IInv /\ LossIsFinal /\ [Next]_vars => LossIsFinal'
<1> SUFFICES ASSUME IInv, LossIsFinal, [Next]_vars PROVE LossIsFinal'
  OBVIOUS
<1> USE DEF IInv
<1>1. ASSUME NEW w \in Workers, NEW o \in Operations,
             Reserve(w, o) \/ Replay(w, o) \/ RebuildMissingProjection(w, o)
      PROVE  LossIsFinal'
  <2>1. /\ Others(w) /\ task'[w].pc \in {"acquire", "get"}
        /\ UNCHANGED <<receipt, evidence>>
    BY <1>1, BeginTask
    DEF Reserve, Replay, RebuildMissingProjection, postgres, duckdb, TypeOK, Steps
  <2>2. \A p \in Operations : state'[p] = "MANUAL_REVIEW" => state[p] = "MANUAL_REVIEW"
    BY <1>1 DEF Reserve, Replay, RebuildMissingProjection, postgres, TypeOK
  <2>3. \A p \in Operations : evidence'[p] # NoReceipt \/ state'[p] = "MANUAL_REVIEW" => Reported(p)
    BY <2>1, <2>2 DEF Reported
  <2>4. ~At(w, "publish")' /\ ~Reports(w)'
    BY <2>1 DEF At, Reports
  <2> QED
    BY <2>1, <2>3, <2>4, ReportStep
<1>2. ASSUME NEW w \in Workers,
             \/ Leave(w)
             \/ \E pc \in {"commit", "find", "interrupt"} : Move(w, pc)
             \/ MoveToClock(w, "commit")
             \/ MoveToClock(w, "release")
             \/ \E row : task' = [task EXCEPT ![w].pc = "open", ![w].since = 0, ![w].lease = row],
             UNCHANGED <<receipt, evidence>>,
             \A p \in Operations : state'[p] = "MANUAL_REVIEW" => Reported(p)
      PROVE  LossIsFinal'
  <2>1. Others(w) /\ task'[w].pc \in {"idle", "open", "commit", "find", "interrupt", "release"}
    <3>1. CASE Leave(w)
      BY <3>1, LeaveTask DEF TypeOK
    <3>2. CASE \E pc \in {"commit", "find", "interrupt"} : Move(w, pc)
      BY <3>2, MoveTask DEF TypeOK, Steps
    <3>3. CASE MoveToClock(w, "commit") \/ MoveToClock(w, "release")
      BY <3>3, MoveToClockTask DEF TypeOK, Steps
    <3>4. ASSUME NEW row, task' = [task EXCEPT ![w].pc = "open", ![w].since = 0, ![w].lease = row]
          PROVE  Others(w) /\ task'[w].pc = "open"
      BY <3>4 DEF TypeOK, Task, Others
    <3> QED
      BY <1>2, <3>1, <3>2, <3>3, <3>4
  <2>2. \A p \in Operations : evidence'[p] # NoReceipt \/ state'[p] = "MANUAL_REVIEW" => Reported(p)
    BY <1>2 DEF Reported
  <2>3. ~At(w, "publish")' /\ ~Reports(w)'
    BY <2>1 DEF At, Reports
  <2> QED
    BY <1>2, <2>1, <2>2, <2>3, ReportStep
<1>3. ASSUME NEW w \in Workers, Acquire(w) \/ Open(w) \/ Release(w) \/ Stop(w) PROVE LossIsFinal'
  <2>1. UNCHANGED <<receipt, evidence, state>>
    BY <1>3 DEF Acquire, Open, Release, Stop, postgres, duckdb
  <2>2. \A p \in Operations : state'[p] = "MANUAL_REVIEW" => Reported(p)
    BY <2>1 DEF Reported
  <2>3. \/ Leave(w) \/ MoveToClock(w, "commit")
        \/ \E row : task' = [task EXCEPT ![w].pc = "open", ![w].since = 0, ![w].lease = row]
    BY <1>3 DEF Acquire, Open, Release, Stop
  <2> QED
    BY <1>2, <2>1, <2>2, <2>3
<1>4. ASSUME NEW w \in Workers, Commit(w) PROVE LossIsFinal'
  <2>1. task[w].pc = "commit" /\ task[w] \in Task /\ task[w].op \in Operations
    BY <1>4 DEF Commit, At, TypeOK, OnItsWay
  <2>2. UNCHANGED <<state, evidence>>
    BY <1>4 DEF Commit, postgres
  <2>3. CASE UNCHANGED duckdb /\ Leave(w)
    <3>1. \A p \in Operations : state'[p] = "MANUAL_REVIEW" => Reported(p)
      BY <2>2 DEF Reported
    <3> QED
      BY <1>2, <2>2, <2>3, <3>1 DEF duckdb
  <2>4. ASSUME NEW at \in Clock(w), NEW r, r = [token |-> task[w].lease.token, at |-> at],
               receipt' = [receipt EXCEPT ![OpOf(w)] = r], MoveWith(w, "publish", r)
        PROVE  LossIsFinal'
    <3> PICK o \in Operations : o = task[w].op
      BY <2>1
    <3>1. r \in Receipt /\ r # NoReceipt
      <4>1. task[w].lease.token \in Nat \ {0} /\ at \in Nat
        BY <2>1, <2>4 DEF Task, LeaseRow, Clock, TypeOK, OnItsWay
      <4> QED
        BY <2>4, <4>1 DEF Receipt, NoReceipt
    <3>2. Others(w) /\ task'[w].pc = "publish" /\ task'[w].op = o
      BY <2>4, <3>1, MoveWithTask DEF TypeOK, Steps
    <3>3. receipt[o] = NoReceipt
      BY <2>1 DEF ExecutedOnce, Executing, OpOf
    <3>4. ~Reported(o) /\ ~Committed(o)
      BY <3>3 DEF LossIsFinal, Committed
    <3>5. \A p \in Operations : p # o => (Committed(p)' <=> Committed(p))
      BY <2>1, <2>4 DEF Committed, TypeOK, OpOf
    <3>6. \A p \in Operations : Reported(p)' => Reported(p) /\ p # o
      BY <2>2, <3>2, <3>4 DEF Reported, Reports, OpOf, Others
    <3>7. \A p \in Operations : p # o /\ Publishing(p)' => Publishing(p)
      BY <3>2 DEF Publishing, At, OpOf, Others
    <3>8. \A v \in Workers : ~(At(v, "publish") /\ OpOf(v) = o)
      BY <3>3 DEF OnItsWay, At, OpOf
    <3>9. \A u, v \in Workers : (At(u, "publish") /\ At(v, "publish") /\ OpOf(u) = OpOf(v))' => u = v
      BY <3>2, <3>8 DEF LossIsFinal, At, OpOf, Others
    <3> QED
      BY <3>5, <3>6, <3>7, <3>9 DEF LossIsFinal
  <2> QED
    BY <1>4, <2>3, <2>4 DEF Commit
<1>5. ASSUME NEW w \in Workers, Publish(w) PROVE LossIsFinal'
  <2>1. /\ task[w].pc = "publish" /\ task[w].op \in Operations /\ receipt[task[w].op] # NoReceipt
        /\ UNCHANGED <<receipt, evidence, state>> /\ Move(w, "record")
    BY <1>5 DEF Publish, At, OnItsWay, postgres, duckdb
  <2>2. Others(w) /\ task'[w].pc = "record" /\ task'[w].op = task[w].op
    BY <2>1, MoveTask DEF TypeOK, Steps
  <2>3. \A v \in Workers \ {w} : ~(At(v, "publish") /\ OpOf(v) = task'[w].op)
    BY <2>1, <2>2 DEF LossIsFinal, At, OpOf
  <2>4. Committed(task'[w].op) /\ ~At(w, "publish")'
    BY <2>1, <2>2 DEF Committed, At
  <2>5. \A p \in Operations : evidence'[p] # NoReceipt \/ state'[p] = "MANUAL_REVIEW" => Reported(p)
    BY <2>1 DEF Reported
  <2> QED
    BY <2>1, <2>2, <2>3, <2>4, <2>5, ReportStep
<1>6. ASSUME NEW w \in Workers, Record(w) \/ Verify(w) \/ Project(w) \/ Review(w) PROVE LossIsFinal'
  <2>1. Reports(w) /\ task[w].op \in Operations /\ UNCHANGED receipt
    BY <1>6 DEF Record, Verify, Project, Review, At, Reports, OnItsWay, duckdb
  <2>2. /\ Reported(task[w].op) /\ Committed(task[w].op)
        /\ \A v \in Workers \ {w} : ~(At(v, "publish") /\ OpOf(v) = task[w].op)
    BY <2>1, ReportsOn
  <2>3. Others(w) /\ (task'[w].op = task[w].op \/ ~Reports(w)') /\ ~At(w, "publish")'
    <3>1. CASE Leave(w)
      BY <3>1, LeaveTask DEF TypeOK, Reports, At
    <3>2. CASE \E pc \in {"verify", "project", "review"} : Move(w, pc)
      BY <3>2, MoveTask DEF TypeOK, Steps, At
    <3>3. CASE MoveToClock(w, "release")
      BY <3>3, MoveToClockTask DEF TypeOK, Steps, At
    <3>4. \/ Leave(w) \/ MoveToClock(w, "release")
          \/ \E pc \in {"verify", "project", "review"} : Move(w, pc)
      BY <1>6 DEF Record, Verify, Project, Review, AfterProjection
    <3> QED
      BY <3>1, <3>2, <3>3, <3>4
  <2>4. \A p \in Operations : p # task[w].op => evidence'[p] = evidence[p] /\ state'[p] = state[p]
    <3>1. CASE Record(w)
      BY <3>1 DEF Record, OpOf, TypeOK
    <3>2. CASE Verify(w)
      BY <3>2 DEF Verify, postgres
    <3>3. CASE Project(w)
      BY <3>3 DEF Project, OpOf, TypeOK
    <3>4. CASE Review(w)
      BY <3>4 DEF Review, OpOf, TypeOK
    <3> QED
      BY <1>6, <3>1, <3>2, <3>3, <3>4
  <2>5. \A p \in Operations : evidence'[p] # NoReceipt \/ state'[p] = "MANUAL_REVIEW" => Reported(p)
    BY <2>2, <2>4 DEF Reported
  <2>6. Reports(w)' =>
          /\ Committed(task'[w].op)
          /\ \A v \in Workers \ {w} : ~(At(v, "publish") /\ OpOf(v) = task'[w].op)
    BY <2>2, <2>3
  <2> QED
    BY <2>1, <2>3, <2>5, <2>6, ReportStep
<1>7. ASSUME NEW w \in Workers, Get(w) \/ Find(w) PROVE LossIsFinal'
  <2> PICK o \in Operations : o = task[w].op
    BY <1>7 DEF Get, Find, At, OnItsWay
  <2>1. UNCHANGED <<receipt, evidence, state>>
    BY <1>7 DEF Get, Find, postgres, duckdb
  <2>2. \A p \in Operations : evidence'[p] # NoReceipt \/ state'[p] = "MANUAL_REVIEW" => Reported(p)
    BY <2>1 DEF Reported
  <2>3. CASE Leave(w) \/ \E pc \in {"find", "interrupt"} : Move(w, pc)
    BY <1>2, <2>1, <2>2, <2>3
  <2>4. ASSUME NEW r \in Receipt, MoveWith(w, "record", r), Committed(o), ~Publishing(o)
        PROVE  LossIsFinal'
    <3>1. Others(w) /\ task'[w].pc = "record" /\ task'[w].op = o
      BY <2>4, MoveWithTask DEF TypeOK, Steps
    <3>2. ~At(w, "publish")' /\ \A v \in Workers \ {w} : ~(At(v, "publish") /\ OpOf(v) = task'[w].op)
      BY <2>4, <3>1 DEF Publishing, At
    <3> QED
      BY <2>1, <2>2, <2>4, <3>1, <3>2, ReportStep
  <2>5. CASE Get(w)
    <3>1. CASE state[o] = "DATA_COMMITTED" /\ MoveWith(w, "record", evidence[o])
      <4>1. Reported(o) /\ evidence[o] \in Receipt
        BY <3>1 DEF Reported, InItsPlace, TypeOK
      <4> QED
        BY <2>4, <3>1, <4>1 DEF LossIsFinal
    <3> QED
      BY <2>3, <2>5, <3>1 DEF Get, OpOf
  <2>6. CASE Find(w)
    <3>1. CASE /\ ~\E v \in Workers : HasOpen(v, WsOf(w))
               /\ receipt[o] # NoReceipt /\ MoveWith(w, "record", receipt[o])
      <4>1. ~Publishing(o)
        BY <3>1 DEF Publishing, HasOpen, At, OpOf, WsOf
      <4>2. receipt[o] \in Receipt /\ Committed(o)
        BY <3>1 DEF TypeOK, Committed
      <4> QED
        BY <2>4, <3>1, <4>1, <4>2
    <3> QED
      BY <2>3, <2>6, <3>1 DEF Find, OpOf
  <2> QED
    BY <1>7, <2>5, <2>6
<1>8. ASSUME NEW w \in Workers, Interrupt(w) PROVE LossIsFinal'
  <2>1. UNCHANGED <<receipt, evidence>> /\ Leave(w)
    BY <1>8 DEF Interrupt, duckdb
  <2>2. \A p \in Operations : state'[p] = "MANUAL_REVIEW" => Reported(p)
    BY <1>8 DEF Interrupt, OpOf, Reported, TypeOK
  <2> QED
    BY <1>2, <2>1, <2>2
<1>9. CASE Tick \/ UNCHANGED vars
  BY <1>9 DEF Tick, vars, postgres, duckdb, LossIsFinal, Reported, Reports, Publishing, Committed,
              At, OpOf
<1> QED
  BY <1>1, <1>3, <1>4, <1>5, <1>6, <1>7, <1>8, <1>9 DEF Next, Proceed

(* Manual review is for a loss that nobody can make good any more: the     *)
(* work is committed and its executor is gone before it published the file *)
(* (find_by_operation meets no open writer; _finalize; review).            *)
THEOREM ReviewStaysFinalLoss == Spec => []ReviewIsFinalLoss
<1>1. Init => LossIsFinal
  BY IdleTask DEF Init, LossIsFinal, Reported, Reports, At, OpOf
<1>2. LossIsFinal => ReviewIsFinalLoss
  BY DEF LossIsFinal, ReviewIsFinalLoss, Reported, Publishing
<1> QED
  BY Invariance, NextLoss, <1>1, <1>2, PTL DEF Spec

---------------------------------------------------------------------------
(* Fencing.  A copy of a lease that is no longer the row's has run out, so *)
(* who still writes with it can only commit at an earlier time than those  *)
(* who opened the file after it was superseded.                            *)
Token(w) == task[w].lease.token
Writes(w) == task[w].pc \in {"open", "commit"}
Rivals(v, w) == Token(v) > 0 /\ Token(w) > 0 /\ WsOf(v) = WsOf(w)

TokensAreLeased ==
  /\ \A w \in Workers : Token(w) > 0 =>
       task[w].op \in Operations /\ Token(w) <= lease[WsOf(w)].token
  /\ \A v, w \in Workers : Rivals(v, w) /\ Token(v) = Token(w) => v = w

CopiesRunOut ==
  /\ \A w \in Workers : task[w].since <= now
  /\ \A w \in Workers : Writes(w) =>
       \/ /\ Token(w) = lease[WsOf(w)].token /\ ~lease[WsOf(w)].released
          /\ task[w].lease.expires = lease[WsOf(w)].expires
       \/ Token(w) < lease[WsOf(w)].token /\ task[w].lease.expires <= now
  /\ \A v, w \in Workers :
       Rivals(v, w) /\ Writes(v) /\ At(w, "commit") /\ Token(v) < Token(w) =>
         task[v].lease.expires <= task[w].since

CommitsArePast ==
  /\ \A o \in Operations : receipt[o].at <= now
  /\ \A w \in Workers, o \in Operations :
       /\ At(w, "commit") /\ Committed(o) /\ WorkspaceOf[o] = WsOf(w)
       /\ receipt[o].token < Token(w)
       => receipt[o].at <= task[w].since

FencedInv == TokensAreLeased /\ CopiesRunOut /\ CommitsArePast /\ CommitsFollowTokens

(* What the types say of the numbers that are compared.                    *)
LEMMA Numbers ==
  ASSUME IInv
  PROVE  /\ now \in Nat
         /\ \A w \in Workers : /\ Token(w) \in Nat /\ task[w].lease.expires \in Nat
                               /\ task[w].since \in Nat
                               /\ Writes(w) => task[w].op \in Operations /\ Token(w) > 0
                               /\ task[w].op \in Operations => WsOf(w) \in Workspaces
         /\ \A ws \in Workspaces : /\ lease[ws].token \in Nat /\ lease[ws].expires \in Nat
                                   /\ lease[ws] \in LeaseRow /\ fence[ws] \in Nat
         /\ \A o \in Operations : receipt[o].token \in Nat /\ receipt[o].at \in Nat
BY DEF IInv, TypeOK, Task, LeaseRow, Receipt, OnItsWay, Token, Writes, WsOf

(* A step of one worker that goes no nearer to a commit.                   *)
Unfencing(w) ==
  /\ Others(w)
  /\ ~Writes(w)'
  /\ task'[w].since <= now
  /\ \/ task'[w].lease.token = 0
     \/ task'[w].lease = task[w].lease /\ task'[w].op = task[w].op

LEMMA UnfencedTasks ==
  ASSUME IInv, FencedInv, NEW w \in Workers, Unfencing(w), UNCHANGED <<now, lease>>
  PROVE  /\ TokensAreLeased' /\ CopiesRunOut'
         /\ \A v \in Workers : At(v, "commit")' => v # w /\ task'[v] = task[v]
<1> USE DEF FencedInv, Unfencing
<1>1. \A v \in Workers : v # w => task'[v] = task[v]
  BY DEF Others
<1>2. TokensAreLeased'
  <2>1. \A v \in Workers : Token(v)' > 0 =>
          Token(v)' = Token(v) /\ task'[v].op = task[v].op
    BY <1>1 DEF Token
  <2> QED
    BY <2>1 DEF TokensAreLeased, Rivals, WsOf
<1>3. \A v \in Workers : Writes(v)' => v # w /\ task'[v] = task[v] /\ Writes(v)
  BY <1>1 DEF Writes
<1>4. \A v \in Workers : At(v, "commit")' => Writes(v)'
  BY DEF At, Writes
<1>5. CopiesRunOut'
  <2>1. \A v \in Workers : task'[v].since <= now
    BY <1>1 DEF CopiesRunOut
  <2> QED
    BY <1>3, <1>4, <2>1 DEF CopiesRunOut, Rivals, Token, WsOf, At
<1> QED
  BY <1>2, <1>3, <1>4, <1>5

LEMMA UnfencedStep ==
  ASSUME IInv, FencedInv, NEW w \in Workers, Unfencing(w),
         UNCHANGED <<now, lease, receipt, fence>>
  PROVE  FencedInv'
<1>1. CommitsArePast'
  BY UnfencedTasks DEF CommitsArePast, Committed, Token, WsOf, At, FencedInv
<1>2. CommitsFollowTokens'
  BY DEF CommitsFollowTokens, Committed, FencedInv
<1> QED
  BY <1>1, <1>2, UnfencedTasks DEF FencedInv

(* A new lease: whoever writes with the last one cannot any more.          *)
LEMMA AcquireFences ==
  ASSUME IInv, FencedInv, NEW w \in Workers, NEW at \in Clock(w),
         task[w].op \in Operations, MayAcquire(lease[WsOf(w)], at), NEW row,
         row = Acquired(lease[WsOf(w)], at, at + LeaseDuration),
         lease' = [lease EXCEPT ![WsOf(w)] = row],
         task' = [task EXCEPT ![w].pc = "open", ![w].since = 0, ![w].lease = row],
         UNCHANGED <<now, receipt, fence>>
  PROVE  FencedInv'
<1> USE DEF FencedInv
<1> PICK ws \in Workspaces : ws = WsOf(w)
  BY Numbers
<1>1. /\ now \in Nat /\ at \in Nat /\ at <= now /\ lease[ws] \in LeaseRow
      /\ lease[ws].token \in Nat /\ lease[ws].expires \in Nat
  BY Numbers DEF Clock
<1>2. row.token = lease[ws].token + 1 /\ ~row.released /\ row.expires = at + LeaseDuration
  BY DEF Acquired
<1>3. task' = [task EXCEPT ![w] = [task[w] EXCEPT !.pc = "open", !.since = 0, !.lease = row]]
  OBVIOUS
<1>4. /\ task'[w].pc = "open" /\ task'[w].op = task[w].op /\ task'[w].lease = row
      /\ task'[w].since = 0 /\ \A v \in Workers : v # w => task'[v] = task[v]
  BY <1>3 DEF IInv, TypeOK, Task
<1>5. lease'[ws] = row /\ \A x \in Workspaces : x # ws => lease'[x] = lease[x]
  BY DEF IInv, TypeOK
<1>6. WsOf(w)' = ws /\ Token(w)' = lease[ws].token + 1
  BY <1>2, <1>4 DEF WsOf, Token
<1>7. \A v \in Workers : v # w =>
        /\ WsOf(v)' = WsOf(v) /\ Token(v)' = Token(v) /\ (Writes(v)' <=> Writes(v))
        /\ At(v, "commit")' <=> At(v, "commit")
        /\ Token(v) > 0 /\ WsOf(v) = ws => Token(v) <= lease[ws].token
  BY <1>4 DEF WsOf, Token, Writes, At, TokensAreLeased
<1>8. lease[ws].released \/ lease[ws].expires <= now
  BY <1>1 DEF MayAcquire
<1>9. TokensAreLeased'
  <2>1. ASSUME NEW v \in Workers, Token(v)' > 0
        PROVE  task'[v].op \in Operations /\ Token(v)' <= lease'[WsOf(v)'].token
    <3>1. CASE v = w
      BY <1>1, <1>2, <1>4, <1>5, <1>6, <3>1
    <3>2. CASE v # w
      <4>1. task[v].op \in Operations /\ Token(v) <= lease[WsOf(v)].token /\ Token(v) \in Nat
        BY <1>7, <2>1, <3>2, Numbers DEF TokensAreLeased
      <4>2. PICK x \in Workspaces : x = WsOf(v)
        BY <4>1, Numbers
      <4>3. Token(v) <= lease'[x].token
        <5>1. CASE x = ws
          BY <1>1, <1>2, <1>5, <4>1, <4>2, <5>1
        <5>2. CASE x # ws
          BY <1>5, <4>1, <4>2, <5>2
        <5> QED
          BY <5>1, <5>2
      <4>4. WsOf(v)' = x /\ Token(v)' = Token(v) /\ task'[v] = task[v]
        BY <1>4, <1>7, <3>2, <4>2
      <4> QED
        BY <4>1, <4>3, <4>4
    <3> QED
      BY <3>1, <3>2
  <2>2. ASSUME NEW u \in Workers, NEW v \in Workers, Rivals(u, v)', Token(u)' = Token(v)'
        PROVE  u = v
    <3>1. CASE u # w /\ v # w
      BY <1>7, <2>2, <3>1 DEF Rivals, TokensAreLeased
    <3>2. \A x \in Workers : x # w /\ Token(x)' > 0 /\ WsOf(x)' = ws => Token(x)' # lease[ws].token + 1
      BY <1>1, <1>7, Numbers
    <3>3. /\ Token(u)' > 0 /\ Token(v)' > 0 /\ WsOf(u)' = WsOf(v)' /\ Token(u)' = Token(v)'
      BY <2>2 DEF Rivals
    <3>4. ~(u = w /\ v # w) /\ ~(u # w /\ v = w)
      BY <1>6, <3>2, <3>3
    <3> QED
      BY <3>1, <3>4
  <2> QED
    BY <2>1, <2>2 DEF TokensAreLeased
<1>10. CopiesRunOut'
  <2>1. ASSUME NEW v \in Workers PROVE task'[v].since <= now'
    <3>1. CASE v = w
      BY <1>1, <1>4, <3>1
    <3>2. CASE v # w
      <4>1. task'[v] = task[v] /\ task[v].since <= now /\ now' = now
        BY <1>4, <3>2 DEF CopiesRunOut
      <4> QED
        BY <4>1
    <3> QED
      BY <3>1, <3>2
  <2>2. ASSUME NEW v \in Workers, Writes(v)'
        PROVE  \/ /\ Token(v)' = lease'[WsOf(v)'].token /\ ~lease'[WsOf(v)'].released
                  /\ task'[v].lease.expires = lease'[WsOf(v)'].expires
               \/ Token(v)' < lease'[WsOf(v)'].token /\ task'[v].lease.expires <= now'
    <3>1. CASE v = w
      BY <1>2, <1>4, <1>5, <1>6, <3>1
    <3>2. CASE v # w /\ WsOf(v) = ws
      <4>1. /\ Token(v) <= lease[ws].token /\ task[v].lease.expires <= now
            /\ Token(v) \in Nat
        <5>1. Writes(v) /\ Token(v) \in Nat
          BY <1>7, <2>2, <3>2, Numbers
        <5>2. \/ /\ Token(v) = lease[ws].token /\ ~lease[ws].released
                 /\ task[v].lease.expires = lease[ws].expires
              \/ Token(v) < lease[ws].token /\ task[v].lease.expires <= now
          BY <3>2, <5>1 DEF CopiesRunOut
        <5> QED
          BY <1>1, <1>8, <5>1, <5>2
      <4>2. /\ WsOf(v)' = ws /\ Token(v)' = Token(v) /\ task'[v] = task[v]
            /\ lease'[ws] = row /\ now' = now
        BY <1>4, <1>5, <1>7, <3>2
      <4>3. Token(v) < row.token
        BY <1>1, <1>2, <4>1
      <4>4. lease'[WsOf(v)'] = row
        BY <4>2
      <4> QED
        BY <4>1, <4>2, <4>3, <4>4
    <3>3. CASE v # w /\ WsOf(v) # ws
      <4>1. WsOf(v) \in Workspaces /\ Writes(v)
        BY <1>7, <2>2, <3>3, Numbers
      <4>2. WsOf(v)' = WsOf(v) /\ Token(v)' = Token(v) /\ task'[v] = task[v]
        BY <1>4, <1>7, <3>3
      <4>3. lease'[WsOf(v)] = lease[WsOf(v)] /\ now' = now
        BY <1>5, <3>3, <4>1
      <4> QED
        BY <4>1, <4>2, <4>3 DEF CopiesRunOut
    <3> QED
      BY <3>1, <3>2, <3>3
  <2>3. ASSUME NEW u \in Workers, NEW v \in Workers,
               Rivals(u, v)', Writes(u)', At(v, "commit")', Token(u)' < Token(v)'
        PROVE  task'[u].lease.expires <= task'[v].since
    <3>1. v # w
      BY <1>4, <2>3 DEF At
    <3>2. u # w
      <4> SUFFICES ASSUME u = w PROVE FALSE
        OBVIOUS
      <4>1. WsOf(v) = ws /\ Token(v) > 0 /\ Token(v) \in Nat
        BY <1>6, <1>7, <2>3, <3>1, Numbers DEF Rivals
      <4> QED
        BY <1>1, <1>6, <1>7, <2>3, <3>1, <4>1
    <3> QED
      BY <1>4, <1>7, <2>3, <3>1, <3>2 DEF CopiesRunOut, Rivals
  <2> QED
    BY <2>1, <2>2, <2>3 DEF CopiesRunOut
<1>11. CommitsArePast'
  <2>1. \A v \in Workers : At(v, "commit")' => v # w
    BY <1>4 DEF At
  <2> QED
    BY <1>4, <1>7, <2>1 DEF CommitsArePast, Committed
<1>12. CommitsFollowTokens'
  BY DEF CommitsFollowTokens, Committed
<1> QED
  BY <1>9, <1>10, <1>11, <1>12

(* The file is open: everything before this moment is past.                *)
LEMMA OpenFences ==
  ASSUME IInv, FencedInv, NEW w \in Workers, Open(w) PROVE FencedInv'
<1> USE DEF FencedInv
<1>1. /\ task[w].pc = "open" /\ MoveToClock(w, "commit")
      /\ UNCHANGED <<now, lease, receipt, fence>>
  BY DEF Open, At, postgres, duckdb
<1>2. /\ task'[w].pc = "commit" /\ task'[w].op = task[w].op /\ task'[w].lease = task[w].lease
      /\ task'[w].since = now /\ \A v \in Workers : v # w => task'[v] = task[v]
  BY <1>1, MoveToClockTask DEF IInv, TypeOK, Steps, Others
<1>3. /\ now \in Nat /\ Writes(w) /\ Token(w) > 0 /\ WsOf(w) \in Workspaces
      /\ \A v \in Workers : Token(v) \in Nat /\ task[v].lease.expires \in Nat
  BY <1>1, Numbers DEF Writes
<1>4. \A v \in Workers :
        /\ WsOf(v)' = WsOf(v) /\ Token(v)' = Token(v) /\ (Writes(v)' <=> Writes(v))
        /\ task'[v].lease = task[v].lease /\ task'[v].op = task[v].op
        /\ v # w => task'[v] = task[v] /\ (At(v, "commit")' <=> At(v, "commit"))
  BY <1>1, <1>2 DEF WsOf, Token, Writes, At
<1>5. TokensAreLeased'
  BY <1>1, <1>4 DEF TokensAreLeased, Rivals
<1>6. CopiesRunOut'
  <2>1. \A v \in Workers : task'[v].since <= now'
    BY <1>1, <1>2, <1>3 DEF CopiesRunOut
  <2>2. ASSUME NEW u \in Workers, NEW v \in Workers,
               Rivals(u, v)', Writes(u)', At(v, "commit")', Token(u)' < Token(v)'
        PROVE  task'[u].lease.expires <= task'[v].since
    <3>1. CASE v # w
      BY <1>4, <2>2, <3>1 DEF CopiesRunOut, Rivals
    <3>2. CASE v = w
      <4>1. Token(u) < Token(w) /\ Writes(u) /\ WsOf(u) = WsOf(w) /\ Token(w) <= lease[WsOf(w)].token
        BY <1>3, <1>4, <2>2, <3>2 DEF Rivals, TokensAreLeased
      <4>2. task[u].lease.expires <= now
        BY <1>3, <4>1, Numbers DEF CopiesRunOut
      <4> QED
        BY <1>2, <1>4, <3>2, <4>2
    <3> QED
      BY <3>1, <3>2
  <2>3. \A v \in Workers : Writes(v)' =>
          \/ /\ Token(v)' = lease'[WsOf(v)'].token /\ ~lease'[WsOf(v)'].released
             /\ task'[v].lease.expires = lease'[WsOf(v)'].expires
          \/ Token(v)' < lease'[WsOf(v)'].token /\ task'[v].lease.expires <= now'
    BY <1>1, <1>4 DEF CopiesRunOut
  <2> QED
    BY <2>1, <2>2, <2>3 DEF CopiesRunOut
<1>7. CommitsArePast'
  BY <1>1, <1>2, <1>4 DEF CommitsArePast, Committed
<1>8. CommitsFollowTokens'
  BY <1>1 DEF CommitsFollowTokens, Committed
<1> QED
  BY <1>5, <1>6, <1>7, <1>8

(* A commit is later than those of smaller tokens, and earlier than the    *)
(* moment any holder of a greater one opened the file.                     *)
LEMMA CommitFences ==
  ASSUME IInv, FencedInv, NEW w \in Workers, Commit(w) PROVE FencedInv'
<1> PICK ws \in Workspaces, o \in Operations, token \in Nat :
      ws = WsOf(w) /\ o = task[w].op /\ token = Token(w)
  BY Numbers DEF Commit, At, Writes
<1>1. /\ At(w, "commit") /\ Writes(w) /\ token > 0 /\ WorkspaceOf[o] = ws
      /\ UNCHANGED <<now, lease>>
  BY Numbers DEF Commit, At, Writes, WsOf, postgres
<1>2. CASE UNCHANGED duckdb /\ Leave(w)
  <2>1. Unfencing(w)
    BY <1>2, LeaveTask, Numbers DEF IInv, TypeOK, Unfencing, Writes
  <2> QED
    BY <1>1, <1>2, <2>1, UnfencedStep DEF duckdb
<1>3. ASSUME NEW at \in Clock(w), ActiveAt(task[w].lease, at), Unfenced(w), NEW r,
             r = [token |-> token, at |-> at],
             receipt' = [receipt EXCEPT ![o] = r],
             fence' = [fence EXCEPT ![ws] = r.token],
             MoveWith(w, "publish", r)
      PROVE  FencedInv'
  <2>1. /\ at \in Nat /\ task[w].since <= at /\ at <= now /\ at < task[w].lease.expires
        /\ fence[ws] < token /\ fence[ws] \in Nat /\ r \in Receipt
        /\ task[w].lease.expires \in Nat /\ task[w].since \in Nat
    BY <1>3, Numbers DEF Clock, ActiveAt, Unfenced, Receipt, Token
  <2>2. /\ receipt'[o] = r /\ r.token = token /\ r.at = at /\ fence'[ws] = token
        /\ \A p \in Operations : p # o => receipt'[p] = receipt[p]
        /\ \A x \in Workspaces : x # ws => fence'[x] = fence[x]
    BY <1>3 DEF IInv, TypeOK
  <2>3. Unfencing(w)
    BY <1>3, <2>1, MoveWithTask, Numbers DEF IInv, TypeOK, Unfencing, Writes, Steps
  <2>4. /\ TokensAreLeased' /\ CopiesRunOut'
        /\ \A v \in Workers : At(v, "commit")' => v # w /\ task'[v] = task[v]
    BY <1>1, <2>3, UnfencedTasks
  <2>5. ASSUME NEW p \in Operations, p # o, Committed(p)', WorkspaceOf[p] = ws
        PROVE  /\ receipt'[p] = receipt[p] /\ receipt[p].token \in Nat
               /\ receipt[p].token < token /\ receipt[p].at <= at
    <3>1. receipt'[p] = receipt[p] /\ Committed(p) /\ receipt[p].token \in Nat /\ receipt[p].at \in Nat
      BY <2>2, <2>5, Numbers DEF Committed
    <3>2. receipt[p].token < token
      BY <2>1, <2>5, <3>1 DEF FencedInv, CommitsFollowTokens
    <3>3. receipt[p].at <= task[w].since
      BY <1>1, <2>5, <3>1, <3>2 DEF FencedInv, CommitsArePast
    <3> QED
      BY <2>1, <3>1, <3>2, <3>3
  <2>6. CommitsFollowTokens'
    <3>1. ASSUME NEW p \in Operations, Committed(p)'
          PROVE  receipt'[p].token <= fence'[WorkspaceOf[p]]
      <4>1. CASE p = o
        BY <1>1, <2>2, <4>1
      <4>2. CASE p # o /\ WorkspaceOf[p] = ws
        BY <2>2, <2>5, <3>1, <4>2
      <4>3. CASE p # o /\ WorkspaceOf[p] # ws
        <5>1. receipt'[p] = receipt[p] /\ fence'[WorkspaceOf[p]] = fence[WorkspaceOf[p]]
          BY <2>2, <4>3
        <5> QED
          BY <3>1, <5>1 DEF FencedInv, CommitsFollowTokens, Committed
      <4> QED
        BY <4>1, <4>2, <4>3
    <3>2. ASSUME NEW p \in Operations, NEW q \in Operations \ {p},
                 Committed(p)', Committed(q)', WorkspaceOf[p] = WorkspaceOf[q]
          PROVE  /\ receipt'[p].token # receipt'[q].token
                 /\ receipt'[p].token < receipt'[q].token => receipt'[p].at <= receipt'[q].at
      <4>1. CASE p = o
        BY <1>1, <2>2, <2>5, <3>2, <4>1
      <4>2. CASE q = o
        BY <1>1, <2>2, <2>5, <3>2, <4>2
      <4>3. CASE p # o /\ q # o
        <5>1. receipt'[p] = receipt[p] /\ receipt'[q] = receipt[q]
          BY <2>2, <4>3
        <5> QED
          BY <3>2, <5>1 DEF FencedInv, CommitsFollowTokens, Committed
      <4> QED
        BY <4>1, <4>2, <4>3
    <3> QED
      BY <3>1, <3>2 DEF CommitsFollowTokens
  <2>7. CommitsArePast'
    <3>1. ASSUME NEW p \in Operations PROVE receipt'[p].at <= now'
      <4>1. CASE p = o
        BY <1>1, <2>1, <2>2, <4>1
      <4>2. CASE p # o
        BY <1>1, <2>2, <4>2 DEF FencedInv, CommitsArePast
      <4> QED
        BY <4>1, <4>2
    <3>2. ASSUME NEW v \in Workers, NEW p \in Operations,
                 At(v, "commit")', Committed(p)', WorkspaceOf[p] = WsOf(v)',
                 receipt'[p].token < Token(v)'
          PROVE  receipt'[p].at <= task'[v].since
      <4>1. /\ v # w /\ task'[v] = task[v] /\ At(v, "commit") /\ Token(v)' = Token(v)
            /\ WorkspaceOf[p] = WsOf(v)
        BY <2>4, <3>2 DEF At, Token, WsOf
      <4>2. CASE p # o
        BY <2>2, <3>2, <4>1, <4>2 DEF FencedInv, CommitsArePast, Committed
      <4>3. CASE p = o
        <5>1. token < Token(v) /\ WsOf(v) = ws /\ Token(v) \in Nat /\ task[v].since \in Nat
          BY <1>1, <2>2, <3>2, <4>1, <4>3, Numbers
        <5>2. Rivals(w, v) /\ Token(w) < Token(v)
          BY <1>1, <5>1 DEF Rivals
        <5>3. task[w].lease.expires <= task[v].since
          BY <1>1, <4>1, <5>2 DEF FencedInv, CopiesRunOut
        <5> QED
          BY <2>1, <2>2, <4>1, <4>3, <5>1, <5>3
      <4> QED
        BY <4>2, <4>3
    <3> QED
      BY <3>1, <3>2 DEF CommitsArePast
  <2> QED
    BY <2>4, <2>6, <2>7 DEF FencedInv
<1> QED
  <2>1. /\ OpOf(w) = o /\ WsOf(w) = ws /\ task[w].lease.token = token
    BY DEF OpOf, Token
  <2>2. \/ UNCHANGED duckdb /\ Leave(w)
        \/ \E at \in Clock(w) :
             /\ ActiveAt(task[w].lease, at) /\ Unfenced(w)
             /\ LET r == [token |-> token, at |-> at] IN
                /\ receipt' = [receipt EXCEPT ![o] = r]
                /\ fence' = [fence EXCEPT ![ws] = r.token]
                /\ MoveWith(w, "publish", r)
    BY <2>1 DEF Commit
  <2> QED
    BY <1>2, <1>3, <2>2

(* A release finds the row its holder saw, and nobody else has its token.  *)
LEMMA ReleaseFences ==
  ASSUME IInv, FencedInv, NEW w \in Workers, Release(w) PROVE FencedInv'
<1> PICK ws \in Workspaces : ws = WsOf(w)
  BY Numbers DEF Release, At, IInv, OnItsWay
<1>1. /\ Leave(w) /\ UNCHANGED <<now, receipt, fence>>
      /\ task'[w].lease.token = 0 /\ task'[w].pc = "idle" /\ task'[w].since = 0
      /\ \A v \in Workers : v # w => task'[v] = task[v]
  BY LeaveTask DEF Release, duckdb, IInv, TypeOK, Others
<1> DEFINE Spared ==
      /\ \A x \in Workspaces : lease'[x].token = lease[x].token
      /\ \A v \in Workers : Writes(v) /\ v # w /\ Token(v) = lease[WsOf(v)].token =>
           lease'[WsOf(v)] = lease[WsOf(v)]
<1>2. Spared
  <2>1. CASE UNCHANGED lease
    BY <2>1
  <2>2. ASSUME NEW at \in Clock(w), MayRelease(lease[ws], task[w].lease, at),
               lease' = [lease EXCEPT ![ws] = Released(@)]
        PROVE  Spared
    <3>1. lease'[ws] = Released(lease[ws]) /\ \A x \in Workspaces : x # ws => lease'[x] = lease[x]
      BY <2>2 DEF IInv, TypeOK
    <3>2. lease'[ws].token = lease[ws].token
      BY <3>1, Numbers DEF Released, LeaseRow
    <3>3. Token(w) = lease[ws].token
      BY <2>2 DEF MayRelease, SameRevision, Token
    <3>4. ASSUME NEW v \in Workers, Writes(v), v # w, Token(v) = lease[WsOf(v)].token
          PROVE  WsOf(v) # ws
      BY <3>3, <3>4, Numbers DEF FencedInv, TokensAreLeased, Rivals
    <3> QED
      BY <3>1, <3>2, <3>4, Numbers
  <2> QED
    BY <2>1, <2>2 DEF Release
<1>3. \A v \in Workers : Token(v)' > 0 => v # w /\ task'[v] = task[v] /\ Token(v)' = Token(v)
  BY <1>1 DEF Token
<1>4. TokensAreLeased'
  <2>1. ASSUME NEW v \in Workers, Token(v)' > 0
        PROVE  task'[v].op \in Operations /\ Token(v)' <= lease'[WsOf(v)'].token
    <3>1. /\ task'[v] = task[v] /\ Token(v)' = Token(v) /\ task[v].op \in Operations
          /\ Token(v) <= lease[WsOf(v)].token /\ WsOf(v) \in Workspaces /\ WsOf(v)' = WsOf(v)
      BY <1>3, <2>1, Numbers DEF FencedInv, TokensAreLeased, WsOf
    <3> QED
      BY <1>2, <3>1
  <2> QED
    BY <1>3, <2>1 DEF FencedInv, TokensAreLeased, Rivals, WsOf
<1>5. \A v \in Workers : Writes(v)' =>
        /\ v # w /\ task'[v] = task[v] /\ Writes(v)
        /\ Token(v)' = Token(v) /\ WsOf(v)' = WsOf(v) /\ WsOf(v) \in Workspaces
  BY <1>1, Numbers DEF Writes, Token, WsOf
<1>6. CopiesRunOut'
  <2>1. \A v \in Workers : task'[v].since <= now'
    BY <1>1, Numbers DEF FencedInv, CopiesRunOut
  <2>2. ASSUME NEW v \in Workers, Writes(v)'
        PROVE  \/ /\ Token(v)' = lease'[WsOf(v)'].token /\ ~lease'[WsOf(v)'].released
                  /\ task'[v].lease.expires = lease'[WsOf(v)'].expires
               \/ Token(v)' < lease'[WsOf(v)'].token /\ task'[v].lease.expires <= now'
    <3>1. CASE Token(v) = lease[WsOf(v)].token
      BY <1>2, <1>5, <2>2, <3>1, Numbers DEF FencedInv, CopiesRunOut
    <3>2. CASE Token(v) # lease[WsOf(v)].token
      <4>1. Token(v) < lease[WsOf(v)].token /\ task[v].lease.expires <= now
        BY <1>5, <2>2, <3>2 DEF FencedInv, CopiesRunOut
      <4> QED
        BY <1>1, <1>2, <1>5, <2>2, <4>1
    <3> QED
      BY <3>1, <3>2
  <2>3. \A v \in Workers : At(v, "commit")' => Writes(v)' /\ At(v, "commit")
    BY <1>1 DEF At, Writes
  <2>4. ASSUME NEW u \in Workers, NEW v \in Workers,
               Rivals(u, v)', Writes(u)', At(v, "commit")', Token(u)' < Token(v)'
        PROVE  task'[u].lease.expires <= task'[v].since
    <3>1. Rivals(u, v) /\ Writes(u) /\ At(v, "commit") /\ Token(u) < Token(v)
      BY <1>5, <2>3, <2>4 DEF Rivals
    <3> QED
      BY <1>5, <2>3, <2>4, <3>1 DEF FencedInv, CopiesRunOut
  <2> QED
    BY <2>1, <2>2, <2>4 DEF CopiesRunOut
<1>7. CommitsArePast'
  <2>1. \A v \in Workers : At(v, "commit")' => task'[v] = task[v]
    BY <1>1 DEF At
  <2> QED
    BY <1>1, <2>1 DEF FencedInv, CommitsArePast, Committed, Token, WsOf, At
<1>8. CommitsFollowTokens'
  BY <1>1 DEF FencedInv, CommitsFollowTokens, Committed
<1> QED
  BY <1>4, <1>6, <1>7, <1>8 DEF FencedInv

(* Every other step of a worker goes no nearer to a commit.                *)
LEMMA NextFences == IInv /\ FencedInv /\ [Next]_vars => FencedInv'
<1> SUFFICES ASSUME IInv, FencedInv, [Next]_vars PROVE FencedInv'
  OBVIOUS
<1> USE DEF IInv, TypeOK, FencedInv
<1>1. ASSUME NEW w \in Workers,
             \/ Leave(w)
             \/ \E pc \in {"record", "verify", "project", "review", "find", "interrupt"} : Move(w, pc)
             \/ \E r \in Receipt : MoveWith(w, "record", r)
             \/ MoveToClock(w, "release")
             \/ \E o \in Operations : Begin(w, o, "acquire", now) \/ Begin(w, o, "get", 0)
      PROVE  Unfencing(w)
  <2> USE DEF Unfencing, Writes, Steps
  <2>1. CASE Leave(w)
    BY <2>1, LeaveTask
  <2>2. CASE \E pc \in {"record", "verify", "project", "review", "find", "interrupt"} : Move(w, pc)
    BY <2>2, MoveTask
  <2>3. CASE \E r \in Receipt : MoveWith(w, "record", r)
    BY <2>3, MoveWithTask
  <2>4. CASE MoveToClock(w, "release")
    BY <2>4, MoveToClockTask
  <2>5. CASE \E o \in Operations : Begin(w, o, "acquire", now) \/ Begin(w, o, "get", 0)
    BY <2>5, BeginTask
  <2> QED
    BY <1>1, <2>1, <2>2, <2>3, <2>4, <2>5
<1>2. ASSUME NEW w \in Workers, NEW o \in Operations,
             Reserve(w, o) \/ Replay(w, o) \/ RebuildMissingProjection(w, o)
      PROVE  FencedInv'
  BY <1>1, <1>2, UnfencedStep DEF Reserve, Replay, RebuildMissingProjection, postgres, duckdb
<1>3. ASSUME NEW w \in Workers, Acquire(w) PROVE FencedInv'
  <2>1. UNCHANGED <<now, receipt, fence>> /\ task[w].op \in Operations
    BY <1>3 DEF Acquire, duckdb, At, OnItsWay
  <2>2. CASE UNCHANGED lease /\ Leave(w)
    BY <1>1, <2>1, <2>2, UnfencedStep
  <2>3. ASSUME NEW at \in Clock(w), MayAcquire(lease[WsOf(w)], at), NEW row,
               row = Acquired(lease[WsOf(w)], at, at + LeaseDuration),
               lease' = [lease EXCEPT ![WsOf(w)] = row],
               task' = [task EXCEPT ![w].pc = "open", ![w].since = 0, ![w].lease = row]
        PROVE  FencedInv'
    BY <2>1, <2>3, AcquireFences, ZenonT(30)
  <2> QED
    BY <1>3, <2>2, <2>3 DEF Acquire
<1>4. ASSUME NEW w \in Workers, Publish(w) \/ Verify(w) \/ Record(w) \/ Review(w) \/ Project(w)
      PROVE  FencedInv'
  <2>1. UNCHANGED <<now, lease, receipt, fence>>
    BY <1>4 DEF Publish, Verify, Record, Review, Project, postgres, duckdb
  <2>2. \/ Leave(w) \/ MoveToClock(w, "release")
        \/ \E pc \in {"record", "verify", "project", "review"} : Move(w, pc)
    BY <1>4 DEF Publish, Verify, Record, Review, Project, AfterProjection
  <2> QED
    BY <1>1, <2>1, <2>2, UnfencedStep
<1>5. ASSUME NEW w \in Workers, Get(w) \/ Find(w) \/ Interrupt(w) \/ Stop(w) PROVE FencedInv'
  <2>1. UNCHANGED <<now, lease, receipt, fence>>
    BY <1>5 DEF Get, Find, Interrupt, Stop, postgres, duckdb
  <2>2. OpOf(w) \in Operations \/ Leave(w)
    BY <1>5 DEF Get, Find, Interrupt, Stop, At, OpOf, OnItsWay
  <2>3. \/ Leave(w) \/ \E pc \in {"find", "interrupt"} : Move(w, pc)
        \/ \E r \in Receipt : MoveWith(w, "record", r)
    BY <1>5, <2>2 DEF Get, Find, Interrupt, Stop
  <2> QED
    BY <1>1, <2>1, <2>3, UnfencedStep
<1>6. CASE Tick
  <2>1. now' = now + 1 /\ UNCHANGED <<lease, receipt, fence, task>>
    BY <1>6 DEF Tick, postgres, duckdb
  <2>2. TokensAreLeased'
    BY <2>1 DEF TokensAreLeased, Rivals, Token, WsOf
  <2>3. CopiesRunOut'
    BY <2>1, Numbers DEF CopiesRunOut, Rivals, Token, WsOf, Writes, At
  <2>4. CommitsArePast'
    BY <2>1, Numbers DEF CommitsArePast, Committed, Token, WsOf, At
  <2>5. CommitsFollowTokens'
    BY <2>1 DEF CommitsFollowTokens, Committed
  <2> QED
    BY <2>2, <2>3, <2>4, <2>5
<1>7. CASE UNCHANGED vars
  BY <1>7 DEF vars, postgres, duckdb, TokensAreLeased, CopiesRunOut, CommitsArePast,
              CommitsFollowTokens, Rivals, Token, WsOf, Writes, At, Committed
<1> QED
  BY <1>2, <1>3, <1>4, <1>5, <1>6, <1>7, OpenFences, CommitFences, ReleaseFences DEF Next, Proceed

---------------------------------------------------------------------------
(* The pointer moves only with a projection, and only forward in the order *)
(* of (committed_at, operation), which is total.                           *)
LEMMA NextNewest ==
  IInv /\ CurrentIsNewest /\ [Next]_vars => CurrentIsNewest'
<1> SUFFICES ASSUME IInv, CurrentIsNewest, [Next]_vars PROVE CurrentIsNewest'
  OBVIOUS
<1> USE DEF IInv, TypeOK
<1>1. \A o \in Operations : state[o] = "PROJECTED" =>
        state'[o] = "PROJECTED" /\ evidence'[o] = evidence[o]
  BY NextKeepsSettled DEF KeepsSettled, Terminal
<1>2. \A o \in Operations : o \in Nat /\ o # NoOperation /\ evidence[o].at \in Nat
  BY DEF Receipt, NoOperation
<1>3. CASE current' = current /\ \A o \in Operations : state'[o] = "PROJECTED" => state[o] = "PROJECTED"
  BY <1>1, <1>3 DEF CurrentIsNewest, Newer
<1>4. ASSUME NEW w \in Workers, NEW o \in Operations, o = task[w].op, Project(w),
             evidence[o] = task[w].receipt, state[o] \in {"DATA_COMMITTED", "PROJECTED"}
      PROVE  CurrentIsNewest'
  <2>1. /\ state' = [state EXCEPT ![o] = "PROJECTED"] /\ UNCHANGED evidence
        /\ current' = IF Newer(o, evidence[o].at, current) THEN o ELSE current
    BY <1>4 DEF Project, OpOf
  <2>2. state'[o] = "PROJECTED" /\ \A p \in Operations : p # o => state'[p] = state[p]
    BY <2>1
  <2>3. CASE current' = o /\ Newer(o, evidence[o].at, current)
    <3>1. ASSUME NEW p \in Operations, p # o, state[p] = "PROJECTED"
          PROVE  ~Newer(p, evidence[p].at, o)
      BY <1>2, <2>3, <3>1 DEF CurrentIsNewest, Newer
    <3> QED
      BY <2>1, <2>2, <2>3, <3>1 DEF CurrentIsNewest, Newer
  <2>4. CASE current' = current /\ ~Newer(o, evidence[o].at, current)
    BY <1>1, <2>1, <2>2, <2>4 DEF CurrentIsNewest, Newer
  <2> QED
    BY <2>1, <2>3, <2>4
<1>5. ASSUME NEW w \in Workers, Project(w) PROVE CurrentIsNewest'
  <2> PICK o \in Operations : o = task[w].op
    BY <1>5 DEF Project, At, OnItsWay
  <2> QED
    BY <1>3, <1>4, <1>5 DEF Project, OpOf
<1>6. CASE ~\E w \in Workers : Project(w)
  <2> DEFINE Unmoved ==
        current' = current /\ \A o \in Operations : state'[o] = "PROJECTED" => state[o] = "PROJECTED"
  <2>1. Unmoved
    <3>1. ASSUME NEW w \in Workers, NEW o \in Operations,
                 Reserve(w, o) \/ Replay(w, o) \/ RebuildMissingProjection(w, o)
          PROVE  Unmoved
      BY <3>1 DEF Reserve, Replay, RebuildMissingProjection, postgres
    <3>2. ASSUME NEW w \in Workers, Record(w) \/ Review(w) \/ Interrupt(w) PROVE Unmoved
      BY <3>2 DEF Record, Review, Interrupt
    <3>3. ASSUME NEW w \in Workers,
                 \/ Acquire(w) \/ Open(w) \/ Commit(w) \/ Publish(w) \/ Verify(w)
                 \/ Release(w) \/ Get(w) \/ Find(w) \/ Stop(w)
          PROVE  Unmoved
      BY <3>3 DEF Acquire, Open, Commit, Publish, Verify, Release, Get, Find, Stop, postgres
    <3>4. CASE Tick \/ UNCHANGED vars
      BY <3>4 DEF Tick, vars, postgres
    <3> QED
      BY <1>6, <3>1, <3>2, <3>3, <3>4 DEF Next, Proceed
  <2> QED
    BY <1>3, <2>1
<1> QED
  BY <1>5, <1>6

(* The commits of a Workspace are in the order of their fencing tokens,    *)
(* and the current projection is at the newest projected one.              *)
THEOREM TokensOrderCommits == Spec => []TokensOrder
<1>1. Init => FencedInv
  <2> SUFFICES ASSUME Init PROVE FencedInv
    OBVIOUS
  <2>1. \A w \in Workers : task[w].since = now /\ ~(Token(w) > 0) /\ ~Writes(w) /\ ~At(w, "commit")
    BY IdleTask DEF Init, Token, Writes, At
  <2>2. \A o \in Operations : ~Committed(o) /\ receipt[o].at <= now
    BY DEF Init, Committed, NoReceipt
  <2>3. now <= now
    BY DEF Init
  <2>4. TokensAreLeased
    BY <2>1 DEF TokensAreLeased, Rivals
  <2>5. CopiesRunOut
    BY <2>1, <2>3 DEF CopiesRunOut
  <2>6. CommitsArePast /\ CommitsFollowTokens
    BY <2>1, <2>2 DEF CommitsArePast, CommitsFollowTokens
  <2> QED
    BY <2>4, <2>5, <2>6 DEF FencedInv
<1>2. Init => CurrentIsNewest
  BY DEF Init, CurrentIsNewest
<1>3. FencedInv /\ CurrentIsNewest => TokensOrder
  BY DEF FencedInv, TokensOrder
<1> QED
  BY Invariance, NextFences, NextNewest, <1>1, <1>2, <1>3, PTL DEF Spec
=============================================================================
