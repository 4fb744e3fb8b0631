----------------------------- MODULE CrossStore -----------------------------
(***************************************************************************)
(* One mutation over three stores that share no transaction: PostgreSQL    *)
(* (operation journal, leases, projections), the DuckDB file of a          *)
(* Workspace (fenced receipts) and the artifact store.                     *)
(*                                                                         *)
(* A worker runs CrossStoreOperationCoordinator.execute or .recover as a   *)
(* sequence of steps, each one transaction or one file operation; workers  *)
(* interleave and may stop after any step (a crash, or an exception that   *)
(* leaves execute: what is released is the DuckDB connection, never the    *)
(* lease).  A reply lost after a commit is a stop after that step.         *)
(***************************************************************************)
EXTENDS LeaseRows

CONSTANTS
  Workers,
  Operations,    \* operation identities; their order breaks ties (UUID order)
  Workspaces,
  Artifacts,     \* content-addressed files
  WorkspaceOf,   \* the Workspace an operation's command is bound to
  ArtifactOf,    \* the file an operation stages
  LeaseDuration,
  MaxTime,       \* bound: the clock stops here
  MaxStops       \* bound: crashes and unexpected exceptions

ASSUME OperationsAssumption == Operations \subseteq Nat \ {0}
ASSUME PlacementAssumption ==
  /\ WorkspaceOf \in [Operations -> Workspaces]
  /\ ArtifactOf \in [Operations -> Artifacts]
ASSUME LeaseDurationAssumption == LeaseDuration \in Nat \ {0}

VARIABLES
  now,
  state, evidence, lease, current,   \* PostgreSQL
  receipt, fence,                    \* DuckDB
  published,                         \* artifact store
  task, stops                        \* the workers

postgres == <<state, evidence, lease, current>>
duckdb == <<receipt, fence>>
vars == <<now, postgres, duckdb, published, task, stops>>

---------------------------------------------------------------------------
States == {"absent", "RESERVED", "DATA_COMMITTED", "PROJECTED",
           "INTERRUPTED", "MANUAL_REVIEW"}
Terminal == {"PROJECTED", "INTERRUPTED", "MANUAL_REVIEW"}

(* A data-plane receipt, as far as one operation's receipts can differ.    *)
Receipt == [token : Nat, at : Nat]
NoReceipt == [token |-> 0, at |-> 0]

NoOperation == 0

(* A task keeps its lease (NoRow in recovery, which takes none), the       *)
(* receipt in its hands and, when its next step reads a clock, the time    *)
(* its last step ended: the clock shows that time or a later one.          *)
Steps == {"idle", "acquire", "open", "commit", "publish", "record", "verify",
          "project", "release", "get", "find", "interrupt", "review"}
Task == [pc : Steps, op : Operations \cup {NoOperation}, lease : LeaseRow,
         receipt : Receipt, since : Nat]
Idle == [pc |-> "idle", op |-> NoOperation, lease |-> NoRow,
         receipt |-> NoReceipt, since |-> 0]

TypeOK ==
  /\ now \in Nat
  /\ state \in [Operations -> States]
  /\ evidence \in [Operations -> Receipt]
  /\ lease \in [Workspaces -> LeaseRow]
  /\ current \in Operations \cup {NoOperation}
  /\ receipt \in [Operations -> Receipt]
  /\ fence \in [Workspaces -> Nat]
  /\ published \subseteq Artifacts
  /\ task \in [Workers -> Task]
  /\ stops \in Nat

Init ==
  /\ now = 0
  /\ state = [o \in Operations |-> "absent"]
  /\ evidence = [o \in Operations |-> NoReceipt]
  /\ lease = [ws \in Workspaces |-> NoRow]
  /\ current = NoOperation
  /\ receipt = [o \in Operations |-> NoReceipt]
  /\ fence = [ws \in Workspaces |-> 0]
  /\ published = {}
  /\ task = [w \in Workers |-> Idle]
  /\ stops = 0

At(w, pc) == task[w].pc = pc
OpOf(w) == task[w].op
WsOf(w) == WorkspaceOf[task[w].op]
Clock(w) == task[w].since .. now

Move(w, pc) == task' = [task EXCEPT ![w].pc = pc, ![w].since = 0]
MoveToClock(w, pc) == task' = [task EXCEPT ![w].pc = pc, ![w].since = now]
MoveWith(w, pc, r) ==
  task' = [task EXCEPT ![w].pc = pc, ![w].since = 0, ![w].receipt = r]
Leave(w) == task' = [task EXCEPT ![w] = Idle]

Begin(w, o, pc, since) ==
  /\ At(w, "idle")
  /\ task' = [task EXCEPT ![w] = [Idle EXCEPT !.pc = pc, !.op = o, !.since = since]]

---------------------------------------------------------------------------
(* Deliberate faults are named for what they get wrong, as in LeaseRows.   *)

ReserveAgain(w, o) ==
  /\ state[o] \in {"absent", "RESERVED"}
  /\ Begin(w, o, "acquire", now)
  /\ state' = [state EXCEPT ![o] = "RESERVED"]
  /\ UNCHANGED <<now, evidence, lease, current, duckdb, published, stops>>

(* execute: a new key is reserved and goes on to the lease ...             *)
Reserve(w, o) ==
  /\ state[o] = "absent"
  /\ Begin(w, o, "acquire", now)
  /\ state' = [state EXCEPT ![o] = "RESERVED"]
  /\ UNCHANGED <<now, evidence, lease, current, duckdb, published, stops>>

(* ... a known one is only ever recovered.                                 *)
Replay(w, o) ==
  /\ state[o] # "absent"
  /\ Begin(w, o, "get", 0)
  /\ UNCHANGED <<now, postgres, duckdb, published, stops>>

(* An administrator may recover an operation whose projection is missing.  *)
RebuildMissingProjection(w, o) ==
  /\ state[o] = "DATA_COMMITTED"
  /\ Begin(w, o, "get", 0)
  /\ UNCHANGED <<now, postgres, duckdb, published, stops>>

Acquire(w) ==
  /\ At(w, "acquire")
  /\ \E at \in Clock(w) :
       IF MayAcquire(lease[WsOf(w)], at)
       THEN LET row == Acquired(lease[WsOf(w)], at, at + LeaseDuration) IN
            /\ lease' = [lease EXCEPT ![WsOf(w)] = row]
            /\ task' = [task EXCEPT ![w].pc = "open", ![w].since = 0, ![w].lease = row]
       ELSE UNCHANGED lease /\ Leave(w)
  /\ UNCHANGED <<now, state, evidence, current, duckdb, published, stops>>

(* The DuckDB file stays open from here to the publication.  Opening it    *)
(* from another process, or in this one with another configuration, fails. *)
(* Two executors of one process may share it.                              *)
Open(w) ==
  /\ At(w, "open")
  /\ MoveToClock(w, "commit")
  /\ UNCHANGED <<now, postgres, duckdb, published, stops>>

HasOpenUnlocked(w, ws) == FALSE

HasOpen(w, ws) ==
  /\ task[w].pc \in {"commit", "publish"}
  /\ WsOf(w) = ws

(* The file is staged, the clock read against the copy of the lease, and   *)
(* then, however much later, one transaction checks the fence and writes   *)
(* receipt and fence.                                                      *)
Unfenced(w) == fence[WsOf(w)] < task[w].lease.token

CommitReadsClockTwice(w) ==
  /\ At(w, "commit")
  /\ \E at, again \in Clock(w) :
       /\ ActiveAt(task[w].lease, at) /\ Unfenced(w)
       /\ LET token == task[w].lease.token IN
          /\ receipt' = [receipt EXCEPT ![OpOf(w)] = [token |-> token, at |-> at]]
          /\ fence' = [fence EXCEPT ![WsOf(w)] = token]
          /\ MoveWith(w, "publish", [token |-> token, at |-> again])
  /\ UNCHANGED <<now, postgres, published, stops>>

Commit(w) ==
  /\ At(w, "commit")
  /\ \E at \in Clock(w) :
       IF ActiveAt(task[w].lease, at) /\ Unfenced(w)
       THEN LET r == [token |-> task[w].lease.token, at |-> at] IN
            /\ receipt' = [receipt EXCEPT ![OpOf(w)] = r]
            /\ fence' = [fence EXCEPT ![WsOf(w)] = r.token]
            /\ MoveWith(w, "publish", r)
       ELSE UNCHANGED duckdb /\ Leave(w)
  /\ UNCHANGED <<now, postgres, published, stops>>

Publish(w) ==
  /\ At(w, "publish")
  /\ published' = published \cup {ArtifactOf[OpOf(w)]}
  /\ Move(w, "record")
  /\ UNCHANGED <<now, postgres, duckdb, stops>>

(* record_data_plane_receipt: the same evidence again changes nothing (so  *)
(* recover's own call and the one in _finalize are one step), other        *)
(* evidence or a settled operation is a mismatch.                          *)
Record(w) ==
  LET o == OpOf(w) IN
  /\ At(w, "record")
  /\ \/ /\ evidence[o] = task[w].receipt
        /\ Move(w, "verify")
        /\ UNCHANGED <<state, evidence>>
     \/ /\ evidence[o] = NoReceipt /\ state[o] = "RESERVED"
        /\ evidence' = [evidence EXCEPT ![o] = task[w].receipt]
        /\ state' = [state EXCEPT ![o] = "DATA_COMMITTED"]
        /\ Move(w, "verify")
     \/ /\ evidence[o] # task[w].receipt
        /\ evidence[o] # NoReceipt \/ state[o] # "RESERVED"
        /\ Move(w, "review")
        /\ UNCHANGED <<state, evidence>>
  /\ UNCHANGED <<now, lease, current, duckdb, published, stops>>

VerifyNothing(w) ==
  /\ At(w, "verify")
  /\ Move(w, "project")
  /\ UNCHANGED <<now, postgres, duckdb, published, stops>>

Verify(w) ==
  /\ At(w, "verify")
  /\ Move(w, IF ArtifactOf[OpOf(w)] \in published THEN "project" ELSE "review")
  /\ UNCHANGED <<now, postgres, duckdb, published, stops>>

(* require_manual_review refuses a terminal operation.                     *)
Review(w) ==
  /\ At(w, "review")
  /\ state' = IF state[OpOf(w)] \in Terminal THEN state
              ELSE [state EXCEPT ![OpOf(w)] = "MANUAL_REVIEW"]
  /\ Leave(w)
  /\ UNCHANGED <<now, evidence, lease, current, duckdb, published, stops>>

NewerAlways(o, at, p) == TRUE

(* The current projection moves only to a later (committed_at, operation). *)
Newer(o, at, p) ==
  \/ p = NoOperation
  \/ evidence[p].at < at
  \/ evidence[p].at = at /\ p < o

AfterProjection(w) == IF task[w].lease = NoRow THEN Leave(w) ELSE MoveToClock(w, "release")

Project(w) ==
  LET o == OpOf(w) IN
  /\ At(w, "project")
  /\ IF evidence[o] = task[w].receipt /\ state[o] \in {"DATA_COMMITTED", "PROJECTED"}
     THEN /\ state' = [state EXCEPT ![o] = "PROJECTED"]
          /\ current' = IF Newer(o, evidence[o].at, current) THEN o ELSE current
          /\ AfterProjection(w)
     ELSE /\ Move(w, "review")
          /\ UNCHANGED <<state, current>>
  /\ UNCHANGED <<now, evidence, lease, duckdb, published, stops>>

Release(w) ==
  /\ At(w, "release")
  /\ \E at \in Clock(w) :
       lease' = IF MayRelease(lease[WsOf(w)], task[w].lease, at)
                THEN [lease EXCEPT ![WsOf(w)] = Released(@)]
                ELSE lease
  /\ Leave(w)
  /\ UNCHANGED <<now, state, evidence, current, duckdb, published, stops>>

---------------------------------------------------------------------------
(* recover                                                                 *)
Get(w) ==
  LET o == OpOf(w) IN
  /\ At(w, "get")
  /\ \/ state[o] \in Terminal /\ Leave(w)
     \/ state[o] = "DATA_COMMITTED" /\ MoveWith(w, "record", evidence[o])
     \/ state[o] = "RESERVED" /\ Move(w, "find")
  /\ UNCHANGED <<now, postgres, duckdb, published, stops>>

Find(w) ==
  LET found == receipt[OpOf(w)] IN
  /\ At(w, "find")
  /\ IF \E v \in Workers : HasOpen(v, WsOf(w))
     THEN Leave(w)
     ELSE \/ found = NoReceipt /\ Move(w, "interrupt")
          \/ found # NoReceipt /\ MoveWith(w, "record", found)
  /\ UNCHANGED <<now, postgres, duckdb, published, stops>>

InterruptLate(w) ==
  /\ At(w, "interrupt")
  /\ state' = [state EXCEPT ![OpOf(w)] = "INTERRUPTED"]
  /\ Leave(w)
  /\ UNCHANGED <<now, evidence, lease, current, duckdb, published, stops>>

InterruptSilently(w) ==
  /\ At(w, "interrupt")
  /\ Leave(w)
  /\ UNCHANGED <<now, postgres, duckdb, published, stops>>

(* record_interruption: refused once evidence is journaled or the          *)
(* operation is settled.                                                   *)
Interrupt(w) ==
  LET o == OpOf(w) IN
  /\ At(w, "interrupt")
  /\ state' = IF state[o] = "RESERVED" /\ evidence[o] = NoReceipt
              THEN [state EXCEPT ![o] = "INTERRUPTED"] ELSE state
  /\ Leave(w)
  /\ UNCHANGED <<now, evidence, lease, current, duckdb, published, stops>>

---------------------------------------------------------------------------
Stop(w) ==
  /\ ~At(w, "idle")
  /\ stops < MaxStops
  /\ stops' = stops + 1
  /\ Leave(w)
  /\ UNCHANGED <<now, postgres, duckdb, published>>

Tick ==
  /\ now < MaxTime
  /\ now' = now + 1
  /\ UNCHANGED <<postgres, duckdb, published, task, stops>>

Proceed(w) ==
  \/ Acquire(w) \/ Open(w) \/ Commit(w) \/ Publish(w)
  \/ Record(w) \/ Verify(w) \/ Review(w) \/ Project(w) \/ Release(w)
  \/ Get(w) \/ Find(w) \/ Interrupt(w)

Next ==
  \/ \E w \in Workers, o \in Operations :
       Reserve(w, o) \/ Replay(w, o) \/ RebuildMissingProjection(w, o)
  \/ \E w \in Workers : Proceed(w) \/ Stop(w)
  \/ Tick

Spec == Init /\ [][Next]_vars

(* A worker that runs goes on to its next step, and an operation that is   *)
(* not settled is asked for again while a worker is free.  The second is   *)
(* an assumption on the callers: nothing in the coordinator retries.       *)
FairSpec ==
  /\ Spec
  /\ \A w \in Workers : WF_vars(Proceed(w))
  /\ \A o \in Operations : SF_vars(\E w \in Workers : Replay(w, o))

---------------------------------------------------------------------------
(* The journal never holds evidence that the data plane did not commit, in *)
(* whatever order an executor and those replaying its operation report it. *)
EvidenceIsCommitted ==
  \A o \in Operations : evidence[o] # NoReceipt => evidence[o] = receipt[o]

(* An operation reported as a success is one in all three stores.          *)
SuccessIsWhole ==
  \A o \in Operations : state[o] = "PROJECTED" =>
    /\ receipt[o] # NoReceipt
    /\ evidence[o] = receipt[o]
    /\ ArtifactOf[o] \in published

(* Within a Workspace the commits' times follow their fencing tokens: so   *)
(* the pointer, which compares times read by different workers, never      *)
(* prefers the work of an earlier lease holder to a later one's.           *)
Committed(o) == receipt[o] # NoReceipt

CommitsFollowTokens ==
  \A o \in Operations : Committed(o) =>
    /\ receipt[o].token <= fence[WorkspaceOf[o]]
    /\ \A p \in Operations \ {o} :
         Committed(p) /\ WorkspaceOf[o] = WorkspaceOf[p] =>
           /\ receipt[o].token # receipt[p].token
           /\ receipt[o].token < receipt[p].token => receipt[o].at <= receipt[p].at

(* Projections finish out of order, by executors, replays and rebuilds;    *)
(* the pointer is always at the newest projected operation.                *)
CurrentIsNewest ==
  /\ current # NoOperation => state[current] = "PROJECTED"
  /\ \A o \in Operations :
       state[o] = "PROJECTED" => o = current \/ ~Newer(o, evidence[o].at, current)

(* So tokens order a Workspace's commits, and its current evidence.        *)
TokensOrder == CommitsFollowTokens /\ CurrentIsNewest

(* A replay never repeats the work: one worker at a time is on the         *)
(* executing path of an operation, and never once a receipt exists.        *)
Executing(w) == task[w].pc \in {"acquire", "open", "commit"}

ExecutedOnce ==
  \A w \in Workers : Executing(w) =>
    /\ receipt[OpOf(w)] = NoReceipt
    /\ \A v \in Workers \ {w} : OpOf(v) = OpOf(w) => ~Executing(v)

(* An operation goes to manual review only for a loss that its executor    *)
(* can no longer make good: the work is committed, and nobody is about to  *)
(* publish it.                                                             *)
ReviewIsFinalLoss ==
  \A o \in Operations : state[o] = "MANUAL_REVIEW" =>
    /\ Committed(o)
    /\ \A w \in Workers : ~(At(w, "publish") /\ OpOf(w) = o)

(* A settled operation stays settled the way it is, with its evidence, and *)
(* a committed receipt is never rewritten.                                 *)
SettledForGood ==
  [][\A o \in Operations :
       /\ state[o] \in Terminal => state'[o] = state[o] /\ evidence'[o] = evidence[o]
       /\ Committed(o) => receipt'[o] = receipt[o]]_vars

(* What a caller learns of an operation in a state of the journal.         *)
OutcomeOf(s) ==
  CASE s = "absent" -> "absent"
    [] s \in {"RESERVED", "DATA_COMMITTED"} -> "pending"
    [] s = "PROJECTED" -> "done"
    [] OTHER -> "failed"

(* The protocol over three stores is, seen from outside, one operation     *)
(* that takes effect once, when the data plane commits, and whose answer   *)
(* is final and true.                                                      *)
Outcome == INSTANCE OperationOutcome WITH
  outcome <- [o \in Operations |-> OutcomeOf(state[o])],
  effect <- {o \in Operations : Committed(o)}

ImplementsOutcome == Outcome!Spec

(* Whatever stopped an operation, asking for it again settles it.          *)
Settles ==
  \A o \in Operations : state[o] # "absent" ~> state[o] \in Terminal

=============================================================================
