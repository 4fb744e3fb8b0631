---------------------------- MODULE LoadExecution ----------------------------
(***************************************************************************)
(* The loads of a Workspace into Odoo by ExecutionService: comparisons     *)
(* that say what is to be written, a journal in the Workspace's DuckDB     *)
(* file, a worker that makes one Odoo call at a time, an operator who may  *)
(* stop a load or compare again, and Odoo, which no transaction of the     *)
(* journal covers.  Every journal transaction is one step; the process may *)
(* die between any two of them.                                            *)
(*                                                                         *)
(* One model and one field set: a batch is one call.  Rows here have no    *)
(* projected receipts.                                                     *)
(***************************************************************************)
EXTENDS DependencySchedule

CONSTANTS
  Rows,
  Situations,       \* [fields, existing, remote, loads, crashes]: what is prepared,
                    \*   what Odoo has of it; a remote target, where creates carry
                    \*   External IDs; bounds: loads, exits of the process
  BatchRows,
  Policies,         \* the rejection policies a load may be confirmed with
  ConsecutiveLimit, IsolationLimit,
  LateCalls         \* Odoo may carry out a call whose caller has given up

ASSUME RowsAssumption == Rows \subseteq Nat /\ IsFiniteSet(Rows)
ASSUME SituationsAssumption ==
  \A s \in Situations :
    /\ s.existing \subseteq Rows /\ s.remote \in BOOLEAN
    /\ s.loads \in Nat /\ s.crashes \in Nat
    /\ \A f \in s.fields : f.owner \in Rows /\ f.refs \subseteq Rows /\ f.hard \in BOOLEAN
ASSUME LimitsAssumption ==
  /\ BatchRows \in Nat \ {0} /\ ConsecutiveLimit \in Nat \ {0}
  /\ IsolationLimit \in Nat \ {0} /\ Policies \subseteq {"STOP", "CONTINUE"}
  /\ LateCalls \in BOOLEAN

VARIABLES
  prepared,                       \* the situation, in which fields are prepared
  reading, review, fresh,         \* a comparison under way, the current one,
                                  \*   and that no load was started from it
  loads, kept,                    \* loads so far; receipts of closed ones
  plan,                           \* the schedule of the load
  run, policy, journal, flight,   \* execution_run, execution_row
  isolating, diagnosed,           \*   marks of a row's journal entry
  control,                        \* execution_load_control
  worker, seen,                   \* the worker and its copy of the rows
  stopper,                        \* a stop request under way
  count, written,                 \* Odoo: records per row, fields in place
  call, late,                     \* the worker's call, and abandoned ones
  crashes

rowsVars == <<journal, flight, isolating, diagnosed>>
odoo == <<count, written, late>>
compared == <<reading, review, fresh>>
past == <<prepared, compared, loads, kept, plan>>
vars == <<past, run, policy, rowsVars, control, worker, seen, stopper, odoo, call, crashes>>

fields == prepared.fields
Remote == prepared.remote

---------------------------------------------------------------------------
Unattempted == {"PLANNED", "RETRY_READY"}
Created == {"COMMITTED", "PARTIALLY_APPLIED"}
Statuses == Unattempted \cup Created \cup
            {"IN_FLIGHT", "FAILED", "BLOCKED", "OUTCOME_UNKNOWN"}
(* CLOSED is stored as OUTCOME_UNKNOWN.                                    *)
RunStatuses == {"NONE", "RUNNING", "COMPLETED", "COMPLETED_WITH_ERRORS",
                "OUTCOME_UNKNOWN", "CLOSED"}
Phases == {"CREATE", "UPDATE", "COMPLETION"}

Control == [state : {"RUNNING", "PAUSED", "STOP_REQUESTED", "STOPPED", "FINISHED"},
            calls : Nat, streak : [Phases -> Nat]]
FreshControl == [state |-> "RUNNING", calls |-> 0, streak |-> [p \in Phases |-> 0]]

Call == [rows : SUBSET Rows, phase : Phases, fields : SUBSET fields]
Answers == {"none", "accepted", "rejected", "refused"}
NoCall == [rows |-> {}, phase |-> "CREATE", fields |-> {}, answer |-> "none"]

Worker == [pc : {"off", "group", "creates", "wait", "updates", "completions",
                 "remaining", "rest", "finish", "halted", "stopped",
                 "finish stopped", "recover", "continue"},
           group : Nat, batches : Seq(SUBSET Rows), todo : SUBSET Rows,
           stopping : BOOLEAN]
NoWorker == [pc |-> "off", group |-> 0, batches |-> <<>>, todo |-> {}, stopping |-> FALSE]
Transport == [NoWorker EXCEPT !.pc = "group", !.group = 1]

Stopper == [pc : {"off", "read", "block", "finish"}, rows : SUBSET Rows]
NoStopper == [pc |-> "off", rows |-> {}]

(* Fault: a record that is found is taken to have what is prepared.        *)
FoundIsPrepared ==
  [creates |-> {r \in Rows : count[r] = 0}, ambiguous |-> {r \in Rows : count[r] > 1},
   fields |-> {f \in fields : count[f.owner] = 0}]

(* What a comparison says of the rows: to be created, or matched by more   *)
(* than one record; and the fields that Odoo does not show as prepared, of *)
(* a dataset whose existing records are compared, not left as they are.    *)
Compared ==
  [creates |-> {r \in Rows : count[r] = 0}, ambiguous |-> {r \in Rows : count[r] > 1},
   fields |-> {f \in fields : count[f.owner] = 0 \/ f \notin written}]
Reviewed == [creates : SUBSET Rows, ambiguous : SUBSET Rows, fields : SUBSET fields]
PlanOf(view) == Schedule(view.creates, view.fields)

TypeOK ==
  /\ run \in RunStatuses /\ policy \in {"STOP", "CONTINUE"}
  /\ reading \subseteq Reviewed /\ Cardinality(reading) <= 1 /\ review \in Reviewed /\ fresh \in BOOLEAN
  /\ loads \in 0..prepared.loads /\ kept \subseteq Rows
  /\ journal \in [Rows -> Statuses \cup {"NONE"}] /\ seen \in [Rows -> Statuses \cup {"NONE"}]
  /\ flight \in Phases /\ isolating \subseteq Rows /\ diagnosed \subseteq Rows
  /\ control \in Control
  /\ worker \in Worker /\ stopper \in Stopper
  /\ count \in [Rows -> Nat] /\ written \subseteq fields
  /\ [rows |-> call.rows, phase |-> call.phase, fields |-> call.fields] \in Call
  /\ call.answer \in Answers
  /\ late \subseteq Call
  /\ crashes \in 0..prepared.crashes

Init ==
  /\ prepared \in Situations
  /\ count = [r \in Rows |-> IF r \in prepared.existing THEN 1 ELSE 0]
  /\ written = {} /\ late = {} /\ call = NoCall
  /\ reading = {} /\ review = Compared /\ fresh = TRUE
  /\ loads = 0 /\ kept = {} /\ plan = PlanOf([creates |-> {}, fields |-> {}])
  /\ run = "NONE" /\ policy = "STOP"
  /\ journal = [r \in Rows |-> "NONE"] /\ seen = journal
  /\ flight = "CREATE" /\ isolating = {} /\ diagnosed = {}
  /\ control = FreshControl
  /\ worker = NoWorker /\ stopper = NoStopper
  /\ crashes = 0

---------------------------------------------------------------------------
(* Rows                                                                    *)
With(rows, status) == {r \in DOMAIN rows : rows[r] \in status}
Marked(rows, S, status) == [r \in Rows |-> IF r \in S THEN status ELSE rows[r]]
First(S, n) ==
  {r \in S : Cardinality({q \in S : PlaceIn(plan.order, q) < PlaceIn(plan.order, r)}) < n}
Pending(S) == S \cap With(seen, Unattempted)
Group == plan.groups[worker.group]
Needs(r) == NeedsOf(plan, r)
Deferred(r) == DeferredOf(plan, r)
Sent(r, phase) == IF phase = "COMPLETION" THEN Deferred(r)
                  ELSE FieldsOf(plan, r) \ plan.deferred

(* Operators named for a fault of the code are used by no action here.     *)
ReceiptsNotAsked(r) == \A p \in Needs(r) \cap plan.creates : seen[p] # "PLANNED"

(* Every create a row refers to has a journalled receipt.                  *)
HasReceipts(r) == \A p \in Needs(r) \cap plan.creates : seen[p] \in Created

(* What a rejection sets aside: the consumers, in any number of steps.     *)
Consumers(S) == {f.owner : f \in {g \in plan.fields : g.refs \cap S # {}}}
Dependents(S) ==
  LET reach[n \in Nat] == IF n = 0 THEN S
                          ELSE LET near == reach[n - 1] IN near \cup Consumers(near)
  IN reach[Cardinality(Rows)]

SettledByStreakOnly(c, phase, n, rejected) ==
  LET streak == IF n = 0 THEN c.streak
                ELSE [c.streak EXCEPT ![phase] = IF rejected THEN @ + n ELSE 0]
      due == n > 0 /\ streak[phase] >= ConsecutiveLimit
  IN IF c.state \notin {"RUNNING", "PAUSED"} THEN c
     ELSE [c EXCEPT !.streak = streak, !.calls = IF n > 0 /\ ~rejected THEN 0 ELSE @,
                    !.state = IF policy = "CONTINUE" /\ due THEN "PAUSED" ELSE @]

(* LoadControl.settle_many for n results of one phase, of which only the   *)
(* streak and the isolation budget can pause a load of so few rows.        *)
Settled(c, phase, n, rejected) ==
  LET accepted == n > 0 /\ ~rejected
      streak == IF n = 0 THEN c.streak
                ELSE [c.streak EXCEPT ![phase] = IF rejected THEN @ + n ELSE 0]
      due == \/ n > 0 /\ streak[phase] >= ConsecutiveLimit
             \/ ~accepted /\ c.calls >= IsolationLimit
  IN IF c.state \notin {"RUNNING", "PAUSED"} THEN c
     ELSE [c EXCEPT !.streak = streak, !.calls = IF accepted THEN 0 ELSE @,
                    !.state = IF policy = "CONTINUE" /\ due THEN "PAUSED" ELSE @]

(* record_outcomes of rows not attempted.  A refused transaction ends the  *)
(* worker: _continue_run lets the error out, or the load is stopped and    *)
(* finished already.                                                       *)
MayBlock(S) == run = "RUNNING" /\ S \subseteq With(journal, Unattempted)

Block(S, then) ==
  /\ IF S = {} \/ MayBlock(S)
     THEN /\ journal' = Marked(journal, S, "BLOCKED")
          /\ seen' = Marked(seen, S, "BLOCKED")
          /\ worker' = then
     ELSE UNCHANGED <<journal, seen>> /\ worker' = NoWorker
  /\ UNCHANGED <<past, run, policy, flight, isolating, diagnosed, control, stopper, odoo, call, crashes>>

(* record_batch_started, and the call: one that never left is one that     *)
(* Odoo never handles.                                                     *)
Expected(phase) == IF phase = "COMPLETION" THEN {"PARTIALLY_APPLIED"} ELSE Unattempted

Begin(S, phase) ==
  LET isolation == S \cap isolating # {} IN
  /\ IF \/ run # "RUNNING"
        \/ control.state = "RUNNING" /\ ~(S \subseteq With(journal, Expected(phase)))
     THEN /\ worker' = NoWorker
          /\ UNCHANGED <<rowsVars, seen, control, call>>
     ELSE IF control.state # "RUNNING" \/ (isolation /\ control.calls >= IsolationLimit)
     THEN /\ worker' = [worker EXCEPT !.pc = "halted"]
          /\ UNCHANGED <<rowsVars, seen, control, call>>
     ELSE /\ journal' = Marked(journal, S, "IN_FLIGHT")
          /\ seen' = Marked(seen, S, "IN_FLIGHT")
          /\ flight' = phase
          /\ isolating' = isolating \ S /\ diagnosed' = diagnosed \ S
          /\ control' = IF isolation THEN [control EXCEPT !.calls = @ + 1] ELSE control
          /\ call' = [rows |-> S, phase |-> phase, answer |-> "none",
                      fields |-> UNION {Sent(r, phase) : r \in S}]
          /\ worker' = [worker EXCEPT !.pc = "wait"]
  /\ UNCHANGED <<past, run, policy, stopper, odoo, crashes>>
---------------------------------------------------------------------------
(* execute, and the loops of _transport_run                                *)
(* can_load, of a comparison that no load was started from.                *)
Loadable ==
  LET next == PlanOf(review) IN
  fresh /\ review.ambiguous = {} /\ next.blocked = {} /\ RowsOf(next) # {}

(* A stop request of the load before has nothing left to change.           *)
Start(p) ==
  /\ worker.pc = "off" /\ run # "RUNNING" /\ loads < prepared.loads
  /\ Remote \/ reading = {}
  /\ Loadable
  /\ plan' = PlanOf(review)
  /\ run' = "RUNNING" /\ policy' = p
  /\ journal' = [r \in Rows |-> IF r \in RowsOf(plan') THEN "PLANNED" ELSE "NONE"]
  /\ seen' = journal' /\ flight' = "CREATE" /\ isolating' = {} /\ diagnosed' = {}
  /\ control' = FreshControl /\ worker' = Transport /\ stopper' = NoStopper
  /\ fresh' = FALSE /\ loads' = loads + 1
  /\ UNCHANGED <<prepared, reading, review, kept, odoo, call, crashes>>

Go(pc) == worker' = [worker EXCEPT !.pc = pc]
NextGroup == [worker EXCEPT !.pc = "group", !.group = @ + 1]
Idle == UNCHANGED <<past, run, policy, rowsVars, control, seen, stopper, odoo, call, crashes>>

EnterGroup ==
  /\ worker.pc = "group"
  /\ \/ worker.group \in DOMAIN plan.groups /\ ~worker.stopping /\ Go("creates") /\ Idle
     \/ worker.group \in DOMAIN plan.groups /\ worker.stopping /\ Block(Pending(Group), NextGroup)
     \/ /\ worker.group \notin DOMAIN plan.groups
        /\ worker' =
             IF worker.stopping THEN [worker EXCEPT !.pc = "remaining"]
             ELSE [worker EXCEPT !.pc = "completions",
                     !.todo = {r \in With(seen, {"PARTIALLY_APPLIED"}) :
                                 Deferred(r) # {} /\ ~(policy = "CONTINUE" /\ r \in diagnosed)}]
        /\ Idle

TakeBatch ==
  LET creates == Pending(Group \cap plan.creates) IN
  /\ worker.pc = "creates" /\ worker.batches = <<>>
  /\ worker' = IF creates = {} \/ worker.stopping
               THEN [worker EXCEPT !.pc = "updates"]
               ELSE [worker EXCEPT !.batches = <<First(creates, BatchRows)>>]
  /\ Idle

Create ==
  LET batch == Head(worker.batches)
      without == {r \in batch : ~HasReceipts(r)}
      dropped == First(without, 1)
  IN
  /\ worker.pc = "creates" /\ worker.batches # <<>>
  /\ \/ batch = {} /\ worker' = [worker EXCEPT !.batches = Tail(@)] /\ Idle
     \/ without # {} /\ Block(dropped, [worker EXCEPT !.batches[1] = @ \ dropped])
     \/ batch # {} /\ without = {} /\ Begin(batch, "CREATE")

Update ==
  LET updates == Pending(Group \cap plan.updates)
      one == First(updates, 1)
      blocked == worker.stopping \/ \E r \in one : ~HasReceipts(r)
  IN
  /\ worker.pc = "updates"
  /\ \/ updates = {} /\ worker' = NextGroup /\ Idle
     \/ updates # {} /\ blocked /\ Block(one, worker)
     \/ updates # {} /\ ~blocked /\ Begin(one, "UPDATE")

(* Deferred fields are written once every group is done.  A completion     *)
(* that waits for a record set aside only has its message changed.         *)
SetAside ==
  IF policy = "CONTINUE"
  THEN Dependents(With(seen, {"FAILED", "BLOCKED"})
                  \cup (diagnosed \cap With(seen, {"PARTIALLY_APPLIED"})))
  ELSE {}

Complete ==
  LET one == First(worker.todo, 1) IN
  /\ worker.pc = "completions"
  /\ \/ worker.todo = {} /\ Go("remaining") /\ Idle
     \/ /\ one # {} /\ one \subseteq SetAside
        /\ worker' = IF run = "RUNNING" THEN [worker EXCEPT !.todo = @ \ one] ELSE NoWorker
        /\ Idle
     \/ one # {} /\ ~(one \subseteq SetAside) /\ Begin(one, "COMPLETION")

Remaining ==
  /\ worker.pc = "remaining"
  /\ Go(IF Pending(Rows) = {} THEN "finish"
        ELSE IF control.state = "RUNNING" THEN "rest" ELSE "halted")
  /\ Idle

BlockRest ==
  /\ worker.pc = "rest"
  /\ Block(Pending(Rows), [worker EXCEPT !.pc = "finish"])

---------------------------------------------------------------------------
(* Odoo carries out a call whole or not at all.                            *)
Carry(c) ==
  /\ count' = IF c.phase = "CREATE"
              THEN [r \in Rows |-> IF r \notin c.rows THEN count[r]
                                   ELSE IF Remote THEN 1 ELSE count[r] + 1]
              ELSE count
  /\ written' = written \cup c.fields

Handle ==
  /\ call.rows # {} /\ call.answer = "none"
  /\ \/ Carry(call) /\ call' = [call EXCEPT !.answer = "accepted"]
     \/ \E a \in {"rejected", "refused"} :   \* a data rejection, and any other
          call' = [call EXCEPT !.answer = a] /\ UNCHANGED <<count, written>>
  /\ UNCHANGED <<past, run, policy, rowsVars, control, worker, seen, stopper, late, crashes>>

HandleLate(c) ==
  /\ late' = late \ {c}
  /\ Carry(c)
  /\ UNCHANGED <<past, run, policy, rowsVars, control, worker, seen, stopper, call, crashes>>

GiveUp ==
  late' = IF LateCalls /\ call.rows # {} /\ call.answer = "none"
          THEN late \cup {[rows |-> call.rows, phase |-> call.phase, fields |-> call.fields]}
          ELSE late

---------------------------------------------------------------------------
(* The answer, or its absence, is recorded in one transaction.             *)
After == [CREATE |-> "creates", UPDATE |-> "updates", COMPLETION |-> "completions"]

Record(status, rejected, then) ==
  /\ journal' = [r \in Rows |-> IF r \in call.rows THEN status[r] ELSE journal[r]]
  /\ seen' = [r \in Rows |-> IF r \in call.rows THEN status[r] ELSE seen[r]]
  /\ control' = Settled(control, call.phase, Cardinality(call.rows), rejected)
  /\ worker' = [then EXCEPT !.pc = After[call.phase]]
  /\ call' = NoCall

(* The rest of the pass, or of the batches, once a call is settled.        *)
Rest ==
  IF call.phase = "CREATE" THEN [worker EXCEPT !.batches = Tail(@)]
  ELSE [worker EXCEPT !.todo = @ \ call.rows]
StopSending == [worker EXCEPT !.batches = <<>>, !.todo = {}, !.stopping = TRUE]

Accepted ==
  /\ call.answer = "accepted"
  /\ Record([r \in Rows |-> IF call.phase = "CREATE" /\ Deferred(r) # {}
                            THEN "PARTIALLY_APPLIED" ELSE "COMMITTED"], FALSE, Rest)
  /\ UNCHANGED <<flight, isolating, diagnosed, late>>

(* A rejected group is taken apart: its rows go back, its halves follow.   *)
Divisible == /\ call.answer = "rejected" /\ policy = "CONTINUE"
             /\ call.phase = "CREATE" /\ Cardinality(call.rows) > 1

TakeApart ==
  LET left == First(call.rows, Cardinality(call.rows) \div 2) IN
  /\ Divisible
  /\ journal' = Marked(journal, call.rows, "RETRY_READY")
  /\ seen' = Marked(seen, call.rows, "RETRY_READY")
  /\ isolating' = isolating \cup call.rows
  /\ control' = Settled(control, "CREATE", 0, FALSE)
  /\ worker' = [worker EXCEPT !.pc = "creates",
                  !.batches = <<left, call.rows \ left>> \o Tail(@)]
  /\ call' = NoCall
  /\ UNCHANGED <<flight, diagnosed, late>>

Rejected ==
  LET goOn == call.answer = "rejected" /\ policy = "CONTINUE" IN
  /\ call.answer \in {"rejected", "refused"} /\ ~Divisible
  /\ Record([r \in Rows |-> IF call.phase = "COMPLETION" THEN "PARTIALLY_APPLIED" ELSE "FAILED"],
            TRUE, IF goOn THEN Rest ELSE StopSending)
  /\ diagnosed' = IF call.phase = "COMPLETION" THEN diagnosed \cup call.rows ELSE diagnosed
  /\ UNCHANGED <<flight, isolating, late>>

UnknownAsRejected ==
  /\ GiveUp
  /\ journal' = Marked(journal, call.rows, "FAILED")
  /\ seen' = Marked(seen, call.rows, "FAILED")
  /\ worker' = [StopSending EXCEPT !.pc = After[call.phase]]
  /\ call' = NoCall
  /\ UNCHANGED <<flight, isolating, diagnosed, control>>

UnknownGoesOn ==
  /\ GiveUp
  /\ journal' = Marked(journal, call.rows, "OUTCOME_UNKNOWN")
  /\ seen' = Marked(seen, call.rows, "OUTCOME_UNKNOWN")
  /\ worker' = [Rest EXCEPT !.pc = After[call.phase]]
  /\ call' = NoCall
  /\ UNCHANGED <<flight, isolating, diagnosed, control>>

Unknown ==
  /\ GiveUp
  /\ journal' = Marked(journal, call.rows, "OUTCOME_UNKNOWN")
  /\ seen' = Marked(seen, call.rows, "OUTCOME_UNKNOWN")
  /\ worker' = [StopSending EXCEPT !.pc = After[call.phase]]
  /\ call' = NoCall
  /\ UNCHANGED <<flight, isolating, diagnosed, control>>

Settle ==
  /\ worker.pc = "wait"
  /\ Accepted \/ TakeApart \/ Rejected \/ Unknown
  /\ UNCHANGED <<past, run, policy, stopper, count, written, crashes>>
---------------------------------------------------------------------------
(* finish_run.                                                             *)
MayFinish == run = "RUNNING" /\ With(journal, Unattempted \cup {"IN_FLIGHT"}) = {}

FinishRun(status) ==
  IF MayFinish
  THEN /\ run' = status
       /\ control' = [control EXCEPT !.state = IF @ = "STOP_REQUESTED" THEN "STOPPED" ELSE "FINISHED"]
  ELSE UNCHANGED <<run, control>>

FinishForgetsPartial ==
  /\ worker.pc = "finish"
  /\ FinishRun(IF With(seen, {"OUTCOME_UNKNOWN"}) # {} THEN "OUTCOME_UNKNOWN"
               ELSE IF With(seen, {"FAILED", "BLOCKED"}) # {}
               THEN "COMPLETED_WITH_ERRORS" ELSE "COMPLETED")
  /\ worker' = NoWorker
  /\ UNCHANGED <<past, policy, rowsVars, seen, stopper, odoo, call, crashes>>

Finish ==
  /\ worker.pc = "finish"
  /\ FinishRun(IF With(seen, {"OUTCOME_UNKNOWN"}) # {} THEN "OUTCOME_UNKNOWN"
               ELSE IF With(seen, {"PARTIALLY_APPLIED", "FAILED", "BLOCKED"}) # {}
               THEN "COMPLETED_WITH_ERRORS" ELSE "COMPLETED")
  /\ worker' = NoWorker
  /\ UNCHANGED <<past, policy, rowsVars, seen, stopper, odoo, call, crashes>>

HaltedLeaves ==
  /\ worker.pc = "halted"
  /\ worker' = NoWorker
  /\ Idle

(* A pause or a stop met the worker; _continue_run looks at what is saved. *)
Halted ==
  /\ worker.pc = "halted"
  /\ IF /\ With(journal, {"IN_FLIGHT"}) = {} /\ run = "RUNNING"
        /\ control.state = "STOP_REQUESTED"
     THEN worker' = [worker EXCEPT !.pc = "stopped", !.todo = With(journal, Unattempted)]
     ELSE worker' = NoWorker
  /\ Idle

BlockStopped ==
  /\ worker.pc = "stopped"
  /\ Block(worker.todo, [worker EXCEPT !.pc = "finish stopped"])

FinishStopped ==
  /\ worker.pc = "finish stopped"
  /\ FinishRun("COMPLETED_WITH_ERRORS")
  /\ worker' = NoWorker
  /\ UNCHANGED <<past, policy, rowsVars, seen, stopper, odoo, call, crashes>>

---------------------------------------------------------------------------
(* request_stop: the stop itself is one transaction; a load that nothing   *)
(* has in flight is then closed in three more steps.                       *)
RequestStop ==
  /\ run = "RUNNING" /\ stopper.pc = "off"
  /\ control' = [control EXCEPT !.state = "STOP_REQUESTED"]
  /\ stopper' = [stopper EXCEPT !.pc = "read"]
  /\ UNCHANGED <<past, run, policy, rowsVars, worker, seen, odoo, call, crashes>>

StopRead ==
  /\ stopper.pc = "read"
  /\ stopper' = IF run = "RUNNING" /\ With(journal, {"IN_FLIGHT"}) = {}
                THEN [pc |-> "block", rows |-> With(journal, Unattempted)]
                ELSE NoStopper
  /\ UNCHANGED <<past, run, policy, rowsVars, control, worker, seen, odoo, call, crashes>>

StopBlock ==
  /\ stopper.pc = "block"
  /\ IF stopper.rows = {} \/ MayBlock(stopper.rows)
     THEN /\ journal' = Marked(journal, stopper.rows, "BLOCKED")
          /\ stopper' = [pc |-> "finish", rows |-> {}]
     ELSE UNCHANGED journal /\ stopper' = NoStopper
  /\ UNCHANGED <<past, run, policy, flight, isolating, diagnosed, control, worker, seen, odoo, call, crashes>>

StopFinish ==
  /\ stopper.pc = "finish"
  /\ FinishRun("COMPLETED_WITH_ERRORS")
  /\ stopper' = NoStopper
  /\ UNCHANGED <<past, policy, rowsVars, worker, seen, odoo, call, crashes>>

---------------------------------------------------------------------------
(* A load without a worker is resumed: Odoo is read, and what it shows is  *)
(* turned into row states.  LoadJobManager has one job per Workspace.      *)
Differing(r) == FieldsOf(plan, r) \ written

(* Of a row in flight whose record is found.  What differs must not have   *)
(* been sent yet or be what was sent; anything else cannot be resumed.     *)
FoundRecord(r) ==
  CASE Differing(r) = {} -> IF Deferred(r) = {} THEN "COMMITTED" ELSE "PARTIALLY_APPLIED"
    [] Differing(r) # {} /\ flight # "UPDATE" /\ Differing(r) \subseteq Deferred(r) ->
         "PARTIALLY_APPLIED"
    [] Differing(r) # {} /\ flight = "UPDATE" /\ Differing(r) \subseteq Sent(r, flight) ->
         "RETRY_READY"
    [] OTHER -> "OUTCOME_UNKNOWN"

FoundAsReported(r) == IF count[r] = 0 THEN "RETRY_READY" ELSE "COMMITTED"
FoundAsSent(r) == IF Deferred(r) = {} THEN "COMMITTED" ELSE "PARTIALLY_APPLIED"
FoundUnread(r) == "RETRY_READY"

FoundCreate(r) ==
  CASE count[r] = 0 -> "RETRY_READY"
    [] count[r] = 1 -> FoundRecord(r)
    [] OTHER -> "OUTCOME_UNKNOWN"

Found(r) ==
  CASE journal[r] = "IN_FLIGHT" /\ flight = "CREATE" -> FoundCreate(r)
    [] journal[r] = "IN_FLIGHT" /\ flight # "CREATE" -> FoundRecord(r)
    [] journal[r] = "PARTIALLY_APPLIED" /\ Differing(r) = {} -> "COMMITTED"
    [] journal[r] = "PARTIALLY_APPLIED" /\ ~(Differing(r) \subseteq Deferred(r)) -> "OUTCOME_UNKNOWN"
    [] OTHER -> journal[r]

Assess ==
  /\ worker.pc = "off" /\ run = "RUNNING" /\ ~fresh
  /\ seen' = [r \in Rows |-> Found(r)]
  /\ worker' = [NoWorker EXCEPT !.pc = "recover"]
  /\ UNCHANGED <<past, run, policy, rowsVars, control, stopper, odoo, call, crashes>>

StaleNotAsked == FALSE

(* The report is refused when it is stale, and when it leaves anything     *)
(* that is not known to be safe.                                           *)
Stale == \E r \in Rows : seen[r] # journal[r] /\ journal[r] \notin {"IN_FLIGHT", "PARTIALLY_APPLIED"}
Paused == policy = "CONTINUE" /\ control.state = "PAUSED"
Resumable ==
  /\ run = "RUNNING" /\ ~fresh /\ ~Stale
  /\ With(seen, {"OUTCOME_UNKNOWN"}) = {}
  /\ Paused \/ With(seen, {"FAILED", "BLOCKED"}) = {}

Recover ==
  LET found == {r \in With(journal, {"IN_FLIGHT"}) :
                  \/ seen[r] = "COMMITTED"
                  \/ seen[r] = "PARTIALLY_APPLIED" /\ flight = "CREATE"}
  IN
  /\ worker.pc = "recover"
  /\ IF Resumable
     THEN /\ journal' = seen
          /\ control' = Settled(control, flight, Cardinality(found), FALSE)
          /\ worker' = IF Paused THEN [worker EXCEPT !.pc = "continue"] ELSE Transport
     ELSE UNCHANGED <<journal, control>> /\ worker' = NoWorker
  /\ UNCHANGED <<past, run, policy, flight, isolating, diagnosed, seen, stopper, odoo, call, crashes>>

ContinueUnchecked ==
  /\ worker.pc = "continue"
  /\ control' = FreshControl /\ worker' = Transport
  /\ UNCHANGED <<past, run, policy, rowsVars, seen, stopper, odoo, call, crashes>>

(* The reviewed pause must still be there.                                 *)
Continue ==
  /\ worker.pc = "continue"
  /\ IF run = "RUNNING" /\ control.state = "PAUSED"
     THEN control' = FreshControl /\ worker' = Transport
     ELSE UNCHANGED control /\ worker' = NoWorker
  /\ UNCHANGED <<past, run, policy, rowsVars, seen, stopper, odoo, call, crashes>>

Crash ==
  /\ worker.pc # "off" \/ stopper.pc # "off"
  /\ crashes < prepared.crashes
  /\ crashes' = crashes + 1
  /\ worker' = NoWorker /\ stopper' = NoStopper
  /\ GiveUp /\ call' = NoCall
  /\ reading' = {}
  /\ UNCHANGED <<prepared, review, fresh, loads, kept, plan>>
  /\ UNCHANGED <<run, policy, rowsVars, control, seen, count, written>>

---------------------------------------------------------------------------
(* A comparison reads Odoo and is published later; publishing makes it the *)
(* current one, whatever load is open.  On a local target they are taken   *)
(* between loads: nothing in the code says so, but what it promises there  *)
(* needs it.                                                               *)
Compare ==
  /\ reading = {} /\ loads > 0 /\ prepared.loads > 1
  /\ IF run = "RUNNING" THEN Remote ELSE loads < prepared.loads
  /\ reading' = {Compared}
  /\ UNCHANGED <<prepared, review, fresh, loads, kept, plan>>
  /\ UNCHANGED <<run, policy, rowsVars, control, worker, seen, stopper, odoo, call, crashes>>

Publish ==
  /\ \E view \in reading : review' = view
  /\ reading' = {} /\ fresh' = TRUE
  /\ UNCHANGED <<prepared, loads, kept, plan>>
  /\ UNCHANGED <<run, policy, rowsVars, control, worker, seen, stopper, odoo, call, crashes>>

(* Fault: the saved receipts are not held against the new comparison.      *)
ReceiptsNotCompared == TRUE

(* Every record the load has a receipt for is one the comparison found.    *)
ReceiptsFound == With(journal, Created) \cap review.creates = {}

(* close_interrupted_run_for_recomparison: a load of creates that nobody   *)
(* works on is given up for the fresh comparison; rows and control stay.   *)
Close ==
  /\ Remote /\ worker.pc = "off" /\ run = "RUNNING"
  /\ Loadable /\ plan.updates = {} /\ ReceiptsFound
  /\ run' = "CLOSED" /\ kept' = kept \cup With(journal, Created)
  /\ UNCHANGED <<prepared, compared, loads, plan>>
  /\ UNCHANGED <<policy, rowsVars, control, worker, seen, stopper, odoo, call, crashes>>

---------------------------------------------------------------------------
Work ==
  \/ EnterGroup \/ TakeBatch \/ Create \/ Update \/ Complete \/ Remaining
  \/ BlockRest \/ Finish \/ Halted \/ BlockStopped \/ FinishStopped
  \/ Recover \/ Continue
Stopping == StopRead \/ StopBlock \/ StopFinish

Next ==
  \/ \E p \in Policies : Start(p)
  \/ Work \/ Settle \/ Stopping \/ RequestStop \/ Assess \/ Crash
  \/ Compare \/ Publish \/ Close
  \/ Handle \/ \E c \in late : HandleLate(c)

Spec == Init /\ [][Next]_vars

(* A row that recovery refuses, unless the load is paused for review.      *)
Held == With(journal, {"FAILED", "BLOCKED", "OUTCOME_UNKNOWN"}) # {}

(* A live worker and a stop request go on, every call is answered or given *)
(* up, and somebody resumes a load that has no worker, or, when it cannot  *)
(* be resumed, compares again and closes it.                               *)
FairSpec ==
  /\ Spec
  /\ WF_vars(Work) /\ WF_vars(Settle) /\ WF_vars(Stopping) /\ WF_vars(Assess)
  /\ WF_vars((fresh \/ Held) /\ Compare) /\ WF_vars(Publish) /\ WF_vars(Close)

---------------------------------------------------------------------------
(* What the journal calls written is in Odoo, and what it calls unwritten  *)
(* is not: no crash, lost answer, rejection or recovery blurs the two.     *)
AcceptedIsWritten ==
  \A r \in Rows :
    /\ journal[r] = "COMMITTED" => count[r] > 0 /\ FieldsOf(plan, r) \subseteq written
    /\ journal[r] = "PARTIALLY_APPLIED" =>
         count[r] > 0 /\ FieldsOf(plan, r) \ plan.deferred \subseteq written

UnwrittenIsAbsent ==
  ~Remote => \A r \in Rows : journal[r] \in Unattempted \cup {"FAILED", "BLOCKED"} =>
    FieldsOf(plan, r) \cap written = {} /\ (r \in plan.creates => count[r] = 0)

(* Both; the second is not for targets that are compared during a load or  *)
(* that still carry out calls which nobody waits for.                      *)
JournalIsTrue == TypeOK /\ AcceptedIsWritten /\ UnwrittenIsAbsent

(* No row is created twice, whatever is retried and however often the      *)
(* Workspace is compared and loaded again.                                 *)
CreatedOnce == \A r \in Rows : count[r] <= 1

(* A record that a closed load has a receipt for is in Odoo and is not     *)
(* created again by the loads after it, whenever their comparison read it. *)
ReceiptsHold ==
  /\ AcceptedIsWritten
  /\ \A r \in kept : count[r] > 0 /\ (run = "RUNNING" => r \notin plan.creates)

(* No field refers to a record that is not there.                          *)
ParentsFirst == \A f \in written : \A p \in f.refs : count[p] > 0

(* The schedule carries the load: whatever its references are, a row is    *)
(* left out only because of a rejection, an unknown outcome or a stop.     *)
BlockedForCause ==
  With(journal, {"BLOCKED"}) # {} =>
    \/ With(journal, {"FAILED", "OUTCOME_UNKNOWN"}) # {} \/ diagnosed # {}
    \/ control.state \in {"STOP_REQUESTED", "STOPPED"}

PlanCarries == IsSchedule(plan) /\ ParentsFirst /\ BlockedForCause

(* A settled row is never written again; a rejected row is never retried.  *)
SettledRowsStay ==
  \A r \in Rows : journal[r] \in {"COMMITTED", "FAILED", "BLOCKED", "OUTCOME_UNKNOWN"}
    => journal'[r] = journal[r]

(* Nothing is sent once an outcome is unknown, under STOP once a row is    *)
(* rejected, and ever again after a stop, while or whoever resumes.        *)
Sends == \E r \in Rows : journal[r] # "IN_FLIGHT" /\ journal'[r] = "IN_FLIGHT"

SendsSafely ==
  Sends =>
    /\ With(journal, {"IN_FLIGHT", "OUTCOME_UNKNOWN"}) = {}
    /\ policy = "STOP" => With(journal, {"FAILED"}) = {}
    /\ control.state = "RUNNING"

StopHolds ==
  control.state \in {"STOP_REQUESTED", "STOPPED"} =>
    control'.state \in {"STOP_REQUESTED", "STOPPED"}

NothingSentAfter ==
  [][loads' = loads => SettledRowsStay /\ SendsSafely /\ StopHolds]_vars

(* A spent budget pauses the load before it is overrun.                    *)
BudgetPauses ==
  /\ control.calls <= IsolationLimit
  /\ control.state = "RUNNING" /\ policy = "CONTINUE" =>
       /\ \A p \in Phases : control.streak[p] < ConsecutiveLimit
       /\ control.calls = IsolationLimit =>
            With(journal, {"IN_FLIGHT", "OUTCOME_UNKNOWN"}) # {}
  /\ control.state = "PAUSED" => With(journal, {"IN_FLIGHT"}) = {}

(* A finished run leaves no row open, and completes only as a whole.       *)
FinishedIsSettled ==
  run \notin {"NONE", "RUNNING", "CLOSED"} =>
    /\ With(journal, Unattempted \cup {"IN_FLIGHT"}) = {}
    /\ run = "COMPLETED" => With(journal, {"COMMITTED"}) = RowsOf(plan)

(* A comparison that has superseded an open load cannot release it when    *)
(* there is nothing left to write or the load has updates.                 *)
Superseded ==
  fresh /\ (plan.updates # {} \/ (review.fields = {} /\ review.creates = {}))

(* A load ends that is resumed, or compared again once recovery refuses    *)
(* one of its rows: what stays open is a load that such a comparison       *)
(* cannot release, because it has updates or its target is local, and one  *)
(* that a comparison has superseded for nothing.                           *)
Ends ==
  run = "RUNNING" ~> \/ run # "RUNNING"
                     \/ Held /\ ~(Remote /\ plan.updates = {})
                     \/ Superseded

(* A load is called complete only when everything that is prepared is in   *)
(* Odoo: what it wrote, and what its comparison left out (finish_run, of   *)
(* the rows that execute takes from the comparison).                       *)
CompletedIsWhole ==
  run = "COMPLETED" => \A r \in Rows : count[r] > 0 /\ FieldsOf(prepared, r) \subseteq written

(* What the end of a run says is so, of its own rows and of all that is    *)
(* prepared.                                                               *)
EndIsTrue == FinishedIsSettled /\ CompletedIsWhole

(* What a reader of the journal is told of a row, and of the load.         *)
Told(status) ==
  CASE status = "NONE" -> "none"
    [] status = "COMMITTED" -> "written"
    [] status \in {"FAILED", "BLOCKED", "OUTCOME_UNKNOWN"} -> "left"
    [] OTHER -> "open"

Verdict ==
  CASE run = "NONE" -> "none"
    [] run = "RUNNING" -> "going"
    [] run = "COMPLETED" -> "whole"
    [] run = "CLOSED" -> "released"
    [] OTHER -> "partly"

Promise == INSTANCE RowsOnce WITH
  told <- [r \in Rows |-> Told(journal[r])], verdict <- Verdict

(* Seen from outside, loads make each record once and say what is there:   *)
(* all that execute, _transport_run, a stop and recovery do is, to Odoo    *)
(* and to a reader of the journal, one of four actions or nothing.         *)
ImplementsRowsOnce == Promise!Spec
=============================================================================
