---------------------------- MODULE ProjectSetup ----------------------------
(***************************************************************************)
(* Creating a Project's parts: the Project, a DataVersion with its store   *)
(* and source package, a MigrationRun, a Workspace with its store and      *)
(* engine, and for Test and Production set-ups the binding of the run.     *)
(*                                                                         *)
(* A form carries one request identity.  Every part is created under an    *)
(* operation intent of the registry whose identity follows from it, so     *)
(* that sending the form again resumes what the first call left: the call  *)
(* may have been cut short at any step, or still be running in a second    *)
(* thread of the server.  Registry, stores and engine are separate         *)
(* databases; each step below is at most one transaction on one of them.   *)
(* The module follows one form; what other forms do to the Project         *)
(* meanwhile is Other.                                                     *)
(***************************************************************************)
EXTENDS Naturals, FiniteSets, FiniteSetsExt

CONSTANTS
  Forms,     \* "authoring": with the Project; "successor": of Odoo source data;
             \* "test", "production": the set-up of a run
  Callers,   \* threads of the server that serve the form
  Others,    \* what other forms may do: change the "project", or create a
             \* "data_version" or "run" of it
  StopAt,    \* steps before which a call may be cut short
  MaxAsks,   \* bound: times a form is sent, 0 for any number
  MaxFaults  \* bound: calls cut short, and other changes of the Project

Setups == {"test", "production"}
ASSUME FormsAssumption == Forms \subseteq {"authoring", "successor"} \cup Setups
ASSUME BoundsAssumption == MaxAsks \in Nat /\ MaxFaults \in Nat

VARIABLES
  form,                            \* the form that is sent
  intents, rows, others, revision, \* registry
  store, engine,                   \* of the DataVersion and the Workspace
  call,                            \* the process
  done, swept, asks, faults        \* history: answered; creations undone by another

registry == <<intents, rows, others, revision>>
stores == <<store, engine>>
history == <<done, swept, asks, faults>>
vars == <<form, registry, stores, call, history>>

Kinds == {"project", "data_version", "run", "workspace", "binding"}
Stored == {"data_version", "workspace"}
Numbered == {"data_version", "run"}
Shared == {"project"} \cup Numbered   \* what other forms change as well
ASSUME OthersAssumption == Others \subseteq Shared

Free == [by |-> "nobody", number |-> 0]
NoIntent == [state |-> "none", owner |-> Free, expected |-> 0]
Idle == [pc |-> "idle", kind |-> "none", expected |-> 0,
         created |-> FALSE]
Steps == {"replay", "look", "reserve", "insert", "store", "open", "init", "finish",
          "package", "replace", "engine", "provision", "mkdirs", "connect", "tables",
          "answer"}

TypeOK ==
  /\ form \in Forms
  /\ \A k \in Kinds :
       /\ intents[k].state \in {"none", "PENDING", "COMMITTED"}
       /\ intents[k].state = "none" => intents[k] = NoIntent
       /\ intents[k].state # "none" => intents[k].owner.by \in Callers
       /\ intents[k].expected \in 0 .. revision
       /\ rows[k] # {} => intents[k].state # "none"
  /\ others \in [Shared -> SUBSET Nat]
  /\ revision \in Nat
  /\ store \in [Stored -> {"absent", "dir", "empty", "ready", "packaged"}]
  /\ engine \in {"absent", "dirs", "empty", "ready"}
  /\ \A c \in Callers : call[c] = Idle \/ call[c] \in
       [pc : Steps, kind : Kinds, expected : 0 .. revision, created : BOOLEAN]
  /\ done \in BOOLEAN
  /\ swept \subseteq Stored \cup {"engine"}
  /\ asks \in 0 .. MaxAsks /\ faults \in 0 .. MaxFaults

Existing == IF form = "authoring" THEN 0 ELSE 1   \* revision before the form

Init ==
  /\ form \in Forms
  /\ intents = [k \in Kinds |-> NoIntent]
  /\ rows = [k \in Kinds |-> {}]
  /\ others = [k \in Shared |-> {}]
  /\ revision = Existing
  /\ store = [k \in Stored |-> "absent"]
  /\ engine = "absent"
  /\ call = [c \in Callers |-> Idle]
  /\ done = FALSE /\ swept = {} /\ asks = 0 /\ faults = 0

At(c, pc) == call[c].pc = pc
Kind(c) == call[c].kind
Goto(c, pc) == call' = [call EXCEPT ![c].pc = pc]
Fail(c) == call' = [call EXCEPT ![c] = Idle]

Committed(kind) == intents[kind].state = "COMMITTED"
Whole(kind) == kind \in Stored => store[kind] \in {"ready", "packaged"}

(* Number of a new DataVersion or run: one more than the last of the       *)
(* Project.                                                                *)
NextNumber(kind) ==
  IF kind \in Numbered
  THEN 1 + Max({0} \cup others[kind] \cup {w.number : w \in rows[kind]})
  ELSE 0

(* On to the next part.  The Project and the binding are reserved at once, *)
(* for the others the intent is looked for first.                          *)
Enter(c, kind) ==
  call' = [call EXCEPT ![c].kind = kind, ![c].created = FALSE,
                       ![c].pc = IF kind \in {"project", "binding"} THEN "reserve" ELSE "look"]

(* What follows when the part the call is at is there.                     *)
Proceed(c) ==
  CASE Kind(c) = "project" -> Enter(c, "data_version")
    [] Kind(c) = "data_version" -> Goto(c, "package")
    [] Kind(c) = "run" -> Enter(c, "workspace")
    [] Kind(c) = "workspace" -> Goto(c, "engine")
    [] Kind(c) = "binding" -> Goto(c, "answer")

---------------------------------------------------------------------------
(* The form is sent, for the first time or again.  A Test or Production    *)
(* form names a revision of the Project it was shown.                      *)
Ask(c) ==
  /\ At(c, "idle")
  /\ ~done
  /\ MaxAsks = 0 \/ asks < MaxAsks
  /\ \E shown \in IF form \in Setups THEN 1 .. revision ELSE {0} :
       call' = [call EXCEPT ![c] =
                  [pc |-> CASE form = "authoring" -> "reserve"
                            [] form = "successor" -> "look"
                            [] OTHER -> "replay",
                   kind |-> IF form = "authoring" THEN "project" ELSE "data_version",
                   expected |-> shown, created |-> FALSE]]
  /\ asks' = IF MaxAsks = 0 THEN 0 ELSE asks + 1
  /\ UNCHANGED <<form, registry, stores, done, swept, faults>>

(* Another form changes the Project (save_project), or creates a           *)
(* DataVersion or run under the Project's current revision.                *)
Other(kind) ==
  /\ revision > 0
  /\ faults < MaxFaults
  /\ faults' = faults + 1
  /\ revision' = revision + 1
  /\ others' = [others EXCEPT ![kind] =
                  @ \cup {IF kind = "project" THEN revision' ELSE NextNumber(kind)}]
  /\ UNCHANGED <<form, intents, rows, stores, call, done, swept, asks>>

(* The call ends before its next step: the server is killed, or a database *)
(* or file cannot be reached.                                              *)
Stop(c) ==
  /\ call[c].pc \in StopAt
  /\ faults < MaxFaults
  /\ faults' = faults + 1
  /\ Fail(c)
  /\ UNCHANGED <<form, registry, stores, done, swept, asks>>

---------------------------------------------------------------------------
(* Fault: a set-up whose binding is reserved passes for a bound one.       *)
CommittedSetupReserved(c) ==
  /\ At(c, "replay")
  /\ Goto(c, IF intents["binding"].state # "none" THEN "answer" ELSE "look")
  /\ UNCHANGED <<form, registry, stores, history>>

(* _committed_setup: a set-up whose binding is committed is answered again,*)
(* also when the call that bound it was cut short before its answer.       *)
CommittedSetup(c) ==
  /\ At(c, "replay")
  /\ Goto(c, IF Committed("binding") THEN "answer" ELSE "look")
  /\ UNCHANGED <<form, registry, stores, history>>

(* Fault: a reserved part passes for a created one.                        *)
LookReserved(c) ==
  /\ At(c, "look")
  /\ IF intents[Kind(c)].state # "none"
     THEN Proceed(c)
     ELSE call' = [call EXCEPT ![c].pc = "reserve", ![c].expected = revision]
  /\ UNCHANGED <<form, registry, stores, history>>

(* The intent is looked for: none, one to resume, or the part is there and *)
(* is read, which opens its store.                                         *)
Look(c) ==
  LET state == intents[Kind(c)].state
      shown == form \in Setups /\ Kind(c) = "data_version" IN
  /\ At(c, "look")
  /\ \/ /\ state = "none"
        /\ call' = [call EXCEPT ![c].pc = "reserve",
                                ![c].expected = IF shown THEN @ ELSE revision]
     \/ state = "PENDING" /\ Goto(c, "insert")
     \/ state = "COMMITTED" /\ IF Whole(Kind(c)) THEN Proceed(c) ELSE Fail(c)
  /\ UNCHANGED <<form, registry, stores, history>>

(* _reserve_intent.  An intent that is there must mean the same: the       *)
(* request hash, which for a binding holds the time of the call, and the   *)
(* revision.                                                               *)
Reserve(c) ==
  LET i == intents[Kind(c)]
      kind == Kind(c)
      expected == IF kind = "binding" THEN revision ELSE call[c].expected
      replay == i.state # "none" /\ kind # "binding" /\ i.expected = expected IN
  /\ At(c, "reserve")
  /\ \/ /\ i.state = "none"
        /\ intents' = [intents EXCEPT ![Kind(c)] =
             [state |-> "PENDING", expected |-> expected,
              owner |-> [by |-> c, number |-> NextNumber(kind)]]]
        /\ Goto(c, "insert")
     \/ /\ replay
        /\ CASE i.state = "PENDING" -> Goto(c, "insert")
             [] i.state = "COMMITTED" /\ Whole(kind) -> Proceed(c)
             [] OTHER -> Fail(c)
        /\ UNCHANGED intents
     \/ /\ i.state # "none" /\ ~replay
        /\ Fail(c)
        /\ UNCHANGED intents
  /\ UNCHANGED <<form, rows, others, revision, stores, history>>

AfterInsert(c) == IF Kind(c) = "run" THEN "finish" ELSE "store"

(* Fault: the revision is set from the intent and not compared.            *)
InsertUnchecked(c) ==
  LET i == intents[Kind(c)] IN
  /\ At(c, "insert") /\ Kind(c) \notin {"project", "binding"}
  /\ \/ rows[Kind(c)] # {} /\ UNCHANGED <<rows, revision>>
     \/ /\ rows[Kind(c)] = {}
        /\ rows' = [rows EXCEPT ![Kind(c)] = {i.owner}]
        /\ revision' = i.expected + 1
  /\ Goto(c, AfterInsert(c))
  /\ UNCHANGED <<form, others, intents, stores, history>>

(* One transaction: the row, unless it is there, and the next revision of  *)
(* the Project, which must be the one the intent expects.                  *)
Insert(c) ==
  LET i == intents[Kind(c)]
      present == i.owner \in rows[Kind(c)] IN
  /\ At(c, "insert") /\ Kind(c) \notin {"project", "binding"}
  /\ \/ /\ present
        /\ Goto(c, AfterInsert(c))
        /\ UNCHANGED <<rows, revision>>
     \/ /\ ~present /\ revision = i.expected
        /\ rows' = [rows EXCEPT ![Kind(c)] = @ \cup {i.owner}]
        /\ revision' = revision + 1
        /\ Goto(c, AfterInsert(c))
     \/ /\ ~present /\ revision # i.expected
        /\ Fail(c)
        /\ UNCHANGED <<rows, revision>>
  /\ UNCHANGED <<form, others, intents, stores, history>>

(* The Project has no store: its row and the end of its intent are one     *)
(* transaction.                                                            *)
InsertProject(c) ==
  /\ At(c, "insert") /\ Kind(c) = "project"
  /\ rows' = [rows EXCEPT ![Kind(c)] = @ \cup {intents[Kind(c)].owner}]
  /\ revision' = IF rows[Kind(c)] = {} THEN 1 ELSE revision
  /\ intents' = [intents EXCEPT ![Kind(c)].state = "COMMITTED"]
  /\ Proceed(c)
  /\ UNCHANGED <<form, others, stores, history>>

(* bind_setup, after its reservation.  The row and the Project's next      *)
(* revision are one transaction.  For Test the end of the intent is in it, *)
(* for Production it is a transaction of its own (Finish).  Only the call  *)
(* that made the reservation comes here, and once: no row is there.        *)
Bind(c) ==
  /\ At(c, "insert") /\ Kind(c) = "binding"
  /\ \/ /\ revision = intents[Kind(c)].expected
        /\ rows' = [rows EXCEPT ![Kind(c)] = @ \cup {intents[Kind(c)].owner}]
        /\ revision' = revision + 1
        /\ \/ /\ form = "test"
              /\ intents' = [intents EXCEPT ![Kind(c)].state = "COMMITTED"]
              /\ Goto(c, "answer")
           \/ form = "production" /\ Goto(c, "finish") /\ UNCHANGED intents
     \/ /\ revision # intents[Kind(c)].expected
        /\ Fail(c)
        /\ UNCHANGED <<intents, rows, revision>>
  /\ UNCHANGED <<form, others, stores, history>>

---------------------------------------------------------------------------
(* Fault: a directory passes for a store.                                  *)
StoreByDirectory(c) ==
  /\ At(c, "store")
  /\ IF store[Kind(c)] = "absent"
     THEN /\ store' = [store EXCEPT ![Kind(c)] = "dir"]
          /\ call' = [call EXCEPT ![c].pc = "open", ![c].created = TRUE]
     ELSE Goto(c, "finish") /\ UNCHANGED store
  /\ UNCHANGED <<form, registry, engine, history>>

(* create_data_version_store, create_workspace_store: a store that is      *)
(* there must have been initialised ...                                    *)
Store(c) ==
  /\ At(c, "store")
  /\ \/ store[Kind(c)] \in {"ready", "packaged"} /\ Goto(c, "finish") /\ UNCHANGED store
     \/ store[Kind(c)] = "empty" /\ Fail(c) /\ UNCHANGED store
     \/ store[Kind(c)] = "dir" /\ Goto(c, "open") /\ UNCHANGED store
     \/ /\ store[Kind(c)] = "absent"
        /\ store' = [store EXCEPT ![Kind(c)] = "dir"]
        /\ call' = [call EXCEPT ![c].pc = "open", ![c].created = TRUE]
  /\ UNCHANGED <<form, registry, engine, history>>

(* ... opening it makes the file ...                                       *)
Open(c) ==
  /\ At(c, "open")
  /\ store' = [store EXCEPT ![Kind(c)] = IF @ = "dir" THEN "empty" ELSE @]
  /\ Goto(c, "init")
  /\ UNCHANGED <<form, registry, engine, history>>

(* A creation that fails takes the directory it made with it, and what     *)
(* others have put there since.                                            *)
Discard(c) ==
  /\ Fail(c)
  /\ IF call[c].created
     THEN /\ store' = [store EXCEPT ![Kind(c)] = "absent"]
          /\ engine' = IF Kind(c) = "workspace"
                       THEN "absent" ELSE engine
          /\ swept' = IF store[Kind(c)] = "dir" THEN swept ELSE swept \cup {Kind(c)}
     ELSE UNCHANGED <<stores, swept>>

(* ... and one transaction its tables, which must not be there.            *)
InitStore(c) ==
  /\ At(c, "init")
  /\ \/ /\ store[Kind(c)] = "empty"
        /\ store' = [store EXCEPT ![Kind(c)] = "ready"]
        /\ Goto(c, "finish")
        /\ UNCHANGED <<engine, swept>>
     \/ store[Kind(c)] # "empty" /\ Discard(c)
  /\ UNCHANGED <<form, registry, done, asks, faults>>

(* The database refuses: the creation cleans up behind itself.             *)
StoreFails(c) ==
  /\ call[c].pc \in {"open", "init"} \cap StopAt
  /\ faults < MaxFaults
  /\ faults' = faults + 1
  /\ Discard(c)
  /\ UNCHANGED <<form, registry, done, asks>>

(* _finish_pending_intent, and the part is read back.                      *)
Finish(c) ==
  /\ At(c, "finish")
  /\ intents' = [intents EXCEPT ![Kind(c)].state = "COMMITTED"]
  /\ IF Whole(Kind(c)) THEN Proceed(c) ELSE Fail(c)
  /\ UNCHANGED <<form, rows, others, revision, stores, history>>

---------------------------------------------------------------------------
(* The DataVersion's source package: looked for, and made when missing.    *)
LookForPackage(c) ==
  /\ At(c, "package")
  /\ CASE store[Kind(c)] = "packaged" -> Enter(c, "run")
       [] store[Kind(c)] = "ready" -> Goto(c, "replace")
       [] OTHER -> Fail(c)
  /\ UNCHANGED <<form, registry, stores, history>>

ReplaceDraft(c) ==
  /\ At(c, "replace")
  /\ IF store[Kind(c)] = "ready"
     THEN store' = [store EXCEPT ![Kind(c)] = "packaged"] /\ Enter(c, "run")
     ELSE Fail(c) /\ UNCHANGED store
  /\ UNCHANGED <<form, registry, engine, history>>

(* The Workspace is provisioned: Test and Production forms go on.          *)
Provisioned(c) ==
  IF form \in Setups THEN Enter(c, "binding") ELSE Goto(c, "answer")

(* Its engine is read; a file without the tables is an error, no file the  *)
(* reason to make one.                                                     *)
LookForEngine(c) ==
  LET readable == Whole(Kind(c)) /\ store["data_version"] = "packaged" IN
  /\ At(c, "engine")
  /\ CASE readable /\ engine = "ready" -> Provisioned(c)
       [] readable /\ engine \in {"absent", "dirs"} -> Goto(c, "provision")
       [] OTHER -> Fail(c)
  /\ UNCHANGED <<form, registry, stores, history>>

(* initialize_workbench: not over an engine made since, which another call *)
(* has given its own time of creation ...                                  *)
Provision(c) ==
  /\ At(c, "provision")
  /\ IF Whole(Kind(c)) /\ engine \in {"absent", "dirs"}
     THEN Goto(c, "mkdirs") ELSE Fail(c)
  /\ UNCHANGED <<form, registry, stores, history>>

(* ... its directories must be new; when they are not, the error path      *)
(* removes the database file, whoever made it ...                          *)
MakeDirectories(c) ==
  /\ At(c, "mkdirs")
  /\ engine' = "dirs"
  /\ IF engine = "absent" /\ Whole(Kind(c))
     THEN Goto(c, "connect") /\ UNCHANGED swept
     ELSE /\ Fail(c)
          /\ swept' = IF engine \in {"empty", "ready"} THEN swept \cup {"engine"}
                      ELSE swept
  /\ UNCHANGED <<form, registry, store, done, asks, faults>>

(* ... the file is made ...                                                *)
Connect(c) ==
  /\ At(c, "connect")
  /\ engine' = (IF engine = "dirs" THEN "empty" ELSE engine)
  /\ IF engine = "absent" THEN Fail(c) ELSE Goto(c, "tables")
  /\ UNCHANGED <<form, registry, store, history>>

(* ... and its tables, in a file that may have been removed meanwhile.     *)
InitEngine(c) ==
  /\ At(c, "tables")
  /\ engine' = (IF engine = "empty" THEN "ready" ELSE engine)
  /\ Provisioned(c)
  /\ UNCHANGED <<form, registry, store, history>>

(* The engine cannot be made: directories and file are removed.            *)
EngineFails(c) ==
  /\ call[c].pc \in {"connect", "tables"} \cap StopAt
  /\ faults < MaxFaults
  /\ faults' = faults + 1
  /\ engine' = "absent"
  /\ Fail(c)
  /\ UNCHANGED <<form, registry, store, done, swept, asks>>

(* The parts are read once more, which opens their stores, and the form is *)
(* answered with them.                                                     *)
Answer(c) ==
  LET readable == Whole("data_version") /\ (form = "authoring" \/ Whole("workspace")) IN
  /\ At(c, "answer")
  /\ done' = (done \/ readable)
  /\ Fail(c)
  /\ UNCHANGED <<form, registry, stores, swept, asks, faults>>

Serve(c) ==
  \/ CommittedSetup(c) \/ Look(c) \/ Reserve(c) \/ Insert(c) \/ InsertProject(c) \/ Bind(c)
  \/ Store(c) \/ Open(c) \/ InitStore(c) \/ Finish(c)
  \/ LookForPackage(c) \/ ReplaceDraft(c)
  \/ LookForEngine(c) \/ Provision(c) \/ MakeDirectories(c) \/ Connect(c) \/ InitEngine(c)
  \/ Answer(c)

Next ==
  \/ \E c \in Callers : Ask(c) \/ Serve(c) \/ Stop(c) \/ StoreFails(c) \/ EngineFails(c)
  \/ \E kind \in Others : Other(kind)

Spec == Init /\ [][Next]_vars

(* A call that runs goes on, and a form that was not answered is sent      *)
(* again.                                                                  *)
FairSpec ==
  /\ Spec
  /\ \A c \in Callers : WF_vars(Serve(c))
  /\ WF_vars(\E c \in Callers : Ask(c))

---------------------------------------------------------------------------
(* However often a form is sent, and from however many threads, each part  *)
(* exists once, with the identity its intent reserved.                     *)
OneOwner == \A k \in Kinds : rows[k] \subseteq {intents[k].owner}

(* A DataVersion or run keeps a number of its own, and the numbers of a    *)
(* Project leave no gap, although a number is chosen long before it is     *)
(* taken and other forms take numbers meanwhile.                           *)
NumberedApart ==
  \A k \in Numbered :
    LET own == {w.number : w \in rows[k]} IN
    /\ own \cap others[k] = {}
    /\ own \cup others[k] = 1 .. Cardinality(own) + Cardinality(others[k])

(* The changes of the Project that the entries of f are, one each.         *)
Changes(f) == UNION {{<<k, x>> : x \in f[k]} : k \in DOMAIN f}

(* The Project's revision counts its changes: none is overwritten by a     *)
(* call that decided on an earlier state of the Project.                   *)
NoLostChange ==
  revision = Existing + Cardinality(Changes(rows)) + Cardinality(Changes(others))

(* So the registry is sound: every part is there once, and every change.   *)
RegistryIsSound == TypeOK /\ OneOwner /\ NumberedApart /\ NoLostChange

(* No part precedes the one it belongs to, also in what an interrupted     *)
(* call leaves behind: a run has a DataVersion with its store linked, a    *)
(* Workspace a run, an engine and a binding a Workspace.                   *)
LineageIsWhole ==
  /\ rows["run"] # {} => Committed("data_version")
  /\ rows["workspace"] # {} => Committed("run")
  /\ engine # "absent" => Committed("workspace")
  /\ rows["binding"] # {} =>
       /\ Committed("workspace")
       /\ engine = "ready" \/ swept \cap {"engine", "workspace"} # {}

(* A committed creation has its row and its initialised store, unless a    *)
(* call that overlapped has removed the directory.                         *)
CommittedIsWhole ==
  \A k \in Kinds :
    Committed(k) => rows[k] # {} /\ (k \in Stored \ swept => Whole(k))

(* ... and a form that was answered has everything, also when parts of it  *)
(* were made by other calls that were cut short.                           *)
SuccessIsWhole ==
  /\ CommittedIsWhole
  /\ done =>
       /\ \A k \in Numbered \cup Stored : Committed(k)
       /\ form \in Setups => Committed("binding")
       /\ "data_version" \in swept \/ store["data_version"] = "packaged"
       /\ swept \cap {"engine", "workspace"} # {} \/ engine = "ready"

(* A form that is sent again until it is answered is answered: a call that *)
(* was cut short is resumed from its intents.                              *)
Completes == <>done
=============================================================================
