-------------------------- MODULE ProjectSetupProofs --------------------------
(***************************************************************************)
(* What a form leaves in the registry, the stores and the engine, for any  *)
(* threads that serve it, any place where a call may be cut short and any  *)
(* changes by other forms.                                                 *)
(***************************************************************************)
EXTENDS ProjectSetup, FiniteSetTheorems, TLAPS

(* What the registry, the stores and the calls hold.                       *)
Owner == [by : Callers \cup {"nobody"}, number : Nat]
Intent == [state : {"none", "PENDING", "COMMITTED"}, owner : Owner, expected : Nat]
Call == [pc : Steps \cup {"idle"}, kind : Kinds \cup {"none"}, expected : Nat,
         created : BOOLEAN]

Typed ==
  /\ intents \in [Kinds -> Intent]
  /\ rows \in [Kinds -> SUBSET Owner]
  /\ store \in [Stored -> {"absent", "dir", "empty", "ready", "packaged"}]
  /\ call \in [Callers -> Call]

PackageKept == "data_version" \in swept \/ store["data_version"] = "packaged"
EngineKept == swept \cap {"engine", "workspace"} # {} \/ engine = "ready"

(* The form may be answered: its last part is committed.                   *)
Answerable ==
  /\ Committed("workspace") /\ EngineKept
  /\ form \in Setups => Committed("binding")

(* Where a call is, and what it knows of the part it is at.                *)
InPlace(c) ==
  /\ At(c, "replay") => Kind(c) = "data_version"
  /\ At(c, "look") => Kind(c) \in {"data_version", "run", "workspace"}
  /\ call[c].pc \in {"reserve", "insert"} => Kind(c) \in Kinds
  /\ call[c].pc \in {"store", "open", "init"} => Kind(c) \in Stored
  /\ At(c, "finish") => Kind(c) \in Kinds \ {"project"}
  /\ call[c].pc \in {"package", "replace"} =>
       Kind(c) = "data_version" /\ Committed("data_version")
  /\ call[c].pc \in {"engine", "provision", "mkdirs", "connect", "tables"} =>
       Kind(c) = "workspace" /\ Committed("workspace")
  /\ At(c, "insert") => intents[Kind(c)].state # "none"
  /\ At(c, "insert") /\ Kind(c) = "binding" =>
       intents["binding"].owner.by = c /\ rows["binding"] = {}
  /\ call[c].pc \in {"store", "open", "init", "finish"} => rows[Kind(c)] # {}
  /\ At(c, "finish") /\ Kind(c) \in Stored \ swept => Whole(Kind(c))
  /\ At(c, "answer") => Answerable

(* What a part needs before it is reserved.                                *)
MayFollow(kind) ==
  /\ kind = "project" => form = "authoring"
  /\ kind = "data_version" /\ form = "authoring" => Committed("project")
  /\ kind = "run" => Committed("data_version") /\ PackageKept
  /\ kind = "workspace" => Committed("run")
  /\ kind = "binding" => form \in Setups /\ Committed("workspace") /\ EngineKept

InOrder ==
  /\ \A k \in Kinds : intents[k].state # "none" => MayFollow(k)
  /\ \A c \in Callers : call[c].pc # "idle" => MayFollow(Kind(c))

(* A number that is reserved is still the next one, unless the Project has *)
(* changed since.                                                          *)
NumbersHold ==
  /\ IsFiniteSet(Changes(rows)) /\ IsFiniteSet(Changes(others))
  /\ \A k \in Shared : IsFiniteSet(others[k])
  /\ \A n \in others["project"] : n <= revision
  /\ form = "authoring" /\ rows["project"] = {} => revision = 0
  /\ form # "authoring" => revision > 0
  /\ \A k \in Numbered :
       intents[k].state # "none" /\ rows[k] = {} /\ intents[k].expected = revision =>
         intents[k].owner.number = 1 + Cardinality(others[k])

(* One call at a time makes the engine, as long as nothing is swept away.  *)
Making(c) == call[c].pc \in {"connect", "tables"}

EngineApart ==
  swept \cap {"engine", "workspace"} = {} =>
    \A c \in Callers :
      /\ At(c, "connect") => engine = "dirs"
      /\ At(c, "tables") => engine = "empty"
      /\ \A d \in Callers \ {c} : ~ (Making(c) /\ Making(d))

IInv ==
  /\ RegistryIsSound /\ LineageIsWhole /\ SuccessIsWhole
  /\ Typed
  /\ \A c \in Callers : InPlace(c)
  /\ InOrder
  /\ NumbersHold
  /\ EngineApart

---------------------------------------------------------------------------
(* How a call moves: the calls of other threads stay where they are.       *)
OthersStay(c) == \A d \in Callers \ {c} : call'[d] = call[d]

LEMMA GotoCall ==
  ASSUME call \in [Callers -> Call], NEW c \in Callers, NEW pc \in Steps, Goto(c, pc)
  PROVE  /\ call' \in [Callers -> Call] /\ OthersStay(c)
         /\ call'[c].pc = pc /\ call'[c].kind = call[c].kind
         /\ call'[c].expected = call[c].expected
<1>1. call' = [call EXCEPT ![c] = [call[c] EXCEPT !.pc = pc]]
  BY DEF Goto
<1>2. [call[c] EXCEPT !.pc = pc] \in Call
  BY DEF Call
<1> QED
  BY <1>1, <1>2 DEF OthersStay, Call

LEMMA IdleCall == Idle \in Call /\ Idle.pc = "idle" /\ Idle.kind = "none"
BY DEF Idle, Call

LEMMA FailCall ==
  ASSUME call \in [Callers -> Call], NEW c \in Callers, Fail(c)
  PROVE  call' \in [Callers -> Call] /\ OthersStay(c) /\ call'[c] = Idle
BY IdleCall DEF Fail, OthersStay

LEMMA EnterCall ==
  ASSUME call \in [Callers -> Call], NEW c \in Callers, NEW kind \in Kinds, Enter(c, kind)
  PROVE  /\ call' \in [Callers -> Call] /\ OthersStay(c)
         /\ call'[c].pc = IF kind \in {"project", "binding"} THEN "reserve" ELSE "look"
         /\ call'[c].kind = kind
         /\ call'[c].expected = call[c].expected
<1> DEFINE pc == IF kind \in {"project", "binding"} THEN "reserve" ELSE "look"
           next == [call[c] EXCEPT !.kind = kind, !.created = FALSE, !.pc = pc]
<1>1. call' = [call EXCEPT ![c] = next]
  BY DEF Enter
<1>2. next \in Call
  BY DEF Call, Steps
<1> QED
  BY <1>1, <1>2 DEF OthersStay, Call

(* The part that follows may follow.                                       *)
LEMMA ProceedCall ==
  ASSUME call \in [Callers -> Call], NEW c \in Callers, Proceed(c),
         Kind(c) \in Kinds
  PROVE  /\ call' \in [Callers -> Call] /\ OthersStay(c)
         /\ call'[c].expected = call[c].expected
         /\ \/ /\ Kind(c) = "project"
               /\ call'[c].pc = "look" /\ call'[c].kind = "data_version"
            \/ /\ Kind(c) = "data_version"
               /\ call'[c].pc = "package" /\ call'[c].kind = "data_version"
            \/ /\ Kind(c) = "run"
               /\ call'[c].pc = "look" /\ call'[c].kind = "workspace"
            \/ /\ Kind(c) = "workspace"
               /\ call'[c].pc = "engine" /\ call'[c].kind = "workspace"
            \/ /\ Kind(c) = "binding"
               /\ call'[c].pc = "answer" /\ call'[c].kind = "binding"
<1>1. CASE Kind(c) = "project"
  BY <1>1, EnterCall DEF Proceed, Kinds
<1>2. CASE Kind(c) = "data_version"
  <2>1. Goto(c, "package")
    BY <1>2 DEF Proceed
  <2> QED
    BY <1>2, <2>1, GotoCall DEF Steps, Kind
<1>3. CASE Kind(c) = "run"
  BY <1>3, EnterCall DEF Proceed, Kinds
<1>4. CASE Kind(c) = "workspace"
  <2>1. Goto(c, "engine")
    BY <1>4 DEF Proceed
  <2> QED
    BY <1>4, <2>1, GotoCall DEF Steps, Kind
<1>5. CASE Kind(c) = "binding"
  <2>1. Goto(c, "answer")
    BY <1>5 DEF Proceed
  <2> QED
    BY <1>5, <2>1, GotoCall DEF Steps, Kind
<1> QED
  BY <1>1, <1>2, <1>3, <1>4, <1>5 DEF Kinds

LEMMA ProvisionedCall ==
  ASSUME call \in [Callers -> Call], NEW c \in Callers, Provisioned(c)
  PROVE  /\ call' \in [Callers -> Call] /\ OthersStay(c)
         /\ call'[c].expected = call[c].expected
         /\ \/ /\ form \in Setups
               /\ call'[c].pc = "reserve" /\ call'[c].kind = "binding"
            \/ /\ form \notin Setups
               /\ call'[c].pc = "answer" /\ call'[c].kind = call[c].kind
BY EnterCall, GotoCall DEF Provisioned, Kinds, Steps

---------------------------------------------------------------------------
(* What no step takes back: intents, rows and the parts that are whole,    *)
(* except that a directory may be swept away, which is on record.          *)
Grows ==
  /\ form' = form
  /\ \A k \in Kinds :
       /\ intents[k].state # "none" =>
            intents'[k].state # "none" /\ intents'[k].owner = intents[k].owner
       /\ Committed(k) => Committed(k)'
       /\ rows[k] \subseteq rows'[k]
  /\ swept \subseteq swept'
  /\ PackageKept => PackageKept'
  /\ EngineKept => EngineKept'
  /\ \A k \in Stored : k \in swept \/ Whole(k) => k \in swept' \/ Whole(k)'

LEMMA MayStillFollow ==
  ASSUME Grows, NEW k, MayFollow(k)
  PROVE  MayFollow(k)'
BY DEF Grows, MayFollow, Kinds

(* A step of one call: it is enough to look at the call, and at what is    *)
(* new in the registry and the engine.                                     *)
LEMMA OrderStep ==
  ASSUME IInv, TypeOK', Typed', NEW c \in Callers, OthersStay(c), Grows, InPlace(c)',
         call'[c].pc # "idle" => MayFollow(Kind(c))',
         rows'["binding"] = rows["binding"] \/ (At(c, "insert") /\ Kind(c) = "binding"),
         \A k \in Kinds : intents'[k].state # "none" =>
           intents[k].state # "none" \/ MayFollow(k)',
         \A k \in Kinds : Committed(k)' =>
           Committed(k) \/ (rows'[k] # {} /\ (k \in Stored => k \in swept' \/ Whole(k)')),
         done' => done \/ Answerable',
         engine' # "absent" => engine # "absent" \/ Committed("workspace"),
         EngineApart'
  PROVE  /\ LineageIsWhole' /\ SuccessIsWhole'
         /\ \A d \in Callers : InPlace(d)'
         /\ InOrder' /\ EngineApart'
<1> USE DEF IInv
<1>1. \A d \in Callers : InPlace(d)'
  <2> SUFFICES ASSUME NEW d \in Callers, d # c PROVE InPlace(d)'
    OBVIOUS
  <2>1. call'[d] = call[d]
    BY DEF OthersStay
  <2>2. InPlace(d)
    OBVIOUS
  <2>3. call[d].pc = "insert" /\ call[d].kind = "binding" => rows'["binding"] = {}
    BY <2>2 DEF InPlace, At, Kind
  <2> QED
    BY <2>1, <2>2, <2>3 DEF InPlace, At, Kind, Grows, Kinds, Stored, Answerable
<1>2. InOrder'
  <2>1. \A k \in Kinds : intents'[k].state # "none" => MayFollow(k)'
    BY MayStillFollow DEF InOrder
  <2>2. \A d \in Callers : call'[d].pc # "idle" => MayFollow(Kind(d))'
    BY MayStillFollow DEF InOrder, OthersStay, Kind
  <2> QED
    BY <2>1, <2>2 DEF InOrder
<1>3. CommittedIsWhole'
  BY DEF SuccessIsWhole, CommittedIsWhole, Grows
<1>4. LineageIsWhole'
  BY <1>2 DEF LineageIsWhole, InOrder, MayFollow, TypeOK, Kinds, Grows, EngineKept
<1>5. done => Answerable'
  BY DEF SuccessIsWhole, Grows, EngineKept, Kinds, Stored, Answerable
<1>6. done' => Answerable'
  BY <1>5
<1>7. Committed("workspace")' => Committed("run")' /\ Committed("data_version")' /\ PackageKept'
  BY <1>2 DEF InOrder, MayFollow, Committed, Kinds
<1>8. SuccessIsWhole'
  BY <1>3, <1>6, <1>7
  DEF SuccessIsWhole, Grows, Numbered, Stored, EngineKept, PackageKept, Answerable
<1> QED
  BY <1>1, <1>2, <1>4, <1>8

---------------------------------------------------------------------------
(* Counting: one more entry is one more change.                            *)
LEMMA ChangesAdd ==
  ASSUME NEW f, NEW k \in DOMAIN f, NEW x, x \notin f[k], IsFiniteSet(Changes(f))
  PROVE  LET g == [f EXCEPT ![k] = @ \cup {x}] IN
         /\ IsFiniteSet(Changes(g))
         /\ Cardinality(Changes(g)) = Cardinality(Changes(f)) + 1
<1> DEFINE g == [f EXCEPT ![k] = @ \cup {x}]
<1>1. <<k, x>> \notin Changes(f)
  BY DEF Changes
<1>2. Changes(g) = Changes(f) \cup {<<k, x>>}
  <2>1. ASSUME NEW e \in Changes(g) PROVE e \in Changes(f) \cup {<<k, x>>}
    BY <2>1 DEF Changes
  <2>2. Changes(f) \subseteq Changes(g)
    BY DEF Changes
  <2>3. <<k, x>> \in Changes(g)
    BY DEF Changes
  <2> QED
    BY <2>1, <2>2, <2>3
<1>3. /\ IsFiniteSet(Changes(f) \cup {<<k, x>>})
      /\ Cardinality(Changes(f) \cup {<<k, x>>}) = Cardinality(Changes(f)) + 1
  BY <1>1, FS_AddElement
<1> QED
  BY <1>2, <1>3

LEMMA MaxOfInterval ==
  ASSUME NEW n \in Nat
  PROVE  Max({0} \cup 1 .. n) = n
<1>1. {0} \cup 1 .. n = 0 .. n
  OBVIOUS
<1>2. \A x \in 0 .. n : (\A y \in 0 .. n : x >= y) <=> x = n
  OBVIOUS
<1> QED
  BY <1>1, <1>2 DEF Max

Numbers(k) == {w.number : w \in rows[k]}

(* Counting is right for what is in the registry.                          *)
Sound == OneOwner /\ NumberedApart /\ NoLostChange /\ NumbersHold

LEMMA NextNumberIs ==
  ASSUME Sound, Typed, NEW k \in Numbered
  PROVE  /\ NextNumber(k) = 1 + Cardinality(Numbers(k)) + Cardinality(others[k])
         /\ IsFiniteSet(Numbers(k)) /\ Cardinality(Numbers(k)) \in Nat
         /\ Cardinality(others[k]) \in Nat
<1>1. k \in Kinds /\ k \in Shared
  BY DEF Numbered, Kinds, Shared
<1>2. rows[k] \subseteq {intents[k].owner} /\ IsFiniteSet(others[k])
  BY <1>1 DEF Sound, OneOwner, NumbersHold
<1>3. rows[k] = {} \/ rows[k] = {intents[k].owner}
  BY <1>2
<1>4. Numbers(k) = {} \/ Numbers(k) = {intents[k].owner.number}
  BY <1>3 DEF Numbers
<1>5. IsFiniteSet(Numbers(k))
  BY <1>4, FS_EmptySet, FS_Singleton
<1>6. Cardinality(Numbers(k)) \in Nat /\ Cardinality(others[k]) \in Nat
  BY <1>2, <1>5, FS_CardinalityType
<1>7. others[k] \cup Numbers(k) = 1 .. Cardinality(Numbers(k)) + Cardinality(others[k])
  BY DEF Sound, NumberedApart, Numbers
<1>8. {0} \cup others[k] \cup Numbers(k) =
        {0} \cup 1 .. Cardinality(Numbers(k)) + Cardinality(others[k])
  BY <1>7
<1>9. Max({0} \cup others[k] \cup Numbers(k)) = Cardinality(Numbers(k)) + Cardinality(others[k])
  BY <1>6, <1>8, MaxOfInterval
<1> QED
  BY <1>5, <1>6, <1>9 DEF NextNumber, Numbers

LEMMA OthersNat ==
  ASSUME TypeOK, NEW k \in Shared
  PROVE  others[k] \subseteq Nat
BY DEF TypeOK

(* Nothing is inserted; an intent that is new has the next number.         *)
LEMMA SoundWithoutInsert ==
  ASSUME Sound, UNCHANGED <<form, rows, others, revision>>,
         \A k \in Kinds :
           \/ intents'[k].owner = intents[k].owner /\ intents'[k].expected = intents[k].expected
              /\ (intents'[k].state # "none" => intents[k].state # "none")
           \/ rows[k] = {} /\ (k \in Numbered =>
                                 intents'[k].owner.number = 1 + Cardinality(others[k]))
  PROVE  Sound'
<1>1. OneOwner'
  BY DEF Sound, OneOwner
<1>2. NumberedApart' /\ NoLostChange'
  BY DEF Sound, NumberedApart, NoLostChange, Existing
<1>3. NumbersHold'
  BY DEF Sound, NumbersHold, Numbered, Kinds
<1> QED
  BY <1>1, <1>2, <1>3 DEF Sound

(* A part's row is inserted, with the number that is next.                 *)
LEMMA SoundInsert ==
  ASSUME Sound, Typed, TypeOK, NEW k \in Kinds, rows[k] = {},
         rows' = [rows EXCEPT ![k] = @ \cup {intents[k].owner}],
         revision' = revision + 1,
         form = "authoring" => k = "project" \/ rows["project"] # {},
         k \in Numbered => intents[k].owner.number = 1 + Cardinality(others[k]),
         UNCHANGED <<form, others>>,
         \A j \in Kinds : /\ intents'[j].owner = intents[j].owner
                          /\ intents'[j].expected = intents[j].expected
                          /\ intents'[j].state # "none" => intents[j].state # "none"
  PROVE  Sound'
<1>1. OneOwner'
  BY DEF Sound, OneOwner, Typed
<1>2. /\ IsFiniteSet(Changes(rows'))
      /\ Cardinality(Changes(rows')) = Cardinality(Changes(rows)) + 1
  <2>1. k \in DOMAIN rows /\ intents[k].owner \notin rows[k] /\ IsFiniteSet(Changes(rows))
    BY DEF Typed, Sound, NumbersHold
  <2> QED
    BY <2>1, ChangesAdd
<1>3. NoLostChange'
  <2>1. Cardinality(Changes(rows)) \in Nat /\ Cardinality(Changes(others)) \in Nat
    BY FS_CardinalityType DEF Sound, NumbersHold
  <2> QED
    BY <1>2, <2>1 DEF Sound, NoLostChange, Existing
<1>4. NumberedApart'
  <2> SUFFICES ASSUME NEW j \in Numbered
               PROVE  /\ Numbers(j)' \cap others[j] = {}
                      /\ Numbers(j)' \cup others[j] =
                           1 .. Cardinality(Numbers(j)') + Cardinality(others[j])
    BY DEF NumberedApart, Numbers
  <2>1. /\ Numbers(j) \cap others[j] = {}
        /\ Numbers(j) \cup others[j] = 1 .. Cardinality(Numbers(j)) + Cardinality(others[j])
    BY DEF Sound, NumberedApart, Numbers
  <2>2. CASE j # k
    <3>1. rows'[j] = rows[j]
      BY <2>2 DEF Typed, Numbered, Kinds
    <3> QED
      BY <2>1, <3>1 DEF Numbers
  <2>3. CASE j = k
    <3> DEFINE n == intents[k].owner.number
    <3>1. Numbers(j) = {} /\ Numbers(j)' = {n}
      BY <2>3 DEF Numbers, Typed
    <3>2. Cardinality({}) = 0 /\ Cardinality({n}) = 1 /\ Cardinality(others[j]) \in Nat
      BY FS_EmptySet, FS_Singleton, NextNumberIs
    <3>3. others[j] = 1 .. Cardinality(others[j]) /\ n = 1 + Cardinality(others[j])
      BY <2>1, <2>3, <3>1, <3>2
    <3> QED
      BY <3>1, <3>2, <3>3
  <2> QED
    BY <2>2, <2>3
<1>5. NumbersHold'
  <2>1. form = "authoring" => rows'["project"] # {}
    BY DEF Typed, Kinds
  <2>2. revision \in Nat /\ \A j \in Kinds : intents[j].expected \in 0 .. revision
    BY DEF TypeOK
  <2>3. \A j \in Numbered : intents'[j].expected # revision'
    BY <2>2 DEF Numbered, Kinds
  <2>4. IsFiniteSet(Changes(rows))' /\ IsFiniteSet(Changes(others))'
    BY <1>2 DEF Sound, NumbersHold
  <2>5. \A n \in others'["project"] : n <= revision'
    BY <2>2, OthersNat DEF Sound, NumbersHold, Shared
  <2> QED
    <3>1. \A j \in Shared : IsFiniteSet(others[j])'
      BY DEF Sound, NumbersHold
    <3>2. revision' > 0
      BY <2>2
    <3>3. form' = "authoring" => rows'["project"] # {}
      BY <2>1
    <3>4. \A j \in Numbered : intents[j].expected' # revision'
      BY <2>3
    <3> QED
      BY <2>4, <2>5, <3>1, <3>2, <3>3, <3>4 DEF NumbersHold
<1> QED
  BY <1>1, <1>3, <1>4, <1>5 DEF Sound

(* Another form changes the Project: the number it takes is next as well.  *)
LEMMA SoundOther ==
  ASSUME Sound, Typed, TypeOK, NEW kind \in Others, Other(kind)
  PROVE  Sound'
<1> DEFINE x == IF kind = "project" THEN revision' ELSE NextNumber(kind)
<1>0. kind \in Shared /\ others \in [Shared -> SUBSET Nat] /\ revision \in Nat
  BY OthersAssumption DEF TypeOK
<1>1. /\ others' = [others EXCEPT ![kind] = @ \cup {x}]
      /\ revision' = revision + 1 /\ revision > 0
      /\ UNCHANGED <<form, intents, rows>>
  BY DEF Other
<1>2. x \notin others[kind]
  <2>1. CASE kind = "project"
    BY <1>0, <1>1, <2>1 DEF Sound, NumbersHold
  <2>2. CASE kind \in Numbered
    <3>1. others[kind] \subseteq 1 .. Cardinality(Numbers(kind)) + Cardinality(others[kind])
      BY <2>2 DEF Sound, NumberedApart, Numbers
    <3>2. x = 1 + Cardinality(Numbers(kind)) + Cardinality(others[kind])
      BY <2>2, NextNumberIs DEF Numbered
    <3> QED
      BY <2>2, <3>1, <3>2, NextNumberIs
  <2> QED
    BY <1>0, <2>1, <2>2 DEF Shared
<1>3. OneOwner'
  BY <1>1 DEF Sound, OneOwner
<1>4. /\ IsFiniteSet(Changes(others'))
      /\ Cardinality(Changes(others')) = Cardinality(Changes(others)) + 1
  <2>1. kind \in DOMAIN others /\ IsFiniteSet(Changes(others))
    BY <1>0 DEF Sound, NumbersHold
  <2> QED
    BY <1>1, <1>2, <2>1, ChangesAdd
<1>5. NoLostChange'
  <2>1. Cardinality(Changes(rows)) \in Nat /\ Cardinality(Changes(others)) \in Nat
    BY FS_CardinalityType DEF Sound, NumbersHold
  <2> QED
    BY <1>1, <1>4, <2>1 DEF Sound, NoLostChange, Existing
<1>6. /\ IsFiniteSet(others'[kind])
      /\ Cardinality(others'[kind]) = Cardinality(others[kind]) + 1
  <2>1. others'[kind] = others[kind] \cup {x} /\ IsFiniteSet(others[kind])
    BY <1>0, <1>1 DEF Sound, NumbersHold
  <2> QED
    BY <1>2, <2>1, FS_AddElement
<1>7. NumberedApart'
  <2> SUFFICES ASSUME NEW j \in Numbered
               PROVE  /\ Numbers(j) \cap others'[j] = {}
                      /\ Numbers(j) \cup others'[j] =
                           1 .. Cardinality(Numbers(j)) + Cardinality(others'[j])
    BY <1>1 DEF NumberedApart, Numbers
  <2>1. /\ Numbers(j) \cap others[j] = {}
        /\ Numbers(j) \cup others[j] = 1 .. Cardinality(Numbers(j)) + Cardinality(others[j])
    BY DEF Sound, NumberedApart, Numbers
  <2>2. CASE j # kind
    BY <1>0, <1>1, <2>1, <2>2
  <2>3. CASE j = kind
    <3>1. others'[j] = others[j] \cup {x}
      BY <1>0, <1>1, <2>3
    <3>2. x = 1 + Cardinality(Numbers(j)) + Cardinality(others[j])
      BY <2>3, NextNumberIs DEF Numbered
    <3>3. Cardinality(Numbers(j)) \in Nat /\ Cardinality(others[j]) \in Nat
      BY NextNumberIs
    <3> HIDE DEF x
    <3> QED
      BY <1>6, <2>1, <2>3, <3>1, <3>2, <3>3
  <2> QED
    BY <2>2, <2>3
<1>8. NumbersHold'
  <2>1. \A j \in Kinds : intents[j].expected \in 0 .. revision
    BY DEF TypeOK
  <2>2. \A j \in Numbered : intents'[j].expected # revision'
    BY <1>0, <1>1, <2>1 DEF Numbered, Kinds
  <2>3. \A j \in Shared : IsFiniteSet(others'[j])
    BY <1>0, <1>1, <1>6 DEF Sound, NumbersHold
  <2>4. \A n \in others'["project"] : n <= revision'
    BY <1>0, <1>1, OthersNat DEF Sound, NumbersHold, Shared
  <2>5. IsFiniteSet(Changes(rows))' /\ IsFiniteSet(Changes(others))'
    BY <1>1, <1>4 DEF Sound, NumbersHold
  <2> QED
    <3>1. revision' > 0
      BY <1>0, <1>1
    <3>2. form' = "authoring" => rows'["project"] # {}
      BY <1>1 DEF Sound, NumbersHold
    <3> QED
      BY <2>2, <2>3, <2>4, <2>5, <3>1, <3>2 DEF NumbersHold
<1> QED
  BY <1>3, <1>5, <1>7, <1>8 DEF Sound

---------------------------------------------------------------------------
(* Where a step takes its call.                                            *)
CallMoves(c) ==
  /\ call' \in [Callers -> Call] /\ OthersStay(c)
  /\ \/ call'[c] = Idle
     \/ /\ call'[c].pc \in Steps /\ call'[c].kind \in Kinds
        /\ call'[c].expected \in 0 .. revision

LEMMA CallTyped ==
  ASSUME IInv, NEW c \in Callers, call[c].pc # "idle"
  PROVE  call[c].pc \in Steps /\ call[c].kind \in Kinds /\ call[c].expected \in 0 .. revision
BY DEF IInv, RegistryIsSound, TypeOK, Idle

LEMMA GotoMoves ==
  ASSUME IInv, NEW c \in Callers, call[c].pc # "idle", NEW pc \in Steps, Goto(c, pc)
  PROVE  CallMoves(c) /\ call'[c].pc = pc /\ call'[c].kind = call[c].kind
BY CallTyped, GotoCall DEF IInv, Typed, CallMoves

LEMMA FailMoves ==
  ASSUME IInv, NEW c \in Callers, Fail(c)
  PROVE  CallMoves(c) /\ call'[c] = Idle /\ InPlace(c)'
<1>1. CallMoves(c) /\ call'[c] = Idle
  BY FailCall DEF IInv, Typed, CallMoves
<1>2. call'[c].pc = "idle"
  BY <1>1, IdleCall
<1> QED
  BY <1>1, <1>2 DEF InPlace, At

LEMMA ProceedMoves ==
  ASSUME IInv, NEW c \in Callers, call[c].pc # "idle", Proceed(c),
         Grows, intents'[Kind(c)].state = "COMMITTED"
  PROVE  /\ CallMoves(c) /\ InPlace(c)' /\ call'[c].pc \in {"look", "package", "engine", "answer"}
         /\ MayFollow(Kind(c))'
<1>1. Kind(c) \in Kinds /\ MayFollow(Kind(c))
  BY CallTyped DEF IInv, InOrder, Kind
<1>2. call \in [Callers -> Call] /\ call[c].expected \in 0 .. revision
  BY CallTyped DEF IInv, Typed
<1>3. /\ call' \in [Callers -> Call] /\ OthersStay(c)
      /\ call'[c].expected = call[c].expected
      /\ \/ /\ Kind(c) = "project"
            /\ call'[c].pc = "look" /\ call'[c].kind = "data_version"
         \/ /\ Kind(c) = "data_version"
            /\ call'[c].pc = "package" /\ call'[c].kind = "data_version"
         \/ /\ Kind(c) = "run"
            /\ call'[c].pc = "look" /\ call'[c].kind = "workspace"
         \/ /\ Kind(c) = "workspace"
            /\ call'[c].pc = "engine" /\ call'[c].kind = "workspace"
         \/ /\ Kind(c) = "binding"
            /\ call'[c].pc = "answer" /\ call'[c].kind = "binding"
  BY <1>1, <1>2, ProceedCall
<1>4. CallMoves(c) /\ call'[c].pc \in {"look", "package", "engine", "answer"}
  BY <1>2, <1>3 DEF CallMoves, Steps, Kinds
<1>5. InPlace(c)'
  <2>1. Kind(c) = "binding" => Answerable'
    BY <1>1, MayStillFollow DEF MayFollow, Answerable, Committed
  <2> QED
    BY <1>3, <2>1 DEF InPlace, At, Kind, Committed
<1>6. MayFollow(Kind(c))'
  <2>1. \A k \in Kinds : k = call[c].kind => MayFollow(k)'
    BY <1>1, MayStillFollow DEF Kind
  <2> QED
    BY <1>1, <1>3, <2>1 DEF MayFollow, Kind, Kinds, Committed
<1> QED
  BY <1>4, <1>5, <1>6

(* A step that leaves the registry alone.                                  *)
LEMMA RegistryStays ==
  ASSUME IInv, NEW c \in Callers, CallMoves(c), UNCHANGED <<form, registry>>,
         store' \in [Stored -> {"absent", "dir", "empty", "ready", "packaged"}],
         engine' \in {"absent", "dirs", "empty", "ready"},
         done' \in BOOLEAN, swept' \subseteq Stored \cup {"engine"},
         asks' \in 0 .. MaxAsks, faults' \in 0 .. MaxFaults
  PROVE  Typed' /\ RegistryIsSound' /\ NumbersHold'
<1>1. Typed'
  BY DEF IInv, Typed, CallMoves, registry
<1>2. Sound'
  <2>1. Sound
    BY DEF IInv, RegistryIsSound, Sound
  <2> QED
    BY <2>1, SoundWithoutInsert DEF registry
<1>3. \A d \in Callers : call'[d] = Idle \/ call'[d] \in
        [pc : Steps, kind : Kinds, expected : 0 .. revision, created : BOOLEAN]
  BY DEF CallMoves, OthersStay, IInv, RegistryIsSound, TypeOK, Call
<1>4. TypeOK'
  BY <1>3 DEF IInv, RegistryIsSound, TypeOK, registry
<1> QED
  BY <1>1, <1>2, <1>4 DEF RegistryIsSound, Sound

(* Who leaves the making of the engine, or makes it, leaves it to itself.  *)
LEMMA EngineStays ==
  ASSUME EngineApart, NEW c \in Callers, OthersStay(c),
         call'[c].pc \notin {"connect", "tables"},
         swept \subseteq swept',
         Making(c) \/ engine' = engine \/ swept' \cap {"engine", "workspace"} # {}
  PROVE  EngineApart'
BY DEF EngineApart, OthersStay, Making, At

(* A step that changes nothing but the call.                               *)
LEMMA QuietStep ==
  ASSUME IInv, NEW c \in Callers, CallMoves(c), UNCHANGED <<form, registry, stores, swept>>,
         done' \in BOOLEAN, asks' \in 0 .. MaxAsks, faults' \in 0 .. MaxFaults,
         InPlace(c)', call'[c].pc \notin {"connect", "tables"},
         call'[c].pc # "idle" => MayFollow(call'[c].kind),
         done' => done \/ Answerable
  PROVE  IInv'
<1>1. Typed' /\ RegistryIsSound' /\ NumbersHold'
  BY RegistryStays DEF IInv, RegistryIsSound, TypeOK, Typed, stores
<1>2. Grows
  BY DEF Grows, registry, stores, PackageKept, EngineKept, Committed, Whole
<1>3. EngineApart'
  BY EngineStays DEF IInv, stores, CallMoves
<1>4. call'[c].pc # "idle" => MayFollow(Kind(c))'
  <2>1. MayFollow(call'[c].kind) => MayFollow(Kind(c))'
    BY DEF MayFollow, registry, stores, PackageKept, EngineKept, Committed, Kind
  <2> QED
    BY <2>1
<1>5. /\ \A k \in Kinds : intents'[k].state # "none" => intents[k].state # "none"
      /\ \A k \in Kinds : Committed(k)' => Committed(k)
      /\ rows' = rows /\ engine' = engine
  BY DEF registry, stores, Committed
<1>6. done' => done \/ Answerable'
  BY DEF registry, stores, Committed, EngineKept, Answerable
<1>7. /\ LineageIsWhole' /\ SuccessIsWhole'
      /\ \A d \in Callers : InPlace(d)'
      /\ InOrder' /\ EngineApart'
  BY <1>1, <1>2, <1>3, <1>4, <1>5, <1>6, OrderStep DEF CallMoves, RegistryIsSound
<1> QED
  BY <1>1, <1>7 DEF IInv

LEMMA AskIInv ==
  ASSUME IInv, NEW c \in Callers, Ask(c)
  PROVE  IInv'
<1>1. PICK shown \in IF form \in Setups THEN 1 .. revision ELSE {0} :
        call' = [call EXCEPT ![c] =
                  [pc |-> CASE form = "authoring" -> "reserve"
                            [] form = "successor" -> "look"
                            [] OTHER -> "replay",
                   kind |-> IF form = "authoring" THEN "project" ELSE "data_version",
                   expected |-> shown, created |-> FALSE]]
  BY DEF Ask
<1>2. shown \in 0 .. revision /\ revision \in Nat
  BY DEF IInv, RegistryIsSound, TypeOK
<1>0. form \in {"authoring", "successor"} \cup Setups
  BY FormsAssumption DEF IInv, RegistryIsSound, TypeOK
<1>3. CallMoves(c)
  BY <1>0, <1>1, <1>2 DEF CallMoves, IInv, Typed, OthersStay, Call, Steps, Kinds, Setups
<1>4. InPlace(c)'
  BY <1>0, <1>1 DEF InPlace, At, Kind, IInv, Typed, Kinds, Setups
<1>5. /\ call'[c].pc \in {"reserve", "look", "replay"}
      /\ MayFollow(call'[c].kind)
  BY <1>0, <1>1 DEF IInv, Typed, MayFollow, Setups
<1>6. UNCHANGED <<form, registry, stores, swept, faults, done>>
  BY DEF Ask
<1>7. asks' \in 0 .. MaxAsks
  BY BoundsAssumption DEF Ask, IInv, RegistryIsSound, TypeOK
<1> QED
  BY <1>3, <1>4, <1>5, <1>6, <1>7, QuietStep DEF IInv, RegistryIsSound, TypeOK

(* A call that ends has done nothing to the registry.                      *)
LEMMA EndIInv ==
  ASSUME IInv, NEW c \in Callers, Fail(c), UNCHANGED <<form, registry, stores, done, swept, asks>>,
         faults' \in 0 .. MaxFaults
  PROVE  IInv'
BY FailMoves, IdleCall, QuietStep DEF IInv, RegistryIsSound, TypeOK

LEMMA StopIInv ==
  ASSUME IInv, NEW c \in Callers, Stop(c)
  PROVE  IInv'
<1>1. faults' \in 0 .. MaxFaults
  BY BoundsAssumption DEF Stop, IInv, RegistryIsSound, TypeOK
<1> QED
  BY <1>1, EndIInv DEF Stop

LEMMA NothingGrows ==
  ASSUME UNCHANGED <<form, registry, stores, swept>>
  PROVE  Grows
BY DEF Grows, registry, stores, PackageKept, EngineKept, Committed, Whole

(* A set-up whose binding is committed was ready to be answered before.    *)
LEMMA CommittedSetupIInv ==
  ASSUME IInv, NEW c \in Callers, CommittedSetup(c)
  PROVE  IInv'
<1>1. UNCHANGED <<form, registry, stores, history>> /\ call[c].pc = "replay"
  BY DEF CommittedSetup, At
<1>2. MayFollow(Kind(c))
  BY <1>1 DEF IInv, InOrder
<1>3. CASE Committed("binding") /\ Goto(c, "answer")
  <2>1. CallMoves(c) /\ call'[c].pc = "answer" /\ call'[c].kind = Kind(c)
    BY <1>1, <1>3, GotoMoves DEF Steps, Kind
  <2>2. MayFollow("binding")
    BY <1>3 DEF IInv, InOrder, Committed, Kinds
  <2>3. Answerable'
    BY <1>1, <1>3, <2>2 DEF Answerable, MayFollow, Committed, EngineKept, registry, stores, history
  <2>4. InPlace(c)'
    BY <2>1, <2>3 DEF InPlace, At
  <2> QED
    BY <1>1, <1>2, <2>1, <2>4, QuietStep DEF history, IInv, RegistryIsSound, TypeOK
<1>4. CASE Goto(c, "look")
  <2>1. CallMoves(c) /\ call'[c].pc = "look" /\ call'[c].kind = Kind(c)
    BY <1>1, <1>4, GotoMoves DEF Steps, Kind
  <2>2. InPlace(c)'
    BY <1>1, <2>1 DEF InPlace, At, Kind, IInv
  <2> QED
    BY <1>1, <1>2, <2>1, <2>2, QuietStep DEF history, IInv, RegistryIsSound, TypeOK
<1> QED
  BY <1>3, <1>4 DEF CommittedSetup

LEMMA AnswerIInv ==
  ASSUME IInv, NEW c \in Callers, Answer(c)
  PROVE  IInv'
<1>1. UNCHANGED <<form, registry, stores, swept, asks, faults>> /\ Fail(c) /\ Answerable
  BY DEF Answer, IInv, InPlace
<1>2. CallMoves(c) /\ InPlace(c)' /\ call'[c].pc = "idle"
  BY <1>1, FailMoves, IdleCall
<1>3. done' \in BOOLEAN
  BY DEF Answer, IInv, RegistryIsSound, TypeOK
<1> QED
  BY <1>1, <1>2, <1>3, QuietStep DEF IInv, RegistryIsSound, TypeOK

LEMMA LookIInv ==
  ASSUME IInv, NEW c \in Callers, Look(c)
  PROVE  IInv'
<1>1. UNCHANGED <<form, registry, stores, history>> /\ call[c].pc = "look"
  BY DEF Look, At
<1>2. /\ Kind(c) \in {"data_version", "run", "workspace"} /\ MayFollow(Kind(c))
      /\ call[c].expected \in 0 .. revision /\ revision \in Nat
  BY <1>1, CallTyped DEF IInv, InPlace, At, InOrder, RegistryIsSound, TypeOK
<1>3. CASE intents[Kind(c)].state = "none"
  <2>1. PICK expected \in 0 .. revision :
          call' = [call EXCEPT ![c].pc = "reserve", ![c].expected = expected]
    BY <1>2, <1>3 DEF Look
  <2>2. /\ CallMoves(c) /\ call'[c].pc = "reserve" /\ call'[c].kind = Kind(c)
    <3> DEFINE next == [call[c] EXCEPT !.pc = "reserve", !.expected = expected]
    <3>1. call[c] \in Call /\ call \in [Callers -> Call]
      BY DEF IInv, Typed
    <3>0. expected \in Nat
      BY <1>2
    <3>2. /\ next \in Call /\ next.pc = "reserve" /\ next.kind = Kind(c)
          /\ next.expected = expected
      BY <3>0, <3>1 DEF Call, Steps, Kind
    <3>3. call' = [call EXCEPT ![c] = next]
      BY <2>1
    <3> HIDE DEF next
    <3> QED
      BY <1>2, <3>1, <3>2, <3>3 DEF CallMoves, OthersStay, Steps, Kinds
  <2>3. InPlace(c)'
    BY <1>2, <2>2 DEF InPlace, At, Kind, Kinds
  <2> QED
    BY <1>1, <1>2, <2>2, <2>3, QuietStep DEF history, IInv, RegistryIsSound, TypeOK
<1>4. CASE intents[Kind(c)].state = "PENDING"
  <2>1. CallMoves(c) /\ call'[c].pc = "insert" /\ call'[c].kind = Kind(c)
    BY <1>1, <1>4, GotoMoves DEF Look, Steps, Kind
  <2>2. InPlace(c)'
    BY <1>1, <1>2, <1>4, <2>1 DEF InPlace, At, Kind, Kinds, registry
  <2> QED
    BY <1>1, <1>2, <2>1, <2>2, QuietStep DEF history, IInv, RegistryIsSound, TypeOK
<1>5. CASE intents[Kind(c)].state = "COMMITTED" /\ Proceed(c)
  <2>1. /\ CallMoves(c) /\ InPlace(c)' /\ call'[c].pc \in {"look", "package", "engine", "answer"}
        /\ MayFollow(Kind(c))'
    BY <1>1, <1>2, <1>5, NothingGrows, ProceedMoves DEF history, registry
  <2>2. MayFollow(call'[c].kind)
    BY <1>1, <2>1 DEF MayFollow, registry, stores, history, PackageKept, EngineKept, Committed, Kind
  <2> QED
    BY <1>1, <2>1, <2>2, QuietStep DEF history, IInv, RegistryIsSound, TypeOK
<1>6. CASE Fail(c)
  BY <1>1, <1>6, EndIInv DEF history, IInv, RegistryIsSound, TypeOK
<1> QED
  BY <1>3, <1>4, <1>5, <1>6 DEF Look

(* A step that changes the registry, by one call: what it leaves must be   *)
(* sound, and the rest follows from the step.                              *)
LEMMA RegistryStep ==
  ASSUME IInv, NEW c \in Callers, CallMoves(c), UNCHANGED <<form, others, stores, swept, asks, faults>>,
         intents' \in [Kinds -> Intent], rows' \in [Kinds -> SUBSET Owner],
         revision' \in Nat, revision <= revision',
         \A k \in Kinds : /\ intents'[k].state = "none" => intents'[k] = NoIntent
                          /\ intents'[k].state # "none" => intents'[k].owner.by \in Callers
                          /\ intents'[k].expected \in 0 .. revision'
                          /\ rows'[k] # {} => intents'[k].state # "none",
         Sound', Grows, InPlace(c)', call'[c].pc \notin {"connect", "tables"},
         call'[c].pc # "idle" => MayFollow(Kind(c))',
         rows'["binding"] = rows["binding"] \/ (At(c, "insert") /\ Kind(c) = "binding"),
         \A k \in Kinds : intents'[k].state # "none" =>
           intents[k].state # "none" \/ MayFollow(k)',
         \A k \in Kinds : Committed(k)' =>
           Committed(k) \/ (rows'[k] # {} /\ (k \in Stored => k \in swept \/ Whole(k))),
         done' \in BOOLEAN, done' => done
  PROVE  IInv'
<1>1. Typed'
  BY DEF IInv, Typed, CallMoves, stores
<1>2. TypeOK'
  <2>1. \A d \in Callers : call'[d] = Idle \/ call'[d] \in
          [pc : Steps, kind : Kinds, expected : 0 .. revision', created : BOOLEAN]
    <3>1. 0 .. revision \subseteq 0 .. revision'
      BY DEF IInv, RegistryIsSound, TypeOK
    <3> QED
      BY <3>1 DEF CallMoves, OthersStay, IInv, RegistryIsSound, TypeOK, Call
  <2>2. \A k \in Kinds : intents'[k].state \in {"none", "PENDING", "COMMITTED"}
    BY DEF Intent
  <2> QED
    BY <2>1, <2>2 DEF IInv, RegistryIsSound, TypeOK, stores
<1>3. EngineApart'
  BY EngineStays DEF IInv, stores, CallMoves
<1>4. \A k \in Kinds : Committed(k)' =>
        Committed(k) \/ (rows'[k] # {} /\ (k \in Stored => k \in swept' \/ Whole(k)'))
  BY DEF stores, Whole
<1>5. engine' = engine
  BY DEF stores
<1>6. /\ LineageIsWhole' /\ SuccessIsWhole'
      /\ \A d \in Callers : InPlace(d)'
      /\ InOrder' /\ EngineApart'
  BY <1>1, <1>2, <1>3, <1>4, <1>5, OrderStep DEF CallMoves
<1> QED
  BY <1>1, <1>2, <1>6 DEF IInv, RegistryIsSound, Sound

LEMMA ReserveIInv ==
  ASSUME IInv, NEW c \in Callers, Reserve(c)
  PROVE  IInv'
<1> DEFINE kind == call[c].kind
           expected == IF kind = "binding" THEN revision ELSE call[c].expected
<1>1. UNCHANGED <<form, rows, others, revision, stores, history>> /\ call[c].pc = "reserve"
  BY DEF Reserve, At
<1>2. /\ kind \in Kinds /\ MayFollow(kind)
      /\ call[c].expected \in 0 .. revision /\ revision \in Nat
  BY <1>1, CallTyped DEF IInv, InOrder, RegistryIsSound, TypeOK, Kind
<1>3. expected \in 0 .. revision
  BY <1>2
<1>4. CASE /\ intents[kind].state = "none"
           /\ intents' = [intents EXCEPT ![kind] =
                [state |-> "PENDING", expected |-> expected,
                 owner |-> [by |-> c, number |-> NextNumber(kind)]]]
           /\ Goto(c, "insert")
  <2>1. CallMoves(c) /\ call'[c].pc = "insert" /\ call'[c].kind = kind
    BY <1>1, <1>4, GotoMoves DEF Steps
  <2>2. rows[kind] = {}
    BY <1>2, <1>4 DEF IInv, RegistryIsSound, TypeOK
  <2>3. Sound /\ Typed
    BY DEF IInv, RegistryIsSound, Sound
  <2>4. /\ NextNumber(kind) \in Nat
        /\ kind \in Numbered => NextNumber(kind) = 1 + Cardinality(others[kind])
    <3>1. CASE kind \in Numbered
      <4>1. Numbers(kind) = {}
        BY <2>2 DEF Numbers
      <4>2. Cardinality(Numbers(kind)) = 0
        BY <4>1, FS_EmptySet
      <4> QED
        BY <2>3, <3>1, <4>2, NextNumberIs
    <3>2. CASE kind \notin Numbered
      BY <3>2 DEF NextNumber
    <3> QED
      BY <3>1, <3>2
  <2> DEFINE new == [state |-> "PENDING", expected |-> expected,
                     owner |-> [by |-> c, number |-> NextNumber(kind)]]
  <2>5. /\ new \in Intent /\ new.state = "PENDING" /\ new.owner.by = c
        /\ new.owner.number = NextNumber(kind) /\ new.expected \in 0 .. revision
    BY <1>2, <1>3, <2>4 DEF Intent, Owner
  <2>6. /\ intents' \in [Kinds -> Intent] /\ intents'[kind] = new
        /\ \A k \in Kinds \ {kind} : intents'[k] = intents[k]
    BY <1>2, <1>4, <2>3, <2>5 DEF Typed
  <2> HIDE DEF new, expected
  <2>7. Sound'
    BY <1>1, <1>2, <2>2, <2>3, <2>4, <2>5, <2>6, SoundWithoutInsert
  <2>8. Grows
    BY <1>1, <1>2, <1>4, <2>6
    DEF Grows, stores, history, PackageKept, EngineKept, Committed, Whole
  <2>9. \A k \in Kinds : MayFollow(k) => MayFollow(k)'
    BY <2>8, MayStillFollow
  <2>10. InPlace(c)'
    BY <1>1, <1>2, <2>1, <2>2, <2>5, <2>6 DEF InPlace, At, Kind
  <2>11. MayFollow(Kind(c))'
    BY <1>2, <2>1, <2>9 DEF Kind
  <2>12. \A k \in Kinds : /\ intents'[k].state = "none" => intents'[k] = NoIntent
                          /\ intents'[k].state # "none" => intents'[k].owner.by \in Callers
                          /\ intents'[k].expected \in 0 .. revision'
                          /\ rows'[k] # {} => intents'[k].state # "none"
    BY <1>1, <2>5, <2>6 DEF IInv, RegistryIsSound, TypeOK
  <2>13. \A k \in Kinds : Committed(k)' => Committed(k)
    BY <2>5, <2>6 DEF Committed
  <2>14. \A k \in Kinds : intents'[k].state # "none" =>
           intents[k].state # "none" \/ MayFollow(k)'
    BY <1>2, <2>6, <2>9
  <2>15. /\ UNCHANGED <<form, others, stores, swept, asks, faults>> /\ (done' => done)
         /\ rows' = rows /\ rows' \in [Kinds -> SUBSET Owner]
         /\ revision' \in Nat /\ revision <= revision' /\ done' \in BOOLEAN
    BY <1>1, <1>2, <2>3 DEF history, Typed, IInv, RegistryIsSound, TypeOK
  <2>16. call'[c].pc \notin {"connect", "tables"}
    BY <2>1
  <2>17. rows'["binding"] = rows["binding"] \/ (At(c, "insert") /\ Kind(c) = "binding")
    BY <2>15
  <2> QED
    BY <2>1, <2>6, <2>7, <2>8, <2>10, <2>11, <2>12, <2>13, <2>14, <2>15, <2>16, <2>17, RegistryStep
<1>5. CASE Fail(c) /\ UNCHANGED intents
  BY <1>1, <1>5, EndIInv DEF history, registry, IInv, RegistryIsSound, TypeOK
<1>6. CASE /\ intents[kind].state # "none" /\ kind # "binding"
           /\ UNCHANGED intents /\ Goto(c, "insert")
  <2>1. CallMoves(c) /\ call'[c].pc = "insert" /\ call'[c].kind = kind
    BY <1>1, <1>6, GotoMoves DEF Steps
  <2>2. InPlace(c)'
    BY <1>2, <1>6, <2>1 DEF InPlace, At, Kind
  <2> QED
    BY <1>1, <1>2, <1>6, <2>1, <2>2, QuietStep DEF history, registry, IInv, RegistryIsSound, TypeOK
<1>7. CASE /\ intents[kind].state = "COMMITTED" /\ kind # "binding"
           /\ UNCHANGED intents /\ Proceed(c)
  <2>1. UNCHANGED <<form, registry, stores, history>>
    BY <1>1, <1>7 DEF registry
  <2>2. /\ CallMoves(c) /\ InPlace(c)' /\ call'[c].pc \in {"look", "package", "engine", "answer"}
        /\ MayFollow(Kind(c))'
    BY <1>1, <1>2, <1>7, <2>1, NothingGrows, ProceedMoves DEF history, Kind
  <2>3. MayFollow(call'[c].kind)
    BY <2>1, <2>2 DEF MayFollow, registry, stores, history, PackageKept, EngineKept, Committed, Kind
  <2> QED
    BY <2>1, <2>2, <2>3, QuietStep DEF history, IInv, RegistryIsSound, TypeOK
<1>8. intents[kind].state \in {"none", "PENDING", "COMMITTED"}
  BY <1>2 DEF IInv, RegistryIsSound, TypeOK
<1> QED
  BY <1>4, <1>5, <1>6, <1>7, <1>8 DEF Reserve, Kind

(* Behind the Project's own creation, the Project is there.                *)
LEMMA ProjectIsThere ==
  ASSUME IInv, NEW kind \in Kinds \ {"project"}, MayFollow(kind), form = "authoring"
  PROVE  rows["project"] # {}
<1> USE DEF IInv
<1>1. \A k \in Kinds : Committed(k) => MayFollow(k) /\ rows[k] # {}
  BY DEF InOrder, Committed, SuccessIsWhole, CommittedIsWhole
<1> QED
  BY <1>1 DEF MayFollow, Kinds

LEMMA InsertIInv ==
  ASSUME IInv, NEW c \in Callers, Insert(c)
  PROVE  IInv'
<1> DEFINE kind == call[c].kind
           owner == intents[kind].owner
<1>1. /\ UNCHANGED <<form, others, intents, stores, history>>
      /\ call[c].pc = "insert" /\ kind \notin {"project", "binding"}
  BY DEF Insert, At, Kind
<1>2. kind \in {"data_version", "run", "workspace"} /\ MayFollow(kind)
  BY <1>1, CallTyped DEF IInv, InOrder, Kind, Kinds
<1>3. intents[kind].state # "none" /\ intents[kind] \in Intent /\ owner \in Owner
  BY <1>1, <1>2 DEF IInv, InPlace, At, Kind, Typed, Intent, Kinds
<1>4. Sound /\ Typed /\ TypeOK /\ revision \in Nat
  BY DEF IInv, RegistryIsSound, Sound, TypeOK
<1>5. /\ Goto(c, AfterInsert(c)) => CallMoves(c) /\ call'[c].kind = kind
      /\ Goto(c, AfterInsert(c)) => call'[c].pc = IF kind = "run" THEN "finish" ELSE "store"
  BY <1>1, GotoMoves DEF AfterInsert, Steps, Kind
<1>6. CASE owner \in rows[kind] /\ Goto(c, AfterInsert(c)) /\ UNCHANGED <<rows, revision>>
  <2>1. InPlace(c)'
    BY <1>2, <1>5, <1>6 DEF InPlace, At, Kind, Kinds, Stored
  <2> QED
    BY <1>1, <1>2, <1>4, <1>5, <1>6, <2>1, QuietStep DEF registry, history, TypeOK
<1>7. CASE /\ owner \notin rows[kind] /\ revision = intents[kind].expected
           /\ rows' = [rows EXCEPT ![kind] = @ \cup {owner}]
           /\ revision' = revision + 1
           /\ Goto(c, AfterInsert(c))
  <2>1. rows[kind] = {}
    BY <1>2, <1>4, <1>7 DEF Sound, OneOwner, Kinds
  <2>2. kind \in Numbered => owner.number = 1 + Cardinality(others[kind])
    BY <1>3, <1>4, <1>7, <2>1 DEF Sound, NumbersHold
  <2>3. form = "authoring" => kind = "project" \/ rows["project"] # {}
    BY <1>2, ProjectIsThere DEF Kinds
  <2>4. Sound'
    BY <1>1, <1>2, <1>4, <1>7, <2>1, <2>2, <2>3, SoundInsert DEF Kinds
  <2>5. /\ rows' \in [Kinds -> SUBSET Owner] /\ rows'[kind] # {}
        /\ \A k \in Kinds : rows[k] \subseteq rows'[k]
        /\ \A k \in Kinds \ {kind} : rows'[k] = rows[k]
    BY <1>2, <1>3, <1>4, <1>7 DEF Typed, Kinds
  <2>6. Grows
    BY <1>1, <2>5 DEF Grows, stores, history, PackageKept, EngineKept, Committed, Whole
  <2>7. InPlace(c)'
    BY <1>2, <1>5, <1>7, <2>5 DEF InPlace, At, Kind, Stored
  <2>8. MayFollow(Kind(c))'
    <3>1. \A k \in Kinds : k = kind => MayFollow(k)'
      BY <1>2, <2>6, MayStillFollow
    <3> QED
      BY <1>2, <1>5, <1>7, <3>1 DEF Kind, Kinds
  <2>9. \A k \in Kinds : /\ intents'[k].state = "none" => intents'[k] = NoIntent
                         /\ intents'[k].state # "none" => intents'[k].owner.by \in Callers
                         /\ intents'[k].expected \in 0 .. revision'
                         /\ rows'[k] # {} => intents'[k].state # "none"
    BY <1>1, <1>3, <1>4, <1>7, <2>5 DEF TypeOK
  <2>10. \A k \in Kinds : Committed(k)' => Committed(k)
    BY <1>1 DEF Committed
  <2>11. rows'["binding"] = rows["binding"] \/ (At(c, "insert") /\ Kind(c) = "binding")
    BY <1>2, <2>5 DEF Kinds
  <2>12. /\ UNCHANGED <<form, others, stores, swept, asks, faults>> /\ (done' => done)
         /\ intents' \in [Kinds -> Intent] /\ done' \in BOOLEAN
         /\ \A k \in Kinds : intents'[k].state # "none" => intents[k].state # "none"
    BY <1>1, <1>4 DEF history, Typed, TypeOK
  <2>13. revision' \in Nat /\ revision <= revision'
    BY <1>4, <1>7
  <2>14. call'[c].pc \notin {"connect", "tables"}
    BY <1>5, <1>7
  <2> QED
    BY <1>5, <1>7, <2>4, <2>5, <2>6, <2>7, <2>8, <2>9, <2>10, <2>11, <2>12, <2>13, <2>14,
       RegistryStep
<1>8. CASE Fail(c) /\ UNCHANGED <<rows, revision>>
  BY <1>1, <1>4, <1>8, EndIInv DEF history, registry, TypeOK
<1> QED
  BY <1>6, <1>7, <1>8 DEF Insert, Kind

LEMMA InsertProjectIInv ==
  ASSUME IInv, NEW c \in Callers, InsertProject(c)
  PROVE  IInv'
<1> DEFINE owner == intents["project"].owner
<1>1. /\ UNCHANGED <<form, others, stores, history>>
      /\ call[c].pc = "insert" /\ call[c].kind = "project"
      /\ rows' = [rows EXCEPT !["project"] = @ \cup {owner}]
      /\ revision' = IF rows["project"] = {} THEN 1 ELSE revision
      /\ intents' = [intents EXCEPT !["project"].state = "COMMITTED"]
      /\ Proceed(c)
  BY DEF InsertProject, At, Kind
<1>2. Sound /\ Typed /\ TypeOK /\ revision \in Nat
  BY DEF IInv, RegistryIsSound, Sound, TypeOK
<1>3. form = "authoring" /\ MayFollow("project")
  BY <1>1 DEF IInv, InOrder, MayFollow, Kind
<1>4. /\ intents["project"].state # "none" /\ intents["project"] \in Intent
      /\ owner \in Owner /\ owner.by \in Callers
  BY <1>1, <1>2 DEF IInv, InPlace, At, Kind, Typed, Intent, Kinds, TypeOK
<1>5. /\ intents' \in [Kinds -> Intent]
      /\ intents'["project"].state = "COMMITTED" /\ intents'["project"].owner = owner
      /\ intents'["project"].expected = intents["project"].expected
      /\ \A k \in Kinds \ {"project"} : intents'[k] = intents[k]
  <2> DEFINE new == [intents["project"] EXCEPT !.state = "COMMITTED"]
  <2>1. /\ new \in Intent /\ new.state = "COMMITTED" /\ new.owner = owner
        /\ new.expected = intents["project"].expected
    BY <1>4 DEF Intent
  <2>2. intents' = [intents EXCEPT !["project"] = new]
    BY <1>1
  <2> HIDE DEF new
  <2> QED
    BY <1>2, <2>1, <2>2 DEF Typed, Kinds
<1>6. /\ rows' \in [Kinds -> SUBSET Owner] /\ rows'["project"] # {}
      /\ \A k \in Kinds : rows[k] \subseteq rows'[k]
      /\ \A k \in Kinds \ {"project"} : rows'[k] = rows[k]
  BY <1>1, <1>2, <1>4 DEF Typed, Kinds
<1>7. Sound' /\ revision' \in Nat /\ revision <= revision'
  <2>1. \A k \in Kinds : /\ intents'[k].owner = intents[k].owner
                         /\ intents'[k].expected = intents[k].expected
                         /\ intents'[k].state # "none" => intents[k].state # "none"
    BY <1>4, <1>5
  <2>2. CASE rows["project"] = {}
    <3>1. revision = 0 /\ revision' = revision + 1
      BY <1>1, <1>2, <1>3, <2>2 DEF Sound, NumbersHold
    <3>2. "project" \in Kinds /\ "project" \notin Numbered
      BY DEF Kinds, Numbered
    <3>3. rows' = [rows EXCEPT !["project"] = @ \cup {intents["project"].owner}]
      BY <1>1
    <3>4. UNCHANGED <<form, others>>
      BY <1>1
    <3>5. Sound'
      BY <1>2, <2>1, <2>2, <3>1, <3>2, <3>3, <3>4, SoundInsert
    <3> QED
      BY <1>2, <3>1, <3>5
  <2>3. CASE rows["project"] # {}
    <3>1. rows' = rows /\ revision' = revision
      <4>1. rows["project"] = {owner}
        BY <1>2, <2>3 DEF Sound, OneOwner, Kinds
      <4>2. [rows EXCEPT !["project"] = @ \cup {owner}] = rows
        BY <1>2, <4>1 DEF Typed
      <4> QED
        BY <1>1, <2>3, <4>2
    <3> QED
      BY <1>1, <1>2, <2>1, <3>1, SoundWithoutInsert
  <2> QED
    BY <2>2, <2>3
<1>8. Grows
  BY <1>1, <1>5, <1>6 DEF Grows, stores, history, PackageKept, EngineKept, Committed, Whole
<1>9. /\ CallMoves(c) /\ InPlace(c)' /\ call'[c].pc \in {"look", "package", "engine", "answer"}
      /\ MayFollow(Kind(c))'
  BY <1>1, <1>5, <1>8, ProceedMoves DEF Kind
<1>10. \A k \in Kinds : /\ intents'[k].state = "none" => intents'[k] = NoIntent
                        /\ intents'[k].state # "none" => intents'[k].owner.by \in Callers
                        /\ intents'[k].expected \in 0 .. revision'
                        /\ rows'[k] # {} => intents'[k].state # "none"
  BY <1>2, <1>4, <1>5, <1>6, <1>7 DEF TypeOK
<1>11. \A k \in Kinds : Committed(k)' =>
         Committed(k) \/ (rows'[k] # {} /\ (k \in Stored => k \in swept \/ Whole(k)))
  BY <1>5, <1>6 DEF Committed, Stored
<1>12. /\ UNCHANGED <<form, others, stores, swept, asks, faults>> /\ (done' => done)
       /\ done' \in BOOLEAN
       /\ \A k \in Kinds : intents'[k].state # "none" => intents[k].state # "none"
       /\ rows'["binding"] = rows["binding"] \/ (At(c, "insert") /\ Kind(c) = "binding")
  BY <1>1, <1>2, <1>4, <1>5, <1>6 DEF history, TypeOK, Kinds
<1>13. call'[c].pc \notin {"connect", "tables"}
  BY <1>9
<1> QED
  BY <1>5, <1>6, <1>7, <1>8, <1>9, <1>10, <1>11, <1>12, <1>13, RegistryStep

LEMMA BindIInv ==
  ASSUME IInv, NEW c \in Callers, Bind(c)
  PROVE  IInv'
<1> DEFINE owner == intents["binding"].owner
<1>1. /\ UNCHANGED <<form, others, stores, history>>
      /\ call[c].pc = "insert" /\ call[c].kind = "binding"
  BY DEF Bind, At, Kind
<1>2. Sound /\ Typed /\ TypeOK /\ revision \in Nat
  BY DEF IInv, RegistryIsSound, Sound, TypeOK
<1>3. form \in Setups /\ MayFollow("binding") /\ rows["binding"] = {}
  BY <1>1 DEF IInv, InOrder, InPlace, MayFollow, Kind, At
<1>4. /\ intents["binding"].state # "none" /\ intents["binding"] \in Intent
      /\ owner \in Owner /\ owner.by \in Callers
  BY <1>1, <1>2 DEF IInv, InPlace, At, Kind, Typed, Intent, Kinds, TypeOK
<1>5. CASE /\ revision = intents["binding"].expected
           /\ rows' = [rows EXCEPT !["binding"] = @ \cup {owner}]
           /\ revision' = revision + 1
           /\ \/ /\ intents' = [intents EXCEPT !["binding"].state = "COMMITTED"]
                 /\ Goto(c, "answer")
              \/ Goto(c, "finish") /\ UNCHANGED intents
  <2>1. /\ intents' \in [Kinds -> Intent]
        /\ intents'["binding"].state # "none" /\ intents'["binding"].owner = owner
        /\ intents'["binding"].expected = intents["binding"].expected
        /\ Committed("binding") => Committed("binding")'
        /\ \A k \in Kinds \ {"binding"} : intents'[k] = intents[k]
    <3> DEFINE new == [intents["binding"] EXCEPT !.state = "COMMITTED"]
    <3>1. /\ new \in Intent /\ new.state = "COMMITTED" /\ new.owner = owner
          /\ new.expected = intents["binding"].expected
      BY <1>4 DEF Intent
    <3>2. intents' = [intents EXCEPT !["binding"] = new] \/ intents' = intents
      BY <1>5
    <3> HIDE DEF new
    <3> QED
      BY <1>2, <1>4, <3>1, <3>2 DEF Typed, Kinds, Committed
  <2>2. /\ rows' \in [Kinds -> SUBSET Owner] /\ rows'["binding"] # {}
        /\ \A k \in Kinds : rows[k] \subseteq rows'[k]
        /\ \A k \in Kinds \ {"binding"} : rows'[k] = rows[k]
    BY <1>2, <1>4, <1>5 DEF Typed, Kinds
  <2>3. Sound'
    <3>1. \A k \in Kinds : /\ intents'[k].owner = intents[k].owner
                           /\ intents'[k].expected = intents[k].expected
                           /\ intents'[k].state # "none" => intents[k].state # "none"
      BY <1>4, <2>1
    <3>2. "binding" \in Kinds /\ "binding" \notin Numbered
      BY DEF Kinds, Numbered
    <3>3. rows' = [rows EXCEPT !["binding"] = @ \cup {intents["binding"].owner}]
      BY <1>5
    <3>4. UNCHANGED <<form, others>> /\ revision' = revision + 1
      BY <1>1, <1>5
    <3>5. form = "authoring" => "binding" = "project" \/ rows["project"] # {}
      BY <1>3 DEF Setups
    <3> QED
      BY <1>2, <1>3, <3>1, <3>2, <3>3, <3>4, <3>5, SoundInsert
  <2>4. Grows
    BY <1>1, <1>4, <2>1, <2>2
    DEF Grows, stores, history, PackageKept, EngineKept, Committed, Whole
  <2>5. CallMoves(c) /\ call'[c].pc \in {"answer", "finish"} /\ call'[c].kind = "binding"
    BY <1>1, <1>5, GotoMoves DEF Steps
  <2>6. InPlace(c)'
    \* The answer comes with the end of the intent, the other way with the row.
    <3>1. call'[c].pc = "answer" => Committed("binding")'
      <4>1. CASE intents' = [intents EXCEPT !["binding"].state = "COMMITTED"]
        BY <1>2, <1>4, <4>1 DEF Typed, Kinds, Committed, Intent
      <4>2. CASE Goto(c, "finish")
        BY <1>1, <4>2, GotoMoves DEF Steps
      <4> QED
        BY <1>5, <4>1, <4>2
    <3>2. MayFollow("binding")'
      BY <1>3, <2>4, MayStillFollow
    <3>3. call'[c].pc = "answer" => Answerable'
      BY <3>1, <3>2 DEF Answerable, MayFollow
    <3> QED
      BY <2>2, <2>5, <3>3 DEF InPlace, At, Kind, Kinds, Stored
  <2>7. \A k \in Kinds : /\ intents'[k].state = "none" => intents'[k] = NoIntent
                         /\ intents'[k].state # "none" => intents'[k].owner.by \in Callers
                         /\ intents'[k].expected \in 0 .. revision'
                         /\ rows'[k] # {} => intents'[k].state # "none"
    BY <1>2, <1>4, <1>5, <2>1, <2>2 DEF TypeOK
  <2>8. \A k \in Kinds : Committed(k)' =>
          Committed(k) \/ (rows'[k] # {} /\ (k \in Stored => k \in swept \/ Whole(k)))
    BY <2>1, <2>2 DEF Committed, Stored
  <2>9. \A k \in Kinds : intents'[k].state # "none" =>
          intents[k].state # "none" \/ MayFollow(k)'
    BY <1>4, <2>1
  <2>10. rows'["binding"] = rows["binding"] \/ (At(c, "insert") /\ Kind(c) = "binding")
    BY <1>1 DEF At, Kind
  <2>11. revision' \in Nat /\ revision <= revision'
    BY <1>2, <1>5
  <2>12. (done' \in BOOLEAN) /\ (done' => done) /\ UNCHANGED <<swept, asks, faults>>
    BY <1>1, <1>2 DEF history, TypeOK
  <2>13. call'[c].pc \notin {"connect", "tables"} /\ MayFollow(Kind(c))'
    BY <1>3, <2>4, <2>5, MayStillFollow DEF Kind, MayFollow
  <2> QED
    BY <1>1, <2>1, <2>2, <2>3, <2>4, <2>5, <2>6, <2>7, <2>8, <2>9, <2>10, <2>11, <2>12, <2>13,
       RegistryStep
<1>6. CASE Fail(c) /\ UNCHANGED <<intents, rows, revision>>
  BY <1>1, <1>2, <1>6, EndIInv DEF registry, history, TypeOK
<1> QED
  BY <1>1, <1>5, <1>6 DEF Bind, Kind

LEMMA FinishIInv ==
  ASSUME IInv, NEW c \in Callers, Finish(c)
  PROVE  IInv'
<1> DEFINE kind == call[c].kind
           owner == intents[kind].owner
<1>1. /\ UNCHANGED <<form, rows, others, revision, stores, history>>
      /\ call[c].pc = "finish"
      /\ intents' = [intents EXCEPT ![kind].state = "COMMITTED"]
      /\ IF Whole(kind) THEN Proceed(c) ELSE Fail(c)
  BY DEF Finish, At, Kind
<1>2. Sound /\ Typed /\ TypeOK /\ revision \in Nat
  BY DEF IInv, RegistryIsSound, Sound, TypeOK
<1>3. /\ kind \in Kinds
      /\ rows[kind] # {} /\ (kind \in Stored \ swept => Whole(kind))
  BY <1>1 DEF IInv, InPlace, At, Kind, Kinds
<1>4. /\ intents[kind].state # "none" /\ intents[kind] \in Intent
      /\ owner \in Owner /\ owner.by \in Callers
  BY <1>2, <1>3 DEF Typed, Intent, TypeOK
<1>5. /\ intents' \in [Kinds -> Intent]
      /\ intents'[kind].state = "COMMITTED" /\ intents'[kind].owner = owner
      /\ intents'[kind].expected = intents[kind].expected
      /\ \A k \in Kinds \ {kind} : intents'[k] = intents[k]
  <2> DEFINE new == [intents[kind] EXCEPT !.state = "COMMITTED"]
  <2>1. /\ new \in Intent /\ new.state = "COMMITTED" /\ new.owner = owner
        /\ new.expected = intents[kind].expected
    BY <1>4 DEF Intent
  <2>2. intents' = [intents EXCEPT ![kind] = new]
    BY <1>1
  <2> HIDE DEF new
  <2> QED
    BY <1>2, <1>3, <2>1, <2>2 DEF Typed
<1>6. Sound'
  <2>1. \A k \in Kinds : /\ intents'[k].owner = intents[k].owner
                         /\ intents'[k].expected = intents[k].expected
                         /\ intents'[k].state # "none" => intents[k].state # "none"
    BY <1>4, <1>5
  <2> QED
    BY <1>1, <1>2, <2>1, SoundWithoutInsert
<1>7. Grows
  BY <1>1, <1>4, <1>5 DEF Grows, stores, history, PackageKept, EngineKept, Committed, Whole
<1>8. /\ CallMoves(c) /\ InPlace(c)' /\ call'[c].pc \notin {"connect", "tables"}
      /\ (call'[c].pc # "idle" => MayFollow(Kind(c))')
  <2>1. CASE Fail(c)
    BY <2>1, FailMoves, IdleCall
  <2>2. CASE Proceed(c)
    BY <1>1, <1>3, <1>5, <1>7, <2>2, ProceedMoves DEF Kind
  <2> QED
    BY <1>1, <2>1, <2>2
<1>9. \A k \in Kinds : /\ intents'[k].state = "none" => intents'[k] = NoIntent
                       /\ intents'[k].state # "none" => intents'[k].owner.by \in Callers
                       /\ intents'[k].expected \in 0 .. revision'
                       /\ rows'[k] # {} => intents'[k].state # "none"
  BY <1>1, <1>2, <1>4, <1>5 DEF TypeOK
<1>10. \A k \in Kinds : Committed(k)' =>
         Committed(k) \/ (rows'[k] # {} /\ (k \in Stored => k \in swept \/ Whole(k)))
  BY <1>1, <1>3, <1>5 DEF Committed
<1>11. /\ UNCHANGED <<form, others, stores, swept, asks, faults>> /\ (done' => done)
       /\ rows' \in [Kinds -> SUBSET Owner] /\ done' \in BOOLEAN
       /\ revision' \in Nat /\ revision <= revision'
       /\ \A k \in Kinds : intents'[k].state # "none" => intents[k].state # "none"
       /\ rows'["binding"] = rows["binding"] \/ (At(c, "insert") /\ Kind(c) = "binding")
  BY <1>1, <1>2, <1>4, <1>5 DEF history, TypeOK, Typed
<1> QED
  BY <1>5, <1>6, <1>7, <1>8, <1>9, <1>10, <1>11, RegistryStep

---------------------------------------------------------------------------
(* A step on the stores or the engine.                                     *)
LEMMA StoreStep ==
  ASSUME IInv, NEW c \in Callers, CallMoves(c), UNCHANGED <<form, registry>>,
         store' \in [Stored -> {"absent", "dir", "empty", "ready", "packaged"}],
         engine' \in {"absent", "dirs", "empty", "ready"},
         done' \in BOOLEAN, swept' \subseteq Stored \cup {"engine"}, swept \subseteq swept',
         asks' \in 0 .. MaxAsks, faults' \in 0 .. MaxFaults,
         PackageKept => PackageKept', EngineKept => EngineKept',
         \A k \in Stored : k \in swept \/ Whole(k) => k \in swept' \/ Whole(k)',
         InPlace(c)', call'[c].pc # "idle" => MayFollow(Kind(c))',
         done' => done,
         engine' # "absent" => engine # "absent" \/ Committed("workspace"),
         EngineApart'
  PROVE  IInv'
<1>1. Typed' /\ RegistryIsSound' /\ NumbersHold'
  BY RegistryStays
<1>2. Grows
  BY DEF Grows, registry, Committed
<1>3. /\ \A k \in Kinds : intents'[k].state # "none" => intents[k].state # "none"
      /\ \A k \in Kinds : Committed(k)' => Committed(k)
      /\ rows' = rows
      /\ Committed("workspace") => Committed("workspace")'
  BY DEF registry, Committed
<1>4. /\ LineageIsWhole' /\ SuccessIsWhole'
      /\ \A d \in Callers : InPlace(d)'
      /\ InOrder' /\ EngineApart'
  BY <1>1, <1>2, <1>3, OrderStep DEF CallMoves, RegistryIsSound
<1> QED
  BY <1>1, <1>4 DEF IInv

(* The parts of the invariant that steps on the stores need.               *)
LEMMA StateTyped ==
  ASSUME IInv
  PROVE  /\ store \in [Stored -> {"absent", "dir", "empty", "ready", "packaged"}]
         /\ engine \in {"absent", "dirs", "empty", "ready"}
         /\ done \in BOOLEAN /\ swept \subseteq Stored \cup {"engine"}
         /\ asks \in 0 .. MaxAsks /\ faults \in 0 .. MaxFaults
         /\ call \in [Callers -> Call] /\ EngineApart
BY DEF IInv, RegistryIsSound, TypeOK, Typed

LEMMA StoreIInv ==
  ASSUME IInv, NEW c \in Callers, Store(c)
  PROVE  IInv'
<1> DEFINE kind == call[c].kind
<1>1. UNCHANGED <<form, registry, engine, history>> /\ call[c].pc = "store"
  BY DEF Store, At
<1>2. kind \in Stored /\ kind \in Kinds /\ MayFollow(kind) /\ rows[kind] # {}
      /\ call[c].expected \in 0 .. revision
  BY <1>1, CallTyped DEF IInv, InOrder, InPlace, Kind, At
<1>3. CASE store[kind] \in {"ready", "packaged"} /\ Goto(c, "finish") /\ UNCHANGED store
  <2>1. CallMoves(c) /\ call'[c].pc = "finish" /\ call'[c].kind = kind
    BY <1>1, <1>3, GotoMoves DEF Steps
  <2>2. InPlace(c)'
    BY <1>1, <1>2, <1>3, <2>1 DEF InPlace, At, Kind, Stored, Whole, registry
  <2> QED
    BY <1>1, <1>2, <1>3, <2>1, <2>2, QuietStep, StateTyped DEF history, stores
<1>4. CASE Fail(c) /\ UNCHANGED store
  BY <1>1, <1>4, EndIInv, StateTyped DEF history, stores
<1>5. CASE Goto(c, "open") /\ UNCHANGED store
  <2>1. CallMoves(c) /\ call'[c].pc = "open" /\ call'[c].kind = kind
    BY <1>1, <1>5, GotoMoves DEF Steps
  <2>2. InPlace(c)'
    BY <1>1, <1>2, <1>5, <2>1 DEF InPlace, At, Kind, registry
  <2> QED
    BY <1>1, <1>2, <1>5, <2>1, <2>2, QuietStep, StateTyped DEF history, stores
<1>6. CASE /\ store[kind] = "absent"
           /\ store' = [store EXCEPT ![kind] = "dir"]
           /\ call' = [call EXCEPT ![c].pc = "open", ![c].created = TRUE]
  <2>1. CallMoves(c) /\ call'[c].pc = "open" /\ call'[c].kind = kind
    <3> DEFINE next == [call[c] EXCEPT !.pc = "open", !.created = TRUE]
    <3>1. call[c] \in Call /\ call \in [Callers -> Call]
      BY StateTyped
    <3>2. /\ next \in Call /\ next.pc = "open" /\ next.kind = kind
          /\ next.expected = call[c].expected
      BY <3>1 DEF Call, Steps
    <3>3. call' = [call EXCEPT ![c] = next]
      BY <1>6
    <3> HIDE DEF next
    <3> QED
      BY <1>2, <3>1, <3>2, <3>3 DEF CallMoves, OthersStay, Steps
  <2>2. InPlace(c)'
    BY <1>1, <1>2, <2>1 DEF InPlace, At, Kind, registry
  <2>3. /\ store' \in [Stored -> {"absent", "dir", "empty", "ready", "packaged"}]
        /\ \A k \in Stored : Whole(k) => Whole(k)'
        /\ store["data_version"] = "packaged" => store'["data_version"] = "packaged"
    BY <1>2, <1>6, StateTyped DEF Whole, Stored
  <2>4. (PackageKept => PackageKept') /\ (EngineKept => EngineKept')
    BY <1>1, <2>3 DEF PackageKept, EngineKept, history
  <2>5. MayFollow(Kind(c))'
    BY <1>1, <1>2, <2>1, <2>4 DEF MayFollow, Kind, registry, Committed, Stored
  <2>6. EngineApart'
    BY <1>1, <2>1, EngineStays, StateTyped DEF CallMoves, history
  <2> QED
    BY <1>1, <2>1, <2>2, <2>3, <2>4, <2>5, <2>6, StoreStep, StateTyped DEF history
<1> QED
  BY <1>3, <1>4, <1>5, <1>6 DEF Store, Kind

LEMMA OpenIInv ==
  ASSUME IInv, NEW c \in Callers, Open(c)
  PROVE  IInv'
<1> DEFINE kind == call[c].kind
<1>1. UNCHANGED <<form, registry, engine, history>> /\ call[c].pc = "open"
  BY DEF Open, At
<1>2. kind \in Stored /\ kind \in Kinds /\ MayFollow(kind) /\ rows[kind] # {}
  BY <1>1, CallTyped DEF IInv, InOrder, InPlace, Kind, At
<1>3. CallMoves(c) /\ call'[c].pc = "init" /\ call'[c].kind = kind
  BY <1>1, GotoMoves DEF Open, Steps
<1>4. InPlace(c)'
  BY <1>1, <1>2, <1>3 DEF InPlace, At, Kind, registry
<1>5. /\ store' \in [Stored -> {"absent", "dir", "empty", "ready", "packaged"}]
      /\ \A k \in Stored : Whole(k) => Whole(k)'
      /\ store["data_version"] = "packaged" => store'["data_version"] = "packaged"
  <2>1. store' = [store EXCEPT ![kind] = IF store[kind] = "dir" THEN "empty" ELSE store[kind]]
    BY DEF Open, Kind
  <2> QED
    BY <1>2, <2>1, StateTyped DEF Whole, Stored
<1>6. (PackageKept => PackageKept') /\ (EngineKept => EngineKept')
  BY <1>1, <1>5 DEF PackageKept, EngineKept, history
<1>7. MayFollow(Kind(c))'
  BY <1>1, <1>2, <1>3, <1>6 DEF MayFollow, Kind, registry, Committed, Stored
<1>8. EngineApart'
  BY <1>1, <1>3, EngineStays, StateTyped DEF CallMoves, history
<1> QED
  BY <1>1, <1>3, <1>4, <1>5, <1>6, <1>7, <1>8, StoreStep, StateTyped DEF history

(* What a creation that fails takes away was not whole, or is on record as *)
(* swept away.                                                             *)
LEMMA DiscardIInv ==
  ASSUME IInv, NEW c \in Callers, Discard(c), call[c].pc \in {"open", "init"},
         UNCHANGED <<form, registry, done, asks>>, faults' \in 0 .. MaxFaults
  PROVE  IInv'
<1> DEFINE kind == call[c].kind
<1>1. kind \in Stored /\ kind \in Kinds
  BY CallTyped DEF IInv, InPlace, Kind
<1>2. Fail(c) /\ CallMoves(c) /\ call'[c].pc = "idle" /\ InPlace(c)'
  BY FailMoves, IdleCall DEF Discard
<1>3. CASE ~ call[c].created
  BY <1>2, <1>3, EndIInv, StateTyped DEF Discard
<1>4. CASE call[c].created
  <2>1. /\ store' = [store EXCEPT ![kind] = "absent"]
        /\ engine' = IF kind = "workspace" THEN "absent" ELSE engine
        /\ swept' = IF store[kind] = "dir" THEN swept ELSE swept \cup {kind}
    BY <1>4 DEF Discard, Kind
  <2>2. /\ store' \in [Stored -> {"absent", "dir", "empty", "ready", "packaged"}]
        /\ engine' \in {"absent", "dirs", "empty", "ready"}
        /\ swept' \subseteq Stored \cup {"engine"} /\ swept \subseteq swept'
    BY <1>1, <2>1, StateTyped
  <2>3. \A k \in Stored : k \in swept \/ Whole(k) => k \in swept' \/ Whole(k)'
    BY <1>1, <2>1, StateTyped DEF Whole
  <2>4. PackageKept => PackageKept'
    BY <1>1, <2>1, StateTyped DEF PackageKept, Stored
  (* The engine belongs to a Workspace that was whole.                     *)
  <2>5. kind = "workspace" /\ Committed("workspace") => "workspace" \in swept'
    BY <1>1, <2>1 DEF IInv, SuccessIsWhole, CommittedIsWhole, Whole
  <2>6. EngineKept => EngineKept'
    <3>1. engine # "absent" => Committed("workspace")
      BY DEF IInv, LineageIsWhole
    <3> QED
      BY <1>1, <2>1, <2>2, <2>5, <3>1 DEF EngineKept
  <2>7. EngineApart'
    <3>1. CASE kind = "workspace"
      <4>1. \A d \in Callers : Making(d) => Committed("workspace")
        BY DEF IInv, InPlace, Making
      <4>2. \A d \in Callers : call'[d].pc \in {"connect", "tables"} => Making(d)
        BY <1>2 DEF CallMoves, OthersStay, Making
      <4>3. CASE Committed("workspace")
        BY <2>5, <3>1, <4>3 DEF EngineApart
      <4>4. CASE ~ Committed("workspace")
        BY <4>1, <4>2, <4>4 DEF EngineApart, At, Making
      <4> QED
        BY <4>3, <4>4
    <3>2. CASE kind # "workspace"
      BY <1>2, <2>1, <2>2, <3>2, EngineStays, StateTyped DEF CallMoves
    <3> QED
      BY <3>1, <3>2
  <2>8. engine' # "absent" => engine # "absent" \/ Committed("workspace")
    BY <2>1
  <2>9. (call'[c].pc # "idle" => MayFollow(Kind(c))') /\ (done' \in BOOLEAN)
        /\ asks' \in 0 .. MaxAsks
    BY <1>2, StateTyped
  <2>10. done' => done
    OBVIOUS
  <2> QED
    BY <1>2, <2>2, <2>3, <2>4, <2>6, <2>7, <2>8, <2>9, <2>10, StoreStep
<1> QED
  BY <1>3, <1>4

LEMMA InitStoreIInv ==
  ASSUME IInv, NEW c \in Callers, InitStore(c)
  PROVE  IInv'
<1> DEFINE kind == call[c].kind
<1>1. UNCHANGED <<form, registry, done, asks, faults>> /\ call[c].pc = "init"
  BY DEF InitStore, At
<1>2. kind \in Stored /\ kind \in Kinds /\ MayFollow(kind) /\ rows[kind] # {}
  BY <1>1, CallTyped DEF IInv, InOrder, InPlace, Kind, At
<1>3. CASE Discard(c)
  BY <1>1, <1>3, DiscardIInv, StateTyped
<1>4. CASE /\ store[kind] = "empty"
           /\ store' = [store EXCEPT ![kind] = "ready"]
           /\ Goto(c, "finish")
           /\ UNCHANGED <<engine, swept>>
  <2>1. CallMoves(c) /\ call'[c].pc = "finish" /\ call'[c].kind = kind
    BY <1>1, <1>4, GotoMoves DEF Steps
  <2>2. /\ store' \in [Stored -> {"absent", "dir", "empty", "ready", "packaged"}]
        /\ \A k \in Stored : Whole(k) => Whole(k)'
        /\ store'[kind] = "ready"
        /\ store["data_version"] = "packaged" => store'["data_version"] = "packaged"
    BY <1>2, <1>4, StateTyped DEF Whole, Stored
  <2>3. InPlace(c)'
    BY <1>1, <1>2, <1>4, <2>1, <2>2 DEF InPlace, At, Kind, Stored, registry, Whole
  <2>4. (PackageKept => PackageKept') /\ (EngineKept => EngineKept')
    BY <1>4, <2>2 DEF PackageKept, EngineKept
  <2>5. MayFollow(Kind(c))'
    BY <1>1, <1>2, <2>1, <2>4 DEF MayFollow, Kind, registry, Committed, Stored
  <2>6. EngineApart'
    BY <1>4, <2>1, EngineStays, StateTyped DEF CallMoves
  <2> QED
    BY <1>1, <1>4, <2>1, <2>2, <2>3, <2>4, <2>5, <2>6, StoreStep, StateTyped
<1> QED
  BY <1>1, <1>3, <1>4 DEF InitStore, Kind

LEMMA StoreFailsIInv ==
  ASSUME IInv, NEW c \in Callers, StoreFails(c)
  PROVE  IInv'
<1>1. faults' \in 0 .. MaxFaults
  BY BoundsAssumption, StateTyped DEF StoreFails
<1> QED
  BY <1>1, DiscardIInv DEF StoreFails

(* On to the run: the package is there.                                    *)
LEMMA RunMoves ==
  ASSUME IInv, NEW c \in Callers, call[c].pc \in {"package", "replace"}, Enter(c, "run")
  PROVE  /\ CallMoves(c) /\ call'[c].pc = "look" /\ call'[c].kind = "run" /\ InPlace(c)'
         /\ Committed("data_version")
<1>1. /\ call' \in [Callers -> Call] /\ OthersStay(c)
      /\ call'[c].pc = "look" /\ call'[c].kind = "run"
      /\ call'[c].expected = call[c].expected
  BY EnterCall, StateTyped DEF Kinds
<1>2. CallMoves(c)
  BY <1>1, CallTyped DEF CallMoves, Steps, Kinds
<1>3. InPlace(c)'
  BY <1>1 DEF InPlace, At, Kind
<1>4. Committed("data_version")
  BY DEF IInv, InPlace
<1> QED
  BY <1>1, <1>2, <1>3, <1>4

LEMMA LookForPackageIInv ==
  ASSUME IInv, NEW c \in Callers, LookForPackage(c)
  PROVE  IInv'
<1>1. UNCHANGED <<form, registry, stores, history>> /\ call[c].pc = "package"
  BY DEF LookForPackage, At
<1>2. /\ Kind(c) = "data_version" /\ MayFollow("data_version") /\ Committed("data_version")
  BY <1>1 DEF IInv, InPlace, InOrder, Kind
<1>3. CASE store["data_version"] = "packaged" /\ Enter(c, "run")
  <2>1. MayFollow("run")
    BY <1>2, <1>3 DEF MayFollow, PackageKept
  <2> QED
    BY <1>1, <1>3, <2>1, RunMoves, QuietStep, StateTyped DEF history
<1>4. CASE Goto(c, "replace")
  <2>1. CallMoves(c) /\ call'[c].pc = "replace" /\ call'[c].kind = "data_version"
    BY <1>1, <1>2, <1>4, GotoMoves DEF Steps, Kind
  <2>2. InPlace(c)'
    BY <1>1, <1>2, <2>1 DEF InPlace, At, Kind, registry, Committed
  <2> QED
    BY <1>1, <1>2, <2>1, <2>2, QuietStep, StateTyped DEF history
<1>5. CASE Fail(c)
  BY <1>1, <1>5, EndIInv, StateTyped DEF history
<1> QED
  BY <1>2, <1>3, <1>4, <1>5 DEF LookForPackage

LEMMA ReplaceDraftIInv ==
  ASSUME IInv, NEW c \in Callers, ReplaceDraft(c)
  PROVE  IInv'
<1>1. UNCHANGED <<form, registry, engine, history>> /\ call[c].pc = "replace"
  BY DEF ReplaceDraft, At
<1>2. Kind(c) = "data_version" /\ Committed("data_version")
  BY <1>1 DEF IInv, InPlace
<1>3. CASE Fail(c) /\ UNCHANGED store
  BY <1>1, <1>3, EndIInv, StateTyped DEF history, stores
<1>4. CASE store' = [store EXCEPT !["data_version"] = "packaged"] /\ Enter(c, "run")
  <2>1. /\ CallMoves(c) /\ call'[c].pc = "look" /\ call'[c].kind = "run" /\ InPlace(c)'
    BY <1>1, <1>4, RunMoves
  <2>2. /\ store' \in [Stored -> {"absent", "dir", "empty", "ready", "packaged"}]
        /\ \A k \in Stored : Whole(k) => Whole(k)'
        /\ store'["data_version"] = "packaged"
    BY <1>4, StateTyped DEF Whole, Stored
  <2>3. PackageKept' /\ (EngineKept => EngineKept')
    BY <1>1, <2>2 DEF PackageKept, EngineKept, history
  <2>4. MayFollow(Kind(c))'
    BY <1>1, <1>2, <2>1, <2>3 DEF MayFollow, Kind, registry, Committed
  <2>5. EngineApart'
    BY <1>1, <2>1, EngineStays, StateTyped DEF CallMoves, history
  <2> QED
    BY <1>1, <2>1, <2>2, <2>3, <2>4, <2>5, StoreStep, StateTyped DEF history
<1> QED
  BY <1>2, <1>3, <1>4 DEF ReplaceDraft

(* The Workspace is provisioned: its engine is ready, unless swept away.   *)
LEMMA ProvisionedMoves ==
  ASSUME IInv, NEW c \in Callers, call[c].pc \in {"engine", "tables"}, Provisioned(c),
         UNCHANGED <<form, registry>>, EngineKept'
  PROVE  /\ CallMoves(c) /\ InPlace(c)' /\ call'[c].pc \in {"reserve", "answer"}
         /\ MayFollow(Kind(c))'
<1>1. /\ call' \in [Callers -> Call] /\ OthersStay(c)
      /\ call'[c].expected = call[c].expected
      /\ \/ /\ form \in Setups
            /\ call'[c].pc = "reserve" /\ call'[c].kind = "binding"
         \/ /\ form \notin Setups
            /\ call'[c].pc = "answer" /\ call'[c].kind = call[c].kind
  BY ProvisionedCall, StateTyped
<1>2. /\ Committed("workspace") /\ Committed("workspace")' /\ call[c].kind = "workspace"
      /\ MayFollow("workspace")
  BY DEF IInv, InPlace, InOrder, registry, Committed, At, Kind
<1>3. CallMoves(c)
  BY <1>1, <1>2, CallTyped DEF CallMoves, Steps, Kinds
<1>4. InPlace(c)'
  <2>1. form \notin Setups => Answerable'
    BY <1>2 DEF Answerable
  <2> QED
    BY <1>1, <2>1 DEF InPlace, At, Kind, Kinds
<1>5. MayFollow(Kind(c))'
  BY <1>1, <1>2 DEF MayFollow, Kind, registry, Committed
<1> QED
  BY <1>1, <1>3, <1>4, <1>5

LEMMA LookForEngineIInv ==
  ASSUME IInv, NEW c \in Callers, LookForEngine(c)
  PROVE  IInv'
<1>1. UNCHANGED <<form, registry, stores, history>> /\ call[c].pc = "engine"
  BY DEF LookForEngine, At
<1>2. Kind(c) = "workspace" /\ MayFollow("workspace") /\ Committed("workspace")
  BY <1>1 DEF IInv, InPlace, InOrder, Kind
<1>3. CASE engine = "ready" /\ Provisioned(c)
  <2>1. EngineKept'
    BY <1>1, <1>3 DEF EngineKept, stores
  <2>2. /\ CallMoves(c) /\ InPlace(c)' /\ call'[c].pc \in {"reserve", "answer"}
        /\ MayFollow(Kind(c))'
    BY <1>1, <1>3, <2>1, ProvisionedMoves
  <2>3. MayFollow(call'[c].kind)
    BY <1>1, <2>2
    DEF MayFollow, registry, stores, history, PackageKept, EngineKept, Committed, Kind
  <2>4. call'[c].pc \notin {"connect", "tables"}
    BY <2>2
  <2> QED
    BY <1>1, <2>2, <2>3, <2>4, QuietStep, StateTyped DEF history
<1>4. CASE Goto(c, "provision")
  <2>1. CallMoves(c) /\ call'[c].pc = "provision" /\ call'[c].kind = "workspace"
    BY <1>1, <1>2, <1>4, GotoMoves DEF Steps, Kind
  <2>2. InPlace(c)'
    BY <1>1, <1>2, <2>1 DEF InPlace, At, Kind, registry, Committed
  <2> QED
    BY <1>1, <1>2, <2>1, <2>2, QuietStep, StateTyped DEF history
<1>5. CASE Fail(c)
  BY <1>1, <1>5, EndIInv, StateTyped DEF history
<1> QED
  BY <1>3, <1>4, <1>5 DEF LookForEngine

LEMMA ProvisionIInv ==
  ASSUME IInv, NEW c \in Callers, Provision(c)
  PROVE  IInv'
<1>1. UNCHANGED <<form, registry, stores, history>> /\ call[c].pc = "provision"
  BY DEF Provision, At
<1>2. Kind(c) = "workspace" /\ MayFollow("workspace") /\ Committed("workspace")
  BY <1>1 DEF IInv, InPlace, InOrder, Kind
<1>3. CASE Goto(c, "mkdirs")
  <2>1. CallMoves(c) /\ call'[c].pc = "mkdirs" /\ call'[c].kind = "workspace"
    BY <1>1, <1>2, <1>3, GotoMoves DEF Steps, Kind
  <2>2. InPlace(c)'
    BY <1>1, <1>2, <2>1 DEF InPlace, At, Kind, registry, Committed
  <2> QED
    BY <1>1, <1>2, <2>1, <2>2, QuietStep, StateTyped DEF history
<1>4. CASE Fail(c)
  BY <1>1, <1>4, EndIInv, StateTyped DEF history
<1> QED
  BY <1>3, <1>4 DEF Provision

(* One call makes the engine: the directories are new to it.               *)
LEMMA MakeDirectoriesIInv ==
  ASSUME IInv, NEW c \in Callers, MakeDirectories(c)
  PROVE  IInv'
<1>1. UNCHANGED <<form, registry, store, done, asks, faults>> /\ call[c].pc = "mkdirs"
      /\ engine' = "dirs"
  BY DEF MakeDirectories, At
<1>2. Kind(c) = "workspace" /\ MayFollow("workspace") /\ Committed("workspace")
  BY <1>1 DEF IInv, InPlace, InOrder, Kind
<1>3. (PackageKept => "data_version" \in swept \/ store'["data_version"] = "packaged")
      /\ \A k \in Stored : Whole(k) => Whole(k)'
  BY <1>1 DEF PackageKept, Whole
<1>4. CASE engine = "absent" /\ Goto(c, "connect") /\ UNCHANGED swept
  <2>1. CallMoves(c) /\ call'[c].pc = "connect" /\ call'[c].kind = "workspace"
    BY <1>1, <1>2, <1>4, GotoMoves DEF Steps, Kind
  <2>2. InPlace(c)'
    BY <1>1, <1>2, <2>1 DEF InPlace, At, Kind, registry, Committed
  <2>3. (PackageKept => PackageKept') /\ (EngineKept => EngineKept')
    BY <1>3, <1>4 DEF PackageKept, EngineKept
  <2>4. MayFollow(Kind(c))'
    BY <1>1, <1>2, <2>1 DEF MayFollow, Kind, registry, Committed
  <2>5. EngineApart'
    <3>1. swept \cap {"engine", "workspace"} = {} => \A d \in Callers : ~ Making(d)
      BY <1>4, StateTyped DEF EngineApart, Making, At
    <3> QED
      BY <1>1, <1>4, <2>1, <3>1 DEF EngineApart, Making, At, CallMoves, OthersStay
  <2> QED
    BY <1>1, <1>2, <1>3, <1>4, <2>1, <2>2, <2>3, <2>4, <2>5, StoreStep, StateTyped
<1>5. CASE /\ Fail(c)
           /\ swept' = IF engine \in {"empty", "ready"} THEN swept \cup {"engine"} ELSE swept
           /\ ~ (engine = "absent" /\ Whole("workspace"))
  <2>1. CallMoves(c) /\ InPlace(c)' /\ call'[c].pc = "idle"
    BY <1>5, FailMoves, IdleCall
  <2>2. swept' \subseteq Stored \cup {"engine"} /\ swept \subseteq swept'
    BY <1>5, StateTyped
  <2>3. (PackageKept => PackageKept') /\ (EngineKept => EngineKept')
    BY <1>3, <1>5, <2>2 DEF PackageKept, EngineKept
  <2>4. EngineApart'
    <3>1. CASE engine = "dirs" \/ engine \in {"empty", "ready"}
      BY <1>1, <1>5, <2>1, <2>2, <3>1, EngineStays, StateTyped DEF CallMoves
    <3>2. CASE engine = "absent"
      <4>1. swept \cap {"engine", "workspace"} = {} => \A d \in Callers : ~ Making(d)
        BY <3>2, StateTyped DEF EngineApart, Making, At
      <4> QED
        BY <2>1, <2>2, <4>1 DEF EngineApart, Making, At, CallMoves, OthersStay
    <3> QED
      BY <3>1, <3>2, StateTyped
  <2> QED
    BY <1>1, <1>2, <1>3, <2>1, <2>2, <2>3, <2>4, StoreStep, StateTyped
<1> QED
  BY <1>2, <1>4, <1>5 DEF MakeDirectories

LEMMA ConnectIInv ==
  ASSUME IInv, NEW c \in Callers, Connect(c)
  PROVE  IInv'
<1>1. /\ UNCHANGED <<form, registry, store, history>> /\ call[c].pc = "connect"
      /\ engine' = (IF engine = "dirs" THEN "empty" ELSE engine)
  BY DEF Connect, At
<1>2. Kind(c) = "workspace" /\ MayFollow("workspace") /\ Committed("workspace")
  BY <1>1 DEF IInv, InPlace, InOrder, Kind
<1>3. (PackageKept => PackageKept') /\ (EngineKept => EngineKept')
      /\ \A k \in Stored : Whole(k) => Whole(k)'
  BY <1>1 DEF PackageKept, EngineKept, Whole, history
<1>4. CASE engine = "absent" /\ Fail(c)
  BY <1>1, <1>4, EndIInv, StateTyped DEF history, stores
<1>5. CASE Goto(c, "tables")
  <2>1. CallMoves(c) /\ call'[c].pc = "tables" /\ call'[c].kind = "workspace"
    BY <1>1, <1>2, <1>5, GotoMoves DEF Steps, Kind
  <2>2. InPlace(c)'
    BY <1>1, <1>2, <2>1 DEF InPlace, At, Kind, registry, Committed
  <2>3. MayFollow(Kind(c))'
    BY <1>1, <1>2, <2>1 DEF MayFollow, Kind, registry, Committed
  <2>4. EngineApart'
    BY <1>1, <2>1, StateTyped DEF EngineApart, Making, At, CallMoves, OthersStay, history
  <2> QED
    BY <1>1, <1>2, <1>3, <2>1, <2>2, <2>3, <2>4, StoreStep, StateTyped DEF history
<1> QED
  BY <1>4, <1>5 DEF Connect

LEMMA InitEngineIInv ==
  ASSUME IInv, NEW c \in Callers, InitEngine(c)
  PROVE  IInv'
<1>1. /\ UNCHANGED <<form, registry, store, history>> /\ call[c].pc = "tables"
      /\ engine' = (IF engine = "empty" THEN "ready" ELSE engine)
      /\ Provisioned(c)
  BY DEF InitEngine, At
<1>2. Committed("workspace")
  BY <1>1 DEF IInv, InPlace
<1>3. EngineKept'
  BY <1>1, StateTyped DEF EngineKept, EngineApart, At, history
<1>4. (PackageKept => PackageKept') /\ \A k \in Stored : Whole(k) => Whole(k)'
  BY <1>1 DEF PackageKept, Whole, history
<1>5. /\ CallMoves(c) /\ InPlace(c)' /\ call'[c].pc \in {"reserve", "answer"}
      /\ MayFollow(Kind(c))'
  BY <1>1, <1>3, ProvisionedMoves
<1>6. EngineApart'
  BY <1>1, <1>5, EngineStays, StateTyped DEF CallMoves, Making, history
<1> QED
  BY <1>1, <1>2, <1>3, <1>4, <1>5, <1>6, StoreStep, StateTyped DEF history

LEMMA EngineFailsIInv ==
  ASSUME IInv, NEW c \in Callers, EngineFails(c)
  PROVE  IInv'
<1>1. /\ UNCHANGED <<form, registry, store, done, swept, asks>>
      /\ call[c].pc \in {"connect", "tables"} /\ engine' = "absent" /\ Fail(c)
  BY DEF EngineFails
<1>2. faults' \in 0 .. MaxFaults
  BY BoundsAssumption, StateTyped DEF EngineFails
<1>3. CallMoves(c) /\ InPlace(c)' /\ call'[c].pc = "idle"
  BY <1>1, FailMoves, IdleCall
<1>4. (PackageKept => PackageKept') /\ \A k \in Stored : Whole(k) => Whole(k)'
  BY <1>1 DEF PackageKept, Whole
<1>5. EngineKept => EngineKept'
  BY <1>1, StateTyped DEF EngineKept, EngineApart, At
<1>6. EngineApart'
  BY <1>1, <1>3, EngineStays, StateTyped DEF CallMoves, Making
<1> QED
  BY <1>1, <1>2, <1>3, <1>4, <1>5, <1>6, StoreStep, StateTyped

(* Another form changes the Project and nothing of this one.               *)
LEMMA OtherIInv ==
  ASSUME IInv, NEW kind \in Others, Other(kind)
  PROVE  IInv'
<1>1. Sound /\ Typed /\ TypeOK
  BY DEF IInv, RegistryIsSound, Sound
<1>2. Sound'
  BY <1>1, SoundOther
<1>3. /\ UNCHANGED <<form, intents, rows, stores, call, done, swept, asks>>
      /\ revision' = revision + 1 /\ revision \in Nat /\ faults' \in 0 .. MaxFaults
  BY <1>1, BoundsAssumption DEF Other, TypeOK
<1>4. others' \in [Shared -> SUBSET Nat]
  <2> DEFINE x == IF kind = "project" THEN revision' ELSE NextNumber(kind)
  <2>1. x \in Nat
    <3>1. CASE kind \in Numbered
      BY <1>1, <1>3, <3>1, NextNumberIs
    <3>2. CASE kind \notin Numbered
      BY <1>3, <3>2 DEF NextNumber
    <3> QED
      BY <3>1, <3>2
  <2>2. others' = [others EXCEPT ![kind] = @ \cup {x}]
    BY DEF Other
  <2> HIDE DEF x
  <2> QED
    BY <1>1, <2>1, <2>2, OthersAssumption DEF TypeOK
<1>5. TypeOK'
  <2>1. \A k \in Kinds : intents[k].expected \in 0 .. revision'
    BY <1>1, <1>3 DEF TypeOK
  <2>2. \A d \in Callers : call[d] = Idle \/ call[d] \in
          [pc : Steps, kind : Kinds, expected : 0 .. revision', created : BOOLEAN]
    BY <1>1, <1>3 DEF TypeOK
  <2> QED
    BY <1>1, <1>3, <1>4, <2>1, <2>2 DEF TypeOK, stores
<1>6. Typed' /\ LineageIsWhole' /\ SuccessIsWhole' /\ InOrder' /\ EngineApart'
      /\ \A d \in Callers : InPlace(d)'
  BY <1>3 DEF IInv, Typed, LineageIsWhole, SuccessIsWhole, CommittedIsWhole, InOrder, EngineApart,
              InPlace, stores, MayFollow, PackageKept, EngineKept, Answerable, Committed, Whole, At, Kind, Making
<1> QED
  BY <1>2, <1>5, <1>6 DEF IInv, RegistryIsSound, Sound

---------------------------------------------------------------------------
LEMMA InitIInv == Init => IInv
<1> SUFFICES ASSUME Init PROVE IInv
  OBVIOUS
<1>1. NoIntent \in Intent /\ NoIntent.state = "none" /\ NoIntent.expected = 0
  BY DEF NoIntent, Intent, Owner, Free
<1>2. /\ form \in Forms /\ revision = Existing /\ revision \in Nat
      /\ \A k \in Kinds : intents[k] = NoIntent /\ rows[k] = {}
      /\ \A k \in Shared : others[k] = {}
      /\ \A k \in Stored : store[k] = "absent"
      /\ engine = "absent" /\ ~ done /\ swept = {} /\ asks = 0 /\ faults = 0
      /\ \A c \in Callers : call[c] = Idle /\ call[c].pc = "idle"
  BY IdleCall DEF Init, Existing
<1>3. Typed
  BY <1>1, IdleCall DEF Typed, Init
<1>4. TypeOK
  <2>1. others \in [Shared -> SUBSET Nat] /\ (done \in BOOLEAN)
        /\ store \in [Stored -> {"absent", "dir", "empty", "ready", "packaged"}]
    BY DEF Init
  <2>2. asks \in 0 .. MaxAsks /\ faults \in 0 .. MaxFaults
    BY <1>2, BoundsAssumption
  <2> QED
    BY <1>1, <1>2, <2>1, <2>2 DEF TypeOK
<1>5. Changes(rows) = {} /\ Changes(others) = {}
  BY DEF Changes, Init
<1>6. IsFiniteSet({}) /\ Cardinality({}) = 0
  BY FS_EmptySet
<1>7. OneOwner /\ NoLostChange
  <2>1. Cardinality(Changes(rows)) = 0 /\ Cardinality(Changes(others)) = 0
    BY <1>5, <1>6
  <2> QED
    BY <1>2, <2>1 DEF OneOwner, NoLostChange
<1>8. NumberedApart
  <2> SUFFICES ASSUME NEW k \in Numbered
               PROVE  /\ Numbers(k) \cap others[k] = {}
                      /\ Numbers(k) \cup others[k] =
                           1 .. Cardinality(Numbers(k)) + Cardinality(others[k])
    BY DEF NumberedApart, Numbers
  <2>1. Numbers(k) = {} /\ others[k] = {}
    BY <1>2 DEF Numbers, Numbered, Kinds, Shared
  <2>2. Cardinality(Numbers(k)) = 0 /\ Cardinality(others[k]) = 0
    BY <1>6, <2>1
  <2> QED
    BY <2>1, <2>2
<1>9. NumbersHold
  <2>1. IsFiniteSet(Changes(rows)) /\ IsFiniteSet(Changes(others))
    BY <1>5, <1>6
  <2>2. \A k \in Shared : IsFiniteSet(others[k])
    BY <1>2, <1>6
  <2>3. \A n \in others["project"] : n <= revision
    BY <1>2 DEF Shared
  <2>4. \A k \in Numbered : intents[k].state = "none"
    BY <1>1, <1>2 DEF Numbered, Kinds
  <2> QED
    BY <1>2, <2>1, <2>2, <2>3, <2>4 DEF NumbersHold, Existing
<1>10. (\A c \in Callers : InPlace(c)) /\ InOrder /\ EngineApart
  BY <1>1, <1>2 DEF InPlace, InOrder, EngineApart, At, Making
<1>11. LineageIsWhole /\ SuccessIsWhole
  BY <1>1, <1>2 DEF LineageIsWhole, SuccessIsWhole, CommittedIsWhole, Committed, Kinds
<1> QED
  BY <1>3, <1>4, <1>7, <1>8, <1>9, <1>10, <1>11 DEF IInv, RegistryIsSound

LEMMA NextIInv == IInv /\ [Next]_vars => IInv'
<1> SUFFICES ASSUME IInv, [Next]_vars PROVE IInv'
  OBVIOUS
<1>1. ASSUME NEW c \in Callers, Ask(c) \/ Stop(c) \/ StoreFails(c) \/ EngineFails(c)
      PROVE  IInv'
  BY <1>1, AskIInv, StopIInv, StoreFailsIInv, EngineFailsIInv
<1>2. ASSUME NEW c \in Callers, Serve(c)
      PROVE  IInv'
  BY <1>2, LookIInv, ReserveIInv, InsertIInv, InsertProjectIInv, BindIInv, StoreIInv, OpenIInv,
     InitStoreIInv, FinishIInv, LookForPackageIInv, ReplaceDraftIInv, LookForEngineIInv,
     ProvisionIInv, MakeDirectoriesIInv, ConnectIInv, InitEngineIInv,
     CommittedSetupIInv, AnswerIInv DEF Serve
<1>3. ASSUME NEW kind \in Others, Other(kind)
      PROVE  IInv'
  BY <1>3, OtherIInv
<1>4. CASE UNCHANGED vars
  <2>1. UNCHANGED <<form, intents, rows, others, revision, store, engine, call, done, swept, asks, faults>>
    BY <1>4 DEF vars, registry, stores, history
  <2>2. RegistryIsSound'
    BY <2>1 DEF IInv, RegistryIsSound, TypeOK, OneOwner, NumberedApart, NoLostChange, Existing
  <2>3. Typed' /\ NumbersHold'
    BY <2>1 DEF IInv, Typed, NumbersHold
  <2>4. LineageIsWhole' /\ SuccessIsWhole' /\ InOrder' /\ EngineApart'
        /\ \A d \in Callers : InPlace(d)'
    BY <2>1 DEF IInv, LineageIsWhole, SuccessIsWhole, CommittedIsWhole, InOrder, EngineApart,
                InPlace, MayFollow, PackageKept, EngineKept, Answerable, Committed, Whole, At, Kind, Making
  <2> QED
    BY <2>2, <2>3, <2>4 DEF IInv
<1> QED
  BY <1>1, <1>2, <1>3, <1>4 DEF Next

LEMMA Invariance == Spec => []IInv
BY InitIInv, NextIInv, PTL DEF Spec

---------------------------------------------------------------------------
(* Each part exists once, a number is taken once and without a gap, and    *)
(* the Project's revision counts its changes: whatever threads serve the   *)
(* form (reserve_intent, the insert transactions, _finish_pending_intent)  *)
(* and whatever other forms change meanwhile.                              *)
THEOREM RegistryStaysSound == Spec => []RegistryIsSound
BY Invariance, PTL DEF IInv

(* No part precedes the one it belongs to, wherever a call is cut short.   *)
THEOREM LineageStaysWhole == Spec => []LineageIsWhole
BY Invariance, PTL DEF IInv

(* A committed creation has its row and its store, and an answered form    *)
(* all its parts, unless a call that overlapped swept them away.           *)
THEOREM AnswersAreWhole == Spec => []SuccessIsWhole
BY Invariance, PTL DEF IInv

=============================================================================
